--------------------------- MODULE DocumentService ---------------------------
(***************************************************************************)
(* The HTTP handlers of rag/service.py that change the knowledge base:     *)
(* upload_document, delete_document and delete_work.  Every await is a     *)
(* step boundary: the worker and the other requests run between the steps  *)
(* of a request.  An early return that changes nothing (404, 503, 400,     *)
(* 413) is the absence of the step.                                        *)
(***************************************************************************)
EXTENDS RagState

Serving == app = "up"

SetUpload(d, pc) == upload' = [upload EXCEPT ![d] = pc]

UploadOnly(d) == UNCHANGED <<deletion, workDeletion, lifespan, worker>>

-----------------------------------------------------------------------------
(* upload_document *)

\* The work is there, Redis is configured, the body is read and valid
UploadStart(d) ==
  /\ Serving /\ redis /\ workExists
  /\ upload[d] = "idle" /\ status[d] = "none"
  /\ SetUpload(d, "checked")
  /\ NoFault
  /\ UploadOnly(d) /\ UNCHANGED durable

\* Mutant: documents.work_id without its foreign key
UploadInsertUnchecked(d) ==
  /\ upload[d] = "checked"
  /\ status' = [status EXCEPT ![d] = "pending"]
  /\ SetUpload(d, "inserted")
  /\ NoFault
  /\ UploadOnly(d) /\ UNCHANGED <<workExists, chunkCount, vectors, file, queue>>

\* session.add(doc), commit.  The foreign key refuses the row of a document
\* whose work was deleted while the body was read.
UploadInsert(d) ==
  /\ upload[d] = "checked"
  /\ \/ /\ workExists
        /\ status' = [status EXCEPT ![d] = "pending"]
        /\ SetUpload(d, "inserted")
        /\ NoFault
     \/ /\ ~workExists
        /\ SetUpload(d, "rejected")
        /\ NoFault /\ UNCHANGED status
     \/ /\ SetUpload(d, "rejected")
        /\ Fault("db") /\ UNCHANGED status
     \/ /\ workExists
        /\ status' = [status EXCEPT ![d] = "pending"]
        /\ SetUpload(d, "rejected")
        /\ Fault("ack")
  /\ UploadOnly(d) /\ UNCHANGED <<workExists, chunkCount, vectors, file, queue>>

\* session.refresh(doc), which raises when the row is gone, and save_upload_bytes
UploadSave(d) ==
  /\ upload[d] = "inserted"
  /\ \/ /\ RowExists(d)
        /\ file' = [file EXCEPT ![d] = TRUE]
        /\ SetUpload(d, "saved")
        /\ NoFault
     \/ /\ RowExists(d)
        /\ SetUpload(d, "saveFailed")
        /\ Fault("disk") /\ UNCHANGED file
     \/ /\ ~RowExists(d)
        /\ SetUpload(d, "rejected")
        /\ NoFault /\ UNCHANGED file
     \/ /\ SetUpload(d, "rejected")
        /\ Fault("db") /\ UNCHANGED file
  /\ UploadOnly(d) /\ UNCHANGED <<db, vectors, queue>>

UploadEnqueue(d) ==
  /\ upload[d] = "saved"
  /\ \/ EnqueueIngest(d) /\ SetUpload(d, "accepted")
     \/ EnqueueIngestRaises(d) /\ SetUpload(d, "pushLost")
  /\ UploadOnly(d) /\ UNCHANGED <<db, vectors, file>>

\* Mutant: the except branch answers 503 without settling the row
UploadPushRaisesUnsettled(d) ==
  /\ upload[d] = "pushLost"
  /\ file' = [file EXCEPT ![d] = FALSE] /\ NoFault
  /\ SetUpload(d, "rejected")
  /\ UploadOnly(d) /\ UNCHANGED <<db, vectors, queue>>

\* except Exception of enqueue_ingest: when delete_upload_file raises, the row is left
\* as it is
UploadPushRaises(d) ==
  /\ upload[d] = "pushLost"
  /\ \/ DeleteUploadFile(d) /\ SetUpload(d, "enqueueFailed")
     \/ DeleteUploadFileRaises(d) /\ SetUpload(d, "rejected")
  /\ UploadOnly(d) /\ UNCHANGED <<db, vectors, queue>>

\* doc.status = "failed" and commit, after either failure.  This session read
\* the row when it was pending with no chunks; StaleDataError if it is gone.  The
\* request ends with an error whether or not the commit is acknowledged.
UploadMarkFailed(d) ==
  /\ upload[d] \in {"saveFailed", "enqueueFailed"}
  /\ \/ /\ RowExists(d)
        /\ UpdateRow(d, [status |-> "pending", chunks |-> 0],
                        [status |-> "failed", chunks |-> 0])
        /\ NoFault
     \/ ~RowExists(d) /\ NoFault /\ UNCHANGED db
     \/ Fault("db") /\ UNCHANGED db
  /\ SetUpload(d, "rejected")
  /\ UploadOnly(d) /\ UNCHANGED <<vectors, file, queue>>

-----------------------------------------------------------------------------
(* delete_document *)

SetDeletion(d, pc, n) == deletion' = [deletion EXCEPT ![d] = [pc |-> pc, seen |-> n]]

DeleteDocGet(d) ==
  /\ Serving /\ workExists /\ RowExists(d)
  /\ deletion[d].pc = "idle"
  /\ SetDeletion(d, IF chunkCount[d] > 0 THEN "vectors" ELSE "row", chunkCount[d])
  /\ NoFault
  /\ UNCHANGED <<durable, upload, workDeletion, lifespan, worker>>

\* _delete_document_vectors, for the chunk_count read above; if it raises, the
\* request ends with the row in place
DeleteDocVectors(d) ==
  /\ deletion[d].pc = "vectors"
  /\ \/ /\ vectors' = [vectors EXCEPT ![d] = @ \ IdsForDocument(deletion[d].seen)]
        /\ SetDeletion(d, "row", 0)
        /\ NoFault
     \/ /\ vectors' = [vectors EXCEPT ![d] = @ \ IdsForDocument(deletion[d].seen)]
        /\ SetDeletion(d, "idle", 0)
        /\ Fault("ack")
     \/ /\ SetDeletion(d, "idle", 0)
        /\ Fault("vector") /\ UNCHANGED vectors
  /\ UNCHANGED <<db, file, queue, upload, workDeletion, lifespan, worker>>

\* session.delete(doc), commit; a row that is gone already is only warned about
DeleteDocRow(d) ==
  /\ deletion[d].pc = "row"
  /\ \/ /\ RowExists(d)
        /\ status' = [status EXCEPT ![d] = "deleted"]
        /\ chunkCount' = [chunkCount EXCEPT ![d] = 0]
        /\ NoFault
     \/ ~RowExists(d) /\ NoFault /\ UNCHANGED <<status, chunkCount>>
     \/ Fault("db") /\ UNCHANGED <<status, chunkCount>>
  /\ SetDeletion(d, "idle", 0)
  /\ UNCHANGED <<workExists, vectors, file, queue, upload, workDeletion, lifespan, worker>>

-----------------------------------------------------------------------------
(* delete_work *)

NoChunks == [d \in Docs |-> 0]

DeleteWorkGet ==
  /\ Serving /\ workExists
  /\ workDeletion.pc = "idle"
  /\ LET seen == [d \in Docs |-> IF RowExists(d) THEN chunkCount[d] ELSE 0]
     IN  workDeletion' = [pc   |-> IF seen = NoChunks THEN "rows" ELSE "vectors",
                          seen |-> seen]
  /\ NoFault
  /\ UNCHANGED <<durable, upload, deletion, lifespan, worker>>

DeleteWorkVectors ==
  /\ workDeletion.pc = "vectors"
  /\ \/ /\ vectors' = [d \in Docs |-> vectors[d] \ IdsForDocument(workDeletion.seen[d])]
        /\ workDeletion' = [pc |-> "rows", seen |-> NoChunks]
        /\ NoFault
     \/ /\ vectors' = [d \in Docs |-> vectors[d] \ IdsForDocument(workDeletion.seen[d])]
        /\ workDeletion' = [pc |-> "idle", seen |-> NoChunks]
        /\ Fault("ack")
     \/ /\ workDeletion' = [pc |-> "idle", seen |-> NoChunks]
        /\ Fault("vector") /\ UNCHANGED vectors
  /\ UNCHANGED <<db, file, queue, upload, deletion, lifespan, worker>>

\* session.delete(work), commit; ON DELETE CASCADE takes the documents inserted
\* after the select as well
DeleteWorkRows ==
  /\ workDeletion.pc = "rows"
  /\ \/ /\ workExists' = FALSE
        /\ status' = [d \in Docs |-> IF RowExists(d) THEN "deleted" ELSE status[d]]
        /\ chunkCount' = NoChunks
        /\ NoFault
     \/ Fault("db") /\ UNCHANGED db
  /\ workDeletion' = [pc |-> "idle", seen |-> NoChunks]
  /\ UNCHANGED <<vectors, file, queue, upload, deletion, lifespan, worker>>

-----------------------------------------------------------------------------
\* The steps a request takes once it has been accepted
UploadStep(d) ==
  \/ UploadInsert(d) \/ UploadSave(d) \/ UploadEnqueue(d)
  \/ UploadPushRaises(d) \/ UploadMarkFailed(d)

DeletionStep(d) == DeleteDocVectors(d) \/ DeleteDocRow(d)

WorkDeletionStep == DeleteWorkVectors \/ DeleteWorkRows

HandlerNext ==
  \/ \E d \in Docs : \/ UploadStart(d) \/ UploadStep(d)
                     \/ DeleteDocGet(d) \/ DeletionStep(d)
  \/ DeleteWorkGet \/ WorkDeletionStep
=============================================================================

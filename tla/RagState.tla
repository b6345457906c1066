------------------------------ MODULE RagState ------------------------------
(***************************************************************************)
(* The stores the RAG knowledge base of src/rag lives in, shared by the    *)
(* HTTP handlers (DocumentService), the background worker (IngestWorker)   *)
(* and the application's lifespan (RagIngest):                             *)
(*                                                                         *)
(*  - PostgreSQL rows "works" and "documents" (rag/models.py),             *)
(*  - the PGVector collection (rag/vectorstore.py),                        *)
(*  - the upload directory (rag/storage.py),                               *)
(*  - the Redis list of ingest jobs (rag/queue.py).                        *)
(*                                                                         *)
(* These survive a crash; the process-local state below them does not.     *)
(* One work of one user owns every document: the code never relates two    *)
(* works.  A document id stands for its autoincrement key, which is never  *)
(* reissued, for its storage path and for its IngestJob, both functions of *)
(* the row.  Files and vectors carry no text, only presence.               *)
(***************************************************************************)
EXTENDS Integers, Sequences, FiniteSets

CONSTANTS Docs,        \* document ids that may be allocated
          NumChunks,   \* NumChunks[d]: chunks split_text_with_chapters makes of d's file;
                       \* 0 when it is blank or not UTF-8, which raises
          BatchSize,   \* settings.RAG_INGEST_BATCH_SIZE
          MaxParallel, \* settings.RAG_INGEST_MAX_PARALLEL
          Faults,      \* the kinds of environment failure that may happen
          MaxFaults    \* bound: how many budgeted failures one behaviour may contain

FaultKinds == {"crash",       \* the process dies or is stopped
               "redis_push",  \* LPUSH fails, or its reply is lost (with or without effect)
               "redis_pop",   \* the reply to BRPOP is lost after the element was removed
               "no_redis",    \* startup continues without Redis (REDIS_OPTIONAL)
               "db",          \* a PostgreSQL statement or commit raises, without effect
               "ack",         \* a commit of rows or of vectors takes effect and raises:
                              \* its acknowledgement is lost
               "vector",      \* PGVector.delete raises, without effect
               "disk",        \* an OSError of saving, reading or unlinking an upload file
               "listing",     \* an OSError of listing its directory, to see whether it is empty
               "embed",       \* an embedding request or PGVector.add_documents raises
               "timeout"}     \* RAG_INGEST_BATCH_TIMEOUT_SECONDS expires

ASSUME ConstantsAssumption ==
  /\ NumChunks \in [Docs -> Nat]
  /\ BatchSize \in Nat \ {0}
  /\ MaxParallel \in Nat \ {0}
  /\ Faults \subseteq FaultKinds
  /\ MaxFaults \in Nat

VARIABLES
  \* Durable: PostgreSQL, PGVector, disk, Redis
  workExists,    \* the row of the work
  status,        \* documents.status; "none": id not allocated, "deleted": row gone
  chunkCount,    \* documents.chunk_count
  vectors,       \* chunk indices of each document present in the collection
  file,          \* whether the document's upload file is on disk
  queue,         \* the Redis list; LPUSH appends, BRPOP takes the head
  \* Local to the server process
  app,           \* "down", "starting" (lifespan before yield) or "up"
  redis,         \* app.state.redis is not None
  recover,       \* documents recover_pending_ingest_jobs has still to look at
  upload,        \* progress of upload_document, per document
  deletion,      \* progress of delete_document, per document
  workDeletion,  \* progress of delete_work
  waiting,       \* tasks blocked in Semaphore.acquire, in FIFO order
  job,           \* the semaphore's permits and the process_ingest_job each runs
  late,          \* add_documents threads abandoned by wait_for, per batch
  \* Environment
  faults         \* budgeted failures so far

db      == <<workExists, status, chunkCount>>
durable == <<db, vectors, file, queue>>
handlers == <<upload, deletion, workDeletion>>
lifespan == <<app, redis, recover>>
worker  == <<waiting, job, late>>
vars    == <<durable, handlers, lifespan, worker, faults>>

-----------------------------------------------------------------------------
(* Rows.  A session reads a row, assigns attributes and commits; SQLAlchemy  *)
(* emits an UPDATE of the attributes that differ from what the session read. *)

DocumentStatus == {"pending", "done", "failed"}

RowExists(d) == status[d] \in DocumentStatus

Row(d) == [status |-> status[d], chunks |-> chunkCount[d]]

RowType == [status : DocumentStatus, chunks : Nat]

UpdateRow(d, seen, new) ==
  /\ status' = [status EXCEPT ![d] = IF new.status # seen.status
                                     THEN new.status ELSE @]
  /\ chunkCount' = [chunkCount EXCEPT ![d] = IF new.chunks # seen.chunks
                                             THEN new.chunks ELSE @]
  /\ UNCHANGED workExists

-----------------------------------------------------------------------------
(* Chunks and batches *)

\* ids_for_document: the vector ids of a document said to have n chunks
IdsForDocument(n) == 0 .. n - 1

\* The ids of the batch of d that starts at chunk index from (iter_chunk_batches)
BatchIds(d, from) ==
  {i \in IdsForDocument(NumChunks[d]) : from <= i /\ i < from + BatchSize}

\* Where the next batch of d starts, and also the sum of the batch sizes so far
NextBatch(d, from) ==
  IF from + BatchSize < NumChunks[d] THEN from + BatchSize ELSE NumChunks[d]

Batches == UNION {{d} \X IdsForDocument(NumChunks[d]) : d \in Docs}

-----------------------------------------------------------------------------
(* Failures *)

Fault(kind) == /\ kind \in Faults
               /\ faults < MaxFaults
               /\ faults' = faults + 1

NoFault == UNCHANGED faults

-----------------------------------------------------------------------------
(* Redis list.  The client retries a command once on a connection error, so  *)
(* a push whose reply is lost is pushed again; when the retry fails too the  *)
(* caller sees an exception although the list may hold the element, twice.   *)

EnqueueIngest(d) ==
  \/ /\ queue' = Append(queue, d)
     /\ NoFault
  \/ /\ queue' = Append(Append(queue, d), d)
     /\ Fault("redis_push")

EnqueueIngestRaises(d) ==
  /\ queue' \in {queue, Append(queue, d), Append(Append(queue, d), d)}
  /\ Fault("redis_push")

-----------------------------------------------------------------------------
(* Upload files.  delete_upload_file swallows an OSError of unlink and of    *)
(* rmdir, but not one of iterdir, which lists the directory in between.      *)

Removed(d) == file' = [file EXCEPT ![d] = FALSE]

DeleteUploadFile(d) ==
  \/ Removed(d) /\ NoFault
  \/ UNCHANGED file /\ Fault("disk")

\* One failure of the disk may hit both calls
DeleteUploadFileRaises(d) ==
  /\ Removed(d) \/ ("disk" \in Faults /\ UNCHANGED file)
  /\ Fault("listing")

-----------------------------------------------------------------------------
(* The records of the process-local state *)

\* "pushLost": lpush will raise, whatever Redis has executed of it
UploadPC == {"idle", "checked", "inserted", "saved", "pushLost", "saveFailed",
             "enqueueFailed", "accepted", "rejected"}

Slots == 1 .. MaxParallel

IdleJob == [pc |-> "idle"]

\* "unlink": delete_upload_file after _mark_document_done, where what it raises fails the
\* job; "failUnlink": the one after _mark_document_failed
UnlinkPC == {"unlink", "failUnlink"}

JobPC == {"adding", "added", "doneGet", "doneCommit",
          "rollback", "failGet", "failCommit"} \cup UnlinkPC

\* seen: the row as the session opened by _mark_document_done or
\* _mark_document_failed read it; NotRead before that
NotRead == [status |-> "none", chunks |-> 0]

JobType == [pc : {"idle"}]
             \cup [pc : JobPC, doc : Docs, written : Nat, seen : RowType \cup {NotRead}]

Running(d) == \E w \in Slots : job[w].pc # "idle" /\ job[w].doc = d

Elements(seq) == {seq[i] : i \in DOMAIN seq}

\* The types of the stores and of the process: in particular a row is read by a
\* job's session only while it is there
TypeOK ==
  /\ workExists \in BOOLEAN
  /\ status \in [Docs -> DocumentStatus \cup {"none", "deleted"}]
  /\ chunkCount \in [Docs -> Nat]
  /\ vectors \in [Docs -> SUBSET Nat]
  /\ file \in [Docs -> BOOLEAN]
  /\ queue \in Seq(Docs)
  /\ app \in {"down", "starting", "up"}
  /\ redis \in BOOLEAN
  /\ recover \in SUBSET Docs
  /\ upload \in [Docs -> UploadPC]
  /\ deletion \in [Docs -> [pc : {"idle", "vectors", "row"}, seen : Nat]]
  /\ workDeletion \in [pc : {"idle", "vectors", "rows"}, seen : [Docs -> Nat]]
  /\ waiting \in Seq(Docs)
  /\ job \in [Slots -> JobType]
  /\ late \in [Batches -> Nat]
  /\ faults \in Nat
=============================================================================

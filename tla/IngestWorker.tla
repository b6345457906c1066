---------------------------- MODULE IngestWorker ----------------------------
(***************************************************************************)
(* The background worker of rag/worker.py: run_ingest_worker takes jobs    *)
(* off the Redis list and starts a task for each, the tasks queue on a     *)
(* semaphore with RAG_INGEST_MAX_PARALLEL permits, and process_ingest_job  *)
(* reads the file, adds the chunks batch by batch and settles the row.     *)
(*                                                                         *)
(* A batch is added by a thread that asyncio.wait_for gives up on after    *)
(* the timeout without being able to stop it: the abandoned thread is in   *)
(* "late" and may still commit.                                            *)
(***************************************************************************)
EXTENDS RagState

SetJob(w, new) == job' = [job EXCEPT ![w] = new]

SetPC(w, next) == SetJob(w, [job[w] EXCEPT !.pc = next])

\* What a job never touches
JobOnly == UNCHANGED <<workExists, queue, handlers, lifespan, waiting>>

-----------------------------------------------------------------------------
(* run_ingest_worker, _run_job_with_semaphore *)

\* BRPOP and create_task; when the reply is lost the element is gone and the
\* loop goes on after logging the error
Dequeue ==
  /\ app = "up" /\ redis
  /\ queue # <<>>
  /\ queue' = Tail(queue)
  /\ \/ waiting' = Append(waiting, Head(queue)) /\ NoFault
     \/ UNCHANGED waiting /\ Fault("redis_pop")
  /\ UNCHANGED <<db, vectors, file, handlers, lifespan, job, late>>

Splits(d) == file[d] /\ NumChunks[d] > 0

\* A permit is taken and process_ingest_job runs up to its first await: the
\* file is looked up, read and split, any of which may raise
Acquire(w) ==
  /\ waiting # <<>> /\ job[w].pc = "idle"
  /\ LET d == Head(waiting)
         Begin(next) == SetJob(w, [pc |-> next, doc |-> d, written |-> 0, seen |-> NotRead])
     IN  \/ Splits(d) /\ Begin("adding") /\ NoFault
         \/ ~Splits(d) /\ Begin("failGet") /\ NoFault
         \/ file[d] /\ Begin("failGet") /\ Fault("disk")
  /\ waiting' = Tail(waiting)
  /\ UNCHANGED <<durable, handlers, lifespan, late>>

-----------------------------------------------------------------------------
(* The batch loop of process_ingest_job *)

\* Mutant: process_ingest_job without its rollback
FailPCNoRollback(w) == "failGet"

\* Where except Exception goes: the vectors are rolled back only if some batch
\* was counted
FailPC(w) == IF job[w].written > 0 THEN "rollback" ELSE "failGet"

Batch(w) == <<job[w].doc, job[w].written>>

\* The thread's add_documents commits: an upsert by vector id
AddCommits(w) ==
  /\ job[w].pc = "adding"
  /\ vectors' = [vectors EXCEPT ![job[w].doc] = @ \cup BatchIds(job[w].doc, job[w].written)]
  /\ SetPC(w, "added")
  /\ NoFault
  /\ JobOnly /\ UNCHANGED <<status, chunkCount, file, late>>

\* An embedding request raises, or add_documents does, before its commit or after it
AddRaises(w) ==
  /\ job[w].pc = "adding"
  /\ \/ UNCHANGED vectors /\ Fault("embed")
     \/ /\ vectors' = [vectors EXCEPT ![job[w].doc] = @ \cup BatchIds(job[w].doc, job[w].written)]
        /\ Fault("ack")
  /\ SetPC(w, FailPC(w))
  /\ JobOnly /\ UNCHANGED <<status, chunkCount, file, late>>

\* Mutant: the loop ends one chunk early, and drops a last batch of one
BatchDoneShort(w) ==
  /\ job[w].pc = "added"
  /\ LET n == NextBatch(job[w].doc, job[w].written)
     IN  SetJob(w, [job[w] EXCEPT
           !.written = n,
           !.pc = IF n < NumChunks[job[w].doc] - 1 THEN "adding" ELSE "doneGet"])
  /\ NoFault
  /\ JobOnly /\ UNCHANGED <<db, vectors, file, late>>

\* written += n, and on to the next batch or to _mark_document_done
BatchDone(w) ==
  /\ job[w].pc = "added"
  /\ LET n == NextBatch(job[w].doc, job[w].written)
     IN  SetJob(w, [job[w] EXCEPT
           !.written = n,
           !.pc = IF n < NumChunks[job[w].doc] THEN "adding" ELSE "doneGet"])
  /\ NoFault
  /\ JobOnly /\ UNCHANGED <<db, vectors, file, late>>

\* TimeoutError, before or just after the thread's commit
BatchTimeout(w) ==
  /\ \/ job[w].pc = "adding" /\ late' = [late EXCEPT ![Batch(w)] = @ + 1]
     \/ job[w].pc = "added"  /\ UNCHANGED late
  /\ SetPC(w, FailPC(w))
  /\ Fault("timeout")
  /\ JobOnly /\ UNCHANGED <<db, vectors, file>>

\* An abandoned thread ends, with or without its commit
LateEnds(b) ==
  /\ late[b] > 0
  /\ late' = [late EXCEPT ![b] = @ - 1]
  /\ \/ vectors' = [vectors EXCEPT ![b[1]] = @ \cup BatchIds(b[1], b[2])]
     \/ UNCHANGED vectors
  /\ NoFault
  /\ UNCHANGED <<db, file, queue, handlers, lifespan, waiting, job>>

-----------------------------------------------------------------------------
(* Settling the row *)

\* Mutant: _mark_document_done without "if doc is None: return"
MarkDoneGetUnchecked(w) ==
  /\ job[w].pc = "doneGet"
  /\ SetJob(w, [job[w] EXCEPT !.pc = "doneCommit", !.seen = Row(job[w].doc)])
  /\ NoFault
  /\ JobOnly /\ UNCHANGED <<db, vectors, file, late>>

\* session.get in _mark_document_done; a row that is gone is not an error
MarkDoneGet(w) ==
  /\ job[w].pc = "doneGet"
  /\ \/ /\ RowExists(job[w].doc)
        /\ SetJob(w, [job[w] EXCEPT !.pc = "doneCommit", !.seen = Row(job[w].doc)])
        /\ NoFault
     \/ ~RowExists(job[w].doc) /\ SetPC(w, "unlink") /\ NoFault
     \/ SetPC(w, FailPC(w)) /\ Fault("db")
  /\ JobOnly /\ UNCHANGED <<db, vectors, file, late>>

\* commit in _mark_document_done: an UPDATE of a row that is gone raises
\* StaleDataError, and the job takes the except path, as it does when the row is
\* done and the acknowledgement is lost
MarkDoneCommit(w) ==
  LET d    == job[w].doc
      done == [status |-> "done", chunks |-> job[w].written]
  IN  /\ job[w].pc = "doneCommit"
      /\ \/ RowExists(d) /\ UpdateRow(d, job[w].seen, done) /\ SetPC(w, "unlink") /\ NoFault
         \/ RowExists(d) /\ UpdateRow(d, job[w].seen, done) /\ SetPC(w, FailPC(w)) /\ Fault("ack")
         \/ ~RowExists(d) /\ UNCHANGED db /\ NoFault
            /\ SetPC(w, IF job[w].seen = done THEN "unlink" ELSE FailPC(w))
         \/ UNCHANGED db /\ SetPC(w, FailPC(w)) /\ Fault("db")
      /\ UNCHANGED <<vectors, file, queue, handlers, lifespan, waiting, late>>

\* _delete_document_vectors for the batches counted so far, best effort
Rollback(w) ==
  /\ job[w].pc = "rollback"
  /\ \/ /\ vectors' = [vectors EXCEPT ![job[w].doc] = @ \ IdsForDocument(job[w].written)]
        /\ NoFault
     \/ UNCHANGED vectors /\ Fault("vector")
  /\ SetPC(w, "failGet")
  /\ JobOnly /\ UNCHANGED <<status, chunkCount, file, late>>

\* Mutant: delete_upload_file in a finally clause
MarkFailedGetFinally(w) ==
  /\ job[w].pc = "failGet"
  /\ \/ /\ RowExists(job[w].doc)
        /\ SetJob(w, [job[w] EXCEPT !.pc = "failCommit", !.seen = Row(job[w].doc)])
        /\ NoFault
     \/ ~RowExists(job[w].doc) /\ SetPC(w, "failUnlink") /\ NoFault
     \/ SetPC(w, "failUnlink") /\ Fault("db")
  /\ JobOnly /\ UNCHANGED <<db, vectors, file, late>>

\* session.get in _mark_document_failed.  Nothing catches what this function
\* raises: the task dies and the file stays.
MarkFailedGet(w) ==
  /\ job[w].pc = "failGet"
  /\ \/ /\ RowExists(job[w].doc)
        /\ SetJob(w, [job[w] EXCEPT !.pc = "failCommit", !.seen = Row(job[w].doc)])
        /\ NoFault
     \/ ~RowExists(job[w].doc) /\ SetPC(w, "failUnlink") /\ NoFault
     \/ SetJob(w, IdleJob) /\ Fault("db")
  /\ JobOnly /\ UNCHANGED <<db, vectors, file, late>>

\* An UPDATE of a row that is gone raises too; none is sent when the row was
\* read as failed with this very message.
MarkFailedCommit(w) ==
  LET d      == job[w].doc
      failed == [status |-> "failed", chunks |-> 0]
  IN  /\ job[w].pc = "failCommit"
      /\ \/ RowExists(d) /\ UpdateRow(d, job[w].seen, failed) /\ SetPC(w, "failUnlink") /\ NoFault
         \/ RowExists(d) /\ UpdateRow(d, job[w].seen, failed) /\ SetJob(w, IdleJob) /\ Fault("ack")
         \/ ~RowExists(d) /\ UNCHANGED db /\ SetJob(w, IdleJob) /\ NoFault
         \/ ~RowExists(d) /\ job[w].seen = failed /\ UNCHANGED db /\ SetPC(w, "failUnlink") /\ NoFault
         \/ UNCHANGED db /\ SetJob(w, IdleJob) /\ Fault("db")
      /\ UNCHANGED <<vectors, file, queue, handlers, lifespan, waiting, late>>

\* delete_upload_file, after which the permit is released.  What it raises inside the try
\* fails a job whose row is done, and in the except branch it ends the task.
Unlink(w) ==
  /\ job[w].pc \in UnlinkPC
  /\ \/ DeleteUploadFile(job[w].doc) /\ SetJob(w, IdleJob)
     \/ /\ DeleteUploadFileRaises(job[w].doc)
        /\ SetJob(w, IF job[w].pc = "unlink" THEN [job[w] EXCEPT !.pc = FailPC(w)] ELSE IdleJob)
  /\ JobOnly /\ UNCHANGED <<db, vectors, late>>

-----------------------------------------------------------------------------
JobStep(w) ==
  \/ AddCommits(w) \/ AddRaises(w) \/ BatchDone(w) \/ BatchTimeout(w)
  \/ MarkDoneGet(w) \/ MarkDoneCommit(w)
  \/ Rollback(w) \/ MarkFailedGet(w) \/ MarkFailedCommit(w) \/ Unlink(w)

WorkerNext ==
  \/ Dequeue
  \/ \E w \in Slots : Acquire(w) \/ JobStep(w)
  \/ \E b \in Batches : LateEnds(b)
=============================================================================

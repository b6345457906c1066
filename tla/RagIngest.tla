------------------------------ MODULE RagIngest ------------------------------
(***************************************************************************)
(* The document ingestion of the RAG knowledge base: the HTTP handlers     *)
(* (DocumentService) and the background worker (IngestWorker) of one       *)
(* server process, the lifespan of main.py that starts them after          *)
(* recover_pending_ingest_jobs, and the crash that ends them.              *)
(***************************************************************************)
EXTENDS DocumentService, IngestWorker

NoUploads   == [d \in Docs |-> "idle"]
NoDeletions == [d \in Docs |-> [pc |-> "idle", seen |-> 0]]
NoDeletion  == [pc |-> "idle", seen |-> NoChunks]
NoJobs      == [w \in Slots |-> IdleJob]
NoThreads   == [b \in Batches |-> 0]

Init ==
  /\ workExists = TRUE
  /\ status = [d \in Docs |-> "none"]
  /\ chunkCount = NoChunks
  /\ vectors = [d \in Docs |-> {}]
  /\ file = [d \in Docs |-> FALSE]
  /\ queue = <<>>
  /\ app = "down" /\ redis = FALSE /\ recover = {}
  /\ upload = NoUploads /\ deletion = NoDeletions /\ workDeletion = NoDeletion
  /\ waiting = <<>> /\ job = NoJobs /\ late = NoThreads
  /\ faults = 0

-----------------------------------------------------------------------------
(* lifespan and recover_pending_ingest_jobs *)

\* Mutant: no recovery of pending documents
StartNoRecovery ==
  /\ app = "down"
  /\ app' = "starting" /\ redis' = TRUE
  /\ recover' = {}
  /\ NoFault
  /\ UNCHANGED <<durable, handlers, worker>>

\* Mutant: recovery trusts a Redis list that still holds jobs to hold them all
StartTrustingQueue ==
  /\ app = "down"
  /\ app' = "starting" /\ redis' = TRUE
  /\ recover' = IF queue = <<>> THEN {d \in Docs : status[d] = "pending"} ELSE {}
  /\ NoFault
  /\ UNCHANGED <<durable, handlers, worker>>

\* Connections are made and the pending rows are selected
Start ==
  /\ app = "down"
  /\ app' = "starting" /\ redis' = TRUE
  /\ recover' = {d \in Docs : status[d] = "pending"}
  /\ NoFault
  /\ UNCHANGED <<durable, handlers, worker>>

\* REDIS_OPTIONAL: neither recovery nor worker, and uploads are refused
StartWithoutRedis ==
  /\ app = "down"
  /\ app' = "up" /\ redis' = FALSE
  /\ Fault("no_redis")
  /\ UNCHANGED <<durable, recover, handlers, worker>>

\* One iteration of the loop: a document whose file is there is enqueued
RecoverOne(d) ==
  /\ app = "starting" /\ d \in recover
  /\ \/ file[d] /\ EnqueueIngest(d)
     \/ ~file[d] /\ NoFault /\ UNCHANGED queue
  /\ recover' = recover \ {d}
  /\ UNCHANGED <<db, vectors, file, app, redis, handlers, worker>>

\* Nothing catches what the recovery raises: the process does not come up
RecoverFails(d) ==
  /\ app = "starting" /\ d \in recover /\ file[d]
  /\ EnqueueIngestRaises(d)
  /\ app' = "down" /\ redis' = FALSE /\ recover' = {}
  /\ UNCHANGED <<db, vectors, file, handlers, worker>>

\* The worker task is created and the application serves requests
RecoverDone ==
  /\ app = "starting" /\ recover = {}
  /\ app' = "up"
  /\ NoFault
  /\ UNCHANGED <<durable, redis, recover, handlers, worker>>

\* The process ends: by a crash, or by the lifespan's shutdown, which cancels
\* the loop of the worker and awaits none of the tasks it has started
Crash ==
  /\ app # "down"
  /\ Fault("crash")
  /\ app' = "down" /\ redis' = FALSE /\ recover' = {}
  /\ upload' = NoUploads /\ deletion' = NoDeletions /\ workDeletion' = NoDeletion
  /\ waiting' = <<>> /\ job' = NoJobs /\ late' = NoThreads
  /\ UNCHANGED durable

LifespanNext ==
  \/ Start \/ StartWithoutRedis
  \/ \E d \in Docs : RecoverOne(d) \/ RecoverFails(d)
  \/ RecoverDone \/ Crash

Next == HandlerNext \/ WorkerNext \/ LifespanNext

Spec == Init /\ [][Next]_vars

\* The supervisor restarts the process and the event loop runs every coroutine
\* that is ready; requests and failures are the environment's, and need not come.
Fairness ==
  /\ WF_vars(Start) /\ WF_vars(RecoverDone)
  /\ WF_vars(Dequeue)
  /\ \A d \in Docs : /\ WF_vars(RecoverOne(d))
                     /\ WF_vars(UploadStep(d))
                     /\ WF_vars(DeletionStep(d))
  /\ WF_vars(WorkDeletionStep)
  /\ \A w \in Slots : WF_vars(Acquire(w)) /\ WF_vars(JobStep(w))

FairSpec == Spec /\ Fairness

-----------------------------------------------------------------------------
(* Properties *)

\* A job for d is queued, waits for a permit or runs
Held(d) == d \in Elements(queue) \cup Elements(waiting) \/ Running(d)

\* Somebody will settle d: a job, or upload_document, which has yet to answer
Accounted(d) == Held(d) \/ upload[d] \in {"saved", "pushLost", "enqueueFailed"}

\* Files and jobs belong to rows that were committed: nothing is saved, queued or
\* processed for an id before its row is inserted.
Admitted(d) ==
  /\ upload[d] = "checked" => status[d] = "none"
  /\ status[d] = "none" =>
       ~file[d] /\ ~Held(d) /\ upload[d] \in {"idle", "checked", "rejected"}
  /\ upload[d] \in {"inserted", "saveFailed"} => ~file[d]

\* A job about to unlink the file knows its row is settled or gone, and a session
\* that read a settled row never finds it pending again.
SettledFirst(w) ==
  /\ job[w].pc \in UnlinkPC => status[job[w].doc] # "pending"
  /\ job[w].pc \in {"doneCommit", "failCommit"} /\ job[w].seen.status # "pending"
       => status[job[w].doc] # "pending"

\* The durable order of an ingestion: the row is committed before the file is
\* saved and the job pushed, and settled before the file is unlinked.
DurableOrder == (\A d \in Docs : Admitted(d)) /\ (\A w \in Slots : SettledFirst(w))

\* While a process with Redis is up, every pending document whose file is on
\* disk has somebody to settle it, or startup is about to enqueue it: neither
\* Redis nor the in-memory semaphore queue is the only record of a job.
NoJobLost ==
  app # "down" /\ redis =>
    \A d \in Docs : status[d] = "pending" /\ file[d] => d \in recover \/ Accounted(d)

\* The uploaded file is the only copy of the text: nothing unlinks it while the
\* row is pending, except the upload that failed to enqueue it.  In particular
\* the worker settles the row durably before delete_upload_file.
InputKept ==
  [][\A d \in Docs : status[d] = "pending" /\ file[d] /\ ~file'[d]
                        => upload[d] = "pushLost"]_vars

\* When the polling client first sees done, every chunk is in the collection,
\* so the conversation it starts then searches the whole document.
SearchableWhenDone ==
  [][\A d \in Docs : status[d] # "done" /\ status'[d] = "done"
                        => vectors[d] = IdsForDocument(NumChunks[d])]_vars

\* chunk_count of a settled row covers every vector of the document, so that
\* ids_for_document gives delete_document and delete_work all there is to
\* delete: the worker's rollback is complete.
RowCoversVectors ==
  \A d \in Docs : status[d] \in {"done", "failed"}
                     => vectors[d] \subseteq IdsForDocument(chunkCount[d])

\* An upload answered with an error leaves no row behind that a polling client
\* would wait for.
RejectedUploadNotPending ==
  \A d \in Docs : upload[d] = "rejected" => status[d] # "pending"

\* done is a verdict: only a deletion ends it.
DoneStaysDone ==
  [][\A d \in Docs : status[d] = "done" => status'[d] \in {"done", "deleted"}]_vars

\* delete_document and delete_work remove the vectors: once no job, queued or
\* running, and no abandoned thread of a deleted document is left, neither is
\* any vector of it.
DeleteRemovesVectors ==
  \A d \in Docs :
     status[d] = "deleted" /\ ~Accounted(d) /\ (\A b \in Batches : b[1] = d => late[b] = 0)
       => vectors[d] = {}

\* A pending document whose file is on disk is eventually settled or deleted.
SavedIsSettled ==
  \A d \in Docs : status[d] = "pending" /\ file[d] ~> status[d] # "pending"

\* The client that polls until done or failed stops polling.
PendingIsSettled ==
  \A d \in Docs : status[d] = "pending" ~> status[d] # "pending"

-----------------------------------------------------------------------------
(* Refinement of DocumentLifecycle *)

\* Document ids are integers; "work" names the work among the targets of a deletion
ASSUME WorkIsNoDocument == "work" \notin Docs

Searchable ==
  {d \in Docs : NumChunks[d] > 0 /\ vectors[d] = IdsForDocument(NumChunks[d])}

Closing ==
  {d \in Docs : deletion[d].pc # "idle"}
    \cup (IF workDeletion.pc # "idle" THEN {"work"} ELSE {})

Lifecycle == INSTANCE DocumentLifecycle
               WITH open <- workExists, phase <- status,
                    searchable <- Searchable, closing <- Closing

\* Without a crash, without duplicated jobs, and while no exception reaches a job whose
\* row is done, the server keeps the promise of DocumentLifecycle: one final verdict,
\* published only when fully searchable, and searchable from then on until a deletion is
\* requested.
KeepsLifecycle == Lifecycle!Spec
=============================================================================

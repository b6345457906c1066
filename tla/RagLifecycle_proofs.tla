-------------------------- MODULE RagLifecycle_proofs --------------------------
(***************************************************************************)
(* What follows when every document has one job: rows that cover their     *)
(* vectors, and the refinement of DocumentLifecycle.  For every set of     *)
(* documents, every number of chunks, batch size and number of permits.    *)
(*                                                                         *)
(* A crash and a push that fails are assumed away: either of them gives a  *)
(* document a second job, and the refinement fails then (DuplicateJob).    *)
(* It also fails when a job learns of an exception after its row is done,  *)
(* from a lost acknowledgement or from the listing of a directory.         *)
(* RowCoversVectors needs that no batch times out, that no rollback fails  *)
(* and that no commit of vectors does after its effect: a thread or        *)
(* vectors are left behind otherwise.                                      *)
(***************************************************************************)
EXTENDS RagIngest_proofs, Functions

-----------------------------------------------------------------------------
(* One job *)

\* A document is at one place only: in Redis, at the semaphore, or in one slot
OneJob ==
  /\ IsInjective(queue) /\ IsInjective(waiting)
  /\ \A d \in Elements(queue) : d \notin Elements(waiting) /\ ~Running(d)
  /\ \A d \in Elements(waiting) : ~Running(d)
  /\ \A v, w \in Slots :
       job[v].pc # "idle" /\ job[w].pc # "idle" /\ job[v].doc = job[w].doc => v = w

\* and it got there by the one push of its upload
PushedOnce ==
  /\ recover = {}
  /\ app # "up" => \A d \in Docs : upload[d] = "idle" /\ status[d] = "none"
  /\ \A d \in Docs : Held(d) => upload[d] = "accepted"

\* Failures that reach a job whose row is done and send it to the except branch
MayRetract == "ack" \in Faults \/ "listing" \in Faults

\* The vectors of a document, what a deletion of it has read and a job that has not
\* started agree with its row
RowAgrees(d) ==
  /\ chunkCount[d] # 0 => status[d] = "done"
  /\ status[d] \in {"done", "failed"} => upload[d] \in {"accepted", "rejected"}
  /\ deletion[d].seen # 0 \/ workDeletion.seen[d] # 0 => status[d] \in {"done", "failed", "deleted"}
  /\ vectors[d] \subseteq IdsForDocument(NumChunks[d])
  /\ status[d] = "none" => vectors[d] = {} /\ \A b \in Batches : b[1] = d => late[b] = 0
  /\ Held(d) /\ ~Running(d) => status[d] \in {"pending", "deleted"}

\* The chunks whose batches have been added by the job in slot w
Added(w) ==
  IdsForDocument(IF job[w].pc = "added" THEN NextBatch(job[w].doc, job[w].written)
                                        ELSE job[w].written)

\* The try of process_ingest_job before it publishes, and the except branch
Ingesting == {"adding", "added", "doneGet", "doneCommit"}
Failing == {"rollback", "failGet", "failCommit"}

\* A job that has not settled its row found it pending, and finds what it has added;
\* one that fails finds it pending too, or done by its own commit
JobAgrees(w) ==
  LET d == job[w].doc
  IN  /\ job[w].pc \in Ingesting => status[d] \in {"pending", "deleted"}
      /\ job[w].pc \in Failing
           => status[d] \in {"pending", "deleted"} \/ (status[d] = "done" /\ MayRetract)
      /\ job[w].pc = "unlink"
           => status[d] = "deleted" \/ (status[d] = "done" /\ chunkCount[d] = job[w].written)
      /\ job[w].pc = "doneCommit" => job[w].seen = [status |-> "pending", chunks |-> 0]
      /\ job[w].pc = "failCommit" /\ RowExists(d) => job[w].seen = Row(d)
      /\ job[w].pc \in {"adding", "added"} => job[w].written < NumChunks[d]
      /\ job[w].pc \in {"doneGet", "doneCommit"}
           => job[w].written = NumChunks[d] /\ NumChunks[d] > 0
      /\ job[w].pc \in Ingesting /\ status[d] = "pending"
           => Added(w) \subseteq vectors[d]

OneJobInv ==
  /\ TypeOK /\ DurableOrder /\ OneJob /\ PushedOnce
  /\ \A d \in Docs : RowAgrees(d)
  /\ \A w \in Slots : JobAgrees(w)

-----------------------------------------------------------------------------
(* Lists without repetition *)

\* A list gains a new element at its end,
LEMMA AppendUnrepeated ==
  ASSUME NEW S, NEW seq \in Seq(S), NEW e \in S, IsInjective(seq), e \notin Elements(seq)
  PROVE  IsInjective(Append(seq, e))
<1>1. /\ DOMAIN Append(seq, e) = 1 .. Len(seq) + 1
      /\ DOMAIN seq = 1 .. Len(seq) /\ Len(seq) \in Nat
  OBVIOUS
<1>2. /\ Append(seq, e)[Len(seq) + 1] = e
      /\ \A i \in 1 .. Len(seq) : Append(seq, e)[i] = seq[i]
  OBVIOUS
<1>3. \A i \in 1 .. Len(seq) : seq[i] # e
  BY <1>1 DEF Elements
<1>4. QED
  BY <1>1, <1>2, <1>3 DEF IsInjective

\* and loses its first one for good.
LEMMA TailUnrepeated ==
  ASSUME NEW S, NEW seq \in Seq(S), seq # <<>>, IsInjective(seq)
  PROVE  IsInjective(Tail(seq)) /\ Head(seq) \notin Elements(Tail(seq))
<1>1. /\ DOMAIN seq = 1 .. Len(seq) /\ Len(seq) \in Nat \ {0}
      /\ DOMAIN Tail(seq) = 1 .. Len(seq) - 1
  OBVIOUS
<1>2. /\ Head(seq) = seq[1]
      /\ \A i \in 1 .. Len(seq) - 1 : Tail(seq)[i] = seq[i + 1]
  OBVIOUS
<1>3. IsInjective(Tail(seq))
  BY <1>1, <1>2 DEF IsInjective
<1>4. \A i \in DOMAIN Tail(seq) : Tail(seq)[i] # Head(seq)
  BY <1>1, <1>2 DEF IsInjective
<1>5. QED
  BY <1>3, <1>4 DEF Elements

-----------------------------------------------------------------------------
(* One place per document *)

\* Where the jobs are changes by the push of an upload, or by the worker.
LEMMA PlaceStep ==
  ASSUME "crash" \notin Faults, "redis_push" \notin Faults, recover = {}, [Next]_vars
  PROVE  \/ \E d \in Docs : UploadEnqueue(d) /\ upload[d] = "saved"
                            /\ queue' = Append(queue, d) /\ UNCHANGED <<waiting, job>>
         \/ Dequeue
         \/ \E w \in Slots : Acquire(w) \/ JobStep(w)
         \/ UNCHANGED <<queue, waiting, job>>
<1> USE DEF durable, handlers, worker
<1>1. CASE HandlerNext
  <2>1. CASE \E d \in Docs : UploadEnqueue(d)
    BY <2>1 DEF UploadEnqueue, EnqueueIngest, EnqueueIngestRaises, Fault, UploadOnly
  <2>2. CASE ~ \E d \in Docs : UploadEnqueue(d)
    BY <1>1, <2>2 DEF HandlerNext, UploadStart, UploadStep, UploadInsert, UploadSave, UploadPushRaises,
       UploadMarkFailed, UploadOnly, DeleteDocGet, DeletionStep, DeleteDocVectors, DeleteDocRow,
       DeleteWorkGet, WorkDeletionStep, DeleteWorkVectors, DeleteWorkRows
  <2>3. QED
    BY <2>1, <2>2
<1>2. CASE WorkerNext
  BY <1>2 DEF WorkerNext, LateEnds
<1>3. CASE LifespanNext
  BY <1>3 DEF LifespanNext, Start, StartWithoutRedis, RecoverOne, RecoverFails, RecoverDone, Crash, Fault
<1>4. CASE UNCHANGED vars
  BY <1>4 DEF vars
<1>5. QED
  BY <1>1, <1>2, <1>3, <1>4 DEF Next

\* A step of a job keeps the lists, its document and the other jobs.
LEMMA JobStepPlaces ==
  ASSUME TypeOK, NEW w \in Slots, JobStep(w)
  PROVE  /\ queue' = queue /\ waiting' = waiting
         /\ job[w].pc # "idle"
         /\ \A v \in Slots : \/ job'[v] = job[v]
                             \/ v = w /\ (job'[v].pc = "idle" \/ job'[v].doc = job[v].doc)
         /\ \A d \in Docs : Running(d)' => Running(d)
<1>1. job[w].pc # "idle" /\ queue' = queue /\ waiting' = waiting
  BY DEF JobStep, AddCommits, AddRaises, BatchDone, BatchTimeout, MarkDoneGet,
     MarkDoneCommit, Rollback, MarkFailedGet, MarkFailedCommit, Unlink, UnlinkPC, JobOnly
<1>2. \A v \in Slots : \/ job'[v] = job[v]
                       \/ v = w /\ (job'[v].pc = "idle" \/ job'[v].doc = job[v].doc)
  BY JobStepKeepsDoc
<1>3. \A d \in Docs : Running(d)' => Running(d)
  BY <1>1, <1>2 DEF Running
<1>4. QED
  BY <1>1, <1>2, <1>3

\* A permit taken starts the job at the head of the semaphore's queue.
LEMMA AcquirePlaces ==
  ASSUME TypeOK, NEW w \in Slots, Acquire(w)
  PROVE  /\ waiting # <<>> /\ queue' = queue /\ waiting' = Tail(waiting)
         /\ job[w].pc = "idle" /\ Head(waiting) \in Docs
         /\ job'[w].doc = Head(waiting) /\ job'[w].written = 0 /\ job'[w].pc \in {"adding", "failGet"}
         /\ job'[w].pc = "adding" => NumChunks[Head(waiting)] > 0
         /\ \A v \in Slots : v # w => job'[v] = job[v]
<1>1. waiting \in Seq(Docs) /\ job \in [Slots -> JobType]
  BY DEF TypeOK
<1>2. waiting # <<>> /\ queue' = queue /\ waiting' = Tail(waiting) /\ job[w].pc = "idle"
  BY DEF Acquire, durable
<1>3. Head(waiting) \in Docs
  BY <1>1, <1>2, HeadTailElements
<1>4. PICK pc \in {"adding", "failGet"} :
        /\ job' = [job EXCEPT ![w] = [pc |-> pc, doc |-> Head(waiting), written |-> 0, seen |-> NotRead]]
        /\ pc = "adding" => NumChunks[Head(waiting)] > 0
  BY DEF Acquire, SetJob, Splits
<1>5. QED
  BY <1>1, <1>2, <1>3, <1>4

\* No step puts a document at a second place: a push is the first one of its upload,
\* BRPOP and the semaphore move the job on, and a job ends where it runs.
LEMMA OneJobStep ==
  ASSUME "crash" \notin Faults, "redis_push" \notin Faults,
         TypeOK, OneJob, PushedOnce, [Next]_vars
  PROVE  OneJob'
<1> USE DEF handlers, lifespan, db
<1>1. queue \in Seq(Docs) /\ waiting \in Seq(Docs) /\ job \in [Slots -> JobType]
  BY DEF TypeOK
<1>2. ASSUME UNCHANGED <<queue, waiting, job>>
      PROVE  OneJob'
  BY <1>2 DEF OneJob, IsInjective, Elements, Running
<1>3. ASSUME NEW d \in Docs, upload[d] = "saved", queue' = Append(queue, d), UNCHANGED <<waiting, job>>
      PROVE  OneJob'
  <2>1. ~Held(d)
    BY <1>3 DEF PushedOnce
  <2>2. d \notin Elements(queue) /\ d \notin Elements(waiting) /\ ~Running(d)
    BY <2>1 DEF Held
  <2>3. IsInjective(queue') /\ Elements(queue') = Elements(queue) \cup {d}
    BY <1>1, <1>3, <2>2, AppendUnrepeated, AppendElements DEF OneJob
  <2>4. IsInjective(queue)' /\ Elements(queue)' = Elements(queue) \cup {d}
    BY <2>3 DEF IsInjective, Elements
  <2>5. IsInjective(waiting)' /\ Elements(waiting)' = Elements(waiting)
    BY <1>3 DEF OneJob, IsInjective, Elements
  <2>6. \A e \in Docs : Running(e)' <=> Running(e)
    BY <1>3 DEF Running
  <2>7. \A e \in Elements(queue) \cup {d} : e \in Docs
    BY <1>1 DEF Elements
  <2>8. \A e \in Elements(waiting) : e \in Docs
    BY <1>1 DEF Elements
  <2>9. /\ \A e \in Elements(queue)' : e \notin Elements(waiting)' /\ ~Running(e)'
        /\ \A e \in Elements(waiting)' : ~Running(e)'
    BY <2>2, <2>4, <2>5, <2>6, <2>7, <2>8 DEF OneJob
  <2>10. QED
    BY <1>3, <2>4, <2>5, <2>9 DEF OneJob
<1>4. CASE Dequeue
  <2>1. queue # <<>> /\ queue' = Tail(queue) /\ waiting' \in {waiting, Append(waiting, Head(queue))} /\ job' = job
    BY <1>4, Zenon DEF Dequeue
  <2>2. /\ Head(queue) \in Docs /\ Tail(queue) \in Seq(Docs)
        /\ Elements(queue) = {Head(queue)} \cup Elements(Tail(queue))
    BY <1>1, <2>1, HeadTailElements
  <2>3. IsInjective(Tail(queue)) /\ Head(queue) \notin Elements(Tail(queue))
    BY <1>1, <2>1, TailUnrepeated DEF OneJob
  <2>4. Head(queue) \notin Elements(waiting) /\ ~Running(Head(queue))
    BY <2>2 DEF OneJob
  <2>5. /\ IsInjective(Append(waiting, Head(queue)))
        /\ Elements(Append(waiting, Head(queue))) = Elements(waiting) \cup {Head(queue)}
    BY <1>1, <2>2, <2>4, AppendUnrepeated, AppendElements DEF OneJob
  <2>6. IsInjective(queue)' /\ Elements(queue)' = Elements(Tail(queue))
    BY <2>1, <2>3 DEF IsInjective, Elements
  <2>7. IsInjective(waiting') /\ Elements(waiting') \in {Elements(waiting), Elements(waiting) \cup {Head(queue)}}
    BY <2>1, <2>5 DEF OneJob
  <2>8. IsInjective(waiting)' /\ Elements(waiting)' \in {Elements(waiting), Elements(waiting) \cup {Head(queue)}}
    BY <2>7 DEF IsInjective, Elements
  <2>9. \A e \in Docs : Running(e)' <=> Running(e)
    BY <2>1 DEF Running
  <2>10. \A e \in Elements(queue) \cup Elements(waiting) : e \in Docs
    BY <1>1 DEF Elements
  <2>11. /\ \A e \in Elements(queue)' : e \notin Elements(waiting)' /\ ~Running(e)'
         /\ \A e \in Elements(waiting)' : ~Running(e)'
    BY <2>2, <2>3, <2>4, <2>6, <2>8, <2>9, <2>10 DEF OneJob
  <2>12. \A v, w \in Slots :
           job'[v].pc # "idle" /\ job'[w].pc # "idle" /\ job'[v].doc = job'[w].doc => v = w
    BY <2>1 DEF OneJob
  <2>13. QED
    BY <2>6, <2>8, <2>11, <2>12 DEF OneJob
<1>5. ASSUME NEW w \in Slots, Acquire(w)
      PROVE  OneJob'
  <2> DEFINE d == Head(waiting)
  <2>1. /\ waiting # <<>> /\ queue' = queue /\ waiting' = Tail(waiting)
        /\ job[w].pc = "idle" /\ d \in Docs /\ job'[w].doc = d
        /\ \A v \in Slots : v # w => job'[v] = job[v]
    BY <1>5, AcquirePlaces
  <2>2. Elements(waiting) = {d} \cup Elements(Tail(waiting))
    BY <1>1, <2>1, HeadTailElements
  <2>3. IsInjective(Tail(waiting)) /\ d \notin Elements(Tail(waiting))
    BY <1>1, <2>1, TailUnrepeated DEF OneJob
  <2> HIDE DEF d
  <2>4. d \notin Elements(queue) /\ ~Running(d)
    BY <2>2 DEF OneJob
  <2>5. IsInjective(queue)' /\ Elements(queue)' = Elements(queue)
    BY <2>1 DEF OneJob, IsInjective, Elements
  <2>6. IsInjective(waiting)' /\ Elements(waiting)' = Elements(Tail(waiting))
    BY <2>1, <2>3 DEF IsInjective, Elements
  <2>7. \A e \in Docs : Running(e)' => (Running(e) \/ e = d)
    BY <2>1 DEF Running
  <2>8. \A e \in Elements(queue) \cup Elements(waiting) : e \in Docs
    BY <1>1 DEF Elements
  <2>9. /\ \A e \in Elements(queue)' : e \notin Elements(waiting)' /\ ~Running(e)'
        /\ \A e \in Elements(waiting)' : ~Running(e)'
    BY <2>2, <2>3, <2>4, <2>5, <2>6, <2>7, <2>8 DEF OneJob
  <2>10. \A v \in Slots : v # w /\ job[v].pc # "idle" => job[v].doc # d
    BY <2>4 DEF Running
  <2>11. \A u, v \in Slots :
           job'[u].pc # "idle" /\ job'[v].pc # "idle" /\ job'[u].doc = job'[v].doc => u = v
    BY <2>1, <2>10 DEF OneJob
  <2>12. QED
    BY <2>5, <2>6, <2>9, <2>11 DEF OneJob
<1>6. ASSUME NEW w \in Slots, JobStep(w)
      PROVE  OneJob'
  <2>1. /\ queue' = queue /\ waiting' = waiting /\ job[w].pc # "idle"
        /\ \A v \in Slots : \/ job'[v] = job[v]
                            \/ v = w /\ (job'[v].pc = "idle" \/ job'[v].doc = job[v].doc)
        /\ \A e \in Docs : Running(e)' => Running(e)
    BY <1>6, JobStepPlaces
  <2>2. \A e \in Elements(queue) \cup Elements(waiting) : e \in Docs
    BY <1>1 DEF Elements
  <2>3. /\ IsInjective(queue)' /\ Elements(queue)' = Elements(queue)
        /\ IsInjective(waiting)' /\ Elements(waiting)' = Elements(waiting)
    BY <2>1 DEF OneJob, IsInjective, Elements
  <2>4. /\ \A e \in Elements(queue)' : e \notin Elements(waiting)' /\ ~Running(e)'
        /\ \A e \in Elements(waiting)' : ~Running(e)'
    BY <2>1, <2>2, <2>3 DEF OneJob
  <2>5. \A u, v \in Slots :
          job'[u].pc # "idle" /\ job'[v].pc # "idle" /\ job'[u].doc = job'[v].doc => u = v
    BY <2>1 DEF OneJob
  <2>6. QED
    BY <2>3, <2>4, <2>5 DEF OneJob
<1>7. QED
  BY <1>2, <1>3, <1>4, <1>5, <1>6, PlaceStep DEF PushedOnce

\* A document comes into the lists by the push of its upload,
LEMMA QueuedStep ==
  ASSUME "crash" \notin Faults, "redis_push" \notin Faults, TypeOK, recover = {}, [Next]_vars,
         NEW d \in Docs, d \in Elements(queue)' \cup Elements(waiting)'
  PROVE  \/ d \in Elements(queue) \cup Elements(waiting)
         \/ upload[d] = "saved" /\ upload'[d] = "accepted" /\ UNCHANGED db
<1>1. queue \in Seq(Docs) /\ waiting \in Seq(Docs)
  BY DEF TypeOK
<1>2. ASSUME UNCHANGED <<queue, waiting>>
      PROVE  d \in Elements(queue) \cup Elements(waiting)
  BY <1>2 DEF Elements
<1>3. ASSUME NEW e \in Docs, UploadEnqueue(e), upload[e] = "saved",
             queue' = Append(queue, e), UNCHANGED <<waiting, job>>
      PROVE  \/ d \in Elements(queue) \cup Elements(waiting)
             \/ upload[d] = "saved" /\ upload'[d] = "accepted" /\ UNCHANGED db
  <2>1. Elements(queue') = Elements(queue) \cup {e}
    BY <1>1, <1>3, AppendElements
  <2>2. Elements(queue)' = Elements(queue') /\ Elements(waiting)' = Elements(waiting)
    BY <1>3 DEF Elements
  <2>3. upload'[e] = "accepted" /\ UNCHANGED db
    BY <1>3 DEF UploadEnqueue, EnqueueIngestRaises, Fault, SetUpload, TypeOK
  <2>4. QED
    BY <1>3, <2>1, <2>2, <2>3
<1>4. CASE Dequeue
  <2>1. queue # <<>> /\ queue' = Tail(queue) /\ waiting' \in {waiting, Append(waiting, Head(queue))}
    BY <1>4, Zenon DEF Dequeue
  <2>2. /\ Head(queue) \in Docs
        /\ Elements(queue) = {Head(queue)} \cup Elements(Tail(queue))
    BY <1>1, <2>1, HeadTailElements
  <2>3. Elements(Append(waiting, Head(queue))) = Elements(waiting) \cup {Head(queue)}
    BY <1>1, <2>2, AppendElements
  <2>4. Elements(queue)' = Elements(queue') /\ Elements(waiting)' = Elements(waiting')
    BY DEF Elements
  <2>5. QED
    BY <2>1, <2>2, <2>3, <2>4
<1>5. ASSUME NEW w \in Slots, Acquire(w)
      PROVE  d \in Elements(queue) \cup Elements(waiting)
  <2>1. waiting # <<>> /\ queue' = queue /\ waiting' = Tail(waiting)
    BY <1>5, AcquirePlaces
  <2>2. Elements(waiting) = {Head(waiting)} \cup Elements(Tail(waiting))
    BY <1>1, <2>1, HeadTailElements
  <2>3. Elements(queue)' = Elements(queue) /\ Elements(waiting)' = Elements(Tail(waiting))
    BY <2>1 DEF Elements
  <2>4. QED
    BY <2>2, <2>3
<1>6. ASSUME NEW w \in Slots, JobStep(w)
      PROVE  d \in Elements(queue) \cup Elements(waiting)
  BY <1>2, <1>6, JobStepPlaces
<1>7. QED
  BY <1>2, <1>3, <1>4, <1>5, <1>6, PlaceStep

\* and out of them into a slot.
LEMMA RunningStep ==
  ASSUME "crash" \notin Faults, "redis_push" \notin Faults, TypeOK, recover = {}, [Next]_vars,
         NEW d \in Docs, Running(d)'
  PROVE  Running(d) \/ d \in Elements(waiting)
<1>1. ASSUME UNCHANGED job
      PROVE  Running(d)
  BY <1>1 DEF Running
<1>2. ASSUME NEW w \in Slots, Acquire(w)
      PROVE  Running(d) \/ d \in Elements(waiting)
  <2>1. /\ waiting # <<>> /\ job'[w].doc = Head(waiting)
        /\ \A v \in Slots : v # w => job'[v] = job[v]
    BY <1>2, AcquirePlaces
  <2>2. Head(waiting) \in Elements(waiting)
    BY <2>1, HeadTailElements DEF TypeOK
  <2>3. QED
    BY <2>1, <2>2 DEF Running
<1>3. QED
  BY <1>1, <1>2, JobStepPlaces, PlaceStep DEF Dequeue

\* So a job taken up is one that was held, or the upload's.
LEMMA HeldStep ==
  ASSUME "crash" \notin Faults, "redis_push" \notin Faults,
         TypeOK, recover = {}, [Next]_vars, NEW d \in Docs, Held(d)'
  PROVE  \/ Held(d)
         \/ upload[d] = "saved" /\ upload'[d] = "accepted" /\ UNCHANGED db
BY QueuedStep, RunningStep DEF Held

\* An upload that was answered takes no further step.
LEMMA AnsweredStays ==
  ASSUME "crash" \notin Faults, TypeOK, [Next]_vars, NEW d \in Docs, upload[d] \in {"accepted", "rejected"}
  PROVE  upload'[d] = upload[d]
<1>1. ~Crash
  BY DEF Crash, Fault
<1>2. ASSUME NEW e \in Docs, UploadStart(e) \/ UploadStep(e)
      PROVE  upload'[d] = upload[d]
  BY <1>2, UploadStepEffect
<1>3. QED
  BY <1>1, <1>2, OtherStepKeepsUploads

\* The first start finds no pending row to recover, and there is no second one.
LEMMA PushedOnceStep ==
  ASSUME "crash" \notin Faults, "redis_push" \notin Faults,
         TypeOK, DurableOrder, PushedOnce, [Next]_vars
  PROVE  PushedOnce'
<1> USE DEF handlers, lifespan
<1>1. recover' = {} /\ (app' # "up" => app # "up")
  <2>1. CASE Start
    BY <2>1 DEF Start, PushedOnce
  <2>2. CASE StartWithoutRedis \/ RecoverDone \/ \E d \in Docs : RecoverOne(d) \/ RecoverFails(d)
    BY <2>2 DEF StartWithoutRedis, RecoverDone, RecoverOne, RecoverFails, PushedOnce
  <2>3. ~Crash
    BY DEF Crash, Fault
  <2>4. CASE HandlerNext
    BY <2>4 DEF HandlerNext, UploadStart, UploadStep, UploadInsert, UploadSave, UploadEnqueue, UploadPushRaises,
       UploadMarkFailed, UploadOnly, DeleteDocGet, DeletionStep, DeleteDocVectors, DeleteDocRow,
       DeleteWorkGet, WorkDeletionStep, DeleteWorkVectors, DeleteWorkRows, PushedOnce
  <2>5. CASE WorkerNext
    BY <2>5 DEF WorkerNext, Dequeue, Acquire, JobStep, AddCommits, AddRaises, BatchDone, BatchTimeout,
       MarkDoneGet, MarkDoneCommit, Rollback, MarkFailedGet, MarkFailedCommit, Unlink, LateEnds, JobOnly, PushedOnce
  <2>6. CASE UNCHANGED vars
    BY <2>6 DEF vars, PushedOnce
  <2>7. QED
    BY <2>1, <2>2, <2>3, <2>4, <2>5, <2>6 DEF Next, LifespanNext
<1>2. ASSUME app # "up", NEW d \in Docs
      PROVE  upload'[d] = "idle" /\ status'[d] = "none"
  <2>1. \A e \in Docs : upload[e] = "idle" /\ status[e] = "none"
    BY <1>2 DEF PushedOnce
  <2>2. ~ \E e \in Docs : UploadStart(e) \/ UploadStep(e)
    BY <1>2, <2>1 DEF UploadStart, Serving, UploadStep, UploadInsert, UploadSave, UploadEnqueue,
       UploadPushRaises, UploadMarkFailed
  <2>3. upload'[d] = "idle"
    BY <2>1, <2>2, OtherStepEffect DEF NoUploads
  <2>4. QED
    BY <2>1, <2>3, StatusStep DEF Inserted, RowExists, DocumentStatus, DurableOrder
<1>3. ASSUME NEW d \in Docs, Held(d)'
      PROVE  upload'[d] = "accepted"
  BY <1>3, HeldStep, AnsweredStays DEF PushedOnce
<1>4. QED
  BY <1>1, <1>2, <1>3 DEF PushedOnce

-----------------------------------------------------------------------------
(* Rows, vectors and jobs *)

\* What a running job knows.
LEMMA RunningDoc ==
  ASSUME OneJobInv, NEW w \in Slots, job[w].pc # "idle"
  PROVE  /\ job[w] \in [pc : JobPC, doc : Docs, written : Nat, seen : RowType \cup {NotRead}]
         /\ job[w].doc \in Docs /\ job[w].written \in Nat
         /\ Held(job[w].doc) /\ Running(job[w].doc)
         /\ upload[job[w].doc] = "accepted"
         /\ status[job[w].doc] # "none"
<1>1. /\ job[w] \in [pc : JobPC, doc : Docs, written : Nat, seen : RowType \cup {NotRead}]
      /\ job[w].doc \in Docs /\ job[w].written \in Nat
  BY RunningJob DEF OneJobInv
<1>2. Running(job[w].doc)
  BY <1>1 DEF Running
<1>3. Held(job[w].doc)
  BY <1>2 DEF Held
<1>4. QED
  BY <1>1, <1>2, <1>3 DEF OneJobInv, PushedOnce, DurableOrder, Admitted

\* A document gets one verdict, from the job that runs it or the upload that could
\* not enqueue it, and loses it only to a deletion, or to the failure of the very job
\* that published it.
LEMMA RowStep ==
  ASSUME OneJobInv, [Next]_vars
  PROVE  \A d \in Docs :
           \/ status'[d] = status[d] /\ chunkCount'[d] = chunkCount[d]
           \/ /\ status[d] = "none" /\ status'[d] = "pending" /\ Inserted(d)
              /\ chunkCount'[d] = chunkCount[d]
           \/ /\ status[d] = "pending" /\ status'[d] = "failed" /\ chunkCount'[d] = chunkCount[d]
              /\ \/ UploadMarkFailed(d)
                 \/ \E w \in Slots : MarkFailedCommit(w) /\ job[w].doc = d
           \/ /\ status[d] = "done" /\ status'[d] = "failed" /\ chunkCount'[d] = 0 /\ MayRetract
              /\ \E w \in Slots : MarkFailedCommit(w) /\ job[w].doc = d
           \/ /\ status[d] = "pending" /\ status'[d] = "done"
              /\ \E w \in Slots : MarkDoneCommit(w) /\ job[w].doc = d /\ chunkCount'[d] = job[w].written
           \/ RowExists(d) /\ status'[d] = "deleted" /\ chunkCount'[d] = 0
<1> DEFINE Moves(d) ==
      \/ status'[d] = status[d] /\ chunkCount'[d] = chunkCount[d]
      \/ /\ status[d] = "none" /\ status'[d] = "pending" /\ Inserted(d)
         /\ chunkCount'[d] = chunkCount[d]
      \/ /\ status[d] = "pending" /\ status'[d] = "failed" /\ chunkCount'[d] = chunkCount[d]
         /\ \/ UploadMarkFailed(d)
            \/ \E w \in Slots : MarkFailedCommit(w) /\ job[w].doc = d
      \/ /\ status[d] = "done" /\ status'[d] = "failed" /\ chunkCount'[d] = 0 /\ MayRetract
         /\ \E w \in Slots : MarkFailedCommit(w) /\ job[w].doc = d
      \/ /\ status[d] = "pending" /\ status'[d] = "done"
         /\ \E w \in Slots : MarkDoneCommit(w) /\ job[w].doc = d /\ chunkCount'[d] = job[w].written
      \/ RowExists(d) /\ status'[d] = "deleted" /\ chunkCount'[d] = 0
<1> USE DEF db, durable
<1>1. /\ status \in [Docs -> DocumentStatus \cup {"none", "deleted"}]
      /\ chunkCount \in [Docs -> Nat] /\ upload \in [Docs -> UploadPC]
  BY DEF OneJobInv, TypeOK
<1>2. ASSUME status' = status, chunkCount' = chunkCount
      PROVE  \A d \in Docs : Moves(d)
  BY <1>2
<1>3. ASSUME NEW d \in Docs, UploadStart(d) \/ UploadStep(d)
      PROVE  \A e \in Docs : Moves(e)
  <2>1. CASE UploadInsert(d)
    BY <1>1, <2>1 DEF UploadInsert, OneJobInv, DurableOrder, Admitted, SetUpload, Inserted, Fault
  <2>2. CASE UploadMarkFailed(d) /\ ~ UNCHANGED db
    <3>1. RowExists(d) /\ UpdateRow(d, [status |-> "pending", chunks |-> 0], [status |-> "failed", chunks |-> 0])
      BY <2>2 DEF UploadMarkFailed
    <3>2. status' = [status EXCEPT ![d] = "failed"] /\ chunkCount' = [chunkCount EXCEPT ![d] = @]
      BY <3>1 DEF UpdateRow
    <3>3. status[d] = "pending"
      BY <2>2, <3>1 DEF UploadMarkFailed, OneJobInv, RowAgrees, RowExists, DocumentStatus
    <3>4. QED
      BY <1>1, <2>2, <3>2, <3>3
  <2>3. CASE \/ UploadStart(d) \/ UploadSave(d) \/ UploadEnqueue(d) \/ UploadPushRaises(d)
             \/ UNCHANGED db
    BY <1>2, <2>3 DEF UploadStart, UploadSave, UploadEnqueue, UploadPushRaises
  <2>4. QED
    BY <1>3, <2>1, <2>2, <2>3 DEF UploadStep
<1>4. ASSUME NEW d \in Docs, DeleteDocGet(d) \/ DeletionStep(d)
      PROVE  \A e \in Docs : Moves(e)
  <2>1. CASE DeleteDocRow(d)
    BY <1>1, <1>2, <2>1 DEF DeleteDocRow
  <2>2. CASE DeleteDocGet(d) \/ DeleteDocVectors(d)
    BY <1>2, <2>2 DEF DeleteDocGet, DeleteDocVectors
  <2>3. QED
    BY <1>4, <2>1, <2>2 DEF DeletionStep
<1>5. ASSUME DeleteWorkGet \/ WorkDeletionStep
      PROVE  \A e \in Docs : Moves(e)
  <2>1. CASE DeleteWorkRows /\ ~ UNCHANGED db
    <3>1. \A e \in Docs : ~RowExists(e) => chunkCount[e] = 0
      BY DEF OneJobInv, RowAgrees, RowExists, DocumentStatus
    <3>2. QED
      BY <2>1, <3>1 DEF DeleteWorkRows, NoChunks
  <2>2. CASE DeleteWorkGet \/ DeleteWorkVectors \/ UNCHANGED db
    BY <1>2, <2>2 DEF DeleteWorkGet, DeleteWorkVectors
  <2>3. QED
    BY <1>5, <2>1, <2>2 DEF WorkDeletionStep
<1>6. ASSUME NEW w \in Slots, MarkDoneCommit(w), ~ UNCHANGED db
      PROVE  \A e \in Docs : Moves(e)
  <2>1. job[w].pc = "doneCommit" /\ RowExists(job[w].doc)
        /\ UpdateRow(job[w].doc, job[w].seen, [status |-> "done", chunks |-> job[w].written])
    BY <1>6 DEF MarkDoneCommit
  <2>2. job[w].doc \in Docs /\ job[w].written \in Nat
    BY <2>1, RunningDoc
  <2>3. /\ job[w].seen = [status |-> "pending", chunks |-> 0]
        /\ status[job[w].doc] = "pending" /\ job[w].written # 0
    BY <2>1, <2>2, ConstantsAssumption DEF OneJobInv, JobAgrees, Ingesting, RowExists, DocumentStatus
  <2>4. /\ status' = [status EXCEPT ![job[w].doc] = "done"]
        /\ chunkCount' = [chunkCount EXCEPT ![job[w].doc] = job[w].written]
    BY <2>1, <2>3 DEF UpdateRow
  <2>5. QED
    BY <1>1, <1>6, <2>2, <2>3, <2>4
<1>7. ASSUME NEW w \in Slots, MarkFailedCommit(w), ~ UNCHANGED db
      PROVE  \A e \in Docs : Moves(e)
  <2>1. job[w].pc = "failCommit" /\ RowExists(job[w].doc)
        /\ UpdateRow(job[w].doc, job[w].seen, [status |-> "failed", chunks |-> 0])
    BY <1>7 DEF MarkFailedCommit
  <2>2. job[w].doc \in Docs
    BY <2>1, RunningDoc
  <2>3. /\ job[w].seen = Row(job[w].doc)
        /\ status[job[w].doc] = "pending" \/ (status[job[w].doc] = "done" /\ MayRetract)
    BY <2>1, <2>2 DEF OneJobInv, JobAgrees, Failing, RowExists, DocumentStatus
  <2>4. /\ status' = [status EXCEPT ![job[w].doc] = "failed"]
        /\ chunkCount' = [chunkCount EXCEPT ![job[w].doc] = 0]
    <3>1. /\ "failed" # job[w].seen.status
          /\ (IF 0 # job[w].seen.chunks THEN 0 ELSE chunkCount[job[w].doc]) = 0
      BY <2>3 DEF Row
    <3>2. QED
      BY <2>1, <3>1 DEF UpdateRow
  <2>5. status[job[w].doc] = "pending" => chunkCount[job[w].doc] = 0
    BY <2>2 DEF OneJobInv, RowAgrees
  <2>6. QED
    BY <1>1, <1>7, <2>2, <2>3, <2>4, <2>5
<1>8. CASE WorkerNext
  <2>1. CASE UNCHANGED db
    BY <1>2, <2>1
  <2>2. CASE ~ UNCHANGED db
    <3>1. \E w \in Slots : MarkDoneCommit(w) \/ MarkFailedCommit(w)
      BY <1>8, <2>2 DEF WorkerNext, Dequeue, Acquire, JobStep, AddCommits, AddRaises, BatchDone,
         BatchTimeout, MarkDoneGet, Rollback, MarkFailedGet, Unlink, LateEnds, JobOnly
    <3>2. QED
      BY <1>6, <1>7, <2>2, <3>1
  <2>3. QED
    BY <2>1, <2>2
<1>9. CASE LifespanNext
  <2>1. UNCHANGED db
    BY <1>9 DEF LifespanNext, Start, StartWithoutRedis, RecoverOne, RecoverFails, RecoverDone, Crash
  <2>2. QED
    BY <1>2, <2>1
<1>10. CASE UNCHANGED vars
  BY <1>2, <1>10 DEF vars
<1>11. QED
  BY <1>3, <1>4, <1>5, <1>8, <1>9, <1>10 DEF Next, HandlerNext

\* A batch is committed, and the job hears of it or does not.
Adds(w) == AddCommits(w) \/ (AddRaises(w) /\ "ack" \in Faults)

\* Vectors come from the thread of a batch and go by a rollback or a deletion.
LEMMA VectorsStep ==
  ASSUME TypeOK, [Next]_vars, NEW d \in Docs
  PROVE  \/ vectors'[d] = vectors[d]
         \/ \E w \in Slots : /\ Adds(w) /\ job[w].doc = d
                             /\ vectors'[d] = vectors[d] \cup BatchIds(d, job[w].written)
         \/ \E b \in Batches : /\ LateEnds(b) /\ b[1] = d
                               /\ vectors'[d] = vectors[d] \cup BatchIds(d, b[2])
         \/ \E w \in Slots : /\ Rollback(w) /\ job[w].doc = d
                             /\ vectors'[d] = vectors[d] \ IdsForDocument(job[w].written)
         \/ /\ DeleteDocVectors(d)
            /\ vectors'[d] = vectors[d] \ IdsForDocument(deletion[d].seen)
         \/ /\ DeleteWorkVectors
            /\ vectors'[d] = vectors[d] \ IdsForDocument(workDeletion.seen[d])
<1> USE DEF db, durable
<1>1. vectors \in [Docs -> SUBSET Nat]
  BY DEF TypeOK
<1>2. CASE HandlerNext
  <2>1. ASSUME NEW e \in Docs, DeleteDocVectors(e)
        PROVE  \/ vectors'[d] = vectors[d]
               \/ DeleteDocVectors(d) /\ vectors'[d] = vectors[d] \ IdsForDocument(deletion[d].seen)
    BY <1>1, <2>1 DEF DeleteDocVectors
  <2>2. ASSUME DeleteWorkVectors
        PROVE  \/ vectors'[d] = vectors[d]
               \/ vectors'[d] = vectors[d] \ IdsForDocument(workDeletion.seen[d])
    BY <1>1, <2>2 DEF DeleteWorkVectors
  <2>3. CASE ~DeleteWorkVectors /\ ~ \E e \in Docs : DeleteDocVectors(e)
    <3>1. vectors' = vectors
      BY <1>2, <2>3 DEF HandlerNext, UploadStart, UploadStep, UploadInsert, UploadSave, UploadEnqueue,
         UploadPushRaises, UploadMarkFailed, DeleteDocGet, DeletionStep, DeleteDocRow,
         DeleteWorkGet, WorkDeletionStep, DeleteWorkRows
    <3>2. QED
      BY <3>1
  <2>4. QED
    BY <2>1, <2>2, <2>3
<1>3. CASE WorkerNext
  <2>1. ASSUME NEW w \in Slots, AddCommits(w) \/ AddRaises(w)
        PROVE  \/ vectors'[d] = vectors[d]
               \/ /\ Adds(w) /\ job[w].doc = d
                  /\ vectors'[d] = vectors[d] \cup BatchIds(d, job[w].written)
    BY <1>1, <2>1 DEF AddCommits, AddRaises, Adds, Fault
  <2>2. ASSUME NEW b \in Batches, LateEnds(b)
        PROVE  \/ vectors'[d] = vectors[d]
               \/ b[1] = d /\ vectors'[d] = vectors[d] \cup BatchIds(d, b[2])
    BY <1>1, <2>2 DEF LateEnds
  <2>3. ASSUME NEW w \in Slots, Rollback(w)
        PROVE  \/ vectors'[d] = vectors[d]
               \/ job[w].doc = d /\ vectors'[d] = vectors[d] \ IdsForDocument(job[w].written)
    BY <1>1, <2>3 DEF Rollback
  <2>4. CASE /\ ~ \E w \in Slots : AddCommits(w) \/ AddRaises(w) \/ Rollback(w)
             /\ ~ \E b \in Batches : LateEnds(b)
    <3>1. vectors' = vectors
      BY <1>3, <2>4 DEF WorkerNext, Dequeue, Acquire, JobStep, BatchDone, BatchTimeout,
         MarkDoneGet, MarkDoneCommit, MarkFailedGet, MarkFailedCommit, Unlink
    <3>2. QED
      BY <3>1
  <2>5. QED
    BY <2>1, <2>2, <2>3, <2>4
<1>4. CASE LifespanNext
  <2>1. vectors' = vectors
    BY <1>4 DEF LifespanNext, Start, StartWithoutRedis, RecoverOne, RecoverFails, RecoverDone, Crash
  <2>2. QED
    BY <2>1
<1>5. CASE UNCHANGED vars
  BY <1>5 DEF vars
<1>6. QED
  BY <1>2, <1>3, <1>4, <1>5 DEF Next

\* Only a batch in progress leaves a thread behind.
LEMMA LateStep ==
  ASSUME TypeOK, [Next]_vars, NEW b \in Batches, late'[b] # 0
  PROVE  \/ late[b] # 0
         \/ \E w \in Slots : BatchTimeout(w) /\ job[w].pc = "adding" /\ job[w].doc = b[1]
<1> USE DEF worker, durable
<1>1. late \in [Batches -> Nat]
  BY DEF TypeOK
<1>2. ASSUME NEW w \in Slots, BatchTimeout(w)
      PROVE  \/ late[b] # 0
             \/ BatchTimeout(w) /\ job[w].pc = "adding" /\ job[w].doc = b[1]
  BY <1>1, <1>2 DEF BatchTimeout, Batch
<1>3. CASE \E c \in Batches : LateEnds(c)
  BY <1>1, <1>3 DEF LateEnds
<1>4. CASE HandlerNext
  <2>1. late' = late
    BY <1>4 DEF HandlerNext, UploadStart, UploadStep, UploadInsert, UploadSave, UploadEnqueue, UploadPushRaises,
       UploadMarkFailed, UploadOnly, DeleteDocGet, DeletionStep, DeleteDocVectors, DeleteDocRow,
       DeleteWorkGet, WorkDeletionStep, DeleteWorkVectors, DeleteWorkRows
  <2>2. QED
    BY <2>1
<1>5. CASE WorkerNext /\ ~ (\E w \in Slots : BatchTimeout(w)) /\ ~ (\E c \in Batches : LateEnds(c))
  <2>1. late' = late
    BY <1>5 DEF WorkerNext, Dequeue, Acquire, JobStep, AddCommits, AddRaises, BatchDone,
       MarkDoneGet, MarkDoneCommit, Rollback, MarkFailedGet, MarkFailedCommit, Unlink, JobOnly
  <2>2. QED
    BY <2>1
<1>6. CASE LifespanNext
  BY <1>6 DEF LifespanNext, Start, StartWithoutRedis, RecoverOne, RecoverFails, RecoverDone, Crash, NoThreads
<1>7. CASE UNCHANGED vars
  BY <1>7 DEF vars
<1>8. QED
  BY <1>2, <1>3, <1>4, <1>5, <1>6, <1>7 DEF Next

\* What a deletion has read of a document it read in this row.
LEMMA SeenStep ==
  ASSUME TypeOK, [Next]_vars, NEW d \in Docs
  PROVE  /\ deletion'[d].seen # 0 => deletion[d].seen # 0 \/ chunkCount[d] # 0
         /\ workDeletion'.seen[d] # 0 => workDeletion.seen[d] # 0 \/ chunkCount[d] # 0
<1> USE DEF handlers
<1>1. /\ deletion \in [Docs -> [pc : {"idle", "vectors", "row"}, seen : Nat]]
      /\ workDeletion \in [pc : {"idle", "vectors", "rows"}, seen : [Docs -> Nat]]
  BY DEF TypeOK
<1>2. ASSUME NEW e \in Docs, DeleteDocGet(e) \/ DeletionStep(e)
      PROVE  /\ deletion'[d].seen # 0 => deletion[d].seen # 0 \/ chunkCount[d] # 0
             /\ workDeletion' = workDeletion
  BY <1>1, <1>2 DEF DeleteDocGet, DeletionStep, DeleteDocVectors, DeleteDocRow, SetDeletion
<1>3. ASSUME DeleteWorkGet \/ WorkDeletionStep
      PROVE  /\ workDeletion'.seen[d] # 0 => chunkCount[d] # 0
             /\ deletion' = deletion
  BY <1>1, <1>3 DEF DeleteWorkGet, WorkDeletionStep, DeleteWorkVectors, DeleteWorkRows, NoChunks
<1>4. ASSUME NEW e \in Docs, UploadStart(e) \/ UploadStep(e)
      PROVE  UNCHANGED <<deletion, workDeletion>>
  BY <1>4 DEF UploadStart, UploadStep, UploadInsert, UploadSave, UploadEnqueue, UploadPushRaises,
     UploadMarkFailed, UploadOnly
<1>5. CASE WorkerNext
  BY <1>5 DEF WorkerNext, Dequeue, Acquire, JobStep, AddCommits, AddRaises, BatchDone, BatchTimeout,
     MarkDoneGet, MarkDoneCommit, Rollback, MarkFailedGet, MarkFailedCommit, Unlink, LateEnds, JobOnly
<1>6. CASE LifespanNext
  BY <1>6 DEF LifespanNext, Start, StartWithoutRedis, RecoverOne, RecoverFails, RecoverDone, Crash,
     NoDeletions, NoDeletion, NoChunks
<1>7. CASE UNCHANGED vars
  BY <1>7 DEF vars
<1>8. QED
  BY <1>2, <1>3, <1>4, <1>5, <1>6, <1>7 DEF Next, HandlerNext

\* The row, the vectors and what was read of them keep agreeing.
LEMMA RowAgreesStep ==
  ASSUME "crash" \notin Faults, "redis_push" \notin Faults, OneJobInv, [Next]_vars, NEW d \in Docs
  PROVE  RowAgrees(d)'
<1> USE DEF OneJobInv
<1>1. ASSUME chunkCount'[d] # 0
      PROVE  status'[d] = "done"
  BY <1>1, RowStep DEF RowAgrees
<1>2. ASSUME status'[d] \in {"done", "failed"}
      PROVE  upload'[d] \in {"accepted", "rejected"}
  <2>1. CASE status'[d] = status[d]
    BY <1>2, <2>1, AnsweredStays DEF RowAgrees
  <2>2. CASE UploadMarkFailed(d)
    BY <2>2 DEF UploadMarkFailed, SetUpload, TypeOK
  <2>3. ASSUME NEW w \in Slots, MarkFailedCommit(w) \/ MarkDoneCommit(w), job[w].doc = d
        PROVE  upload'[d] = "accepted"
    BY <2>3, RunningDoc, AnsweredStays DEF MarkFailedCommit, MarkDoneCommit
  <2>4. QED
    BY <1>2, <2>1, <2>2, <2>3, RowStep
<1>3. ASSUME deletion'[d].seen # 0 \/ workDeletion'.seen[d] # 0
      PROVE  status'[d] \in {"done", "failed", "deleted"}
  <2>1. status[d] \in {"done", "failed", "deleted"}
    BY <1>3, SeenStep DEF RowAgrees
  <2>2. QED
    BY <2>1, RowStep
<1>4. vectors'[d] \subseteq IdsForDocument(NumChunks[d])
  <2>1. \A from \in Nat : BatchIds(d, from) \subseteq IdsForDocument(NumChunks[d])
    BY DEF BatchIds
  <2>2. \A b \in Batches : b[2] \in Nat
    BY ConstantsAssumption DEF Batches, IdsForDocument
  <2>3. \A w \in Slots : Adds(w) => job[w].written \in Nat
    BY RunningDoc DEF Adds, AddCommits, AddRaises
  <2>4. QED
    BY <2>1, <2>2, <2>3, VectorsStep DEF RowAgrees
<1>5. ASSUME status'[d] = "none"
      PROVE  vectors'[d] = {} /\ \A b \in Batches : b[1] = d => late'[b] = 0
  <2>1. status[d] = "none"
    BY <1>5, RowStep
  <2>2. vectors[d] = {} /\ \A b \in Batches : b[1] = d => late[b] = 0
    BY <2>1 DEF RowAgrees
  <2>3. \A w \in Slots : job[w].pc # "idle" => job[w].doc # d
    BY <2>1, RunningDoc
  <2>4. vectors'[d] = {}
    BY <2>2, <2>3, VectorsStep DEF Adds, AddCommits, AddRaises, LateEnds
  <2>5. \A b \in Batches : b[1] = d => late'[b] = 0
    BY <2>2, <2>3, LateStep
  <2>6. QED
    BY <2>4, <2>5
<1>6. ASSUME Held(d)', ~Running(d)'
      PROVE  status'[d] \in {"pending", "deleted"}
  <2>1. CASE d \in Elements(queue) \cup Elements(waiting)
    <3>1. Held(d) /\ ~Running(d)
      BY <2>1 DEF Held, OneJob
    <3>2. status[d] \in {"pending", "deleted"} /\ upload[d] = "accepted"
      BY <3>1 DEF RowAgrees, PushedOnce
    <3>3. ~UploadMarkFailed(d)
      BY <3>2 DEF UploadMarkFailed
    <3>4. \A w \in Slots : job[w].doc = d => ~MarkFailedCommit(w) /\ ~MarkDoneCommit(w)
      BY <3>1 DEF Running, MarkFailedCommit, MarkDoneCommit
    <3>5. QED
      BY <3>2, <3>3, <3>4, RowStep DEF RowExists, DocumentStatus
  <2>2. CASE upload[d] = "saved" /\ UNCHANGED db
    <3>1. status[d] \notin {"none", "done", "failed"}
      BY <2>2 DEF DurableOrder, Admitted, RowAgrees
    <3>2. QED
      BY <2>2, <3>1 DEF db, TypeOK, DocumentStatus
  <2>3. d \in Elements(queue)' \cup Elements(waiting)'
    BY <1>6 DEF Held
  <2>4. QED
    BY <2>1, <2>2, <2>3, QueuedStep DEF PushedOnce
<1>7. QED
  BY <1>1, <1>2, <1>3, <1>4, <1>5, <1>6 DEF RowAgrees

\* Which slot moves: its own job's step, its permit taken, or nothing.
LEMMA SlotStep ==
  ASSUME ~Crash, TypeOK, [Next]_vars, NEW w \in Slots
  PROVE  Acquire(w) \/ JobStep(w) \/ job'[w] = job[w]
<1> USE DEF worker
<1>1. CASE HandlerNext
  BY <1>1 DEF HandlerNext, UploadStart, UploadStep, UploadInsert, UploadSave, UploadEnqueue, UploadPushRaises,
     UploadMarkFailed, UploadOnly, DeleteDocGet, DeletionStep, DeleteDocVectors, DeleteDocRow,
     DeleteWorkGet, WorkDeletionStep, DeleteWorkVectors, DeleteWorkRows
<1>2. ASSUME NEW v \in Slots, Acquire(v) \/ JobStep(v)
      PROVE  v = w \/ job'[w] = job[w]
  BY <1>2, AcquirePlaces, JobStepPlaces
<1>3. CASE Dequeue \/ \E b \in Batches : LateEnds(b)
  BY <1>3 DEF Dequeue, LateEnds
<1>4. CASE LifespanNext
  BY <1>4 DEF LifespanNext, Start, StartWithoutRedis, RecoverOne, RecoverFails, RecoverDone
<1>5. CASE UNCHANGED vars
  BY <1>5 DEF vars
<1>6. QED
  BY <1>1, <1>2, <1>3, <1>4, <1>5 DEF Next, WorkerNext

\* The others' steps leave a job's row unsettled and its chunks in the collection.
LEMMA OthersKeepJob ==
  ASSUME "crash" \notin Faults, OneJobInv, [Next]_vars, NEW w \in Slots, job'[w] = job[w]
  PROVE  JobAgrees(w)'
<1> DEFINE d == job[w].doc
<1> USE DEF OneJobInv
<1>1. CASE job[w].pc \in {"idle", "failUnlink"}
  BY <1>1 DEF JobAgrees, Ingesting, Failing
<1>2. CASE job[w].pc \notin {"idle", "failUnlink"}
  <2>1. d \in Docs /\ upload[d] = "accepted" /\ status[d] # "none" /\ JobAgrees(w)
    BY <1>2, RunningDoc
  <2>2. ~UploadMarkFailed(d)
    BY <2>1 DEF UploadMarkFailed
  <2>3. \A v \in Slots : job[v].pc # "idle" /\ job[v].doc = d => v = w
    BY <1>2 DEF OneJob
  <2>4. ~MarkFailedCommit(w) /\ ~MarkDoneCommit(w)
    <3>1. \A pc \in {"unlink", "failUnlink", "rollback", "failGet"} : SetPC(w, pc) => job'[w].pc = pc
      BY <1>2, RunningDoc DEF SetPC, SetJob, TypeOK
    <3>2. SetJob(w, IdleJob) => job'[w].pc = "idle"
      BY DEF SetJob, IdleJob, TypeOK
    <3>3. QED
      BY <1>2, <3>1, <3>2 DEF MarkFailedCommit, MarkDoneCommit, FailPC
  <2>5. \A v \in Slots : job[v].doc = d => ~MarkFailedCommit(v) /\ ~MarkDoneCommit(v)
    BY <2>3, <2>4 DEF MarkFailedCommit, MarkDoneCommit
  <2>6. \/ status'[d] = status[d] /\ chunkCount'[d] = chunkCount[d]
        \/ status'[d] = "deleted"
    BY <2>1, <2>2, <2>5, RowStep
  <2>7. ASSUME job[w].pc \in Ingesting, status'[d] = "pending"
        PROVE  Added(w)' \subseteq vectors'[d]
    <3>1. Added(w)' = Added(w)
      BY DEF Added
    <3>2. Added(w) \subseteq vectors[d] /\ status[d] = "pending"
      BY <2>1, <2>6, <2>7 DEF JobAgrees
    <3>3. deletion[d].seen = 0 /\ workDeletion.seen[d] = 0
      BY <2>1, <3>2 DEF RowAgrees
    <3>4. IdsForDocument(0) = {}
      BY DEF IdsForDocument
    <3>5. \A v \in Slots : job[v].doc = d => ~Rollback(v)
      BY <2>3, <2>7 DEF Rollback, Ingesting
    <3>6. vectors[d] \subseteq vectors'[d]
      BY <2>1, <3>3, <3>4, <3>5, VectorsStep
    <3>7. QED
      BY <3>1, <3>2, <3>6
  <2>8. job[w].pc = "failCommit" /\ RowExists(d)' => job[w].seen = Row(d)'
    BY <2>1, <2>6 DEF JobAgrees, RowExists, Row, DocumentStatus
  <2>9. QED
    BY <1>2, <2>1, <2>6, <2>7, <2>8 DEF JobAgrees
<1>3. QED
  BY <1>1, <1>2

\* A job starts with a row to settle and nothing added.
LEMMA AcquireAgrees ==
  ASSUME OneJobInv, NEW w \in Slots, Acquire(w)
  PROVE  JobAgrees(w)'
<1> DEFINE d == Head(waiting)
<1> USE DEF OneJobInv
<1>1. /\ waiting # <<>> /\ d \in Docs
      /\ job'[w].doc = d /\ job'[w].written = 0 /\ job'[w].pc \in {"adding", "failGet"}
      /\ job'[w].pc = "adding" => NumChunks[d] > 0
  BY AcquirePlaces
<1>2. d \in Elements(waiting)
  BY <1>1, HeadTailElements DEF TypeOK
<1>3. Held(d) /\ ~Running(d)
  BY <1>2 DEF Held, OneJob
<1>4. status[d] \in {"pending", "deleted"}
  BY <1>1, <1>3 DEF RowAgrees
<1>5. status' = status
  BY DEF Acquire, durable, db
<1>6. job'[w].pc = "adding" => Added(w)' = {}
  BY <1>1 DEF Added, IdsForDocument
<1>7. QED
  BY <1>1, <1>4, <1>5, <1>6 DEF JobAgrees, Ingesting, Failing

\* Its own steps count what they have added before they publish it.
LEMMA JobStepAgrees ==
  ASSUME OneJobInv, NEW w \in Slots, JobStep(w)
  PROVE  JobAgrees(w)'
<1> DEFINE d == job[w].doc
<1> USE DEF OneJobInv, db, JobOnly
<1>1. job[w].pc # "idle"
  BY JobStepPlaces
<1>2. /\ job[w] \in [pc : JobPC, doc : Docs, written : Nat, seen : RowType \cup {NotRead}]
      /\ d \in Docs /\ job[w].written \in Nat
  BY <1>1, RunningDoc
<1>3. job \in [Slots -> JobType] /\ vectors \in [Docs -> SUBSET Nat] /\ NumChunks[d] \in Nat
  BY <1>2, ConstantsAssumption DEF TypeOK
<1>4. ASSUME NEW pc \in {"added", "rollback", "failGet", "unlink", "failUnlink"}, SetPC(w, pc)
      PROVE  job'[w] = [job[w] EXCEPT !.pc = pc]
  BY <1>3, <1>4 DEF SetPC, SetJob
<1>5. ASSUME SetJob(w, IdleJob) \/ SetPC(w, "failUnlink")
      PROVE  JobAgrees(w)'
  <2>1. job'[w].pc \in {"idle", "failUnlink"}
    BY <1>2, <1>3, <1>4, <1>5 DEF SetJob, IdleJob
  <2>2. QED
    BY <2>1 DEF JobAgrees, Ingesting, Failing
<1>6. ASSUME SetPC(w, "unlink"),
             status'[d] = "deleted" \/ (status'[d] = "done" /\ chunkCount'[d] = job[w].written)
      PROVE  JobAgrees(w)'
  <2>1. job'[w].pc = "unlink" /\ job'[w].doc = d /\ job'[w].written = job[w].written
    BY <1>2, <1>4, <1>6
  <2>2. QED
    BY <1>6, <2>1 DEF JobAgrees, Ingesting, Failing
<1>7. ASSUME NEW pc \in {"rollback", "failGet"}, SetPC(w, pc),
             status'[d] \in {"pending", "deleted"} \/ (status'[d] = "done" /\ MayRetract)
      PROVE  JobAgrees(w)'
  <2>1. job'[w].pc = pc /\ job'[w].doc = d
    BY <1>2, <1>4, <1>7
  <2>2. QED
    BY <1>7, <2>1 DEF JobAgrees, Ingesting, Failing
<1>8. /\ FailPC(w) \in {"rollback", "failGet"}
      /\ job[w].pc \in Ingesting \cup Failing
           => status[d] \in {"pending", "deleted"} \/ (status[d] = "done" /\ MayRetract)
  BY DEF FailPC, JobAgrees
<1>9. CASE AddCommits(w)
  <2>1. /\ job'[w] = [job[w] EXCEPT !.pc = "added"] /\ job[w].pc = "adding"
        /\ vectors'[d] = vectors[d] \cup BatchIds(d, job[w].written) /\ status' = status
    BY <1>2, <1>3, <1>4, <1>9 DEF AddCommits
  <2>2. job'[w].pc = "added" /\ job'[w].doc = d /\ job'[w].written = job[w].written
    BY <1>2, <2>1
  <2>3. Added(w) = IdsForDocument(job[w].written) /\ Added(w)' = IdsForDocument(NextBatch(d, job[w].written))
    BY <2>1, <2>2 DEF Added
  <2>4. IdsForDocument(NextBatch(d, job[w].written))
          \subseteq IdsForDocument(job[w].written) \cup BatchIds(d, job[w].written)
    BY <1>2, <1>3, ConstantsAssumption DEF IdsForDocument, NextBatch, BatchIds
  <2>5. QED
    BY <2>1, <2>2, <2>3, <2>4 DEF JobAgrees, Ingesting, Failing
<1>10. CASE BatchDone(w)
  <2> DEFINE n == NextBatch(d, job[w].written)
  <2>1. n \in Nat /\ (n < NumChunks[d] \/ n = NumChunks[d])
    BY <1>2, <1>3, ConstantsAssumption DEF NextBatch
  <2>2. /\ job[w].pc = "added" /\ status' = status /\ vectors' = vectors
        /\ SetJob(w, [job[w] EXCEPT !.written = n,
                                    !.pc = IF n < NumChunks[d] THEN "adding" ELSE "doneGet"])
    BY <1>10 DEF BatchDone
  <2>3. Added(w) = IdsForDocument(n)
    BY <2>2 DEF Added
  <2> HIDE DEF n
  <2>4. /\ job'[w].doc = d /\ job'[w].written = n
        /\ job'[w].pc = IF n < NumChunks[d] THEN "adding" ELSE "doneGet"
    BY <1>2, <1>3, <2>2 DEF SetJob
  <2>5. Added(w)' = IdsForDocument(n)
    BY <2>4 DEF Added
  <2>6. job[w].written < NumChunks[d]
    BY <2>2 DEF JobAgrees
  <2>7. NumChunks[d] > 0
    BY <1>2, <1>3, <2>6
  <2>8. QED
    BY <2>1, <2>2, <2>3, <2>4, <2>5, <2>7 DEF JobAgrees, Ingesting, Failing
<1>11. CASE AddRaises(w) \/ BatchTimeout(w)
  BY <1>7, <1>8, <1>11 DEF AddRaises, BatchTimeout, Ingesting
<1>12. CASE Rollback(w)
  BY <1>7, <1>8, <1>12 DEF Rollback, Failing
<1>13. ASSUME RowExists(d), NEW pc \in {"doneCommit", "failCommit"},
              job[w].pc = IF pc = "doneCommit" THEN "doneGet" ELSE "failGet",
              SetJob(w, [job[w] EXCEPT !.pc = pc, !.seen = Row(d)]),
              UNCHANGED <<status, chunkCount, vectors>>
       PROVE  JobAgrees(w)'
  <2>1. pc = "doneCommit" => status[d] = "pending" /\ chunkCount[d] = 0
    BY <1>2, <1>13 DEF JobAgrees, RowAgrees, RowExists, DocumentStatus, Ingesting
  <2>2. /\ job'[w].pc = pc /\ job'[w].doc = d /\ job'[w].written = job[w].written
        /\ job'[w].seen = Row(d) /\ Row(d)' = Row(d)
    BY <1>2, <1>3, <1>13 DEF SetJob, Row
  <2>3. pc = "doneCommit" => Added(w)' = Added(w) /\ Row(d) = [status |-> "pending", chunks |-> 0]
    BY <1>13, <2>1, <2>2 DEF Added, Row
  <2>4. CASE pc = "doneCommit"
    BY <1>13, <2>1, <2>2, <2>3, <2>4 DEF JobAgrees, Ingesting, Failing
  <2>5. CASE pc = "failCommit"
    BY <1>8, <1>13, <2>2, <2>5 DEF JobAgrees, Ingesting, Failing
  <2>6. QED
    BY <2>4, <2>5
<1>14. CASE MarkDoneGet(w)
  <2>1. UNCHANGED <<status, chunkCount, vectors>> /\ job[w].pc = "doneGet"
    BY <1>14 DEF MarkDoneGet
  <2>2. ~RowExists(d) => status[d] = "deleted"
    BY <1>2, <2>1 DEF JobAgrees, Ingesting, RowExists, DocumentStatus
  <2>3. CASE RowExists(d) /\ SetJob(w, [job[w] EXCEPT !.pc = "doneCommit", !.seen = Row(d)])
    BY <1>13, <2>1, <2>3
  <2>4. CASE ~RowExists(d) /\ SetPC(w, "unlink")
    BY <1>6, <2>1, <2>2, <2>4
  <2>5. CASE SetPC(w, FailPC(w))
    BY <1>7, <1>8, <2>1, <2>5 DEF Ingesting
  <2>6. QED
    BY <1>14, <2>3, <2>4, <2>5 DEF MarkDoneGet
<1>15. CASE MarkFailedGet(w)
  <2>1. UNCHANGED <<status, chunkCount, vectors>> /\ job[w].pc = "failGet"
    BY <1>15 DEF MarkFailedGet
  <2>2. CASE RowExists(d) /\ SetJob(w, [job[w] EXCEPT !.pc = "failCommit", !.seen = Row(d)])
    BY <1>13, <2>1, <2>2
  <2>3. QED
    BY <1>5, <1>15, <2>2 DEF MarkFailedGet
<1>16. CASE MarkDoneCommit(w)
  <2> DEFINE done == [status |-> "done", chunks |-> job[w].written]
  <2>1. /\ job[w].pc = "doneCommit" /\ job[w].seen = [status |-> "pending", chunks |-> 0]
        /\ status[d] \in {"pending", "deleted"} /\ job[w].written > 0
    BY <1>2, <1>3, <1>16 DEF MarkDoneCommit, JobAgrees, Ingesting
  <2>2. UpdateRow(d, job[w].seen, done) => status'[d] = "done" /\ chunkCount'[d] = job[w].written
    BY <1>2, <2>1 DEF UpdateRow, TypeOK
  <2>3. job[w].seen # done
    BY <2>1
  <2>4. CASE UpdateRow(d, job[w].seen, done) /\ SetPC(w, "unlink")
    BY <1>6, <2>2, <2>4
  <2>5. CASE UpdateRow(d, job[w].seen, done) /\ SetPC(w, FailPC(w)) /\ Fault("ack")
    BY <1>7, <1>8, <2>2, <2>5 DEF MayRetract, Fault
  <2>6. CASE UNCHANGED db /\ SetPC(w, FailPC(w))
    BY <1>7, <1>8, <2>1, <2>6
  <2>7. QED
    BY <1>16, <2>3, <2>4, <2>5, <2>6 DEF MarkDoneCommit
<1>17. CASE MarkFailedCommit(w)
  BY <1>5, <1>17 DEF MarkFailedCommit
<1>18. CASE Unlink(w)
  <2>1. CASE SetJob(w, IdleJob)
    BY <1>5, <2>1
  <2>2. CASE job[w].pc = "unlink" /\ SetPC(w, FailPC(w)) /\ "listing" \in Faults
    <3>1. status'[d] = "deleted" \/ (status'[d] = "done" /\ MayRetract)
      BY <1>18, <2>2 DEF Unlink, JobAgrees, MayRetract
    <3>2. QED
      BY <1>7, <1>8, <2>2, <3>1
  <2>3. QED
    BY <1>18, <2>1, <2>2 DEF Unlink, DeleteUploadFileRaises, Fault, SetPC
<1>19. QED
  BY <1>9, <1>10, <1>11, <1>12, <1>14, <1>15, <1>16, <1>17, <1>18 DEF JobStep

-----------------------------------------------------------------------------
(* The invariant *)

LEMMA InitOneJob ==
  Init => OneJobInv
<1> SUFFICES ASSUME Init
             PROVE  OneJobInv
  OBVIOUS
<1>1. TypeOK /\ DurableOrder
  BY InitType, InitDurableOrder
<1>2. \A w \in Slots : job[w].pc = "idle"
  BY DEF Init, NoJobs, IdleJob
<1>3. Elements(queue) = {} /\ Elements(waiting) = {} /\ IsInjective(queue) /\ IsInjective(waiting)
  BY DEF Init, Elements, IsInjective
<1>4. \A d \in Docs : ~Running(d) /\ ~Held(d)
  BY <1>2, <1>3 DEF Running, Held
<1>5. OneJob /\ PushedOnce
  BY <1>2, <1>3, <1>4 DEF Init, OneJob, PushedOnce, NoUploads
<1>6. \A d \in Docs : RowAgrees(d)
  BY <1>4 DEF Init, RowAgrees, NoChunks, NoDeletions, NoDeletion, NoThreads
<1>7. \A w \in Slots : JobAgrees(w)
  BY <1>2 DEF JobAgrees, Ingesting, Failing
<1>8. QED
  BY <1>1, <1>5, <1>6, <1>7 DEF OneJobInv

LEMMA OneJobInvStep ==
  ASSUME "crash" \notin Faults, "redis_push" \notin Faults, OneJobInv, [Next]_vars
  PROVE  OneJobInv'
<1> USE DEF OneJobInv
<1>1. TypeOK'
  BY NextType
<1>2. DurableOrder'
  BY AdmittedStep, SettledFirstStep DEF DurableOrder
<1>3. OneJob' /\ PushedOnce'
  BY OneJobStep, PushedOnceStep
<1>4. \A d \in Docs : RowAgrees(d)'
  BY RowAgreesStep
<1>5. \A w \in Slots : JobAgrees(w)'
  BY SlotStep, OthersKeepJob, AcquireAgrees, JobStepAgrees DEF Crash, Fault
<1>6. QED
  BY <1>1, <1>2, <1>3, <1>4, <1>5

\* Unless the process crashes or a push fails, every document has one job, which finds
\* the row pending until it settles it: whatever else fails, acknowledgements of commits
\* and the unlink of the file included.
THEOREM OneJobPerDocument ==
  ASSUME "crash" \notin Faults, "redis_push" \notin Faults
  PROVE  Spec => []OneJobInv
BY InitOneJob, OneJobInvStep, PTL DEF Spec

\* done is published by a job that counted every chunk, and no deletion and no other
\* job has taken any of them away since.
THEOREM PublishedIsSearchable ==
  ASSUME "crash" \notin Faults, "redis_push" \notin Faults
  PROVE  Spec => SearchableWhenDone
<1> DEFINE Complete ==
      \A d \in Docs : status[d] # "done" /\ status'[d] = "done"
                        => vectors[d] = IdsForDocument(NumChunks[d])
<1>1. OneJobInv /\ [Next]_vars => Complete
  <2> SUFFICES ASSUME OneJobInv, [Next]_vars, NEW d \in Docs, status[d] # "done", status'[d] = "done"
               PROVE  vectors[d] = IdsForDocument(NumChunks[d])
    OBVIOUS
  <2>1. PICK w \in Slots : MarkDoneCommit(w) /\ job[w].doc = d /\ status[d] = "pending"
    BY RowStep
  <2>2. job[w].pc = "doneCommit"
    BY <2>1 DEF MarkDoneCommit
  <2>3. job[w].written = NumChunks[d] /\ Added(w) \subseteq vectors[d]
    BY <2>1, <2>2 DEF OneJobInv, JobAgrees, Ingesting
  <2>4. vectors[d] \subseteq IdsForDocument(NumChunks[d])
    BY DEF OneJobInv, RowAgrees
  <2>5. QED
    BY <2>2, <2>3, <2>4 DEF Added
<1>2. Spec => [][Complete]_vars
  BY <1>1, OneJobPerDocument, PTL DEF Spec
<1>3. QED
  BY <1>2 DEF SearchableWhenDone

\* With one job per document nobody fails what is done, unless the job that published
\* it is told of an exception afterwards: only a deletion ends it.
THEOREM VerdictIsFinal ==
  ASSUME "crash" \notin Faults, "redis_push" \notin Faults,
         "ack" \notin Faults, "listing" \notin Faults
  PROVE  Spec => DoneStaysDone
<1> DEFINE Final ==
      \A d \in Docs : status[d] = "done" => status'[d] \in {"done", "deleted"}
<1>1. OneJobInv /\ [Next]_vars => Final
  BY RowStep DEF MayRetract
<1>2. Spec => [][Final]_vars
  BY <1>1, OneJobPerDocument, PTL DEF Spec
<1>3. QED
  BY <1>2 DEF DoneStaysDone

-----------------------------------------------------------------------------
(* Rows cover vectors *)

\* Without a job a pending document has no vectors
RowCovers(d) ==
  /\ status[d] = "pending" /\ ~Running(d) => vectors[d] = {}
  /\ status[d] \in {"done", "failed"} => vectors[d] \subseteq IdsForDocument(chunkCount[d])

\* and with a job only those that its rollback removes
JobCovers(w) ==
  job[w].pc \in Ingesting \cup Failing /\ RowExists(job[w].doc) =>
    IF job[w].pc \in {"failGet", "failCommit"} THEN vectors[job[w].doc] = {}
                                               ELSE vectors[job[w].doc] \subseteq Added(w)

CoverInv ==
  /\ \A b \in Batches : late[b] = 0
  /\ \A d \in Docs : RowCovers(d)
  /\ \A w \in Slots : JobCovers(w)

\* A job ends having settled its row, or having failed to.
LEMMA JobEnds ==
  ASSUME OneJobInv, NEW w \in Slots, JobStep(w), job'[w].pc = "idle"
  PROVE  job[w].pc \in {"failGet", "failCommit"} \cup UnlinkPC /\ vectors' = vectors
<1>1. job[w].pc # "idle"
  BY JobStepPlaces DEF OneJobInv
<1>2. /\ job[w] \in [pc : JobPC, doc : Docs, written : Nat, seen : RowType \cup {NotRead}]
      /\ job \in [Slots -> JobType]
  BY <1>1, RunningDoc DEF OneJobInv, TypeOK
<1>3. \A pc : SetPC(w, pc) => job'[w].pc = pc
  BY <1>2 DEF SetPC, SetJob
<1>4. FailPC(w) # "idle"
  BY DEF FailPC
<1>5. ~AddCommits(w) /\ ~AddRaises(w) /\ ~BatchTimeout(w) /\ ~Rollback(w)
  BY <1>3, <1>4 DEF AddCommits, AddRaises, BatchTimeout, Rollback
<1>6. ~BatchDone(w)
  <2>1. \A n \in Nat, pc \in {"adding", "doneGet"} :
          SetJob(w, [job[w] EXCEPT !.written = n, !.pc = pc]) => job'[w].pc # "idle"
    BY <1>2 DEF SetJob
  <2>2. NextBatch(job[w].doc, job[w].written) \in Nat
    BY <1>2, NextBatchType
  <2>3. QED
    BY <2>1, <2>2 DEF BatchDone
<1>7. ~MarkDoneGet(w) /\ ~MarkDoneCommit(w)
  <2>1. SetJob(w, [job[w] EXCEPT !.pc = "doneCommit", !.seen = Row(job[w].doc)]) => job'[w].pc # "idle"
    BY <1>2 DEF SetJob
  <2>2. QED
    BY <1>3, <1>4, <2>1 DEF MarkDoneGet, MarkDoneCommit
<1>8. QED
  BY <1>5, <1>6, <1>7 DEF JobStep, MarkFailedGet, MarkFailedCommit, Unlink, durable

\* Nobody adds to a document that no job runs.
LEMMA IdleVectors ==
  ASSUME OneJobInv, \A b \in Batches : late[b] = 0, [Next]_vars,
         NEW d \in Docs, \A w \in Slots : Adds(w) => job[w].doc # d
  PROVE  vectors'[d] \subseteq vectors[d]
<1>1. \A b \in Batches : ~LateEnds(b)
  BY DEF LateEnds
<1>2. QED
  BY <1>1, VectorsStep DEF OneJobInv

\* A settled row covers what is in the collection, and a pending one that has lost its
\* job has nothing there.
LEMMA RowCoversStep ==
  ASSUME "crash" \notin Faults, OneJobInv, CoverInv, [Next]_vars, NEW d \in Docs
  PROVE  RowCovers(d)'
<1> USE DEF OneJobInv, CoverInv
<1>1. ASSUME status'[d] = "pending", ~Running(d)'
      PROVE  vectors'[d] = {}
  <2>1. CASE ~Running(d)
    <3>1. \A w \in Slots : Adds(w) => job[w].doc # d
      BY <2>1 DEF Running, Adds, AddCommits, AddRaises
    <3>2. status[d] \in {"none", "pending"}
      BY <1>1, RowStep
    <3>3. vectors[d] = {}
      BY <2>1, <3>2 DEF RowAgrees, RowCovers
    <3>4. QED
      BY <3>1, <3>3, IdleVectors
  <2>2. CASE Running(d)
    <3>1. PICK w \in Slots : job[w].pc # "idle" /\ job[w].doc = d
      BY <2>2 DEF Running
    <3>2. job'[w].pc = "idle" \/ job'[w].doc # d
      BY <1>1 DEF Running
    <3>3. JobStep(w) /\ job'[w].pc = "idle"
      BY <3>1, <3>2, SlotStep, AcquirePlaces, JobStepPlaces DEF Crash, Fault
    <3>4. status[d] = "pending"
      BY <1>1, <3>1, RowStep, RunningDoc
    <3>5. job[w].pc \in {"failGet", "failCommit"} \cup UnlinkPC /\ vectors' = vectors
      BY <3>3, JobEnds
    <3>6. job[w].pc \notin UnlinkPC
      BY <3>1, <3>4 DEF DurableOrder, SettledFirst
    <3>7. QED
      BY <3>1, <3>4, <3>5, <3>6 DEF JobCovers, Failing, RowExists, DocumentStatus
  <2>3. QED
    BY <2>1, <2>2
<1>2. ASSUME status'[d] \in {"done", "failed"}
      PROVE  vectors'[d] \subseteq IdsForDocument(chunkCount'[d])
  <2>1. CASE status'[d] = status[d] /\ chunkCount'[d] = chunkCount[d]
    <3>1. \A w \in Slots : Adds(w) => job[w].doc # d
      BY <1>2, <2>1 DEF JobAgrees, Ingesting, Adds, AddCommits, AddRaises
    <3>2. QED
      BY <1>2, <2>1, <3>1, IdleVectors DEF RowCovers
  <2>2. CASE status[d] = "pending" /\ UploadMarkFailed(d)
    <3>1. ~Running(d)
      BY <2>2 DEF PushedOnce, Held, UploadMarkFailed
    <3>2. vectors' = vectors
      BY <2>2 DEF UploadMarkFailed
    <3>3. QED
      BY <2>2, <3>1, <3>2 DEF RowCovers
  <2>3. ASSUME status[d] \in {"pending", "done"}, NEW w \in Slots, job[w].doc = d, MarkFailedCommit(w)
        PROVE  vectors'[d] \subseteq IdsForDocument(chunkCount'[d])
    BY <2>3 DEF JobCovers, Failing, RowExists, DocumentStatus, MarkFailedCommit
  <2>4. ASSUME status[d] = "pending", NEW w \in Slots, job[w].doc = d, MarkDoneCommit(w),
               chunkCount'[d] = job[w].written
        PROVE  vectors'[d] \subseteq IdsForDocument(chunkCount'[d])
    BY <2>4 DEF JobCovers, Ingesting, RowExists, DocumentStatus, MarkDoneCommit, Added
  <2>5. QED
    BY <1>2, <2>1, <2>2, <2>3, <2>4, RowStep
<1>3. QED
  BY <1>1, <1>2 DEF RowCovers

\* A job accounts for every chunk of its document in the collection, until its rollback
\* has removed them.
LEMMA JobCoversStep ==
  ASSUME "vector" \notin Faults, "timeout" \notin Faults, "ack" \notin Faults,
         OneJobInv, CoverInv, NEW w \in Slots, JobStep(w)
  PROVE  JobCovers(w)'
<1> DEFINE d == job[w].doc
<1> USE DEF OneJobInv, CoverInv, db, JobOnly
<1>1. job[w].pc # "idle"
  BY JobStepPlaces
<1>2. /\ job[w] \in [pc : JobPC, doc : Docs, written : Nat, seen : RowType \cup {NotRead}]
      /\ d \in Docs /\ job[w].written \in Nat
  BY <1>1, RunningDoc
<1>3. job \in [Slots -> JobType] /\ vectors \in [Docs -> SUBSET Nat] /\ NumChunks[d] \in Nat
  BY <1>2, ConstantsAssumption DEF TypeOK
<1>4. ASSUME NEW pc, SetPC(w, pc)
      PROVE  job'[w] = [job[w] EXCEPT !.pc = pc]
  BY <1>3, <1>4 DEF SetPC, SetJob
<1>5. ASSUME SetJob(w, IdleJob) \/ SetPC(w, "unlink") \/ SetPC(w, "failUnlink")
      PROVE  JobCovers(w)'
  <2>1. job'[w].pc \in {"idle", "unlink", "failUnlink"}
    BY <1>2, <1>3, <1>5 DEF SetPC, SetJob, IdleJob
  <2>2. QED
    BY <2>1 DEF JobCovers, Ingesting, Failing
<1>6. ASSUME RowExists(d) => vectors[d] \subseteq IdsForDocument(job[w].written),
             SetPC(w, FailPC(w)), UNCHANGED <<status, vectors>>
      PROVE  JobCovers(w)'
  <2>1. /\ job'[w].pc = FailPC(w) /\ job'[w].doc = d /\ job'[w].written = job[w].written
        /\ RowExists(d)' = RowExists(d)
    BY <1>2, <1>3, <1>6 DEF SetPC, SetJob, RowExists
  <2>2. CASE job[w].written > 0
    <3>1. job'[w].pc = "rollback"
      BY <2>1, <2>2 DEF FailPC
    <3>2. Added(w)' = IdsForDocument(job[w].written)
      BY <2>1, <3>1 DEF Added
    <3>3. QED
      BY <1>6, <2>1, <3>1, <3>2 DEF JobCovers
  <2>3. CASE ~(job[w].written > 0)
    <3>1. IdsForDocument(job[w].written) = {}
      BY <1>2, <2>3 DEF IdsForDocument
    <3>2. QED
      BY <1>6, <2>1, <2>3, <3>1 DEF JobCovers, FailPC
  <2>4. QED
    BY <2>2, <2>3
<1>a. ASSUME job[w].pc \in {"adding", "doneGet", "doneCommit"}, RowExists(d)
      PROVE  vectors[d] \subseteq IdsForDocument(job[w].written)
  BY <1>a DEF JobCovers, Ingesting, Added
<1>7. CASE AddCommits(w)
  <2>1. /\ job'[w] = [job[w] EXCEPT !.pc = "added"] /\ job[w].pc = "adding"
        /\ vectors'[d] = vectors[d] \cup BatchIds(d, job[w].written) /\ status' = status
    BY <1>2, <1>3, <1>4, <1>7 DEF AddCommits
  <2>2. job'[w].pc = "added" /\ job'[w].doc = d /\ job'[w].written = job[w].written
    BY <1>2, <2>1
  <2>3. Added(w) = IdsForDocument(job[w].written) /\ Added(w)' = IdsForDocument(NextBatch(d, job[w].written))
    BY <2>1, <2>2 DEF Added
  <2>4. job[w].written < NumChunks[d]
    BY <2>1 DEF JobAgrees
  <2>5. IdsForDocument(job[w].written) \cup BatchIds(d, job[w].written)
          \subseteq IdsForDocument(NextBatch(d, job[w].written))
    BY <1>2, <1>3, <2>4, ConstantsAssumption DEF IdsForDocument, NextBatch, BatchIds
  <2>6. QED
    BY <2>1, <2>2, <2>3, <2>5 DEF JobCovers, Ingesting, RowExists
<1>8. CASE BatchDone(w)
  <2> DEFINE n == NextBatch(d, job[w].written)
  <2>1. /\ job[w].pc = "added" /\ status' = status /\ vectors' = vectors
        /\ SetJob(w, [job[w] EXCEPT !.written = n,
                                    !.pc = IF n < NumChunks[d] THEN "adding" ELSE "doneGet"])
    BY <1>8 DEF BatchDone
  <2>2. Added(w) = IdsForDocument(n)
    BY <2>1 DEF Added
  <2> HIDE DEF n
  <2>3. /\ job'[w].doc = d /\ job'[w].written = n /\ job'[w].pc \in {"adding", "doneGet"}
    BY <1>2, <1>3, <2>1 DEF SetJob
  <2>4. Added(w)' = IdsForDocument(n)
    BY <2>3 DEF Added
  <2>5. QED
    BY <2>1, <2>2, <2>3, <2>4 DEF JobCovers, Ingesting, RowExists
<1>9. CASE AddRaises(w)
  BY <1>6, <1>a, <1>9 DEF AddRaises, Fault
<1>10. ~BatchTimeout(w)
  BY DEF BatchTimeout, Fault
<1>11. ASSUME job[w].pc \in {"doneGet", "failGet"},
              NEW pc \in {"doneCommit", "failCommit"},
              pc = "doneCommit" <=> job[w].pc = "doneGet",
              SetJob(w, [job[w] EXCEPT !.pc = pc, !.seen = Row(d)]), UNCHANGED <<status, vectors>>
       PROVE  JobCovers(w)'
  <2>1. job'[w].pc = pc /\ job'[w].doc = d /\ job'[w].written = job[w].written
    BY <1>2, <1>3, <1>11 DEF SetJob
  <2>2. pc = "doneCommit" => Added(w)' = Added(w)
    BY <1>11, <2>1 DEF Added
  <2>3. QED
    BY <1>11, <2>1, <2>2 DEF JobCovers, Ingesting, Failing, RowExists
<1>12. CASE MarkDoneGet(w)
  BY <1>5, <1>6, <1>a, <1>11, <1>12 DEF MarkDoneGet
<1>13. CASE MarkDoneCommit(w)
  <2>1. SetPC(w, "unlink") \/ (SetPC(w, FailPC(w)) /\ UNCHANGED db /\ job[w].pc = "doneCommit")
    BY <1>13 DEF MarkDoneCommit, Fault
  <2>2. vectors' = vectors
    BY <1>13 DEF MarkDoneCommit
  <2>3. QED
    BY <1>5, <1>6, <1>a, <2>1, <2>2
<1>14. CASE Rollback(w)
  <2>1. /\ job[w].pc = "rollback" /\ status' = status
        /\ vectors'[d] = vectors[d] \ IdsForDocument(job[w].written)
        /\ job'[w] = [job[w] EXCEPT !.pc = "failGet"]
    BY <1>2, <1>3, <1>4, <1>14 DEF Rollback, Fault
  <2>2. job'[w].pc = "failGet" /\ job'[w].doc = d
    BY <1>2, <2>1
  <2>3. RowExists(d) => vectors[d] \subseteq IdsForDocument(job[w].written)
    BY <2>1 DEF JobCovers, Failing, Added
  <2>4. QED
    BY <2>1, <2>2, <2>3 DEF JobCovers, RowExists
<1>15. CASE MarkFailedGet(w)
  BY <1>5, <1>11, <1>15 DEF MarkFailedGet
<1>16. CASE MarkFailedCommit(w)
  BY <1>5, <1>16 DEF MarkFailedCommit
<1>17. CASE Unlink(w)
  <2>1. UNCHANGED <<status, vectors>>
    BY <1>17 DEF Unlink
  <2>2. CASE SetJob(w, IdleJob)
    BY <1>5, <2>2
  <2>3. CASE job[w].pc = "unlink" /\ SetPC(w, FailPC(w))
    <3>1. RowExists(d) => status[d] = "done" /\ chunkCount[d] = job[w].written
      BY <2>3 DEF JobAgrees, RowExists, DocumentStatus
    <3>2. RowExists(d) => vectors[d] \subseteq IdsForDocument(job[w].written)
      BY <1>2, <3>1 DEF RowCovers
    <3>3. QED
      BY <1>6, <2>1, <2>3, <3>2
  <2>4. QED
    BY <1>17, <2>2, <2>3 DEF Unlink, SetPC
<1>18. QED
  BY <1>7, <1>8, <1>9, <1>10, <1>12, <1>13, <1>14, <1>15, <1>16, <1>17 DEF JobStep

LEMMA CoverInvStep ==
  ASSUME "crash" \notin Faults, "redis_push" \notin Faults,
         "vector" \notin Faults, "timeout" \notin Faults, "ack" \notin Faults,
         OneJobInv, CoverInv, [Next]_vars
  PROVE  CoverInv'
<1> USE DEF OneJobInv
<1>1. \A b \in Batches : late'[b] = 0
  BY LateStep DEF CoverInv, BatchTimeout, Fault
<1>2. \A d \in Docs : RowCovers(d)'
  BY RowCoversStep
<1>3. ASSUME NEW w \in Slots, Acquire(w)
      PROVE  JobCovers(w)'
  <2>1. /\ waiting # <<>> /\ Head(waiting) \in Docs
        /\ job'[w].doc = Head(waiting)
    BY <1>3, AcquirePlaces
  <2>2. Head(waiting) \in Elements(waiting)
    BY <2>1, HeadTailElements DEF TypeOK
  <2>3. ~Running(Head(waiting)) /\ Held(Head(waiting))
    BY <2>2 DEF OneJob, Held
  <2>4. RowExists(Head(waiting)) => vectors[Head(waiting)] = {}
    BY <2>1, <2>3 DEF RowAgrees, CoverInv, RowCovers, RowExists, DocumentStatus
  <2>5. status' = status /\ vectors' = vectors
    BY <1>3 DEF Acquire, durable, db
  <2>6. QED
    BY <2>1, <2>4, <2>5 DEF JobCovers, RowExists
<1>4. ASSUME NEW w \in Slots, job'[w] = job[w]
      PROVE  JobCovers(w)'
  <2>1. CASE job[w].pc \notin Ingesting \cup Failing \/ ~RowExists(job[w].doc)'
    BY <1>4, <2>1 DEF JobCovers, RowExists
  <2>2. CASE job[w].pc \in Ingesting \cup Failing /\ RowExists(job[w].doc)'
    <3>0. job[w].pc # "idle"
      BY <2>2 DEF Ingesting, Failing
    <3>1. job[w].doc \in Docs /\ RowExists(job[w].doc)
      <4>1. job[w].doc \in Docs /\ status[job[w].doc] # "none"
        BY <3>0, RunningDoc
      <4>2. status'[job[w].doc] = status[job[w].doc] \/ RowExists(job[w].doc)
        BY <4>1, RowStep DEF RowExists, DocumentStatus
      <4>3. QED
        BY <1>4, <2>2, <4>1, <4>2 DEF RowExists
    <3>2. ~Adds(w)
      <4>1. \A pc : SetPC(w, pc) => job'[w].pc = pc
        BY <3>0, RunningDoc DEF SetPC, SetJob, TypeOK
      <4>2. QED
        BY <1>4, <4>1 DEF Adds, AddCommits, AddRaises, FailPC
    <3>3. \A v \in Slots : Adds(v) => job[v].doc # job[w].doc
      BY <3>0, <3>2 DEF Adds, AddCommits, AddRaises, OneJob
    <3>4. vectors'[job[w].doc] \subseteq vectors[job[w].doc]
      BY <3>1, <3>3, IdleVectors DEF CoverInv
    <3>5. Added(w)' = Added(w)
      BY <1>4 DEF Added
    <3>6. QED
      BY <1>4, <2>2, <3>1, <3>4, <3>5 DEF CoverInv, JobCovers
  <2>3. QED
    BY <2>1, <2>2
<1>5. \A w \in Slots : JobCovers(w)'
  BY <1>3, <1>4, SlotStep, JobCoversStep DEF Crash, Fault
<1>6. QED
  BY <1>1, <1>2, <1>5 DEF CoverInv

\* The worker's rollback is complete: chunk_count tells a deletion of every vector of a
\* settled document, even of one that failed after it was done, unless a thread, a
\* rollback or a batch of unknown outcome was given up half-way.
THEOREM RollbackIsComplete ==
  ASSUME "crash" \notin Faults, "redis_push" \notin Faults,
         "vector" \notin Faults, "timeout" \notin Faults, "ack" \notin Faults
  PROVE  Spec => []RowCoversVectors
<1>1. Init => CoverInv
  <2> SUFFICES ASSUME Init
               PROVE  CoverInv
    OBVIOUS
  <2>1. \A w \in Slots : job[w].pc = "idle"
    BY DEF Init, NoJobs, IdleJob
  <2>2. QED
    BY <2>1 DEF Init, CoverInv, RowCovers, JobCovers, Ingesting, Failing, NoThreads
<1>2. OneJobInv /\ CoverInv /\ [Next]_vars => CoverInv'
  BY CoverInvStep
<1>3. CoverInv => RowCoversVectors
  BY DEF CoverInv, RowCovers, RowCoversVectors
<1>4. QED
  BY <1>1, <1>2, <1>3, OneJobPerDocument, PTL DEF Spec

-----------------------------------------------------------------------------
(* Refinement of DocumentLifecycle *)

\* Adding chunks to a document makes it searchable or changes nothing,
LEMMA SearchableAdds ==
  ASSUME OneJobInv, NEW d \in Docs, NEW ids, ids \subseteq IdsForDocument(NumChunks[d]),
         vectors' = [vectors EXCEPT ![d] = @ \cup ids]
  PROVE  Searchable' \in {Searchable, Searchable \cup {d}}
<1>1. vectors \in [Docs -> SUBSET Nat] /\ vectors[d] \subseteq IdsForDocument(NumChunks[d])
  BY DEF OneJobInv, TypeOK, RowAgrees
<1>2. \A e \in Docs \ {d} : e \in Searchable' <=> e \in Searchable
  BY <1>1 DEF Searchable
<1>3. d \in Searchable => d \in Searchable'
  BY <1>1 DEF Searchable
<1>4. Searchable \subseteq Docs /\ Searchable' \subseteq Docs
  BY DEF Searchable
<1>5. QED
  BY <1>2, <1>3, <1>4

\* and taking some away makes none searchable.
LEMMA SearchableLoses ==
  ASSUME OneJobInv, \A d \in Docs : vectors'[d] \subseteq vectors[d]
  PROVE  Searchable' \subseteq Searchable
<1>1. \A d \in Docs : vectors[d] \subseteq IdsForDocument(NumChunks[d])
  BY DEF OneJobInv, RowAgrees
<1>2. QED
  BY <1>1 DEF Searchable

\* What the abstract state is made of.
LEMMA Mapping ==
  /\ UNCHANGED vectors => Searchable' = Searchable
  /\ UNCHANGED <<deletion, workDeletion>> => Closing' = Closing
  /\ UNCHANGED <<db, vectors, deletion, workDeletion>> => UNCHANGED Lifecycle!vars
BY DEF Searchable, Closing, Lifecycle!vars, db

\* An upload accepts a document or rejects it,
LEMMA UploadLifecycle ==
  ASSUME OneJobInv, NEW d \in Docs, UploadStart(d) \/ UploadStep(d)
  PROVE  [Lifecycle!Next]_(Lifecycle!vars)
<1> USE DEF UploadOnly, durable, db
<1>1. status \in [Docs -> DocumentStatus \cup {"none", "deleted"}]
  BY DEF OneJobInv, TypeOK
<1>2. Searchable' = Searchable /\ Closing' = Closing
  BY Mapping DEF UploadStart, UploadStep, UploadInsert, UploadSave, UploadEnqueue, UploadPushRaises,
     UploadMarkFailed
<1>3. CASE UploadInsert(d) /\ ~ UNCHANGED status
  <2>1. workExists /\ status[d] = "none" /\ status' = [status EXCEPT ![d] = "pending"] /\ UNCHANGED workExists
    BY <1>3 DEF UploadInsert, OneJobInv, DurableOrder, Admitted
  <2>2. Lifecycle!Accept(d)
    BY <1>2, <2>1 DEF Lifecycle!Accept
  <2>3. QED
    BY <2>2 DEF Lifecycle!Next
<1>4. CASE UploadMarkFailed(d) /\ ~ UNCHANGED db
  <2>1. RowExists(d) /\ UpdateRow(d, [status |-> "pending", chunks |-> 0], [status |-> "failed", chunks |-> 0])
    BY <1>4 DEF UploadMarkFailed
  <2>2. status' = [status EXCEPT ![d] = "failed"] /\ UNCHANGED workExists
    BY <2>1 DEF UpdateRow
  <2>3. status[d] = "pending"
    BY <1>4, <2>1 DEF UploadMarkFailed, OneJobInv, RowAgrees, RowExists, DocumentStatus
  <2>4. Lifecycle!Reject(d)
    BY <1>2, <2>2, <2>3 DEF Lifecycle!Reject
  <2>5. QED
    BY <2>4 DEF Lifecycle!Next
<1>5. CASE UNCHANGED <<status, workExists>>
  BY <1>2, <1>5 DEF Lifecycle!vars
<1>6. CASE UploadStart(d) \/ UploadSave(d) \/ UploadEnqueue(d) \/ UploadPushRaises(d)
  BY <1>5, <1>6 DEF UploadStart, UploadSave, UploadEnqueue, UploadPushRaises
<1>7. CASE UploadInsert(d) /\ UNCHANGED status
  BY <1>5, <1>7 DEF UploadInsert
<1>8. CASE UploadMarkFailed(d) /\ UNCHANGED db
  BY <1>5, <1>8
<1>9. QED
  BY <1>3, <1>4, <1>6, <1>7, <1>8 DEF UploadStep

\* delete_document requests, retracts and then deletes or gives up,
LEMMA DeletionLifecycle ==
  ASSUME "ack" \notin Faults, OneJobInv, NEW d \in Docs, DeleteDocGet(d) \/ DeletionStep(d)
  PROVE  [Lifecycle!Next]_(Lifecycle!vars)
<1> USE DEF durable, db
<1>1. /\ status \in [Docs -> DocumentStatus \cup {"none", "deleted"}]
      /\ vectors \in [Docs -> SUBSET Nat]
      /\ deletion \in [Docs -> [pc : {"idle", "vectors", "row"}, seen : Nat]]
  BY DEF OneJobInv, TypeOK
<1>2. d # "work"
  BY WorkIsNoDocument
<1>3. ASSUME NEW pc, NEW n, SetDeletion(d, pc, n), UNCHANGED workDeletion
      PROVE  Closing' = IF pc = "idle" THEN Closing \ {d} ELSE Closing \cup {d}
  BY <1>1, <1>2, <1>3 DEF SetDeletion, Closing
<1>4. CASE DeleteDocGet(d)
  <2>1. PICK pc \in {"vectors", "row"} : SetDeletion(d, pc, chunkCount[d])
    BY <1>4 DEF DeleteDocGet
  <2>2. Closing' = Closing \cup {d}
    BY <1>3, <1>4, <2>1 DEF DeleteDocGet
  <2>3. Lifecycle!Request(d)
    BY <1>4, <2>2, Mapping DEF DeleteDocGet, Lifecycle!Request, Lifecycle!Listed, RowExists, DocumentStatus
  <2>4. QED
    BY <2>3 DEF Lifecycle!Next
<1>5. ASSUME deletion[d].pc # "idle", SetDeletion(d, "idle", 0), UNCHANGED <<workExists, status, vectors, workDeletion>>
      PROVE  Lifecycle!Next
  <2>1. d \in Closing /\ Closing' = Closing \ {d}
    BY <1>3, <1>5 DEF Closing
  <2>2. Lifecycle!GiveUp(d)
    BY <1>5, <2>1, Mapping DEF Lifecycle!GiveUp
  <2>3. QED
    BY <2>2 DEF Lifecycle!Next
<1>6. CASE DeleteDocVectors(d) /\ ~ SetDeletion(d, "idle", 0)
  <2>1. /\ deletion[d].pc = "vectors" /\ SetDeletion(d, "row", 0)
        /\ vectors' = [vectors EXCEPT ![d] = @ \ IdsForDocument(deletion[d].seen)]
        /\ UNCHANGED <<workExists, status, workDeletion>>
    BY <1>6 DEF DeleteDocVectors, Fault
  <2>2. d \in Closing /\ Closing' = Closing
    BY <1>3, <2>1 DEF Closing
  <2>3. Searchable' \subseteq Searchable
    BY <1>1, <2>1, SearchableLoses
  <2>4. \A e \in Docs \ {d} : e \in Searchable' <=> e \in Searchable
    BY <1>1, <2>1 DEF Searchable
  <2>5. CASE Searchable' = Searchable
    BY <2>1, <2>2, <2>5 DEF Lifecycle!vars
  <2>6. CASE Searchable' # Searchable
    <3>1. Searchable' = Searchable \ {d}
      BY <2>3, <2>4, <2>6 DEF Searchable
    <3>2. Lifecycle!Retract({d})
      BY <2>1, <2>2, <3>1 DEF Lifecycle!Retract
    <3>3. QED
      BY <3>2 DEF Lifecycle!Next
  <2>7. QED
    BY <2>5, <2>6
<1>7. CASE DeleteDocRow(d) /\ ~ UNCHANGED status
  <2>1. /\ deletion[d].pc = "row" /\ RowExists(d) /\ SetDeletion(d, "idle", 0)
        /\ status' = [status EXCEPT ![d] = "deleted"]
        /\ UNCHANGED <<workExists, vectors, workDeletion>>
    BY <1>7 DEF DeleteDocRow
  <2>2. d \in Closing /\ Closing' = Closing \ {d}
    BY <1>3, <2>1 DEF Closing
  <2>3. Lifecycle!DeleteDocument(d)
    BY <2>1, <2>2, Mapping DEF Lifecycle!DeleteDocument, Lifecycle!Listed, RowExists, DocumentStatus
  <2>4. QED
    BY <2>3 DEF Lifecycle!Next
<1>8. CASE DeleteDocVectors(d) /\ SetDeletion(d, "idle", 0)
  <2>1. deletion'[d].pc = "idle"
    BY <1>1, <1>8 DEF SetDeletion
  <2>2. ~ SetDeletion(d, "row", 0)
    BY <1>1, <2>1 DEF SetDeletion
  <2>3. QED
    BY <1>5, <1>8, <2>2 DEF DeleteDocVectors, Fault
<1>9. CASE DeleteDocRow(d) /\ UNCHANGED status
  BY <1>5, <1>9 DEF DeleteDocRow
<1>10. QED
  BY <1>4, <1>6, <1>7, <1>8, <1>9 DEF DeletionStep

\* and so does delete_work.
LEMMA WorkDeletionLifecycle ==
  ASSUME "ack" \notin Faults, OneJobInv, DeleteWorkGet \/ WorkDeletionStep
  PROVE  [Lifecycle!Next]_(Lifecycle!vars)
<1> USE DEF durable, db
<1>1. /\ status \in [Docs -> DocumentStatus \cup {"none", "deleted"}]
      /\ vectors \in [Docs -> SUBSET Nat]
  BY DEF OneJobInv, TypeOK
<1>2. "work" \notin Docs
  BY WorkIsNoDocument
<1>3. ASSUME UNCHANGED deletion
      PROVE  Closing' = IF workDeletion'.pc = "idle" THEN Closing \ {"work"} ELSE Closing \cup {"work"}
  BY <1>2, <1>3 DEF Closing
<1>4. CASE DeleteWorkGet
  <2>1. workExists /\ workDeletion'.pc # "idle" /\ UNCHANGED <<workExists, status, vectors, deletion>>
    BY <1>4 DEF DeleteWorkGet
  <2>2. Lifecycle!Request("work")
    BY <1>3, <2>1, Mapping DEF Lifecycle!Request, Lifecycle!Work
  <2>3. QED
    BY <2>2 DEF Lifecycle!Next, Lifecycle!Work
<1>5. ASSUME workDeletion.pc # "idle", workDeletion'.pc = "idle",
             UNCHANGED <<workExists, status, vectors, deletion>>
      PROVE  Lifecycle!Next
  <2>1. "work" \in Closing /\ Closing' = Closing \ {"work"}
    BY <1>3, <1>5 DEF Closing
  <2>2. Lifecycle!GiveUp("work")
    BY <1>5, <2>1, Mapping DEF Lifecycle!GiveUp
  <2>3. QED
    BY <2>2 DEF Lifecycle!Next, Lifecycle!Work
<1>6. CASE DeleteWorkVectors
  <2>1. CASE workDeletion'.pc = "idle"
    BY <1>5, <1>6, <2>1 DEF DeleteWorkVectors, Fault
  <2>2. CASE workDeletion'.pc # "idle"
    <3>1. /\ workDeletion.pc = "vectors" /\ UNCHANGED <<workExists, status, deletion>>
          /\ vectors' = [d \in Docs |-> vectors[d] \ IdsForDocument(workDeletion.seen[d])]
      BY <1>6, <2>2 DEF DeleteWorkVectors
    <3>2. "work" \in Closing /\ Closing' = Closing
      BY <1>3, <2>2, <3>1 DEF Closing
    <3>3. Searchable' \subseteq Searchable
      BY <3>1, SearchableLoses
    <3>4. CASE Searchable' = Searchable
      BY <3>1, <3>2, <3>4 DEF Lifecycle!vars
    <3>5. CASE Searchable' # Searchable
      <4> DEFINE S == Searchable \ Searchable'
      <4>1. S # {} /\ S \in SUBSET Docs /\ Searchable' = Searchable \ S
        BY <3>3, <3>5 DEF Searchable
      <4>2. Lifecycle!Retract(S)
        BY <3>1, <3>2, <4>1 DEF Lifecycle!Retract, Lifecycle!Work
      <4> HIDE DEF S
      <4>3. QED
        BY <4>1, <4>2 DEF Lifecycle!Next
    <3>6. QED
      BY <3>4, <3>5
  <2>3. QED
    BY <2>1, <2>2
<1>7. CASE DeleteWorkRows
  <2>1. workDeletion.pc = "rows" /\ workDeletion'.pc = "idle" /\ UNCHANGED <<vectors, deletion>>
    BY <1>7 DEF DeleteWorkRows
  <2>2. CASE UNCHANGED db
    BY <1>5, <2>1, <2>2
  <2>3. CASE ~ UNCHANGED db
    <3>1. /\ workExists' = FALSE
          /\ status' = [d \in Docs |-> IF RowExists(d) THEN "deleted" ELSE status[d]]
      BY <1>7, <2>3 DEF DeleteWorkRows
    <3>2. "work" \in Closing /\ Closing' = Closing \ {"work"}
      BY <1>3, <2>1 DEF Closing
    <3>3. Lifecycle!DeleteWork
      BY <2>1, <3>1, <3>2, Mapping DEF Lifecycle!DeleteWork, Lifecycle!Work, Lifecycle!Listed,
         RowExists, DocumentStatus
    <3>4. QED
      BY <3>3 DEF Lifecycle!Next
  <2>4. QED
    BY <2>2, <2>3
<1>8. QED
  BY <1>4, <1>6, <1>7 DEF WorkDeletionStep

\* The worker indexes, publishes, rejects and rolls back.
LEMMA WorkerLifecycle ==
  ASSUME "ack" \notin Faults, "listing" \notin Faults, OneJobInv, WorkerNext
  PROVE  [Lifecycle!Next]_(Lifecycle!vars)
<1> USE DEF durable, db, handlers, JobOnly
<1>1. /\ status \in [Docs -> DocumentStatus \cup {"none", "deleted"}]
      /\ vectors \in [Docs -> SUBSET Nat]
  BY DEF OneJobInv, TypeOK
<1>2. ASSUME NEW d \in Docs, NEW from, status[d] # "none",
             vectors' = [vectors EXCEPT ![d] = @ \cup BatchIds(d, from)],
             UNCHANGED <<workExists, status, deletion, workDeletion>>
      PROVE  [Lifecycle!Next]_(Lifecycle!vars)
  <2>1. BatchIds(d, from) \subseteq IdsForDocument(NumChunks[d])
    BY DEF BatchIds
  <2>2. Searchable' \in {Searchable, Searchable \cup {d}}
    BY <1>2, <2>1, SearchableAdds
  <2>3. CASE Searchable' = Searchable
    BY <1>2, <2>3, Mapping DEF Lifecycle!vars
  <2>4. CASE Searchable' = Searchable \cup {d}
    <3>1. Lifecycle!Index(d)
      BY <1>2, <2>4, Mapping DEF Lifecycle!Index
    <3>2. QED
      BY <3>1 DEF Lifecycle!Next
  <2>5. QED
    BY <2>2, <2>3, <2>4
<1>3. ASSUME NEW w \in Slots, AddCommits(w)
      PROVE  [Lifecycle!Next]_(Lifecycle!vars)
  <2>1. job[w].doc \in Docs /\ status[job[w].doc] # "none"
    BY <1>3, RunningDoc DEF AddCommits
  <2>2. QED
    BY <1>2, <1>3, <2>1 DEF AddCommits
<1>4. ASSUME NEW b \in Batches, LateEnds(b)
      PROVE  [Lifecycle!Next]_(Lifecycle!vars)
  <2>1. b[1] \in Docs
    BY DEF Batches
  <2>2. status[b[1]] # "none"
    BY <1>4, <2>1 DEF LateEnds, OneJobInv, RowAgrees
  <2>3. CASE UNCHANGED vectors
    BY <1>4, <2>3, Mapping DEF LateEnds
  <2>4. CASE ~ UNCHANGED vectors
    BY <1>2, <1>4, <2>1, <2>2, <2>4 DEF LateEnds
  <2>5. QED
    BY <2>3, <2>4
<1>5. ASSUME NEW w \in Slots, Rollback(w)
      PROVE  [Lifecycle!Next]_(Lifecycle!vars)
  <2>1. job[w].doc \in Docs /\ status[job[w].doc] # "done"
    BY <1>5, RunningDoc DEF Rollback, OneJobInv, JobAgrees, Failing, MayRetract
  <2>2. UNCHANGED <<workExists, status, deletion, workDeletion>>
    BY <1>5 DEF Rollback
  <2>3. CASE UNCHANGED vectors
    BY <2>2, <2>3, Mapping DEF Lifecycle!vars
  <2>4. CASE vectors' = [vectors EXCEPT ![job[w].doc] = @ \ IdsForDocument(job[w].written)]
    <3>1. Searchable' \subseteq Searchable
      BY <1>1, <2>1, <2>4, SearchableLoses
    <3>2. \A e \in Docs \ {job[w].doc} : e \in Searchable' <=> e \in Searchable
      BY <1>1, <2>4 DEF Searchable
    <3>3. CASE Searchable' = Searchable
      BY <2>2, <3>3, Mapping DEF Lifecycle!vars
    <3>4. CASE Searchable' # Searchable
      <4>1. Searchable' = Searchable \ {job[w].doc}
        BY <3>1, <3>2, <3>4 DEF Searchable
      <4>2. Lifecycle!Retract({job[w].doc})
        BY <2>1, <2>2, <4>1, Mapping DEF Lifecycle!Retract
      <4>3. QED
        BY <2>1, <4>2 DEF Lifecycle!Next
    <3>5. QED
      BY <3>3, <3>4
  <2>5. QED
    BY <1>5, <2>3, <2>4 DEF Rollback
<1>6. ASSUME NEW w \in Slots, MarkDoneCommit(w), ~ UNCHANGED db
      PROVE  [Lifecycle!Next]_(Lifecycle!vars)
  <2> DEFINE d == job[w].doc
  <2>1. /\ job[w].pc = "doneCommit" /\ RowExists(d)
        /\ UpdateRow(d, job[w].seen, [status |-> "done", chunks |-> job[w].written])
        /\ UNCHANGED <<vectors, deletion, workDeletion>>
    BY <1>6 DEF MarkDoneCommit
  <2>2. d \in Docs /\ status[d] = "pending" /\ job[w].seen = [status |-> "pending", chunks |-> 0]
    BY <2>1, RunningDoc DEF OneJobInv, JobAgrees, Ingesting, RowExists, DocumentStatus
  <2>3. d \in Searchable
    BY <2>1, <2>2 DEF OneJobInv, JobAgrees, Ingesting, RowAgrees, Added, Searchable
  <2>4. status' = [status EXCEPT ![d] = "done"] /\ UNCHANGED workExists
    BY <2>1, <2>2 DEF UpdateRow
  <2>5. Lifecycle!Publish(d)
    BY <2>1, <2>2, <2>3, <2>4, Mapping DEF Lifecycle!Publish
  <2>6. QED
    BY <2>2, <2>5 DEF Lifecycle!Next
<1>7. ASSUME NEW w \in Slots, MarkFailedCommit(w), ~ UNCHANGED db
      PROVE  [Lifecycle!Next]_(Lifecycle!vars)
  <2> DEFINE d == job[w].doc
  <2>1. /\ job[w].pc = "failCommit" /\ RowExists(d)
        /\ UpdateRow(d, job[w].seen, [status |-> "failed", chunks |-> 0])
        /\ UNCHANGED <<vectors, deletion, workDeletion>>
    BY <1>7 DEF MarkFailedCommit
  <2>2. d \in Docs /\ status[d] = "pending" /\ job[w].seen = Row(d)
    BY <2>1, RunningDoc DEF OneJobInv, JobAgrees, Failing, MayRetract, RowExists, DocumentStatus
  <2>3. status' = [status EXCEPT ![d] = "failed"] /\ UNCHANGED workExists
    BY <2>1, <2>2 DEF UpdateRow, Row
  <2>4. Lifecycle!Reject(d)
    BY <2>1, <2>2, <2>3, Mapping DEF Lifecycle!Reject
  <2>5. QED
    BY <2>2, <2>4 DEF Lifecycle!Next
<1>8. CASE UNCHANGED <<db, vectors, deletion, workDeletion>>
  BY <1>8, Mapping
<1>9. CASE /\ ~ UNCHANGED <<db, vectors, deletion, workDeletion>>
           /\ ~ \E w \in Slots : AddCommits(w) \/ Rollback(w)
           /\ ~ \E b \in Batches : LateEnds(b)
  <2>1. UNCHANGED <<deletion, workDeletion>> /\ UNCHANGED vectors
    <3>1. CASE Dequeue \/ \E w \in Slots : Acquire(w)
      BY <3>1 DEF Dequeue, Acquire
    <3>2. ASSUME NEW w \in Slots, JobStep(w), ~AddCommits(w), ~Rollback(w)
          PROVE  UNCHANGED <<deletion, workDeletion>> /\ UNCHANGED vectors
      BY <3>2 DEF JobStep, AddRaises, Fault, BatchDone, BatchTimeout, MarkDoneGet, MarkDoneCommit,
         MarkFailedGet, MarkFailedCommit, Unlink
    <3>3. QED
      BY <1>9, <3>1, <3>2 DEF WorkerNext
  <2>2. CASE UNCHANGED db
    BY <1>8, <2>1, <2>2
  <2>3. CASE ~ UNCHANGED db
    <3>1. \E w \in Slots : MarkDoneCommit(w) \/ MarkFailedCommit(w)
      BY <1>9, <2>3 DEF WorkerNext, Dequeue, Acquire, JobStep, AddRaises, BatchDone, BatchTimeout,
         MarkDoneGet, MarkFailedGet, Unlink
    <3>2. QED
      BY <1>6, <1>7, <2>3, <3>1
  <2>4. QED
    BY <2>2, <2>3
<1>10. QED
  BY <1>3, <1>4, <1>5, <1>8, <1>9

LEMMA LifecycleStep ==
  ASSUME "crash" \notin Faults, "ack" \notin Faults, "listing" \notin Faults, OneJobInv, [Next]_vars
  PROVE  [Lifecycle!Next]_(Lifecycle!vars)
<1>1. CASE LifespanNext \/ UNCHANGED vars
  <2>1. UNCHANGED <<db, vectors, deletion, workDeletion>>
    BY <1>1 DEF LifespanNext, Start, StartWithoutRedis, RecoverOne, RecoverFails, RecoverDone, Crash,
       Fault, vars, durable, handlers
  <2>2. QED
    BY <2>1, Mapping
<1>2. QED
  BY <1>1, UploadLifecycle, DeletionLifecycle, WorkDeletionLifecycle, WorkerLifecycle DEF Next, HandlerNext

\* The server with its queue, its worker and its deletions implements the lifecycle its
\* client is promised: whatever interleaves, whichever embedding requests, threads,
\* rollbacks, files and commits fail, as long as every document has one job, and that
\* job and the deletions know whether their commits took effect.
THEOREM ImplementsLifecycle ==
  ASSUME "crash" \notin Faults, "redis_push" \notin Faults,
         "ack" \notin Faults, "listing" \notin Faults
  PROVE  Spec => KeepsLifecycle
<1>1. Init => Lifecycle!Init
  <2> SUFFICES ASSUME Init
               PROVE  Lifecycle!Init
    OBVIOUS
  <2>1. Searchable = {}
    <3>1. \A n \in Nat \ {0} : 0 \in IdsForDocument(n)
      BY DEF IdsForDocument
    <3>2. QED
      BY <3>1, ConstantsAssumption DEF Init, Searchable
  <2>2. Closing = {}
    BY DEF Init, Closing, NoDeletions, NoDeletion
  <2>3. QED
    BY <2>1, <2>2 DEF Init, Lifecycle!Init
<1>2. OneJobInv /\ [Next]_vars => [Lifecycle!Next]_(Lifecycle!vars)
  BY LifecycleStep
<1>3. QED
  BY <1>1, <1>2, OneJobPerDocument, PTL DEF Spec, KeepsLifecycle, Lifecycle!Spec
=============================================================================

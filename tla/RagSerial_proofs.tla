--------------------------- MODULE RagSerial_proofs ---------------------------
(***************************************************************************)
(* What crashes leave standing: with one permit, a disk that unlinks files *)
(* and commits that are acknowledged, a document is published only when it *)
(* is searchable, although a crash or a push that fails may give it any    *)
(* number of jobs.  For every set of documents, every number of chunks and *)
(* batch size, and any number of failures.                                 *)
(***************************************************************************)
EXTENDS RagLifecycle_proofs

-----------------------------------------------------------------------------
(* The invariant *)

\* upload_document has inserted the row and not answered
Open == {"inserted", "saved", "pushLost", "saveFailed", "enqueueFailed"}

\* No job can read the file of d any more
Finished(d) == ~file[d] \/ \E w \in Slots : job[w].pc \in UnlinkPC /\ job[w].doc = d

\* No deletion is about to remove vectors of d
Unread(d) == deletion[d].seen = 0 /\ workDeletion.seen[d] = 0

\* A row with a verdict that a deletion may have read, or an upload may overwrite, is one
\* whose file no later job finds
RowKept(d) ==
  /\ vectors[d] \subseteq IdsForDocument(NumChunks[d])
  /\ status[d] \in {"none", "pending"} => chunkCount[d] = 0 /\ Unread(d)
  /\ upload[d] = "inserted" => ~Held(d) /\ status[d] \in {"pending", "deleted"}
  /\ upload[d] = "enqueueFailed" => ~file[d]
  /\ upload[d] \in Open /\ status[d] \in {"done", "failed"} => Finished(d)
  /\ status[d] = "failed" /\ chunkCount[d] # 0 => ~file[d]
  /\ status[d] = "failed" /\ ~Unread(d) => Finished(d)

\* so that a job which may still publish its document keeps the chunks it has added
JobKept(w) ==
  LET d == job[w].doc
  IN  /\ job[w].pc \in {"adding", "added"} => job[w].written < NumChunks[d]
      /\ job[w].pc \in {"doneGet", "doneCommit"}
           => job[w].written = NumChunks[d] /\ NumChunks[d] > 0
      /\ job[w].pc \in Ingesting /\ upload[d] \in Open => status[d] \in {"pending", "deleted"}
      /\ job[w].pc \in Ingesting /\ status[d] \in {"pending", "failed"}
           => chunkCount[d] = 0 /\ Unread(d) /\ Added(w) \subseteq vectors[d]
      /\ job[w].pc \in {"doneCommit", "failCommit"} /\ RowExists(d)
           => job[w].seen.chunks = chunkCount[d]
      /\ job[w].pc = "doneCommit" /\ job[w].seen.status = "done" => status[d] \in {"done", "deleted"}

SerialInv ==
  /\ TypeOK /\ DurableOrder
  /\ \A d \in Docs : RowKept(d)
  /\ \A w \in Slots : JobKept(w)

-----------------------------------------------------------------------------
(* How a step moves the file and the row *)

\* The document of a running job.
LEMMA SerialJob ==
  ASSUME SerialInv, NEW w \in Slots, job[w].pc # "idle"
  PROVE  /\ job[w] \in [pc : JobPC, doc : Docs, written : Nat, seen : RowType \cup {NotRead}]
         /\ job[w].doc \in Docs /\ job[w].written \in Nat
         /\ Held(job[w].doc) /\ status[job[w].doc] # "none"
<1>1. /\ job[w] \in [pc : JobPC, doc : Docs, written : Nat, seen : RowType \cup {NotRead}]
      /\ job[w].doc \in Docs /\ job[w].written \in Nat
  BY RunningJob DEF SerialInv
<1>2. Held(job[w].doc)
  BY <1>1 DEF Held, Running
<1>3. QED
  BY <1>1, <1>2 DEF SerialInv, DurableOrder, Admitted

\* A file comes from the upload that saves it only, and Unlink removes it for good.
LEMMA FileStep ==
  ASSUME "disk" \notin Faults, TypeOK, [Next]_vars, NEW d \in Docs
  PROVE  /\ file'[d] => \/ file[d]
                        \/ upload[d] = "inserted" /\ upload'[d] = "saved" /\ RowExists(d) /\ UNCHANGED status
         /\ \A w \in Slots : Unlink(w) /\ job[w].doc = d => ~file'[d]
         /\ upload[d] # "enqueueFailed" /\ upload'[d] = "enqueueFailed" => ~file'[d]
<1> USE DEF db
<1>1. file \in [Docs -> BOOLEAN] /\ upload \in [Docs -> UploadPC]
  BY DEF TypeOK
<1>2. \A w \in Slots : Unlink(w) => file' = [file EXCEPT ![job[w].doc] = FALSE]
  BY DEF Unlink, DeleteUploadFile, DeleteUploadFileRaises, Removed, Fault
<1>3. ASSUME NEW e \in Docs, UploadSave(e)
      PROVE  file'[d] => \/ file[d]
                         \/ upload[d] = "inserted" /\ upload'[d] = "saved" /\ RowExists(d) /\ UNCHANGED status
  BY <1>1, <1>3 DEF UploadSave, SetUpload
<1>4. ASSUME NEW e \in Docs, UploadStart(e) \/ UploadStep(e), ~UploadSave(e)
      PROVE  file'[d] => file[d]
  BY <1>1, <1>4 DEF UploadStart, UploadStep, UploadInsert, UploadEnqueue, UploadPushRaises,
     UploadMarkFailed, DeleteUploadFile, DeleteUploadFileRaises, Removed, durable
<1>5. file'[d] => \/ file[d]
                  \/ upload[d] = "inserted" /\ upload'[d] = "saved" /\ RowExists(d) /\ UNCHANGED status
  BY <1>1, <1>2, <1>3, <1>4, OtherStepEffect
<1>6. ASSUME upload[d] # "enqueueFailed", upload'[d] = "enqueueFailed"
      PROVE  ~file'[d]
  <2>1. PICK e \in Docs : UploadStart(e) \/ UploadStep(e)
    BY <1>6, OtherStepEffect DEF NoUploads
  <2>2. e = d
    BY <1>6, <2>1, UploadStepEffect
  <2>3. UploadPushRaises(d)
    BY <1>1, <1>6, <2>1, <2>2 DEF UploadStart, UploadStep, UploadInsert, UploadSave, UploadEnqueue,
       UploadMarkFailed, SetUpload
  <2>4. QED
    BY <1>1, <1>6, <2>2, <2>3 DEF UploadPushRaises, DeleteUploadFile, Removed, SetUpload, Fault
<1>7. QED
  BY <1>1, <1>2, <1>5, <1>6

\* What each commit does to a row, whoever else has written to it since it was read.
LEMMA CommitStep ==
  ASSUME "ack" \notin Faults, TypeOK, \A d \in Docs : Admitted(d), [Next]_vars, NEW d \in Docs
  PROVE  \/ status'[d] = status[d] /\ chunkCount'[d] = chunkCount[d]
         \/ /\ status[d] = "none" /\ status'[d] = "pending" /\ upload'[d] = "inserted"
            /\ chunkCount'[d] = chunkCount[d]
         \/ /\ UploadMarkFailed(d) /\ RowExists(d)
            /\ status'[d] = "failed" /\ chunkCount'[d] = chunkCount[d]
         \/ \E w \in Slots :
              /\ MarkDoneCommit(w) /\ SetPC(w, "unlink") /\ job[w].doc = d /\ RowExists(d)
              /\ \/ status'[d] = "done"
                 \/ status'[d] = status[d] /\ job[w].seen.status = "done"
         \/ \E w \in Slots :
              /\ MarkFailedCommit(w) /\ SetPC(w, "failUnlink") /\ job[w].doc = d /\ RowExists(d)
              /\ status'[d] \in {"failed", status[d]}
              /\ job[w].seen.chunks = chunkCount[d] => chunkCount'[d] = 0
         \/ RowExists(d) /\ status'[d] = "deleted" /\ chunkCount'[d] = 0
         \/ ~RowExists(d) /\ status'[d] = status[d] /\ chunkCount'[d] = 0
<1> DEFINE Moves(e) ==
      \/ status'[e] = status[e] /\ chunkCount'[e] = chunkCount[e]
      \/ /\ status[e] = "none" /\ status'[e] = "pending" /\ upload'[e] = "inserted"
         /\ chunkCount'[e] = chunkCount[e]
      \/ /\ UploadMarkFailed(e) /\ RowExists(e)
         /\ status'[e] = "failed" /\ chunkCount'[e] = chunkCount[e]
      \/ \E w \in Slots :
           /\ MarkDoneCommit(w) /\ SetPC(w, "unlink") /\ job[w].doc = e /\ RowExists(e)
           /\ \/ status'[e] = "done"
              \/ status'[e] = status[e] /\ job[w].seen.status = "done"
      \/ \E w \in Slots :
           /\ MarkFailedCommit(w) /\ SetPC(w, "failUnlink") /\ job[w].doc = e /\ RowExists(e)
           /\ status'[e] \in {"failed", status[e]}
           /\ job[w].seen.chunks = chunkCount[e] => chunkCount'[e] = 0
      \/ RowExists(e) /\ status'[e] = "deleted" /\ chunkCount'[e] = 0
      \/ ~RowExists(e) /\ status'[e] = status[e] /\ chunkCount'[e] = 0
<1> SUFFICES Moves(d)
  OBVIOUS
<1> USE DEF db, durable
<1>1. /\ status \in [Docs -> DocumentStatus \cup {"none", "deleted"}]
      /\ chunkCount \in [Docs -> Nat] /\ upload \in [Docs -> UploadPC]
  BY DEF TypeOK
<1>2. ASSUME UNCHANGED db
      PROVE  Moves(d)
  BY <1>2
<1>3. ASSUME NEW e \in Docs, UploadStart(e) \/ UploadStep(e)
      PROVE  Moves(d)
  <2>1. CASE UploadInsert(e)
    BY <1>1, <2>1 DEF UploadInsert, Admitted, SetUpload, Fault
  <2>2. CASE UploadMarkFailed(e) /\ ~ UNCHANGED db
    <3>1. RowExists(e) /\ UpdateRow(e, [status |-> "pending", chunks |-> 0], [status |-> "failed", chunks |-> 0])
      BY <2>2 DEF UploadMarkFailed
    <3>2. status' = [status EXCEPT ![e] = "failed"] /\ chunkCount' = [chunkCount EXCEPT ![e] = @]
      BY <3>1 DEF UpdateRow
    <3>3. CASE d = e
      BY <1>1, <2>2, <3>1, <3>2, <3>3
    <3>4. CASE d # e
      BY <1>1, <3>2, <3>4
    <3>5. QED
      BY <3>3, <3>4
  <2>3. CASE \/ UploadStart(e) \/ UploadSave(e) \/ UploadEnqueue(e) \/ UploadPushRaises(e)
             \/ UNCHANGED db
    BY <1>2, <2>3 DEF UploadStart, UploadSave, UploadEnqueue, UploadPushRaises
  <2>4. QED
    BY <1>3, <2>1, <2>2, <2>3 DEF UploadStep
<1>4. ASSUME NEW e \in Docs, DeleteDocGet(e) \/ DeletionStep(e)
      PROVE  Moves(d)
  <2>1. CASE DeleteDocRow(e)
    BY <1>1, <1>2, <2>1 DEF DeleteDocRow
  <2>2. CASE DeleteDocGet(e) \/ DeleteDocVectors(e)
    BY <1>2, <2>2 DEF DeleteDocGet, DeleteDocVectors
  <2>3. QED
    BY <1>4, <2>1, <2>2 DEF DeletionStep
<1>5. ASSUME DeleteWorkGet \/ WorkDeletionStep
      PROVE  Moves(d)
  <2>1. CASE DeleteWorkRows /\ ~ UNCHANGED db
    BY <2>1 DEF DeleteWorkRows, NoChunks
  <2>2. CASE DeleteWorkGet \/ DeleteWorkVectors \/ UNCHANGED db
    BY <1>2, <2>2 DEF DeleteWorkGet, DeleteWorkVectors
  <2>3. QED
    BY <1>5, <2>1, <2>2 DEF WorkDeletionStep
<1>6. ASSUME NEW w \in Slots, MarkDoneCommit(w), ~ UNCHANGED db
      PROVE  Moves(d)
  <2>1. /\ RowExists(job[w].doc) /\ SetPC(w, "unlink") /\ job[w].pc = "doneCommit"
        /\ UpdateRow(job[w].doc, job[w].seen, [status |-> "done", chunks |-> job[w].written])
    BY <1>6 DEF MarkDoneCommit, Fault
  <2>2. job[w].doc \in Docs
    BY <2>1, RunningJob
  <2>3. CASE d = job[w].doc
    <3>1. status'[d] = IF "done" # job[w].seen.status THEN "done" ELSE status[d]
      BY <1>1, <2>1, <2>3 DEF UpdateRow
    <3>2. QED
      BY <1>6, <2>1, <2>3, <3>1
  <2>4. CASE d # job[w].doc
    BY <1>1, <2>1, <2>2, <2>4 DEF UpdateRow
  <2>5. QED
    BY <2>3, <2>4
<1>7. ASSUME NEW w \in Slots, MarkFailedCommit(w), ~ UNCHANGED db
      PROVE  Moves(d)
  <2>1. /\ RowExists(job[w].doc) /\ SetPC(w, "failUnlink") /\ job[w].pc = "failCommit"
        /\ UpdateRow(job[w].doc, job[w].seen, [status |-> "failed", chunks |-> 0])
    BY <1>7 DEF MarkFailedCommit, Fault
  <2>2. job[w].doc \in Docs
    BY <2>1, RunningJob
  <2>3. CASE d = job[w].doc
    <3>1. /\ status'[d] = IF "failed" # job[w].seen.status THEN "failed" ELSE status[d]
          /\ chunkCount'[d] = IF 0 # job[w].seen.chunks THEN 0 ELSE chunkCount[d]
      BY <1>1, <2>1, <2>3 DEF UpdateRow
    <3>2. QED
      BY <1>7, <2>1, <2>3, <3>1
  <2>4. CASE d # job[w].doc
    BY <1>1, <2>1, <2>2, <2>4 DEF UpdateRow
  <2>5. QED
    BY <2>3, <2>4
<1>8. CASE WorkerNext /\ ~ UNCHANGED db
  <2>1. \E w \in Slots : MarkDoneCommit(w) \/ MarkFailedCommit(w)
    BY <1>8 DEF WorkerNext, Dequeue, Acquire, JobStep, AddCommits, AddRaises, BatchDone,
       BatchTimeout, MarkDoneGet, Rollback, MarkFailedGet, Unlink, LateEnds, JobOnly
  <2>2. QED
    BY <1>6, <1>7, <1>8, <2>1
<1>9. CASE LifespanNext
  BY <1>2, <1>9 DEF LifespanNext, Start, StartWithoutRedis, RecoverOne, RecoverFails, RecoverDone, Crash
<1>10. CASE UNCHANGED vars
  BY <1>2, <1>10 DEF vars
<1>11. QED
  BY <1>2, <1>3, <1>4, <1>5, <1>8, <1>9, <1>10 DEF Next, HandlerNext

\* Finished is final for an upload that has saved its file.
LEMMA FinishedStep ==
  ASSUME "disk" \notin Faults, TypeOK, [Next]_vars, ~Crash,
         NEW d \in Docs, Finished(d), upload[d] # "inserted"
  PROVE  Finished(d)'
<1>1. CASE ~file[d]
  BY <1>1, FileStep DEF Finished
<1>2. ASSUME NEW w \in Slots, job[w].pc \in UnlinkPC, job[w].doc = d
      PROVE  Finished(d)'
  <2>1. CASE job'[w] = job[w]
    BY <1>2, <2>1 DEF Finished
  <2>2. CASE job'[w] # job[w]
    <3>1. JobStep(w)
      BY <1>2, <2>2, SlotStep, AcquirePlaces DEF UnlinkPC
    <3>2. Unlink(w)
      BY <1>2, <3>1 DEF UnlinkPC, JobStep, AddCommits, AddRaises, BatchDone, BatchTimeout, MarkDoneGet,
         MarkDoneCommit, Rollback, MarkFailedGet, MarkFailedCommit
    <3>3. QED
      BY <1>2, <3>2, FileStep DEF Finished
  <2>3. QED
    BY <2>1, <2>2
<1>3. QED
  BY <1>1, <1>2 DEF Finished

-----------------------------------------------------------------------------
(* Each step keeps the invariant *)

\* The commit of a job is its own step towards delete_upload_file.
LEMMA CommitUnlinks ==
  ASSUME SerialInv, NEW w \in Slots, job[w].pc # "idle", NEW pc \in UnlinkPC, SetPC(w, pc)
  PROVE  job'[w].pc = pc /\ job'[w].doc = job[w].doc
BY SerialJob DEF SetPC, SetJob, SerialInv, TypeOK

\* The uploads of one step: a document opened stays in the same upload.
LEMMA OpenStep ==
  ASSUME TypeOK, [Next]_vars, NEW d \in Docs, upload'[d] \in Open
  PROVE  /\ ~Crash
         /\ upload[d] \in Open \/ (upload[d] = "checked" /\ upload'[d] = "inserted" /\ status'[d] = "pending")
         /\ upload'[d] = "inserted" => upload[d] \in {"checked", "inserted"}
<1>1. ~Crash
  BY DEF Crash, NoUploads, Open
<1>2. QED
  BY <1>1, OtherStepKeepsUploads, UploadStepEffect DEF Open

LEMMA RowKeptStep ==
  ASSUME "disk" \notin Faults, "ack" \notin Faults, SerialInv, [Next]_vars, NEW d \in Docs
  PROVE  RowKept(d)'
<1> USE DEF SerialInv, DurableOrder
<1>1. vectors'[d] \subseteq IdsForDocument(NumChunks[d])
  <2>1. \A from \in Nat : BatchIds(d, from) \subseteq IdsForDocument(NumChunks[d])
    BY DEF BatchIds
  <2>2. \A b \in Batches : b[2] \in Nat
    BY ConstantsAssumption DEF Batches, IdsForDocument
  <2>3. \A w \in Slots : Adds(w) => job[w].written \in Nat
    BY SerialJob DEF Adds, AddCommits, AddRaises
  <2>4. QED
    BY <2>1, <2>2, <2>3, VectorsStep DEF RowKept
<1>2. \A w \in Slots : MarkDoneCommit(w) /\ job[w].doc = d /\ job[w].seen.status = "done"
                         => status[d] \in {"done", "deleted"}
  BY DEF JobKept, MarkDoneCommit
<1>3. \A w \in Slots : MarkFailedCommit(w) /\ job[w].doc = d /\ RowExists(d)
                         => job[w].seen.chunks = chunkCount[d]
  BY DEF JobKept, MarkFailedCommit
<1>4. ASSUME NEW w \in Slots, MarkDoneCommit(w) \/ MarkFailedCommit(w), job[w].doc = d,
             NEW pc \in UnlinkPC, SetPC(w, pc)
      PROVE  Finished(d)'
  BY <1>4, CommitUnlinks DEF MarkDoneCommit, MarkFailedCommit, Finished
<1>5. ASSUME status'[d] \in {"none", "pending"}
      PROVE  chunkCount'[d] = 0 /\ Unread(d)'
  <2>1. status[d] \in {"none", "pending"}
    BY <1>5, StatusStep
  <2>2. chunkCount[d] = 0 /\ Unread(d)
    BY <2>1 DEF RowKept
  <2>3. Unread(d)'
    BY <2>2, SeenStep DEF Unread
  <2>4. QED
    BY <1>2, <1>3, <1>5, <2>1, <2>2, <2>3, CommitStep
<1>6. ASSUME upload'[d] = "inserted"
      PROVE  ~Held(d)' /\ status'[d] \in {"pending", "deleted"}
  <2>1. (upload[d] = "checked" /\ status'[d] = "pending") \/ upload[d] = "inserted"
    BY <1>6, OpenStep DEF Open
  <2>2. ~Held(d) /\ ~file[d] /\ upload[d] # "saved"
    BY <2>1 DEF Admitted, RowKept
  <2>3. ~Held(d)'
    BY <2>2, NewlyHeld
  <2>4. CASE upload[d] = "inserted"
    <3>1. \A w \in Slots : job[w].doc = d => ~MarkDoneCommit(w) /\ ~MarkFailedCommit(w)
      BY <2>2, SerialJob DEF MarkDoneCommit, MarkFailedCommit
    <3>2. ~UploadMarkFailed(d)
      BY <2>4 DEF UploadMarkFailed
    <3>3. status[d] \in {"pending", "deleted"}
      BY <2>4 DEF RowKept
    <3>4. QED
      BY <2>3, <3>1, <3>2, <3>3, CommitStep
  <2>5. QED
    BY <2>1, <2>3, <2>4
<1>7. ASSUME upload'[d] = "enqueueFailed"
      PROVE  ~file'[d]
  BY <1>7, FileStep DEF RowKept
<1>8. ASSUME upload'[d] \in Open, status'[d] \in {"done", "failed"}
      PROVE  Finished(d)'
  <2>1. ~Crash /\ upload[d] \in Open /\ upload'[d] # "inserted"
    BY <1>6, <1>8, OpenStep
  <2>2. ~UploadMarkFailed(d)
    BY <1>8 DEF UploadMarkFailed, SetUpload, TypeOK, Open
  <2>3. CASE status'[d] = status[d]
    BY <1>8, <2>1, <2>3, FinishedStep DEF RowKept
  <2>4. QED
    BY <1>4, <1>8, <2>2, <2>3, CommitStep DEF UnlinkPC
<1>9. ASSUME UploadMarkFailed(d)
      PROVE  ~file'[d]
  BY <1>9, FileStep DEF UploadMarkFailed, Admitted, RowKept
<1>10. ASSUME status'[d] = "failed", chunkCount'[d] # 0
       PROVE  ~file'[d]
  <2>1. CASE status[d] = "failed" /\ chunkCount[d] # 0
    BY <2>1, FileStep DEF RowKept
  <2>2. QED
    BY <1>2, <1>3, <1>9, <1>10, <2>1, CommitStep
<1>11. ASSUME status'[d] = "failed", ~Unread(d)'
       PROVE  Finished(d)'
  <2>1. ~Crash
    BY <1>11 DEF Crash, Unread, NoDeletions, NoDeletion, NoChunks
  <2>2. CASE status[d] = "failed"
    <3>1. Finished(d)
      BY <1>11, <2>2, SeenStep DEF Unread, RowKept, Finished
    <3>2. upload[d] # "inserted"
      BY <2>2 DEF RowKept
    <3>3. QED
      BY <2>1, <3>1, <3>2, FinishedStep
  <2>3. CASE UploadMarkFailed(d)
    BY <1>9, <2>3 DEF Finished
  <2>4. QED
    BY <1>2, <1>4, <1>11, <2>2, <2>3, CommitStep DEF UnlinkPC
<1>12. QED
  BY <1>1, <1>5, <1>6, <1>7, <1>8, <1>10, <1>11 DEF RowKept

\* The one permit is free only when no job is about to unlink a file.
LEMMA AcquireKept ==
  ASSUME MaxParallel = 1, SerialInv, NEW w \in Slots, Acquire(w)
  PROVE  JobKept(w)'
<1> USE DEF SerialInv
<1>0. PICK d \in Docs : d = Head(waiting)
  BY AcquirePlaces
<1>1. /\ waiting # <<>> /\ job[w].pc = "idle"
      /\ job'[w].doc = d /\ job'[w].written = 0 /\ job'[w].pc \in {"adding", "failGet"}
      /\ job'[w].pc = "adding" => NumChunks[d] > 0
  BY <1>0, AcquirePlaces
<1>2. /\ UNCHANGED <<status, chunkCount, vectors, upload, deletion, workDeletion>>
      /\ job'[w].pc = "adding" => file[d]
  <2>1. UNCHANGED <<status, chunkCount, vectors, upload, deletion, workDeletion>>
    BY DEF Acquire, durable, db, handlers
  <2>2. ASSUME ~file[d]
        PROVE  job'[w].pc = "failGet"
    BY <1>0, <2>2 DEF Acquire, Splits, SetJob, TypeOK
  <2>3. QED
    BY <2>1, <2>2
<1>3. CASE job'[w].pc = "failGet"
  BY <1>3 DEF JobKept, Ingesting
<1>4. CASE job'[w].pc = "adding"
  <2>1. ~Finished(d)
    BY <1>1, <1>2, <1>4 DEF Finished, Slots, UnlinkPC
  <2>2. status[d] # "none"
    BY <1>0, <1>1, HeadTailElements DEF TypeOK, DurableOrder, Admitted, Held
  <2>3. upload[d] \in Open => status[d] \in {"pending", "deleted"}
    BY <1>1, <2>1, <2>2 DEF RowKept, TypeOK, DocumentStatus
  <2>4. status[d] \in {"pending", "failed"} => chunkCount[d] = 0 /\ Unread(d)
    BY <1>1, <1>2, <1>4, <2>1 DEF RowKept
  <2>5. Added(w)' = {}
    BY <1>1, <1>4 DEF Added, IdsForDocument
  <2>6. Unread(d)' <=> Unread(d)
    BY <1>2 DEF Unread
  <2>7. QED
    BY <1>1, <1>2, <1>4, <2>3, <2>4, <2>5, <2>6 DEF JobKept, Unread
<1>5. QED
  BY <1>1, <1>3, <1>4

\* What others do meanwhile: a deletion has read nothing to remove, and an upload that
\* fails its row finds it pending.
LEMMA OthersKept ==
  ASSUME MaxParallel = 1, "ack" \notin Faults, SerialInv, [Next]_vars, NEW w \in Slots, job'[w] = job[w]
  PROVE  JobKept(w)'
<1> DEFINE d == job[w].doc
<1> USE DEF SerialInv
<1>1. CASE job[w].pc = "idle"
  BY <1>1 DEF JobKept, Ingesting
<1>2. CASE job[w].pc # "idle"
  <2>1. d \in Docs /\ status[d] # "none" /\ Held(d)
    BY <1>2, SerialJob
  <2>2. \A v \in Slots : v = w
    BY DEF Slots
  <2>3. \A v \in Slots : \A pc \in UnlinkPC : ~((MarkDoneCommit(v) \/ MarkFailedCommit(v)) /\ SetPC(v, pc))
    BY <1>2, <2>2, CommitUnlinks DEF MarkDoneCommit, MarkFailedCommit, UnlinkPC
  <2>4. \/ status'[d] = status[d] /\ chunkCount'[d] = chunkCount[d]
        \/ /\ UploadMarkFailed(d) /\ RowExists(d)
           /\ status'[d] = "failed" /\ chunkCount'[d] = chunkCount[d]
        \/ status'[d] = "deleted"
        \/ ~RowExists(d) /\ status'[d] = status[d]
    BY <2>1, <2>3, CommitStep DEF DurableOrder, UnlinkPC
  <2>5. UploadMarkFailed(d) => upload[d] \in Open /\ upload'[d] = "rejected"
    BY <2>1 DEF UploadMarkFailed, SetUpload, Open, TypeOK
  <2>6. upload'[d] \in Open => upload[d] \in Open
    BY <2>1, OpenStep DEF DurableOrder, Admitted
  <2>7. ASSUME job[w].pc \in Ingesting, upload'[d] \in Open
        PROVE  status'[d] \in {"pending", "deleted"}
    BY <2>4, <2>5, <2>6, <2>7 DEF JobKept, Open
  <2>8. ASSUME job[w].pc \in Ingesting, status'[d] \in {"pending", "failed"}
        PROVE  chunkCount'[d] = 0 /\ Unread(d)' /\ Added(w)' \subseteq vectors'[d]
    <3>1. status[d] \in {"pending", "failed"} /\ chunkCount'[d] = chunkCount[d]
      BY <2>4, <2>5, <2>8 DEF JobKept, RowExists, DocumentStatus
    <3>2. chunkCount[d] = 0 /\ Unread(d) /\ Added(w) \subseteq vectors[d]
      BY <2>8, <3>1 DEF JobKept
    <3>3. Unread(d)'
      BY <2>1, <3>2, SeenStep DEF Unread
    <3>4. IdsForDocument(0) = {}
      BY DEF IdsForDocument
    <3>5. \A v \in Slots : ~Rollback(v)
      BY <2>2, <2>8 DEF Rollback, Ingesting
    <3>6. vectors[d] \subseteq vectors'[d]
      BY <2>1, <3>2, <3>4, <3>5, VectorsStep DEF Unread
    <3>7. Added(w)' = Added(w)
      BY DEF Added
    <3>8. QED
      BY <3>1, <3>2, <3>3, <3>6, <3>7
  <2>9. RowExists(d)' => chunkCount'[d] = chunkCount[d] /\ RowExists(d)
    BY <2>4 DEF RowExists, DocumentStatus
  <2>10. ASSUME job[w].pc = "doneCommit", job[w].seen.status = "done"
         PROVE  status'[d] \in {"done", "deleted"}
    BY <2>4, <2>5, <2>10 DEF JobKept, Ingesting, RowExists, DocumentStatus
  <2>11. QED
    BY <2>7, <2>8, <2>9, <2>10 DEF JobKept
<1>3. QED
  BY <1>1, <1>2

\* Its own steps count what they have added, and read the row they are to commit.
LEMMA JobStepKept ==
  ASSUME SerialInv, NEW w \in Slots, JobStep(w)
  PROVE  JobKept(w)'
<1> DEFINE d == job[w].doc
<1> USE DEF SerialInv, db, JobOnly, handlers
<1>1. job[w].pc # "idle"
  BY JobStepPlaces
<1>2. /\ job[w] \in [pc : JobPC, doc : Docs, written : Nat, seen : RowType \cup {NotRead}]
      /\ d \in Docs /\ job[w].written \in Nat
  BY <1>1, SerialJob
<1>3. job \in [Slots -> JobType] /\ vectors \in [Docs -> SUBSET Nat] /\ NumChunks[d] \in Nat
  BY <1>2, ConstantsAssumption DEF TypeOK
<1>4. UNCHANGED <<upload, deletion, workDeletion>>
  BY DEF JobStep, AddCommits, AddRaises, BatchDone, BatchTimeout, MarkDoneGet,
     MarkDoneCommit, Rollback, MarkFailedGet, MarkFailedCommit, Unlink
<1>5. ASSUME job'[w].pc \in {"idle", "rollback", "failGet"} \cup UnlinkPC
      PROVE  JobKept(w)'
  BY <1>5 DEF JobKept, Ingesting, UnlinkPC
<1>6. ASSUME SetJob(w, IdleJob)
      PROVE  JobKept(w)'
  BY <1>3, <1>5, <1>6 DEF SetJob, IdleJob
<1>7. ASSUME NEW pc \in {"rollback", "failGet"} \cup UnlinkPC, SetPC(w, pc)
      PROVE  JobKept(w)'
  <2>1. job'[w].pc = pc
    BY <1>2, <1>3, <1>7 DEF SetPC, SetJob
  <2>2. QED
    BY <1>5, <2>1
<1>8. FailPC(w) \in {"rollback", "failGet"}
  BY DEF FailPC
<1>9. CASE AddCommits(w)
  <2>1. /\ job[w].pc = "adding" /\ UNCHANGED <<status, chunkCount>>
        /\ vectors'[d] = vectors[d] \cup BatchIds(d, job[w].written)
    BY <1>2, <1>3, <1>9 DEF AddCommits
  <2>2. job'[w].pc = "added" /\ job'[w].doc = d /\ job'[w].written = job[w].written
    BY <1>2, <1>3, <1>9 DEF AddCommits, SetPC, SetJob
  <2>3. Added(w) = IdsForDocument(job[w].written) /\ Added(w)' = IdsForDocument(NextBatch(d, job[w].written))
    BY <2>1, <2>2 DEF Added
  <2>4. IdsForDocument(NextBatch(d, job[w].written))
          \subseteq IdsForDocument(job[w].written) \cup BatchIds(d, job[w].written)
    BY <1>2, <1>3, ConstantsAssumption DEF IdsForDocument, NextBatch, BatchIds
  <2>5. QED
    BY <1>4, <2>1, <2>2, <2>3, <2>4 DEF JobKept, Ingesting, Unread
<1>10. CASE BatchDone(w)
  <2> DEFINE n == NextBatch(d, job[w].written)
  <2>1. n \in Nat /\ (n < NumChunks[d] \/ n = NumChunks[d])
    BY <1>2, <1>3, ConstantsAssumption DEF NextBatch
  <2>2. /\ job[w].pc = "added" /\ UNCHANGED <<status, chunkCount, vectors>>
        /\ SetJob(w, [job[w] EXCEPT !.written = n,
                                    !.pc = IF n < NumChunks[d] THEN "adding" ELSE "doneGet"])
    BY <1>10 DEF BatchDone
  <2>3. Added(w) = IdsForDocument(n)
    BY <2>2 DEF Added
  <2> HIDE DEF n
  <2>4. /\ job'[w].doc = d /\ job'[w].written = n
        /\ job'[w].pc = IF n < NumChunks[d] THEN "adding" ELSE "doneGet"
    BY <1>2, <1>3, <2>2 DEF SetJob
  <2>5. Added(w)' = IdsForDocument(n)
    BY <2>4 DEF Added
  <2>6. NumChunks[d] > 0
    BY <1>2, <1>3, <2>2 DEF JobKept
  <2>7. QED
    BY <1>4, <2>1, <2>2, <2>3, <2>4, <2>5, <2>6 DEF JobKept, Ingesting, Unread
<1>11. ASSUME job[w].pc \in {"doneGet", "failGet"},
              NEW pc \in {"doneCommit", "failCommit"}, pc = "doneCommit" => job[w].pc = "doneGet",
              SetJob(w, [job[w] EXCEPT !.pc = pc, !.seen = Row(d)]), UNCHANGED <<status, chunkCount, vectors>>
       PROVE  JobKept(w)'
  <2>1. /\ job'[w].pc = pc /\ job'[w].doc = d /\ job'[w].written = job[w].written
        /\ job'[w].seen = [status |-> status[d], chunks |-> chunkCount[d]]
    BY <1>2, <1>3, <1>11 DEF SetJob, Row
  <2>2. pc = "doneCommit" => Added(w)' = Added(w)
    BY <1>11, <2>1 DEF Added
  <2>3. QED
    BY <1>4, <1>11, <2>1, <2>2 DEF JobKept, Ingesting, Unread
<1>12. CASE AddRaises(w) \/ BatchTimeout(w) \/ Rollback(w)
  BY <1>7, <1>8, <1>12 DEF AddRaises, BatchTimeout, Rollback
<1>13. CASE MarkDoneGet(w)
  BY <1>7, <1>8, <1>11, <1>13 DEF MarkDoneGet, UnlinkPC
<1>14. CASE MarkFailedGet(w)
  BY <1>6, <1>7, <1>11, <1>14 DEF MarkFailedGet, UnlinkPC
<1>15. CASE MarkDoneCommit(w)
  BY <1>7, <1>8, <1>15 DEF MarkDoneCommit, UnlinkPC
<1>16. CASE MarkFailedCommit(w) \/ Unlink(w)
  BY <1>6, <1>7, <1>8, <1>16 DEF MarkFailedCommit, Unlink, SetPC, UnlinkPC
<1>17. QED
  BY <1>9, <1>10, <1>12, <1>13, <1>14, <1>15, <1>16 DEF JobStep

LEMMA SerialInvStep ==
  ASSUME MaxParallel = 1, "disk" \notin Faults, "ack" \notin Faults, SerialInv, [Next]_vars
  PROVE  SerialInv'
<1> USE DEF SerialInv
<1>1. TypeOK'
  BY NextType
<1>2. DurableOrder'
  BY AdmittedStep, SettledFirstStep DEF DurableOrder
<1>3. \A d \in Docs : RowKept(d)'
  BY RowKeptStep
<1>4. ASSUME NEW w \in Slots
      PROVE  JobKept(w)'
  <2>1. CASE Crash
    <3>1. job'[w].pc = "idle"
      BY <2>1 DEF Crash, NoJobs, IdleJob
    <3>2. QED
      BY <3>1 DEF JobKept, Ingesting
  <2>2. CASE ~Crash
    BY <2>2, SlotStep, AcquireKept, JobStepKept, OthersKept
  <2>3. QED
    BY <2>1, <2>2
<1>5. QED
  BY <1>1, <1>2, <1>3, <1>4

\* A restart recovers jobs that are queued already, and a second job re-ingests a
\* document whose row a deletion has read as done.  With one permit, a disk that unlinks
\* and commits that are acknowledged, done is nevertheless published only when every
\* chunk is in the collection, however often the process crashes and whatever else fails.
\* (The run liveness shows it of one document.  A file that cannot be unlinked breaks
\* this with three failures, a crash and the listing among them.)
THEOREM PublishedAfterCrashes ==
  ASSUME MaxParallel = 1, "disk" \notin Faults, "ack" \notin Faults
  PROVE  Spec => SearchableWhenDone
<1> DEFINE Complete ==
      \A d \in Docs : status[d] # "done" /\ status'[d] = "done"
                        => vectors[d] = IdsForDocument(NumChunks[d])
<1>1. Init => SerialInv
  <2> SUFFICES ASSUME Init
               PROVE  SerialInv
    OBVIOUS
  <2>1. OneJobInv /\ \A w \in Slots : job[w].pc = "idle"
    BY InitOneJob DEF Init, NoJobs, IdleJob
  <2>2. QED
    BY <2>1 DEF Init, OneJobInv, SerialInv, RowKept, RowAgrees, JobKept, Ingesting, Open, Unread,
       NoUploads, NoChunks, NoDeletions, NoDeletion
<1>2. SerialInv /\ [Next]_vars => SerialInv'
  BY SerialInvStep
<1>3. SerialInv /\ [Next]_vars => Complete
  <2> SUFFICES ASSUME SerialInv, [Next]_vars, NEW d \in Docs, status[d] # "done", status'[d] = "done"
               PROVE  vectors[d] = IdsForDocument(NumChunks[d])
    OBVIOUS
  <2>1. PICK w \in Slots : MarkDoneCommit(w) /\ job[w].doc = d /\ RowExists(d)
    BY CommitStep DEF SerialInv, DurableOrder
  <2>2. job[w].pc = "doneCommit" /\ status[d] \in {"pending", "failed"}
    BY <2>1 DEF MarkDoneCommit, RowExists, DocumentStatus
  <2>3. job[w].written = NumChunks[d] /\ Added(w) \subseteq vectors[d]
    BY <2>1, <2>2 DEF SerialInv, JobKept, Ingesting
  <2>4. vectors[d] \subseteq IdsForDocument(NumChunks[d])
    BY DEF SerialInv, RowKept
  <2>5. QED
    BY <2>2, <2>3, <2>4 DEF Added
<1>4. Spec => [][Complete]_vars
  BY <1>1, <1>2, <1>3, PTL DEF Spec
<1>5. QED
  BY <1>4 DEF SearchableWhenDone
=============================================================================

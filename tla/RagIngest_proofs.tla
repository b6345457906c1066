--------------------------- MODULE RagIngest_proofs ---------------------------
(***************************************************************************)
(* Proofs about RagIngest, for every set of documents, every number of     *)
(* chunks, batch size and number of permits, and any number of failures.   *)
(***************************************************************************)
EXTENDS RagIngest, SequenceTheorems, TLAPS

-----------------------------------------------------------------------------
(* Lemmas about the operators of RagState *)

\* A pushed element joins the elements of the list, which loses none.
LEMMA AppendElements ==
  ASSUME NEW S, NEW seq \in Seq(S), NEW e \in S
  PROVE  /\ Append(seq, e) \in Seq(S)
         /\ Elements(Append(seq, e)) = Elements(seq) \cup {e}
<1>1. Append(seq, e) \in Seq(S)
  OBVIOUS
<1>2. /\ DOMAIN Append(seq, e) = 1 .. Len(seq) + 1
      /\ DOMAIN seq = 1 .. Len(seq) /\ Len(seq) \in Nat
  OBVIOUS
<1>3. /\ Append(seq, e)[Len(seq) + 1] = e
      /\ \A i \in 1 .. Len(seq) : Append(seq, e)[i] = seq[i]
  OBVIOUS
<1>4. Elements(Append(seq, e)) \subseteq Elements(seq) \cup {e}
  BY <1>2, <1>3 DEF Elements
<1>5. Elements(seq) \cup {e} \subseteq Elements(Append(seq, e))
  <2>1. e \in Elements(Append(seq, e))
    <3>1. Len(seq) + 1 \in DOMAIN Append(seq, e)
      BY <1>2
    <3>2. QED
      BY <3>1, <1>3 DEF Elements
  <2>2. \A i \in 1 .. Len(seq) : seq[i] \in Elements(Append(seq, e))
    <3>1. TAKE i \in 1 .. Len(seq)
    <3>2. i \in DOMAIN Append(seq, e) /\ Append(seq, e)[i] = seq[i]
      BY <1>2, <1>3
    <3>3. Append(seq, e)[i] \in Elements(Append(seq, e))
      BY <3>2 DEF Elements
    <3>4. QED
      BY <3>2, <3>3
  <2>3. QED
    BY <2>1, <2>2, <1>2 DEF Elements
<1>6. QED
  BY <1>1, <1>4, <1>5

\* Taking the head of a list leaves its other elements.
LEMMA HeadTailElements ==
  ASSUME NEW S, NEW seq \in Seq(S), seq # <<>>
  PROVE  /\ Head(seq) \in S /\ Tail(seq) \in Seq(S)
         /\ Elements(seq) = {Head(seq)} \cup Elements(Tail(seq))
<1>1. Head(seq) \in S /\ Tail(seq) \in Seq(S)
  OBVIOUS
<1>2. /\ DOMAIN seq = 1 .. Len(seq) /\ Len(seq) \in Nat \ {0}
      /\ DOMAIN Tail(seq) = 1 .. Len(seq) - 1
  OBVIOUS
<1>3. /\ Head(seq) = seq[1]
      /\ \A i \in 1 .. Len(seq) - 1 : Tail(seq)[i] = seq[i + 1]
  OBVIOUS
<1>4. Elements(seq) \subseteq {Head(seq)} \cup Elements(Tail(seq))
  <2>1. \A i \in 1 .. Len(seq) : i = 1 \/ (i - 1 \in DOMAIN Tail(seq) /\ Tail(seq)[i - 1] = seq[i])
    BY <1>2, <1>3
  <2>2. \A i \in 1 .. Len(seq) : seq[i] \in {Head(seq)} \cup Elements(Tail(seq))
    <3>1. TAKE i \in 1 .. Len(seq)
    <3>2. CASE i = 1
      BY <3>2, <1>3
    <3>3. CASE i # 1
      <4>1. Tail(seq)[i - 1] \in Elements(Tail(seq))
        BY <2>1, <3>3 DEF Elements
      <4>2. QED
        BY <2>1, <3>3, <4>1
    <3>4. QED
      BY <3>2, <3>3
  <2>3. QED
    BY <2>2, <1>2 DEF Elements
<1>5. {Head(seq)} \cup Elements(Tail(seq)) \subseteq Elements(seq)
  <2>1. Head(seq) \in Elements(seq)
    BY <1>2, <1>3 DEF Elements
  <2>2. \A i \in DOMAIN Tail(seq) : Tail(seq)[i] \in Elements(seq)
    <3>1. TAKE i \in DOMAIN Tail(seq)
    <3>2. i + 1 \in DOMAIN seq /\ Tail(seq)[i] = seq[i + 1]
      BY <1>2, <1>3
    <3>3. seq[i + 1] \in Elements(seq)
      BY <3>2 DEF Elements
    <3>4. QED
      BY <3>2, <3>3
  <2>3. QED
    BY <2>1, <2>2 DEF Elements
<1>6. QED
  BY <1>1, <1>4, <1>5

\* A job that runs is a record with a document.
LEMMA RunningJob ==
  ASSUME TypeOK, NEW w \in Slots, job[w].pc # "idle"
  PROVE  /\ job[w] \in [pc : JobPC, doc : Docs, written : Nat, seen : RowType \cup {NotRead}]
         /\ job[w].doc \in Docs /\ job[w].written \in Nat
BY DEF TypeOK, JobType, JobPC, UnlinkPC

\* The next batch starts at a chunk index.
LEMMA NextBatchType ==
  ASSUME NEW d \in Docs, NEW from \in Nat
  PROVE  NextBatch(d, from) \in Nat
BY ConstantsAssumption DEF NextBatch

\* A row that exists has a legal status and chunk count.
LEMMA RowTyped ==
  ASSUME TypeOK, NEW d \in Docs, RowExists(d)
  PROVE  Row(d) \in RowType
BY DEF TypeOK, RowExists, Row, RowType

\* A commit of legal values keeps the tables well typed.
LEMMA UpdateRowType ==
  ASSUME TypeOK, NEW d \in Docs, NEW seen, NEW new \in RowType, UpdateRow(d, seen, new)
  PROVE  /\ workExists' \in BOOLEAN
         /\ status' \in [Docs -> DocumentStatus \cup {"none", "deleted"}]
         /\ chunkCount' \in [Docs -> Nat]
BY DEF TypeOK, UpdateRow, RowType

\* A failure counted or not, the budget is a number.
LEMMA FaultType ==
  ASSUME TypeOK, NEW kind, Fault(kind) \/ NoFault
  PROVE  faults' \in Nat
BY DEF TypeOK, Fault, NoFault

\* A push, answered or not, leaves a list of documents.
LEMMA EnqueueType ==
  ASSUME TypeOK, NEW d \in Docs, EnqueueIngest(d) \/ EnqueueIngestRaises(d)
  PROVE  queue' \in Seq(Docs) /\ faults' \in Nat
<1>1. queue \in Seq(Docs)
  BY DEF TypeOK
<1>2. Append(queue, d) \in Seq(Docs) /\ Append(Append(queue, d), d) \in Seq(Docs)
  BY <1>1, AppendElements
<1>3. queue' \in {queue, Append(queue, d), Append(Append(queue, d), d)}
  BY Zenon DEF EnqueueIngest, EnqueueIngestRaises
<1>4. faults' \in Nat
  BY FaultType DEF EnqueueIngest, EnqueueIngestRaises
<1>5. QED
  BY <1>1, <1>2, <1>3, <1>4, Zenon

\* delete_upload_file removes the file or leaves it, and touches no other file,
\* whether or not it raises.
LEMMA DeleteUploadFileEffect ==
  ASSUME TypeOK, NEW d \in Docs, DeleteUploadFile(d) \/ DeleteUploadFileRaises(d)
  PROVE  /\ file' \in [Docs -> BOOLEAN] /\ faults' \in Nat
         /\ file'[d] \in {FALSE, file[d]}
         /\ \A e \in Docs \ {d} : file'[e] = file[e]
<1>1. faults' \in Nat
  BY FaultType DEF DeleteUploadFile, DeleteUploadFileRaises
<1>2. file' = [file EXCEPT ![d] = FALSE] \/ file' = file
  BY DEF DeleteUploadFile, DeleteUploadFileRaises, Removed
<1>3. QED
  BY <1>1, <1>2 DEF TypeOK

-----------------------------------------------------------------------------
(* Type correctness *)

\* The steps of upload_document keep every variable well typed.
LEMMA UploadType ==
  ASSUME TypeOK, NEW d \in Docs, UploadStart(d) \/ UploadStep(d)
  PROVE  TypeOK'
<1> USE DEF UploadOnly, db, durable, lifespan, worker
<1>1. ASSUME NEW pc \in UploadPC, SetUpload(d, pc)
      PROVE  upload' \in [Docs -> UploadPC]
  BY <1>1 DEF TypeOK, SetUpload
<1>2. CASE UploadStart(d)
  <2>1. upload' \in [Docs -> UploadPC]
    BY <1>1, <1>2 DEF UploadStart, UploadPC
  <2>2. QED
    BY <1>2, <2>1 DEF UploadStart, NoFault, TypeOK
<1>3. CASE UploadInsert(d)
  <2>1. upload' \in [Docs -> UploadPC]
    BY <1>1, <1>3 DEF UploadInsert, UploadPC
  <2>2. status' \in [Docs -> DocumentStatus \cup {"none", "deleted"}]
    BY <1>3 DEF UploadInsert, TypeOK, DocumentStatus
  <2>3. faults' \in Nat
    BY <1>3, FaultType DEF UploadInsert
  <2>4. QED
    BY <1>3, <2>1, <2>2, <2>3 DEF UploadInsert, TypeOK
<1>4. CASE UploadSave(d)
  <2>1. upload' \in [Docs -> UploadPC]
    BY <1>1, <1>4 DEF UploadSave, UploadPC
  <2>2. file' \in [Docs -> BOOLEAN]
    BY <1>4 DEF UploadSave, TypeOK
  <2>3. faults' \in Nat
    BY <1>4, FaultType DEF UploadSave
  <2>4. QED
    BY <1>4, <2>1, <2>2, <2>3 DEF UploadSave, TypeOK
<1>5. CASE UploadEnqueue(d)
  <2>1. upload' \in [Docs -> UploadPC]
    BY <1>1, <1>5 DEF UploadEnqueue, UploadPC
  <2>2. queue' \in Seq(Docs) /\ faults' \in Nat
    BY <1>5, EnqueueType DEF UploadEnqueue
  <2>3. QED
    BY <1>5, <2>1, <2>2 DEF UploadEnqueue, TypeOK
<1>6. CASE UploadPushRaises(d)
  <2>1. upload' \in [Docs -> UploadPC]
    BY <1>1, <1>6 DEF UploadPushRaises, UploadPC
  <2>2. file' \in [Docs -> BOOLEAN] /\ faults' \in Nat
    BY <1>6, DeleteUploadFileEffect DEF UploadPushRaises
  <2>3. QED
    BY <1>6, <2>1, <2>2 DEF UploadPushRaises, TypeOK
<1>7. CASE UploadMarkFailed(d)
  <2>1. upload' \in [Docs -> UploadPC]
    BY <1>1, <1>7 DEF UploadMarkFailed, UploadPC
  <2>2. [status |-> "failed", chunks |-> 0] \in RowType
    BY DEF RowType, DocumentStatus
  <2>3. /\ workExists' \in BOOLEAN
        /\ status' \in [Docs -> DocumentStatus \cup {"none", "deleted"}]
        /\ chunkCount' \in [Docs -> Nat]
    <3>1. CASE UNCHANGED db
      BY <3>1 DEF TypeOK
    <3>2. CASE ~ UNCHANGED db
      BY <1>7, <2>2, <3>2, UpdateRowType DEF UploadMarkFailed
    <3>3. QED
      BY <3>1, <3>2
  <2>4. faults' \in Nat
    BY <1>7, FaultType DEF UploadMarkFailed
  <2>5. QED
    BY <1>7, <2>1, <2>3, <2>4 DEF UploadMarkFailed, TypeOK
<1>8. QED
  BY <1>2, <1>3, <1>4, <1>5, <1>6, <1>7 DEF UploadStep

\* So do those of delete_document,
LEMMA DeletionType ==
  ASSUME TypeOK, NEW d \in Docs, DeleteDocGet(d) \/ DeletionStep(d)
  PROVE  TypeOK'
<1> USE DEF db, durable, lifespan, worker
<1>1. ASSUME NEW pc \in {"idle", "vectors", "row"}, NEW n \in Nat, SetDeletion(d, pc, n)
      PROVE  deletion' \in [Docs -> [pc : {"idle", "vectors", "row"}, seen : Nat]]
  BY <1>1 DEF TypeOK, SetDeletion
<1>2. CASE DeleteDocGet(d)
  <2>1. chunkCount[d] \in Nat
    BY DEF TypeOK
  <2>2. deletion' \in [Docs -> [pc : {"idle", "vectors", "row"}, seen : Nat]]
    BY <1>1, <1>2, <2>1 DEF DeleteDocGet
  <2>3. QED
    BY <1>2, <2>2 DEF DeleteDocGet, NoFault, TypeOK
<1>3. CASE DeleteDocVectors(d)
  <2>1. deletion' \in [Docs -> [pc : {"idle", "vectors", "row"}, seen : Nat]]
    BY <1>1, <1>3 DEF DeleteDocVectors
  <2>2. vectors' \in [Docs -> SUBSET Nat]
    <3>1. vectors[d] \ IdsForDocument(deletion[d].seen) \in SUBSET Nat
      BY DEF TypeOK
    <3>2. QED
      BY <1>3, <3>1 DEF DeleteDocVectors, TypeOK
  <2>3. faults' \in Nat
    BY <1>3, FaultType DEF DeleteDocVectors
  <2>4. QED
    BY <1>3, <2>1, <2>2, <2>3 DEF DeleteDocVectors, TypeOK
<1>4. CASE DeleteDocRow(d)
  <2>1. deletion' \in [Docs -> [pc : {"idle", "vectors", "row"}, seen : Nat]]
    BY <1>1, <1>4 DEF DeleteDocRow
  <2>2. /\ status' \in [Docs -> DocumentStatus \cup {"none", "deleted"}]
        /\ chunkCount' \in [Docs -> Nat]
    <3>1. CASE UNCHANGED <<status, chunkCount>>
      BY <3>1 DEF TypeOK
    <3>2. CASE /\ status' = [status EXCEPT ![d] = "deleted"]
               /\ chunkCount' = [chunkCount EXCEPT ![d] = 0]
      BY <3>2 DEF TypeOK
    <3>3. QED
      BY <1>4, <3>1, <3>2 DEF DeleteDocRow
  <2>3. faults' \in Nat
    BY <1>4, FaultType DEF DeleteDocRow
  <2>4. QED
    BY <1>4, <2>1, <2>2, <2>3 DEF DeleteDocRow, TypeOK
<1>5. QED
  BY <1>2, <1>3, <1>4 DEF DeletionStep

\* those of delete_work,
LEMMA WorkDeletionType ==
  ASSUME TypeOK, DeleteWorkGet \/ WorkDeletionStep
  PROVE  TypeOK'
<1> USE DEF db, durable, lifespan, worker
<1>1. NoChunks \in [Docs -> Nat]
  BY DEF NoChunks
<1>2. CASE DeleteWorkGet
  <2>1. [d \in Docs |-> IF RowExists(d) THEN chunkCount[d] ELSE 0] \in [Docs -> Nat]
    BY DEF TypeOK
  <2>2. workDeletion' \in [pc : {"idle", "vectors", "rows"}, seen : [Docs -> Nat]]
    BY <1>2, <2>1 DEF DeleteWorkGet
  <2>3. QED
    BY <1>2, <2>2 DEF DeleteWorkGet, NoFault, TypeOK
<1>3. CASE DeleteWorkVectors
  <2>1. workDeletion' \in [pc : {"idle", "vectors", "rows"}, seen : [Docs -> Nat]]
    BY <1>1, <1>3 DEF DeleteWorkVectors
  <2>2. vectors' \in [Docs -> SUBSET Nat]
    BY <1>3 DEF DeleteWorkVectors, TypeOK
  <2>3. faults' \in Nat
    BY <1>3, FaultType DEF DeleteWorkVectors
  <2>4. QED
    BY <1>3, <2>1, <2>2, <2>3 DEF DeleteWorkVectors, TypeOK
<1>4. CASE DeleteWorkRows
  <2>1. workDeletion' \in [pc : {"idle", "vectors", "rows"}, seen : [Docs -> Nat]]
    BY <1>1, <1>4 DEF DeleteWorkRows
  <2>2. /\ workExists' \in BOOLEAN
        /\ status' \in [Docs -> DocumentStatus \cup {"none", "deleted"}]
        /\ chunkCount' \in [Docs -> Nat]
    BY <1>1, <1>4 DEF DeleteWorkRows, TypeOK
  <2>3. faults' \in Nat
    BY <1>4, FaultType DEF DeleteWorkRows
  <2>4. QED
    BY <1>4, <2>1, <2>2, <2>3 DEF DeleteWorkRows, TypeOK
<1>5. QED
  BY <1>2, <1>3, <1>4 DEF WorkDeletionStep

\* the worker loop and the start of a job,
LEMMA TakeJobType ==
  ASSUME TypeOK, Dequeue \/ \E w \in Slots : Acquire(w)
  PROVE  TypeOK'
<1> USE DEF db, durable, handlers, lifespan
<1>1. CASE Dequeue
  <2>1. queue \in Seq(Docs) /\ waiting \in Seq(Docs)
    BY DEF TypeOK
  <2>2. Head(queue) \in Docs /\ Tail(queue) \in Seq(Docs)
    BY <1>1, <2>1, HeadTailElements DEF Dequeue
  <2>3. Append(waiting, Head(queue)) \in Seq(Docs)
    BY <2>1, <2>2, AppendElements
  <2>4. queue' \in Seq(Docs) /\ waiting' \in Seq(Docs)
    BY <1>1, <2>1, <2>2, <2>3, Zenon DEF Dequeue
  <2>5. faults' \in Nat
    BY <1>1, FaultType DEF Dequeue
  <2>6. QED
    BY <1>1, <2>4, <2>5 DEF Dequeue, TypeOK
<1>2. ASSUME NEW w \in Slots, Acquire(w)
      PROVE  TypeOK'
  <2>1. waiting \in Seq(Docs)
    BY DEF TypeOK
  <2>2. Head(waiting) \in Docs /\ Tail(waiting) \in Seq(Docs)
    BY <1>2, <2>1, HeadTailElements DEF Acquire
  <2> DEFINE begun(pc) == [pc |-> pc, doc |-> Head(waiting), written |-> 0, seen |-> NotRead]
  <2>3. begun("adding") \in JobType /\ begun("failGet") \in JobType
    BY <2>2 DEF JobType, JobPC
  <2> HIDE DEF begun
  <2>a. job' = [job EXCEPT ![w] = begun("adding")] \/ job' = [job EXCEPT ![w] = begun("failGet")]
    BY <1>2 DEF Acquire, SetJob, begun
  <2>4. job' \in [Slots -> JobType]
    BY <2>3, <2>a DEF TypeOK
  <2>5. faults' \in Nat
    BY <1>2, FaultType DEF Acquire
  <2>6. QED
    BY <1>2, <2>2, <2>4, <2>5 DEF Acquire, TypeOK
<1>3. QED
  BY <1>1, <1>2

\* A step of a job that gives its record a legal value keeps it typed.
LEMMA SetJobType ==
  ASSUME TypeOK, NEW w \in Slots, NEW new \in JobType, SetJob(w, new)
  PROVE  job' \in [Slots -> JobType]
BY DEF TypeOK, SetJob

\* The same for a step that only moves the job on.
LEMMA SetPCType ==
  ASSUME TypeOK, NEW w \in Slots, job[w].pc # "idle", NEW next \in JobPC, SetPC(w, next)
  PROVE  job' \in [Slots -> JobType]
<1>1. [job[w] EXCEPT !.pc = next] \in JobType
  BY RunningJob DEF JobType
<1>2. QED
  BY <1>1, SetJobType DEF SetPC

\* Steps that change nothing but one job and the failure budget.
LEMMA JobOnlyType ==
  ASSUME TypeOK, job' \in [Slots -> JobType], faults' \in Nat,
         JobOnly, UNCHANGED <<db, vectors, file, late>>
  PROVE  TypeOK'
BY DEF TypeOK, JobOnly, db, handlers, lifespan

\* The batch loop of process_ingest_job keeps every variable well typed,
LEMMA BatchType ==
  ASSUME TypeOK, NEW w \in Slots,
         AddCommits(w) \/ AddRaises(w) \/ BatchDone(w) \/ BatchTimeout(w)
  PROVE  TypeOK'
<1> DEFINE d == job[w].doc
<1>1. job[w].pc # "idle"
  BY DEF AddCommits, AddRaises, BatchDone, BatchTimeout
<1>2. d \in Docs /\ job[w].written \in Nat
  BY <1>1, RunningJob
<1>3. ASSUME NEW pc \in JobPC, SetPC(w, pc)
      PROVE  job' \in [Slots -> JobType]
  BY <1>1, <1>3, SetPCType
<1>4. FailPC(w) \in JobPC
  BY DEF FailPC, JobPC
<1>a. ASSUME vectors' = [vectors EXCEPT ![d] = @ \cup BatchIds(d, job[w].written)]
      PROVE  vectors' \in [Docs -> SUBSET Nat]
  <2>1. NumChunks[d] \in Nat
    BY <1>2, ConstantsAssumption
  <2>2. vectors[d] \cup BatchIds(d, job[w].written) \in SUBSET Nat
    BY <1>2, <2>1 DEF BatchIds, IdsForDocument, TypeOK
  <2>3. QED
    BY <1>a, <2>2 DEF TypeOK
<1>5. CASE AddCommits(w)
  <2>1. job' \in [Slots -> JobType]
    BY <1>3, <1>5 DEF AddCommits, JobPC
  <2>2. vectors' \in [Docs -> SUBSET Nat]
    BY <1>5, <1>a DEF AddCommits
  <2>3. QED
    BY <1>5, <2>1, <2>2 DEF AddCommits, JobOnly, NoFault, TypeOK, db, handlers, lifespan
<1>6. CASE AddRaises(w)
  <2>1. job' \in [Slots -> JobType]
    BY <1>3, <1>4, <1>6 DEF AddRaises
  <2>2. vectors' \in [Docs -> SUBSET Nat]
    BY <1>6, <1>a DEF AddRaises, TypeOK
  <2>3. faults' \in Nat
    BY <1>6, FaultType DEF AddRaises
  <2>4. QED
    BY <1>6, <2>1, <2>2, <2>3 DEF AddRaises, JobOnly, TypeOK, db, handlers, lifespan
<1>7. CASE BatchDone(w)
  <2> DEFINE n == NextBatch(d, job[w].written)
             next == IF n < NumChunks[d] THEN "adding" ELSE "doneGet"
  <2>1. n \in Nat
    BY <1>2, NextBatchType
  <2>2. [job[w] EXCEPT !.written = n, !.pc = next] \in JobType
    <3>1. next \in JobPC
      BY DEF JobPC
    <3>2. job[w] \in [pc : JobPC, doc : Docs, written : Nat, seen : RowType \cup {NotRead}]
      BY <1>1, RunningJob
    <3> HIDE DEF n, next
    <3>3. QED
      BY <2>1, <3>1, <3>2 DEF JobType
  <2>3. job' \in [Slots -> JobType]
    BY <1>7, <2>2, SetJobType DEF BatchDone
  <2>4. QED
    BY <1>7, <2>3, FaultType, JobOnlyType DEF BatchDone
<1>8. CASE BatchTimeout(w)
  <2>1. job' \in [Slots -> JobType]
    BY <1>3, <1>4, <1>8 DEF BatchTimeout
  <2>2. late' \in [Batches -> Nat]
    <3>1. CASE UNCHANGED late
      BY <3>1 DEF TypeOK
    <3>2. CASE late' = [late EXCEPT ![Batch(w)] = @ + 1]
      <4>1. late \in [Batches -> Nat]
        BY DEF TypeOK
      <4>2. CASE Batch(w) \in Batches
        <5>1. late[Batch(w)] + 1 \in Nat
          BY <4>1, <4>2
        <5>2. QED
          BY <3>2, <4>1, <5>1
      <4>3. CASE Batch(w) \notin Batches
        <5>1. late' = late
          BY <3>2, <4>1, <4>3
        <5>2. QED
          BY <4>1, <5>1
      <4>4. QED
        BY <4>2, <4>3
    <3>3. QED
      BY <1>8, <3>1, <3>2 DEF BatchTimeout
  <2>3. faults' \in Nat
    BY <1>8, FaultType DEF BatchTimeout
  <2>4. QED
    BY <1>8, <2>1, <2>2, <2>3 DEF BatchTimeout, JobOnly, TypeOK, db, handlers, lifespan
<1>9. QED
  BY <1>5, <1>6, <1>7, <1>8

\* the end of an abandoned thread,
LEMMA LateEndsType ==
  ASSUME TypeOK, NEW b \in Batches, LateEnds(b)
  PROVE  TypeOK'
<1>1. PICK d \in Docs : b \in {d} \X IdsForDocument(NumChunks[d])
  BY DEF Batches
<1>2. NumChunks[d] \in Nat
  BY ConstantsAssumption
<1>3. b[1] = d /\ b[2] \in Nat
  BY <1>1, <1>2 DEF IdsForDocument
<1>4. vectors[d] \cup BatchIds(d, b[2]) \in SUBSET Nat
  BY <1>2 DEF BatchIds, IdsForDocument, TypeOK
<1>5. vectors' \in [Docs -> SUBSET Nat]
  BY <1>3, <1>4 DEF LateEnds, TypeOK
<1>6. late[b] - 1 \in Nat
  BY DEF LateEnds, TypeOK
<1>7. late' \in [Batches -> Nat]
  BY <1>6 DEF LateEnds, TypeOK
<1>8. QED
  BY <1>5, <1>7 DEF LateEnds, NoFault, TypeOK, db, handlers, lifespan

\* the settling of the row,
LEMMA SettleType ==
  ASSUME TypeOK, NEW w \in Slots,
         \/ MarkDoneGet(w) \/ MarkDoneCommit(w) \/ Rollback(w)
         \/ MarkFailedGet(w) \/ MarkFailedCommit(w) \/ Unlink(w)
  PROVE  TypeOK'
<1> DEFINE d == job[w].doc
<1>1. job[w].pc # "idle"
  BY DEF MarkDoneGet, MarkDoneCommit, Rollback, MarkFailedGet, MarkFailedCommit, Unlink, UnlinkPC
<1>2. /\ job[w] \in [pc : JobPC, doc : Docs, written : Nat, seen : RowType \cup {NotRead}]
      /\ d \in Docs /\ job[w].written \in Nat
  BY <1>1, RunningJob
<1>3. ASSUME NEW pc \in JobPC, SetPC(w, pc)
      PROVE  job' \in [Slots -> JobType]
  BY <1>1, <1>3, SetPCType
<1>4. FailPC(w) \in JobPC
  BY DEF FailPC, JobPC
<1>5. ASSUME SetJob(w, IdleJob)
      PROVE  job' \in [Slots -> JobType]
  <2>1. IdleJob \in JobType
    BY DEF IdleJob, JobType
  <2>2. QED
    BY <1>5, <2>1, SetJobType
<1>6. ASSUME NEW pc \in JobPC, RowExists(d),
             SetJob(w, [job[w] EXCEPT !.pc = pc, !.seen = Row(d)])
      PROVE  job' \in [Slots -> JobType]
  <2>1. Row(d) \in RowType
    BY <1>2, <1>6, RowTyped
  <2>2. [job[w] EXCEPT !.pc = pc, !.seen = Row(d)] \in JobType
    BY <1>2, <2>1 DEF JobType
  <2>3. QED
    BY <1>6, <2>2, SetJobType
<1>7. CASE MarkDoneGet(w)
  <2>1. job' \in [Slots -> JobType]
    BY <1>3, <1>4, <1>6, <1>7 DEF MarkDoneGet, JobPC, UnlinkPC
  <2>2. faults' \in Nat
    BY <1>7, FaultType DEF MarkDoneGet
  <2>3. QED
    BY <1>7, <2>1, <2>2, JobOnlyType DEF MarkDoneGet
<1>8. CASE MarkDoneCommit(w)
  <2>1. job' \in [Slots -> JobType]
    BY <1>3, <1>4, <1>8 DEF MarkDoneCommit, JobPC, UnlinkPC
  <2>2. [status |-> "done", chunks |-> job[w].written] \in RowType
    BY <1>2 DEF RowType, DocumentStatus
  <2>3. /\ workExists' \in BOOLEAN
        /\ status' \in [Docs -> DocumentStatus \cup {"none", "deleted"}]
        /\ chunkCount' \in [Docs -> Nat]
    <3>1. CASE UNCHANGED db
      BY <3>1 DEF TypeOK, db
    <3>2. CASE ~ UNCHANGED db
      BY <1>2, <1>8, <2>2, <3>2, UpdateRowType DEF MarkDoneCommit
    <3>3. QED
      BY <3>1, <3>2
  <2>4. faults' \in Nat
    BY <1>8, FaultType DEF MarkDoneCommit
  <2>5. QED
    BY <1>8, <2>1, <2>3, <2>4 DEF MarkDoneCommit, TypeOK, handlers, lifespan
<1>9. CASE Rollback(w)
  <2>1. job' \in [Slots -> JobType]
    BY <1>3, <1>9 DEF Rollback, JobPC
  <2>2. vectors[d] \ IdsForDocument(job[w].written) \in SUBSET Nat
    BY <1>2 DEF TypeOK
  <2>3. vectors' \in [Docs -> SUBSET Nat]
    BY <1>9, <2>2 DEF Rollback, TypeOK
  <2>4. faults' \in Nat
    BY <1>9, FaultType DEF Rollback
  <2>5. QED
    BY <1>9, <2>1, <2>3, <2>4 DEF Rollback, JobOnly, TypeOK, handlers, lifespan
<1>10. CASE MarkFailedGet(w)
  <2>1. job' \in [Slots -> JobType]
    BY <1>3, <1>5, <1>6, <1>10 DEF MarkFailedGet, JobPC, UnlinkPC
  <2>2. faults' \in Nat
    BY <1>10, FaultType DEF MarkFailedGet
  <2>3. QED
    BY <1>10, <2>1, <2>2, JobOnlyType DEF MarkFailedGet
<1>11. CASE MarkFailedCommit(w)
  <2>1. job' \in [Slots -> JobType]
    BY <1>3, <1>5, <1>11 DEF MarkFailedCommit, JobPC, UnlinkPC
  <2>2. [status |-> "failed", chunks |-> 0] \in RowType
    BY DEF RowType, DocumentStatus
  <2>3. /\ workExists' \in BOOLEAN
        /\ status' \in [Docs -> DocumentStatus \cup {"none", "deleted"}]
        /\ chunkCount' \in [Docs -> Nat]
    <3>1. CASE UNCHANGED db
      BY <3>1 DEF TypeOK, db
    <3>2. CASE ~ UNCHANGED db
      BY <1>2, <1>11, <2>2, <3>2, UpdateRowType DEF MarkFailedCommit
    <3>3. QED
      BY <3>1, <3>2
  <2>4. faults' \in Nat
    BY <1>11, FaultType DEF MarkFailedCommit
  <2>5. QED
    BY <1>11, <2>1, <2>3, <2>4 DEF MarkFailedCommit, TypeOK, handlers, lifespan
<1>12. CASE Unlink(w)
  <2>1. job' \in [Slots -> JobType]
    BY <1>3, <1>4, <1>5, <1>12 DEF Unlink, SetPC
  <2>2. file' \in [Docs -> BOOLEAN] /\ faults' \in Nat
    BY <1>2, <1>12, DeleteUploadFileEffect DEF Unlink
  <2>3. QED
    BY <1>12, <2>1, <2>2 DEF Unlink, JobOnly, TypeOK, db, handlers, lifespan
<1>13. QED
  BY <1>7, <1>8, <1>9, <1>10, <1>11, <1>12

\* and startup, recovery and crash.
LEMMA LifespanType ==
  ASSUME TypeOK, LifespanNext
  PROVE  TypeOK'
<1> USE DEF db, durable, handlers, worker
<1>1. CASE Start
  BY <1>1 DEF Start, NoFault, TypeOK
<1>2. CASE StartWithoutRedis
  BY <1>2, FaultType DEF StartWithoutRedis, TypeOK
<1>3. ASSUME NEW d \in Docs, RecoverOne(d)
      PROVE  TypeOK'
  <2>1. queue' \in Seq(Docs) /\ faults' \in Nat
    <3>1. CASE EnqueueIngest(d)
      BY <3>1, EnqueueType
    <3>2. CASE NoFault /\ UNCHANGED queue
      BY <3>2 DEF NoFault, TypeOK
    <3>3. QED
      BY <1>3, <3>1, <3>2 DEF RecoverOne
  <2>2. QED
    BY <1>3, <2>1 DEF RecoverOne, TypeOK
<1>4. ASSUME NEW d \in Docs, RecoverFails(d)
      PROVE  TypeOK'
  <2>1. queue' \in Seq(Docs) /\ faults' \in Nat
    BY <1>4, EnqueueType DEF RecoverFails
  <2>2. QED
    BY <1>4, <2>1 DEF RecoverFails, TypeOK
<1>5. CASE RecoverDone
  BY <1>5 DEF RecoverDone, NoFault, TypeOK
<1>6. CASE Crash
  <2>1. /\ NoUploads \in [Docs -> UploadPC]
        /\ NoDeletions \in [Docs -> [pc : {"idle", "vectors", "row"}, seen : Nat]]
        /\ NoDeletion \in [pc : {"idle", "vectors", "rows"}, seen : [Docs -> Nat]]
        /\ NoJobs \in [Slots -> JobType]
        /\ NoThreads \in [Batches -> Nat]
    BY DEF NoUploads, UploadPC, NoDeletions, NoDeletion, NoChunks, NoJobs, IdleJob,
           JobType, NoThreads
  <2>2. <<>> \in Seq(Docs)
    OBVIOUS
  <2>3. faults' \in Nat
    BY <1>6, FaultType DEF Crash
  <2>4. QED
    BY <1>6, <2>1, <2>2, <2>3 DEF Crash, TypeOK
<1>7. QED
  BY <1>1, <1>2, <1>3, <1>4, <1>5, <1>6 DEF LifespanNext

\* The initial state is well typed,
LEMMA InitType ==
  Init => TypeOK
<1> SUFFICES ASSUME Init
             PROVE  TypeOK
  OBVIOUS
<1>1. /\ upload \in [Docs -> UploadPC]
      /\ deletion \in [Docs -> [pc : {"idle", "vectors", "row"}, seen : Nat]]
      /\ workDeletion \in [pc : {"idle", "vectors", "rows"}, seen : [Docs -> Nat]]
  BY DEF Init, NoUploads, UploadPC, NoDeletions, NoDeletion, NoChunks
<1>2. job \in [Slots -> JobType] /\ late \in [Batches -> Nat]
  BY DEF Init, NoJobs, IdleJob, JobType, NoThreads
<1>3. /\ status \in [Docs -> DocumentStatus \cup {"none", "deleted"}]
      /\ chunkCount \in [Docs -> Nat] /\ vectors \in [Docs -> SUBSET Nat]
      /\ file \in [Docs -> BOOLEAN]
  BY DEF Init, NoChunks
<1>4. queue \in Seq(Docs) /\ waiting \in Seq(Docs)
  BY DEF Init
<1>5. QED
  BY <1>1, <1>2, <1>3, <1>4 DEF Init, TypeOK

\* and every step keeps it so.
LEMMA NextType ==
  TypeOK /\ [Next]_vars => TypeOK'
<1> SUFFICES ASSUME TypeOK, [Next]_vars
             PROVE  TypeOK'
  OBVIOUS
<1>1. CASE HandlerNext
  BY <1>1, UploadType, DeletionType, WorkDeletionType DEF HandlerNext
<1>2. CASE WorkerNext
  BY <1>2, TakeJobType, BatchType, SettleType, LateEndsType DEF WorkerNext, JobStep
<1>3. CASE LifespanNext
  BY <1>3, LifespanType
<1>4. CASE UNCHANGED vars
  BY <1>4 DEF vars, durable, db, handlers, lifespan, worker, TypeOK
<1>5. QED
  BY <1>1, <1>2, <1>3, <1>4 DEF Next

\* Every variable of the server keeps its type, whatever fails and whenever: in
\* particular a job never holds a row that was gone when it read it, and the
\* abandoned threads never count below zero.
THEOREM TypeCorrect == Spec => []TypeOK
<1>1. QED
  BY InitType, NextType, PTL DEF Spec


-----------------------------------------------------------------------------
(* The order of the durable steps *)

\* What one commit does to the row it updates.
LEMMA UpdateRowStatus ==
  ASSUME TypeOK, NEW d \in Docs, NEW seen, NEW new, UpdateRow(d, seen, new)
  PROVE  /\ \A e \in Docs \ {d} : status'[e] = status[e]
         /\ new.status # seen.status => status'[d] = new.status
         /\ new.status = seen.status => status'[d] = status[d]
BY DEF TypeOK, UpdateRow

\* The row of a new document is committed; the request is over when it has not heard.
Inserted(d) == \/ upload'[d] = "inserted"
               \/ upload'[d] = "rejected" /\ "ack" \in Faults

\* A row is inserted once, as pending, and a settled or deleted one never becomes
\* pending again.
LEMMA StatusStep ==
  ASSUME TypeOK, \A d \in Docs : Admitted(d), [Next]_vars
  PROVE  \A d \in Docs :
           \/ status'[d] = status[d]
           \/ status[d] = "none" /\ status'[d] = "pending" /\ Inserted(d)
           \/ RowExists(d) /\ status'[d] \in {"done", "failed", "deleted"}
<1> DEFINE Moves(d) == \/ status'[d] = status[d]
                       \/ status[d] = "none" /\ status'[d] = "pending" /\ Inserted(d)
                       \/ RowExists(d) /\ status'[d] \in {"done", "failed", "deleted"}
<1> USE DEF db, durable
<1>1. status \in [Docs -> DocumentStatus \cup {"none", "deleted"}]
  BY DEF TypeOK
<1>2. ASSUME status' = status
      PROVE  \A d \in Docs : Moves(d)
  BY <1>2
<1>3. ASSUME NEW d \in Docs, NEW seen, NEW new, new.status \in {"done", "failed"},
             RowExists(d), UpdateRow(d, seen, new)
      PROVE  \A e \in Docs : Moves(e)
  BY <1>3, UpdateRowStatus
<1>4. ASSUME NEW d \in Docs, UploadStart(d) \/ UploadStep(d)
      PROVE  \A e \in Docs : Moves(e)
  <2>1. CASE UploadInsert(d)
    BY <1>1, <2>1 DEF UploadInsert, Admitted, SetUpload, TypeOK, Inserted, Fault
  <2>2. CASE UploadMarkFailed(d)
    BY <1>2, <1>3, <2>2 DEF UploadMarkFailed
  <2>3. CASE UploadStart(d) \/ UploadSave(d) \/ UploadEnqueue(d) \/ UploadPushRaises(d)
    BY <1>2, <2>3 DEF UploadStart, UploadSave, UploadEnqueue, UploadPushRaises
  <2>4. QED
    BY <1>4, <2>1, <2>2, <2>3 DEF UploadStep
<1>5. ASSUME NEW d \in Docs, DeleteDocGet(d) \/ DeletionStep(d)
      PROVE  \A e \in Docs : Moves(e)
  <2>1. CASE DeleteDocRow(d)
    BY <1>1, <1>2, <2>1 DEF DeleteDocRow
  <2>2. CASE DeleteDocGet(d) \/ DeleteDocVectors(d)
    BY <1>2, <2>2 DEF DeleteDocGet, DeleteDocVectors
  <2>3. QED
    BY <1>5, <2>1, <2>2 DEF DeletionStep
<1>6. ASSUME DeleteWorkGet \/ WorkDeletionStep
      PROVE  \A e \in Docs : Moves(e)
  <2>1. CASE DeleteWorkRows
    BY <1>1, <1>2, <2>1 DEF DeleteWorkRows
  <2>2. CASE DeleteWorkGet \/ DeleteWorkVectors
    BY <1>2, <2>2 DEF DeleteWorkGet, DeleteWorkVectors
  <2>3. QED
    BY <1>6, <2>1, <2>2 DEF WorkDeletionStep
<1>7. ASSUME NEW w \in Slots, MarkDoneCommit(w) \/ MarkFailedCommit(w)
      PROVE  \A e \in Docs : Moves(e)
  <2>1. job[w].doc \in Docs
    BY <1>7, RunningJob DEF MarkDoneCommit, MarkFailedCommit
  <2>2. CASE MarkDoneCommit(w)
    BY <1>2, <1>3, <2>1, <2>2 DEF MarkDoneCommit
  <2>3. CASE MarkFailedCommit(w)
    BY <1>2, <1>3, <2>1, <2>3 DEF MarkFailedCommit
  <2>4. QED
    BY <1>7, <2>2, <2>3
<1>8. CASE WorkerNext
  <2>1. CASE \E w \in Slots : MarkDoneCommit(w) \/ MarkFailedCommit(w)
    BY <1>7, <2>1
  <2>2. CASE ~ \E w \in Slots : MarkDoneCommit(w) \/ MarkFailedCommit(w)
    <3>1. status' = status
      BY <1>8, <2>2 DEF WorkerNext, Dequeue, Acquire, JobStep, AddCommits, AddRaises, BatchDone,
         BatchTimeout, MarkDoneGet, Rollback, MarkFailedGet, Unlink, LateEnds
    <3>2. QED
      BY <1>2, <3>1
  <2>3. QED
    BY <2>1, <2>2
<1>9. CASE LifespanNext
  <2>1. status' = status
    BY <1>9 DEF LifespanNext, Start, StartWithoutRedis, RecoverOne, RecoverFails, RecoverDone, Crash
  <2>2. QED
    BY <1>2, <2>1
<1>10. CASE UNCHANGED vars
  BY <1>2, <1>10 DEF vars
<1>11. QED
  BY <1>4, <1>5, <1>6, <1>8, <1>9, <1>10 DEF Next, HandlerNext

\* How one step moves an upload and its file.  A file appears only when its upload
\* saves it, and an upload leaves its idle state only for a fresh id.
LEMMA UploadStepEffect ==
  ASSUME TypeOK, NEW d \in Docs, NEW e \in Docs, UploadStart(e) \/ UploadStep(e)
  PROVE  /\ e # d => upload'[d] = upload[d] /\ file'[d] = file[d]
         /\ e = d => \/ /\ upload[d] = "idle" /\ upload'[d] = "checked"
                        /\ status[d] = "none" /\ status'[d] = "none"
                        /\ file'[d] = file[d]
                     \/ /\ upload[d] = "checked"
                        /\ \/ upload'[d] = "inserted" /\ status'[d] = "pending"
                           \/ upload'[d] = "rejected"
                        /\ file'[d] = file[d]
                     \/ /\ upload[d] = "inserted"
                        /\ \/ upload'[d] = "saved"
                           \/ upload'[d] \in {"saveFailed", "rejected"} /\ file'[d] = file[d]
                     \/ /\ upload[d] = "saved" /\ upload'[d] \in {"accepted", "pushLost"}
                        /\ file'[d] = file[d]
                     \/ /\ upload[d] = "pushLost" /\ upload'[d] \in {"enqueueFailed", "rejected"}
                        /\ file'[d] \in {FALSE, file[d]}
                     \/ /\ upload[d] \in {"saveFailed", "enqueueFailed"}
                        /\ upload'[d] = "rejected"
                        /\ file'[d] = file[d]
<1> USE DEF SetUpload, db, durable
<1>1. /\ upload \in [Docs -> UploadPC] /\ file \in [Docs -> BOOLEAN]
      /\ status \in [Docs -> DocumentStatus \cup {"none", "deleted"}]
  BY DEF TypeOK
<1>2. CASE UploadStart(e)
  BY <1>1, <1>2 DEF UploadStart
<1>3. CASE UploadInsert(e)
  BY <1>1, <1>3 DEF UploadInsert
<1>4. CASE UploadSave(e)
  BY <1>1, <1>4 DEF UploadSave
<1>5. CASE UploadEnqueue(e)
  BY <1>1, <1>5 DEF UploadEnqueue
<1>6. CASE UploadPushRaises(e)
  BY <1>1, <1>6, DeleteUploadFileEffect DEF UploadPushRaises
<1>7. CASE UploadMarkFailed(e)
  BY <1>1, <1>7 DEF UploadMarkFailed
<1>8. QED
  BY <1>2, <1>3, <1>4, <1>5, <1>6, <1>7 DEF UploadStep

\* Apart from the uploads, only a crash touches their progress, and only Unlink
\* the files.
LEMMA OtherStepEffect ==
  ASSUME [Next]_vars, ~ \E e \in Docs : UploadStart(e) \/ UploadStep(e)
  PROVE  /\ upload' = upload \/ upload' = NoUploads
         /\ file' = file \/ \E w \in Slots : Unlink(w)
<1> USE DEF db, durable, handlers
<1>1. CASE HandlerNext
  BY <1>1 DEF HandlerNext, DeleteDocGet, DeletionStep, DeleteDocVectors, DeleteDocRow,
     DeleteWorkGet, WorkDeletionStep, DeleteWorkVectors, DeleteWorkRows
<1>2. CASE WorkerNext
  BY <1>2 DEF WorkerNext, Dequeue, Acquire, JobStep, AddCommits, AddRaises, BatchDone, BatchTimeout,
     MarkDoneGet, MarkDoneCommit, Rollback, MarkFailedGet, MarkFailedCommit, Unlink, LateEnds, JobOnly
<1>3. CASE LifespanNext
  BY <1>3 DEF LifespanNext, Start, StartWithoutRedis, RecoverOne, RecoverFails, RecoverDone, Crash
<1>4. CASE UNCHANGED vars
  BY <1>4 DEF vars
<1>5. QED
  BY <1>1, <1>2, <1>3, <1>4 DEF Next


\* Unlink removes the file of its job at most.
LEMMA UnlinkEffect ==
  ASSUME TypeOK, NEW w \in Slots, Unlink(w)
  PROVE  /\ job[w].doc \in Docs
         /\ file'[job[w].doc] \in {FALSE, file[job[w].doc]}
         /\ \A d \in Docs \ {job[w].doc} : file'[d] = file[d]
<1>1. job[w].doc \in Docs
  BY RunningJob DEF Unlink, UnlinkPC
<1>2. QED
  BY <1>1, DeleteUploadFileEffect DEF Unlink

\* So no other step than a crash touches the uploads.
LEMMA OtherStepKeepsUploads ==
  ASSUME [Next]_vars, ~Crash, ~ \E e \in Docs : UploadStart(e) \/ UploadStep(e)
  PROVE  upload' = upload
BY DEF Next, HandlerNext, DeleteDocGet, DeletionStep, DeleteDocVectors, DeleteDocRow,
   DeleteWorkGet, WorkDeletionStep, DeleteWorkVectors, DeleteWorkRows,
   WorkerNext, Dequeue, Acquire, JobStep, AddCommits, AddRaises, BatchDone, BatchTimeout,
   MarkDoneGet, MarkDoneCommit, Rollback, MarkFailedGet, MarkFailedCommit, Unlink, LateEnds, JobOnly,
   LifespanNext, Start, StartWithoutRedis, RecoverOne, RecoverFails, RecoverDone, vars, handlers

\* A step of a job keeps its document or ends it, and leaves the other jobs alone.
LEMMA JobStepKeepsDoc ==
  ASSUME TypeOK, NEW w \in Slots, JobStep(w)
  PROVE  \A v \in Slots : \/ job'[v] = job[v]
                          \/ v = w /\ (job'[v].pc = "idle" \/ job'[v].doc = job[v].doc)
<1> DEFINE Kept == \A v \in Slots :
                     \/ job'[v] = job[v]
                     \/ v = w /\ (job'[v].pc = "idle" \/ job'[v].doc = job[v].doc)
<1>1. job \in [Slots -> JobType]
  BY DEF TypeOK
<1>2. job[w].pc # "idle"
  BY DEF JobStep, AddCommits, AddRaises, BatchDone, BatchTimeout, MarkDoneGet,
     MarkDoneCommit, Rollback, MarkFailedGet, MarkFailedCommit, Unlink, UnlinkPC
<1>3. job[w] \in [pc : JobPC, doc : Docs, written : Nat, seen : RowType \cup {NotRead}]
  BY <1>2, RunningJob
<1>4. ASSUME NEW new, SetJob(w, new), new.pc = "idle" \/ new.doc = job[w].doc
      PROVE  Kept
  BY <1>1, <1>4 DEF SetJob
<1>5. ASSUME NEW pc, SetPC(w, pc)
      PROVE  Kept
  BY <1>3, <1>4, <1>5 DEF SetPC
<1>6. ASSUME SetJob(w, IdleJob)
      PROVE  Kept
  BY <1>4, <1>6 DEF IdleJob
<1>7. ASSUME NEW pc, NEW seen, SetJob(w, [job[w] EXCEPT !.pc = pc, !.seen = seen])
      PROVE  Kept
  BY <1>3, <1>4, <1>7
<1>8. CASE AddCommits(w) \/ AddRaises(w) \/ BatchTimeout(w) \/ Rollback(w) \/ Unlink(w)
  BY <1>5, <1>6, <1>8 DEF AddCommits, AddRaises, BatchTimeout, Rollback, Unlink, SetPC
<1>9. CASE BatchDone(w)
  <2>1. PICK n, pc : SetJob(w, [job[w] EXCEPT !.written = n, !.pc = pc])
    BY <1>9 DEF BatchDone
  <2>2. QED
    BY <1>3, <1>4, <2>1
<1>10. CASE MarkDoneGet(w) \/ MarkFailedGet(w)
  BY <1>5, <1>6, <1>7, <1>10 DEF MarkDoneGet, MarkFailedGet
<1>11. CASE MarkDoneCommit(w) \/ MarkFailedCommit(w)
  BY <1>5, <1>6, <1>11 DEF MarkDoneCommit, MarkFailedCommit
<1>12. QED
  BY <1>8, <1>9, <1>10, <1>11 DEF JobStep

\* A document gets a job only from an upload that saved its file, or from a
\* recovery that found it.
LEMMA NewlyHeld ==
  ASSUME TypeOK, [Next]_vars, NEW d \in Docs, Held(d)'
  PROVE  Held(d) \/ upload[d] = "saved" \/ file[d]
<1> USE DEF db, durable, handlers, lifespan, worker
<1>1. queue \in Seq(Docs) /\ waiting \in Seq(Docs) /\ job \in [Slots -> JobType]
  BY DEF TypeOK
<1>2. ASSUME UNCHANGED <<queue, waiting, job>>
      PROVE  Held(d)
  BY <1>2 DEF Held, Running, Elements
<1>3. ASSUME NEW e \in Docs, EnqueueIngest(e) \/ EnqueueIngestRaises(e), UNCHANGED <<waiting, job>>
      PROVE  Held(d) \/ d = e
  <2>1. queue' \in {queue, Append(queue, e), Append(Append(queue, e), e)}
    BY <1>3, Zenon DEF EnqueueIngest, EnqueueIngestRaises
  <2>2. /\ Append(queue, e) \in Seq(Docs)
        /\ Elements(Append(queue, e)) = Elements(queue) \cup {e}
    BY <1>1, AppendElements
  <2>3. Elements(Append(Append(queue, e), e)) = Elements(queue) \cup {e}
    <3> DEFINE once == Append(queue, e)
    <3>1. once \in Seq(Docs)
      BY <2>2
    <3> HIDE DEF once
    <3>2. Elements(Append(once, e)) = Elements(once) \cup {e}
      BY <3>1, AppendElements
    <3> USE DEF once
    <3>3. QED
      BY <2>2, <3>2
  <2>4. Elements(queue') \subseteq Elements(queue) \cup {e}
    BY <2>1, <2>2, <2>3
  <2>5. Elements(queue)' = Elements(queue') /\ Elements(waiting)' = Elements(waiting)
    BY <1>3 DEF Elements
  <2>6. Running(d)' => Running(d)
    BY <1>3 DEF Running
  <2>7. QED
    BY <2>4, <2>5, <2>6 DEF Held
<1>4. CASE HandlerNext
  <2>1. ASSUME NEW e \in Docs, UploadEnqueue(e)
        PROVE  Held(d) \/ upload[d] = "saved"
    BY <1>3, <2>1 DEF UploadEnqueue, UploadOnly
  <2>2. CASE ~ \E e \in Docs : UploadEnqueue(e)
    <3>1. UNCHANGED <<queue, waiting, job>>
      BY <1>4, <2>2 DEF HandlerNext, UploadStart, UploadStep, UploadInsert, UploadSave, UploadPushRaises,
         UploadMarkFailed, UploadOnly, DeleteDocGet, DeletionStep, DeleteDocVectors, DeleteDocRow,
         DeleteWorkGet, WorkDeletionStep, DeleteWorkVectors, DeleteWorkRows
    <3>2. QED
      BY <1>2, <3>1
  <2>3. QED
    BY <2>1, <2>2
<1>5. CASE Dequeue
  <2>1. /\ Head(queue) \in Docs /\ Tail(queue) \in Seq(Docs)
        /\ Elements(queue) = {Head(queue)} \cup Elements(Tail(queue))
    BY <1>1, <1>5, HeadTailElements DEF Dequeue
  <2>2. Elements(Append(waiting, Head(queue))) = Elements(waiting) \cup {Head(queue)}
    BY <1>1, <2>1, AppendElements
  <2>3. waiting' \in {waiting, Append(waiting, Head(queue))} /\ queue' = Tail(queue)
    BY <1>5, Zenon DEF Dequeue
  <2>4. Elements(queue)' = Elements(queue') /\ Elements(waiting)' = Elements(waiting')
    BY DEF Elements
  <2>5. Elements(queue)' \cup Elements(waiting)' \subseteq Elements(queue) \cup Elements(waiting)
    BY <2>1, <2>2, <2>3, <2>4
  <2>6. Running(d)' => Running(d)
    BY <1>5 DEF Running, Dequeue
  <2>7. QED
    BY <2>5, <2>6 DEF Held
<1>6. ASSUME NEW w \in Slots, Acquire(w)
      PROVE  Held(d)
  <2>1. Elements(waiting) = {Head(waiting)} \cup Elements(Tail(waiting))
    BY <1>1, <1>6, HeadTailElements DEF Acquire
  <2>2. queue' = queue /\ waiting' = Tail(waiting)
    BY <1>6 DEF Acquire
  <2>3. Elements(queue)' = Elements(queue) /\ Elements(waiting)' = Elements(Tail(waiting))
    BY <2>2 DEF Elements
  <2>4. \A v \in Slots : job'[v] = job[v] \/ (v = w /\ job'[v].doc = Head(waiting))
    BY <1>1, <1>6 DEF Acquire, SetJob
  <2>5. Running(d)' => Running(d) \/ d = Head(waiting)
    BY <2>4 DEF Running
  <2>6. QED
    BY <2>1, <2>3, <2>5 DEF Held
<1>7. ASSUME NEW w \in Slots, JobStep(w)
      PROVE  Held(d)
  <2>1. job[w].pc # "idle" /\ queue' = queue /\ waiting' = waiting
    BY <1>7 DEF JobStep, AddCommits, AddRaises, BatchDone, BatchTimeout, MarkDoneGet,
       MarkDoneCommit, Rollback, MarkFailedGet, MarkFailedCommit, Unlink, UnlinkPC, JobOnly
  <2>2. job[w] \in [pc : JobPC, doc : Docs, written : Nat, seen : RowType \cup {NotRead}]
    BY <2>1, RunningJob
  <2>3. \A v \in Slots : \/ job'[v] = job[v]
                         \/ v = w /\ (job'[v].pc = "idle" \/ job'[v].doc = job[v].doc)
    BY <1>7, JobStepKeepsDoc
  <2>4. Running(d)' => Running(d)
    BY <2>1, <2>3 DEF Running
  <2>5. QED
    BY <2>1, <2>4 DEF Held, Elements
<1>8. ASSUME NEW b \in Batches, LateEnds(b)
      PROVE  Held(d)
  BY <1>2, <1>8 DEF LateEnds
<1>9. CASE LifespanNext
  <2>1. ASSUME NEW e \in Docs, RecoverOne(e) \/ RecoverFails(e)
        PROVE  Held(d) \/ file[d]
    BY <1>2, <1>3, <2>1 DEF RecoverOne, RecoverFails
  <2>2. CASE Crash
    BY <1>1, <2>2 DEF Crash, Held, Running, Elements, NoJobs, IdleJob
  <2>3. CASE Start \/ StartWithoutRedis \/ RecoverDone
    BY <1>2, <2>3 DEF Start, StartWithoutRedis, RecoverDone
  <2>4. QED
    BY <1>9, <2>1, <2>2, <2>3 DEF LifespanNext
<1>10. CASE UNCHANGED vars
  BY <1>2, <1>10 DEF vars
<1>11. QED
  BY <1>4, <1>5, <1>6, <1>7, <1>8, <1>9, <1>10 DEF Next, WorkerNext

\* Admitted is inductive.
LEMMA AdmittedStep ==
  ASSUME TypeOK, \A d \in Docs : Admitted(d), [Next]_vars, NEW d \in Docs
  PROVE  Admitted(d)'
<1>0. \/ status'[d] = status[d]
      \/ status[d] = "none" /\ status'[d] = "pending" /\ Inserted(d)
      \/ RowExists(d) /\ status'[d] \in {"done", "failed", "deleted"}
  BY StatusStep
<1>1. /\ status'[d] = "none" => status[d] = "none"
      /\ status[d] # "none" => status'[d] # "none"
  BY <1>0 DEF RowExists, DocumentStatus
<1>2. Admitted(d)
  OBVIOUS
<1>3. status'[d] = "none" => ~ Held(d)'
  BY <1>1, <1>2, NewlyHeld DEF Admitted
<1>4. CASE \E e \in Docs : UploadStart(e) \/ UploadStep(e)
  <2>1. PICK e \in Docs : UploadStart(e) \/ UploadStep(e)
    BY <1>4
  <2>2. CASE e # d
    <3>1. upload'[d] = upload[d] /\ file'[d] = file[d]
      BY <2>1, <2>2, UploadStepEffect
    <3>2. upload[d] = "checked" => status'[d] = "none"
      BY <1>0, <1>2, <3>1 DEF Admitted, Inserted, RowExists, DocumentStatus
    <3>3. QED
      BY <1>1, <1>2, <1>3, <3>1, <3>2 DEF Admitted
  <2>3. CASE e = d
    BY <1>1, <1>2, <1>3, <2>1, <2>3, UploadStepEffect DEF Admitted
  <2>4. QED
    BY <2>2, <2>3
<1>5. CASE ~ \E e \in Docs : UploadStart(e) \/ UploadStep(e)
  <2>1. upload'[d] = upload[d] \/ upload'[d] = "idle"
    BY <1>5, OtherStepEffect DEF NoUploads
  <2>2. file'[d] = file[d] \/ file'[d] = FALSE
    BY <1>5, OtherStepEffect, UnlinkEffect
  <2>3. upload'[d] = "checked" => status'[d] = "none"
    BY <1>0, <1>2, <2>1 DEF Admitted, Inserted, RowExists, DocumentStatus
  <2>4. QED
    BY <1>1, <1>2, <1>3, <2>1, <2>2, <2>3 DEF Admitted
<1>6. QED
  BY <1>4, <1>5

\* The verdict a job commits is durable: a settled or deleted row stays so.
LEMMA SettledStep ==
  ASSUME TypeOK, \A d \in Docs : Admitted(d), [Next]_vars,
         NEW d \in Docs, Held(d), status[d] # "pending"
  PROVE  status'[d] # "pending"
<1>1. \/ status'[d] = status[d]
      \/ status[d] = "none"
      \/ status'[d] \in {"done", "failed", "deleted"}
  BY StatusStep
<1>2. Admitted(d)
  OBVIOUS
<1>3. QED
  BY <1>1, <1>2 DEF Admitted

\* One step of the job in slot w establishes or keeps SettledFirst(w).
LEMMA OwnStepSettles ==
  ASSUME TypeOK, NEW w \in Slots, SettledFirst(w), Acquire(w) \/ JobStep(w)
  PROVE  SettledFirst(w)'
<1> DEFINE d == job[w].doc
<1>1. job \in [Slots -> JobType]
  BY DEF TypeOK
<1>2. ASSUME NEW new, SetJob(w, new),
             new.pc \notin {"unlink", "failUnlink", "doneCommit", "failCommit"}
      PROVE  SettledFirst(w)'
  BY <1>1, <1>2 DEF SetJob, SettledFirst, UnlinkPC
<1>3. CASE Acquire(w)
  BY <1>2, <1>3 DEF Acquire
<1>4. CASE JobStep(w)
  <2>1. job[w].pc # "idle"
    BY <1>4 DEF JobStep, AddCommits, AddRaises, BatchDone, BatchTimeout, MarkDoneGet,
       MarkDoneCommit, Rollback, MarkFailedGet, MarkFailedCommit, Unlink, UnlinkPC
  <2>2. job[w] \in [pc : JobPC, doc : Docs, written : Nat, seen : RowType \cup {NotRead}]
    BY <2>1, RunningJob
  <2>3. ASSUME NEW pc, SetPC(w, pc),
               pc \notin {"unlink", "failUnlink", "doneCommit", "failCommit"}
        PROVE  SettledFirst(w)'
    BY <1>2, <2>2, <2>3 DEF SetPC
  <2>4. ASSUME NEW pc \in UnlinkPC, SetPC(w, pc), status'[d] # "pending"
        PROVE  SettledFirst(w)'
    BY <1>1, <2>2, <2>4 DEF SetPC, SetJob, SettledFirst, UnlinkPC
  <2>5. ASSUME NEW pc \in {"doneCommit", "failCommit"}, status' = status,
               SetJob(w, [job[w] EXCEPT !.pc = pc, !.seen = Row(d)])
        PROVE  SettledFirst(w)'
    BY <1>1, <2>2, <2>5 DEF SetJob, SettledFirst, UnlinkPC, Row
  <2>6. ASSUME SetJob(w, IdleJob)
        PROVE  SettledFirst(w)'
    BY <1>2, <2>6 DEF IdleJob
  <2>7. FailPC(w) \in {"rollback", "failGet"} /\ "unlink" \in UnlinkPC /\ "failUnlink" \in UnlinkPC
    BY DEF FailPC, UnlinkPC
  <2>8. CASE AddCommits(w) \/ AddRaises(w) \/ BatchTimeout(w) \/ Rollback(w) \/ Unlink(w)
    BY <2>3, <2>6, <2>7, <2>8 DEF AddCommits, AddRaises, BatchTimeout, Rollback, Unlink, SetPC
  <2>9. CASE BatchDone(w)
    <3> DEFINE n  == NextBatch(d, job[w].written)
               pc == IF n < NumChunks[d] THEN "adding" ELSE "doneGet"
    <3>1. SetJob(w, [job[w] EXCEPT !.written = n, !.pc = pc])
      BY <2>9 DEF BatchDone
    <3>2. pc \in {"adding", "doneGet"}
      OBVIOUS
    <3> HIDE DEF n, pc
    <3>3. QED
      BY <1>2, <2>2, <3>1, <3>2
  <2>10. CASE MarkDoneGet(w) \/ MarkFailedGet(w)
    <3>1. status' = status
      BY <2>10 DEF MarkDoneGet, MarkFailedGet, db
    <3>2. ~RowExists(d) => status'[d] # "pending"
      BY <3>1 DEF RowExists, DocumentStatus
    <3>3. QED
      BY <2>3, <2>4, <2>5, <2>6, <2>7, <2>10, <3>1, <3>2 DEF MarkDoneGet, MarkFailedGet
  <2>11. CASE MarkDoneCommit(w)
    <3>1. CASE UpdateRow(d, job[w].seen, [status |-> "done", chunks |-> job[w].written])
      <4>1. status'[d] = "done" \/ (job[w].seen.status = "done" /\ status'[d] = status[d])
        BY <2>2, <3>1, UpdateRowStatus
      <4>2. job[w].pc = "doneCommit"
        BY <2>11 DEF MarkDoneCommit
      <4>3. status'[d] # "pending"
        BY <4>1, <4>2 DEF SettledFirst
      <4>4. QED
        BY <2>3, <2>4, <2>7, <2>11, <4>3 DEF MarkDoneCommit
    <3>2. CASE ~RowExists(d) /\ UNCHANGED db
      <4>1. status'[d] # "pending"
        BY <3>2 DEF RowExists, DocumentStatus, db
      <4>2. QED
        BY <2>3, <2>4, <2>7, <2>11, <4>1 DEF MarkDoneCommit
    <3>3. CASE SetPC(w, FailPC(w))
      BY <2>3, <2>7, <3>3
    <3>4. QED
      BY <2>11, <3>1, <3>2, <3>3 DEF MarkDoneCommit
  <2>12. CASE MarkFailedCommit(w)
    <3>1. CASE UpdateRow(d, job[w].seen, [status |-> "failed", chunks |-> 0])
      <4>1. status'[d] = "failed" \/ (job[w].seen.status = "failed" /\ status'[d] = status[d])
        BY <2>2, <3>1, UpdateRowStatus
      <4>2. job[w].pc = "failCommit"
        BY <2>12 DEF MarkFailedCommit
      <4>3. status'[d] # "pending"
        BY <4>1, <4>2 DEF SettledFirst
      <4>4. QED
        BY <2>4, <2>6, <2>7, <2>12, <4>3 DEF MarkFailedCommit
    <3>2. CASE ~RowExists(d) /\ UNCHANGED db
      <4>1. status'[d] # "pending"
        BY <3>2 DEF RowExists, DocumentStatus, db
      <4>2. QED
        BY <2>4, <2>6, <2>7, <2>12, <4>1 DEF MarkFailedCommit
    <3>3. CASE SetJob(w, IdleJob)
      BY <2>6, <3>3
    <3>4. QED
      BY <2>12, <3>1, <3>2, <3>3 DEF MarkFailedCommit
  <2>13. QED
    BY <1>4, <2>8, <2>9, <2>10, <2>11, <2>12 DEF JobStep
<1>5. QED
  BY <1>3, <1>4

\* SettledFirst is inductive, given Admitted.
LEMMA SettledFirstStep ==
  ASSUME TypeOK, \A d \in Docs : Admitted(d), [Next]_vars, NEW w \in Slots, SettledFirst(w)
  PROVE  SettledFirst(w)'
<1>1. CASE Acquire(w) \/ JobStep(w)
  BY <1>1, OwnStepSettles
<1>2. CASE job'[w] = job[w]
  <2>1. CASE job[w].pc = "idle"
    BY <1>2, <2>1 DEF SettledFirst, UnlinkPC
  <2>2. CASE job[w].pc # "idle"
    <3>1. job[w].doc \in Docs /\ Held(job[w].doc)
      BY <2>2, RunningJob DEF Held, Running
    <3>2. status[job[w].doc] # "pending" => status'[job[w].doc] # "pending"
      BY <3>1, SettledStep
    <3>3. QED
      BY <1>2, <3>2 DEF SettledFirst
  <2>3. QED
    BY <2>1, <2>2
<1>3. CASE job'[w] = IdleJob
  BY <1>3 DEF SettledFirst, UnlinkPC, IdleJob
<1>4. \/ Acquire(w) \/ JobStep(w)
      \/ job'[w] = job[w] \/ job'[w] = IdleJob
  <2>1. ASSUME NEW v \in Slots, v # w, Acquire(v) \/ JobStep(v)
        PROVE  job'[w] = job[w] \/ job'[w] = IdleJob
    <3>1. CASE JobStep(v)
      BY <2>1, <3>1, JobStepKeepsDoc
    <3>2. CASE Acquire(v)
      BY <2>1, <3>2 DEF Acquire, SetJob, TypeOK
    <3>3. QED
      BY <2>1, <3>1, <3>2
  <2>2. CASE HandlerNext
    BY <2>2 DEF HandlerNext, UploadStart, UploadStep, UploadInsert, UploadSave, UploadEnqueue,
       UploadPushRaises, UploadMarkFailed, UploadOnly, DeleteDocGet, DeletionStep, DeleteDocVectors,
       DeleteDocRow, DeleteWorkGet, WorkDeletionStep, DeleteWorkVectors, DeleteWorkRows, worker
  <2>3. CASE Dequeue \/ \E b \in Batches : LateEnds(b)
    BY <2>3 DEF Dequeue, LateEnds
  <2>4. CASE LifespanNext
    BY <2>4 DEF LifespanNext, Start, StartWithoutRedis, RecoverOne, RecoverFails, RecoverDone,
       Crash, worker, NoJobs
  <2>5. CASE UNCHANGED vars
    BY <2>5 DEF vars, worker
  <2>6. QED
    BY <2>1, <2>2, <2>3, <2>4, <2>5 DEF Next, WorkerNext
<1>5. QED
  BY <1>1, <1>2, <1>3, <1>4

\* Nothing has happened yet in the initial state.
LEMMA InitDurableOrder ==
  Init => DurableOrder
BY DEF Init, DurableOrder, Admitted, SettledFirst, UnlinkPC, Held, Running, Elements, NoUploads, NoJobs, IdleJob

\* The durable order of an ingestion holds whatever fails and whenever: row before
\* file before job, verdict before unlink.
THEOREM DurableOrderHolds == Spec => []DurableOrder
<1>1. TypeOK /\ DurableOrder /\ [Next]_vars => DurableOrder'
  BY AdmittedStep, SettledFirstStep DEF DurableOrder
<1>2. QED
  BY <1>1, InitDurableOrder, TypeCorrect, PTL DEF Spec

\* The uploaded text is never unlinked while its document is pending, except by the
\* upload that could not enqueue it: after any failures at any moment, what a
\* recovery finds pending it can still ingest.
THEOREM InputIsKept == Spec => InputKept
<1> DEFINE Keeps == \A d \in Docs : status[d] = "pending" /\ file[d] /\ ~file'[d]
                                     => upload[d] = "pushLost"
<1>1. TypeOK /\ DurableOrder /\ [Next]_vars => [Keeps]_vars
  <2> SUFFICES ASSUME TypeOK, DurableOrder, [Next]_vars, NEW d \in Docs,
                      status[d] = "pending", file[d], ~file'[d]
               PROVE  upload[d] = "pushLost"
    OBVIOUS
  <2>1. CASE \E e \in Docs : UploadStart(e) \/ UploadStep(e)
    BY <2>1, UploadStepEffect DEF DurableOrder, Admitted
  <2>2. CASE ~ \E e \in Docs : UploadStart(e) \/ UploadStep(e)
    <3>1. PICK w \in Slots : Unlink(w)
      BY <2>2, OtherStepEffect
    <3>2. status[job[w].doc] # "pending"
      BY <3>1 DEF Unlink, DurableOrder, SettledFirst
    <3>3. file'[d] = file[d]
      BY <3>1, <3>2, UnlinkEffect
    <3>4. QED
      BY <3>3
  <2>3. QED
    BY <2>1, <2>2
<1>2. QED
  BY <1>1, TypeCorrect, DurableOrderHolds, PTL DEF Spec, InputKept

-----------------------------------------------------------------------------
(* No job is lost *)

\* What EnqueueIngest pushes is held, and what was held stays so.
LEMMA EnqueuedIsHeld ==
  ASSUME TypeOK, NEW e \in Docs, EnqueueIngest(e) \/ EnqueueIngestRaises(e),
         UNCHANGED <<waiting, job>>
  PROVE  /\ EnqueueIngest(e) => Held(e)'
         /\ \A d \in Docs : Held(d) => Held(d)'
<1>1. queue \in Seq(Docs)
  BY DEF TypeOK
<1> DEFINE once == Append(queue, e)
           twice == Append(once, e)
<1>2. once \in Seq(Docs) /\ Elements(once) = Elements(queue) \cup {e}
  BY <1>1, AppendElements
<1>3. Elements(twice) = Elements(once) \cup {e}
  <2> HIDE DEF once
  <2>1. QED
    BY <1>2, AppendElements
<1>4. /\ queue' \in {queue, once, twice}
      /\ EnqueueIngest(e) => queue' \in {once, twice}
  BY Zenon DEF EnqueueIngest, EnqueueIngestRaises
<1>5. Elements(queue)' = Elements(queue')
  BY DEF Elements
<1> HIDE DEF once, twice
<1>6. /\ Elements(queue) \subseteq Elements(queue)'
      /\ EnqueueIngest(e) => e \in Elements(queue)'
  BY <1>2, <1>3, <1>4, <1>5
<1>7. Elements(waiting)' = Elements(waiting) /\ \A d \in Docs : Running(d)' <=> Running(d)
  BY DEF Elements, Running
<1>8. QED
  BY <1>6, <1>7 DEF Held

\* A job that ends has settled its row, or found it gone.
LEMMA JobEndsSettled ==
  ASSUME "db" \notin Faults, TypeOK, NEW w \in Slots, SettledFirst(w), JobStep(w),
         job'[w].pc = "idle"
  PROVE  status'[job[w].doc] # "pending"
<1> DEFINE d == job[w].doc
<1>1. job \in [Slots -> JobType]
  BY DEF TypeOK
<1>2. job[w].pc # "idle"
  BY DEF JobStep, AddCommits, AddRaises, BatchDone, BatchTimeout, MarkDoneGet,
     MarkDoneCommit, Rollback, MarkFailedGet, MarkFailedCommit, Unlink, UnlinkPC
<1>3. job[w] \in [pc : JobPC, doc : Docs, written : Nat, seen : RowType \cup {NotRead}]
  BY <1>2, RunningJob
<1>4. ASSUME NEW pc, SetPC(w, pc), pc # "idle"
      PROVE  FALSE
  BY <1>1, <1>3, <1>4 DEF SetPC, SetJob
<1>5. FailPC(w) # "idle"
  BY DEF FailPC
<1>6. ASSUME NEW pc, NEW seen, SetJob(w, [job[w] EXCEPT !.pc = pc, !.seen = seen]), pc # "idle"
      PROVE  FALSE
  BY <1>1, <1>3, <1>6 DEF SetJob
<1>7. CASE AddCommits(w) \/ AddRaises(w) \/ BatchTimeout(w) \/ Rollback(w)
  BY <1>4, <1>5, <1>7 DEF AddCommits, AddRaises, BatchTimeout, Rollback
<1>8. CASE BatchDone(w)
  <2> DEFINE n  == NextBatch(d, job[w].written)
             pc == IF n < NumChunks[d] THEN "adding" ELSE "doneGet"
  <2>1. SetJob(w, [job[w] EXCEPT !.written = n, !.pc = pc])
    BY <1>8 DEF BatchDone
  <2>2. pc # "idle"
    OBVIOUS
  <2> HIDE DEF n, pc
  <2>3. QED
    BY <1>1, <1>3, <2>1, <2>2 DEF SetJob
<1>9. CASE MarkDoneGet(w) \/ MarkDoneCommit(w)
  BY <1>4, <1>5, <1>6, <1>9 DEF MarkDoneGet, MarkDoneCommit
<1>10. CASE MarkFailedGet(w)
  BY <1>4, <1>6, <1>10 DEF MarkFailedGet, Fault
<1>11. CASE MarkFailedCommit(w)
  <2>1. CASE SetPC(w, "failUnlink")
    BY <1>4, <2>1
  <2>2. CASE ~RowExists(d) /\ UNCHANGED db
    BY <2>2 DEF RowExists, DocumentStatus, db
  <2>3. CASE UpdateRow(d, job[w].seen, [status |-> "failed", chunks |-> 0])
    <3>1. status'[d] = "failed" \/ (job[w].seen.status = "failed" /\ status'[d] = status[d])
      BY <1>3, <2>3, UpdateRowStatus
    <3>2. QED
      BY <1>11, <3>1 DEF MarkFailedCommit, SettledFirst
  <2>4. QED
    BY <1>11, <2>1, <2>2, <2>3 DEF MarkFailedCommit, Fault
<1>12. CASE Unlink(w)
  BY <1>12 DEF Unlink, SettledFirst, db
<1>13. QED
  BY <1>7, <1>8, <1>9, <1>10, <1>11, <1>12 DEF JobStep

\* A job leaves the queue for the waiting list, that for a permit, and a permit only
\* when its row is settled, unless a BRPOP reply is lost or the database refuses to
\* record a failure.
LEMMA HeldStays ==
  ASSUME "db" \notin Faults, "redis_pop" \notin Faults,
         TypeOK, DurableOrder, [Next]_vars, ~Crash,
         NEW d \in Docs, Held(d), status'[d] = "pending"
  PROVE  Held(d)'
<1> USE DEF db, durable, handlers, lifespan, worker
<1>1. queue \in Seq(Docs) /\ waiting \in Seq(Docs) /\ job \in [Slots -> JobType]
  BY DEF TypeOK
<1>2. ASSUME UNCHANGED <<queue, waiting, job>>
      PROVE  Held(d)'
  BY <1>2 DEF Held, Running, Elements
<1>3. CASE HandlerNext
  <2>1. ASSUME NEW e \in Docs, UploadEnqueue(e)
        PROVE  Held(d)'
    BY <2>1, EnqueuedIsHeld DEF UploadEnqueue, UploadOnly
  <2>2. CASE ~ \E e \in Docs : UploadEnqueue(e)
    <3>1. UNCHANGED <<queue, waiting, job>>
      BY <1>3, <2>2 DEF HandlerNext, UploadStart, UploadStep, UploadInsert, UploadSave, UploadPushRaises,
         UploadMarkFailed, UploadOnly, DeleteDocGet, DeletionStep, DeleteDocVectors, DeleteDocRow,
         DeleteWorkGet, WorkDeletionStep, DeleteWorkVectors, DeleteWorkRows
    <3>2. QED
      BY <1>2, <3>1
  <2>3. QED
    BY <2>1, <2>2
<1>4. CASE Dequeue
  <2>1. /\ Head(queue) \in Docs
        /\ Elements(queue) = {Head(queue)} \cup Elements(Tail(queue))
    BY <1>1, <1>4, HeadTailElements DEF Dequeue
  <2>2. Elements(Append(waiting, Head(queue))) = Elements(waiting) \cup {Head(queue)}
    BY <1>1, <2>1, AppendElements
  <2>3. waiting' = Append(waiting, Head(queue)) /\ queue' = Tail(queue)
    BY <1>4, Zenon DEF Dequeue, Fault
  <2>4. Elements(queue)' = Elements(queue') /\ Elements(waiting)' = Elements(waiting')
    BY DEF Elements
  <2>5. Elements(queue) \cup Elements(waiting) \subseteq Elements(queue)' \cup Elements(waiting)'
    BY <2>1, <2>2, <2>3, <2>4
  <2>6. Running(d) => Running(d)'
    BY <1>4 DEF Running, Dequeue
  <2>7. QED
    BY <2>5, <2>6 DEF Held
<1>5. ASSUME NEW w \in Slots, Acquire(w)
      PROVE  Held(d)'
  <2>1. Elements(waiting) = {Head(waiting)} \cup Elements(Tail(waiting))
    BY <1>1, <1>5, HeadTailElements DEF Acquire
  <2>2. queue' = queue /\ waiting' = Tail(waiting) /\ job[w].pc = "idle"
    BY <1>5 DEF Acquire
  <2>3. Elements(queue)' = Elements(queue) /\ Elements(waiting)' = Elements(Tail(waiting))
    BY <2>2 DEF Elements
  <2>4. /\ job'[w].pc # "idle" /\ job'[w].doc = Head(waiting)
        /\ \A v \in Slots \ {w} : job'[v] = job[v]
    BY <1>1, <1>5 DEF Acquire, SetJob
  <2>5. Running(d) \/ d = Head(waiting) => Running(d)'
    BY <2>2, <2>4 DEF Running
  <2>6. QED
    BY <2>1, <2>3, <2>5 DEF Held
<1>6. ASSUME NEW w \in Slots, JobStep(w)
      PROVE  Held(d)'
  <2>1. queue' = queue /\ waiting' = waiting
    BY <1>6 DEF JobStep, AddCommits, AddRaises, BatchDone, BatchTimeout, MarkDoneGet,
       MarkDoneCommit, Rollback, MarkFailedGet, MarkFailedCommit, Unlink, JobOnly
  <2>2. job'[w].pc = "idle" => status'[job[w].doc] # "pending"
    BY <1>6, JobEndsSettled DEF DurableOrder
  <2>3. Running(d) => Running(d)'
    <3>1. SUFFICES ASSUME NEW v \in Slots, job[v].pc # "idle", job[v].doc = d
                   PROVE  Running(d)'
      BY DEF Running
    <3>2. CASE job'[v] = job[v]
      BY <3>1, <3>2 DEF Running
    <3>3. CASE v = w /\ job'[v].pc = "idle"
      BY <2>2, <3>1, <3>3
    <3>4. CASE job'[v].pc # "idle" /\ job'[v].doc = d
      BY <3>4 DEF Running
    <3>5. QED
      BY <1>6, <3>1, <3>2, <3>3, <3>4, JobStepKeepsDoc
  <2>4. QED
    BY <2>1, <2>3 DEF Held, Elements
<1>7. ASSUME NEW b \in Batches, LateEnds(b)
      PROVE  Held(d)'
  BY <1>2, <1>7 DEF LateEnds
<1>8. CASE LifespanNext
  <2>1. ASSUME NEW e \in Docs, RecoverOne(e) \/ RecoverFails(e)
        PROVE  Held(d)'
    BY <1>2, <2>1, EnqueuedIsHeld DEF RecoverOne, RecoverFails
  <2>2. CASE Start \/ StartWithoutRedis \/ RecoverDone
    BY <1>2, <2>2 DEF Start, StartWithoutRedis, RecoverDone
  <2>3. QED
    BY <1>8, <2>1, <2>2 DEF LifespanNext
<1>9. CASE UNCHANGED vars
  BY <1>2, <1>9 DEF vars
<1>10. QED
  BY <1>3, <1>4, <1>5, <1>6, <1>7, <1>8, <1>9 DEF Next, WorkerNext

\* A push is only known to have failed where Redis may fail.
PushLostHasCause ==
  \A d \in Docs : upload[d] = "pushLost" => "redis_push" \in Faults

LEMMA PushLostStep ==
  ASSUME TypeOK, PushLostHasCause, [Next]_vars
  PROVE  PushLostHasCause'
<1> SUFFICES ASSUME NEW d \in Docs, upload'[d] = "pushLost", upload[d] # "pushLost"
             PROVE  "redis_push" \in Faults
  BY DEF PushLostHasCause
<1>1. PICK e \in Docs : UploadStart(e) \/ UploadStep(e)
  BY OtherStepEffect DEF NoUploads
<1>2. e = d
  BY <1>1, UploadStepEffect
<1>3. UploadEnqueue(d)
  BY <1>1, <1>2, UploadStepEffect DEF UploadStart, UploadStep, UploadInsert, UploadSave,
     UploadPushRaises, UploadMarkFailed
<1>4. QED
  BY <1>3 DEF UploadEnqueue, SetUpload, TypeOK, EnqueueIngestRaises, Fault

\* NoJobLost is inductive, given the order of the durable steps.
LEMMA NoJobLostStep ==
  ASSUME "db" \notin Faults, "redis_pop" \notin Faults,
         ~({"redis_push", "disk", "listing"} \subseteq Faults),
         TypeOK, DurableOrder, PushLostHasCause, NoJobLost, [Next]_vars
  PROVE  NoJobLost'
<1> SUFFICES ASSUME app' # "down", redis', NEW d \in Docs, status'[d] = "pending", file'[d]
             PROVE  d \in recover' \/ Accounted(d)'
  BY DEF NoJobLost
<1> USE DEF db, durable, handlers, lifespan, worker
<1>1. Admitted(d)
  BY DEF DurableOrder
<1>2. \/ status[d] = "pending"
      \/ status[d] = "none" /\ upload'[d] \in {"inserted", "rejected"}
  BY StatusStep DEF DurableOrder, Inserted
<1>3. ~Crash
  BY DEF Crash
<1>4. CASE Start
  BY <1>4 DEF Start
<1>5. CASE \E e \in Docs : UploadStart(e) \/ UploadStep(e)
  <2>1. PICK e \in Docs : UploadStart(e) \/ UploadStep(e)
    BY <1>5
  <2>2. app' = app /\ redis' = redis /\ recover' = recover
    BY <2>1 DEF UploadStart, UploadStep, UploadInsert, UploadSave, UploadEnqueue, UploadPushRaises,
       UploadMarkFailed, UploadOnly
  <2>3. CASE e # d
    <3>1. upload'[d] = upload[d] /\ file'[d] = file[d]
      BY <2>1, <2>3, UploadStepEffect
    <3>2. status[d] = "pending" /\ file[d]
      BY <1>1, <1>2, <3>1 DEF Admitted
    <3>3. d \in recover \/ Accounted(d)
      BY <2>2, <3>2 DEF NoJobLost
    <3>4. QED
      BY <1>3, <2>2, <3>1, <3>3, HeldStays DEF Accounted
  <2>4. CASE e = d
    <3>1. CASE upload'[d] \in {"saved", "pushLost", "enqueueFailed"}
      BY <3>1 DEF Accounted
    <3>2. CASE upload[d] = "saved" /\ upload'[d] = "accepted"
      <4>1. UploadEnqueue(d) /\ EnqueueIngest(d)
        BY <2>1, <2>4, <3>2 DEF UploadStart, UploadStep, UploadInsert, UploadSave, UploadEnqueue,
           UploadPushRaises, UploadMarkFailed, SetUpload, TypeOK
      <4>2. Held(d)'
        BY <4>1, EnqueuedIsHeld DEF UploadEnqueue, UploadOnly
      <4>3. QED
        BY <4>2 DEF Accounted
    <3>3. CASE upload[d] = "enqueueFailed" /\ upload'[d] = "rejected"
      <4>1. UploadMarkFailed(d)
        BY <2>1, <2>4, <3>3 DEF UploadStart, UploadStep, UploadInsert, UploadSave, UploadEnqueue,
           UploadPushRaises
      <4>2. status[d] = "pending" /\ status' = status
        <5>1. \/ UpdateRow(d, [status |-> "pending", chunks |-> 0], [status |-> "failed", chunks |-> 0])
              \/ status' = status
          BY <4>1 DEF UploadMarkFailed
        <5>2. status' = status
          BY <5>1, UpdateRowStatus
        <5>3. QED
          BY <5>2
      <4>3. QED
        BY <4>1, <4>2 DEF UploadMarkFailed, RowExists, DocumentStatus, Fault, UpdateRow, TypeOK
    <3>4. CASE upload[d] = "pushLost" /\ upload'[d] = "rejected"
      <4>1. UploadPushRaises(d) /\ DeleteUploadFileRaises(d)
        BY <2>1, <2>4, <3>4 DEF UploadStart, UploadStep, UploadInsert, UploadSave, UploadEnqueue,
           UploadPushRaises, UploadMarkFailed, SetUpload, TypeOK
      <4>2. ~Removed(d)
        BY DEF Removed, TypeOK
      <4>3. {"disk", "listing"} \subseteq Faults
        BY <4>1, <4>2 DEF DeleteUploadFileRaises, Fault
      <4>4. "redis_push" \in Faults
        BY <3>4 DEF PushLostHasCause
      <4>5. QED
        BY <4>3, <4>4
    <3>5. QED
      BY <1>1, <1>2, <2>1, <2>4, <3>1, <3>2, <3>3, <3>4, UploadStepEffect DEF Admitted
  <2>5. QED
    BY <2>3, <2>4
<1>6. CASE ~Start /\ ~ \E e \in Docs : UploadStart(e) \/ UploadStep(e)
  <2>1. app # "down" /\ redis
    BY <1>6 DEF Next, HandlerNext, DeleteDocGet, DeletionStep, DeleteDocVectors, DeleteDocRow,
       DeleteWorkGet, WorkDeletionStep, DeleteWorkVectors, DeleteWorkRows,
       WorkerNext, Dequeue, Acquire, JobStep, AddCommits, AddRaises, BatchDone, BatchTimeout,
       MarkDoneGet, MarkDoneCommit, Rollback, MarkFailedGet, MarkFailedCommit, Unlink, LateEnds, JobOnly,
       LifespanNext, Start, StartWithoutRedis, RecoverOne, RecoverFails, RecoverDone, Crash, vars
  <2>2. upload'[d] = upload[d]
    BY <1>3, <1>6, OtherStepKeepsUploads
  <2>3. file[d]
    BY <1>6, OtherStepEffect, UnlinkEffect
  <2>4. status[d] = "pending"
    BY <1>1, <1>2, <2>3 DEF Admitted
  <2>5. d \in recover \/ Accounted(d)
    BY <2>1, <2>3, <2>4 DEF NoJobLost
  <2>6. CASE Accounted(d)
    BY <1>3, <2>2, <2>6, HeldStays DEF Accounted
  <2>7. CASE d \in recover
    <3>1. CASE recover' = recover
      BY <2>7, <3>1
    <3>2. CASE \E e \in Docs : RecoverOne(e)
      <4>1. PICK e \in Docs : RecoverOne(e)
        BY <3>2
      <4>2. CASE e # d
        BY <2>7, <4>1, <4>2 DEF RecoverOne
      <4>3. CASE e = d
        <5>1. Held(d)'
          BY <2>3, <4>1, <4>3, EnqueuedIsHeld DEF RecoverOne
        <5>2. QED
          BY <5>1 DEF Accounted
      <4>4. QED
        BY <4>2, <4>3
    <3>3. recover' = recover \/ \E e \in Docs : RecoverOne(e)
      BY <1>3, <1>6 DEF Next, HandlerNext, DeleteDocGet, DeletionStep, DeleteDocVectors, DeleteDocRow,
         DeleteWorkGet, WorkDeletionStep, DeleteWorkVectors, DeleteWorkRows,
         WorkerNext, Dequeue, Acquire, JobStep, AddCommits, AddRaises, BatchDone, BatchTimeout,
         MarkDoneGet, MarkDoneCommit, Rollback, MarkFailedGet, MarkFailedCommit, Unlink, LateEnds, JobOnly,
         LifespanNext, StartWithoutRedis, RecoverFails, RecoverDone, vars
    <3>4. QED
      BY <3>1, <3>2, <3>3
  <2>8. QED
    BY <2>5, <2>6, <2>7
<1>7. QED
  BY <1>4, <1>5, <1>6

\* Crashes, lost push replies, lost acknowledgements of commits, failing embeddings,
\* timeouts and disk errors never lose a job: while the server is up with Redis, every
\* pending document whose file is on disk has a job, an upload in flight, or its turn
\* in the recovery to come.  The failures assumed away do lose it until the next
\* restart: a database that refuses to record a failure, a lost BRPOP reply, and the
\* three at once of a push, of the unlink that follows it and of the listing after that,
\* which service.py:256 raises before the row is settled.
THEOREM NoJobIsLost ==
  ASSUME "db" \notin Faults, "redis_pop" \notin Faults,
         ~({"redis_push", "disk", "listing"} \subseteq Faults)
  PROVE  Spec => []NoJobLost
<1>1. Init => PushLostHasCause /\ NoJobLost
  BY DEF Init, NoJobLost, PushLostHasCause, NoUploads
<1>2. /\ TypeOK /\ PushLostHasCause /\ [Next]_vars => PushLostHasCause'
      /\ TypeOK /\ DurableOrder /\ PushLostHasCause /\ NoJobLost /\ [Next]_vars => NoJobLost'
  BY PushLostStep, NoJobLostStep
<1>3. QED
  BY <1>1, <1>2, TypeCorrect, DurableOrderHolds, PTL DEF Spec

-----------------------------------------------------------------------------
(* Rejected uploads *)

\* An upload is rejected before its row is inserted, after the row is gone, or by the
\* commit that settles it.
LEMMA RejectedStep ==
  ASSUME "db" \notin Faults, "ack" \notin Faults, ~({"redis_push", "listing"} \subseteq Faults),
         TypeOK, DurableOrder, PushLostHasCause, RejectedUploadNotPending, [Next]_vars
  PROVE  RejectedUploadNotPending'
<1> SUFFICES ASSUME NEW d \in Docs, upload'[d] = "rejected", status'[d] = "pending"
             PROVE  FALSE
  BY DEF RejectedUploadNotPending
<1> USE DEF db, durable
<1>1. status[d] = "pending"
  BY StatusStep DEF DurableOrder, Inserted
<1>2. upload[d] # "rejected"
  BY <1>1 DEF RejectedUploadNotPending
<1>3. PICK e \in Docs : UploadStart(e) \/ UploadStep(e)
  BY <1>2, OtherStepEffect DEF NoUploads
<1>4. e = d
  BY <1>2, <1>3, UploadStepEffect
<1>5. RowExists(d) /\ upload[d] # "checked"
  BY <1>1 DEF RowExists, DocumentStatus, DurableOrder, Admitted
<1>6. CASE UploadSave(d)
  <2>1. upload'[d] \in {"saved", "saveFailed"}
    BY <1>5, <1>6 DEF UploadSave, SetUpload, Fault, TypeOK
  <2>2. QED
    BY <2>1
<1>7. CASE UploadMarkFailed(d)
  <2>1. UpdateRow(d, [status |-> "pending", chunks |-> 0], [status |-> "failed", chunks |-> 0])
    BY <1>5, <1>7 DEF UploadMarkFailed, Fault
  <2>2. status'[d] = "failed"
    BY <2>1, UpdateRowStatus
  <2>3. QED
    BY <2>2
<1>8. CASE UploadPushRaises(d)
  <2>1. "redis_push" \in Faults
    BY <1>8 DEF UploadPushRaises, PushLostHasCause
  <2>2. upload'[d] = "enqueueFailed"
    BY <2>1, <1>8 DEF UploadPushRaises, DeleteUploadFileRaises, Fault, SetUpload, TypeOK
  <2>3. QED
    BY <2>2
<1>9. CASE UploadStart(d) \/ UploadInsert(d) \/ UploadEnqueue(d)
  BY <1>5, <1>9 DEF UploadStart, UploadInsert, UploadEnqueue, SetUpload, TypeOK
<1>10. QED
  BY <1>3, <1>4, <1>6, <1>7, <1>8, <1>9 DEF UploadStep

\* A client whose upload was answered with an error finds no pending document that
\* nobody will settle, whatever fails but the database and its acknowledgements, whose
\* failure is itself the error that leaves the row, and but a listing of the upload
\* directory after a lost push, which raises before the row is settled.
THEOREM RejectedIsSettled ==
  ASSUME "db" \notin Faults, "ack" \notin Faults, ~({"redis_push", "listing"} \subseteq Faults)
  PROVE  Spec => []RejectedUploadNotPending
<1>1. Init => PushLostHasCause /\ RejectedUploadNotPending
  BY DEF Init, RejectedUploadNotPending, PushLostHasCause, NoUploads
<1>2. /\ TypeOK /\ PushLostHasCause /\ [Next]_vars => PushLostHasCause'
      /\ TypeOK /\ DurableOrder /\ PushLostHasCause /\ RejectedUploadNotPending /\ [Next]_vars
           => RejectedUploadNotPending'
  BY PushLostStep, RejectedStep
<1>3. QED
  BY <1>1, <1>2, TypeCorrect, DurableOrderHolds, PTL DEF Spec
=============================================================================

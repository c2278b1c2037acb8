------------------------- MODULE AsyncUploadProofs -------------------------
(***************************************************************************)
(* Proofs about the upload pipeline, for every set of files, requests,     *)
(* uploads and workers, every batch size and every choice of outcomes      *)
(* (those a theorem excludes are in its ASSUME).                           *)
(***************************************************************************)
EXTENDS AsyncUploadProperties, FiniteSetTheorems, SequenceTheorems, TLAPS

-----------------------------------------------------------------------------
(* Type correctness.                                                       *)

\* Every transaction of the queue leaves a well-formed hash.
LEMMA StatusOperators ==
  ASSUME NEW h \in StatusRecord, NEW n \in Int
  PROVE  /\ InitUploadStatus(h) \in StatusRecord
         /\ AddUploadCounters(h, n) \in StatusRecord
         /\ MoveQueuedToProcessing(h, n) \in StatusRecord
         /\ MoveProcessingToCompleted(h, n) \in StatusRecord
         /\ MoveProcessingToFailed(h, n) \in StatusRecord
<1>0. /\ h.total + n \in Int /\ h.uploaded + n \in Int /\ h.queued + n \in Int
      /\ h.queued - n \in Int /\ h.processing + n \in Int /\ h.processing - n \in Int
      /\ h.completed + n \in Int /\ h.failed + n \in Int
  <2>1. /\ h.total \in Int /\ h.uploaded \in Int /\ h.queued \in Int
        /\ h.processing \in Int /\ h.completed \in Int /\ h.failed \in Int
    BY DEF StatusRecord
  <2> QED
    BY <2>1
<1>1. InitUploadStatus(h) \in StatusRecord
  <2>1. CASE h.status = ""
    <3>1. InitUploadStatus(h) = [h EXCEPT !.status = "queued"]
      BY <2>1 DEF InitUploadStatus
    <3> QED
      BY <3>1 DEF StatusRecord
  <2>2. CASE h.status # ""
    <3>1. InitUploadStatus(h) = [h EXCEPT !.status = h.status]
      BY <2>2 DEF InitUploadStatus
    <3> QED
      BY <3>1 DEF StatusRecord
  <2> QED
    BY <2>1, <2>2
<1>2. AddUploadCounters(h, n) \in StatusRecord
  BY <1>0, Zenon DEF StatusRecord, AddUploadCounters
<1>3. MoveQueuedToProcessing(h, n) \in StatusRecord
  BY <1>0, Zenon DEF StatusRecord, MoveQueuedToProcessing
<1>4. MoveProcessingToCompleted(h, n) \in StatusRecord
  BY <1>0, Zenon DEF StatusRecord, MoveProcessingToCompleted
<1>5. MoveProcessingToFailed(h, n) \in StatusRecord
  BY <1>0, Zenon DEF StatusRecord, MoveProcessingToFailed
<1> QED
  BY <1>1, <1>2, <1>3, <1>4, <1>5

\* A transaction, whatever its outcome, keeps the hashes well-formed.
LEMMA StatusWrite ==
  ASSUME hash \in [Uploads -> StatusRecord], NEW u \in Uploads, NEW o,
         NEW a \in StatusRecord, NEW b \in StatusRecord,
         hash' = [hash EXCEPT ![u] = Result(o, @, a, b)]
  PROVE  hash' \in [Uploads -> StatusRecord]
  BY DEF Result

\* The files of a request are finitely many.
LEMMA FilesOfFinite == \A r : IsFiniteSet(FilesOf(r)) /\ IsFiniteSet(Accepted(r))
  BY ActorsAssumption, FS_Subset DEF FilesOf, Accepted

\* The first state is typed.
LEMMA InitTypeOk == Init => TypeOk
<1> SUFFICES ASSUME Init PROVE TypeOk
  OBVIOUS
<1>1. Absent \in StatusRecord
  BY DEF Absent, StatusRecord
<1>2. IdleWorker \in WorkerRecord
  BY DEF IdleWorker, WorkerRecord, WorkerPcs
<1>3. log \in Seq(Files) /\ Len(log) = 0
  BY DEF Init
<1> QED
  BY <1>1, <1>2, <1>3 DEF Init, TypeOk

\* What an XADD leaves in the stream: so many more messages, all of the one file.
LEMMA SentJobs ==
  ASSUME TypeOk, NEW r \in Requests, NEW f \in Files, EnqueueProcessingJob(r, f)
  PROVE  /\ log' \in Seq(Files) /\ Len(log) \in Nat /\ Len(log') \in Nat
         /\ Len(log) <= Len(log') /\ Len(log') <= Len(log) + Sendings
         /\ \A p \in 1..Len(log) : log'[p] = log[p]
         /\ \A p \in 1..Len(log') : p \in 1..Len(log) \/ log'[p] = f
<1>1. PICK o \in Outcome["xadd"], k \in 2..Sendings :
        log' = Result(o, log, Append(log, f), log \o [i \in 1..k |-> f])
  BY DEF EnqueueProcessingJob
<1>2. log \in Seq(Files) /\ k \in Nat /\ Sendings \in Nat /\ 2 <= k /\ k <= Sendings
  BY OutcomeAssumption DEF TypeOk
<1> DEFINE copies == [i \in 1..k |-> f]
<1>3. copies \in Seq(Files) /\ Len(copies) = k /\ \A i \in 1..k : copies[i] = f
  BY <1>2
<1>4. CASE log' = log
  BY <1>2, <1>4
<1>5. CASE log' = Append(log, f)
  BY <1>2, <1>5
<1>6. CASE log' = log \o copies
  <2> HIDE DEF copies
  <2>0. /\ log' \in Seq(Files) /\ Len(log') = Len(log) + Len(copies)
        /\ \A i \in 1..(Len(log) + Len(copies)) :
             log'[i] = IF i <= Len(log) THEN log[i] ELSE copies[i - Len(log)]
    BY <1>2, <1>3, <1>6, ConcatProperties, Zenon
  <2>1. /\ log' \in Seq(Files) /\ Len(log') = Len(log) + k /\ Len(log) \in Nat
        /\ \A p \in 1..Len(log) : log'[p] = log[p]
        /\ \A p \in (Len(log) + 1)..(Len(log) + k) : log'[p] = copies[p - Len(log)]
    BY <1>2, <1>3, <2>0
  <2>2. \A p \in (Len(log) + 1)..(Len(log) + k) : log'[p] = f
    BY <1>2, <1>3, <2>1
  <2> QED
    BY <1>2, <2>1, <2>2
<1> QED
  BY <1>1, <1>4, <1>5, <1>6 DEF Result

\* A step of a request handler keeps the types.
LEMMA RequestTypeOk ==
  ASSUME TypeOk, NEW r \in Requests, RequestStep(r)
  PROVE  TypeOk'
<1> USE DEF TypeOk
<1>1. CASE Refuse(r)
  BY <1>1 DEF Refuse, streamVars, statusVars, storeVars
<1>2. CASE Begin(r)
  <2> DEFINE h == InitUploadStatus(hash[UploadOf[r]])
  <2>1. h \in StatusRecord
    BY StatusOperators, ActorsAssumption
  <2>2. PICK o : /\ hash' = [hash EXCEPT ![UploadOf[r]] = Result(o, @, h, h)]
                 /\ rpc' = [rpc EXCEPT ![r] = IF Errs(o) THEN "error" ELSE "loop"]
    BY <1>2 DEF Begin
  <2>3. hash' \in [Uploads -> StatusRecord]
    BY <2>1, <2>2, StatusWrite, ActorsAssumption
  <2> QED
    BY <1>2, <2>2, <2>3 DEF Begin, streamVars, storeVars
<1>3. ASSUME NEW f \in FilesOf(r), PutOriginal(r, f) PROVE TypeOk'
  BY <1>3 DEF PutOriginal, FilesOf, streamVars, statusVars
<1>4. ASSUME NEW f \in FilesOf(r), EnqueueProcessingJob(r, f) PROVE TypeOk'
  <2>1. f \in Files
    BY DEF FilesOf
  <2>2. log' \in Seq(Files) /\ Len(log') >= Len(log)
    BY <1>4, <2>1, SentJobs
  <2> QED
    BY <1>4, <2>1, <2>2 DEF EnqueueProcessingJob, statusVars, storeVars
<1>5. ASSUME NEW f \in FilesOf(r), RemoveOriginal(r, f) PROVE TypeOk'
  BY <1>5 DEF RemoveOriginal, FilesOf, streamVars, statusVars
<1>7. ASSUME NEW f \in FilesOf(r), RecordRejection(r, f) PROVE TypeOk'
  BY <1>7 DEF RecordRejection, FilesOf, AddUploadError, streamVars, storeVars
<1>6. CASE CountAccepted(r)
  <2>1. CASE Accepted(r) = {}
    BY <1>6, <2>1 DEF CountAccepted, streamVars, storeVars
  <2>2. CASE Accepted(r) # {}
    <3> DEFINE n == Cardinality(Accepted(r))
               h == AddUploadCounters(hash[UploadOf[r]], n)
               hh(k) == AddUploadCounters(hash[UploadOf[r]], k * n)
    <3>1. PICK o \in Outcome["hash"], k \in 2..Sendings :
            /\ hash' = [hash EXCEPT ![UploadOf[r]] = Result(o, @, h, hh(k))]
            /\ rpc' = [rpc EXCEPT ![r] = IF Errs(o) THEN "error" ELSE "done"]
      BY <1>6, <2>2 DEF CountAccepted
    <3>2. n \in Int /\ k * n \in Int
      BY FilesOfFinite, FS_CardinalityType
    <3>3. h \in StatusRecord /\ hh(k) \in StatusRecord
      BY <3>2, StatusOperators, ActorsAssumption
    <3>4. hash' \in [Uploads -> StatusRecord]
      BY <3>1, <3>3, StatusWrite, ActorsAssumption
    <3> QED
      BY <1>6, <3>1, <3>4 DEF CountAccepted, streamVars, storeVars
  <2> QED
    BY <2>1, <2>2
<1> QED
  BY <1>1, <1>2, <1>3, <1>4, <1>5, <1>6, <1>7 DEF RequestStep

-----------------------------------------------------------------------------
(* The workers' program counters.                                          *)

\* How a step that delivers nothing moves worker w: to rest, or inside its
\* batch, and in the settling loop only forward.
StaysInBatch(w) ==
  /\ worker' \in [Workers -> WorkerRecord]
  /\ \A v \in Workers \ {w} : worker'[v] = worker[v]
  /\ \/ worker'[w].pc = "idle"
     \/ /\ worker'[w].pc # "idle"
        /\ worker'[w].lo = worker[w].lo /\ worker'[w].hi = worker[w].hi
        /\ worker'[w].at \in worker[w].lo .. worker[w].hi
        /\ worker[w].pc \in Settling =>
             worker'[w].pc \in Settling /\ worker'[w].at >= worker[w].at

\* What the three ways to move on do to a worker.
LEMMA GoOnMoves ==
  ASSUME TypeOk, MessagesInv, NEW w \in Workers, Busy(w),
         NEW pc \in WorkerPcs \ {"idle"}, GoOn(w, pc)
  PROVE  /\ worker'[w].pc = pc /\ worker'[w].at = worker[w].at
         /\ worker'[w].lo = worker[w].lo /\ worker'[w].hi = worker[w].hi
         /\ worker'[w].batchOk = worker[w].batchOk
         /\ worker' \in [Workers -> WorkerRecord]
         /\ \A v \in Workers \ {w} : worker'[v] = worker[v]
         /\ worker[w].at \in worker[w].lo .. worker[w].hi
<1>1. worker[w] \in WorkerRecord
  BY DEF TypeOk
<1>2. /\ worker[w].at \in worker[w].lo .. worker[w].hi
      /\ worker[w].lo \in worker[w].lo .. worker[w].hi
      /\ worker[w].at \in Nat /\ worker[w].lo \in Nat /\ worker[w].hi \in Nat
  BY <1>1 DEF WorkerRecord, MessagesInv, Busy
<1> DEFINE r == [worker[w] EXCEPT !.pc = pc]
<1>3. worker' = [worker EXCEPT ![w] = r]
  BY DEF GoOn
<1>4. r \in WorkerRecord
  BY <1>1, <1>2 DEF WorkerRecord
<1>5. worker'[w] = r /\ \A v \in Workers \ {w} : worker'[v] = worker[v]
  BY <1>3 DEF TypeOk
<1>6. worker' \in [Workers -> WorkerRecord]
  BY <1>3, <1>4 DEF TypeOk
<1> QED
  BY <1>1, <1>2, <1>5, <1>6 DEF WorkerRecord

\* A worker that goes back to the first photo of its batch.
LEMMA FromFirstMoves ==
  ASSUME TypeOk, MessagesInv, NEW w \in Workers, Busy(w),
         NEW pc \in WorkerPcs \ {"idle"}, NEW ok \in BOOLEAN, FromFirst(w, pc, ok)
  PROVE  /\ worker'[w].pc = pc /\ worker'[w].at = worker[w].lo
         /\ worker'[w].lo = worker[w].lo /\ worker'[w].hi = worker[w].hi
         /\ worker'[w].batchOk = ok
         /\ worker' \in [Workers -> WorkerRecord]
         /\ \A v \in Workers \ {w} : worker'[v] = worker[v]
         /\ worker[w].lo \in worker[w].lo .. worker[w].hi
<1>1. worker[w] \in WorkerRecord
  BY DEF TypeOk
<1>2. /\ worker[w].at \in worker[w].lo .. worker[w].hi
      /\ worker[w].lo \in worker[w].lo .. worker[w].hi
      /\ worker[w].at \in Nat /\ worker[w].lo \in Nat /\ worker[w].hi \in Nat
  BY <1>1 DEF WorkerRecord, MessagesInv, Busy
<1> DEFINE r == [worker[w] EXCEPT !.pc = pc, !.at = worker[w].lo, !.batchOk = ok]
<1>3. worker' = [worker EXCEPT ![w] = r]
  BY DEF FromFirst
<1>4. r \in WorkerRecord
  BY <1>1, <1>2, Zenon DEF WorkerRecord
<1>5. worker'[w] = r /\ \A v \in Workers \ {w} : worker'[v] = worker[v]
  BY <1>3 DEF TypeOk
<1>6. worker' \in [Workers -> WorkerRecord]
  BY <1>3, <1>4 DEF TypeOk
<1> QED
  BY <1>1, <1>2, <1>5, <1>6 DEF WorkerRecord

\* A worker that goes on to its next photo.
LEMMA AdvanceMoves ==
  ASSUME TypeOk, MessagesInv, NEW w \in Workers, Busy(w),
         HasNext(w), NEW pc \in WorkerPcs \ {"idle"}, Advance(w, pc)
  PROVE  /\ worker'[w].pc = pc /\ worker'[w].at = worker[w].at + 1
         /\ worker'[w].lo = worker[w].lo /\ worker'[w].hi = worker[w].hi
         /\ worker'[w].batchOk = worker[w].batchOk
         /\ worker' \in [Workers -> WorkerRecord]
         /\ \A v \in Workers \ {w} : worker'[v] = worker[v]
         /\ worker[w].at + 1 \in worker[w].lo .. worker[w].hi
<1>1. worker[w] \in WorkerRecord
  BY DEF TypeOk
<1>2. /\ worker[w].at \in worker[w].lo .. worker[w].hi
      /\ worker[w].lo \in worker[w].lo .. worker[w].hi
      /\ worker[w].at \in Nat /\ worker[w].lo \in Nat /\ worker[w].hi \in Nat
  BY <1>1 DEF WorkerRecord, MessagesInv, Busy
<1> DEFINE r == [worker[w] EXCEPT !.pc = pc, !.at = worker[w].at + 1]
<1>3. worker' = [worker EXCEPT ![w] = r]
  BY DEF Advance
<1>7. worker[w].at + 1 \in Nat /\ worker[w].at + 1 \in worker[w].lo .. worker[w].hi
  BY <1>2 DEF HasNext
<1>4. r \in WorkerRecord
  BY <1>1, <1>7, Zenon DEF WorkerRecord
<1>5. worker'[w] = r /\ \A v \in Workers \ {w} : worker'[v] = worker[v]
  BY <1>3 DEF TypeOk
<1>6. worker' \in [Workers -> WorkerRecord]
  BY <1>3, <1>4 DEF TypeOk
<1> QED
  BY <1>1, <1>2, <1>5, <1>6, <1>7 DEF WorkerRecord

\* The three ways to move on, and the end of the batch, stay in the batch.
LEMMA MovesStay ==
  ASSUME TypeOk, MessagesInv, NEW w \in Workers, Busy(w)
  PROVE  /\ \A pc \in WorkerPcs \ {"idle"} :
              GoOn(w, pc) /\ (worker[w].pc \in Settling => pc \in Settling)
                => StaysInBatch(w)
         /\ \A pc \in WorkerPcs \ {"idle"}, ok \in BOOLEAN :
              FromFirst(w, pc, ok) /\ worker[w].pc \notin Settling => StaysInBatch(w)
         /\ \A pc \in WorkerPcs \ {"idle"} :
              Advance(w, pc) /\ HasNext(w) /\ (worker[w].pc \in Settling => pc \in Settling)
                => StaysInBatch(w)
         /\ worker' = [worker EXCEPT ![w] = IdleWorker] => StaysInBatch(w)
<1>1. worker[w].at \in Nat
  BY DEF TypeOk, WorkerRecord
<1>2. ASSUME NEW pc \in WorkerPcs \ {"idle"}, GoOn(w, pc),
             worker[w].pc \in Settling => pc \in Settling
      PROVE  StaysInBatch(w)
  BY <1>1, <1>2, GoOnMoves DEF StaysInBatch
<1>3. ASSUME NEW pc \in WorkerPcs \ {"idle"}, NEW ok \in BOOLEAN, FromFirst(w, pc, ok),
             worker[w].pc \notin Settling
      PROVE  StaysInBatch(w)
  BY <1>3, FromFirstMoves DEF StaysInBatch
<1>4. ASSUME NEW pc \in WorkerPcs \ {"idle"}, Advance(w, pc), HasNext(w),
             worker[w].pc \in Settling => pc \in Settling
      PROVE  StaysInBatch(w)
  BY <1>1, <1>4, AdvanceMoves DEF StaysInBatch
<1>5. ASSUME worker' = [worker EXCEPT ![w] = IdleWorker] PROVE StaysInBatch(w)
  BY <1>5 DEF StaysInBatch, TypeOk, IdleWorker, WorkerRecord, WorkerPcs
<1> QED
  BY <1>2, <1>3, <1>4, <1>5

\* The steps of a worker other than reading its batch.
LEMMA WorkerStays ==
  ASSUME TypeOk, MessagesInv, NEW w \in Workers,
         WorkerStep(w) \/ WorkerCrash(w), ~ReadProcessingJobs(w)
  PROVE  /\ Busy(w)
         /\ StaysInBatch(w)
         /\ UNCHANGED <<requestVars, log, last>>
         /\ \/ UNCHANGED acked
            \/ /\ worker[w].pc = "ack"
               /\ acked' \subseteq acked \cup {worker[w].at}
               /\ HasNext(w) => worker'[w].at = worker[w].at + 1
               /\ ~HasNext(w) => worker'[w].pc = "idle"
<1> USE DEF streamVars, Busy
<1>1. CASE MoveJobToProcessing(w)
  <2>1. Busy(w) /\ worker[w].pc \notin Settling
    BY <1>1 DEF MoveJobToProcessing, Settling
  <2>2. Selected \subseteq WorkerPcs \ {"idle"}
    BY DEF Selected, WorkerPcs
  <2>3. "move" \in WorkerPcs \ {"idle"}
    BY DEF WorkerPcs
  <2>4. CASE HasNext(w)
    BY <1>1, <2>1, <2>3, <2>4, MovesStay DEF MoveJobToProcessing
  <2>5. CASE ~HasNext(w)
    BY <1>1, <2>1, <2>2, <2>5, MovesStay DEF MoveJobToProcessing
  <2> QED
    BY <2>4, <2>5
<1>2. CASE CudaSucceeds(w)
  BY <1>2, MovesStay DEF CudaSucceeds, WorkerPcs, Settling
<1>3. CASE CudaFails(w)
  BY <1>3, MovesStay DEF CudaFails, WorkerPcs, Settling
<1>4. CASE PutWatermarked(w)
  BY <1>4, MovesStay DEF PutWatermarked, WorkerPcs, Settling
<1>5. CASE PutPreview(w)
  BY <1>5, MovesStay DEF PutPreview, WorkerPcs, Settling
<1>6. CASE CreatePhoto(w)
  BY <1>6, MovesStay DEF CreatePhoto, AfterCreate, WorkerPcs, Settling
<1>7. CASE MoveToCompleted(w)
  BY <1>7, MovesStay DEF MoveToCompleted, WorkerPcs, Settling
<1>8. CASE MoveToFailed(w)
  BY <1>8, MovesStay DEF MoveToFailed, WorkerPcs, Settling
<1>11. CASE RecordFailure(w)
  BY <1>11, MovesStay DEF RecordFailure, WorkerPcs, Settling
<1>12. CASE RemoveWatermarked(w)
  BY <1>12, MovesStay DEF RemoveWatermarked, WorkerPcs, Settling
<1>9. CASE AckProcessingJob(w)
  <2>1. Busy(w) /\ acked' \subseteq acked \cup {worker[w].at}
    BY <1>9 DEF AckProcessingJob
  <2>2. CASE HasNext(w)
    <3>1. PICK pc \in Settling : Advance(w, pc)
      BY <1>9, <2>2 DEF AckProcessingJob, Settling
    <3>2. pc \in WorkerPcs \ {"idle"}
      BY <3>1 DEF Settling, WorkerPcs
    <3>3. StaysInBatch(w) /\ worker'[w].at = worker[w].at + 1
      BY <2>1, <2>2, <3>1, <3>2, MovesStay, AdvanceMoves
    <3> QED
      BY <1>9, <2>1, <2>2, <3>3 DEF AckProcessingJob
  <2>3. CASE ~HasNext(w)
    <3>1. worker' = [worker EXCEPT ![w] = IdleWorker]
      BY <1>9, <2>3 DEF AckProcessingJob
    <3>2. StaysInBatch(w) /\ worker'[w].pc = "idle"
      BY <2>1, <3>1, MovesStay DEF IdleWorker, TypeOk
    <3> QED
      BY <1>9, <2>1, <2>3, <3>2 DEF AckProcessingJob
  <2> QED
    BY <2>2, <2>3
<1>10. CASE WorkerCrash(w)
  BY <1>10, MovesStay DEF WorkerCrash
<1> QED
  BY <1>1, <1>2, <1>3, <1>4, <1>5, <1>6, <1>7, <1>8, <1>9, <1>10, <1>11, <1>12 DEF WorkerStep

\* The file a busy worker is at.
LEMMA CurrentType ==
  ASSUME TypeOk, MessagesInv, NEW w \in Workers, Busy(w)
  PROVE  /\ worker[w].at \in 1..last
         /\ Current(w) \in Files
         /\ UploadOfFile(Current(w)) \in Uploads
         /\ BatchFiles(w) \subseteq Files
<1>1. /\ worker[w].at \in Nat /\ worker[w].lo \in Nat /\ worker[w].hi \in Nat
      /\ last \in Nat /\ Len(log) \in Nat /\ last <= Len(log)
  BY DEF TypeOk, WorkerRecord
<1>2. 1 <= worker[w].lo /\ worker[w].lo <= worker[w].at
      /\ worker[w].at <= worker[w].hi /\ worker[w].hi <= last
  BY DEF MessagesInv
<1>3. \A p \in 1..last : log[p] \in Files
  BY <1>1 DEF TypeOk
<1>4. worker[w].at \in 1..last /\ Batch(w) \subseteq 1..last
  BY <1>1, <1>2 DEF Batch
<1>5. Current(w) \in Files /\ BatchFiles(w) \subseteq Files
  BY <1>3, <1>4 DEF Current, BatchFiles
<1> QED
  BY <1>4, <1>5, ActorsAssumption DEF UploadOfFile

\* What a read that delivers gives the reader.
LEMMA ReadMoves ==
  ASSUME TypeOk, NEW w \in Workers, ReadProcessingJobs(w)
  PROVE  /\ ~Busy(w)
         /\ last' \in (last + 1) .. Len(log)
         /\ worker' \in [Workers -> WorkerRecord]
         /\ \A v \in Workers \ {w} : worker'[v] = worker[v]
         /\ \/ worker' = worker
            \/ worker'[w] = [pc |-> "move", lo |-> last + 1, hi |-> last',
                             at |-> last + 1, batchOk |-> TRUE]
<1> DEFINE r == [pc |-> "move", lo |-> last + 1, hi |-> last + NextBatchLen,
                 at |-> last + 1, batchOk |-> TRUE]
<1>1. last \in Nat /\ Len(log) \in Nat /\ last < Len(log)
  BY DEF TypeOk, ReadProcessingJobs
<1>2. NextBatchLen \in Nat \ {0} /\ last + NextBatchLen <= Len(log)
  BY <1>1, ConfigAssumption DEF NextBatchLen
<1>3. last' = last + NextBatchLen
  BY DEF ReadProcessingJobs, DeliveredUpTo
<1>4. r \in WorkerRecord
  BY <1>1, <1>2 DEF WorkerRecord, WorkerPcs
<1>5. worker' = worker \/ worker' = [worker EXCEPT ![w] = r]
  BY DEF ReadProcessingJobs
<1>6. worker \in [Workers -> WorkerRecord]
  BY DEF TypeOk
<1>7. ~Busy(w)
  BY DEF ReadProcessingJobs, Busy
<1>8. last' \in (last + 1) .. Len(log)
  BY <1>1, <1>2, <1>3
<1> HIDE DEF r
<1>9. /\ worker' \in [Workers -> WorkerRecord]
      /\ \A v \in Workers \ {w} : worker'[v] = worker[v]
      /\ worker' = worker \/ worker'[w] = r
  BY <1>4, <1>5, <1>6
<1> QED
  BY <1>3, <1>7, <1>8, <1>9 DEF r

\* A step of a worker keeps the types.
LEMMA WorkerTypeOk ==
  ASSUME TypeOk, MessagesInv, NEW w \in Workers, WorkerStep(w) \/ WorkerCrash(w)
  PROVE  TypeOk'
<1>1. CASE ReadProcessingJobs(w)
  <2>1. last' \in 0..Len(log) /\ acked \subseteq 1..last'
    BY ReadMoves, <1>1 DEF TypeOk
  <2> QED
    BY <1>1, <2>1, ReadMoves
    DEF ReadProcessingJobs, TypeOk, requestVars, statusVars, storeVars
<1>2. CASE ~ReadProcessingJobs(w)
  <2> DEFINE u == UploadOfFile(Current(w))
             h == hash[u]
  <2>1. Busy(w) /\ worker' \in [Workers -> WorkerRecord] /\ UNCHANGED <<rpc, offer, log, last>>
    BY <1>2, WorkerStays DEF StaysInBatch, requestVars
  <2>2. /\ worker[w].at \in 1..last /\ Current(w) \in Files /\ u \in Uploads
        /\ BatchFiles(w) \subseteq Files
    BY <2>1, CurrentType
  <2>3. acked' \subseteq 1..last
    BY <1>2, <2>2, WorkerStays DEF TypeOk
  <2>4. h \in StatusRecord
    BY <2>2 DEF TypeOk
  <2>5. hash' \in [Uploads -> StatusRecord] /\ errs' \subseteq Files
    <3>0. UNCHANGED statusVars => hash' \in [Uploads -> StatusRecord] /\ errs' \subseteq Files
      BY DEF statusVars, TypeOk
    <3>1. CASE MoveJobToProcessing(w)
      <4>1. PICK o \in Outcome["hash"], k \in 2..Sendings :
              hash' = [hash EXCEPT ![u] = Result(o, @, MoveQueuedToProcessing(@, 1), MoveQueuedToProcessing(@, k))]
        BY <3>1 DEF MoveJobToProcessing
      <4>2. MoveQueuedToProcessing(h, 1) \in StatusRecord /\ MoveQueuedToProcessing(h, k) \in StatusRecord
        BY <2>4, StatusOperators
      <4> QED
        BY <3>1, <2>2, <4>1, <4>2, StatusWrite DEF MoveJobToProcessing, TypeOk
    <3>2. CASE MoveToCompleted(w)
      <4>1. PICK o \in Outcome["hash"], k \in 2..Sendings :
              hash' = [hash EXCEPT ![u] = Result(o, @, MoveProcessingToCompleted(@, 1), MoveProcessingToCompleted(@, k))]
        BY <3>2 DEF MoveToCompleted
      <4>2. MoveProcessingToCompleted(h, 1) \in StatusRecord /\ MoveProcessingToCompleted(h, k) \in StatusRecord
        BY <2>4, StatusOperators
      <4> QED
        BY <3>2, <2>2, <4>1, <4>2, StatusWrite DEF MoveToCompleted, TypeOk
    <3>3. CASE MoveToFailed(w)
      <4>1. PICK o \in Outcome["hash"], k \in 2..Sendings :
              hash' = [hash EXCEPT ![u] =
                         Result(o, @, MoveProcessingToFailed(@, 1), MoveProcessingToFailed(@, k))]
        BY <3>3 DEF MoveToFailed
      <4>2. /\ MoveProcessingToFailed(h, 1) \in StatusRecord
            /\ MoveProcessingToFailed(h, k) \in StatusRecord
        BY <2>4, StatusOperators
      <4> QED
        BY <3>3, <2>2, <4>1, <4>2, StatusWrite DEF MoveToFailed, TypeOk
    <3>4. CASE RecordFailure(w)
      BY <3>4, <2>2 DEF RecordFailure, AddUploadError, TypeOk
    <3> QED
      BY <1>2, <3>0, <3>1, <3>2, <3>3, <3>4
      DEF WorkerStep, WorkerCrash, CudaSucceeds, CudaFails, PutWatermarked, PutPreview,
          RemoveWatermarked, CreatePhoto, AckProcessingJob, RecordFailure
  <2>6. /\ original' \subseteq Files /\ watermarked' \subseteq Files
        /\ preview' \subseteq Files /\ rows' \subseteq Files
    <3>1. CASE CudaSucceeds(w)
      BY <3>1, <2>2 DEF CudaSucceeds, TypeOk
    <3>2. CASE CudaFails(w)
      BY <3>2, <2>2 DEF CudaFails, TypeOk
    <3>3. CASE PutWatermarked(w)
      BY <3>3, <2>2 DEF PutWatermarked, TypeOk
    <3>4. CASE PutPreview(w)
      BY <3>4, <2>2 DEF PutPreview, TypeOk
    <3>5. CASE CreatePhoto(w)
      BY <3>5, <2>2 DEF CreatePhoto, TypeOk, storeVars
    <3>6. CASE RemoveWatermarked(w)
      BY <3>6, <2>2 DEF RemoveWatermarked, TypeOk
    <3> QED
      BY <1>2, <3>1, <3>2, <3>3, <3>4, <3>5, <3>6
      DEF WorkerStep, WorkerCrash, MoveJobToProcessing, MoveToCompleted, MoveToFailed,
          RecordFailure, AckProcessingJob, storeVars, TypeOk, RemoveWatermarked
  <2> QED
    BY <2>1, <2>3, <2>5, <2>6 DEF TypeOk
<1> QED
  BY <1>1, <1>2

\* A fault keeps the types.
LEMMA EnvironmentTypeOk ==
  ASSUME TypeOk,
         (\E r \in Requests : RequestCrash(r)) \/ (\E u \in Uploads : Expire(u))
  PROVE  TypeOk'
<1>1. ASSUME NEW r \in Requests, RequestCrash(r) PROVE TypeOk'
  BY <1>1 DEF RequestCrash, TypeOk, streamVars, statusVars, storeVars
<1>2. ASSUME NEW u \in Uploads, Expire(u) PROVE TypeOk'
  <2>1. Absent \in StatusRecord
    BY DEF Absent, StatusRecord
  <2> QED
    BY <1>2, <2>1 DEF Expire, TypeOk, requestVars, streamVars, storeVars
<1> QED
  BY <1>1, <1>2

-----------------------------------------------------------------------------
(* Messages: delivered to one worker, acknowledged once settled.           *)

\* At first no batch is in anybody's hands.
LEMMA InitMessages == Init => MessagesInv
  BY DEF Init, MessagesInv, Busy, IdleWorker

\* A step that leaves the workers alone at most lets the stream grow.
LEMMA OthersMessages ==
  ASSUME TypeOk, MessagesInv, UNCHANGED <<worker, last, acked>>
  PROVE  MessagesInv'
  BY DEF MessagesInv, Busy, Batch

\* A worker reads messages nobody has been given.
LEMMA ReadMessages ==
  ASSUME TypeOk, MessagesInv, NEW w \in Workers, ReadProcessingJobs(w)
  PROVE  MessagesInv'
<1>1. /\ last \in Nat /\ last' \in Nat /\ last < last'
      /\ acked \subseteq 1..last /\ acked' = acked
  <2>1. acked' = acked
    BY DEF ReadProcessingJobs
  <2>2. last \in Nat /\ Len(log) \in Nat /\ acked \subseteq 1..last
    BY DEF TypeOk
  <2>3. last' \in (last + 1) .. Len(log)
    BY ReadMoves
  <2> QED
    BY <2>1, <2>2, <2>3
<1>2. \A v \in Workers : worker[v].hi \in Nat /\ worker[v].lo \in Nat /\ worker[v].at \in Nat
  BY DEF TypeOk, WorkerRecord
<1>3. CASE worker' = worker
  BY <1>1, <1>2, <1>3 DEF MessagesInv, Busy, Batch
<1>4. CASE worker'[w] = [pc |-> "move", lo |-> last + 1, hi |-> last',
                         at |-> last + 1, batchOk |-> TRUE]
  <2>1. /\ worker'[w].lo = last + 1 /\ worker'[w].hi = last' /\ worker'[w].at = last + 1
        /\ \A v \in Workers \ {w} : worker'[v] = worker[v]
    BY <1>4, ReadMoves
  <2>2. \A v \in Workers : Busy(v)' =>
          /\ 1 <= worker'[v].lo /\ worker'[v].lo <= worker'[v].at
          /\ worker'[v].at <= worker'[v].hi /\ worker'[v].hi <= last'
    BY <1>1, <1>2, <2>1 DEF MessagesInv, Busy
  <2>3. \A u, v \in Workers : u # v /\ Busy(u)' /\ Busy(v)' =>
          worker'[u].hi < worker'[v].lo \/ worker'[v].hi < worker'[u].lo
    BY <1>1, <1>2, <2>1 DEF MessagesInv, Busy
  <2>4. \A v \in Workers : \A p \in Batch(v)' : Busy(v)' /\ p \in acked' =>
          worker'[v].pc \in Settling /\ p < worker'[v].at
    BY <1>1, <1>2, <2>1 DEF MessagesInv, Busy, Batch
  <2> QED
    BY <2>2, <2>3, <2>4 DEF MessagesInv
<1> QED
  BY <1>3, <1>4, ReadMoves

\* A worker that reads nothing stays within the batch it holds, or lets go of it.
LEMMA StayMessages ==
  ASSUME TypeOk, MessagesInv, NEW w \in Workers,
         WorkerStep(w) \/ WorkerCrash(w), ~ReadProcessingJobs(w)
  PROVE  MessagesInv'
<1>1. /\ Busy(w) /\ last' = last /\ last \in Nat
      /\ \A v \in Workers \ {w} : worker'[v] = worker[v]
      /\ worker' \in [Workers -> WorkerRecord]
  BY WorkerStays DEF StaysInBatch, TypeOk
<1>2. \A v \in Workers : /\ worker[v].hi \in Nat /\ worker[v].lo \in Nat /\ worker[v].at \in Nat
                         /\ worker'[v].hi \in Nat /\ worker'[v].lo \in Nat /\ worker'[v].at \in Nat
  BY <1>1 DEF TypeOk, WorkerRecord
<1>3. Busy(w)' => /\ worker'[w].lo = worker[w].lo /\ worker'[w].hi = worker[w].hi
                  /\ worker'[w].at \in worker[w].lo .. worker[w].hi
                  /\ worker[w].pc \in Settling =>
                       worker'[w].pc \in Settling /\ worker'[w].at >= worker[w].at
  BY WorkerStays DEF StaysInBatch, Busy
<1>4. \A v \in Workers : Busy(v)' =>
        /\ 1 <= worker'[v].lo /\ worker'[v].lo <= worker'[v].at
        /\ worker'[v].at <= worker'[v].hi /\ worker'[v].hi <= last'
  BY <1>1, <1>2, <1>3 DEF MessagesInv, Busy
<1>5. \A u, v \in Workers : u # v /\ Busy(u)' /\ Busy(v)' =>
        worker'[u].hi < worker'[v].lo \/ worker'[v].hi < worker'[u].lo
  BY <1>1, <1>2, <1>3 DEF MessagesInv, Busy
<1>6. \A v \in Workers : \A p \in Batch(v)' : Busy(v)' /\ p \in acked' =>
        worker'[v].pc \in Settling /\ p < worker'[v].at
  <2> SUFFICES ASSUME NEW v \in Workers, NEW p \in Batch(v)', Busy(v)', p \in acked'
               PROVE  worker'[v].pc \in Settling /\ p < worker'[v].at
    OBVIOUS
  <2>1. Batch(v)' = Batch(v) /\ Busy(v)
    BY <1>1, <1>3 DEF Batch, Busy
  <2>2. p \in Nat /\ worker[v].lo <= p /\ p <= worker[v].hi
    BY <1>2, <2>1 DEF Batch
  <2>3. CASE p \in acked
    <3>1. worker[v].pc \in Settling /\ p < worker[v].at
      BY <2>1, <2>3 DEF MessagesInv
    <3>2. CASE v = w
      BY <1>2, <1>3, <2>2, <3>1, <3>2
    <3>3. CASE v # w
      BY <1>1, <3>1, <3>3
    <3> QED
      BY <3>2, <3>3
  <2>4. CASE p \notin acked
    <3>1. p = worker[w].at /\ worker[w].pc = "ack"
      BY <2>4, WorkerStays
    <3>2. v = w
      BY <1>1, <1>2, <2>1, <2>2, <3>1 DEF MessagesInv
    <3>3. worker'[w].at = worker[w].at + 1
      BY <2>4, <3>2, WorkerStays DEF Busy
    <3> QED
      BY <1>2, <1>3, <3>1, <3>2, <3>3 DEF Settling
  <2> QED
    BY <2>3, <2>4
<1> QED
  BY <1>4, <1>5, <1>6 DEF MessagesInv

-----------------------------------------------------------------------------
LEMMA NextTypeAndMessages ==
  ASSUME TypeOk, MessagesInv, [Next]_vars
  PROVE  TypeOk' /\ MessagesInv'
<1>1. ASSUME NEW r \in Requests, RequestStep(r) PROVE TypeOk' /\ MessagesInv'
  <2>1. UNCHANGED <<worker, last, acked>>
    BY <1>1 DEF RequestStep, Refuse, Begin, PutOriginal, EnqueueProcessingJob,
                RemoveOriginal, RecordRejection, CountAccepted, streamVars
  <2> QED
    BY <1>1, <2>1, RequestTypeOk, OthersMessages
<1>2. ASSUME NEW r \in Requests, RequestCrash(r) PROVE TypeOk' /\ MessagesInv'
  BY <1>2, EnvironmentTypeOk, OthersMessages DEF RequestCrash, streamVars
<1>3. ASSUME NEW w \in Workers, WorkerStep(w) \/ WorkerCrash(w)
      PROVE  TypeOk' /\ MessagesInv'
  BY <1>3, WorkerTypeOk, ReadMessages, StayMessages
<1>4. ASSUME NEW u \in Uploads, Expire(u) PROVE TypeOk' /\ MessagesInv'
  BY <1>4, EnvironmentTypeOk, OthersMessages DEF Expire, streamVars
<1>5. CASE UNCHANGED vars
  <2>1. TypeOk'
    BY <1>5 DEF vars, requestVars, streamVars, statusVars, storeVars, TypeOk
  <2> QED
    BY <1>5, <2>1, OthersMessages DEF vars, streamVars
<1> QED
  BY <1>1, <1>2, <1>3, <1>4, <1>5 DEF Next

\* In every behaviour the variables keep their types, whatever outcomes the
\* calls may have and whatever may crash.
THEOREM TypeCorrect == Spec => []TypeOk
<1>1. Init => TypeOk /\ MessagesInv
  BY InitTypeOk, InitMessages
<1>2. TypeOk /\ MessagesInv /\ [Next]_vars => (TypeOk /\ MessagesInv)'
  BY NextTypeAndMessages
<1> QED
  BY <1>1, <1>2, PTL DEF Spec

\* In every behaviour the batches in the workers' hands are disjoint parts of what was delivered.
THEOREM MessagesInvariant == Spec => [](TypeOk /\ MessagesInv)
<1>1. Init => TypeOk /\ MessagesInv
  BY InitTypeOk, InitMessages
<1>2. TypeOk /\ MessagesInv /\ [Next]_vars => (TypeOk /\ MessagesInv)'
  BY NextTypeAndMessages
<1> QED
  BY <1>1, <1>2, PTL DEF Spec

\* What the workers have in hand is apart, delivered and not acknowledged.
LEMMA HeldApart == TypeOk /\ MessagesInv => HeldByOneWorker
<1> SUFFICES ASSUME TypeOk, MessagesInv, NEW w \in Workers
             PROVE  /\ Held(w) \cap acked = {}
                    /\ Held(w) \subseteq 1..last
                    /\ \A v \in Workers \ {w} : Held(w) \cap Held(v) = {}
  BY DEF HeldByOneWorker
<1>1. \A v \in Workers : worker[v].hi \in Nat /\ worker[v].lo \in Nat /\ worker[v].at \in Nat
  BY DEF TypeOk, WorkerRecord
<1>2. \A v \in Workers : Held(v) \subseteq Batch(v) /\ (Held(v) # {} => Busy(v))
  BY DEF Held, Busy
<1>3. Held(w) \cap acked = {}
  <2> SUFFICES ASSUME NEW p \in Held(w), p \in acked PROVE FALSE
    OBVIOUS
  <2>1. worker[w].pc \in Settling /\ p < worker[w].at /\ p \in Int
    BY <1>1, <1>2 DEF MessagesInv, Batch
  <2> QED
    BY <1>1, <1>2, <2>1 DEF Held, Busy, Settling
<1>4. Held(w) \subseteq 1..last
  BY <1>1, <1>2 DEF MessagesInv, Batch, TypeOk
<1>5. \A v \in Workers \ {w} : Held(w) \cap Held(v) = {}
  BY <1>1, <1>2 DEF MessagesInv, Batch
<1> QED
  BY <1>3, <1>4, <1>5

\* The consumer group gives no message to two workers, and what a worker still
\* has in hand is not acknowledged: a crash can lose a batch for the workers,
\* never process it twice.
THEOREM OneWorkerPerMessage == Spec => []HeldByOneWorker
BY HeldApart, MessagesInvariant, PTL

-----------------------------------------------------------------------------
(* Photos and their objects, when XADD is definite.                        *)

XAddIsDefinite == Outcome["xadd"] \subseteq {"ok", "fail"}

\* At first there is no photo.
LEMMA InitPhotos == Init => PhotosInv
  BY DEF Init, PhotosInv, LogInv, RowsInv, DerivedInv, Busy, IdleWorker, Settling

\* The stream only grows.
LEMMA LogGrows ==
  ASSUME TypeOk, MessagesInv, [Next]_vars
  PROVE  /\ Len(log) \in Nat /\ Len(log') \in Nat /\ Len(log) <= Len(log')
         /\ \A p \in 1..Len(log) : log'[p] = log[p]
<1>1. log \in Seq(Files) /\ Len(log) \in Nat
  BY DEF TypeOk
<1>2. CASE UNCHANGED log
  BY <1>1, <1>2
<1>3. ASSUME NEW r \in Requests, NEW f \in FilesOf(r), EnqueueProcessingJob(r, f)
      PROVE  /\ Len(log') \in Nat /\ Len(log) <= Len(log')
             /\ \A p \in 1..Len(log) : log'[p] = log[p]
  <2>1. f \in Files
    BY DEF FilesOf
  <2> QED
    BY <1>3, <2>1, SentJobs
<1>4. ASSUME NEW w \in Workers, WorkerStep(w) \/ WorkerCrash(w) PROVE UNCHANGED log
  BY <1>4, WorkerStays DEF ReadProcessingJobs
<1>5. UNCHANGED log \/ \E r \in Requests : \E f \in FilesOf(r) : EnqueueProcessingJob(r, f)
  BY <1>4 DEF Next, vars, streamVars, RequestStep, Refuse, Begin, PutOriginal,
              RemoveOriginal, RecordRejection, CountAccepted, RequestCrash, Expire
<1> QED
  BY <1>1, <1>2, <1>3, <1>5

\* A step of a request handler keeps the log: an accepted file is in it once.
LEMMA RequestLog ==
  ASSUME XAddIsDefinite, TypeOk, LogInv, NEW r \in Requests, RequestStep(r)
  PROVE  LogInv'
<1> USE DEF LogInv
<1>1. CASE Refuse(r)
  BY <1>1 DEF Refuse, streamVars, storeVars
<1>2. CASE Begin(r)
  BY <1>2 DEF Begin, streamVars, storeVars
<1>3. ASSUME NEW f \in FilesOf(r), PutOriginal(r, f) PROVE LogInv'
  <2>1. f \in Files /\ offer[f] = "todo" /\ log' = log
    BY <1>3 DEF PutOriginal, FilesOf, streamVars
  <2>2. \A p \in 1..Len(log) : log[p] # f /\ log[p] \in Files
    BY <2>1 DEF TypeOk
  <2>3. \/ offer' = [offer EXCEPT ![f] = "failing"] /\ original \subseteq original'
        \/ offer' = [offer EXCEPT ![f] = "stored"] /\ original \cup {f} \subseteq original'
    BY <1>3 DEF PutOriginal, Applied, Errs
  <2> QED
    BY <2>1, <2>2, <2>3 DEF TypeOk
<1>4. ASSUME NEW f \in FilesOf(r), EnqueueProcessingJob(r, f) PROVE LogInv'
  <2>1. f \in Files /\ offer[f] = "stored" /\ original' = original
    BY <1>4 DEF EnqueueProcessingJob, FilesOf, storeVars
  <2>2. \A p \in 1..Len(log) : log[p] # f /\ log[p] \in Files
    BY <2>1 DEF TypeOk
  <2>3. \/ log' = Append(log, f) /\ offer' = [offer EXCEPT ![f] = "accepted"]
        \/ log' = log /\ offer' = [offer EXCEPT ![f] = "undo"]
    BY <1>4 DEF EnqueueProcessingJob, XAddIsDefinite, Result, Retried, Errs
  <2>4. CASE log' = Append(log, f) /\ offer' = [offer EXCEPT ![f] = "accepted"]
    <3>1. /\ Len(log') = Len(log) + 1 /\ log'[Len(log) + 1] = f /\ Len(log) \in Nat
          /\ \A p \in 1..Len(log) : log'[p] = log[p]
      BY <2>1, <2>4 DEF TypeOk
    <3>2. \A p \in 1..Len(log') : p \in 1..Len(log) \/ p = Len(log) + 1
      BY <3>1
    <3>3. offer'[f] = "accepted" /\ \A g \in Files \ {f} : offer'[g] = offer[g]
      BY <2>1, <2>4 DEF TypeOk
    <3>4. \A p \in 1..Len(log') : offer'[log'[p]] = "accepted"
      BY <2>2, <3>1, <3>2, <3>3
    <3>5. \A p, q \in 1..Len(log') : log'[p] = log'[q] => p = q
      BY <2>2, <3>1, <3>2
    <3>6. \A g \in Files : offer'[g] \in {"stored", "accepted"} => g \in original'
      BY <2>1, <3>3
    <3> QED
      BY <3>4, <3>5, <3>6
  <2>5. CASE log' = log /\ offer' = [offer EXCEPT ![f] = "undo"]
    BY <2>1, <2>2, <2>5 DEF TypeOk
  <2> QED
    BY <2>3, <2>4, <2>5
<1>5. ASSUME NEW f \in FilesOf(r), RemoveOriginal(r, f) PROVE LogInv'
  <2>1. /\ f \in Files /\ offer[f] = "undo" /\ log' = log
        /\ offer' = [offer EXCEPT ![f] = "failing"] /\ original \ {f} \subseteq original'
    BY <1>5 DEF RemoveOriginal, FilesOf, streamVars
  <2>2. \A p \in 1..Len(log) : log[p] # f /\ log[p] \in Files
    BY <2>1 DEF TypeOk
  <2> QED
    BY <2>1, <2>2 DEF TypeOk
<1>7. ASSUME NEW f \in FilesOf(r), RecordRejection(r, f) PROVE LogInv'
  <2>1. /\ f \in Files /\ offer[f] = "failing" /\ log' = log
        /\ offer' = [offer EXCEPT ![f] = "rejected"] /\ original' = original
    BY <1>7 DEF RecordRejection, FilesOf, streamVars, storeVars
  <2>2. \A p \in 1..Len(log) : log[p] # f /\ log[p] \in Files
    BY <2>1 DEF TypeOk
  <2> QED
    BY <2>1, <2>2 DEF TypeOk
<1>6. CASE CountAccepted(r)
  BY <1>6 DEF CountAccepted, streamVars, storeVars
<1> QED
  BY <1>1, <1>2, <1>3, <1>4, <1>5, <1>6, <1>7 DEF RequestStep

\* Rows and derived objects do not notice the stream growing.
LEMMA OthersPhotos ==
  ASSUME TypeOk, MessagesInv, [Next]_vars, RowsInv, DerivedInv,
         UNCHANGED <<worker, last, watermarked, preview, rows>>
  PROVE  RowsInv' /\ DerivedInv'
<1>1. last \in Nat /\ last <= Len(log) /\ Len(log) \in Nat
  BY DEF TypeOk
<1>2. \A p \in 1..last : log'[p] = log[p]
  BY <1>1, LogGrows
<1>3. \A w \in Workers : Busy(w) => Batch(w) \subseteq 1..last /\ worker[w].at \in Batch(w)
  BY <1>1 DEF MessagesInv, Batch, TypeOk, WorkerRecord
<1>4. \A w \in Workers : Batch(w)' = Batch(w) /\ Busy(w)' = Busy(w)
  BY DEF Batch, Busy
<1>5. \A w \in Workers : Busy(w) => BatchFiles(w)' = BatchFiles(w) /\ Current(w)' = Current(w)
  BY <1>2, <1>3, <1>4 DEF BatchFiles, Current
<1>6. RowsInv'
  BY <1>2, <1>3, <1>4 DEF RowsInv
<1>7. DerivedInv'
  BY <1>2, <1>3, <1>4, <1>5 DEF DerivedInv, Busy, Settling
<1> QED
  BY <1>6, <1>7

\* A worker that reads a batch has no photo of it yet.
LEMMA ReadPhotos ==
  ASSUME TypeOk, MessagesInv, PhotosInv, NEW w \in Workers, ReadProcessingJobs(w)
  PROVE  PhotosInv'
<1>1. /\ log' = log /\ offer' = offer /\ UNCHANGED <<original, watermarked, preview, rows>>
      /\ last \in Nat /\ last' \in Nat /\ last < last' /\ last' <= Len(log) /\ Len(log) \in Nat
  <2>1. /\ log' = log /\ offer' = offer
        /\ UNCHANGED <<original, watermarked, preview, rows>>
    BY DEF ReadProcessingJobs, requestVars, storeVars
  <2>2. last \in Nat /\ Len(log) \in Nat
    BY DEF TypeOk
  <2>3. last' \in (last + 1) .. Len(log)
    BY ReadMoves
  <2> QED
    BY <2>1, <2>2, <2>3
<1>2. LogInv'
  BY <1>1 DEF PhotosInv, LogInv
<1>3. \A v \in Workers : \/ worker'[v] = worker[v]
                         \/ worker'[v].pc = "move" /\ worker'[v].lo = last + 1 /\ worker'[v].hi = last'
  BY ReadMoves
<1>4. RowsInv'
  <2>1. \A f \in rows : \E p \in 1..last' : log[p] = f
    BY <1>1 DEF PhotosInv, RowsInv
  <2>2. ASSUME NEW v \in Workers, NEW p \in Batch(v)', Busy(v)', log'[p] \in rows'
        PROVE  /\ worker'[v].pc \in Settling
               /\ p <= worker'[v].at
               /\ p = worker'[v].at => worker'[v].pc # "create"
    <3>1. CASE worker'[v] = worker[v]
      BY <1>1, <2>2, <3>1 DEF PhotosInv, RowsInv, Batch, Busy
    <3>2. CASE worker'[v].lo = last + 1 /\ worker'[v].hi = last'
      <4>1. p \in 1..Len(log) /\ p > last
        BY <1>1, <2>2, <3>2 DEF Batch
      <4>2. PICK q \in 1..last : log[q] = log[p]
        BY <1>1, <2>2 DEF PhotosInv, RowsInv
      <4> QED
        BY <1>1, <4>1, <4>2 DEF PhotosInv, LogInv
    <3> QED
      BY <1>3, <3>1, <3>2
  <2>3. rows' \subseteq (watermarked \cap preview)'
    BY <1>1 DEF PhotosInv, RowsInv
  <2> QED
    BY <1>1, <2>1, <2>2, <2>3 DEF RowsInv
<1>5. DerivedInv'
  BY <1>1, <1>3 DEF PhotosInv, DerivedInv, BatchFiles, Batch, Current, Settling
<1> QED
  BY <1>2, <1>4, <1>5 DEF PhotosInv

\* Files of different workers' batches, and of different messages, differ.
LEMMA BatchesApart ==
  ASSUME TypeOk, MessagesInv, LogInv, NEW w \in Workers, Busy(w)
  PROVE  /\ \A p \in Batch(w) : p \in 1..last /\ p \in 1..Len(log)
         /\ \A p, q \in Batch(w) : log[p] = log[q] => p = q
         /\ \A v \in Workers \ {w} : Busy(v) =>
              \A p \in Batch(w), q \in Batch(v) : log[p] # log[q]
         /\ worker[w].at \in Batch(w)
<1>1. \A v \in Workers : worker[v].hi \in Nat /\ worker[v].lo \in Nat /\ worker[v].at \in Nat
  BY DEF TypeOk, WorkerRecord
<1>2. last \in Nat /\ Len(log) \in Nat /\ last <= Len(log)
  BY DEF TypeOk
<1>3. \A v \in Workers : Busy(v) => \A p \in Batch(v) : p \in 1..last /\ p \in 1..Len(log)
  BY <1>1, <1>2 DEF MessagesInv, Batch
<1>4. \A v \in Workers \ {w} : Busy(v) => \A p \in Batch(w), q \in Batch(v) : p # q
  BY <1>1 DEF MessagesInv, Batch
<1>5. worker[w].at \in Batch(w)
  BY <1>1 DEF MessagesInv, Batch
<1> QED
  BY <1>3, <1>4, <1>5 DEF LogInv

\* What a worker's step does to objects and photos: only the cleanup of a failed
\* second put takes an object away, the watermarked version of the file it is about.
LEMMA ObjectSteps ==
  ASSUME TypeOk, MessagesInv, NEW w \in Workers,
         WorkerStep(w) \/ WorkerCrash(w), ~ReadProcessingJobs(w)
  PROVE  /\ UNCHANGED <<offer, log, last, original>>
         /\ preview \subseteq preview'
         /\ watermarked \ {Current(w)} \subseteq watermarked'
         /\ worker[w].pc # "remove" => watermarked \subseteq watermarked'
         /\ rows' = rows \/ (rows' = rows \cup {Current(w)} /\ worker[w].pc = "create")
<1>1. UNCHANGED <<offer, log, last>>
  BY WorkerStays DEF requestVars
<1>2. CASE CudaSucceeds(w)
  BY <1>1, <1>2 DEF CudaSucceeds
<1>3. CASE CudaFails(w)
  BY <1>1, <1>3 DEF CudaFails
<1>4. CASE PutWatermarked(w)
  BY <1>1, <1>4 DEF PutWatermarked
<1>5. CASE PutPreview(w)
  BY <1>1, <1>5 DEF PutPreview
<1>6. CASE CreatePhoto(w)
  BY <1>1, <1>6 DEF CreatePhoto, storeVars
<1>7. CASE MoveJobToProcessing(w) \/ MoveToCompleted(w) \/ MoveToFailed(w)
           \/ RecordFailure(w) \/ AckProcessingJob(w) \/ WorkerCrash(w)
  BY <1>1, <1>7 DEF MoveJobToProcessing, MoveToCompleted, MoveToFailed, RecordFailure,
                    AckProcessingJob, WorkerCrash, storeVars
<1>8. CASE RemoveWatermarked(w)
  BY <1>1, <1>8 DEF RemoveWatermarked
<1> QED
  BY <1>2, <1>3, <1>4, <1>5, <1>6, <1>7, <1>8 DEF WorkerStep

\* In the settling loop, a worker is at "create" only when it has come to a new
\* message, and a created row sends it on.
LEMMA SettlingSteps ==
  ASSUME TypeOk, MessagesInv, NEW w \in Workers, worker[w].pc \in Settling,
         WorkerStep(w) \/ WorkerCrash(w), worker'[w].pc = "create"
  PROVE  worker'[w].at = worker[w].at + 1 /\ rows' = rows
<1>1. Busy(w) /\ ~ReadProcessingJobs(w)
  BY DEF Busy, Settling, ReadProcessingJobs
<1>2. CASE CreatePhoto(w)
  BY <1>1, <1>2, GoOnMoves DEF CreatePhoto, AfterCreate, WorkerPcs
<1>3. CASE MoveToCompleted(w)
  BY <1>1, <1>3, GoOnMoves DEF MoveToCompleted, WorkerPcs
<1>4. CASE MoveToFailed(w)
  BY <1>1, <1>4, GoOnMoves DEF MoveToFailed, WorkerPcs
<1>7. CASE RecordFailure(w)
  BY <1>1, <1>7, GoOnMoves DEF RecordFailure, WorkerPcs
<1>5. CASE AckProcessingJob(w)
  <2>1. worker[w].pc = "ack" /\ rows' = rows
    BY <1>5 DEF AckProcessingJob
  <2>2. HasNext(w)
    BY <1>5 DEF AckProcessingJob, IdleWorker, TypeOk
  <2>3. PICK pc \in {"create", "failed"} : Advance(w, pc)
    BY <1>5, <2>2 DEF AckProcessingJob
  <2> QED
    BY <1>1, <2>1, <2>2, <2>3, AdvanceMoves DEF WorkerPcs
<1>6. CASE WorkerCrash(w)
  BY <1>6 DEF WorkerCrash, IdleWorker, TypeOk
<1> QED
  BY <1>2, <1>3, <1>4, <1>5, <1>6, <1>7
  DEF WorkerStep, Settling, ReadProcessingJobs, MoveJobToProcessing, CudaSucceeds,
      CudaFails, PutWatermarked, PutPreview, RemoveWatermarked

\* A worker that reads nothing has photos only up to where it is.
LEMMA StayRows ==
  ASSUME TypeOk, MessagesInv, PhotosInv, NEW w \in Workers,
         WorkerStep(w) \/ WorkerCrash(w), ~ReadProcessingJobs(w)
  PROVE  RowsInv'
<1>1. /\ Busy(w) /\ UNCHANGED <<log, last>>
      /\ \A v \in Workers \ {w} : worker'[v] = worker[v]
      /\ worker[w].at \in Nat /\ worker'[w].at \in Nat
      /\ worker[w].at \in 1..last /\ worker[w].at \in Batch(w)
  <2>1. /\ Busy(w) /\ \A v \in Workers \ {w} : worker'[v] = worker[v]
        /\ worker' \in [Workers -> WorkerRecord] /\ UNCHANGED <<log, last>>
    BY WorkerStays DEF StaysInBatch
  <2> QED
    BY <2>1, CurrentType, BatchesApart DEF TypeOk, WorkerRecord, PhotosInv
<1>2. Busy(w)' => /\ Batch(w)' = Batch(w)
                  /\ worker[w].pc \in Settling =>
                       worker'[w].pc \in Settling /\ worker'[w].at >= worker[w].at
  BY WorkerStays DEF StaysInBatch, Busy, Batch
<1>3. rows' = rows \/ (rows' = rows \cup {Current(w)} /\ worker[w].pc = "create")
  BY ObjectSteps
<1>4. \A f \in rows' : \E p \in 1..last' : log'[p] = f
  BY <1>1, <1>3 DEF PhotosInv, RowsInv, Current
<1>5. ASSUME NEW v \in Workers, NEW p \in Batch(v)', Busy(v)', log'[p] \in rows'
      PROVE  /\ worker'[v].pc \in Settling
             /\ p <= worker'[v].at
             /\ p = worker'[v].at => worker'[v].pc # "create"
  <2>1. Batch(v)' = Batch(v) /\ Busy(v)
    BY <1>1, <1>2, <1>5 DEF Batch, Busy
  <2>2. CASE v # w
    <3>1. log[p] # Current(w)
      BY <1>1, <2>1, <2>2, BatchesApart DEF PhotosInv, Current
    <3>2. log[p] \in rows
      BY <1>1, <1>3, <1>5, <3>1
    <3> QED
      BY <1>1, <2>1, <2>2, <3>2 DEF PhotosInv, RowsInv
  <2>3. CASE v = w
    <3>1. p \in Nat
      BY <1>5, <2>1, <2>3, BatchesApart DEF PhotosInv
    <3>2. worker[w].pc \in Settling /\ p <= worker[w].at
      <4>1. CASE log[p] \in rows
        BY <1>5, <2>1, <2>3, <4>1 DEF PhotosInv, RowsInv
      <4>2. CASE log[p] \notin rows
        <5>1. log[p] = Current(w) /\ worker[w].pc = "create"
          BY <1>1, <1>3, <1>5, <4>2
        <5>2. p = worker[w].at
          BY <1>1, <2>1, <2>3, <1>5, <5>1, BatchesApart DEF PhotosInv, Current
        <5> QED
          BY <3>1, <5>1, <5>2 DEF Settling
      <4> QED
        BY <4>1, <4>2
    <3>3. p <= worker'[w].at /\ worker'[w].pc \in Settling
      BY <1>1, <1>2, <1>5, <2>3, <3>1, <3>2
    <3>4. p = worker'[w].at => worker'[w].pc # "create"
      BY <1>1, <3>1, <3>2, SettlingSteps
    <3> QED
      BY <2>3, <3>3, <3>4
  <2> QED
    BY <2>2, <2>3
<1>6. rows' \subseteq watermarked' \cap preview'
  <2>1. CASE worker[w].pc = "remove"
    <3>1. rows' = rows
      BY <1>3, <2>1
    <3>2. Current(w) \notin rows
      BY <1>1, <2>1 DEF PhotosInv, RowsInv, Current, Settling
    <3> QED
      BY <3>1, <3>2, ObjectSteps DEF PhotosInv, RowsInv
  <2>2. CASE worker[w].pc # "remove"
    <3>1. watermarked \subseteq watermarked' /\ preview \subseteq preview'
      BY <2>2, ObjectSteps
    <3>2. worker[w].pc = "create" => Current(w) \in watermarked \cap preview
      BY <1>1 DEF PhotosInv, DerivedInv, BatchFiles, Current, Settling
    <3> QED
      BY <1>3, <3>1, <3>2 DEF PhotosInv, RowsInv
  <2> QED
    BY <2>1, <2>2
<1> QED
  BY <1>4, <1>5, <1>6 DEF RowsInv

\* DerivedInv for one worker.
DerivedOf(w) ==
  /\ worker[w].pc \in {"create", "completed"} => worker[w].batchOk
  /\ worker[w].pc \in Settling /\ worker[w].batchOk =>
       BatchFiles(w) \subseteq watermarked \cap preview
  /\ worker[w].pc \in {"watermark", "preview"} =>
       \A p \in Batch(w) : p < worker[w].at => log[p] \in watermarked \cap preview
  /\ worker[w].pc = "preview" => Current(w) \in watermarked

\* A worker that comes to the first message with nothing to show for it.
LEMMA FromFirstDerived ==
  ASSUME TypeOk, MessagesInv, NEW w \in Workers, Busy(w), UNCHANGED log,
         NEW pc \in {"move", "cuda", "watermark", "failed"}, NEW ok \in BOOLEAN,
         FromFirst(w, pc, ok), pc = "failed" => ~ok
  PROVE  DerivedOf(w)'
<1>1. /\ worker'[w].pc = pc /\ worker'[w].at = worker[w].lo
      /\ worker'[w].lo = worker[w].lo /\ worker'[w].hi = worker[w].hi
      /\ worker'[w].batchOk = ok
  BY FromFirstMoves DEF WorkerPcs
<1>2. worker[w].lo \in Nat /\ worker[w].hi \in Nat
  BY DEF TypeOk, WorkerRecord
<1>3. \A p \in Batch(w)' : ~(p < worker'[w].at)
  BY <1>1, <1>2 DEF Batch
<1> QED
  BY <1>1, <1>3 DEF DerivedOf, Settling

\* The objects of a worker's own batch are as far as it is.
LEMMA StepDerived ==
  ASSUME TypeOk, MessagesInv, DerivedInv, NEW w \in Workers,
         WorkerStep(w) \/ WorkerCrash(w), ~ReadProcessingJobs(w)
  PROVE  DerivedOf(w)'
<1>1. Busy(w) /\ UNCHANGED <<log, last>> /\ DerivedOf(w)
  BY WorkerStays DEF DerivedInv, DerivedOf
<1>2. /\ worker[w].at \in Nat /\ worker[w].lo \in Nat /\ worker[w].hi \in Nat
      /\ worker[w].at \in Batch(w)
  BY <1>1 DEF TypeOk, WorkerRecord, MessagesInv, Batch
<1>3. preview \subseteq preview'
      /\ (worker[w].pc # "remove" => watermarked \subseteq watermarked')
  BY ObjectSteps
<1>4. CASE MoveJobToProcessing(w)
  <2>1. CASE HasNext(w)
    <3>1. worker'[w].pc = "move"
      BY <1>1, <1>4, <2>1, AdvanceMoves DEF MoveJobToProcessing, WorkerPcs
    <3> QED
      BY <3>1 DEF DerivedOf, Settling
  <2>2. CASE ~HasNext(w)
    <3>1. PICK pc \in Selected : FromFirst(w, pc, TRUE)
      BY <1>4, <2>2 DEF MoveJobToProcessing
    <3>2. pc \in {"cuda", "watermark"}
      BY <3>1 DEF Selected
    <3> QED
      BY <1>1, <3>1, <3>2, FromFirstDerived
  <2> QED
    BY <2>1, <2>2
<1>5. CASE CudaSucceeds(w)
  <2>1. /\ worker'[w].pc = "create" /\ worker'[w].batchOk = TRUE
        /\ worker'[w].lo = worker[w].lo /\ worker'[w].hi = worker[w].hi
    BY <1>1, <1>5, FromFirstMoves DEF CudaSucceeds, WorkerPcs
  <2>2. BatchFiles(w)' = BatchFiles(w)
    BY <1>1, <2>1 DEF BatchFiles, Batch
  <2>3. BatchFiles(w) \subseteq watermarked' \cap preview'
    BY <1>5 DEF CudaSucceeds
  <2> QED
    BY <2>1, <2>2, <2>3 DEF DerivedOf, Settling
<1>6. CASE CudaFails(w)
  BY <1>1, <1>6, FromFirstDerived DEF CudaFails
<1>7. CASE PutWatermarked(w)
  <2>1. CASE FromFirst(w, "failed", FALSE)
    BY <1>1, <2>1, FromFirstDerived
  <2>2. CASE GoOn(w, "preview") /\ Current(w) \in watermarked'
    <3>1. /\ worker'[w].pc = "preview" /\ worker'[w].at = worker[w].at
          /\ worker'[w].lo = worker[w].lo /\ worker'[w].hi = worker[w].hi
      BY <1>1, <2>2, GoOnMoves DEF WorkerPcs
    <3>2. Current(w)' = Current(w) /\ Batch(w)' = Batch(w)
      BY <1>1, <3>1 DEF Current, Batch
    <3> QED
      BY <1>1, <1>3, <1>7, <2>2, <3>1, <3>2 DEF DerivedOf, Settling, PutWatermarked
  <2> QED
    BY <1>7, <2>1, <2>2 DEF PutWatermarked, Applied, Errs
<1>8. CASE PutPreview(w)
  <2>1. CASE GoOn(w, "remove")
    <3>1. worker'[w].pc = "remove"
      BY <1>1, <2>1, GoOnMoves DEF WorkerPcs
    <3> QED
      BY <3>1 DEF DerivedOf, Settling
  <2>2. CASE /\ watermarked' = watermarked /\ Current(w) \in preview'
             /\ IF HasNext(w) THEN Advance(w, "watermark") ELSE FromFirst(w, "create", TRUE)
    <3>1. Current(w) \in watermarked' \cap preview'
      BY <1>1, <1>8, <2>2 DEF DerivedOf, PutPreview
    <3>2. \A p \in Batch(w) : p <= worker[w].at => log[p] \in watermarked' \cap preview'
      <4>1. \A p \in Batch(w) : p <= worker[w].at => p < worker[w].at \/ p = worker[w].at
        BY <1>2 DEF Batch
      <4>2. \A p \in Batch(w) : p < worker[w].at => log[p] \in watermarked \cap preview
        BY <1>1, <1>8 DEF DerivedOf, PutPreview
      <4> QED
        BY <1>3, <2>2, <3>1, <4>1, <4>2 DEF Current
    <3>3. CASE HasNext(w)
      <4>1. /\ worker'[w].pc = "watermark" /\ worker'[w].at = worker[w].at + 1
            /\ worker'[w].lo = worker[w].lo /\ worker'[w].hi = worker[w].hi
        BY <1>1, <2>2, <3>3, AdvanceMoves DEF WorkerPcs
      <4>2. \A p \in Batch(w)' : p < worker'[w].at => p \in Batch(w) /\ p <= worker[w].at
        BY <1>2, <4>1 DEF Batch
      <4> QED
        BY <1>1, <3>2, <4>1, <4>2 DEF DerivedOf, Settling
    <3>4. CASE ~HasNext(w)
      <4>1. /\ worker'[w].pc = "create" /\ worker'[w].batchOk = TRUE
            /\ worker'[w].lo = worker[w].lo /\ worker'[w].hi = worker[w].hi
        BY <1>1, <2>2, <3>4, FromFirstMoves DEF WorkerPcs
      <4>2. \A p \in Batch(w)' : p \in Batch(w) /\ p <= worker[w].at
        BY <1>2, <3>4, <4>1 DEF Batch, HasNext
      <4>3. BatchFiles(w)' \subseteq watermarked' \cap preview'
        BY <1>1, <3>2, <4>2 DEF BatchFiles
      <4> QED
        BY <4>1, <4>3 DEF DerivedOf, Settling
    <3> QED
      BY <3>3, <3>4
  <2> QED
    BY <1>8, <2>1, <2>2 DEF PutPreview, Applied, Errs
<1>9. CASE worker[w].pc \in Settling
  <2>0. Busy(w)' => /\ worker'[w].lo = worker[w].lo /\ worker'[w].hi = worker[w].hi
                    /\ worker'[w].pc \in Settling
    BY <1>9, WorkerStays DEF StaysInBatch, Busy
  <2>1. CASE Busy(w)'
    <3>1. BatchFiles(w)' = BatchFiles(w)
      BY <1>1, <2>0, <2>1 DEF BatchFiles, Batch
    <3>2. watermarked \subseteq watermarked'
      BY <1>3, <1>9 DEF Settling
    <3>3. /\ worker'[w].batchOk = worker[w].batchOk
          /\ worker'[w].pc \in {"create", "completed"} => worker'[w].batchOk
      <4>1. CASE CreatePhoto(w)
        <5>1. PICK pc \in {"failed", "completed"} : GoOn(w, pc)
          BY <4>1 DEF CreatePhoto, AfterCreate
        <5>2. worker[w].batchOk
          BY <1>1, <4>1 DEF CreatePhoto, DerivedOf
        <5> QED
          BY <1>1, <5>1, <5>2, GoOnMoves DEF WorkerPcs
      <4>2. CASE MoveToCompleted(w)
        BY <1>1, <4>2, GoOnMoves DEF MoveToCompleted, WorkerPcs
      <4>3. CASE MoveToFailed(w)
        BY <1>1, <4>3, GoOnMoves DEF MoveToFailed, WorkerPcs
      <4>6. CASE RecordFailure(w)
        BY <1>1, <4>6, GoOnMoves DEF RecordFailure, WorkerPcs
      <4>4. CASE AckProcessingJob(w)
        <5>1. HasNext(w)
          BY <2>1, <4>4 DEF AckProcessingJob, IdleWorker, Busy, TypeOk
        <5>2. Advance(w, IF worker[w].batchOk THEN "create" ELSE "failed")
          BY <4>4, <5>1 DEF AckProcessingJob
        <5> QED
          BY <1>1, <5>1, <5>2, AdvanceMoves DEF WorkerPcs
      <4>5. CASE WorkerCrash(w)
        BY <2>1, <4>5 DEF WorkerCrash, IdleWorker, Busy, TypeOk
      <4> QED
        BY <1>9, <4>1, <4>2, <4>3, <4>4, <4>5, <4>6
        DEF WorkerStep, Settling, ReadProcessingJobs, MoveJobToProcessing, CudaSucceeds,
            CudaFails, PutWatermarked, PutPreview, RemoveWatermarked
    <3> QED
      BY <1>1, <1>3, <1>9, <2>0, <2>1, <3>1, <3>2, <3>3 DEF DerivedOf, Settling
  <2>2. CASE ~Busy(w)'
    BY <2>2 DEF Busy, DerivedOf, Settling
  <2> QED
    BY <2>1, <2>2
<1>10. CASE WorkerCrash(w)
  BY <1>10 DEF WorkerCrash, IdleWorker, DerivedOf, Settling, TypeOk
<1>11. CASE RemoveWatermarked(w)
  BY <1>1, <1>11, FromFirstDerived DEF RemoveWatermarked
<1> QED
  BY <1>4, <1>5, <1>6, <1>7, <1>8, <1>9, <1>10, <1>11
  DEF WorkerStep, Settling, CreatePhoto, MoveToCompleted, MoveToFailed, RecordFailure,
      AckProcessingJob

\* So are those of all batches.
LEMMA StayDerived ==
  ASSUME TypeOk, MessagesInv, PhotosInv, NEW w \in Workers,
         WorkerStep(w) \/ WorkerCrash(w), ~ReadProcessingJobs(w)
  PROVE  DerivedInv'
<1>1. /\ Busy(w) /\ UNCHANGED <<log, last>>
      /\ \A v \in Workers \ {w} : worker'[v] = worker[v]
  BY WorkerStays DEF StaysInBatch
<1>2. preview \subseteq preview' /\ watermarked \ {Current(w)} \subseteq watermarked'
  BY ObjectSteps
<1>3. ASSUME NEW v \in Workers \ {w} PROVE DerivedOf(v)'
  <2>1. DerivedOf(v)
    BY DEF PhotosInv, DerivedInv, DerivedOf
  <2>2. Batch(v)' = Batch(v) /\ BatchFiles(v)' = BatchFiles(v) /\ Current(v)' = Current(v)
    BY <1>1 DEF Batch, BatchFiles, Current
  <2>3. CASE Busy(v)
    <3>1. /\ \A p \in Batch(v) : log[p] # Current(w)
          /\ worker[v].at \in Batch(v)
      BY <1>1, <2>3, BatchesApart DEF PhotosInv, Current
    <3> QED
      BY <1>1, <1>2, <2>1, <2>2, <3>1 DEF DerivedOf, BatchFiles, Current, Settling
  <2>4. CASE ~Busy(v)
    BY <1>1, <2>4 DEF Busy, DerivedOf, Settling
  <2> QED
    BY <2>3, <2>4
<1>4. DerivedOf(w)'
  BY StepDerived DEF PhotosInv
<1> QED
  BY <1>3, <1>4 DEF DerivedInv, DerivedOf

\* PhotosInv is inductive when XADD is definite.
LEMMA NextPhotos ==
  ASSUME XAddIsDefinite, TypeOk, MessagesInv, PhotosInv, [Next]_vars
  PROVE  PhotosInv'
<1>1. ASSUME NEW r \in Requests, RequestStep(r) PROVE PhotosInv'
  <2>1. UNCHANGED <<worker, last, watermarked, preview, rows>>
    BY <1>1 DEF RequestStep, Refuse, Begin, PutOriginal, EnqueueProcessingJob,
                RemoveOriginal, RecordRejection, CountAccepted, streamVars, storeVars
  <2> QED
    BY <1>1, <2>1, RequestLog, OthersPhotos DEF PhotosInv
<1>2. ASSUME NEW r \in Requests, RequestCrash(r) PROVE PhotosInv'
  <2>1. UNCHANGED <<offer, log, last, original, watermarked, preview, rows, worker>>
    BY <1>2 DEF RequestCrash, streamVars, storeVars
  <2>2. LogInv'
    BY <2>1 DEF PhotosInv, LogInv
  <2> QED
    BY <2>1, <2>2, OthersPhotos DEF PhotosInv
<1>3. ASSUME NEW w \in Workers, WorkerStep(w) \/ WorkerCrash(w) PROVE PhotosInv'
  <2>1. CASE ReadProcessingJobs(w)
    BY <2>1, ReadPhotos
  <2>2. CASE ~ReadProcessingJobs(w)
    <3>1. LogInv'
      BY <1>3, <2>2, ObjectSteps DEF PhotosInv, LogInv
    <3> QED
      BY <1>3, <2>2, <3>1, StayRows, StayDerived DEF PhotosInv
  <2> QED
    BY <2>1, <2>2
<1>4. ASSUME NEW u \in Uploads, Expire(u) PROVE PhotosInv'
  <2>1. UNCHANGED <<offer, log, last, original, watermarked, preview, rows, worker>>
    BY <1>4 DEF Expire, requestVars, streamVars, storeVars
  <2>2. LogInv'
    BY <2>1 DEF PhotosInv, LogInv
  <2> QED
    BY <2>1, <2>2, OthersPhotos DEF PhotosInv
<1>5. CASE UNCHANGED vars
  <2>1. UNCHANGED <<offer, log, last, original, watermarked, preview, rows, worker>>
    BY <1>5 DEF vars, requestVars, streamVars, storeVars
  <2>2. LogInv'
    BY <2>1 DEF PhotosInv, LogInv
  <2> QED
    BY <2>1, <2>2, OthersPhotos DEF PhotosInv
<1> QED
  BY <1>1, <1>2, <1>3, <1>4, <1>5 DEF Next

\* In every behaviour with a definite XADD, photos come from delivered messages and
\* have the objects that go with them.
THEOREM PhotosInvariant ==
  ASSUME XAddIsDefinite
  PROVE  Spec => [](TypeOk /\ MessagesInv /\ PhotosInv)
<1>1. Init => TypeOk /\ MessagesInv /\ PhotosInv
  BY InitTypeOk, InitMessages, InitPhotos
<1>2. TypeOk /\ MessagesInv /\ PhotosInv /\ [Next]_vars
        => (TypeOk /\ MessagesInv /\ PhotosInv)'
  BY NextTypeAndMessages, NextPhotos
<1> QED
  BY <1>1, <1>2, PTL DEF Spec

\* With a definite XADD, no interleaving of requests and workers, no failure of
\* any other call and no crash leaves a photo without one of its three objects.
THEOREM PhotosAreWhole ==
  ASSUME XAddIsDefinite
  PROVE  Spec => []PhotoIsWhole
<1>1. TypeOk /\ PhotosInv => PhotoIsWhole
  <2> SUFFICES ASSUME TypeOk, PhotosInv, NEW f \in rows PROVE f \in original
    BY DEF PhotoIsWhole, PhotosInv, RowsInv
  <2>1. PICK p \in 1..last : log[p] = f
    BY DEF PhotosInv, RowsInv
  <2>2. p \in 1..Len(log)
    BY DEF TypeOk
  <2> QED
    BY <2>1, <2>2 DEF PhotosInv, LogInv, TypeOk
<1> QED
  BY <1>1, PhotosInvariant, PTL

\* A file the client was told had failed is in no message, so never a photo.
THEOREM RejectedStaysOut ==
  ASSUME XAddIsDefinite
  PROVE  Spec => []RejectedIsNotQueued
<1>1. TypeOk /\ PhotosInv => RejectedIsNotQueued
  BY DEF PhotosInv, LogInv, RejectedIsNotQueued
<1> QED
  BY <1>1, PhotosInvariant, PTL

-----------------------------------------------------------------------------
(* The completed counter, when no transaction on the hash is executed twice.*)

HashIsNotRetried == Retried \cap Outcome["hash"] = {}

\* Sets of files are finite, and counted as they include each other.
LEMMA SubsetOfFiles ==
  ASSUME NEW C, NEW D, C \subseteq D, D \subseteq Files
  PROVE  /\ IsFiniteSet(C) /\ IsFiniteSet(D)
         /\ Cardinality(C) \in Nat /\ Cardinality(D) \in Nat
         /\ Cardinality(C) <= Cardinality(D)
<1>1. IsFiniteSet(D) /\ IsFiniteSet(C)
  BY FS_Subset, ActorsAssumption
<1> QED
  BY <1>1, FS_Subset, FS_CardinalityType

\* What was counted of an upload is finite, and a part of its photos.
LEMMA CreditedFinite ==
  ASSUME TypeOk, NEW u \in Uploads
  PROVE  /\ IsFiniteSet(rows \cap FilesOfUpload(u))
         /\ IsFiniteSet(Credited(u))
         /\ Cardinality(Credited(u)) \in Nat
         /\ Cardinality(Credited(u)) <= Cardinality(rows \cap FilesOfUpload(u))
<1>1. /\ Credited(u) \subseteq rows \cap FilesOfUpload(u)
      /\ rows \cap FilesOfUpload(u) \subseteq Files
  BY DEF Credited, TypeOk
<1> QED
  BY <1>1, SubsetOfFiles

\* At first nothing is counted.
LEMMA InitCredit == Init => CreditInv
<1> SUFFICES ASSUME Init PROVE CreditInv
  OBVIOUS
<1>1. Crediting = {} /\ \A u \in Uploads : Credited(u) = {}
  BY DEF Init, Crediting, Credited, IdleWorker
<1>2. \A u \in Uploads : hash[u].completed = 0
  BY DEF Init, Absent
<1> QED
  BY <1>1, <1>2, FS_EmptySet DEF CreditInv

\* Only MoveToCompleted raises a completed counter.
LEMMA CompletedSteps ==
  ASSUME TypeOk, MessagesInv, [Next]_vars, NEW u \in Uploads,
         \A w \in Workers : ~MoveToCompleted(w)
  PROVE  hash'[u].completed = hash[u].completed \/ hash'[u].completed = 0
<1>1. hash \in [Uploads -> StatusRecord]
  BY DEF TypeOk
<1>2. \A h \in StatusRecord, n \in Int :
        /\ InitUploadStatus(h).completed = h.completed
        /\ AddUploadCounters(h, n).completed = h.completed
        /\ MoveQueuedToProcessing(h, n).completed = h.completed
        /\ MoveProcessingToFailed(h, n).completed = h.completed
  BY DEF StatusRecord, InitUploadStatus, AddUploadCounters, MoveQueuedToProcessing,
         MoveProcessingToFailed
<1>3. CASE UNCHANGED hash
  BY <1>3
<1>4. ASSUME NEW r \in Requests, Begin(r)
      PROVE  hash'[u].completed = hash[u].completed
  <2> DEFINE h == InitUploadStatus(hash[UploadOf[r]])
  <2>1. PICK o : hash' = [hash EXCEPT ![UploadOf[r]] = Result(o, @, h, h)]
    BY <1>4 DEF Begin
  <2>2. hash[UploadOf[r]] \in StatusRecord
    BY <1>1, ActorsAssumption
  <2>3. h.completed = hash[UploadOf[r]].completed
    BY <1>2, <2>2
  <2> QED
    BY <1>1, <2>1, <2>3 DEF Result
<1>5. ASSUME NEW r \in Requests, CountAccepted(r), ~UNCHANGED hash
      PROVE  hash'[u].completed = hash[u].completed
  <2> DEFINE n == Cardinality(Accepted(r))
             h == AddUploadCounters(hash[UploadOf[r]], n)
             hh(k) == AddUploadCounters(hash[UploadOf[r]], k * n)
  <2>1. PICK o \in Outcome["hash"], k \in 2..Sendings :
          hash' = [hash EXCEPT ![UploadOf[r]] = Result(o, @, h, hh(k))]
    BY <1>5 DEF CountAccepted
  <2>2. n \in Int /\ k * n \in Int
    BY FilesOfFinite, FS_CardinalityType
  <2>3. hash[UploadOf[r]] \in StatusRecord
    BY <1>1, ActorsAssumption
  <2>4. h.completed = hash[UploadOf[r]].completed /\ hh(k).completed = hash[UploadOf[r]].completed
    BY <1>2, <2>2, <2>3
  <2> QED
    BY <1>1, <2>1, <2>4 DEF Result
<1>6. ASSUME NEW w \in Workers, MoveJobToProcessing(w)
      PROVE  hash'[u].completed = hash[u].completed
  <2> DEFINE t == UploadOfFile(Current(w))
             h(k) == MoveQueuedToProcessing(hash[t], k)
  <2>1. PICK o \in Outcome["hash"], k \in 2..Sendings :
          hash' = [hash EXCEPT ![t] = Result(o, @, h(1), h(k))]
    BY <1>6 DEF MoveJobToProcessing
  <2>2. hash[t] \in StatusRecord
    BY <1>1, <1>6, CurrentType DEF MoveJobToProcessing, Busy
  <2>4. h(1).completed = hash[t].completed /\ h(k).completed = hash[t].completed
    BY <1>2, <2>2
  <2> QED
    BY <1>1, <2>1, <2>4 DEF Result
<1>7. ASSUME NEW w \in Workers, MoveToFailed(w)
      PROVE  hash'[u].completed = hash[u].completed
  <2> DEFINE t == UploadOfFile(Current(w))
             h(k) == MoveProcessingToFailed(hash[t], k)
  <2>1. PICK o \in Outcome["hash"], k \in 2..Sendings :
          hash' = [hash EXCEPT ![t] = Result(o, @, h(1), h(k))]
    BY <1>7 DEF MoveToFailed
  <2>2. hash[t] \in StatusRecord
    BY <1>1, <1>7, CurrentType DEF MoveToFailed, Busy
  <2>4. h(1).completed = hash[t].completed /\ h(k).completed = hash[t].completed
    BY <1>2, <2>2
  <2> QED
    BY <1>1, <2>1, <2>4 DEF Result
<1>8. ASSUME NEW t \in Uploads, Expire(t)
      PROVE  hash'[u].completed = hash[u].completed \/ hash'[u].completed = 0
  BY <1>1, <1>8 DEF Expire, Absent
<1>9. \/ UNCHANGED hash
      \/ \E r \in Requests : Begin(r) \/ CountAccepted(r)
      \/ \E w \in Workers : MoveJobToProcessing(w) \/ MoveToFailed(w)
      \/ \E t \in Uploads : Expire(t)
  BY DEF Next, vars, statusVars, RequestStep, Refuse, PutOriginal, EnqueueProcessingJob,
         RemoveOriginal, RecordRejection, RequestCrash, WorkerStep, WorkerCrash,
         ReadProcessingJobs, CudaSucceeds, CudaFails, PutWatermarked, PutPreview,
         RemoveWatermarked, CreatePhoto, AckProcessingJob, RecordFailure
<1> QED
  BY <1>3, <1>4, <1>5, <1>6, <1>7, <1>8, <1>9

\* A step that credits nobody: no photo leaves the credited ones.
LEMMA OthersCredit ==
  ASSUME TypeOk, TypeOk', CreditInv, Crediting' \subseteq Crediting, rows' = rows,
         \A w \in Crediting' : Current(w)' = Current(w),
         \A u \in Uploads : hash'[u].completed = hash[u].completed \/ hash'[u].completed = 0
  PROVE  CreditInv'
<1>1. ASSUME NEW u \in Uploads
      PROVE  hash'[u].completed <= Cardinality(Credited(u)')
  <2>1. Credited(u) \subseteq Credited(u)'
    BY DEF Credited, FilesOfUpload, UploadOfFile
  <2>2. Credited(u)' \subseteq Files
    BY DEF Credited, TypeOk
  <2>3. /\ Cardinality(Credited(u)) \in Nat /\ Cardinality(Credited(u)') \in Nat
        /\ Cardinality(Credited(u)) <= Cardinality(Credited(u)')
    BY <2>1, <2>2, SubsetOfFiles
  <2>4. hash[u].completed \in Int
    BY DEF TypeOk, StatusRecord
  <2> QED
    BY <2>3, <2>4 DEF CreditInv
<1> QED
  BY <1>1 DEF CreditInv

\* The creator of a row is the only worker that will count it.
LEMMA CreateCredit ==
  ASSUME TypeOk, TypeOk', MessagesInv, CreditInv, NEW w \in Workers, CreatePhoto(w)
  PROVE  CreditInv'
<1>1. Busy(w) /\ w \notin Crediting /\ UNCHANGED <<hash, log>>
  BY DEF CreatePhoto, Busy, Crediting, statusVars, streamVars
<1>2. \A v \in Workers \ {w} : worker'[v] = worker[v]
  BY <1>1, WorkerStays DEF StaysInBatch, WorkerStep, CreatePhoto, ReadProcessingJobs
<1>3. \A v \in Crediting : Current(v)' = Current(v)
  BY <1>1, <1>2 DEF Crediting, Current
<1>4. CASE GoOn(w, "completed") /\ rows' = rows \cup {Current(w)} /\ Current(w) \notin rows
  <2>1. worker'[w].pc = "completed" /\ worker'[w].at = worker[w].at
    BY <1>1, <1>4, GoOnMoves DEF WorkerPcs
  <2>2. Current(w)' = Current(w) /\ Crediting' = Crediting \cup {w}
    BY <1>1, <1>2, <2>1 DEF Current, Crediting
  <2>3. \A u \in Uploads : Credited(u)' = Credited(u)
    BY <1>3, <1>4, <2>2 DEF Credited, FilesOfUpload, UploadOfFile, CreditInv
  <2> QED
    BY <1>1, <1>3, <1>4, <2>2, <2>3 DEF CreditInv
<1>5. CASE GoOn(w, "failed") /\ rows \subseteq rows'
  <2>1. worker'[w].pc = "failed"
    BY <1>1, <1>5, GoOnMoves DEF WorkerPcs
  <2>2. Crediting' = Crediting
    BY <1>1, <1>2, <2>1 DEF Crediting
  <2>3. ASSUME NEW u \in Uploads
        PROVE  hash'[u].completed <= Cardinality(Credited(u)')
    <3>1. rows' = rows \cup {Current(w)} \/ rows' = rows
      BY DEF CreatePhoto
    <3>2. Credited(u) \subseteq Credited(u)'
      BY <1>3, <1>5, <2>2 DEF Credited, FilesOfUpload, UploadOfFile
    <3>3. Credited(u)' \subseteq Files
      BY DEF Credited, TypeOk
    <3>4. /\ Cardinality(Credited(u)) \in Nat /\ Cardinality(Credited(u)') \in Nat
          /\ Cardinality(Credited(u)) <= Cardinality(Credited(u)')
      BY <3>2, <3>3, SubsetOfFiles
    <3>5. hash[u].completed \in Int
      BY DEF TypeOk, StatusRecord
    <3> QED
      BY <1>1, <3>4, <3>5 DEF CreditInv
  <2> QED
    BY <1>3, <1>5, <2>2, <2>3 DEF CreditInv
<1> QED
  BY <1>4, <1>5 DEF CreatePhoto, AfterCreate, Applied, Errs

\* A worker counts the photo it has created.
LEMMA CompletedCredit ==
  ASSUME HashIsNotRetried, TypeOk, TypeOk', MessagesInv, CreditInv,
         NEW w \in Workers, MoveToCompleted(w)
  PROVE  CreditInv'
<1> DEFINE f == Current(w)
           t == UploadOfFile(f)
<1>1. Busy(w) /\ w \in Crediting /\ f \in rows /\ UNCHANGED <<rows, log>>
  BY DEF MoveToCompleted, Busy, Crediting, CreditInv, streamVars
<1>2. /\ \A v \in Workers \ {w} : worker'[v] = worker[v]
      /\ worker'[w].pc = "ack"
  BY <1>1, GoOnMoves DEF MoveToCompleted, WorkerPcs
<1>3. Crediting' = Crediting \ {w} /\ \A v \in Crediting \ {w} : Current(v)' = Current(v)
  BY <1>1, <1>2 DEF Crediting, Current
<1>4. t \in Uploads /\ f \in Files /\ hash \in [Uploads -> StatusRecord] /\ hash[t] \in StatusRecord
  BY <1>1, CurrentType DEF TypeOk
<1>5. /\ \A u \in Uploads \ {t} : hash'[u].completed = hash[u].completed
      /\ hash'[t].completed \in {hash[t].completed, hash[t].completed + 1}
  <2>1. PICK o \in Outcome["hash"], k \in 2..Sendings :
          hash' = [hash EXCEPT ![t] =
                     Result(o, @, MoveProcessingToCompleted(@, 1),
                            MoveProcessingToCompleted(@, k))]
    BY DEF MoveToCompleted
  <2>2. o \notin Retried
    BY <2>1 DEF HashIsNotRetried
  <2>3. hash' = [hash EXCEPT ![t] = hash[t]]
        \/ hash' = [hash EXCEPT ![t] = MoveProcessingToCompleted(hash[t], 1)]
    BY <2>1, <2>2 DEF Result
  <2>4. MoveProcessingToCompleted(hash[t], 1).completed = hash[t].completed + 1
    BY <1>4 DEF MoveProcessingToCompleted, StatusRecord
  <2> QED
    BY <1>4, <2>3, <2>4
<1>6. ASSUME NEW u \in Uploads
      PROVE  hash'[u].completed <= Cardinality(Credited(u)')
  <2>1. IsFiniteSet(Credited(u)) /\ IsFiniteSet(Credited(u)')
        /\ Cardinality(Credited(u)) \in Nat /\ Cardinality(Credited(u)') \in Nat
    <3>1. Credited(u) \subseteq Files /\ Credited(u)' \subseteq Files
      BY DEF Credited, TypeOk
    <3> QED
      BY <3>1, SubsetOfFiles
  <2>2. hash[u].completed \in Int /\ hash[u].completed <= Cardinality(Credited(u))
    BY DEF TypeOk, StatusRecord, CreditInv
  <2>3. CASE u = t
    <3>1. f \notin Credited(u)
      BY <1>1 DEF Credited
    <3>2. Credited(u)' = Credited(u) \cup {f}
      BY <1>1, <1>3, <1>4, <2>3 DEF Credited, CreditInv, FilesOfUpload, UploadOfFile
    <3>3. Cardinality(Credited(u)') = Cardinality(Credited(u)) + 1
      BY <2>1, <3>1, <3>2, FS_AddElement
    <3> QED
      BY <1>5, <2>1, <2>2, <2>3, <3>3
  <2>4. CASE u # t
    <3>1. Credited(u) \subseteq Credited(u)'
      BY <1>1, <1>3 DEF Credited, FilesOfUpload, UploadOfFile
    <3>2. Cardinality(Credited(u)) <= Cardinality(Credited(u)')
      BY <2>1, <3>1, FS_Subset
    <3> QED
      BY <1>5, <2>1, <2>2, <2>4, <3>2
  <2> QED
    BY <2>3, <2>4
<1> QED
  BY <1>1, <1>3, <1>6 DEF CreditInv

\* CreditInv is inductive when no status transaction is executed twice.
LEMMA NextCredit ==
  ASSUME HashIsNotRetried, TypeOk, MessagesInv, CreditInv, [Next]_vars
  PROVE  CreditInv'
<1>0. TypeOk'
  BY NextTypeAndMessages
<1>1. ASSUME NEW w \in Workers, CreatePhoto(w) PROVE CreditInv'
  BY <1>0, <1>1, CreateCredit
<1>2. ASSUME NEW w \in Workers, MoveToCompleted(w) PROVE CreditInv'
  BY <1>0, <1>2, CompletedCredit
<1>3. CASE \A w \in Workers : ~CreatePhoto(w) /\ ~MoveToCompleted(w)
  <2>1. rows' = rows
    BY <1>3 DEF Next, vars, RequestStep, Refuse, Begin, PutOriginal, EnqueueProcessingJob,
                RemoveOriginal, RecordRejection, CountAccepted, RequestCrash, Expire,
                WorkerStep, WorkerCrash, ReadProcessingJobs, MoveJobToProcessing,
                CudaSucceeds, CudaFails, PutWatermarked, PutPreview, RemoveWatermarked,
                MoveToFailed, RecordFailure, AckProcessingJob
  <2>2. \A u \in Uploads : hash'[u].completed = hash[u].completed \/ hash'[u].completed = 0
    BY <1>3, CompletedSteps
  <2>3. Crediting' \subseteq Crediting /\ \A w \in Crediting : worker'[w].at = worker[w].at \/ w \notin Crediting'
    <3>1. CASE UNCHANGED worker
      BY <3>1 DEF Crediting
    <3>2. ASSUME NEW w \in Workers, WorkerStep(w) \/ WorkerCrash(w)
          PROVE  /\ \A v \in Workers \ {w} : worker'[v] = worker[v]
                 /\ worker'[w].pc # "completed"
      <4>1. CASE ReadProcessingJobs(w)
        BY <4>1, ReadMoves DEF Busy
      <4>2. CASE ~ReadProcessingJobs(w)
        <5>1. Busy(w) /\ \A v \in Workers \ {w} : worker'[v] = worker[v]
          BY <3>2, <4>2, WorkerStays DEF StaysInBatch
        <5>2. CASE MoveJobToProcessing(w)
          BY <5>1, <5>2, AdvanceMoves, FromFirstMoves DEF MoveJobToProcessing, Selected, WorkerPcs
        <5>3. CASE CudaSucceeds(w)
          BY <5>1, <5>3, FromFirstMoves DEF CudaSucceeds, WorkerPcs
        <5>4. CASE CudaFails(w)
          <6>1. PICK pc \in {"watermark", "failed"}, ok \in BOOLEAN : FromFirst(w, pc, ok)
            BY <5>4 DEF CudaFails
          <6> QED
            BY <5>1, <6>1, FromFirstMoves DEF WorkerPcs
        <5>5. CASE PutWatermarked(w)
          <6>1. CASE \E pc \in {"failed"}, ok \in BOOLEAN : FromFirst(w, pc, ok)
            BY <5>1, <6>1, FromFirstMoves DEF WorkerPcs
          <6>2. CASE GoOn(w, "preview")
            BY <5>1, <6>2, GoOnMoves DEF WorkerPcs
          <6> QED
            BY <5>5, <6>1, <6>2 DEF PutWatermarked
        <5>6. CASE PutPreview(w)
          <6>1. CASE \E pc \in {"create"}, ok \in BOOLEAN : FromFirst(w, pc, ok)
            BY <5>1, <6>1, FromFirstMoves DEF WorkerPcs
          <6>2. CASE HasNext(w) /\ Advance(w, "watermark")
            BY <5>1, <6>2, AdvanceMoves DEF WorkerPcs
          <6>3. CASE GoOn(w, "remove")
            BY <5>1, <6>3, GoOnMoves DEF WorkerPcs
          <6> QED
            BY <5>6, <6>1, <6>2, <6>3 DEF PutPreview
        <5>7. CASE MoveToFailed(w)
          BY <5>1, <5>7, GoOnMoves DEF MoveToFailed, WorkerPcs
        <5>8. CASE AckProcessingJob(w)
          BY <5>1, <5>8, AdvanceMoves DEF AckProcessingJob, WorkerPcs, IdleWorker, TypeOk
        <5>9. CASE WorkerCrash(w)
          BY <5>9 DEF WorkerCrash, IdleWorker, TypeOk
        <5>10. CASE RecordFailure(w)
          BY <5>1, <5>10, GoOnMoves DEF RecordFailure, WorkerPcs
        <5>11. CASE RemoveWatermarked(w)
          <6>1. FromFirst(w, "failed", FALSE) /\ "failed" \in WorkerPcs \ {"idle"}
            BY <5>11 DEF RemoveWatermarked, WorkerPcs
          <6>2. worker'[w].pc = "failed"
            BY <5>1, <6>1, FromFirstMoves
          <6> QED
            BY <5>1, <6>2
        <5> QED
          BY <1>3, <3>2, <4>2, <5>1, <5>2, <5>3, <5>4, <5>5, <5>6, <5>7, <5>8, <5>9, <5>10,
             <5>11 DEF WorkerStep
      <4> QED
        BY <4>1, <4>2
    <3>3. UNCHANGED worker \/ \E w \in Workers : WorkerStep(w) \/ WorkerCrash(w)
      BY DEF Next, vars, RequestStep, Refuse, Begin, PutOriginal, EnqueueProcessingJob,
             RemoveOriginal, RecordRejection, CountAccepted, RequestCrash, Expire
    <3>4. CASE \E w \in Workers : WorkerStep(w) \/ WorkerCrash(w)
      <4>1. PICK w \in Workers : WorkerStep(w) \/ WorkerCrash(w)
        BY <3>4
      <4>2. /\ \A v \in Workers \ {w} : worker'[v] = worker[v]
            /\ worker'[w].pc # "completed"
        BY <3>2, <4>1
      <4> QED
        BY <4>2 DEF Crediting
    <3> QED
      BY <3>1, <3>3, <3>4
  <2>4. ASSUME NEW w \in Crediting' PROVE Current(w)' = Current(w)
    <3>1. w \in Workers /\ Busy(w) /\ worker'[w].at = worker[w].at
      BY <2>3 DEF Crediting, Busy
    <3>2. worker[w].at \in 1..last /\ last \in 0..Len(log)
      BY <3>1, CurrentType DEF TypeOk
    <3>3. worker[w].at \in 1..Len(log)
      BY <3>2, LogGrows
    <3> QED
      BY <3>1, <3>3, LogGrows DEF Current
  <2> QED
    BY <1>0, <2>1, <2>2, <2>3, <2>4, OthersCredit
<1> QED
  BY <1>1, <1>2, <1>3

\* "completed" is never more than the photos of the upload that exist, through
\* crashes, lost calls and replies, expired hashes and jobs queued twice.
THEOREM CompletedIsNeverAhead ==
  ASSUME HashIsNotRetried
  PROVE  Spec => []CompletedIsBacked
<1>1. Init => TypeOk /\ MessagesInv /\ CreditInv
  BY InitTypeOk, InitMessages, InitCredit
<1>2. TypeOk /\ MessagesInv /\ CreditInv /\ [Next]_vars
        => (TypeOk /\ MessagesInv /\ CreditInv)'
  BY NextTypeAndMessages, NextCredit
<1>3. TypeOk /\ CreditInv => CompletedIsBacked
  <2> SUFFICES ASSUME TypeOk, CreditInv, NEW u \in Uploads
               PROVE  hash[u].completed <= Cardinality(rows \cap FilesOfUpload(u))
    BY DEF CompletedIsBacked
  <2>1. hash[u].completed \in Int
    BY DEF TypeOk, StatusRecord
  <2>2. Cardinality(rows \cap FilesOfUpload(u)) \in Nat
    BY CreditedFinite, FS_CardinalityType
  <2> QED
    BY <2>1, <2>2, CreditedFinite DEF CreditInv
<1> QED
  BY <1>1, <1>2, <1>3, PTL DEF Spec

-----------------------------------------------------------------------------
(* What is acknowledged, when no status write is lost.                     *)

HashIsKept == "fail" \notin Outcome["hash"]

\* The steps that tell the hash, or the error list, what became of a message.
Records(w) == MoveToCompleted(w) \/ MoveToFailed(w) \/ RecordFailure(w)

\* Only these bring a worker to count a photo, to record an error or to acknowledge
\* a message, and leave it where it is; in mode "cuda" it makes no object of its own.
LEMMA PcSteps ==
  ASSUME TypeOk, MessagesInv, NEW w \in Workers, WorkerStep(w) \/ WorkerCrash(w)
  PROVE  /\ worker'[w].pc = "completed" => CreatePhoto(w)
         /\ worker'[w].pc = "error" => MoveToFailed(w)
         /\ worker'[w].pc = "ack" => MoveToCompleted(w) \/ RecordFailure(w)
         /\ CreatePhoto(w) \/ Records(w) =>
              /\ Busy(w) /\ worker'[w].at = worker[w].at
              /\ MoveToFailed(w) => worker'[w].pc = "error"
              /\ MoveToCompleted(w) \/ RecordFailure(w) => worker'[w].pc = "ack"
         /\ Mode = "cuda" /\ worker'[w].pc \in {"watermark", "preview", "remove"} =>
              worker[w].pc \in {"watermark", "preview", "remove"}
         /\ \A v \in Workers \ {w} : worker'[v] = worker[v]
<1>1. CASE ReadProcessingJobs(w)
  BY <1>1, ReadMoves DEF Busy, CreatePhoto, Records, MoveToCompleted, MoveToFailed,
                       RecordFailure, ReadProcessingJobs
<1>2. CASE ~ReadProcessingJobs(w)
  <2>1. Busy(w) /\ \A v \in Workers \ {w} : worker'[v] = worker[v]
    BY <1>2, WorkerStays DEF StaysInBatch
  <2>2. CASE MoveJobToProcessing(w)
    <3>1. /\ worker[w].pc = "move" /\ worker'[w].pc \in {"move", "cuda", "watermark"}
          /\ Mode = "cuda" => worker'[w].pc \in {"move", "cuda"}
      BY <2>1, <2>2, AdvanceMoves, FromFirstMoves DEF MoveJobToProcessing, Selected, WorkerPcs
    <3> QED
      BY <2>1, <3>1 DEF CreatePhoto, Records, MoveToCompleted, MoveToFailed, RecordFailure
  <2>3. CASE CudaSucceeds(w)
    <3>1. worker[w].pc = "cuda" /\ worker'[w].pc = "create"
      BY <2>1, <2>3, FromFirstMoves DEF CudaSucceeds, WorkerPcs
    <3> QED
      BY <2>1, <3>1 DEF CreatePhoto, Records, MoveToCompleted, MoveToFailed, RecordFailure
  <2>4. CASE CudaFails(w)
    <3>1. PICK pc \in {"watermark", "failed"}, ok \in BOOLEAN : FromFirst(w, pc, ok)
      BY <2>4 DEF CudaFails
    <3>2. /\ worker[w].pc = "cuda" /\ worker'[w].pc \in {"watermark", "failed"}
          /\ Mode = "cuda" => worker'[w].pc = "failed"
      <4>1. Mode = "cuda" => FromFirst(w, "failed", FALSE)
        BY <2>4 DEF CudaFails
      <4> QED
        BY <2>1, <2>4, <3>1, <4>1, FromFirstMoves DEF CudaFails, WorkerPcs
    <3> QED
      BY <2>1, <3>2 DEF CreatePhoto, Records, MoveToCompleted, MoveToFailed, RecordFailure
  <2>5. CASE PutWatermarked(w)
    <3>1. worker'[w].pc \in {"preview", "failed"}
      <4>1. CASE FromFirst(w, "failed", FALSE)
        BY <2>1, <4>1, FromFirstMoves DEF WorkerPcs
      <4>2. CASE GoOn(w, "preview")
        BY <2>1, <4>2, GoOnMoves DEF WorkerPcs
      <4> QED
        BY <2>5, <4>1, <4>2 DEF PutWatermarked
    <3>2. worker[w].pc = "watermark"
      BY <2>5 DEF PutWatermarked
    <3> QED
      BY <2>1, <3>1, <3>2 DEF CreatePhoto, Records, MoveToCompleted, MoveToFailed, RecordFailure
  <2>6. CASE PutPreview(w)
    <3>1. worker'[w].pc \in {"watermark", "remove", "create"}
      <4>1. CASE FromFirst(w, "create", TRUE)
        BY <2>1, <4>1, FromFirstMoves DEF WorkerPcs
      <4>2. CASE HasNext(w) /\ Advance(w, "watermark")
        BY <2>1, <4>2, AdvanceMoves DEF WorkerPcs
      <4>3. CASE GoOn(w, "remove")
        BY <2>1, <4>3, GoOnMoves DEF WorkerPcs
      <4> QED
        BY <2>6, <4>1, <4>2, <4>3 DEF PutPreview
    <3>2. worker[w].pc = "preview"
      BY <2>6 DEF PutPreview
    <3> QED
      BY <2>1, <3>1, <3>2 DEF CreatePhoto, Records, MoveToCompleted, MoveToFailed, RecordFailure
  <2>7. CASE CreatePhoto(w)
    <3>1. PICK pc \in {"completed", "failed"} : GoOn(w, pc)
      BY <2>7 DEF CreatePhoto, AfterCreate
    <3>2. worker[w].pc = "create"
      BY <2>7 DEF CreatePhoto
    <3> QED
      BY <2>1, <2>7, <3>1, <3>2, GoOnMoves DEF WorkerPcs, Records, MoveToCompleted, MoveToFailed,
                                           RecordFailure
  <2>8. CASE MoveToCompleted(w) \/ RecordFailure(w)
    <3>1. GoOn(w, "ack") /\ worker[w].pc \in {"completed", "error"}
      BY <2>8 DEF MoveToCompleted, RecordFailure
    <3>2. worker'[w].pc = "ack" /\ worker'[w].at = worker[w].at
      BY <2>1, <3>1, GoOnMoves DEF WorkerPcs
    <3> QED
      BY <2>1, <2>8, <3>1, <3>2 DEF CreatePhoto, Records, MoveToFailed
  <2>11. CASE MoveToFailed(w)
    <3>1. GoOn(w, "error") /\ worker[w].pc = "failed"
      BY <2>11 DEF MoveToFailed
    <3>2. worker'[w].pc = "error" /\ worker'[w].at = worker[w].at
      BY <2>1, <3>1, GoOnMoves DEF WorkerPcs
    <3> QED
      BY <2>1, <2>11, <3>1, <3>2 DEF CreatePhoto, Records, MoveToCompleted, RecordFailure
  <2>12. CASE RemoveWatermarked(w)
    <3>1. worker[w].pc = "remove" /\ worker'[w].pc = "failed"
      BY <2>1, <2>12, FromFirstMoves DEF RemoveWatermarked, WorkerPcs
    <3> QED
      BY <2>1, <3>1 DEF CreatePhoto, Records, MoveToCompleted, MoveToFailed, RecordFailure
  <2>9. CASE AckProcessingJob(w)
    <3>1. worker[w].pc = "ack" /\ worker'[w].pc \in {"create", "failed", "idle"}
      BY <2>1, <2>9, AdvanceMoves DEF AckProcessingJob, WorkerPcs, IdleWorker, TypeOk
    <3> QED
      BY <2>1, <3>1 DEF CreatePhoto, Records, MoveToCompleted, MoveToFailed, RecordFailure
  <2>10. CASE WorkerCrash(w) /\ ~WorkerStep(w)
    <3>1. worker'[w].pc = "idle"
      BY <2>10 DEF WorkerCrash, IdleWorker, TypeOk
    <3> QED
      BY <2>1, <2>10, <3>1 DEF WorkerStep, Records
  <2> QED
    BY <1>2, <2>2, <2>3, <2>4, <2>5, <2>6, <2>7, <2>8, <2>9, <2>10,
       <2>11, <2>12 DEF WorkerStep
<1> QED
  BY <1>1, <1>2

\* Photos and entries of the error list are not taken back.
LEMMA ExplainedGrows ==
  ASSUME [Next]_vars
  PROVE  rows \subseteq rows' /\ errs \subseteq errs'
  BY DEF Next, vars, statusVars, RequestStep, Refuse, Begin, PutOriginal,
         EnqueueProcessingJob, RemoveOriginal, RecordRejection, CountAccepted,
         RequestCrash, Expire, WorkerStep, WorkerCrash, ReadProcessingJobs,
         MoveJobToProcessing, CudaSucceeds, CudaFails, PutWatermarked, PutPreview,
         RemoveWatermarked, CreatePhoto, MoveToCompleted, MoveToFailed, RecordFailure,
         AckProcessingJob, AddUploadError

\* At first nothing is acknowledged.
LEMMA InitExplained == Init => ExplainedInv
BY DEF Init, ExplainedInv, AckedIsExplained, IdleWorker

\* Requests and workers other than w leave what is explained so.
LEMMA NextExplained ==
  ASSUME HashIsKept, TypeOk, MessagesInv, ExplainedInv, [Next]_vars
  PROVE  ExplainedInv'
<1>1. rows \subseteq rows' /\ errs \subseteq errs'
  BY ExplainedGrows
<1>2. \A p \in 1..last : log'[p] = log[p]
  BY LogGrows DEF TypeOk
<1>3. \A w \in Workers : Busy(w) => worker[w].at \in 1..last
  BY CurrentType
<1>4. ASSUME NEW w \in Workers, NEW v \in Workers, worker'[v] = worker[v]
      PROVE  /\ worker'[v].pc = "completed" => Current(v)' \in rows'
             /\ worker'[v].pc = "ack" => Current(v)' \in rows' \cup errs'
  BY <1>1, <1>2, <1>3, <1>4 DEF ExplainedInv, Current, Busy
<1>5. CASE UNCHANGED <<worker, acked>>
  <2>1. \A p \in acked : log'[p] \in rows' \cup errs'
    BY <1>1, <1>2 DEF ExplainedInv, AckedIsExplained, TypeOk
  <2> QED
    BY <1>4, <1>5, <2>1 DEF ExplainedInv, AckedIsExplained
<1>6. ASSUME NEW w \in Workers, WorkerStep(w) \/ WorkerCrash(w) PROVE ExplainedInv'
  <2>1. \A p \in acked' : log'[p] \in rows' \cup errs'
    <3>1. acked' = acked \/ (worker[w].pc = "ack" /\ acked' \subseteq acked \cup {worker[w].at})
      BY <1>6, WorkerStays DEF ReadProcessingJobs
    <3> QED
      BY <1>1, <1>2, <1>3, <3>1 DEF ExplainedInv, AckedIsExplained, TypeOk, Current, Busy
  <2>2. worker'[w].pc = "completed" => Current(w)' \in rows'
    <3> SUFFICES ASSUME worker'[w].pc = "completed" PROVE Current(w)' \in rows'
      OBVIOUS
    <3>1. CreatePhoto(w) /\ worker'[w].at = worker[w].at /\ Busy(w)
      BY <1>6, PcSteps
    <3>2. Current(w)' = Current(w)
      BY <1>2, <1>3, <3>1 DEF Current
    <3>3. Current(w) \in rows' \/ GoOn(w, "failed")
      BY <3>1 DEF CreatePhoto, AfterCreate, Applied, Errs
    <3> QED
      BY <3>1, <3>2, <3>3, GoOnMoves DEF WorkerPcs
  <2>3. worker'[w].pc = "ack" => Current(w)' \in rows' \cup errs'
    <3> SUFFICES ASSUME worker'[w].pc = "ack" PROVE Current(w)' \in rows' \cup errs'
      OBVIOUS
    <3>1. (MoveToCompleted(w) \/ RecordFailure(w)) /\ worker'[w].at = worker[w].at /\ Busy(w)
      BY <1>6, PcSteps DEF Records
    <3>2. Current(w)' = Current(w)
      BY <1>2, <1>3, <3>1 DEF Current
    <3>3. CASE MoveToCompleted(w)
      BY <1>1, <3>2, <3>3 DEF MoveToCompleted, ExplainedInv
    <3>4. CASE RecordFailure(w)
      <4>1. Current(w) \in errs'
        BY <3>4 DEF RecordFailure, AddUploadError, Applied, HashIsKept
      <4> QED
        BY <3>2, <4>1
    <3> QED
      BY <3>1, <3>3, <3>4
  <2>4. \A v \in Workers \ {w} : worker'[v] = worker[v]
    BY <1>6, PcSteps
  <2> QED
    BY <1>4, <2>1, <2>2, <2>3, <2>4 DEF ExplainedInv, AckedIsExplained
<1>7. UNCHANGED <<worker, acked>> \/ \E w \in Workers : WorkerStep(w) \/ WorkerCrash(w)
  BY DEF Next, vars, streamVars, RequestStep, Refuse, Begin, PutOriginal,
         EnqueueProcessingJob, RemoveOriginal, RecordRejection, CountAccepted,
         RequestCrash, Expire
<1> QED
  BY <1>5, <1>6, <1>7

\* No acknowledged message is lost: its file is a photo or has an entry in the error
\* list, through crashes and failures of all but the writes of the status.
THEOREM AcknowledgedIsExplained ==
  ASSUME HashIsKept
  PROVE  Spec => []AckedIsExplained
<1>1. Init => TypeOk /\ MessagesInv /\ ExplainedInv
  <2>1. Init => ExplainedInv
    BY InitExplained
  <2> QED
    BY <2>1, InitTypeOk, InitMessages
<1>2. TypeOk /\ MessagesInv /\ ExplainedInv /\ [Next]_vars
        => (TypeOk /\ MessagesInv /\ ExplainedInv)'
  BY NextTypeAndMessages, NextExplained
<1>3. ExplainedInv => AckedIsExplained
  BY DEF ExplainedInv
<1> QED
  BY <1>1, <1>2, <1>3, PTL DEF Spec

-----------------------------------------------------------------------------
(* What a finished upload says, when no status transaction is executed twice.*)

\* An upload whose hash may expire comes in one request.
SingleCount ==
  ~StatusExpires \/ \A r, s \in Requests : UploadOf[r] = UploadOf[s] => r = s

\* What each transaction does to the total and to what is settled.
LEMMA StatusFields ==
  ASSUME NEW h \in StatusRecord, NEW n \in Int
  PROVE  /\ h.total \in Int /\ h.completed \in Int /\ h.failed \in Int
         /\ InitUploadStatus(h).total = h.total
         /\ InitUploadStatus(h).completed = h.completed
         /\ InitUploadStatus(h).failed = h.failed
         /\ AddUploadCounters(h, n).total = h.total + n
         /\ AddUploadCounters(h, n).completed = h.completed
         /\ AddUploadCounters(h, n).failed = h.failed
         /\ MoveQueuedToProcessing(h, 1).total = h.total
         /\ MoveQueuedToProcessing(h, 1).completed = h.completed
         /\ MoveQueuedToProcessing(h, 1).failed = h.failed
         /\ MoveProcessingToCompleted(h, 1).total = h.total
         /\ MoveProcessingToCompleted(h, 1).completed = h.completed + 1
         /\ MoveProcessingToCompleted(h, 1).failed = h.failed
         /\ MoveProcessingToFailed(h, 1).total = h.total
         /\ MoveProcessingToFailed(h, 1).completed = h.completed
         /\ MoveProcessingToFailed(h, 1).failed = h.failed + 1
  BY DEF StatusRecord, InitUploadStatus, AddUploadCounters, MoveQueuedToProcessing,
         MoveProcessingToCompleted, MoveProcessingToFailed

\* Counting the accepted files of a request settles nothing.
LEMMA CountSettlesNothing ==
  ASSUME TypeOk, NEW r \in Requests, CountAccepted(r), NEW u \in Uploads
  PROVE  hash'[u].completed = hash[u].completed /\ hash'[u].failed = hash[u].failed
<1> DEFINE t == UploadOf[r]
           n == Cardinality(Accepted(r))
<1>1. n \in Int
  BY FilesOfFinite, FS_CardinalityType
<1>2. \/ hash' = hash
      \/ \E o \in Outcome["hash"], k \in 2..Sendings : hash' = [hash EXCEPT ![t] =
                   Result(o, @, AddUploadCounters(@, n), AddUploadCounters(@, k * n))]
  BY DEF CountAccepted
<1> HIDE DEF n
<1>3. hash \in [Uploads -> StatusRecord] /\ t \in Uploads
  BY ActorsAssumption DEF TypeOk
<1>4. CASE hash' = hash
  BY <1>4
<1>5. ASSUME NEW o, NEW k \in 2..Sendings,
             hash' = [hash EXCEPT ![t] =
                   Result(o, @, AddUploadCounters(@, n), AddUploadCounters(@, k * n))]
      PROVE  hash'[u].completed = hash[u].completed /\ hash'[u].failed = hash[u].failed
  <2>1. n \in Int /\ k * n \in Int
    BY <1>1, OutcomeAssumption
  <2>2. PICK m \in Int : \/ hash' = hash
                         \/ hash' = [hash EXCEPT ![t] = AddUploadCounters(hash[t], m)]
    BY <1>3, <1>5, <2>1 DEF Result
  <2>3. /\ AddUploadCounters(hash[t], m).completed = hash[t].completed
        /\ AddUploadCounters(hash[t], m).failed = hash[t].failed
    BY <1>3, StatusFields
  <2> QED
    BY <1>3, <2>2, <2>3
<1> QED
  BY <1>2, <1>4, <1>5

\* Only CountAccepted raises a total, and a worker settles one message at a time.
LEMMA TotalSteps ==
  ASSUME HashIsNotRetried, TypeOk, MessagesInv, [Next]_vars, NEW u \in Uploads
  PROVE  \/ StatusExpires /\ hash'[u] = Absent
         \/ /\ hash'[u].total = hash[u].total
            /\ hash'[u].completed = hash[u].completed
            /\ hash'[u].failed = hash[u].failed
         \/ /\ \E r \in Requests : CountAccepted(r) /\ UploadOf[r] = u
            /\ hash'[u].completed = hash[u].completed
            /\ hash'[u].failed = hash[u].failed
         \/ \E w \in Workers :
              /\ u = UploadOfFile(Current(w))
              /\ hash'[u].total = hash[u].total
              /\ \/ /\ MoveToCompleted(w)
                    /\ hash'[u].completed = hash[u].completed + 1
                    /\ hash'[u].failed = hash[u].failed
                 \/ /\ MoveToFailed(w)
                    /\ hash'[u].completed = hash[u].completed
                    /\ hash'[u].failed = hash[u].failed + 1
<1> DEFINE Same == /\ hash'[u].total = hash[u].total
                   /\ hash'[u].completed = hash[u].completed
                   /\ hash'[u].failed = hash[u].failed
           Settles(w) ==
              /\ u = UploadOfFile(Current(w))
              /\ hash'[u].total = hash[u].total
              /\ \/ /\ MoveToCompleted(w)
                    /\ hash'[u].completed = hash[u].completed + 1
                    /\ hash'[u].failed = hash[u].failed
                 \/ /\ MoveToFailed(w)
                    /\ hash'[u].completed = hash[u].completed
                    /\ hash'[u].failed = hash[u].failed + 1
<1>1. hash \in [Uploads -> StatusRecord] /\ hash[u] \in StatusRecord
  BY DEF TypeOk
<1>2. CASE UNCHANGED hash
  BY <1>2
<1>3. ASSUME NEW r \in Requests, Begin(r) PROVE Same
  <2> DEFINE h == hash[UploadOf[r]]
  <2>1. hash' = [hash EXCEPT ![UploadOf[r]] = h]
        \/ hash' = [hash EXCEPT ![UploadOf[r]] = InitUploadStatus(h)]
    BY <1>3 DEF Begin, Result
  <2> QED
    BY <1>1, <2>1, StatusFields
<1>4. ASSUME NEW r \in Requests, CountAccepted(r), UploadOf[r] # u PROVE Same
  BY <1>1, <1>4 DEF CountAccepted
<1>5. ASSUME NEW w \in Workers, MoveJobToProcessing(w) PROVE Same
  <2> DEFINE t == UploadOfFile(Current(w))
  <2>1. hash' = [hash EXCEPT ![t] = hash[t]]
        \/ hash' = [hash EXCEPT ![t] = MoveQueuedToProcessing(hash[t], 1)]
    BY <1>5 DEF MoveJobToProcessing, Result, HashIsNotRetried
  <2> QED
    BY <1>1, <2>1, StatusFields
<1>6. ASSUME NEW w \in Workers, MoveToCompleted(w) PROVE Same \/ Settles(w)
  <2> DEFINE t == UploadOfFile(Current(w))
  <2>1. hash' = [hash EXCEPT ![t] = hash[t]]
        \/ hash' = [hash EXCEPT ![t] = MoveProcessingToCompleted(hash[t], 1)]
    BY <1>6 DEF MoveToCompleted, Result, HashIsNotRetried
  <2> QED
    BY <1>1, <1>6, <2>1, StatusFields
<1>7. ASSUME NEW w \in Workers, MoveToFailed(w) PROVE Same \/ Settles(w)
  <2> DEFINE t == UploadOfFile(Current(w))
  <2>1. hash' = [hash EXCEPT ![t] = hash[t]]
        \/ hash' = [hash EXCEPT ![t] = MoveProcessingToFailed(hash[t], 1)]
    BY <1>7 DEF MoveToFailed, Result, HashIsNotRetried
  <2> QED
    BY <1>1, <1>7, <2>1, StatusFields
<1>8. ASSUME NEW t \in Uploads, Expire(t)
      PROVE  Same \/ (StatusExpires /\ hash'[u] = Absent)
  BY <1>1, <1>8 DEF Expire
<1>9. \/ UNCHANGED hash
      \/ \E r \in Requests : Begin(r) \/ CountAccepted(r)
      \/ \E w \in Workers : MoveJobToProcessing(w) \/ MoveToCompleted(w) \/ MoveToFailed(w)
      \/ \E t \in Uploads : Expire(t)
  BY DEF Next, vars, statusVars, RequestStep, Refuse, PutOriginal, EnqueueProcessingJob,
         RemoveOriginal, RecordRejection, RequestCrash, WorkerStep, WorkerCrash,
         ReadProcessingJobs, CudaSucceeds, CudaFails, PutWatermarked, PutPreview,
         RemoveWatermarked, CreatePhoto, AckProcessingJob, RecordFailure
<1> QED
  BY <1>2, <1>3, <1>4, <1>5, <1>6, <1>7, <1>8, <1>9, CountSettlesNothing

\* At first no request has counted anything.
LEMMA InitTotal == Init => TotalInv
<1> SUFFICES ASSUME Init PROVE TotalInv
  OBVIOUS
<1>1. \A u \in Uploads : CountedOf(u) = {} /\ hash[u] = Absent
  BY ActorsAssumption DEF Init, CountedOf, FilesOfUpload
<1> QED
  <2>1. Absent.failed = 0 /\ Absent.total = 0
    BY DEF Absent
  <2>2. \A f \in Files : offer[f] = "todo"
    BY DEF Init
  <2> QED
    BY <1>1, <2>1, <2>2, FS_EmptySet DEF TotalInv

\* How the requests move on.
LEMMA RequestPcSteps ==
  ASSUME TypeOk, [Next]_vars
  PROVE  /\ \A r \in Requests : rpc[r] = "error" => rpc'[r] = "error"
         /\ \A r \in Requests :
              rpc'[r] # rpc[r] => ~(rpc[r] \in {"refused", "done"})
         /\ \A r \in Requests :
              rpc'[r] = "done" /\ rpc[r] # "done" => CountAccepted(r)
         /\ \A f \in Files : offer'[f] # offer[f] => rpc[ReqOf[f]] = "loop" /\ rpc' = rpc
         /\ \A r \in Requests :
              rpc'[r] \in {"start", "refused"} => rpc[r] \in {"start", "refused"}
<1> USE DEF TypeOk
<1>1. CASE UNCHANGED <<rpc, offer>>
  BY <1>1
<1>2. ASSUME NEW r \in Requests, Refuse(r) \/ Begin(r) \/ CountAccepted(r) \/ RequestCrash(r)
      PROVE  /\ offer' = offer /\ \A s \in Requests \ {r} : rpc'[s] = rpc[s]
             /\ rpc[r] \in {"start", "loop"}
             /\ rpc'[r] = "done" => CountAccepted(r)
             /\ rpc'[r] \in {"start", "refused"} => rpc[r] = "start"
  BY <1>2 DEF Refuse, Begin, CountAccepted, RequestCrash
<1>3. ASSUME NEW r \in Requests, NEW f \in FilesOf(r),
             \/ PutOriginal(r, f) \/ EnqueueProcessingJob(r, f)
             \/ RemoveOriginal(r, f) \/ RecordRejection(r, f)
      PROVE  /\ rpc' = rpc /\ rpc[ReqOf[f]] = "loop" /\ f \in Files
             /\ \A g \in Files \ {f} : offer'[g] = offer[g]
  BY <1>3 DEF PutOriginal, BetweenFiles, EnqueueProcessingJob, RemoveOriginal,
              RecordRejection, FilesOf
<1>4. \/ UNCHANGED <<rpc, offer>>
      \/ \E r \in Requests :
           \/ Refuse(r) \/ Begin(r) \/ CountAccepted(r) \/ RequestCrash(r)
           \/ \E f \in FilesOf(r) :
                \/ PutOriginal(r, f) \/ EnqueueProcessingJob(r, f)
                \/ RemoveOriginal(r, f) \/ RecordRejection(r, f)
  BY DEF Next, vars, requestVars, RequestStep, Expire, WorkerStep, WorkerCrash,
         ReadProcessingJobs, MoveJobToProcessing, CudaSucceeds, CudaFails, PutWatermarked,
         PutPreview, CreatePhoto, MoveToCompleted, MoveToFailed,
         RemoveWatermarked, RecordFailure, AckProcessingJob
<1>5. CASE \E r \in Requests : Refuse(r) \/ Begin(r) \/ CountAccepted(r) \/ RequestCrash(r)
  <2>1. PICK r \in Requests : Refuse(r) \/ Begin(r) \/ CountAccepted(r) \/ RequestCrash(r)
    BY <1>5
  <2> QED
    BY <1>2, <2>1
<1>6. CASE \E r \in Requests : \E f \in FilesOf(r) :
             \/ PutOriginal(r, f) \/ EnqueueProcessingJob(r, f)
             \/ RemoveOriginal(r, f) \/ RecordRejection(r, f)
  BY <1>3, <1>6
<1> QED
  BY <1>1, <1>4, <1>5, <1>6

\* TotalInv is inductive.
LEMMA NextTotal ==
  ASSUME HashIsNotRetried, SingleCount, TypeOk, MessagesInv, TotalInv, [Next]_vars
  PROVE  TotalInv'
<1>0. \A f \in Files : ReqOf[f] \in Requests
  BY ActorsAssumption
<1>1. \A f \in Files : rpc'[ReqOf[f]] \in {"start", "refused"} => offer'[f] = "todo"
  BY <1>0, RequestPcSteps DEF TotalInv
<1>2. ASSUME NEW u \in Uploads
      PROVE  /\ hash'[u].failed >= 0
             /\ NoErrors(u)' => \/ hash'[u].total = Cardinality(CountedOf(u)')
                                \/ StatusExpires /\ hash'[u].total = 0
  <2>0. hash[u] \in StatusRecord /\ hash[u].failed \in Int /\ hash[u].total \in Int
    BY StatusFields DEF TypeOk
  <2>1. NoErrors(u)' => NoErrors(u)
    BY RequestPcSteps DEF NoErrors, RequestsOf
  <2>2. CASE \E r \in Requests : CountAccepted(r) /\ UploadOf[r] = u
    <3>1. PICK r \in Requests : CountAccepted(r) /\ UploadOf[r] = u
      BY <2>2
    <3> DEFINE n == Cardinality(Accepted(r))
    <3>2. n \in Nat /\ IsFiniteSet(Accepted(r))
      BY FilesOfFinite, FS_CardinalityType
    <3>3. offer' = offer /\ rpc[r] = "loop"
      BY <3>1 DEF CountAccepted
    <3>4. hash'[u].failed = hash[u].failed
      BY <3>1, CountSettlesNothing
    <3>5. SUFFICES ASSUME NoErrors(u)'
                   PROVE  \/ hash'[u].total = Cardinality(CountedOf(u)')
                          \/ StatusExpires /\ hash'[u].total = 0
      BY <2>0, <3>4 DEF TotalInv
    <3>6. r \in RequestsOf(u)
      BY <3>1 DEF RequestsOf
    <3>7. rpc' = [rpc EXCEPT ![r] = "done"]
      BY <3>1, <3>5, <3>6 DEF CountAccepted, NoErrors, RequestsOf, TypeOk
    <3>8. hash'[u].total = hash[u].total + n
      <4>1. CASE Accepted(r) = {}
        <5>1. n = 0
          BY <4>1, FS_EmptySet
        <5>2. hash' = hash
          BY <3>1, <4>1 DEF CountAccepted
        <5> QED
          BY <2>0, <5>1, <5>2
      <4>2. CASE Accepted(r) # {}
        <5>1. PICK o \in Outcome["hash"], k \in 2..Sendings :
                /\ hash' = [hash EXCEPT ![u] =
                         Result(o, @, AddUploadCounters(@, n), AddUploadCounters(@, k * n))]
                /\ rpc' = [rpc EXCEPT ![r] = IF Errs(o) THEN "error" ELSE "done"]
          BY <3>1, <4>2 DEF CountAccepted
        <5>2. ~Errs(o)
          BY <3>1, <3>7, <5>1 DEF TypeOk
        <5>3. o \notin Retried /\ o # "fail"
          BY <5>1, <5>2 DEF Errs, HashIsNotRetried
        <5>4. hash' = [hash EXCEPT ![u] = AddUploadCounters(hash[u], n)]
          BY <5>1, <5>3 DEF Result
        <5>5. n \in Int
          BY <3>2
        <5> HIDE DEF n
        <5> QED
          BY <2>0, <5>4, <5>5, StatusFields DEF TypeOk
      <4> QED
        BY <4>1, <4>2
    <3>9. /\ CountedOf(u)' = CountedOf(u) \cup Accepted(r)
          /\ CountedOf(u) \cap Accepted(r) = {}
      <4>1. \A f \in Files : (rpc'[ReqOf[f]] = "done") <=> (rpc[ReqOf[f]] = "done" \/ ReqOf[f] = r)
        BY <1>0, <3>3, <3>7 DEF TypeOk
      <4>2. Accepted(r) = {f \in FilesOfUpload(u) : offer[f] = "accepted" /\ ReqOf[f] = r}
        BY <3>1 DEF Accepted, FilesOf, FilesOfUpload, UploadOfFile
      <4> QED
        BY <3>3, <4>1, <4>2 DEF CountedOf, FilesOfUpload, UploadOfFile
    <3>10. CountedOf(u) \subseteq Files
      BY DEF CountedOf, FilesOfUpload
    <3>11. IsFiniteSet(CountedOf(u)) /\ Cardinality(CountedOf(u)) \in Nat
      BY <3>10, SubsetOfFiles
    <3>12. Cardinality(CountedOf(u)') = Cardinality(CountedOf(u)) + n
      <4>1. Cardinality(CountedOf(u) \cup Accepted(r))
              = Cardinality(CountedOf(u)) + n - Cardinality(CountedOf(u) \cap Accepted(r))
        BY <3>2, <3>11, FS_Union
      <4>2. Cardinality(CountedOf(u) \cap Accepted(r)) = 0
        BY <3>9, FS_EmptySet
      <4> HIDE DEF n
      <4> QED
        BY <3>2, <3>9, <3>11, <4>1, <4>2
    <3>13. hash[u].total = Cardinality(CountedOf(u))
      <4>1. CASE StatusExpires /\ hash[u].total = 0
        <5>1. \A s \in RequestsOf(u) : s = r
          BY <3>1, <4>1 DEF SingleCount, RequestsOf
        <5>2. \A f \in FilesOfUpload(u) : ReqOf[f] = r
          BY <1>0, <5>1 DEF FilesOfUpload, UploadOfFile, RequestsOf
        <5>3. CountedOf(u) = {}
          BY <3>3, <5>2 DEF CountedOf
        <5> QED
          BY <4>1, <5>3, FS_EmptySet
      <4> QED
        BY <2>1, <3>5, <4>1 DEF TotalInv
    <3> QED
      BY <3>8, <3>12, <3>13
  <2>3. CASE ~\E r \in Requests : CountAccepted(r) /\ UploadOf[r] = u
    <3>1. CountedOf(u)' = CountedOf(u)
      <4>1. ASSUME NEW f \in FilesOfUpload(u)
            PROVE  (offer'[f] = "accepted" /\ rpc'[ReqOf[f]] = "done")
                     <=> (offer[f] = "accepted" /\ rpc[ReqOf[f]] = "done")
        <5>1. f \in Files /\ ReqOf[f] \in Requests /\ UploadOf[ReqOf[f]] = u
          BY <1>0, <4>1 DEF FilesOfUpload, UploadOfFile
        <5>2. ~CountAccepted(ReqOf[f])
          BY <2>3, <5>1
        <5> QED
          BY <5>1, <5>2, RequestPcSteps
      <4> QED
        BY <4>1 DEF CountedOf, FilesOfUpload, UploadOfFile
    <3>2. \/ StatusExpires /\ hash'[u] = Absent
          \/ /\ hash'[u].total = hash[u].total
             /\ hash'[u].failed \in {hash[u].failed, hash[u].failed + 1}
      BY <2>3, TotalSteps
    <3>3. CASE StatusExpires /\ hash'[u] = Absent
      <4>1. Absent.failed = 0 /\ Absent.total = 0
        BY DEF Absent
      <4>2. hash'[u].failed = 0 /\ hash'[u].total = 0
        BY <3>3, <4>1
      <4> QED
        BY <3>3, <4>2
    <3>4. CASE /\ hash'[u].total = hash[u].total
               /\ hash'[u].failed \in {hash[u].failed, hash[u].failed + 1}
      BY <2>0, <2>1, <3>1, <3>4 DEF TotalInv
    <3> QED
      BY <3>2, <3>3, <3>4
  <2> QED
    BY <2>2, <2>3
<1> QED
  BY <1>1, <1>2 DEF TotalInv

\* In every behaviour, TotalInv holds.
LEMMA TotalInvariant ==
  ASSUME HashIsNotRetried, SingleCount
  PROVE  Spec => []TotalInv
<1>1. Init => TypeOk /\ MessagesInv /\ TotalInv
  BY InitTypeOk, InitMessages, InitTotal
<1>2. TypeOk /\ MessagesInv /\ TotalInv /\ [Next]_vars
        => (TypeOk /\ MessagesInv /\ TotalInv)'
  BY NextTypeAndMessages, NextTotal
<1> QED
  BY <1>1, <1>2, PTL DEF Spec

\* Once all chunks are answered, a hash that has a total has that of the accepted files.
LEMMA TotalOfAnswered ==
  ASSUME TypeOk, TotalInv, NEW u \in Uploads, AllCounted(u), hash[u].total > 0
  PROVE  hash[u].total = Cardinality(AcceptedOf(u))
<1>1. \A f \in FilesOfUpload(u) : f \in Files /\ ReqOf[f] \in RequestsOf(u)
  BY ActorsAssumption DEF FilesOfUpload, UploadOfFile, RequestsOf
<1>2. AcceptedOf(u) = CountedOf(u)
  BY <1>1 DEF AcceptedOf, CountedOf, AllCounted, TotalInv
<1>3. NoErrors(u)
  BY DEF AllCounted, NoErrors
<1> QED
  BY <1>2, <1>3 DEF TotalInv

\* With a definite XADD, every photo is of an accepted file.
LEMMA PhotosAreAccepted ==
  ASSUME TypeOk, PhotosInv, NEW f \in rows
  PROVE  offer[f] = "accepted"
<1>1. PICK p \in 1..last : log[p] = f
  BY DEF PhotosInv, RowsInv
<1>2. p \in 1..Len(log)
  BY DEF TypeOk
<1> QED
  BY <1>1, <1>2 DEF PhotosInv, LogInv

\* An upload whose total is that of its accepted files, that is over and counts no
\* failure, has a photo of each of them.
LEMMA CompletedIsMade ==
  ASSUME TypeOk, PhotosInv, CompletedIsBacked, NEW u \in Uploads,
         hash[u].total = Cardinality(AcceptedOf(u)),
         hash[u].completed + hash[u].failed >= hash[u].total, hash[u].failed <= 0
  PROVE  AcceptedOf(u) \subseteq rows
<1> DEFINE R == rows \cap FilesOfUpload(u)
<1>1. hash[u].total \in Int /\ hash[u].completed \in Int /\ hash[u].failed \in Int
  BY StatusFields DEF TypeOk
<1>2. R \subseteq AcceptedOf(u) /\ AcceptedOf(u) \subseteq Files
  BY PhotosAreAccepted DEF AcceptedOf, FilesOfUpload
<1>3. /\ IsFiniteSet(AcceptedOf(u)) /\ Cardinality(R) \in Nat
      /\ Cardinality(AcceptedOf(u)) \in Nat /\ Cardinality(R) <= Cardinality(AcceptedOf(u))
  BY <1>2, SubsetOfFiles
<1>4. hash[u].completed <= Cardinality(R)
  BY DEF CompletedIsBacked
<1> HIDE DEF R
<1>5. Cardinality(R) = Cardinality(AcceptedOf(u))
  BY <1>1, <1>3, <1>4
<1>6. R = AcceptedOf(u)
  BY <1>2, <1>3, <1>5, FS_Subset
<1> QED
  BY <1>6 DEF R

\* An upload whose chunks are all answered and that says "completed", without
\* errors, has made a photo of every accepted file, whatever status writes were lost.
THEOREM CompletedUploadsAreTrue ==
  ASSUME XAddIsDefinite, HashIsNotRetried, SingleCount
  PROVE  Spec => []CompletedIsTrue
<1>1. ASSUME TypeOk, PhotosInv, CompletedIsBacked, TotalInv PROVE CompletedIsTrue
  <2> SUFFICES ASSUME NEW u \in Uploads, AllCounted(u), Reported(hash[u]) = "completed"
               PROVE  AcceptedOf(u) \subseteq rows
    BY DEF CompletedIsTrue
  <2>1. hash[u].status # "completed" /\ hash[u].failed \in Int
    BY <1>1 DEF TypeOk, StatusRecord
  <2>2. /\ hash[u].total > 0 /\ hash[u].completed + hash[u].failed >= hash[u].total
        /\ ~(hash[u].failed > 0)
    BY <2>1 DEF Reported
  <2>3. hash[u].total = Cardinality(AcceptedOf(u))
    BY <1>1, <2>2, TotalOfAnswered
  <2> QED
    BY <1>1, <2>1, <2>2, <2>3, CompletedIsMade
<1> QED
  BY <1>1, PhotosInvariant, CompletedIsNeverAhead, TotalInvariant, PTL

\* A worker's step leaves of the delivered messages in its hands only such as it
\* held before, and not the one it was about to acknowledge.
LEMMA HeldSteps ==
  ASSUME TypeOk, MessagesInv, NEW w \in Workers, WorkerStep(w) \/ WorkerCrash(w)
  PROVE  \A p \in Held(w)' : p \in 1..last =>
           p \in Held(w) /\ ~(worker[w].pc = "ack" /\ p = worker[w].at)
<1> SUFFICES ASSUME NEW p \in Held(w)', p \in 1..last
             PROVE  p \in Held(w) /\ ~(worker[w].pc = "ack" /\ p = worker[w].at)
  OBVIOUS
<1>1. /\ Busy(w)' /\ p \in worker'[w].lo .. worker'[w].hi
      /\ p >= worker'[w].at \/ worker'[w].pc \notin Settling
  BY DEF Held, Busy, Batch, Settling
<1>2. /\ worker[w].pc \in WorkerPcs /\ worker[w].at \in Nat /\ worker[w].lo \in Nat
      /\ worker[w].hi \in Nat /\ last \in Nat /\ p \in Nat
  BY DEF TypeOk, WorkerRecord
<1>3. CASE ReadProcessingJobs(w)
  <2>1. worker'[w].lo = last + 1 /\ worker'[w].hi \in Nat
    BY <1>1, <1>2, <1>3, ReadMoves DEF Busy
  <2> QED
    BY <1>1, <1>2, <2>1
<1>4. CASE ~ReadProcessingJobs(w)
  <2>1. /\ Busy(w) /\ worker' \in [Workers -> WorkerRecord]
        /\ worker'[w].lo = worker[w].lo /\ worker'[w].hi = worker[w].hi
        /\ worker[w].pc \in Settling =>
             worker'[w].pc \in Settling /\ worker'[w].at >= worker[w].at
    BY <1>1, <1>4, WorkerStays DEF StaysInBatch, Busy
  <2>2. worker'[w].at \in Nat
    BY <2>1 DEF WorkerRecord
  <2>3. p \in Batch(w)
    BY <1>1, <2>1 DEF Batch
  <2>4. CASE worker[w].pc = "ack"
    <3>1. AckProcessingJob(w) \/ WorkerCrash(w)
      BY <2>4 DEF WorkerStep, ReadProcessingJobs, MoveJobToProcessing, CudaSucceeds,
                  CudaFails, PutWatermarked, PutPreview, RemoveWatermarked, CreatePhoto,
                  MoveToCompleted, MoveToFailed, RecordFailure
    <3>2. ~WorkerCrash(w) /\ HasNext(w)
      BY <1>1, <3>1 DEF WorkerCrash, AckProcessingJob, IdleWorker, Busy, TypeOk
    <3>3. worker'[w].at = worker[w].at + 1
      <4>1. PICK pc \in {"create", "failed"} : Advance(w, pc)
        BY <3>1, <3>2 DEF AckProcessingJob
      <4> QED
        BY <2>1, <3>2, <4>1, AdvanceMoves DEF WorkerPcs
    <3>4. p >= worker[w].at + 1
      BY <1>1, <2>1, <2>4, <3>3 DEF Settling
    <3> QED
      BY <1>2, <2>1, <2>3, <3>4 DEF Held, Busy
  <2>5. CASE worker[w].pc \in Settling \ {"ack"}
    <3>1. p >= worker[w].at
      BY <1>1, <1>2, <2>1, <2>2, <2>5
    <3> QED
      BY <2>1, <2>3, <2>5, <3>1 DEF Held, Busy
  <2>6. CASE worker[w].pc \notin Settling
    BY <1>2, <2>1, <2>3, <2>6 DEF Held, Busy, WorkerPcs, Settling
  <2> QED
    BY <2>4, <2>5, <2>6
<1> QED
  BY <1>3, <1>4

\* What is behind the workers stays there, and a worker that counts a message puts it
\* there.
LEMMA BehindGrows ==
  ASSUME TypeOk, MessagesInv, [Next]_vars
  PROVE  /\ Behind \subseteq Behind'
         /\ \A w \in Workers : MoveToCompleted(w) \/ MoveToFailed(w) =>
              worker[w].at \in Behind' \ Behind
<1>2. last \in Nat /\ last' \in Nat /\ last <= last' /\ \A p \in 1..last : log'[p] = log[p]
  <2>1. last \in 0..Len(log) /\ Len(log) \in Nat
    BY DEF TypeOk
  <2>2. last' = last \/ \E w \in Workers : ReadProcessingJobs(w)
    <3>1. ASSUME NEW w \in Workers, WorkerStep(w) \/ WorkerCrash(w), ~ReadProcessingJobs(w)
          PROVE  last' = last
      BY <3>1, WorkerStays
    <3> QED
      BY <3>1 DEF Next, vars, streamVars, RequestStep, Refuse, Begin, PutOriginal,
                  EnqueueProcessingJob, RemoveOriginal, RecordRejection, CountAccepted,
                  RequestCrash, Expire
  <2>3. last' \in Nat /\ last <= last'
    BY <2>1, <2>2, ReadMoves
  <2> QED
    BY <2>1, <2>3, LogGrows
<1>3. \/ worker' = worker
      \/ \E w \in Workers : WorkerStep(w) \/ WorkerCrash(w)
  BY DEF Next, vars, RequestStep, Refuse, Begin, PutOriginal, EnqueueProcessingJob,
         RemoveOriginal, RecordRejection, CountAccepted, RequestCrash, Expire
<1>4. ASSUME NEW v \in Workers, worker'[v] = worker[v]
      PROVE  Held(v)' = Held(v)
  BY <1>4 DEF Held, Batch
<1>5. ASSUME NEW p \in Behind PROVE p \in Behind'
  <2>1. p \in 1..last /\ p \in 1..last'
    BY <1>2, <1>5 DEF Behind
  <2>2. ASSUME NEW v \in Workers, p \in Held(v)'
        PROVE  worker'[v].pc \in {"error", "ack"} /\ p = worker'[v].at
    <3>1. CASE worker'[v] = worker[v]
      BY <1>4, <1>5, <2>2, <3>1 DEF Behind
    <3>2. CASE worker'[v] # worker[v]
      <4>1. WorkerStep(v) \/ WorkerCrash(v)
        BY <1>3, <3>2, PcSteps
      <4>2. p \in Held(v) /\ ~(worker[v].pc = "ack" /\ p = worker[v].at)
        BY <2>1, <2>2, <4>1, HeldSteps
      <4>3. worker[v].pc = "error" /\ p = worker[v].at
        BY <1>5, <4>2 DEF Behind
      <4>4. RecordFailure(v) \/ WorkerCrash(v)
        BY <4>1, <4>3 DEF WorkerStep, ReadProcessingJobs, MoveJobToProcessing, CudaSucceeds,
                  CudaFails, PutWatermarked, PutPreview, RemoveWatermarked, CreatePhoto,
                  MoveToCompleted, MoveToFailed, AckProcessingJob
      <4>5. ~WorkerCrash(v)
        BY <2>2 DEF WorkerCrash, Held, IdleWorker, TypeOk
      <4>6. worker'[v].pc = "ack" /\ worker'[v].at = worker[v].at
        BY <4>3, <4>4, <4>5, GoOnMoves DEF RecordFailure, WorkerPcs, Busy
      <4> QED
        BY <4>3, <4>6
    <3> QED
      BY <3>1, <3>2
  <2> QED
    BY <2>1, <2>2 DEF Behind
<1>6. ASSUME NEW w \in Workers, MoveToCompleted(w) \/ MoveToFailed(w)
      PROVE  worker[w].at \in Behind' \ Behind
  <2> DEFINE p == worker[w].at
  <2>1. WorkerStep(w)
    BY <1>6 DEF WorkerStep
  <2>2. /\ Busy(w) /\ worker'[w].at = p /\ worker'[w].pc \in {"error", "ack"}
        /\ \A v \in Workers \ {w} : worker'[v] = worker[v]
    BY <1>6, <2>1, WorkerStays, GoOnMoves DEF MoveToCompleted, MoveToFailed, WorkerPcs,
       ReadProcessingJobs, StaysInBatch, Busy
  <2>3. p \in 1..last /\ p \in Batch(w)
    <3>1. p \in Nat /\ worker[w].lo \in Nat /\ worker[w].hi \in Nat
      BY DEF TypeOk, WorkerRecord
    <3> QED
      BY <2>2, <3>1, CurrentType DEF MessagesInv, Batch
  <2>4. p \in Held(w) /\ worker[w].pc \notin {"error", "ack"}
    <3>1. p \in Nat /\ worker[w].pc \in {"completed", "failed"}
      BY <1>6, <2>3 DEF MoveToCompleted, MoveToFailed
    <3> QED
      BY <2>3, <3>1 DEF Held
  <2>5. p \notin Behind
    BY <2>4 DEF Behind
  <2>7. ASSUME NEW v \in Workers, p \in Held(v)' PROVE v = w
    <3> SUFFICES ASSUME v # w PROVE FALSE
      OBVIOUS
    <3>1. p \in Held(v)
      BY <1>4, <2>2, <2>7
    <3>2. p \in Batch(v) /\ Busy(v)
      BY <3>1 DEF Held, Busy
    <3>3. /\ worker[v].lo \in Nat /\ worker[v].hi \in Nat
          /\ worker[w].lo \in Nat /\ worker[w].hi \in Nat
      BY DEF TypeOk, WorkerRecord
    <3> HIDE DEF p
    <3>4. p \in worker[v].lo .. worker[v].hi /\ p \in worker[w].lo .. worker[w].hi
      BY <2>3, <3>2 DEF Batch
    <3>5. worker[v].hi < worker[w].lo \/ worker[w].hi < worker[v].lo
      BY <2>2, <3>2 DEF MessagesInv
    <3> QED
      BY <3>3, <3>4, <3>5
  <2>8. p \in 1..last'
    BY <1>2, <2>3
  <2> QED
    BY <2>2, <2>5, <2>7, <2>8 DEF Behind
<1> QED
  BY <1>5, <1>6

\* The messages of an upload behind the workers can be counted.
LEMMA TalliedFinite ==
  ASSUME TypeOk, NEW u
  PROVE  /\ IsFiniteSet(OfUpload(Behind, u))
         /\ Cardinality(OfUpload(Behind, u)) \in Nat
<1>1. OfUpload(Behind, u) \subseteq 1..last /\ last \in Int
  BY DEF OfUpload, Behind, TypeOk
<1>2. IsFiniteSet(1..last)
  BY <1>1, FS_Interval
<1>3. IsFiniteSet(OfUpload(Behind, u))
  BY <1>1, <1>2, FS_Subset
<1> QED
  BY <1>3, FS_CardinalityType

\* TalliedInv is inductive.
LEMMA NextTallied ==
  ASSUME HashIsNotRetried, TypeOk, TypeOk', MessagesInv, TalliedInv, [Next]_vars
  PROVE  TalliedInv'
<1> SUFFICES ASSUME NEW u \in Uploads
             PROVE  hash'[u].completed + hash'[u].failed
                      <= Cardinality(OfUpload(Behind, u)')
  BY DEF TalliedInv
<1> DEFINE T == OfUpload(Behind, u)
           TT == OfUpload(Behind, u)'
<1>0. \A p \in 1..last : log'[p] = log[p]
  BY LogGrows DEF TypeOk
<1>1. T \subseteq TT
  BY <1>0, BehindGrows DEF OfUpload, UploadOfFile, Behind
<1>2. /\ IsFiniteSet(T) /\ IsFiniteSet(TT) /\ Cardinality(T) \in Nat /\ Cardinality(TT) \in Nat
  <2>1. IsFiniteSet(T) /\ Cardinality(T) \in Nat
    BY TalliedFinite
  <2>2. TT \subseteq 1..last' /\ last' \in Int
    BY DEF OfUpload, Behind, TypeOk
  <2>3. IsFiniteSet(1..last')
    BY <2>2, FS_Interval
  <2> HIDE DEF TT
  <2>4. IsFiniteSet(TT)
    BY <2>2, <2>3, FS_Subset
  <2> QED
    BY <2>1, <2>4, FS_CardinalityType
<1>3. Cardinality(T) <= Cardinality(TT)
  BY <1>1, <1>2, FS_Subset
<1>4. /\ hash[u].completed \in Int /\ hash[u].failed \in Int
      /\ hash[u].completed + hash[u].failed <= Cardinality(T)
  BY StatusFields DEF TypeOk, TalliedInv
<1>5. CASE hash'[u] = Absent
  <2>1. Absent.completed = 0 /\ Absent.failed = 0
    BY DEF Absent
  <2>2. hash'[u].completed = 0 /\ hash'[u].failed = 0
    BY <1>5, <2>1
  <2> HIDE DEF TT
  <2> QED
    BY <1>2, <2>2 DEF TT
<1>6. CASE hash'[u].completed = hash[u].completed /\ hash'[u].failed = hash[u].failed
  <2> HIDE DEF T, TT
  <2> QED
    BY <1>2, <1>3, <1>4, <1>6 DEF TT
<1>7. ASSUME NEW w \in Workers, u = UploadOfFile(Current(w)),
             MoveToCompleted(w) \/ MoveToFailed(w),
             hash'[u].completed + hash'[u].failed = hash[u].completed + hash[u].failed + 1
      PROVE  hash'[u].completed + hash'[u].failed <= Cardinality(TT)
  <2> DEFINE p == worker[w].at
  <2>1. p \in Behind' \ Behind
    BY <1>7, BehindGrows
  <2>2. p \in 1..last
    BY <1>7, CurrentType DEF Busy, MoveToCompleted, MoveToFailed
  <2>3. p \in TT /\ p \notin T
    BY <1>0, <1>7, <2>1, <2>2 DEF OfUpload, UploadOfFile, Current
  <2>4. T \cup {p} \subseteq TT
    BY <1>1, <2>3
  <2> HIDE DEF T, TT, p
  <2>5. Cardinality(T \cup {p}) = Cardinality(T) + 1
    BY <1>2, <2>3, FS_AddElement
  <2>6. Cardinality(T \cup {p}) <= Cardinality(TT)
    BY <1>2, <2>4, FS_Subset
  <2> QED
    BY <1>2, <1>4, <1>7, <2>5, <2>6
<1>8. \A w \in Workers :
        \/ /\ hash'[u].completed = hash[u].completed + 1
           /\ hash'[u].failed = hash[u].failed
        \/ /\ hash'[u].completed = hash[u].completed
           /\ hash'[u].failed = hash[u].failed + 1
        => hash'[u].completed + hash'[u].failed = hash[u].completed + hash[u].failed + 1
  BY <1>4
<1> HIDE DEF T, TT
<1> QED
  BY <1>5, <1>6, <1>7, <1>8, TotalSteps DEF TT

\* The accepted files of an upload with a message behind the workers.
Tallied(u) == {f \in AcceptedOf(u) : \E p \in Behind : log[p] = f}
TalliedIsBounded == \A u \in Uploads :
  /\ Cardinality(OfUpload(Behind, u)) \in Nat /\ Cardinality(Tallied(u)) \in Nat
  /\ Cardinality(OfUpload(Behind, u)) <= Cardinality(Tallied(u))
  /\ Cardinality(Tallied(u)) <= Cardinality(AcceptedOf(u))

\* The messages of an upload behind the workers are of different accepted files.
LEMMA TalliedBounded == TypeOk /\ PhotosInv => TalliedIsBounded
<1> SUFFICES ASSUME TypeOk, PhotosInv, NEW u \in Uploads
             PROVE  /\ Cardinality(OfUpload(Behind, u)) \in Nat
                    /\ Cardinality(Tallied(u)) \in Nat
                    /\ Cardinality(OfUpload(Behind, u)) <= Cardinality(Tallied(u))
                    /\ Cardinality(Tallied(u)) <= Cardinality(AcceptedOf(u))
  BY DEF TalliedIsBounded
<1> DEFINE T == OfUpload(Behind, u)
           E == Tallied(u)
           g == [p \in T |-> log[p]]
<1>1. g \in Injection(T, E)
  <2>1. \A p \in T : p \in 1..Len(log) /\ log[p] \in E
    <3>1. \A p \in T : p \in 1..last /\ p \in Behind /\ UploadOfFile(log[p]) = u
      BY DEF OfUpload, Behind
    <3>2. \A p \in 1..last : p \in 1..Len(log) /\ log[p] \in Files
      BY DEF TypeOk
    <3> QED
      BY <3>1, <3>2 DEF PhotosInv, LogInv, AcceptedOf, FilesOfUpload, Tallied
  <2>2. \A p, q \in T : log[p] = log[q] => p = q
    BY <2>1 DEF PhotosInv, LogInv
  <2> HIDE DEF T, E
  <2> QED
    BY <2>1, <2>2 DEF Injection, IsInjective
<1>2. /\ IsFiniteSet(E) /\ IsFiniteSet(AcceptedOf(u)) /\ Cardinality(E) \in Nat
      /\ Cardinality(AcceptedOf(u)) \in Nat /\ Cardinality(E) <= Cardinality(AcceptedOf(u))
  <2>1. E \subseteq AcceptedOf(u) /\ AcceptedOf(u) \subseteq Files
    BY DEF AcceptedOf, FilesOfUpload, Tallied
  <2> QED
    BY <2>1, SubsetOfFiles
<1>3. Cardinality(T) <= Cardinality(E) /\ Cardinality(T) \in Nat
  <2>1. Cardinality(T) \in Nat
    BY TalliedFinite
  <2> HIDE DEF T, E, g
  <2> QED
    BY <1>1, <1>2, <2>1, FS_Injection
<1> QED
  BY <1>2, <1>3

\* What a report that an upload is over says of its hash.
LEMMA TerminalFields ==
  ASSUME TypeOk, NEW u \in Uploads
  PROVE  /\ hash[u].total \in Int /\ hash[u].completed \in Int /\ hash[u].failed \in Int
         /\ Terminal(u) <=>
              hash[u].total > 0 /\ hash[u].completed + hash[u].failed >= hash[u].total
<1>1. hash[u] \in StatusRecord
  BY DEF TypeOk
<1>2. /\ hash[u].total \in Int /\ hash[u].completed \in Int /\ hash[u].failed \in Int
      /\ hash[u].status \in {"", "queued", "processing"}
  BY <1>1 DEF StatusRecord
<1>3. CASE hash[u].total > 0 /\ hash[u].completed + hash[u].failed >= hash[u].total
  BY <1>2, <1>3 DEF Terminal, Reported
<1>4. CASE ~(hash[u].total > 0 /\ hash[u].completed + hash[u].failed >= hash[u].total)
  <2>1. Reported(hash[u]) = hash[u].status
    BY <1>4 DEF Reported
  <2> QED
    BY <1>2, <1>4, <2>1 DEF Terminal
<1> QED
  BY <1>2, <1>3, <1>4

\* In every behaviour, TalliedInv holds.
LEMMA TalliedInvariant ==
  ASSUME HashIsNotRetried
  PROVE  Spec => [](TypeOk /\ MessagesInv /\ TalliedInv)
<1>1. Init => TypeOk /\ MessagesInv /\ TalliedInv
  <2>1. Init => TalliedInv
    <3> SUFFICES ASSUME Init, NEW u \in Uploads
                 PROVE  hash[u].completed + hash[u].failed <= Cardinality(OfUpload(Behind, u))
      BY DEF TalliedInv
    <3>1. Absent.completed = 0 /\ Absent.failed = 0 /\ hash[u] = Absent
      BY DEF Absent, Init
    <3>2. Cardinality(OfUpload(Behind, u)) \in Nat
      BY InitTypeOk, TalliedFinite
    <3> QED
      BY <3>1, <3>2
  <2> QED
    BY <2>1, InitTypeOk, InitMessages
<1>2. TypeOk /\ MessagesInv /\ TalliedInv /\ [Next]_vars
        => (TypeOk /\ MessagesInv /\ TalliedInv)'
  BY NextTypeAndMessages, NextTallied
<1> QED
  BY <1>1, <1>2, PTL DEF Spec

\* Of an upload whose total is that of its accepted files and that is over, each of
\* them has a message behind the workers.
LEMMA TerminalIsTallied ==
  ASSUME TypeOk, PhotosInv, TalliedInv, NEW u \in Uploads, Terminal(u),
         hash[u].total = Cardinality(AcceptedOf(u))
  PROVE  \A f \in AcceptedOf(u) : \E p \in Behind : log[p] = f
<1>1. /\ hash[u].completed + hash[u].failed >= hash[u].total
      /\ hash[u].total \in Int /\ hash[u].completed \in Int /\ hash[u].failed \in Int
  BY TerminalFields
<1>2. /\ hash[u].completed + hash[u].failed <= Cardinality(OfUpload(Behind, u))
      /\ Cardinality(OfUpload(Behind, u)) <= Cardinality(Tallied(u))
      /\ Cardinality(Tallied(u)) <= Cardinality(AcceptedOf(u))
  BY TalliedBounded DEF TalliedInv, TalliedIsBounded
<1>3. Tallied(u) \subseteq AcceptedOf(u) /\ AcceptedOf(u) \subseteq Files
  BY DEF Tallied, AcceptedOf, FilesOfUpload
<1>4. /\ IsFiniteSet(AcceptedOf(u)) /\ Cardinality(Tallied(u)) \in Nat
      /\ Cardinality(OfUpload(Behind, u)) \in Nat
  BY <1>3, SubsetOfFiles, TalliedFinite
<1>5. Cardinality(Tallied(u)) = Cardinality(AcceptedOf(u))
  BY <1>1, <1>2, <1>4
<1>6. Tallied(u) = AcceptedOf(u)
  BY <1>3, <1>4, <1>5, FS_Subset
<1> QED
  BY <1>6 DEF Tallied

\* Of such an upload the files without a photo are counted as failed: no more of its
\* files are counted as completed than have a photo.
LEMMA UnmadeAreFailed ==
  ASSUME TypeOk, PhotosInv, CompletedIsBacked, NEW u \in Uploads,
         hash[u].total = Cardinality(AcceptedOf(u)),
         hash[u].completed + hash[u].failed >= hash[u].total
  PROVE  Cardinality(AcceptedOf(u) \ rows) <= hash[u].failed
<1> DEFINE A == AcceptedOf(u)
           R == rows \cap FilesOfUpload(u)
           U == A \ rows
<1>1. hash[u].total \in Int /\ hash[u].completed \in Int /\ hash[u].failed \in Int
  BY StatusFields DEF TypeOk
<1>2. R \subseteq A /\ A \subseteq Files /\ A = R \cup U /\ R \cap U = {}
  BY PhotosAreAccepted DEF AcceptedOf, FilesOfUpload
<1>3. hash[u].completed <= Cardinality(R)
  BY DEF CompletedIsBacked
<1> HIDE DEF A, R, U
<1>4. /\ IsFiniteSet(R) /\ IsFiniteSet(U) /\ Cardinality(R) \in Nat
      /\ Cardinality(U) \in Nat /\ Cardinality(A) \in Nat
  BY <1>2, SubsetOfFiles
<1>5. Cardinality(R \cup U) = Cardinality(R) + Cardinality(U) - Cardinality(R \cap U)
  BY <1>4, FS_Union
<1>6. Cardinality(R \cap U) = 0
  BY <1>2, FS_EmptySet
<1>7. Cardinality(A) = Cardinality(R) + Cardinality(U)
  BY <1>2, <1>4, <1>5, <1>6
<1>8. hash[u].completed + hash[u].failed >= Cardinality(A)
  BY DEF A
<1>9. Cardinality(U) <= hash[u].failed
  BY <1>1, <1>3, <1>4, <1>7, <1>8
<1> QED
  BY <1>9 DEF U, A

\* A status that says the upload is over, once its chunks are answered, is true:
\* through every crash of a worker, also of one that has counted a failed file and
\* not yet recorded its error.
THEOREM FinishedUploadsAreTrue ==
  ASSUME XAddIsDefinite, HashIsKept, HashIsNotRetried, SingleCount
  PROVE  Spec => []TerminalIsTrue
<1>1. ASSUME TypeOk, PhotosInv, AckedIsExplained, CompletedIsBacked, TalliedInv, TotalInv
      PROVE  TerminalIsTrue
  <2> SUFFICES ASSUME NEW u \in Uploads, AllCounted(u), Terminal(u)
               PROVE  /\ \A f \in AcceptedOf(u) :
                           f \in rows \cup errs \/ \E p \in Behind \ acked : log[p] = f
                      /\ Cardinality(AcceptedOf(u) \ rows) <= hash[u].failed
    BY DEF TerminalIsTrue
  <2>1. /\ hash[u].total = Cardinality(AcceptedOf(u))
        /\ hash[u].completed + hash[u].failed >= hash[u].total
    BY <1>1, TerminalFields, TotalOfAnswered
  <2>2. \A f \in AcceptedOf(u) : \E p \in Behind : log[p] = f
    BY <1>1, <2>1, TerminalIsTallied
  <2>3. Cardinality(AcceptedOf(u) \ rows) <= hash[u].failed
    BY <1>1, <2>1, UnmadeAreFailed
  <2> QED
    BY <1>1, <2>2, <2>3 DEF AckedIsExplained
<1> QED
  BY <1>1, TalliedInvariant, PhotosInvariant, AcknowledgedIsExplained,
     CompletedIsNeverAhead, TotalInvariant, PTL

\* A status that says an upload is over, and whose total is that of the accepted
\* files and not counted again, is not changed by a step.
LEMMA FinalStays ==
  ASSUME HashIsNotRetried, ~StatusExpires, TypeOk, MessagesInv,
         TalliedInv', TalliedIsBounded', [Next]_vars, NEW u \in Uploads, Terminal(u),
         hash[u].total = Cardinality(AcceptedOf(u)),
         \A r \in Requests : CountAccepted(r) => UploadOf[r] # u
  PROVE  Reported(hash'[u]) = Reported(hash[u])
<1>1. /\ hash[u].total > 0 /\ hash[u].completed + hash[u].failed >= hash[u].total
      /\ hash[u].total \in Int /\ hash[u].completed \in Int /\ hash[u].failed \in Int
  BY TerminalFields
<1>2. CASE /\ hash'[u].total = hash[u].total
           /\ hash'[u].completed = hash[u].completed
           /\ hash'[u].failed = hash[u].failed
  BY <1>1, <1>2 DEF Reported
<1>3. ASSUME NEW w \in Workers, MoveToCompleted(w) \/ MoveToFailed(w),
             hash'[u].completed + hash'[u].failed
               = hash[u].completed + hash[u].failed + 1
      PROVE  FALSE
  <2>1. AcceptedOf(u)' = AcceptedOf(u)
    BY <1>3 DEF MoveToCompleted, MoveToFailed, AcceptedOf, FilesOfUpload, UploadOfFile,
                requestVars
  <2>2. /\ hash'[u].completed + hash'[u].failed <= Cardinality(OfUpload(Behind, u))'
        /\ Cardinality(OfUpload(Behind, u))' <= Cardinality(Tallied(u))'
        /\ Cardinality(Tallied(u))' <= Cardinality(AcceptedOf(u))'
    BY DEF TalliedInv, TalliedIsBounded
  <2>3. Cardinality(AcceptedOf(u))' = Cardinality(AcceptedOf(u))
    BY <2>1
  <2>4. /\ Cardinality(OfUpload(Behind, u))' \in Nat /\ Cardinality(Tallied(u))' \in Nat
    BY DEF TalliedIsBounded
  <2> QED
    BY <1>1, <1>3, <2>2, <2>3, <2>4
<1>4. \A w \in Workers :
        \/ /\ hash'[u].completed = hash[u].completed + 1
           /\ hash'[u].failed = hash[u].failed
        \/ /\ hash'[u].completed = hash[u].completed
           /\ hash'[u].failed = hash[u].failed + 1
        => hash'[u].completed + hash'[u].failed = hash[u].completed + hash[u].failed + 1
  BY <1>1
<1> QED
  BY <1>2, <1>3, <1>4, TotalSteps

\* Once its chunks are answered and it says that the upload is over, a status
\* keeps saying so, and with the same word.
THEOREM FinishedStaysFinal ==
  ASSUME XAddIsDefinite, HashIsNotRetried, ~StatusExpires
  PROVE  Spec => TerminalIsFinal
<1> DEFINE Final == \A u \in Uploads : AllCounted(u) /\ Terminal(u) =>
                      Reported(hash[u])' = Reported(hash[u])
           Inv == TypeOk /\ MessagesInv /\ TalliedInv /\ TotalInv /\ TalliedIsBounded
<1>0. SingleCount
  BY DEF SingleCount
<1>1. Spec => []Inv
  BY <1>0, TalliedInvariant, PhotosInvariant, TotalInvariant, TalliedBounded, PTL
<1>2. ASSUME Inv, Inv', [Next]_vars, NEW u \in Uploads, AllCounted(u), Terminal(u)
      PROVE  Reported(hash'[u]) = Reported(hash[u])
  <2>1. hash[u].total = Cardinality(AcceptedOf(u))
    BY <1>2, TerminalFields, TotalOfAnswered
  <2>2. \A r \in Requests : CountAccepted(r) => UploadOf[r] # u
    BY <1>2 DEF CountAccepted, AllCounted, RequestsOf
  <2> QED
    BY <1>2, <2>1, <2>2, FinalStays
<1>3. Inv /\ Inv' /\ [Next]_vars => [Final]_vars
  BY <1>2
<1> QED
  BY <1>1, <1>3, PTL DEF Spec, TerminalIsFinal

-----------------------------------------------------------------------------
(* Photos of accepted files, when a job may be queued twice.               *)

\* A worker takes an object back only after a put that was answered with an error.
LEMMA RemoveEnters ==
  ASSUME TypeOk, MessagesInv, NEW w \in Workers, WorkerStep(w) \/ WorkerCrash(w),
         worker'[w].pc = "remove"
  PROVE  worker[w].pc = "preview" /\ \E o \in Outcome["put"] : Errs(o)
<1>1. ~ReadProcessingJobs(w)
  <2>1. ReadProcessingJobs(w) => worker'[w] = worker[w] \/ worker'[w].pc = "move"
    BY ReadMoves
  <2> QED
    BY <2>1 DEF ReadProcessingJobs
<1>2. Busy(w)
  BY <1>1, WorkerStays
<1>3. CASE PutPreview(w)
  <2>1. CASE \E o \in Outcome["put"] : Errs(o)
    BY <1>3, <2>1 DEF PutPreview
  <2>2. CASE ~\E o \in Outcome["put"] : Errs(o)
    <3>1. CASE \E pc \in {"create"}, ok \in BOOLEAN : FromFirst(w, pc, ok)
      BY <1>2, <3>1, FromFirstMoves DEF WorkerPcs
    <3>2. CASE HasNext(w) /\ Advance(w, "watermark")
      BY <1>2, <3>2, AdvanceMoves DEF WorkerPcs
    <3> QED
      BY <1>3, <2>2, <3>1, <3>2 DEF PutPreview
  <2> QED
    BY <2>1, <2>2
<1>4. CASE MoveJobToProcessing(w)
  BY <1>2, <1>4, AdvanceMoves, FromFirstMoves DEF MoveJobToProcessing, Selected, WorkerPcs
<1>5. CASE CudaSucceeds(w) \/ CudaFails(w) \/ RemoveWatermarked(w)
  <2>1. \E pc \in {"create", "watermark", "failed"}, ok \in BOOLEAN : FromFirst(w, pc, ok)
    BY <1>5 DEF CudaSucceeds, CudaFails, RemoveWatermarked
  <2> QED
    BY <1>2, <2>1, FromFirstMoves DEF WorkerPcs
<1>6. CASE PutWatermarked(w)
  <2>1. \/ \E pc \in {"failed"}, ok \in BOOLEAN : FromFirst(w, pc, ok)
        \/ GoOn(w, "preview")
    BY <1>6 DEF PutWatermarked
  <2>2. CASE \E pc \in {"failed"}, ok \in BOOLEAN : FromFirst(w, pc, ok)
    BY <1>2, <2>2, FromFirstMoves DEF WorkerPcs
  <2>3. CASE GoOn(w, "preview")
    BY <1>2, <2>3, GoOnMoves DEF WorkerPcs
  <2> QED
    BY <2>1, <2>2, <2>3
<1>7. CASE CreatePhoto(w) \/ MoveToCompleted(w) \/ MoveToFailed(w) \/ RecordFailure(w)
  <2>1. \E pc \in {"completed", "failed", "error", "ack"} : GoOn(w, pc)
    BY <1>7 DEF CreatePhoto, AfterCreate, MoveToCompleted, MoveToFailed, RecordFailure
  <2> QED
    BY <1>2, <2>1, GoOnMoves DEF WorkerPcs
<1>8. CASE AckProcessingJob(w)
  BY <1>2, <1>8, AdvanceMoves DEF AckProcessingJob, WorkerPcs, IdleWorker, TypeOk
<1>9. CASE WorkerCrash(w)
  BY <1>9 DEF WorkerCrash, IdleWorker, TypeOk
<1> QED
  BY <1>1, <1>3, <1>4, <1>5, <1>6, <1>7, <1>8, <1>9 DEF WorkerStep

\* A worker that has not moved keeps its objects while none is taken back.
LEMMA DerivedKept ==
  ASSUME TypeOk, MessagesInv, NEW v \in Workers, worker'[v] = worker[v], DerivedOf(v),
         \A p \in 1..last : log'[p] = log[p],
         watermarked \subseteq watermarked', preview \subseteq preview'
  PROVE  DerivedOf(v)'
<1>1. CASE Busy(v)
  <2>1. /\ worker[v].at \in Nat /\ worker[v].lo \in Nat /\ worker[v].hi \in Nat /\ last \in Nat
    BY DEF TypeOk, WorkerRecord
  <2>2. Batch(v) \subseteq 1..last /\ worker[v].at \in 1..last
    BY <1>1, <2>1 DEF MessagesInv, Batch
  <2>3. Batch(v)' = Batch(v) /\ BatchFiles(v)' = BatchFiles(v) /\ Current(v)' = Current(v)
    BY <2>2 DEF Batch, BatchFiles, Current
  <2> QED
    BY <2>2, <2>3 DEF DerivedOf
<1>2. CASE ~Busy(v)
  BY <1>2 DEF DerivedOf, Busy, Settling
<1> QED
  BY <1>1, <1>2

\* A request changes no derived object and no photo, and keeps the originals of
\* the files it has not given up.
LEMMA RequestWhole ==
  ASSUME TypeOk, NEW r \in Requests, RequestStep(r),
         \A f \in Files : offer[f] \in {"stored", "accepted"} => f \in original
  PROVE  /\ \A f \in Files : offer'[f] \in {"stored", "accepted"} => f \in original'
         /\ UNCHANGED <<watermarked, preview, rows, worker>>
<1>1. UNCHANGED <<watermarked, preview, rows, worker>>
  BY DEF RequestStep, Refuse, Begin, PutOriginal, EnqueueProcessingJob, RemoveOriginal,
         RecordRejection, CountAccepted, storeVars
<1>2. CASE UNCHANGED <<offer, original>>
  BY <1>1, <1>2
<1>3. ASSUME NEW f \in FilesOf(r), PutOriginal(r, f)
      PROVE  \A g \in Files : offer'[g] \in {"stored", "accepted"} => g \in original'
  <2>1. \/ offer' = [offer EXCEPT ![f] = "failing"] /\ original \subseteq original'
        \/ offer' = [offer EXCEPT ![f] = "stored"] /\ original \cup {f} \subseteq original'
    BY <1>3 DEF PutOriginal, Applied, Errs
  <2> QED
    BY <2>1 DEF TypeOk
<1>4. ASSUME NEW f \in FilesOf(r), EnqueueProcessingJob(r, f)
      PROVE  \A g \in Files : offer'[g] \in {"stored", "accepted"} => g \in original'
  BY <1>4 DEF EnqueueProcessingJob, storeVars, TypeOk
<1>5. ASSUME NEW f \in FilesOf(r), RemoveOriginal(r, f)
      PROVE  \A g \in Files : offer'[g] \in {"stored", "accepted"} => g \in original'
  BY <1>5 DEF RemoveOriginal, TypeOk
<1>6. ASSUME NEW f \in FilesOf(r), RecordRejection(r, f)
      PROVE  \A g \in Files : offer'[g] \in {"stored", "accepted"} => g \in original'
  BY <1>6 DEF RecordRejection, storeVars, TypeOk
<1> QED
  BY <1>1, <1>2, <1>3, <1>4, <1>5, <1>6
  DEF RequestStep, Refuse, Begin, CountAccepted, storeVars

\* A worker's step takes no object back, and makes photos of files that have theirs.
LEMMA WorkerWhole ==
  ASSUME ObjectsStay, TypeOk, MessagesInv, WholeInv, NEW w \in Workers,
         WorkerStep(w) \/ WorkerCrash(w)
  PROVE  /\ UNCHANGED <<offer, original>>
         /\ watermarked \subseteq watermarked' /\ preview \subseteq preview'
         /\ rows' \subseteq watermarked' \cap preview'
<1>1. CASE ReadProcessingJobs(w)
  BY <1>1 DEF ReadProcessingJobs, requestVars, storeVars, WholeInv
<1>2. CASE ~ReadProcessingJobs(w)
  <2>1. /\ UNCHANGED <<offer, original>> /\ preview \subseteq preview'
        /\ worker[w].pc # "remove" => watermarked \subseteq watermarked'
        /\ rows' = rows \/ (rows' = rows \cup {Current(w)} /\ worker[w].pc = "create")
    BY <1>2, ObjectSteps
  <2>2. watermarked \subseteq watermarked'
    BY <2>1 DEF WholeInv
  <2>3. worker[w].pc = "create" => Current(w) \in watermarked \cap preview
    <3> SUFFICES ASSUME worker[w].pc = "create" PROVE Current(w) \in watermarked \cap preview
      OBVIOUS
    <3>1. BatchFiles(w) \subseteq watermarked \cap preview
      BY DEF WholeInv, DerivedInv, Settling
    <3>2. Busy(w) /\ worker[w].at \in Nat /\ worker[w].lo \in Nat /\ worker[w].hi \in Nat
      BY DEF TypeOk, WorkerRecord, Busy
    <3>3. worker[w].at \in Batch(w)
      BY <3>2 DEF MessagesInv, Batch
    <3> QED
      BY <3>1, <3>3 DEF BatchFiles, Current
  <2> QED
    BY <2>1, <2>2, <2>3 DEF WholeInv
<1> QED
  BY <1>1, <1>2

\* WholeInv is inductive while no object is taken back.
LEMMA NextWhole ==
  ASSUME ObjectsStay, TypeOk, MessagesInv, WholeInv, [Next]_vars
  PROVE  WholeInv'
<1>0. \A p \in 1..last : log'[p] = log[p]
  BY LogGrows DEF TypeOk
<1>1. \A w \in Workers : DerivedOf(w)
  BY DEF WholeInv, DerivedInv, DerivedOf
<1>2. CASE /\ UNCHANGED <<watermarked, preview, rows, worker>>
           /\ \A f \in Files : offer'[f] \in {"stored", "accepted"} => f \in original'
  <2>1. \A w \in Workers : DerivedOf(w)'
    BY <1>0, <1>1, <1>2, DerivedKept
  <2> QED
    BY <1>2, <2>1 DEF WholeInv, DerivedInv, DerivedOf
<1>3. ASSUME NEW w \in Workers, WorkerStep(w) \/ WorkerCrash(w) PROVE WholeInv'
  <2>1. /\ UNCHANGED <<offer, original>>
        /\ watermarked \subseteq watermarked' /\ preview \subseteq preview'
        /\ rows' \subseteq watermarked' \cap preview'
    BY <1>3, WorkerWhole
  <2>2. \A v \in Workers \ {w} : worker'[v] = worker[v]
    BY <1>3, PcSteps
  <2>3. \A v \in Workers \ {w} : DerivedOf(v)'
    BY <1>0, <1>1, <2>1, <2>2, DerivedKept
  <2>4. DerivedOf(w)'
    <3>1. CASE ReadProcessingJobs(w)
      <4>1. worker'[w] = worker[w] \/ worker'[w].pc = "move"
        BY <3>1, ReadMoves
      <4>2. CASE worker'[w] = worker[w]
        BY <1>0, <1>1, <2>1, <4>2, DerivedKept
      <4>3. CASE worker'[w].pc = "move"
        BY <4>3 DEF DerivedOf, Settling
      <4> QED
        BY <4>1, <4>2, <4>3
    <3>2. CASE ~ReadProcessingJobs(w)
      BY <1>3, <3>2, StepDerived DEF WholeInv
    <3> QED
      BY <3>1, <3>2
  <2>5. Mode = "cuda" => \A v \in Workers : worker'[v].pc \notin {"watermark", "preview"}
    BY <1>3, <2>2, PcSteps DEF WholeInv
  <2>6. \A v \in Workers : worker'[v].pc # "remove"
    BY <1>3, <2>2, RemoveEnters DEF WholeInv, ObjectsStay
  <2> QED
    BY <2>1, <2>3, <2>4, <2>5, <2>6 DEF WholeInv, DerivedInv, DerivedOf
<1>4. \/ \E r \in Requests : RequestStep(r)
      \/ \E w \in Workers : WorkerStep(w) \/ WorkerCrash(w)
      \/ UNCHANGED <<watermarked, preview, rows, worker, offer, original>>
  BY DEF Next, vars, requestVars, storeVars, RequestCrash, Expire
<1>5. ASSUME NEW r \in Requests, RequestStep(r) PROVE WholeInv'
  BY <1>2, <1>5, RequestWhole DEF WholeInv
<1>6. CASE UNCHANGED <<watermarked, preview, rows, worker, offer, original>>
  BY <1>2, <1>6 DEF WholeInv
<1> QED
  BY <1>3, <1>4, <1>5, <1>6

\* Even when the stream has a job twice, or one whose request was told it was not
\* queued, a photo of a file reported as accepted has its three objects.
THEOREM AcceptedPhotosAreWhole ==
  ASSUME ObjectsStay
  PROVE  Spec => []AcceptedPhotoIsWhole
<1>1. Init => TypeOk /\ MessagesInv /\ WholeInv
  <2>1. Init => WholeInv
    BY DEF Init, WholeInv, DerivedInv, IdleWorker, Settling
  <2> QED
    BY <2>1, InitTypeOk, InitMessages
<1>2. TypeOk /\ MessagesInv /\ WholeInv /\ [Next]_vars
        => (TypeOk /\ MessagesInv /\ WholeInv)'
  BY NextTypeAndMessages, NextWhole
<1>3. TypeOk /\ WholeInv => AcceptedPhotoIsWhole
  BY DEF WholeInv, AcceptedPhotoIsWhole, TypeOk
<1> QED
  BY <1>1, <1>2, <1>3, PTL DEF Spec

-----------------------------------------------------------------------------
(* The counters, with reliable Redis calls, no crash and no expiry.        *)

\* The environment in which the counters are exact at every moment.
NothingIsLost ==
  /\ HashIsKept /\ HashIsNotRetried /\ XAddIsDefinite
  /\ "lostReply" \notin Outcome["read"]
  /\ MayCrash = {}
  /\ ~StatusExpires

\* What each transaction does to the other counters.
LEMMA OtherFields ==
  ASSUME NEW h \in StatusRecord, NEW n \in Int
  PROVE  /\ h.queued \in Int /\ h.processing \in Int /\ h.uploaded \in Int
         /\ InitUploadStatus(h).queued = h.queued
         /\ InitUploadStatus(h).processing = h.processing
         /\ InitUploadStatus(h).uploaded = h.uploaded
         /\ AddUploadCounters(h, n).queued = h.queued + n
         /\ AddUploadCounters(h, n).processing = h.processing
         /\ AddUploadCounters(h, n).uploaded = h.uploaded + n
         /\ MoveQueuedToProcessing(h, 1).queued = h.queued - 1
         /\ MoveQueuedToProcessing(h, 1).processing = h.processing + 1
         /\ MoveQueuedToProcessing(h, 1).uploaded = h.uploaded
         /\ MoveProcessingToCompleted(h, 1).queued = h.queued
         /\ MoveProcessingToCompleted(h, 1).processing = h.processing - 1
         /\ MoveProcessingToCompleted(h, 1).uploaded = h.uploaded
         /\ MoveProcessingToFailed(h, 1).queued = h.queued
         /\ MoveProcessingToFailed(h, 1).processing = h.processing - 1
         /\ MoveProcessingToFailed(h, 1).uploaded = h.uploaded
  BY DEF StatusRecord, InitUploadStatus, AddUploadCounters, MoveQueuedToProcessing,
         MoveProcessingToCompleted, MoveProcessingToFailed

\* The regions of a worker, told by where it is; those of different workers are apart.
RegionsInv ==
  \A w \in Workers :
    /\ worker[w].pc = "idle" => ToMove(w) = {} /\ ToSettle(w) = {}
    /\ worker[w].pc = "move" =>
         /\ ToMove(w) = worker[w].at .. worker[w].hi
         /\ ToSettle(w) = worker[w].lo .. (worker[w].at - 1)
    /\ worker[w].pc \in {"cuda", "watermark", "preview", "remove"} =>
         ToMove(w) = {} /\ ToSettle(w) = worker[w].lo .. worker[w].hi
    /\ worker[w].pc \in {"create", "completed", "failed"} =>
         ToMove(w) = {} /\ ToSettle(w) = worker[w].at .. worker[w].hi
    /\ worker[w].pc \in {"error", "ack"} =>
         ToMove(w) = {} /\ ToSettle(w) = (worker[w].at + 1) .. worker[w].hi
    /\ ToMove(w) \subseteq 1..last /\ ToSettle(w) \subseteq 1..last
    /\ \A v \in Workers : /\ ToMove(w) \cap ToSettle(v) = {}
                          /\ v # w => /\ ToMove(w) \cap ToMove(v) = {}
                                      /\ ToSettle(w) \cap ToSettle(v) = {}

\* RegionsInv follows from where the batches are.
LEMMA Regions == TypeOk /\ MessagesInv => RegionsInv
<1> SUFFICES ASSUME TypeOk, MessagesInv, NEW w \in Workers
             PROVE  RegionsInv!(w)
  BY DEF RegionsInv
<1>1. \A v \in Workers : /\ worker[v].at \in Nat /\ worker[v].lo \in Nat /\ worker[v].hi \in Nat
                         /\ worker[v].pc \in WorkerPcs /\ last \in Nat
  BY DEF TypeOk, WorkerRecord
<1>2. \A v \in Workers : Busy(v) =>
        /\ 1 <= worker[v].lo /\ worker[v].lo <= worker[v].at
        /\ worker[v].at <= worker[v].hi /\ worker[v].hi <= last
  BY DEF MessagesInv
<1>3. \A v \in Workers : /\ ~Busy(v) => Held(v) = {}
                         /\ Held(v) \subseteq Batch(v)
  BY DEF Held, Busy
<1>4. CASE ~Busy(w)
  BY <1>1, <1>3, <1>4 DEF ToMove, ToSettle, Busy
<1>5. CASE Busy(w)
  <2>1. Batch(w) \subseteq 1..last
    BY <1>1, <1>2, <1>5 DEF Batch
  <2>2. \A v \in Workers \ {w} : Held(w) \cap Held(v) = {}
    <3>1. ASSUME NEW v \in Workers \ {w}, Busy(v) PROVE Batch(w) \cap Batch(v) = {}
      BY <1>1, <1>5, <3>1 DEF MessagesInv, Batch
    <3> QED
      BY <1>3, <3>1
  <2>3. /\ worker[w].pc = "move" => Held(w) = worker[w].lo .. worker[w].hi
        /\ worker[w].pc \in {"cuda", "watermark", "preview", "remove"} =>
             Held(w) = worker[w].lo .. worker[w].hi
        /\ worker[w].pc \in {"create", "completed", "failed", "error", "ack"} =>
             Held(w) = worker[w].at .. worker[w].hi
    BY <1>1, <1>2, <1>5 DEF Held, Batch, Busy
  <2>4. worker[w].pc = "move" => /\ ToMove(w) = worker[w].at .. worker[w].hi
                                 /\ ToSettle(w) = worker[w].lo .. (worker[w].at - 1)
    BY <1>1, <1>2, <1>5, <2>3 DEF ToMove, ToSettle
  <2>5. worker[w].pc \in {"cuda", "watermark", "preview", "remove"} =>
              ToMove(w) = {} /\ ToSettle(w) = worker[w].lo .. worker[w].hi
    BY <2>3 DEF ToMove, ToSettle
  <2>6. worker[w].pc \in {"create", "completed", "failed"} =>
              ToMove(w) = {} /\ ToSettle(w) = worker[w].at .. worker[w].hi
    BY <2>3 DEF ToMove, ToSettle
  <2>7. worker[w].pc \in {"error", "ack"} =>
              ToMove(w) = {} /\ ToSettle(w) = (worker[w].at + 1) .. worker[w].hi
    BY <1>1, <1>2, <1>5, <2>3 DEF ToMove, ToSettle
  <2>8. \A v \in Workers : ToMove(v) \subseteq Held(v) /\ ToSettle(v) \subseteq Held(v)
    BY DEF ToMove, ToSettle
  <2>9. ToMove(w) \cap ToSettle(w) = {}
    BY <1>1, <2>4, <2>5, <2>6, <2>7, <1>5 DEF ToMove, ToSettle
  <2> QED
    BY <1>3, <1>5, <2>1, <2>2, <2>4, <2>5, <2>6, <2>7, <2>8, <2>9 DEF Busy
<1> QED
  BY <1>4, <1>5

\* How the regions of a worker change in its step.
LEMMA RegionSteps ==
  ASSUME TypeOk, MessagesInv, RegionsInv, RegionsInv', NEW w \in Workers, WorkerStep(w),
         ~ReadProcessingJobs(w)
  PROVE  /\ MoveJobToProcessing(w) =>
              /\ worker[w].at \in ToMove(w)
              /\ ToMove(w)' = ToMove(w) \ {worker[w].at}
              /\ ToSettle(w)' = ToSettle(w) \cup {worker[w].at}
         /\ MoveToCompleted(w) \/ MoveToFailed(w) =>
              /\ worker[w].at \in ToSettle(w)
              /\ ToMove(w)' = ToMove(w)
              /\ ToSettle(w)' = ToSettle(w) \ {worker[w].at}
         /\ ~MoveJobToProcessing(w) /\ ~MoveToCompleted(w) /\ ~MoveToFailed(w) =>
              ToMove(w)' = ToMove(w) /\ ToSettle(w)' = ToSettle(w)
<1>1. /\ Busy(w) /\ worker[w].at \in Nat /\ worker[w].lo \in Nat /\ worker[w].hi \in Nat
  BY WorkerStays DEF TypeOk, WorkerRecord
<1>2. worker[w].lo <= worker[w].at /\ worker[w].at <= worker[w].hi
  BY <1>1 DEF MessagesInv
<1>3. CASE MoveJobToProcessing(w)
  <2>1. CASE HasNext(w)
    <3>1. /\ worker[w].pc = "move" /\ worker'[w].pc = "move" /\ worker'[w].at = worker[w].at + 1
          /\ worker'[w].lo = worker[w].lo /\ worker'[w].hi = worker[w].hi
      BY <1>1, <1>3, <2>1, AdvanceMoves DEF MoveJobToProcessing, WorkerPcs
    <3>2. /\ ToMove(w) = worker[w].at .. worker[w].hi
          /\ ToSettle(w) = worker[w].lo .. (worker[w].at - 1)
          /\ ToMove(w)' = (worker[w].at + 1) .. worker[w].hi
          /\ ToSettle(w)' = worker[w].lo .. (worker'[w].at - 1)
      BY <3>1 DEF RegionsInv
    <3>3. worker'[w].at - 1 = worker[w].at
      BY <1>1, <3>1
    <3> QED
      BY <1>1, <1>2, <1>3, <3>1, <3>2, <3>3 DEF MoveToCompleted, MoveToFailed
  <2>2. CASE ~HasNext(w)
    <3>1. PICK pc \in {"cuda", "watermark"} : FromFirst(w, pc, TRUE)
      BY <1>3, <2>2 DEF MoveJobToProcessing, Selected
    <3>2. /\ worker[w].pc = "move" /\ worker'[w].pc \in {"cuda", "watermark"}
          /\ worker'[w].lo = worker[w].lo /\ worker'[w].hi = worker[w].hi
      BY <1>1, <1>3, <3>1, FromFirstMoves DEF MoveJobToProcessing, WorkerPcs
    <3>3. /\ ToMove(w) = worker[w].at .. worker[w].hi
          /\ ToSettle(w) = worker[w].lo .. (worker[w].at - 1)
          /\ ToMove(w)' = {} /\ ToSettle(w)' = worker[w].lo .. worker[w].hi
      BY <3>2 DEF RegionsInv
    <3>4. worker[w].at = worker[w].hi
      BY <1>1, <1>2, <2>2 DEF HasNext
    <3> QED
      BY <1>1, <1>2, <1>3, <3>2, <3>3, <3>4 DEF MoveToCompleted, MoveToFailed
  <2> QED
    BY <2>1, <2>2
<1>4. CASE MoveToCompleted(w) \/ MoveToFailed(w)
  <2>1. /\ worker[w].pc \in {"completed", "failed"}
        /\ \E pc \in {"error", "ack"} : GoOn(w, pc)
    BY <1>4 DEF MoveToCompleted, MoveToFailed
  <2>2. /\ worker'[w].pc \in {"error", "ack"} /\ worker'[w].at = worker[w].at
        /\ worker'[w].hi = worker[w].hi
    BY <1>1, <2>1, GoOnMoves DEF WorkerPcs
  <2>3. /\ ToMove(w) = {} /\ ToSettle(w) = worker[w].at .. worker[w].hi
        /\ ToMove(w)' = {} /\ ToSettle(w)' = (worker[w].at + 1) .. worker[w].hi
    BY <2>1, <2>2 DEF RegionsInv
  <2>4. /\ worker[w].at \in worker[w].at .. worker[w].hi
        /\ (worker[w].at + 1) .. worker[w].hi = (worker[w].at .. worker[w].hi) \ {worker[w].at}
    BY <1>1, <1>2
  <2>5. ~MoveJobToProcessing(w)
    BY <2>1 DEF MoveJobToProcessing
  <2> QED
    BY <1>4, <2>3, <2>4, <2>5
\* Where the batch starts again, in the loops before settling and in the first pass of it.
<1>5. ASSUME worker[w].pc \in {"cuda", "watermark", "preview", "remove"},
             NEW pc \in {"watermark", "failed", "create"}, NEW ok \in BOOLEAN,
             FromFirst(w, pc, ok)
      PROVE  ToMove(w)' = ToMove(w) /\ ToSettle(w)' = ToSettle(w)
  <2>1. /\ worker'[w].pc = pc /\ worker'[w].at = worker[w].lo
        /\ worker'[w].lo = worker[w].lo /\ worker'[w].hi = worker[w].hi
    BY <1>1, <1>5, FromFirstMoves DEF WorkerPcs
  <2>2. ToMove(w) = {} /\ ToSettle(w) = worker[w].lo .. worker[w].hi
    BY <1>5 DEF RegionsInv
  <2>3. ToMove(w)' = {} /\ ToSettle(w)' = worker[w].lo .. worker[w].hi
    BY <2>1 DEF RegionsInv
  <2> QED
    BY <2>2, <2>3
<1>6. CASE CudaSucceeds(w)
  BY <1>5, <1>6 DEF CudaSucceeds, MoveJobToProcessing, MoveToCompleted, MoveToFailed
<1>7. CASE CudaFails(w)
  BY <1>5, <1>7 DEF CudaFails, MoveJobToProcessing, MoveToCompleted, MoveToFailed
<1>8. CASE PutWatermarked(w)
  <2>1. worker[w].pc = "watermark"
    BY <1>8 DEF PutWatermarked
  <2>2. CASE GoOn(w, "preview")
    <3>1. worker'[w].pc = "preview" /\ worker'[w].lo = worker[w].lo /\ worker'[w].hi = worker[w].hi
      BY <1>1, <2>2, GoOnMoves DEF WorkerPcs
    <3>2. /\ ToMove(w) = {} /\ ToSettle(w) = worker[w].lo .. worker[w].hi
          /\ ToMove(w)' = {} /\ ToSettle(w)' = worker[w].lo .. worker[w].hi
      BY <2>1, <3>1 DEF RegionsInv
    <3> QED
      BY <2>1, <3>2 DEF MoveJobToProcessing, MoveToCompleted, MoveToFailed
  <2>3. CASE FromFirst(w, "failed", FALSE)
    BY <1>5, <2>1, <2>3 DEF MoveJobToProcessing, MoveToCompleted, MoveToFailed
  <2> QED
    BY <1>8, <2>2, <2>3 DEF PutWatermarked
<1>9. CASE PutPreview(w)
  <2>1. worker[w].pc = "preview"
    BY <1>9 DEF PutPreview
  <2>2. CASE HasNext(w) /\ Advance(w, "watermark")
    <3>1. /\ worker'[w].pc = "watermark" /\ worker'[w].lo = worker[w].lo
          /\ worker'[w].hi = worker[w].hi
      BY <1>1, <2>2, AdvanceMoves DEF WorkerPcs
    <3>2. /\ ToMove(w) = {} /\ ToSettle(w) = worker[w].lo .. worker[w].hi
          /\ ToMove(w)' = {} /\ ToSettle(w)' = worker[w].lo .. worker[w].hi
      BY <2>1, <3>1 DEF RegionsInv
    <3> QED
      BY <2>1, <3>2 DEF MoveJobToProcessing, MoveToCompleted, MoveToFailed
  <2>3. CASE FromFirst(w, "create", TRUE)
    BY <1>5, <2>1, <2>3 DEF MoveJobToProcessing, MoveToCompleted, MoveToFailed
  <2>4. CASE GoOn(w, "remove")
    <3>1. worker'[w].pc = "remove" /\ worker'[w].lo = worker[w].lo /\ worker'[w].hi = worker[w].hi
      BY <1>1, <2>4, GoOnMoves DEF WorkerPcs
    <3>2. /\ ToMove(w) = {} /\ ToSettle(w) = worker[w].lo .. worker[w].hi
          /\ ToMove(w)' = {} /\ ToSettle(w)' = worker[w].lo .. worker[w].hi
      BY <2>1, <3>1 DEF RegionsInv
    <3> QED
      BY <2>1, <3>2 DEF MoveJobToProcessing, MoveToCompleted, MoveToFailed
  <2> QED
    BY <1>9, <2>2, <2>3, <2>4 DEF PutPreview
<1>10. CASE CreatePhoto(w)
  <2>1. PICK pc \in {"completed", "failed"} : GoOn(w, pc)
    BY <1>10 DEF CreatePhoto, AfterCreate
  <2>2. /\ worker[w].pc = "create" /\ worker'[w].pc \in {"completed", "failed"}
        /\ worker'[w].at = worker[w].at /\ worker'[w].hi = worker[w].hi
    BY <1>1, <1>10, <2>1, GoOnMoves DEF CreatePhoto, WorkerPcs
  <2>3. /\ ToMove(w) = {} /\ ToSettle(w) = worker[w].at .. worker[w].hi
        /\ ToMove(w)' = {} /\ ToSettle(w)' = worker[w].at .. worker[w].hi
    BY <2>2 DEF RegionsInv
  <2> QED
    BY <2>2, <2>3 DEF MoveJobToProcessing, MoveToCompleted, MoveToFailed
<1>11. CASE AckProcessingJob(w)
  <2>1. worker[w].pc = "ack"
    BY <1>11 DEF AckProcessingJob
  <2>2. ToMove(w) = {} /\ ToSettle(w) = (worker[w].at + 1) .. worker[w].hi
    BY <2>1 DEF RegionsInv
  <2>3. CASE HasNext(w)
    <3>1. PICK pc \in {"create", "failed"} : Advance(w, pc)
      BY <1>11, <2>3 DEF AckProcessingJob
    <3>2. /\ worker'[w].pc \in {"create", "failed"} /\ worker'[w].at = worker[w].at + 1
          /\ worker'[w].hi = worker[w].hi
      BY <1>1, <2>3, <3>1, AdvanceMoves DEF WorkerPcs
    <3>3. ToMove(w)' = {} /\ ToSettle(w)' = (worker[w].at + 1) .. worker[w].hi
      BY <3>2 DEF RegionsInv
    <3> QED
      BY <2>1, <2>2, <3>3 DEF MoveJobToProcessing, MoveToCompleted, MoveToFailed
  <2>4. CASE ~HasNext(w)
    <3>1. worker'[w].pc = "idle"
      BY <1>11, <2>4 DEF AckProcessingJob, IdleWorker, TypeOk
    <3>2. ToMove(w)' = {} /\ ToSettle(w)' = {}
      BY <3>1 DEF RegionsInv
    <3>3. ToSettle(w) = {}
      BY <1>1, <2>2, <2>4 DEF HasNext
    <3> QED
      BY <2>1, <2>2, <3>2, <3>3 DEF MoveJobToProcessing, MoveToCompleted, MoveToFailed
  <2> QED
    BY <2>3, <2>4
<1>12. CASE RemoveWatermarked(w)
  BY <1>5, <1>12 DEF RemoveWatermarked, MoveJobToProcessing, MoveToCompleted, MoveToFailed
<1>13. CASE RecordFailure(w)
  <2>1. worker[w].pc = "error" /\ GoOn(w, "ack")
    BY <1>13 DEF RecordFailure
  <2>2. /\ worker'[w].pc = "ack" /\ worker'[w].at = worker[w].at
        /\ worker'[w].hi = worker[w].hi
    BY <1>1, <2>1, GoOnMoves DEF WorkerPcs
  <2>3. /\ ToMove(w) = {} /\ ToSettle(w) = (worker[w].at + 1) .. worker[w].hi
        /\ ToMove(w)' = {} /\ ToSettle(w)' = (worker[w].at + 1) .. worker[w].hi
    BY <2>1, <2>2 DEF RegionsInv
  <2> QED
    BY <2>1, <2>3 DEF MoveJobToProcessing, MoveToCompleted, MoveToFailed
<1> QED
  BY <1>3, <1>4, <1>6, <1>7, <1>8, <1>9, <1>10, <1>11, <1>12, <1>13 DEF WorkerStep

\* The sets the counters speak of can be counted.
LEMMA Countable ==
  ASSUME TypeOk, RegionsInv
  PROVE  /\ Waiting \subseteq 1..Len(log) /\ InHand \subseteq 1..Len(log)
         /\ Len(log) \in Nat /\ last \in Nat /\ last <= Len(log)
         /\ \A S \in SUBSET (1..Len(log)) : \A u :
              IsFiniteSet(OfUpload(S, u)) /\ Cardinality(OfUpload(S, u)) \in Nat
         /\ \A u : IsFiniteSet(Uncounted(u)) /\ Cardinality(Uncounted(u)) \in Nat
<1>1. Len(log) \in Nat /\ last \in Nat /\ last <= Len(log)
  BY DEF TypeOk
<1>2. \A w \in Workers : ToMove(w) \subseteq 1..last /\ ToSettle(w) \subseteq 1..last
  BY DEF RegionsInv
<1>3. Waiting \subseteq 1..Len(log) /\ InHand \subseteq 1..Len(log)
  BY <1>1, <1>2 DEF Waiting, InHand
<1>4. ASSUME NEW S \in SUBSET (1..Len(log)), NEW u
      PROVE  IsFiniteSet(OfUpload(S, u)) /\ Cardinality(OfUpload(S, u)) \in Nat
  <2>1. IsFiniteSet(1..Len(log))
    BY <1>1, FS_Interval
  <2>2. OfUpload(S, u) \subseteq 1..Len(log)
    BY DEF OfUpload
  <2>3. IsFiniteSet(OfUpload(S, u))
    BY <2>1, <2>2, FS_Subset
  <2> QED
    BY <2>3, FS_CardinalityType
<1>5. ASSUME NEW u PROVE IsFiniteSet(Uncounted(u)) /\ Cardinality(Uncounted(u)) \in Nat
  <2>1. Uncounted(u) \subseteq Files
    BY DEF Uncounted, FilesOfUpload
  <2> QED
    BY <2>1, SubsetOfFiles
<1> QED
  BY <1>1, <1>3, <1>4, <1>5

\* How a worker's step moves a message from waiting to in hand, and on.
LEMMA WaitingSteps ==
  ASSUME TypeOk, MessagesInv, RegionsInv, RegionsInv', NEW w \in Workers, WorkerStep(w)
  PROVE  /\ MoveJobToProcessing(w) =>
              /\ worker[w].at \in Waiting \ InHand
              /\ Waiting' = Waiting \ {worker[w].at}
              /\ InHand' = InHand \cup {worker[w].at}
         /\ MoveToCompleted(w) \/ MoveToFailed(w) =>
              /\ worker[w].at \in InHand \ Waiting
              /\ Waiting' = Waiting
              /\ InHand' = InHand \ {worker[w].at}
         /\ ~MoveJobToProcessing(w) /\ ~MoveToCompleted(w) /\ ~MoveToFailed(w) =>
              /\ Waiting' \subseteq Waiting /\ InHand' = InHand
              /\ "lostReply" \notin Outcome["read"] => Waiting' = Waiting
<1> DEFINE p == worker[w].at
<1>1. /\ log' = log /\ \A v \in Workers \ {w} : worker'[v] = worker[v]
  <2>1. log' = log
    BY WorkerStays DEF ReadProcessingJobs
  <2> QED
    BY <2>1, PcSteps
<1>2. \A v \in Workers \ {w} : ToMove(v)' = ToMove(v) /\ ToSettle(v)' = ToSettle(v)
  BY <1>1 DEF ToMove, ToSettle, Held, Batch
<1>3. \A q : /\ q \in Waiting <=> \/ q \in (last + 1)..Len(log)
                                  \/ q \in ToMove(w)
                                  \/ \E v \in Workers \ {w} : q \in ToMove(v)
             /\ q \in InHand <=> \/ q \in ToSettle(w)
                                 \/ \E v \in Workers \ {w} : q \in ToSettle(v)
  BY DEF Waiting, InHand
<1>4. \A q : /\ q \in Waiting' <=> \/ q \in (last' + 1)..Len(log)
                                   \/ q \in ToMove(w)'
                                   \/ \E v \in Workers \ {w} : q \in ToMove(v)
             /\ q \in InHand' <=> \/ q \in ToSettle(w)'
                                  \/ \E v \in Workers \ {w} : q \in ToSettle(v)
  BY <1>1, <1>2 DEF Waiting, InHand
<1>5. last \in Nat /\ Len(log) \in Nat
  BY DEF TypeOk
<1>6. CASE ReadProcessingJobs(w)
  <2>1. /\ worker[w].pc = "idle" /\ last' \in (last + 1)..Len(log)
    BY <1>6, ReadMoves DEF ReadProcessingJobs
  <2>2. "lostReply" \notin Outcome["read"] => worker' # worker
    <3> SUFFICES ASSUME "lostReply" \notin Outcome["read"] PROVE worker' # worker
      OBVIOUS
    <3>1. \A o \in Outcome["read"] : Applied(o) => ~Errs(o)
      BY OutcomeAssumption DEF Applied, Errs, OutcomeKinds, Retried, Calls
    <3>2. worker' = [worker EXCEPT ![w] =
                            [pc |-> "move", lo |-> last + 1, hi |-> last + NextBatchLen,
                             at |-> last + 1, batchOk |-> TRUE]]
      BY <1>6, <3>1 DEF ReadProcessingJobs
    <3>3. worker'[w].pc = "move"
      BY <3>2 DEF TypeOk
    <3> QED
      BY <2>1, <3>3
  <2>3. \A q : q \in (last + 1)..Len(log) <=>
                 q \in (last' + 1)..Len(log) \/ q \in (last + 1)..last'
    BY <1>5, <2>1
  <2>4. ToMove(w) = {} /\ ToSettle(w) = {}
    BY <2>1 DEF RegionsInv
  <2>5. CASE worker' = worker
    <3>1. ToMove(w)' = ToMove(w) /\ ToSettle(w)' = ToSettle(w)
      BY <1>1, <2>5 DEF ToMove, ToSettle, Held, Batch
    <3>2. Waiting' \subseteq Waiting /\ InHand' = InHand
      BY <1>3, <1>4, <2>3, <3>1
    <3> QED
      BY <2>1, <2>2, <2>5, <3>2 DEF MoveJobToProcessing, MoveToCompleted, MoveToFailed
  <2>6. CASE worker' # worker
    <3>1. /\ worker'[w].pc = "move" /\ worker'[w].at = last + 1 /\ worker'[w].lo = last + 1
          /\ worker'[w].hi = last'
      BY <1>6, <2>6, ReadMoves
    <3>2. ToMove(w)' = worker'[w].at .. worker'[w].hi
          /\ ToSettle(w)' = worker'[w].lo .. (worker'[w].at - 1)
      BY <3>1 DEF RegionsInv
    <3>3. ToSettle(w)' = {} /\ ToMove(w)' = (last + 1)..last'
      BY <1>5, <3>1, <3>2
    <3>4. Waiting' = Waiting /\ InHand' = InHand
      BY <1>3, <1>4, <2>3, <2>4, <3>3
    <3> QED
      BY <2>1, <3>4 DEF MoveJobToProcessing, MoveToCompleted, MoveToFailed
  <2> QED
    BY <2>5, <2>6
<1>7. CASE ~ReadProcessingJobs(w)
  <2>1. last' = last /\ Busy(w)
    BY <1>7, WorkerStays
  <2>2. p \in 1..last /\ p \notin (last + 1)..Len(log)
    BY <1>5, <2>1, CurrentType
  <2>3. \A v \in Workers \ {w} :
          /\ ToMove(w) \cap ToMove(v) = {} /\ ToSettle(w) \cap ToSettle(v) = {}
          /\ ToMove(w) \cap ToSettle(v) = {} /\ ToMove(v) \cap ToSettle(w) = {}
          /\ ToMove(w) \cap ToSettle(w) = {}
    BY DEF RegionsInv
  <2>4. ToMove(w) \cap ToSettle(w) = {}
    BY DEF RegionsInv
  <2>5. CASE MoveJobToProcessing(w)
    <3>1. /\ p \in ToMove(w)
          /\ ToMove(w)' = ToMove(w) \ {p}
          /\ ToSettle(w)' = ToSettle(w) \cup {p}
      BY <1>7, <2>5, RegionSteps
    <3>2. ~MoveToCompleted(w) /\ ~MoveToFailed(w)
      BY <2>5 DEF MoveJobToProcessing, MoveToCompleted, MoveToFailed
    <3> HIDE DEF p
    <3>3. p \in Waiting \ InHand
      BY <1>3, <2>3, <2>4, <3>1
    <3>4. Waiting' = Waiting \ {p} /\ InHand' = InHand \cup {p}
      BY <1>3, <1>4, <2>1, <2>2, <2>3, <3>1
    <3> QED
      BY <2>5, <3>2, <3>3, <3>4 DEF p
  <2>6. CASE MoveToCompleted(w) \/ MoveToFailed(w)
    <3>1. /\ p \in ToSettle(w) /\ ToMove(w)' = ToMove(w) /\ ToSettle(w)' = ToSettle(w) \ {p}
      BY <1>7, <2>6, RegionSteps
    <3>2. ~MoveJobToProcessing(w)
      BY <2>6 DEF MoveJobToProcessing, MoveToCompleted, MoveToFailed
    <3> HIDE DEF p
    <3>3. p \in InHand \ Waiting
      BY <1>3, <2>2, <2>3, <2>4, <3>1
    <3>4. Waiting' = Waiting /\ InHand' = InHand \ {p}
      <4>1. \A q : q \in Waiting' <=> q \in Waiting
        BY <1>3, <1>4, <2>1, <3>1
      <4>2. \A q : q \in InHand' <=> q \in InHand /\ q # p
        BY <1>3, <1>4, <2>1, <2>3, <3>1
      <4> QED
        BY <4>1, <4>2
    <3> QED
      BY <2>6, <3>2, <3>3, <3>4 DEF p
  <2>7. CASE ~MoveJobToProcessing(w) /\ ~MoveToCompleted(w) /\ ~MoveToFailed(w)
    <3>1. ToMove(w)' = ToMove(w) /\ ToSettle(w)' = ToSettle(w)
      BY <1>7, <2>7, RegionSteps
    <3>2. Waiting' = Waiting /\ InHand' = InHand
      BY <1>3, <1>4, <2>1, <3>1
    <3> QED
      BY <2>7, <3>2
  <2> QED
    BY <2>5, <2>6, <2>7
<1> QED
  BY <1>6, <1>7

\* Taking a message out of a set takes it out of its upload's part of it.
LEMMA CountOne ==
  ASSUME NEW S, NEW p \in S, NEW u, IsFiniteSet(OfUpload(S, u)),
         Cardinality(OfUpload(S, u)) \in Nat
  PROVE  /\ UploadOfFile(log[p]) = u =>
              Cardinality(OfUpload(S \ {p}, u)) = Cardinality(OfUpload(S, u)) - 1
         /\ UploadOfFile(log[p]) # u => OfUpload(S \ {p}, u) = OfUpload(S, u)
<1>1. OfUpload(S \ {p}, u) = OfUpload(S, u) \ {p}
  BY DEF OfUpload
<1>2. UploadOfFile(log[p]) = u <=> p \in OfUpload(S, u)
  BY DEF OfUpload
<1>3. CASE UploadOfFile(log[p]) = u
  BY <1>1, <1>2, <1>3, FS_RemoveElement
<1>4. CASE UploadOfFile(log[p]) # u
  BY <1>1, <1>2, <1>4
<1> QED
  BY <1>3, <1>4

\* A worker's step keeps the counters exact.
LEMMA WorkerExact ==
  ASSUME NothingIsLost, TypeOk, MessagesInv, RegionsInv, RegionsInv', NEW w \in Workers,
         WorkerStep(w), NEW u \in Uploads, ExactFor(u)
  PROVE  ExactFor(u)'
<1> DEFINE p == worker[w].at
           t == UploadOfFile(log[p])
           S == 1..Len(log) \ (Waiting \cup InHand)
           SS == 1..Len(log) \ (Waiting' \cup InHand')
<1>1. /\ UNCHANGED <<rpc, offer, log>>
  <2>1. CASE ReadProcessingJobs(w)
    BY <2>1 DEF ReadProcessingJobs, requestVars
  <2>2. CASE ~ReadProcessingJobs(w)
    BY <2>2, WorkerStays DEF requestVars
  <2> QED
    BY <2>1, <2>2
<1>2. Uncounted(u)' = Uncounted(u)
  BY <1>1 DEF Uncounted, FilesOfUpload, UploadOfFile
<1>3. /\ OfUpload(Waiting, u)' = OfUpload(Waiting', u)
      /\ OfUpload(InHand, u)' = OfUpload(InHand', u)
      /\ OfUpload(1..Len(log) \ (Waiting \cup InHand), u)' = OfUpload(SS, u)
      /\ OfUpload(1..Len(log), u)' = OfUpload(1..Len(log), u)
  BY <1>1 DEF OfUpload, UploadOfFile
<1>4. /\ hash \in [Uploads -> StatusRecord] /\ hash[u] \in StatusRecord
  BY DEF TypeOk
<1>5. /\ Waiting \subseteq 1..Len(log) /\ InHand \subseteq 1..Len(log)
      /\ \A R \in SUBSET (1..Len(log)) :
           IsFiniteSet(OfUpload(R, u)) /\ Cardinality(OfUpload(R, u)) \in Nat
      /\ Cardinality(Uncounted(u)) \in Nat
  BY Countable
<1>6. CASE ~MoveJobToProcessing(w) /\ ~MoveToCompleted(w) /\ ~MoveToFailed(w)
  <2>1. hash' = hash
    BY <1>6 DEF WorkerStep, ReadProcessingJobs, CudaSucceeds, CudaFails, PutWatermarked,
                PutPreview, RemoveWatermarked, CreatePhoto, AckProcessingJob, statusVars,
                RecordFailure
  <2>2. Waiting' = Waiting /\ InHand' = InHand
    BY <1>6, WaitingSteps DEF NothingIsLost
  <2>3. SS = S
    BY <2>2
  <2> HIDE DEF S, SS
  <2> QED
    BY <1>2, <1>3, <2>1, <2>2, <2>3 DEF ExactFor, S
<1>7. CASE MoveJobToProcessing(w)
  <2>1. /\ p \in Waiting \ InHand /\ Waiting' = Waiting \ {p} /\ InHand' = InHand \cup {p}
    BY <1>7, WaitingSteps DEF NothingIsLost
  <2>2. SS = S
    BY <2>1
  <2>3. hash' = [hash EXCEPT ![t] = MoveQueuedToProcessing(hash[t], 1)]
    <3>1. PICK o \in Outcome["hash"], k \in 2..Sendings :
            hash' = [hash EXCEPT ![t] =
                  Result(o, @, MoveQueuedToProcessing(@, 1), MoveQueuedToProcessing(@, k))]
      BY <1>7 DEF MoveJobToProcessing, Current
    <3> QED
      BY <3>1 DEF Result, NothingIsLost, HashIsKept, HashIsNotRetried
  <2>4. InHand = InHand' \ {p} /\ p \in InHand' /\ InHand' \subseteq 1..Len(log)
    BY <1>5, <2>1
  <2>5. CASE t = u
    <3>1. Cardinality(OfUpload(Waiting', u)) = Cardinality(OfUpload(Waiting, u)) - 1
      BY <1>5, <2>1, <2>5, CountOne
    <3>2. Cardinality(OfUpload(InHand, u)) = Cardinality(OfUpload(InHand', u)) - 1
      BY <1>5, <2>4, <2>5, CountOne
    <3>3. hash'[u] = MoveQueuedToProcessing(hash[u], 1)
      BY <1>4, <2>3, <2>5
    <3>4. /\ hash'[u].queued = hash[u].queued - 1
          /\ hash'[u].processing = hash[u].processing + 1
          /\ hash'[u].completed = hash[u].completed /\ hash'[u].failed = hash[u].failed
          /\ hash'[u].total = hash[u].total /\ hash'[u].uploaded = hash[u].uploaded
      BY <1>4, <3>3, StatusFields, OtherFields
    <3>5. /\ hash[u].queued \in Int /\ hash[u].processing \in Int
      BY <1>4, OtherFields
    <3>6. /\ Cardinality(OfUpload(Waiting, u)) \in Nat /\ Cardinality(OfUpload(InHand', u)) \in Nat
      BY <1>5, <2>4
    <3> HIDE DEF S, SS, p, t
    <3> QED
      BY <1>2, <1>3, <1>5, <2>2, <3>1, <3>2, <3>4, <3>5, <3>6 DEF ExactFor, S
  <2>6. CASE t # u
    <3>1. OfUpload(Waiting', u) = OfUpload(Waiting, u) /\ OfUpload(InHand', u) = OfUpload(InHand, u)
      BY <2>1, <2>6 DEF OfUpload
    <3>2. hash'[u] = hash[u]
      BY <1>4, <2>3, <2>6
    <3> HIDE DEF S, SS, p, t
    <3> QED
      BY <1>2, <1>3, <2>2, <3>1, <3>2 DEF ExactFor, S
  <2> QED
    BY <2>5, <2>6
<1>8. CASE MoveToCompleted(w) \/ MoveToFailed(w)
  <2>1. /\ p \in InHand \ Waiting /\ Waiting' = Waiting /\ InHand' = InHand \ {p}
    BY <1>8, WaitingSteps DEF NothingIsLost
  <2>2. SS = S \cup {p} /\ S = SS \ {p} /\ p \in SS /\ SS \subseteq 1..Len(log)
    BY <1>5, <2>1
  <2>3. \/ hash' = [hash EXCEPT ![t] = MoveProcessingToCompleted(hash[t], 1)]
        \/ hash' = [hash EXCEPT ![t] = MoveProcessingToFailed(hash[t], 1)]
    <3>1. CASE MoveToCompleted(w)
      BY <3>1 DEF MoveToCompleted, Result, NothingIsLost, HashIsKept, HashIsNotRetried, Current
    <3>2. CASE MoveToFailed(w)
      BY <3>2 DEF MoveToFailed, Result, NothingIsLost, HashIsKept, HashIsNotRetried, Current
    <3> QED
      BY <1>8, <3>1, <3>2
  <2>4. CASE t = u
    <3>1. Cardinality(OfUpload(InHand', u)) = Cardinality(OfUpload(InHand, u)) - 1
      BY <1>5, <2>1, <2>4, CountOne
    <3>2. Cardinality(OfUpload(S, u)) = Cardinality(OfUpload(SS, u)) - 1
      <4>1. S = SS \ {p} /\ p \in SS /\ SS \subseteq 1..Len(log) /\ UploadOfFile(log[p]) = u
        BY <2>2, <2>4
      <4> HIDE DEF S, SS, p, t
      <4>2. Cardinality(OfUpload(SS \ {p}, u)) = Cardinality(OfUpload(SS, u)) - 1
        BY <1>5, <4>1, CountOne
      <4> QED
        BY <4>1, <4>2
    <3>3. \/ hash'[u] = MoveProcessingToCompleted(hash[u], 1)
          \/ hash'[u] = MoveProcessingToFailed(hash[u], 1)
      BY <1>4, <2>3, <2>4
    <3>4. /\ hash'[u].queued = hash[u].queued
          /\ hash'[u].processing = hash[u].processing - 1
          /\ \/ hash'[u].completed = hash[u].completed + 1 /\ hash'[u].failed = hash[u].failed
             \/ hash'[u].completed = hash[u].completed /\ hash'[u].failed = hash[u].failed + 1
          /\ hash'[u].total = hash[u].total /\ hash'[u].uploaded = hash[u].uploaded
      BY <1>4, <3>3, StatusFields, OtherFields
    <3>5. /\ hash[u].processing \in Int /\ hash[u].completed \in Int /\ hash[u].failed \in Int
      BY <1>4, StatusFields, OtherFields
    <3>6. /\ Cardinality(OfUpload(SS, u)) \in Nat /\ Cardinality(OfUpload(InHand, u)) \in Nat
      BY <1>5, <2>2
    <3>7. OfUpload(Waiting', u) = OfUpload(Waiting, u)
      BY <2>1
    <3>8. hash'[u].completed + hash'[u].failed = hash[u].completed + hash[u].failed + 1
      BY <3>4, <3>5
    <3> HIDE DEF S, SS, p, t
    <3>9. hash[u].completed + hash[u].failed = Cardinality(OfUpload(S, u))
      BY DEF ExactFor, S
    <3>10. hash'[u].completed + hash'[u].failed = Cardinality(OfUpload(SS, u))
      BY <3>2, <3>6, <3>8, <3>9
    <3>11. hash'[u].processing = Cardinality(OfUpload(InHand', u))
      BY <3>1, <3>4, <3>6 DEF ExactFor
    <3> QED
      BY <1>2, <1>3, <3>4, <3>7, <3>10, <3>11 DEF ExactFor
  <2>5. CASE t # u
    <3>1. OfUpload(SS, u) = OfUpload(S, u) /\ OfUpload(InHand', u) = OfUpload(InHand, u)
      BY <2>1, <2>2, <2>5 DEF OfUpload
    <3>2. hash'[u] = hash[u]
      BY <1>4, <2>3, <2>5
    <3> HIDE DEF S, SS, p, t
    <3> QED
      BY <1>2, <1>3, <2>1, <3>1, <3>2 DEF ExactFor, S
  <2> QED
    BY <2>4, <2>5
<1> QED
  BY <1>6, <1>7, <1>8

\* What the workers have in hand does not notice a step that leaves them alone.
LEMMA RegionsStay ==
  ASSUME UNCHANGED <<worker, last>>
  PROVE  InHand' = InHand /\ (log' = log => Waiting' = Waiting)
  BY DEF InHand, Waiting, ToMove, ToSettle, Held, Batch

\* An accepted file waits, and is uncounted until its request adds it.
LEMMA EnqueueExact ==
  ASSUME NothingIsLost, TypeOk, RegionsInv, NEW r \in Requests, NEW f \in FilesOf(r),
         EnqueueProcessingJob(r, f), NEW u \in Uploads, ExactFor(u)
  PROVE  ExactFor(u)'
<1> DEFINE n == Len(log) + 1
           S == 1..Len(log) \ (Waiting \cup InHand)
<1>1. /\ f \in Files /\ ReqOf[f] = r /\ rpc[r] = "loop" /\ offer[f] = "stored"
      /\ UNCHANGED <<rpc, hash, worker, last>>
  BY DEF EnqueueProcessingJob, FilesOf, statusVars
<1>2. \/ log' = Append(log, f) /\ offer' = [offer EXCEPT ![f] = "accepted"]
      \/ log' = log /\ offer' = [offer EXCEPT ![f] = "undo"]
  BY DEF EnqueueProcessingJob, NothingIsLost, XAddIsDefinite, Result, Retried, Errs
<1>3. InHand' = InHand /\ (log' = log => Waiting' = Waiting)
  BY <1>1, RegionsStay
<1>4. /\ Waiting \subseteq 1..Len(log) /\ InHand \subseteq 1..Len(log)
      /\ Len(log) \in Nat /\ last \in Nat /\ last <= Len(log)
      /\ \A R \in SUBSET (1..Len(log)) :
           IsFiniteSet(OfUpload(R, u)) /\ Cardinality(OfUpload(R, u)) \in Nat
      /\ IsFiniteSet(Uncounted(u)) /\ Cardinality(Uncounted(u)) \in Nat
  BY Countable
<1>5. hash[u].queued \in Int /\ hash[u].total \in Int
  BY StatusFields, OtherFields DEF TypeOk
<1>6. CASE log' = log /\ offer' = [offer EXCEPT ![f] = "undo"]
  <2>1. Uncounted(u)' = Uncounted(u)
    BY <1>1, <1>6 DEF Uncounted, FilesOfUpload, UploadOfFile, TypeOk
  <2> QED
    BY <1>1, <1>3, <1>6, <2>1 DEF ExactFor, OfUpload, UploadOfFile
<1>7. CASE log' = Append(log, f) /\ offer' = [offer EXCEPT ![f] = "accepted"]
  <2>1. /\ Len(log') = n /\ log'[n] = f /\ \A q \in 1..Len(log) : log'[q] = log[q]
    BY <1>1, <1>7 DEF TypeOk
  <2>2. /\ n \in Nat /\ 1..n = (1..Len(log)) \cup {n} /\ n \notin 1..Len(log)
        /\ (last + 1)..n = ((last + 1)..Len(log)) \cup {n}
    BY <1>4
  <2>3. Waiting' = Waiting \cup {n}
    <3>1. \A v \in Workers : ToMove(v)' = ToMove(v)
      BY <1>1 DEF ToMove, Held, Batch
    <3> HIDE DEF n
    <3> QED
      BY <1>1, <2>1, <2>2, <3>1 DEF Waiting
  <2>4. 1..Len(log') \ (Waiting' \cup InHand') = S
    BY <1>3, <1>4, <2>1, <2>2, <2>3
  <2>5. ASSUME NEW R \in SUBSET (1..Len(log))
        PROVE  /\ {q \in R : UploadOfFile(log'[q]) = u} = OfUpload(R, u)
               /\ {q \in R \cup {n} : UploadOfFile(log'[q]) = u} =
                    IF UploadOfFile(f) = u THEN OfUpload(R, u) \cup {n} ELSE OfUpload(R, u)
               /\ n \notin OfUpload(R, u)
    <3>1. \A q \in R : log'[q] = log[q]
      BY <2>1
    <3>2. n \notin R
      BY <2>2
    <3> HIDE DEF n
    <3> QED
      BY <2>1, <3>1, <3>2 DEF OfUpload
  <2> DEFINE A(R) == IF UploadOfFile(f) = u THEN OfUpload(R, u) \cup {n} ELSE OfUpload(R, u)
  <2>6. /\ OfUpload(InHand, u)' = OfUpload(InHand, u)
        /\ OfUpload(1..Len(log) \ (Waiting \cup InHand), u)' = OfUpload(S, u)
        /\ OfUpload(Waiting, u)' = A(Waiting)
        /\ OfUpload(1..Len(log), u)' = A(1..Len(log))
    <3>1. /\ OfUpload(InHand, u)' = {q \in InHand : UploadOfFile(log'[q]) = u}
          /\ OfUpload(1..Len(log) \ (Waiting \cup InHand), u)'
               = {q \in S : UploadOfFile(log'[q]) = u}
          /\ OfUpload(Waiting, u)' = {q \in Waiting \cup {n} : UploadOfFile(log'[q]) = u}
          /\ OfUpload(1..Len(log), u)'
               = {q \in (1..Len(log)) \cup {n} : UploadOfFile(log'[q]) = u}
      <4> HIDE DEF n, S
      <4> QED
        BY <1>3, <2>1, <2>2, <2>3, <2>4 DEF OfUpload, UploadOfFile
    <3>2. S \in SUBSET (1..Len(log)) /\ 1..Len(log) \in SUBSET (1..Len(log))
      OBVIOUS
    <3> HIDE DEF n, S
    <3> QED
      BY <1>4, <2>5, <3>1, <3>2
  <2>7. CASE UploadOfFile(f) = u
    <3>1. Uncounted(u)' = Uncounted(u) \cup {f} /\ f \notin Uncounted(u)
      BY <1>1, <1>7, <2>7 DEF Uncounted, FilesOfUpload, UploadOfFile, TypeOk
    <3>2. Cardinality(Uncounted(u)') = Cardinality(Uncounted(u)) + 1
      BY <1>4, <3>1, FS_AddElement
    <3>3. ASSUME NEW R \in SUBSET (1..Len(log))
          PROVE  Cardinality(OfUpload(R, u) \cup {n}) = Cardinality(OfUpload(R, u)) + 1
      BY <1>4, <2>5, FS_AddElement
    <3>4. /\ Cardinality(OfUpload(Waiting, u)') = Cardinality(OfUpload(Waiting, u)) + 1
          /\ Cardinality(OfUpload(1..Len(log), u)') = Cardinality(OfUpload(1..Len(log), u)) + 1
      <4> HIDE DEF n
      <4> QED
        BY <1>4, <2>6, <2>7, <3>3
    <3>5. /\ Cardinality(OfUpload(Waiting, u)) \in Nat
          /\ Cardinality(OfUpload(1..Len(log), u)) \in Nat
      BY <1>4
    <3> HIDE DEF n, S, A
    <3>6. /\ hash[u].queued + Cardinality(Uncounted(u)) = Cardinality(OfUpload(Waiting, u))
          /\ hash[u].total + Cardinality(Uncounted(u)) = Cardinality(OfUpload(1..Len(log), u))
      BY DEF ExactFor
    <3>7. /\ hash[u].queued + Cardinality(Uncounted(u)') = Cardinality(OfUpload(Waiting, u)')
          /\ hash[u].total + Cardinality(Uncounted(u)') = Cardinality(OfUpload(1..Len(log), u)')
      <4>1. \A q, c, w \in Int : q + c = w => q + (c + 1) = w + 1
        OBVIOUS
      <4>2. Cardinality(Uncounted(u)) \in Int
        BY <1>4
      <4>3. hash[u].queued + (Cardinality(Uncounted(u)) + 1) = Cardinality(OfUpload(Waiting, u)) + 1
        BY <1>5, <3>5, <3>6, <4>1, <4>2
      <4>4. hash[u].total + (Cardinality(Uncounted(u)) + 1)
              = Cardinality(OfUpload(1..Len(log), u)) + 1
        BY <1>5, <3>5, <3>6, <4>1, <4>2
      <4> QED
        BY <3>2, <3>4, <4>3, <4>4
    <3> QED
      BY <1>1, <2>6, <3>7 DEF ExactFor, S
  <2>8. CASE UploadOfFile(f) # u
    <3>1. Uncounted(u)' = Uncounted(u)
      BY <1>1, <1>7, <2>8 DEF Uncounted, FilesOfUpload, UploadOfFile, TypeOk
    <3>2. OfUpload(Waiting, u)' = OfUpload(Waiting, u)
          /\ OfUpload(1..Len(log), u)' = OfUpload(1..Len(log), u)
      BY <2>6, <2>8
    <3> HIDE DEF n, S, A
    <3> QED
      BY <1>1, <2>6, <3>1, <3>2 DEF ExactFor, S
  <2> QED
    BY <2>7, <2>8
<1> QED
  BY <1>2, <1>6, <1>7

\* A request adds its accepted files once.
LEMMA CountExact ==
  ASSUME NothingIsLost, TypeOk, RegionsInv, NEW r \in Requests, CountAccepted(r),
         NEW u \in Uploads, ExactFor(u)
  PROVE  ExactFor(u)'
<1> DEFINE t == UploadOf[r]
           n == Cardinality(Accepted(r))
<1>1. /\ rpc[r] = "loop" /\ UNCHANGED <<offer, log, last, worker>>
      /\ rpc' = [rpc EXCEPT ![r] = "done"] \/ rpc' = [rpc EXCEPT ![r] = "error"]
  BY DEF CountAccepted, streamVars
<1>2. /\ n \in Nat /\ IsFiniteSet(Accepted(r))
  BY FilesOfFinite, FS_CardinalityType
<1>3. hash' = [hash EXCEPT ![t] = AddUploadCounters(hash[t], n)]
      \/ (hash' = hash /\ Accepted(r) = {})
  <2>1. CASE Accepted(r) = {}
    BY <2>1 DEF CountAccepted
  <2>2. CASE Accepted(r) # {}
    <3>1. PICK o \in Outcome["hash"], k \in 2..Sendings :
              hash' = [hash EXCEPT ![t] =
                         Result(o, @, AddUploadCounters(@, n), AddUploadCounters(@, k * n))]
      BY <2>2 DEF CountAccepted
    <3> HIDE DEF n
    <3> QED
      BY <3>1 DEF Result, NothingIsLost, HashIsKept, HashIsNotRetried
  <2> QED
    BY <2>1, <2>2
<1>4. /\ OfUpload(Waiting, u)' = OfUpload(Waiting, u)
      /\ OfUpload(InHand, u)' = OfUpload(InHand, u)
      /\ OfUpload(1..Len(log) \ (Waiting \cup InHand), u)'
           = OfUpload(1..Len(log) \ (Waiting \cup InHand), u)
      /\ OfUpload(1..Len(log), u)' = OfUpload(1..Len(log), u)
  <2>1. Waiting' = Waiting /\ InHand' = InHand
    BY <1>1, RegionsStay
  <2> QED
    BY <1>1, <2>1 DEF OfUpload, UploadOfFile
<1>5. \A f \in Files : ReqOf[f] \in Requests
  BY ActorsAssumption
<1>6. hash \in [Uploads -> StatusRecord] /\ hash[u] \in StatusRecord
  BY DEF TypeOk
<1>7. CASE u = t
  <2>1. Uncounted(u) = Uncounted(u)' \cup Accepted(r) /\ Uncounted(u)' \cap Accepted(r) = {}
    <3>1. \A f \in Files : rpc'[ReqOf[f]] = "loop" <=> rpc[ReqOf[f]] = "loop" /\ ReqOf[f] # r
      BY <1>1, <1>5 DEF TypeOk
    <3>2. Accepted(r) = {f \in FilesOfUpload(u) : offer[f] = "accepted" /\ ReqOf[f] = r}
      BY <1>7 DEF Accepted, FilesOf, FilesOfUpload, UploadOfFile
    <3> QED
      BY <1>1, <3>1, <3>2 DEF Uncounted, FilesOfUpload, UploadOfFile
  <2>2. /\ IsFiniteSet(Uncounted(u)') /\ Cardinality(Uncounted(u)') \in Nat
        /\ Cardinality(Uncounted(u)) \in Nat
    <3>1. Uncounted(u)' \subseteq Uncounted(u) /\ Uncounted(u) \subseteq Files
      BY <2>1 DEF Uncounted, FilesOfUpload
    <3> QED
      BY <3>1, SubsetOfFiles
  <2>3. Cardinality(Uncounted(u)) = Cardinality(Uncounted(u)') + n
    <3>1. Cardinality(Uncounted(u)' \cup Accepted(r))
            = Cardinality(Uncounted(u)') + n - Cardinality(Uncounted(u)' \cap Accepted(r))
      BY <1>2, <2>2, FS_Union
    <3>2. Cardinality(Uncounted(u)' \cap Accepted(r)) = 0
      BY <2>1, FS_EmptySet
    <3>3. Cardinality(Uncounted(u)' \cup Accepted(r)) = Cardinality(Uncounted(u))
      BY <2>1
    <3> HIDE DEF n
    <3> QED
      BY <1>2, <2>2, <3>1, <3>2, <3>3
  <2>4. /\ hash'[u].queued = hash[u].queued + n /\ hash'[u].total = hash[u].total + n
        /\ hash'[u].uploaded = hash[u].uploaded + n
        /\ hash'[u].processing = hash[u].processing
        /\ hash'[u].completed = hash[u].completed /\ hash'[u].failed = hash[u].failed
    <3>1. CASE hash' = [hash EXCEPT ![t] = AddUploadCounters(hash[t], n)]
      <4>1. hash'[u] = AddUploadCounters(hash[u], n) /\ n \in Int
        BY <1>2, <1>6, <1>7, <3>1
      <4> HIDE DEF n
      <4> QED
        BY <1>6, <4>1, StatusFields, OtherFields
    <3>2. CASE hash' = hash /\ Accepted(r) = {}
      <4>1. n = 0
        BY <3>2, FS_EmptySet
      <4> HIDE DEF n
      <4> QED
        BY <1>6, <3>2, <4>1, StatusFields, OtherFields
    <3> QED
      BY <1>3, <3>1, <3>2
  <2>5. hash[u].queued \in Int /\ hash[u].total \in Int /\ hash[u].uploaded \in Int
    BY <1>6, StatusFields, OtherFields
  <2> HIDE DEF n, t
  <2> QED
    BY <1>2, <1>4, <2>2, <2>3, <2>4, <2>5 DEF ExactFor
<1>8. CASE u # t
  <2>1. Uncounted(u)' = Uncounted(u)
    <3>1. \A f \in FilesOfUpload(u) : f \in Files /\ ReqOf[f] # r
      BY <1>8 DEF FilesOfUpload, UploadOfFile
    <3>2. \A f \in FilesOfUpload(u) : rpc'[ReqOf[f]] = rpc[ReqOf[f]]
      BY <1>1, <1>5, <3>1 DEF TypeOk
    <3> QED
      BY <1>1, <3>2 DEF Uncounted, FilesOfUpload, UploadOfFile
  <2>2. hash'[u] = hash[u]
    BY <1>3, <1>6, <1>8
  <2> QED
    BY <1>4, <2>1, <2>2 DEF ExactFor
<1> QED
  BY <1>7, <1>8

\* The other steps of a request touch no counter and no accepted file.
LEMMA OtherExact ==
  ASSUME NothingIsLost, TypeOk, TotalInv, NEW r \in Requests,
         \/ Refuse(r) \/ Begin(r)
         \/ \E f \in FilesOf(r) :
              PutOriginal(r, f) \/ RemoveOriginal(r, f) \/ RecordRejection(r, f),
         NEW u \in Uploads, ExactFor(u)
  PROVE  ExactFor(u)'
<1>1. UNCHANGED <<log, last, worker>>
  BY DEF Refuse, Begin, PutOriginal, RemoveOriginal, RecordRejection, streamVars
<1>2. Uncounted(u)' = Uncounted(u)
  <2>1. ASSUME NEW f \in Files
        PROVE  (offer'[f] = "accepted" /\ rpc'[ReqOf[f]] = "loop")
                  <=> (offer[f] = "accepted" /\ rpc[ReqOf[f]] = "loop")
    <3>1. ReqOf[f] \in Requests
      BY ActorsAssumption
    <3>2. CASE Refuse(r)
      BY <3>1, <3>2 DEF Refuse, TypeOk
    <3>3. CASE Begin(r)
      <4>1. ReqOf[f] = r => offer[f] = "todo"
        BY <3>3 DEF Begin, TotalInv
      <4> QED
        BY <3>1, <3>3, <4>1 DEF Begin, TypeOk
    <3>4. ASSUME NEW g \in FilesOf(r),
                 PutOriginal(r, g) \/ RemoveOriginal(r, g) \/ RecordRejection(r, g)
          PROVE  /\ rpc' = rpc /\ \A h \in Files \ {g} : offer'[h] = offer[h]
                 /\ offer[g] # "accepted" /\ offer'[g] # "accepted"
      BY <3>4 DEF PutOriginal, RemoveOriginal, RecordRejection, FilesOf, TypeOk
    <3> QED
      BY <3>1, <3>2, <3>3, <3>4
  <2> QED
    BY <2>1 DEF Uncounted, FilesOfUpload, UploadOfFile
<1>3. /\ OfUpload(Waiting, u)' = OfUpload(Waiting, u)
      /\ OfUpload(InHand, u)' = OfUpload(InHand, u)
      /\ OfUpload(1..Len(log) \ (Waiting \cup InHand), u)'
           = OfUpload(1..Len(log) \ (Waiting \cup InHand), u)
      /\ OfUpload(1..Len(log), u)' = OfUpload(1..Len(log), u)
  <2>1. Waiting' = Waiting /\ InHand' = InHand
    BY <1>1, RegionsStay
  <2> QED
    BY <1>1, <2>1 DEF OfUpload, UploadOfFile
<1>4. /\ hash'[u].queued = hash[u].queued /\ hash'[u].total = hash[u].total
      /\ hash'[u].uploaded = hash[u].uploaded
      /\ hash'[u].processing = hash[u].processing
      /\ hash'[u].completed = hash[u].completed /\ hash'[u].failed = hash[u].failed
  <2>1. CASE Begin(r)
    <3> DEFINE h == hash[UploadOf[r]]
    <3>1. hash' = [hash EXCEPT ![UploadOf[r]] = h]
          \/ hash' = [hash EXCEPT ![UploadOf[r]] = InitUploadStatus(h)]
      BY <2>1 DEF Begin, Result
    <3>2. hash \in [Uploads -> StatusRecord] /\ hash[u] \in StatusRecord
      BY DEF TypeOk
    <3>3. hash'[u] = hash[u] \/ hash'[u] = InitUploadStatus(hash[u])
      BY <3>1, <3>2
    <3> QED
      BY <3>2, <3>3, StatusFields, OtherFields
  <2>2. CASE ~Begin(r)
    BY <2>2 DEF Refuse, PutOriginal, RemoveOriginal, RecordRejection, statusVars
  <2> QED
    BY <2>1, <2>2
<1> QED
  BY <1>2, <1>3, <1>4 DEF ExactFor

\* The counters stay exact while nothing is lost.
LEMMA NextExact ==
  ASSUME NothingIsLost, TypeOk, MessagesInv, RegionsInv, RegionsInv', TotalInv,
         CountersAreExact, [Next]_vars
  PROVE  CountersAreExact'
<1> SUFFICES ASSUME NEW u \in Uploads PROVE ExactFor(u)'
  BY DEF CountersAreExact
<1>1. ExactFor(u)
  BY DEF CountersAreExact
<1>2. CASE UNCHANGED vars
  <2>1. Waiting' = Waiting /\ InHand' = InHand
    BY <1>2, RegionsStay DEF vars, streamVars
  <2> QED
    BY <1>1, <1>2, <2>1 DEF vars, requestVars, streamVars, statusVars, ExactFor, OfUpload,
                            UploadOfFile, Uncounted, FilesOfUpload
<1>3. ASSUME NEW r \in Requests, RequestStep(r) PROVE ExactFor(u)'
  BY <1>1, <1>3, EnqueueExact, CountExact, OtherExact DEF RequestStep
<1>4. ASSUME NEW w \in Workers, WorkerStep(w) PROVE ExactFor(u)'
  BY <1>1, <1>4, WorkerExact
<1>5. \/ UNCHANGED vars
      \/ \E r \in Requests : RequestStep(r)
      \/ \E w \in Workers : WorkerStep(w)
  BY DEF Next, NothingIsLost, RequestCrash, WorkerCrash, Expire
<1> QED
  BY <1>2, <1>3, <1>4, <1>5

\* While no process dies, no hash expires, XADD is definite and no write of the
\* status or read of the stream is lost, the counters are exact at every moment.
THEOREM CountersStayExact ==
  ASSUME NothingIsLost
  PROVE  Spec => []CountersAreExact
<1>1. Init => CountersAreExact
  <2> SUFFICES ASSUME Init, NEW u \in Uploads PROVE ExactFor(u)
    BY DEF CountersAreExact
  <2>1. Waiting = {} /\ InHand = {} /\ 1..Len(log) = {}
    BY DEF Init, Waiting, InHand, ToMove, ToSettle, Held, IdleWorker
  <2>2. OfUpload({}, u) = {} /\ Uncounted(u) = {}
    BY DEF Init, OfUpload, Uncounted, FilesOfUpload
  <2>3. /\ OfUpload(Waiting, u) = {} /\ OfUpload(InHand, u) = {} /\ OfUpload(1..Len(log), u) = {}
        /\ OfUpload(1..Len(log) \ (Waiting \cup InHand), u) = {}
    BY <2>1, <2>2
  <2>4. hash[u] = Absent
    BY DEF Init
  <2>5. /\ Absent.queued = 0 /\ Absent.processing = 0 /\ Absent.completed = 0
        /\ Absent.failed = 0 /\ Absent.total = 0 /\ Absent.uploaded = 0
    BY DEF Absent
  <2>6. Cardinality({}) = 0
    BY FS_EmptySet
  <2>7. /\ Cardinality(OfUpload(Waiting, u)) = 0 /\ Cardinality(OfUpload(InHand, u)) = 0
        /\ Cardinality(OfUpload(1..Len(log), u)) = 0 /\ Cardinality(Uncounted(u)) = 0
        /\ Cardinality(OfUpload(1..Len(log) \ (Waiting \cup InHand), u)) = 0
    BY <2>2, <2>3, <2>6
  <2>8. /\ hash[u].queued = 0 /\ hash[u].processing = 0 /\ hash[u].completed = 0
        /\ hash[u].failed = 0 /\ hash[u].total = 0 /\ hash[u].uploaded = 0
    BY <2>4, <2>5
  <2> QED
    BY <2>7, <2>8 DEF ExactFor
<1>2. HashIsNotRetried /\ SingleCount
  BY DEF NothingIsLost, SingleCount
<1>3. TypeOk /\ MessagesInv /\ RegionsInv /\ RegionsInv' /\ TotalInv /\ CountersAreExact
        /\ [Next]_vars => CountersAreExact'
  BY NextExact
<1>4. Spec => [](TypeOk /\ MessagesInv /\ RegionsInv)
  BY MessagesInvariant, Regions, PTL
<1>5. Spec => []TotalInv
  BY <1>2, TotalInvariant
<1> QED
  BY <1>1, <1>3, <1>4, <1>5, PTL DEF Spec

-----------------------------------------------------------------------------
(* The promise to the client: the safety half of the refinement.           *)

\* The environment of the promise: an upload comes in one request, its status is
\* written at most once when asked for, whatever is answered, and does not expire,
\* XADD and the creation of a photo are definite.
PromiseAssumption ==
  /\ \A r, s \in Requests : UploadOf[r] = UploadOf[s] => r = s
  /\ HashIsNotRetried /\ ~StatusExpires
  /\ XAddIsDefinite
  /\ "lostReply" \notin Outcome["create"]

\* What an upload that has a total knows of its files: its one request is past its
\* loop, though perhaps without having learned that it has counted them.
CountedWhole(u) ==
  /\ \A f \in FilesOfUpload(u) : /\ offer[f] \in {"accepted", "rejected"}
                                 /\ rpc[ReqOf[f]] \in {"done", "error"}
  /\ hash[u].total = Cardinality(AcceptedOf(u))
CountInv == \A u \in Uploads : hash[u].total = 0 \/ CountedWhole(u)

\* An upload that is over, or has any total, has accepted a file.
LEMMA TotalNamesFile ==
  ASSUME CountInv, NEW u \in Uploads, hash[u].total # 0
  PROVE  CountedWhole(u) /\ \E f \in AcceptedOf(u) : TRUE
<1>1. CountedWhole(u) /\ AcceptedOf(u) # {}
  BY FS_EmptySet DEF CountInv, CountedWhole
<1> QED
  BY <1>1

\* While its request is in its loop an upload has no total.
LEMMA LoopHasNoTotal ==
  ASSUME PromiseAssumption, CountInv, NEW r \in Requests, NEW u \in Uploads,
         UploadOf[r] = u, rpc[r] = "loop"
  PROVE  hash[u].total = 0
<1>1. ASSUME hash[u].total # 0 PROVE FALSE
  <2>1. PICK f \in AcceptedOf(u) : rpc[ReqOf[f]] \in {"done", "error"}
    BY <1>1, TotalNamesFile DEF CountedWhole, AcceptedOf
  <2>2. ReqOf[f] \in Requests /\ UploadOf[ReqOf[f]] = u
    BY ActorsAssumption DEF AcceptedOf, FilesOfUpload, UploadOfFile
  <2>3. ReqOf[f] = r
    BY <2>2 DEF PromiseAssumption
  <2> QED
    BY <2>1, <2>3
<1> QED
  BY <1>1

\* CountInv is inductive.
LEMMA NextCount ==
  ASSUME PromiseAssumption, TypeOk, MessagesInv, CountInv, [Next]_vars
  PROVE  CountInv'
<1> SUFFICES ASSUME NEW u \in Uploads PROVE hash'[u].total = 0 \/ CountedWhole(u)'
  BY DEF CountInv
<1>0. /\ HashIsNotRetried /\ ~StatusExpires
      /\ \A f \in Files : ReqOf[f] \in Requests
      /\ \A f \in FilesOfUpload(u) : f \in Files /\ UploadOf[ReqOf[f]] = u
  BY ActorsAssumption DEF PromiseAssumption, FilesOfUpload, UploadOfFile
<1>1. CASE \E r \in Requests : CountAccepted(r) /\ UploadOf[r] = u
  <2>1. PICK r \in Requests : CountAccepted(r) /\ UploadOf[r] = u
    BY <1>1
  <2> DEFINE n == Cardinality(Accepted(r))
  <2>2. /\ rpc[r] = "loop" /\ offer' = offer
        /\ \A f \in FilesOf(r) : offer[f] \in {"accepted", "rejected"}
    BY <2>1 DEF CountAccepted
  <2>3. hash[u].total = 0
    BY <2>1, <2>2, LoopHasNoTotal
  <2>4. CASE Accepted(r) = {}
    BY <2>1, <2>3, <2>4 DEF CountAccepted
  <2>5. CASE Accepted(r) # {}
    <3>1. PICK o \in Outcome["hash"], k \in 2..Sendings :
            /\ hash' = [hash EXCEPT ![u] =
                     Result(o, @, AddUploadCounters(@, n), AddUploadCounters(@, k * n))]
            /\ rpc' = [rpc EXCEPT ![r] = IF Errs(o) THEN "error" ELSE "done"]
      BY <2>1, <2>5 DEF CountAccepted
    <3>2. \/ hash' = [hash EXCEPT ![u] = hash[u]]
          \/ hash' = [hash EXCEPT ![u] = AddUploadCounters(hash[u], n)]
      BY <1>0, <3>1 DEF Result, HashIsNotRetried
    <3>3. n \in Int
      BY FilesOfFinite, FS_CardinalityType
    <3>4. hash'[u].total = 0 \/ hash'[u].total = n
      <4>1. hash \in [Uploads -> StatusRecord] /\ hash[u] \in StatusRecord
        BY DEF TypeOk
      <4> HIDE DEF n
      <4> QED
        BY <2>3, <3>2, <3>3, <4>1, StatusFields
    <3>5. rpc'[r] \in {"done", "error"}
      BY <3>1 DEF TypeOk
    <3>6. FilesOfUpload(u) = FilesOf(r)
      BY <1>0, <2>1 DEF PromiseAssumption, FilesOfUpload, UploadOfFile, FilesOf
    <3>7. AcceptedOf(u)' = Accepted(r) /\ FilesOfUpload(u)' = FilesOf(r)
      BY <2>2, <3>6 DEF AcceptedOf, Accepted, FilesOfUpload, UploadOfFile
    <3>8. \A f \in FilesOf(r) : ReqOf[f] = r
      BY DEF FilesOf
    <3> QED
      BY <2>2, <3>4, <3>5, <3>7, <3>8 DEF CountedWhole
  <2> QED
    BY <2>4, <2>5
<1>2. CASE ~\E r \in Requests : CountAccepted(r) /\ UploadOf[r] = u
  <2>1. hash'[u].total = hash[u].total
    BY <1>0, <1>2, TotalSteps
  <2>2. CASE hash[u].total = 0
    BY <2>1, <2>2
  <2>3. CASE CountedWhole(u)
    <3>1. ASSUME NEW f \in FilesOfUpload(u)
          PROVE  offer'[f] = offer[f] /\ rpc'[ReqOf[f]] \in {"done", "error"}
      BY <1>0, <2>3, <3>1, RequestPcSteps DEF CountedWhole
    <3>2. FilesOfUpload(u)' = FilesOfUpload(u) /\ AcceptedOf(u)' = AcceptedOf(u)
      BY <3>1 DEF AcceptedOf, FilesOfUpload, UploadOfFile
    <3> QED
      BY <2>1, <2>3, <3>1, <3>2 DEF CountedWhole
  <2> QED
    BY <2>2, <2>3 DEF CountInv
<1> QED
  BY <1>1, <1>2

\* Of an upload that is over every file is answered, an accepted one has a message
\* behind the workers, and if no failure is counted each of them is a photo.
LEMMA OverIsTallied ==
  ASSUME TypeOk, PhotosInv, TalliedInv, CompletedIsBacked, CountInv,
         NEW u \in Uploads, Terminal(u)
  PROVE  /\ CountedWhole(u) /\ AcceptedOf(u) # {}
         /\ \A f \in AcceptedOf(u) : \E p \in Behind : log[p] = f
         /\ hash[u].failed <= 0 => AcceptedOf(u) \subseteq rows
<1>1. hash[u].total # 0 /\ hash[u].completed + hash[u].failed >= hash[u].total
  BY TerminalFields
<1>2. CountedWhole(u) /\ AcceptedOf(u) # {} /\ hash[u].total = Cardinality(AcceptedOf(u))
  BY <1>1, TotalNamesFile DEF CountedWhole
<1> QED
  BY <1>1, <1>2, TerminalIsTallied, CompletedIsMade

\* An upload that is over is told so for good.
LEMMA OverStays ==
  ASSUME PromiseAssumption, TypeOk, MessagesInv, CountInv, TalliedInv', TalliedIsBounded',
         [Next]_vars, NEW u \in Uploads, Terminal(u)
  PROVE  Reported(hash'[u]) = Reported(hash[u])
<1>1. hash[u].total # 0
  BY TerminalFields
<1>2. hash[u].total = Cardinality(AcceptedOf(u))
  BY <1>1, TotalNamesFile DEF CountedWhole
<1>3. \A r \in Requests : CountAccepted(r) => UploadOf[r] # u
  BY <1>1, LoopHasNoTotal DEF CountAccepted
<1> QED
  BY <1>2, <1>3, FinalStays DEF PromiseAssumption

\* The messages still to be settled.  A worker's step settles some of them, or gives
\* them up with its batch, and never takes one up again.
Open == Waiting \cup InHand
LEMMA OpenSteps ==
  ASSUME TypeOk, MessagesInv, RegionsInv, RegionsInv', NEW w \in Workers,
         WorkerStep(w) \/ WorkerCrash(w)
  PROVE  /\ log' = log /\ Open' \subseteq Open
         /\ MoveToCompleted(w) \/ MoveToFailed(w) =>
              worker[w].at \in Open /\ Open' = Open \ {worker[w].at}
         /\ CreatePhoto(w) => worker[w].at \in Open /\ Open' = Open
<1>1. log' = log
  BY WorkerStays DEF ReadProcessingJobs
<1>2. CASE WorkerStep(w)
  <2>1. Open' \subseteq Open
    BY <1>2, WaitingSteps DEF Open
  <2>2. MoveToCompleted(w) \/ MoveToFailed(w) =>
              worker[w].at \in Open /\ Open' = Open \ {worker[w].at}
    BY <1>2, WaitingSteps DEF Open
  <2>3. ASSUME CreatePhoto(w) PROVE worker[w].at \in Open /\ Open' = Open
    <3>1. Busy(w) /\ worker[w].pc = "create"
      BY <2>3 DEF CreatePhoto, Busy
    <3>2. ToSettle(w) = worker[w].at .. worker[w].hi
      BY <3>1 DEF RegionsInv
    <3>3. worker[w].at \in ToSettle(w)
      BY <3>1, <3>2 DEF MessagesInv, TypeOk, WorkerRecord
    <3>4. /\ ~MoveJobToProcessing(w) /\ ~MoveToCompleted(w) /\ ~MoveToFailed(w)
          /\ ~ReadProcessingJobs(w)
      BY <3>1 DEF MoveJobToProcessing, MoveToCompleted, MoveToFailed, ReadProcessingJobs
    <3>5. InHand' = InHand
      BY <1>2, <3>4, WaitingSteps
    <3>6. Waiting' = Waiting
      <4>1. /\ last' = last /\ ToMove(w)' = ToMove(w)
            /\ \A v \in Workers \ {w} : worker'[v] = worker[v]
        BY <1>2, <3>4, RegionSteps, WorkerStays DEF StaysInBatch
      <4>2. \A v \in Workers \ {w} : ToMove(v)' = ToMove(v)
        BY <4>1 DEF ToMove, Held, Batch
      <4>3. \A v \in Workers : ToMove(v)' = ToMove(v)
        BY <4>1, <4>2
      <4> QED
        BY <1>1, <4>1, <4>3 DEF Waiting
    <3> QED
      BY <3>3, <3>5, <3>6 DEF Open, InHand
  <2> QED
    BY <1>1, <2>1, <2>2, <2>3
<1>3. CASE WorkerCrash(w)
  <2>1. /\ last' = last /\ worker'[w].pc = "idle"
        /\ \A v \in Workers \ {w} : worker'[v] = worker[v]
    BY <1>3 DEF WorkerCrash, streamVars, IdleWorker, TypeOk
  <2>2. ToMove(w)' = {} /\ ToSettle(w)' = {}
    BY <2>1 DEF RegionsInv
  <2>3. \A v \in Workers \ {w} : ToMove(v)' = ToMove(v) /\ ToSettle(v)' = ToSettle(v)
    BY <2>1 DEF ToMove, ToSettle, Held, Batch
  <2>4. \A v \in Workers : ToMove(v)' \subseteq ToMove(v) /\ ToSettle(v)' \subseteq ToSettle(v)
    BY <2>2, <2>3
  <2>5. Open' \subseteq Open
    BY <1>1, <2>1, <2>4 DEF Open, Waiting, InHand
  <2>6. ASSUME MoveToCompleted(w) \/ MoveToFailed(w) \/ CreatePhoto(w) PROVE FALSE
    <3>1. worker'[w].pc \in {"completed", "failed", "error", "ack"}
      <4>1. \E pc \in {"completed", "failed", "error", "ack"} : GoOn(w, pc)
        BY <2>6 DEF MoveToCompleted, MoveToFailed, CreatePhoto, AfterCreate
      <4> QED
        BY <4>1 DEF GoOn, TypeOk
    <3> QED
      BY <2>1, <3>1
  <2> QED
    BY <1>1, <2>5, <2>6
<1> QED
  BY <1>2, <1>3

\* What a step changes of what the client may see: nothing, but that messages are
\* settled or given up; one file in its request; or one photo.
LeavesFiles == UNCHANGED <<offer, rows, log>> /\ Open' \subseteq Open
AnswersFile(f) ==
  /\ UNCHANGED <<rows, worker, hash, rpc, last>>
  /\ \A g \in Files \ {f} : offer'[g] = offer[g]
  /\ \/ /\ offer[f] \in {"todo", "stored", "undo"}
        /\ offer'[f] \in {"stored", "undo", "failing"} /\ log' = log
     \/ offer[f] = "failing" /\ offer'[f] = "rejected" /\ log' = log
     \/ offer[f] = "stored" /\ offer'[f] = "accepted" /\ log' = Append(log, f)
MakesPhoto(w) ==
  /\ CreatePhoto(w)
  /\ UNCHANGED <<offer, hash, log>>
  /\ rows' = rows \cup {Current(w)}
  /\ worker[w].at \in Open /\ Open' = Open

\* Every step is of one of these kinds.
LEMMA StepKinds ==
  ASSUME PromiseAssumption, TypeOk, MessagesInv, RegionsInv, RegionsInv', [Next]_vars
  PROVE  \/ LeavesFiles
         \/ \E f \in Files : AnswersFile(f)
         \/ \E w \in Workers : MakesPhoto(w)
<1>0. offer \in [Files -> {"todo", "stored", "undo", "failing", "accepted", "rejected"}]
  BY DEF TypeOk
<1>1. ASSUME UNCHANGED <<offer, rows, log, last, worker>> PROVE LeavesFiles
  BY <1>1, RegionsStay DEF LeavesFiles, Open
<1>2. ASSUME NEW r \in Requests, Refuse(r) \/ Begin(r) \/ CountAccepted(r) \/ RequestCrash(r)
      PROVE  LeavesFiles
  BY <1>1, <1>2 DEF Refuse, Begin, CountAccepted, RequestCrash, streamVars
<1>3. ASSUME NEW r \in Requests, NEW f \in FilesOf(r),
             \/ PutOriginal(r, f) \/ EnqueueProcessingJob(r, f)
             \/ RemoveOriginal(r, f) \/ RecordRejection(r, f)
      PROVE  AnswersFile(f)
  <2>1. f \in Files
    BY DEF FilesOf
  <2>2. CASE PutOriginal(r, f)
    BY <1>0, <2>1, <2>2 DEF PutOriginal, AnswersFile, streamVars, statusVars
  <2>3. CASE EnqueueProcessingJob(r, f)
    BY <1>0, <2>1, <2>3 DEF EnqueueProcessingJob, AnswersFile, statusVars, PromiseAssumption,
       XAddIsDefinite, Result, Retried, Errs
  <2>4. CASE RemoveOriginal(r, f)
    BY <1>0, <2>1, <2>4 DEF RemoveOriginal, AnswersFile, streamVars, statusVars
  <2>5. CASE RecordRejection(r, f)
    BY <1>0, <2>1, <2>5 DEF RecordRejection, AnswersFile, streamVars
  <2> QED
    BY <1>3, <2>2, <2>3, <2>4, <2>5
<1>4. ASSUME NEW w \in Workers, CreatePhoto(w) PROVE MakesPhoto(w) \/ LeavesFiles
  <2>1. worker[w].at \in Open /\ Open' = Open /\ log' = log
    BY <1>4, OpenSteps DEF WorkerStep
  <2> QED
    BY <1>4, <2>1 DEF CreatePhoto, MakesPhoto, LeavesFiles, requestVars, statusVars
<1>5. ASSUME NEW w \in Workers, WorkerStep(w) \/ WorkerCrash(w), ~CreatePhoto(w)
      PROVE  LeavesFiles
  <2>1. Open' \subseteq Open /\ log' = log
    BY <1>5, OpenSteps
  <2>2. UNCHANGED <<offer, rows>>
    BY <1>5 DEF WorkerStep, WorkerCrash, ReadProcessingJobs, MoveJobToProcessing,
              CudaSucceeds, CudaFails, PutWatermarked, PutPreview, RemoveWatermarked,
              MoveToCompleted, MoveToFailed, RecordFailure, AckProcessingJob, requestVars
  <2> QED
    BY <2>1, <2>2 DEF LeavesFiles
<1>6. CASE UNCHANGED vars \/ \E u \in Uploads : Expire(u)
  BY <1>1, <1>6 DEF vars, requestVars, streamVars, Expire
<1>7. \A r \in Requests : \A f \in FilesOf(r) : f \in Files
  BY DEF FilesOf
<1> QED
  BY <1>2, <1>3, <1>4, <1>5, <1>6, <1>7 DEF Next, RequestStep

\* A worker comes to "failed" only with a message whose file has no photo.
LEMMA FailedEnters ==
  ASSUME PromiseAssumption, TypeOk, MessagesInv, PhotosInv,
         NEW w \in Workers, WorkerStep(w) \/ WorkerCrash(w), worker'[w].pc = "failed"
  PROVE  Current(w)' \notin rows'
<1>1. ~ReadProcessingJobs(w)
  BY ReadMoves DEF ReadProcessingJobs
<1>2. Busy(w) /\ StaysInBatch(w) /\ UNCHANGED log
  BY <1>1, WorkerStays
<1>3. /\ worker'[w].at \in Batch(w) /\ Current(w)' = log[worker'[w].at]
      /\ worker[w].at \in Nat /\ worker'[w].at \in Nat
      /\ \A v \in Workers \ {w} : worker'[v] = worker[v]
  BY <1>2 DEF StaysInBatch, Batch, Current, TypeOk, WorkerRecord
<1>4. \A p \in Batch(w) : log[p] \in rows =>
        worker[w].pc \in Settling /\ p <= worker[w].at /\ (p = worker[w].at => worker[w].pc # "create")
  BY <1>2 DEF PhotosInv, RowsInv
<1>5. CASE worker[w].pc \notin Settling
  <2>1. rows' = rows
    BY <1>1, <1>5, ObjectSteps DEF Settling
  <2> QED
    BY <1>3, <1>4, <1>5, <2>1
<1>6. CASE CreatePhoto(w)
  <2>1. worker'[w].at = worker[w].at /\ worker[w].pc = "create"
    BY <1>6, PcSteps DEF CreatePhoto
  <2>2. Current(w) \notin rows
    BY <1>3, <1>4, <2>1 DEF Current
  <2>3. PICK o \in Outcome["create"] : /\ rows' = IF Applied(o) THEN rows \cup {Current(w)} ELSE rows
                                       /\ GoOn(w, AfterCreate(Errs(o)))
    BY <1>6, <2>2 DEF CreatePhoto
  <2>4. Errs(o)
    <3>1. CASE ~Errs(o)
      <4>1. GoOn(w, "completed")
        BY <2>3, <3>1 DEF AfterCreate
      <4> QED
        BY <4>1 DEF GoOn, TypeOk
    <3> QED
      BY <3>1
  <2>5. o \notin Retried
    BY OutcomeAssumption
  <2>6. rows' = rows
    BY <2>3, <2>4, <2>5 DEF Errs, Applied, PromiseAssumption, Retried
  <2> QED
    BY <1>3, <2>1, <2>2, <2>6 DEF Current
<1>7. CASE Records(w)
  BY <1>7, PcSteps DEF Records
<1>8. CASE AckProcessingJob(w)
  <2>1. worker[w].pc = "ack" /\ rows' = rows
    BY <1>8 DEF AckProcessingJob
  <2>2. HasNext(w)
    BY <1>8 DEF AckProcessingJob, IdleWorker, TypeOk
  <2>3. PICK pc \in {"create", "failed"} : Advance(w, pc)
    BY <1>8, <2>2 DEF AckProcessingJob
  <2>4. worker'[w].at = worker[w].at + 1
    BY <1>2, <2>2, <2>3, AdvanceMoves DEF WorkerPcs, Busy
  <2> QED
    BY <1>3, <1>4, <2>1, <2>4
<1>9. CASE WorkerCrash(w)
  BY <1>9 DEF WorkerCrash, IdleWorker, TypeOk
<1> QED
  BY <1>1, <1>5, <1>6, <1>7, <1>8, <1>9
  DEF WorkerStep, Settling, MoveJobToProcessing, CudaSucceeds, CudaFails, PutWatermarked,
      PutPreview, RemoveWatermarked, Records

\* The files given up.
Failed == {f \in Files : Fate(f) = "failed"}

\* A worker about to count a failure has a file without a photo, and the hash counts
\* no more failures than there are.
FailuresInv ==
  /\ \A w \in Workers : worker[w].pc = "failed" => Current(w) \notin rows
  /\ \A u \in Uploads : hash[u].failed <= Cardinality(Failed \cap FilesOfUpload(u))

\* The fate of an accepted file, in words of its messages.
LEMMA AcceptedFate ==
  ASSUME NEW f, offer[f] = "accepted"
  PROVE  /\ Fate(f) \in {"photo", "accepted", "failed"}
         /\ Fate(f) = "photo" <=> f \in rows
         /\ Fate(f) = "failed" <=> f \notin rows /\ \A p \in Open : log[p] # f
  BY DEF Fate, Open

\* A file in a worker's hands was accepted, and until it is counted it is not given up.
LEMMA CurrentIsOpen ==
  ASSUME TypeOk, MessagesInv, PhotosInv, NEW w \in Workers, Busy(w)
  PROVE  /\ Current(w) \in Files /\ offer[Current(w)] = "accepted"
         /\ worker[w].at \in Open => Fate(Current(w)) # "failed"
         /\ \A v \in Workers \ {w} : Busy(v) => Current(v) # Current(w)
<1>1. worker[w].at \in 1..last /\ worker[w].at \in 1..Len(log) /\ Current(w) \in Files
  BY CurrentType, BatchesApart DEF PhotosInv
<1>2. offer[Current(w)] = "accepted"
  BY <1>1 DEF PhotosInv, LogInv, Current
<1>3. worker[w].at \in Open => Fate(Current(w)) # "failed"
  BY <1>2, AcceptedFate DEF Current
<1>4. ASSUME NEW v \in Workers \ {w}, Busy(v) PROVE Current(v) # Current(w)
  BY <1>4, BatchesApart DEF PhotosInv, Current
<1> QED
  BY <1>1, <1>2, <1>3, <1>4

\* How a step turns fates: of one file that is answered, of one that becomes a photo,
\* or of some accepted files that are given up.
TurnsFate(f) ==
  /\ \/ Fate(f) = "pending" /\ Fate(f)' \in {"accepted", "rejected"}
     \/ Fate(f) = "accepted" /\ Fate(f)' = "photo"
  /\ \A g \in Files \ {f} : Fate(g)' = Fate(g)
GivesUp(S) ==
  /\ \A f \in S : Fate(f) = "accepted" /\ Fate(f)' = "failed"
  /\ \A f \in Files \ S : Fate(f)' = Fate(f)

\* Every step does one of these; it gives up no file when it turns another.
LEMMA FateSteps ==
  ASSUME PromiseAssumption, TypeOk, MessagesInv, RegionsInv, RegionsInv', PhotosInv,
         [Next]_vars
  PROVE  (\E S \in SUBSET Files : GivesUp(S)) \/ (\E f \in Files : TurnsFate(f))
<1>0. /\ \A p \in 1..Len(log) : offer[log[p]] = "accepted"
      /\ Open \subseteq 1..Len(log) /\ Len(log) \in Nat /\ log \in Seq(Files)
      /\ last \in Nat /\ last <= Len(log)
  BY Countable DEF PhotosInv, LogInv, Open, TypeOk
<1>1. CASE LeavesFiles
  <2> DEFINE S == {f \in Files : Fate(f) = "accepted" /\ Fate(f)' = "failed"}
  <2>1. PICK T \in SUBSET Files : \A f \in Files :
          f \in T <=> Fate(f) = "accepted" /\ Fate(f)' = "failed"
    <3>1. S \in SUBSET Files
      OBVIOUS
    <3> QED
      BY <3>1
  <2>2. ASSUME NEW f \in Files \ T PROVE Fate(f)' = Fate(f)
    <3>1. offer'[f] = offer[f] /\ rows' = rows /\ log' = log /\ Open' \subseteq Open
      BY <1>1 DEF LeavesFiles
    <3>2. CASE offer[f] # "accepted"
      BY <3>1, <3>2 DEF Fate
    <3>3. CASE f \in rows
      BY <3>1, <3>3 DEF Fate
    <3>4. CASE offer[f] = "accepted" /\ f \notin rows /\ \A p \in Open : log[p] # f
      <4>1. Fate(f) = "failed"
        BY <3>4, AcceptedFate
      <4>2. \A p \in Waiting' \cup InHand' : log'[p] # f
        BY <3>1, <3>4 DEF Open
      <4>3. Fate(f)' = "failed"
        BY <3>1, <3>4, <4>2 DEF Fate
      <4> QED
        BY <4>1, <4>3
    <3>5. CASE offer[f] = "accepted" /\ f \notin rows /\ \E p \in Open : log[p] = f
      <4>1. Fate(f) = "accepted"
        BY <3>5 DEF Fate, Open
      <4>2. Fate(f)' \in {"accepted", "failed"}
        BY <3>1, <3>5 DEF Fate
      <4> QED
        BY <2>1, <4>1, <4>2
    <3> QED
      BY <3>2, <3>3, <3>4, <3>5
  <2>3. GivesUp(T)
    BY <2>1, <2>2 DEF GivesUp
  <2> QED
    BY <2>3
<1>2. ASSUME NEW f \in Files, AnswersFile(f)
      PROVE  (\E S \in SUBSET Files : GivesUp(S)) \/ TurnsFate(f)
  <2>0. InHand' = InHand
    BY <1>2, RegionsStay DEF AnswersFile
  <2>1. CASE log' = log
    <3>1. Open' = Open
      BY <1>2, <2>0, <2>1, RegionsStay DEF AnswersFile, Open
    <3>2. \A g \in Files \ {f} : Fate(g)' = Fate(g)
      <4> SUFFICES ASSUME NEW g \in Files \ {f} PROVE Fate(g)' = Fate(g)
        OBVIOUS
      <4>1. offer'[g] = offer[g] /\ rows' = rows /\ Waiting' \cup InHand' = Waiting \cup InHand
        BY <1>2, <3>1 DEF AnswersFile, Open
      <4> QED
        BY <2>1, <4>1 DEF Fate
    <3>3. CASE offer[f] = "failing"
      <4>1. offer'[f] = "rejected"
        BY <1>2, <3>3 DEF AnswersFile
      <4>2. Fate(f)' = Fate(f)
        BY <3>3, <4>1 DEF Fate
      <4>3. GivesUp({})
        BY <3>2, <4>2 DEF GivesUp
      <4> QED
        BY <4>3
    <3>4. CASE offer[f] # "failing"
      <4>1. /\ offer[f] \in {"todo", "stored", "undo"}
            /\ offer'[f] \in {"stored", "undo", "failing"}
        BY <1>2, <2>1, <3>4, <1>0 DEF AnswersFile
      <4>2. f \notin rows /\ rows' = rows
        BY <1>2, <4>1, PhotosAreAccepted DEF AnswersFile
      <4>3. Fate(f) = "pending"
        BY <4>1, <4>2 DEF Fate
      <4>4. CASE offer'[f] = "failing"
        <5>1. Fate(f)' = "rejected"
          BY <4>4 DEF Fate
        <5> QED
          BY <3>2, <4>3, <5>1 DEF TurnsFate
      <4>5. CASE offer'[f] # "failing"
        <5>1. Fate(f)' = "pending"
          BY <4>1, <4>2, <4>5 DEF Fate
        <5>2. GivesUp({})
          BY <3>2, <4>3, <5>1 DEF GivesUp
        <5> QED
          BY <5>2
      <4> QED
        BY <4>4, <4>5
    <3> QED
      BY <3>3, <3>4
  <2>2. CASE log' = Append(log, f) /\ offer[f] = "stored" /\ offer'[f] = "accepted"
    <3> DEFINE n == Len(log) + 1
    <3>1. /\ Len(log') = n /\ log'[n] = f /\ \A p \in 1..Len(log) : log'[p] = log[p]
      BY <1>0, <2>2
    <3>2. Waiting' = Waiting \cup {n}
      <4>1. \A v \in Workers : ToMove(v)' = ToMove(v)
        BY <1>2 DEF AnswersFile, ToMove, Held, Batch
      <4>2. (last + 1)..n = ((last + 1)..Len(log)) \cup {n}
        BY <1>0
      <4> HIDE DEF n
      <4> QED
        BY <1>2, <3>1, <4>1, <4>2 DEF Waiting, AnswersFile
    <3>3. f \notin rows /\ rows' = rows
      BY <1>2, <2>2, PhotosAreAccepted DEF AnswersFile
    <3>4. Fate(f) = "pending"
      BY <2>2, <3>3 DEF Fate
    <3>5. Fate(f)' = "accepted"
      <4>1. n \in Waiting' /\ log'[n] = f
        BY <3>1, <3>2
      <4> HIDE DEF n
      <4> QED
        BY <2>2, <3>3, <4>1 DEF Fate
    <3>6. \A g \in Files \ {f} : Fate(g)' = Fate(g)
      <4> SUFFICES ASSUME NEW g \in Files \ {f} PROVE Fate(g)' = Fate(g)
        OBVIOUS
      <4>1. offer'[g] = offer[g]
        BY <1>2 DEF AnswersFile
      <4>2. (\E p \in Waiting' \cup InHand' : log'[p] = g)
              <=> (\E p \in Waiting \cup InHand : log[p] = g)
        <5>1. \A p \in Waiting \cup InHand : log'[p] = log[p]
          BY <1>0, <3>1 DEF Open
        <5> HIDE DEF n
        <5> QED
          BY <2>0, <3>1, <3>2, <5>1
      <4> QED
        BY <3>3, <4>1, <4>2 DEF Fate
    <3> QED
      BY <3>4, <3>5, <3>6 DEF TurnsFate
  <2> QED
    BY <1>2, <2>1, <2>2 DEF AnswersFile
<1>3. ASSUME NEW w \in Workers, NEW f \in Files, f = Current(w), MakesPhoto(w)
      PROVE  (\E S \in SUBSET Files : GivesUp(S)) \/ TurnsFate(f)
  <2>1. Busy(w)
    BY <1>3 DEF MakesPhoto, CreatePhoto, Busy
  <2>2. offer[f] = "accepted" /\ Fate(f) # "failed"
    BY <1>3, <2>1, CurrentIsOpen DEF MakesPhoto
  <2>3. Fate(f) \in {"accepted", "photo"}
    BY <2>2, AcceptedFate
  <2>4. Fate(f)' = "photo"
    BY <1>3, <2>2 DEF MakesPhoto, Fate
  <2>5. \A g \in Files \ {f} : Fate(g)' = Fate(g)
    BY <1>3 DEF MakesPhoto, Fate, Open
  <2>6. CASE Fate(f) = "photo"
    <3>1. GivesUp({})
      BY <2>4, <2>5, <2>6 DEF GivesUp
    <3> QED
      BY <3>1
  <2> QED
    BY <2>3, <2>4, <2>5, <2>6 DEF TurnsFate
<1>4. \A w \in Workers : MakesPhoto(w) => Current(w) \in Files
  BY CurrentIsOpen DEF MakesPhoto, CreatePhoto, Busy
<1> QED
  BY <1>1, <1>2, <1>3, <1>4, StepKinds

\* An upload's failures can be counted.
LEMMA FailedFinite ==
  ASSUME TypeOk, NEW u
  PROVE  /\ IsFiniteSet(Failed \cap FilesOfUpload(u))
         /\ Cardinality(Failed \cap FilesOfUpload(u)) \in Nat
<1>1. Failed \cap FilesOfUpload(u) \subseteq Files
  BY DEF FilesOfUpload
<1> QED
  BY <1>1, SubsetOfFiles

\* A file given up stays so.
LEMMA FailedStays ==
  ASSUME PromiseAssumption, TypeOk, MessagesInv, RegionsInv, RegionsInv', PhotosInv,
         [Next]_vars
  PROVE  Failed \subseteq Failed'
<1>1. \A f \in Failed : f \in Files /\ Fate(f) = "failed"
  BY DEF Failed
<1>2. ASSUME NEW S \in SUBSET Files, GivesUp(S) PROVE Failed \subseteq Failed'
  BY <1>1, <1>2 DEF GivesUp, Failed
<1>3. ASSUME NEW f \in Files, TurnsFate(f) PROVE Failed \subseteq Failed'
  BY <1>1, <1>3 DEF TurnsFate, Failed
<1> QED
  BY <1>2, <1>3, FateSteps

\* FailuresInv is inductive.
LEMMA NextFailures ==
  ASSUME PromiseAssumption, TypeOk, MessagesInv, RegionsInv, RegionsInv', PhotosInv,
         FailuresInv, [Next]_vars
  PROVE  FailuresInv'
<1>0. HashIsNotRetried /\ ~StatusExpires
  BY DEF PromiseAssumption
<1>1. ASSUME NEW w \in Workers, worker'[w].pc = "failed" PROVE Current(w)' \notin rows'
  <2>1. CASE WorkerStep(w) \/ WorkerCrash(w)
    BY <1>1, <2>1, FailedEnters
  <2>2. CASE ~(WorkerStep(w) \/ WorkerCrash(w))
    <3>1. worker'[w] = worker[w]
      <4>1. worker' = worker \/ \E v \in Workers : WorkerStep(v) \/ WorkerCrash(v)
        BY DEF Next, vars, RequestStep, Refuse, Begin, PutOriginal, EnqueueProcessingJob,
               RemoveOriginal, RecordRejection, CountAccepted, RequestCrash, Expire
      <4> QED
        BY <2>2, <4>1, PcSteps
    <3>2. Busy(w) /\ worker[w].pc = "failed" /\ Current(w) \notin rows
      BY <1>1, <3>1 DEF Busy, FailuresInv
    <3>3. Current(w)' = Current(w)
      BY <3>1, <3>2, CurrentType, LogGrows DEF Current, TypeOk
    <3>4. ASSUME NEW v \in Workers, MakesPhoto(v) PROVE Current(w) # Current(v)
      <4>1. Busy(v) /\ v # w
        BY <3>2, <3>4 DEF MakesPhoto, CreatePhoto, Busy
      <4> QED
        BY <3>2, <4>1, CurrentIsOpen
    <3> QED
      BY <3>2, <3>3, <3>4, StepKinds DEF LeavesFiles, AnswersFile, MakesPhoto
  <2> QED
    BY <2>1, <2>2
<1>2. ASSUME NEW u \in Uploads
      PROVE  hash'[u].failed <= Cardinality((Failed \cap FilesOfUpload(u))')
  <2> DEFINE C == Failed \cap FilesOfUpload(u)
             CC == Failed' \cap FilesOfUpload(u)
  <2>1. /\ hash[u].failed <= Cardinality(C) /\ hash[u].failed \in Int
        /\ IsFiniteSet(C) /\ Cardinality(C) \in Nat
    BY FailedFinite, TerminalFields DEF FailuresInv
  <2>2. /\ IsFiniteSet(CC) /\ Cardinality(CC) \in Nat
        /\ CC = (Failed \cap FilesOfUpload(u))'
    <3>1. CC \subseteq Files /\ CC = (Failed \cap FilesOfUpload(u))'
      BY DEF FilesOfUpload, UploadOfFile
    <3> QED
      BY <3>1, SubsetOfFiles
  <2>3. C \subseteq CC
    BY FailedStays
  <2>4. ASSUME NEW w \in Workers, MoveToFailed(w), u = UploadOfFile(Current(w)),
               hash'[u].failed = hash[u].failed + 1
        PROVE  hash'[u].failed <= Cardinality(CC)
    <3>1. Busy(w) /\ worker[w].pc = "failed"
      BY <2>4 DEF MoveToFailed, Busy
    <3>0. Current(w) \in Files /\ worker[w].at \in Int
      BY <2>4, <3>1, CurrentIsOpen DEF TypeOk, WorkerRecord
    <3>a. PICK f \in Files, p \in Int : f = Current(w) /\ p = worker[w].at
      BY <3>0
    <3>2. p \in Open /\ Open' = Open \ {p} /\ log' = log
      BY <2>4, <3>a, OpenSteps DEF WorkerStep
    <3>3. /\ f \in Files /\ offer[f] = "accepted" /\ Fate(f) # "failed"
          /\ f \notin rows /\ rows' = rows /\ offer' = offer
      BY <2>4, <3>a, <3>1, <3>2, CurrentIsOpen DEF FailuresInv, MoveToFailed, requestVars
    <3>4. \A q \in Open : log[q] = f => q = p
      <4>1. Open \subseteq 1..Len(log)
        BY Countable DEF Open
      <4> QED
        BY <3>2, <3>a, <4>1 DEF PhotosInv, LogInv, Current
    <3>5. Fate(f)' = "failed"
      <4>1. \A q \in Waiting' \cup InHand' : log'[q] # f
        BY <3>2, <3>4 DEF Open
      <4> QED
        BY <3>3, <4>1 DEF Fate
    <3>6. f \notin C /\ f \in FilesOfUpload(u)
      BY <2>4, <3>a, <3>3 DEF Failed, FilesOfUpload
    <3>7. f \in Failed'
      BY <3>3, <3>5 DEF Failed
    <3>8. C \cup {f} \subseteq CC
      BY <2>3, <3>6, <3>7
    <3> HIDE DEF C, CC
    <3>9. Cardinality(C \cup {f}) = Cardinality(C) + 1
      BY <2>1, <3>6, FS_AddElement
    <3>10. Cardinality(C \cup {f}) <= Cardinality(CC)
      BY <2>2, <3>8, FS_Subset
    <3> QED
      BY <2>1, <2>2, <2>4, <3>9, <3>10
  <2>5. CASE hash'[u].failed = hash[u].failed
    <3> HIDE DEF C, CC
    <3>1. Cardinality(C) <= Cardinality(CC)
      BY <2>2, <2>3, FS_Subset
    <3> QED
      BY <2>1, <2>2, <2>5, <3>1
  <2> HIDE DEF C, CC
  <2> QED
    BY <1>0, <2>2, <2>4, <2>5, TotalSteps
<1> QED
  BY <1>1, <1>2 DEF FailuresInv

\* At first nothing has been promised yet.
LEMMA PromiseInit == Init => Promise!Init
<1>1. \A f \in Files : Init => Fate(f) = "pending"
  BY DEF Init, Fate
<1>2. ASSUME Init, NEW u \in Uploads PROVE ~Terminal(u)
  <2>1. Absent.total = 0 /\ hash[u] = Absent
    BY <1>2 DEF Absent, Init
  <2>2. hash[u].total = 0
    BY <2>1
  <2> QED
    BY <1>2, <2>2, InitTypeOk, TerminalFields
<1> QED
  BY <1>1, <1>2 DEF Promise!Init

\* What is promised of a status that says an upload is over: every file has met its
\* fate, and the word is right.
FatesOf(u) == {Fate(f) : f \in FilesOfUpload(u)}
TruthInv == \A u \in Uploads : Terminal(u) =>
  /\ FatesOf(u) \subseteq {"rejected", "photo", "failed"}
  /\ \/ "failed" \in FatesOf(u) /\ Reported(hash[u]) = "completed_with_errors"
     \/ "failed" \notin FatesOf(u) /\ "photo" \in FatesOf(u) /\ Reported(hash[u]) = "completed"

\* It follows from what is proved of the counters.
LEMMA StatusIsTruth ==
  TypeOk /\ PhotosInv /\ RegionsInv /\ TalliedInv /\ CompletedIsBacked /\ CountInv /\ FailuresInv
    => TruthInv
<1> SUFFICES ASSUME TypeOk, PhotosInv, RegionsInv, TalliedInv, CompletedIsBacked, CountInv,
                    FailuresInv, NEW u \in Uploads, Terminal(u)
             PROVE  /\ FatesOf(u) \subseteq {"rejected", "photo", "failed"}
                    /\ \/ /\ "failed" \in FatesOf(u)
                          /\ Reported(hash[u]) = "completed_with_errors"
                       \/ /\ "failed" \notin FatesOf(u) /\ "photo" \in FatesOf(u)
                          /\ Reported(hash[u]) = "completed"
  BY DEF TruthInv
<1>1. /\ hash[u].total > 0 /\ hash[u].completed + hash[u].failed >= hash[u].total
      /\ hash[u].total \in Int /\ hash[u].completed \in Int /\ hash[u].failed \in Int
  BY TerminalFields
<1>2. /\ CountedWhole(u) /\ AcceptedOf(u) # {}
      /\ \A f \in AcceptedOf(u) : \E p \in Behind : log[p] = f
      /\ hash[u].failed <= 0 => AcceptedOf(u) \subseteq rows
  BY OverIsTallied
<1>3. \A f \in FilesOfUpload(u) :
        /\ offer[f] \in {"accepted", "rejected"}
        /\ f \in rows => offer[f] = "accepted"
  BY <1>2, PhotosAreAccepted DEF CountedWhole
<1>4. Behind \cap Open = {}
  <2>1. \A p \in Behind : p \in 1..last /\ p \notin (last + 1)..Len(log)
    BY DEF Behind, TypeOk
  <2>2. \A p \in Behind : \A w \in Workers : p \notin ToMove(w) /\ p \notin ToSettle(w)
    BY DEF Behind, ToMove, ToSettle
  <2> QED
    BY <2>1, <2>2 DEF Open, Waiting, InHand
<1>5. ASSUME NEW f \in AcceptedOf(u) PROVE Fate(f) \in {"photo", "failed"}
  <2>1. PICK p \in Behind : log[p] = f
    BY <1>2
  <2>2. p \in 1..Len(log) /\ Open \subseteq 1..Len(log)
    BY Countable DEF Behind, Open, TypeOk
  <2>3. \A q \in Open : log[q] # f
    BY <1>4, <2>1, <2>2 DEF PhotosInv, LogInv
  <2> QED
    BY <2>3, AcceptedFate DEF AcceptedOf
<1>6. FatesOf(u) \subseteq {"rejected", "photo", "failed"}
  <2>1. ASSUME NEW f \in FilesOfUpload(u) PROVE Fate(f) \in {"rejected", "photo", "failed"}
    <3>1. CASE offer[f] = "rejected"
      BY <3>1 DEF Fate
    <3>2. CASE offer[f] = "accepted"
      BY <1>5, <3>2 DEF AcceptedOf
    <3> QED
      BY <1>3, <3>1, <3>2
  <2> QED
    BY <2>1 DEF FatesOf
<1>7. CASE hash[u].failed > 0
  <2>1. Reported(hash[u]) = "completed_with_errors"
    BY <1>1, <1>7 DEF Reported
  <2>2. Cardinality(Failed \cap FilesOfUpload(u)) > 0
    <3>1. /\ hash[u].failed <= Cardinality(Failed \cap FilesOfUpload(u))
          /\ Cardinality(Failed \cap FilesOfUpload(u)) \in Nat
      BY FailedFinite DEF FailuresInv
    <3> QED
      BY <1>1, <1>7, <3>1
  <2>3. PICK f \in Failed \cap FilesOfUpload(u) : TRUE
    BY <2>2, FS_EmptySet
  <2>4. Fate(f) = "failed" /\ f \in FilesOfUpload(u)
    BY <2>3 DEF Failed
  <2> QED
    BY <1>6, <2>1, <2>4 DEF FatesOf
<1>8. CASE ~(hash[u].failed > 0)
  <2>1. Reported(hash[u]) = "completed"
    BY <1>1, <1>8 DEF Reported
  <2>2. AcceptedOf(u) \subseteq rows
    BY <1>1, <1>2, <1>8
  <2>3. "failed" \notin FatesOf(u)
    <3>1. ASSUME NEW f \in FilesOfUpload(u) PROVE Fate(f) # "failed"
      <4>1. CASE offer[f] = "rejected"
        BY <4>1 DEF Fate
      <4>2. CASE offer[f] = "accepted"
        BY <2>2, <4>2, AcceptedFate DEF AcceptedOf
      <4> QED
        BY <1>3, <4>1, <4>2
    <3> QED
      BY <3>1 DEF FatesOf
  <2>4. PICK f \in AcceptedOf(u) : f \in FilesOfUpload(u) /\ f \in rows /\ offer[f] = "accepted"
    BY <1>2, <2>2 DEF AcceptedOf
  <2>5. Fate(f) = "photo"
    BY <2>4, AcceptedFate
  <2>6. "photo" \in FatesOf(u)
    BY <2>4, <2>5 DEF FatesOf
  <2> QED
    BY <1>6, <2>1, <2>3, <2>6
<1> QED
  BY <1>7, <1>8

\* One step keeps the promise: it turns a fate, gives files up, or closes an upload.
LEMMA StepIsPromised ==
  ASSUME PromiseAssumption, TypeOk, MessagesInv, RegionsInv, RegionsInv', PhotosInv,
         CountInv, TalliedInv', TalliedIsBounded', TruthInv', [Next]_vars
  PROVE  [Promise!Next]_(Promise!vars)
<1> DEFINE fate == [f \in Files |-> Fate(f)]
           report == [u \in Uploads |-> IF Terminal(u) THEN Reported(hash[u]) ELSE "open"]
<1>1. \A u \in Uploads : report[u] # "open" <=> Terminal(u)
  BY DEF Terminal
<1>2. ASSUME NEW u \in Uploads, Terminal(u) PROVE report'[u] = report[u]
  <2>1. Reported(hash'[u]) = Reported(hash[u])
    BY <1>2, OverStays
  <2>2. Terminal(u)'
    BY <1>2, <2>1 DEF Terminal
  <2> QED
    BY <1>2, <2>1, <2>2
<1>3. ASSUME NEW u \in Uploads PROVE report'[u] \in Promise!ReportFor(u)
  <2> DEFINE F == {fate'[f] : f \in FilesOfUpload(u)}
  <2>1. F = FatesOf(u)'
    BY DEF FatesOf, FilesOfUpload, UploadOfFile
  <2>2. CASE Terminal(u)
    BY <1>1, <1>2, <2>2 DEF Promise!ReportFor
  <2>3. CASE ~Terminal(u)' /\ ~Terminal(u)
    <3>1. report[u] = "open" /\ report'[u] = "open"
      BY <2>3
    <3> QED
      BY <3>1 DEF Promise!ReportFor
  <2>4. CASE Terminal(u)' /\ ~Terminal(u)
    <3>1. report[u] = "open" /\ report'[u] = Reported(hash'[u])
      BY <2>4
    <3>2. /\ F \subseteq {"rejected", "photo", "failed"}
          /\ \/ "failed" \in F /\ Reported(hash'[u]) = "completed_with_errors"
             \/ /\ "failed" \notin F /\ "photo" \in F
                /\ Reported(hash'[u]) = "completed"
      BY <2>1, <2>4 DEF TruthInv
    <3> QED
      BY <3>1, <3>2 DEF Promise!ReportFor, Promise!Final
  <2> QED
    BY <2>2, <2>3, <2>4
<1>4. Promise!Reporting
  BY <1>3 DEF Promise!Reporting
<1>5. ASSUME NEW f \in Files, TurnsFate(f) PROVE Promise!Answer(f) \/ Promise!Publish(f)
  <2>1. ASSUME NEW to, Fate(f)' = to PROVE fate' = [fate EXCEPT ![f] = to]
    BY <1>5, <2>1 DEF TurnsFate
  <2> QED
    BY <1>4, <1>5, <2>1 DEF TurnsFate, Promise!Answer, Promise!Publish, Promise!Turns
<1>6. ASSUME NEW S \in SUBSET Files, GivesUp(S), S # {} PROVE Promise!GiveUp(S)
  <2>1. fate' = [f \in Files |-> IF f \in S THEN "failed" ELSE fate[f]]
    BY <1>6 DEF GivesUp
  <2>2. \A f \in S : fate[f] = "accepted"
    BY <1>6 DEF GivesUp
  <2> QED
    BY <1>4, <1>6, <2>1, <2>2 DEF Promise!GiveUp
<1>7. CASE GivesUp({})
  <2>1. fate' = fate
    BY <1>7 DEF GivesUp
  <2>2. CASE \A u \in Uploads : report'[u] = report[u]
    BY <2>1, <2>2 DEF Promise!vars
  <2>3. ASSUME NEW u \in Uploads, report'[u] # report[u] PROVE Promise!Close(u)
    BY <1>1, <1>2, <1>4, <2>1, <2>3 DEF Promise!Close
  <2> QED
    BY <2>2, <2>3 DEF Promise!Next
<1> QED
  BY <1>5, <1>6, <1>7, FateSteps DEF Promise!Next

\* The pipeline keeps the safety half of what UploadPromise promises a client:
\* a file is answered once, an accepted one becomes a photo or is given up for good,
\* and an upload is called over when all its files are, by the right word; also when
\* workers and requests die anywhere, and status writes and answers to reads get lost.
THEOREM PipelineKeepsPromise ==
  ASSUME PromiseAssumption
  PROVE  Spec => Promise!Safety
<1>0. HashIsNotRetried /\ XAddIsDefinite
  BY DEF PromiseAssumption
<1>1. Init => Promise!Init
  BY PromiseInit
<1>2. Spec => [](TypeOk /\ MessagesInv /\ RegionsInv)
  BY MessagesInvariant, Regions, PTL
<1>3. Spec => []PhotosInv
  BY <1>0, PhotosInvariant, PTL
<1>4. Spec => []FailuresInv
  <2>1. Init => FailuresInv
    <3> SUFFICES ASSUME Init PROVE FailuresInv
      OBVIOUS
    <3>1. \A u \in Uploads : hash[u].failed = 0
      <4>1. Absent.failed = 0
        BY DEF Absent
      <4> QED
        BY <4>1 DEF Init
    <3>2. \A u \in Uploads : Cardinality(Failed \cap FilesOfUpload(u)) \in Nat
      BY InitTypeOk, FailedFinite
    <3>3. \A u \in Uploads : hash[u].failed <= Cardinality(Failed \cap FilesOfUpload(u))
      BY <3>1, <3>2
    <3> QED
      BY <3>3 DEF Init, FailuresInv, IdleWorker
  <2>2. TypeOk /\ MessagesInv /\ RegionsInv /\ RegionsInv' /\ PhotosInv /\ FailuresInv
          /\ [Next]_vars => FailuresInv'
    BY NextFailures
  <2> QED
    BY <1>2, <1>3, <2>1, <2>2, PTL DEF Spec
<1>5. Spec => []CountInv
  <2>1. Init => CountInv
    <3>1. Absent.total = 0
      BY DEF Absent
    <3> QED
      BY <3>1 DEF Init, CountInv
  <2>2. TypeOk /\ MessagesInv /\ CountInv /\ [Next]_vars => CountInv'
    BY NextCount
  <2> QED
    BY <1>2, <2>1, <2>2, PTL DEF Spec
<1>6. Spec => [](TalliedInv /\ TalliedIsBounded /\ TruthInv)
  BY <1>0, <1>2, <1>3, <1>4, <1>5, TalliedInvariant, TalliedBounded, CompletedIsNeverAhead,
     StatusIsTruth, PTL
<1>7. /\ TypeOk /\ MessagesInv /\ RegionsInv /\ RegionsInv' /\ PhotosInv /\ CountInv
      /\ TalliedInv' /\ TalliedIsBounded' /\ TruthInv' /\ [Next]_vars
      => [Promise!Next]_(Promise!vars)
  BY StepIsPromised
<1> QED
  BY <1>1, <1>2, <1>3, <1>5, <1>6, <1>7, PTL DEF Spec, Promise!Safety

-----------------------------------------------------------------------------
(* That nothing is forgotten, and when an upload is over.                  *)

\* The environment in which a worker finishes every batch it is given.
BatchesAreFinished ==
  HashIsKept /\ "lostReply" \notin Outcome["read"] /\ MayCrash \cap Workers = {}

\* A file is accepted only with a message of it in the stream.
LEMMA AcceptedIsQueued ==
  ASSUME TypeOk, MessagesInv, DeliveryInv, [Next]_vars, NEW f \in Files,
         offer'[f] = "accepted"
  PROVE  \E p \in 1..Len(log') : log'[p] = f
<1>1. /\ Len(log) \in Nat /\ Len(log') \in Nat /\ Len(log) <= Len(log')
      /\ \A p \in 1..Len(log) : log'[p] = log[p]
  BY LogGrows
<1>2. CASE offer[f] = "accepted"
  BY <1>1, <1>2 DEF DeliveryInv
<1>3. ASSUME NEW r \in Requests, NEW g \in FilesOf(r), EnqueueProcessingJob(r, g)
      PROVE  offer[f] = "accepted" \/ \E p \in 1..Len(log') : log'[p] = f
  <2>1. g \in Files /\ log \in Seq(Files)
    BY DEF FilesOf, TypeOk
  <2>2. PICK o \in Outcome["xadd"] :
          /\ \E k \in 2..Sendings :
               log' = Result(o, log, Append(log, g), log \o [i \in 1..k |-> g])
          /\ offer' = [offer EXCEPT ![g] = IF Errs(o) THEN "undo" ELSE "accepted"]
    BY <1>3 DEF EnqueueProcessingJob
  <2>3. CASE f # g
    BY <2>2, <2>3 DEF TypeOk
  <2>4. CASE f = g /\ Errs(o)
    BY <2>2, <2>4 DEF TypeOk
  <2>5. CASE f = g /\ ~Errs(o)
    <3>1. \/ log' = Append(log, g)
          \/ \E k \in 2..Sendings : log' = log \o [i \in 1..k |-> g]
      BY <2>2, <2>5 DEF Result, Errs
    <3>2. log'[Len(log) + 1] = f /\ Len(log) + 1 \in 1..Len(log')
      <4>1. CASE log' = Append(log, g)
        BY <1>1, <2>1, <2>5, <4>1
      <4>2. ASSUME NEW k \in 2..Sendings, log' = log \o [i \in 1..k |-> g]
            PROVE  log'[Len(log) + 1] = f /\ Len(log) + 1 \in 1..Len(log')
        <5>1. k \in Nat /\ k >= 2 /\ [i \in 1..k |-> g] \in Seq(Files)
          BY <2>1, OutcomeAssumption
        <5> QED
          BY <1>1, <2>1, <2>5, <4>2, <5>1
      <4> QED
        BY <3>1, <4>1, <4>2
    <3> QED
      BY <3>2
  <2> QED
    BY <2>3, <2>4, <2>5
<1>4. \/ offer'[f] = "accepted" => offer[f] = "accepted"
      \/ \E r \in Requests : \E g \in FilesOf(r) : EnqueueProcessingJob(r, g)
  <2>1. ASSUME NEW r \in Requests, RequestStep(r)
        PROVE  \/ offer'[f] = "accepted" => offer[f] = "accepted"
               \/ \E g \in FilesOf(r) : EnqueueProcessingJob(r, g)
    BY <2>1 DEF RequestStep, Refuse, Begin, PutOriginal, RemoveOriginal, RecordRejection,
                CountAccepted, FilesOf, TypeOk
  <2>2. ASSUME NEW w \in Workers, WorkerStep(w) \/ WorkerCrash(w) PROVE offer' = offer
    BY <2>2, WorkerStays DEF ReadProcessingJobs, requestVars
  <2> QED
    BY <2>1, <2>2 DEF Next, RequestCrash, Expire, vars, requestVars
<1> QED
  BY <1>2, <1>3, <1>4

\* A message is to be settled until its file is explained.
LEMMA NextDelivery ==
  ASSUME BatchesAreFinished, TypeOk, MessagesInv, RegionsInv, RegionsInv', ExplainedInv,
         DeliveryInv, [Next]_vars
  PROVE  DeliveryInv'
<1>1. /\ Len(log) \in Nat /\ Len(log') \in Nat /\ Len(log) <= Len(log')
      /\ \A p \in 1..Len(log) : log'[p] = log[p]
  BY LogGrows
<1>2. rows \subseteq rows' /\ errs \subseteq errs'
  BY ExplainedGrows
<1>3. \A p \in 1..Len(log) :
        p \in Waiting \cup InHand \cup ToRecord \/ log'[p] \in rows' \cup errs'
  BY <1>1, <1>2 DEF DeliveryInv
<1>4. \A p \in 1..Len(log') :
        p \in Waiting' \cup InHand' \cup ToRecord' \/ log'[p] \in rows' \cup errs'
  <2>1. CASE UNCHANGED <<worker, last>>
    <3>1. InHand' = InHand
      BY <2>1, RegionsStay
    <3>2. ToRecord' = ToRecord /\ \A w \in Workers : ToMove(w)' = ToMove(w)
      BY <2>1 DEF ToMove, Held, Batch, ToRecord
    <3>3. \A p \in 1..Len(log') : p \in Waiting \/ p \notin 1..Len(log) => p \in Waiting'
      BY <1>1, <2>1, <3>2 DEF Waiting, TypeOk
    <3> QED
      BY <1>3, <3>1, <3>2, <3>3
  <2>2. ASSUME NEW w \in Workers, WorkerStep(w)
        PROVE  \A p \in 1..Len(log') :
                 p \in Waiting' \cup InHand' \cup ToRecord' \/ log'[p] \in rows' \cup errs'
    <3>1. log' = log
      BY <2>2, WorkerStays DEF ReadProcessingJobs
    <3>2. "lostReply" \notin Outcome["read"]
      BY DEF BatchesAreFinished
    <3>a. \A v \in Workers \ {w} : worker'[v] = worker[v]
      BY <2>2, PcSteps
    <3>b. ASSUME NEW p, p \in ToRecord, p \notin ToRecord'
          PROVE  p = worker[w].at /\ worker[w].pc = "error"
      BY <3>a, <3>b DEF ToRecord
    <3>3. CASE MoveToCompleted(w)
      <4>1. Waiting' = Waiting /\ InHand' = InHand \ {worker[w].at}
        BY <2>2, <3>2, <3>3, WaitingSteps
      <4>2. log'[worker[w].at] \in rows' \cup errs'
        BY <1>2, <3>1, <3>3 DEF MoveToCompleted, ExplainedInv, Current
      <4> QED
        BY <1>3, <3>1, <3>3, <3>b, <4>1, <4>2 DEF MoveToCompleted
    <3>4. CASE MoveToFailed(w)
      <4>1. Waiting' = Waiting /\ InHand' = InHand \ {worker[w].at}
        BY <2>2, <3>2, <3>4, WaitingSteps
      <4>2. worker'[w].pc = "error" /\ worker'[w].at = worker[w].at
        BY <3>4, GoOnMoves DEF MoveToFailed, WorkerPcs, Busy
      <4>3. worker[w].at \in ToRecord'
        BY <4>2 DEF ToRecord
      <4> QED
        BY <1>3, <3>1, <3>4, <3>b, <4>1, <4>3 DEF MoveToFailed
    <3>5. CASE RecordFailure(w)
      <4>1. Waiting \cup InHand \subseteq Waiting' \cup InHand'
        BY <2>2, <3>2, <3>5, WaitingSteps DEF RecordFailure, MoveJobToProcessing,
           MoveToCompleted, MoveToFailed
      <4>2. log'[worker[w].at] \in rows' \cup errs'
        BY <3>1, <3>5 DEF RecordFailure, AddUploadError, Applied, BatchesAreFinished,
                          HashIsKept, Current
      <4> QED
        BY <1>3, <3>1, <3>b, <4>1, <4>2
    <3>6. CASE ~MoveToCompleted(w) /\ ~MoveToFailed(w) /\ ~RecordFailure(w)
      <4>1. Waiting \cup InHand \subseteq Waiting' \cup InHand'
        BY <2>2, <3>2, <3>6, WaitingSteps
      <4>2. ToRecord \subseteq ToRecord'
        <5>1. worker[w].pc # "error"
          BY <2>2, <3>6 DEF WorkerStep, ReadProcessingJobs, MoveJobToProcessing,
             CudaSucceeds, CudaFails, PutWatermarked, PutPreview, RemoveWatermarked,
             CreatePhoto, AckProcessingJob
        <5> QED
          BY <3>b, <5>1
      <4> QED
        BY <1>3, <3>1, <4>1, <4>2
    <3> QED
      BY <3>3, <3>4, <3>5, <3>6
  <2>3. UNCHANGED <<worker, last>> \/ \E w \in Workers : WorkerStep(w)
    BY DEF Next, vars, streamVars, RequestStep, Refuse, Begin, PutOriginal,
           EnqueueProcessingJob, RemoveOriginal, RecordRejection, CountAccepted,
           RequestCrash, Expire, WorkerCrash, BatchesAreFinished
  <2> QED
    BY <2>1, <2>2, <2>3
<1>5. \A f \in Files : offer'[f] = "accepted" => \E p \in 1..Len(log') : log'[p] = f
  BY AcceptedIsQueued
<1> QED
  BY <1>4, <1>5 DEF DeliveryInv

\* In every behaviour in which the batches are finished, DeliveryInv holds.
LEMMA DeliveryInvariant ==
  ASSUME BatchesAreFinished
  PROVE  Spec => []DeliveryInv
<1>1. Init => DeliveryInv
  BY DEF Init, DeliveryInv
<1>2. HashIsKept
  BY DEF BatchesAreFinished
<1>3. Init => ExplainedInv
  BY InitExplained
<1>4. TypeOk /\ MessagesInv /\ ExplainedInv /\ [Next]_vars => ExplainedInv'
  BY <1>2, NextExplained
<1>5. Spec => [](TypeOk /\ MessagesInv /\ RegionsInv)
  BY MessagesInvariant, Regions, PTL
<1>6. TypeOk /\ MessagesInv /\ RegionsInv /\ RegionsInv' /\ ExplainedInv /\ DeliveryInv
        /\ [Next]_vars => DeliveryInv'
  BY NextDelivery
<1> QED
  BY <1>1, <1>3, <1>4, <1>5, <1>6, PTL DEF Spec

\* Every accepted file is settled or has a message that is still to be settled,
\* whatever else fails and whichever request dies.
THEOREM AcceptedIsNotForgotten ==
  ASSUME BatchesAreFinished
  PROVE  Spec => []NothingIsForgotten
<1>1. DeliveryInv => NothingIsForgotten
  BY DEF DeliveryInv, NothingIsForgotten
<1> QED
  BY <1>1, DeliveryInvariant, PTL

\* With every chunk answered, exact counters say that an upload is over when it is.
LEMMA ExactIsOverWhenSettled ==
  ASSUME TypeOk, RegionsInv, LogInv, DeliveryInv, CountersAreExact,
         NEW u \in Uploads, AllCounted(u)
  PROVE  Terminal(u) <=> AcceptedOf(u) # {} /\ OfUpload(Waiting \cup InHand, u) = {}
<1> DEFINE L == 1..Len(log)
           S == Waiting \cup InHand
           All == OfUpload(L, u)
           Over == OfUpload(L \ S, u)
<1>1. Uncounted(u) = {}
  BY ActorsAssumption DEF Uncounted, AllCounted, RequestsOf, FilesOfUpload, UploadOfFile
<1>2. /\ hash[u].total = Cardinality(All)
      /\ hash[u].completed + hash[u].failed = Cardinality(Over)
  <2>1. ExactFor(u)
    BY DEF CountersAreExact
  <2>2. hash[u].total \in Int /\ Cardinality(Uncounted(u)) = 0
    BY <1>1, TerminalFields, FS_EmptySet
  <2> QED
    BY <2>1, <2>2 DEF ExactFor
<1>3. /\ S \subseteq L
      /\ IsFiniteSet(All) /\ Cardinality(All) \in Nat
      /\ IsFiniteSet(Over) /\ Cardinality(Over) \in Nat
  BY Countable
<1>4. Over \subseteq All /\ (Over = All <=> OfUpload(S, u) = {})
  BY <1>3 DEF OfUpload
<1>5. All # {} <=> AcceptedOf(u) # {}
  <2>1. ASSUME NEW p \in All PROVE log[p] \in AcceptedOf(u)
    BY DEF OfUpload, AcceptedOf, FilesOfUpload, LogInv, TypeOk
  <2>2. ASSUME NEW f \in AcceptedOf(u) PROVE All # {}
    BY DEF OfUpload, AcceptedOf, FilesOfUpload, DeliveryInv
  <2> QED
    BY <2>1, <2>2
<1>6. Cardinality(All) > 0 <=> All # {}
  <2> HIDE DEF All
  <2> QED
    BY <1>3, FS_EmptySet
<1>7. Cardinality(Over) >= Cardinality(All) <=> Over = All
  <2> HIDE DEF All, Over
  <2>1. Cardinality(Over) <= Cardinality(All)
        /\ (Cardinality(Over) = Cardinality(All) => Over = All)
    BY <1>3, <1>4, FS_Subset
  <2> QED
    BY <1>3, <2>1
<1>8. Terminal(u) <=> Cardinality(All) > 0 /\ Cardinality(Over) >= Cardinality(All)
  BY <1>2, TerminalFields
<1> HIDE DEF All, Over
<1> QED
  BY <1>4, <1>5, <1>6, <1>7, <1>8

\* The status of an answered upload says that it is over from the moment its last
\* message is settled, and at no other time.
THEOREM UploadsAreOverWhenSettled ==
  ASSUME NothingIsLost
  PROVE  Spec => []OverWhenSettled
<1>1. BatchesAreFinished /\ XAddIsDefinite
  BY DEF NothingIsLost, BatchesAreFinished
<1>2. TypeOk /\ RegionsInv /\ PhotosInv /\ DeliveryInv /\ CountersAreExact => OverWhenSettled
  BY ExactIsOverWhenSettled DEF OverWhenSettled, PhotosInv
<1>3. TypeOk /\ MessagesInv => RegionsInv
  BY Regions
<1>4. Spec => [](TypeOk /\ MessagesInv)
  BY MessagesInvariant
<1>5. Spec => []PhotosInv
  BY <1>1, PhotosInvariant, PTL
<1>6. Spec => []DeliveryInv
  BY <1>1, DeliveryInvariant
<1>7. Spec => []CountersAreExact
  BY CountersStayExact
<1> QED
  BY <1>2, <1>3, <1>4, <1>5, <1>6, <1>7, PTL

-----------------------------------------------------------------------------
(* That the pipeline runs out of work.                                     *)

\* The files whose job has not been sent; each may still make Sendings messages.
Unsent == {f \in Files : offer[f] \in {"todo", "stored"}}
StreamIsBounded == Len(log) + Sendings * Cardinality(Unsent) <= Sendings * Cardinality(Files)

\* The product of a smaller number is smaller by a factor at least.
LEMMA Multiples ==
  ASSUME NEW s \in Nat, NEW a \in Nat, NEW b \in Nat
  PROVE  /\ b <= a => s * b <= s * a
         /\ b < a => s * b + s <= s * a
         /\ s * a \in Nat
<1>1. s * a \in Nat /\ s * b \in Nat
  OBVIOUS
<1>2. ASSUME b <= a PROVE s * b <= s * a
  <2>1. PICK d \in Nat : a = b + d
    BY <1>2
  <2>2. s * a = s * b + s * d /\ s * d >= 0
    BY <2>1
  <2> QED
    BY <1>1, <2>2
<1>3. ASSUME b < a PROVE s * b + s <= s * a
  <2>1. PICK d \in Nat : a = (b + 1) + d
    BY <1>3
  <2>2. s * a = s * b + s + s * d /\ s * d >= 0
    BY <2>1
  <2> QED
    BY <1>1, <2>2
<1> QED
  BY <1>1, <1>2, <1>3

\* A file is sent once, and then makes at most Sendings messages.
LEMMA SendSteps ==
  ASSUME TypeOk, MessagesInv, [Next]_vars
  PROVE  /\ Unsent' \subseteq Unsent
         /\ \/ log' = log
            \/ /\ Len(log') <= Len(log) + Sendings
               /\ \E f \in Unsent : f \notin Unsent'
<1>1. CASE UNCHANGED <<offer, log>>
  BY <1>1 DEF Unsent
<1>2. ASSUME NEW r \in Requests, NEW f \in FilesOf(r),
             PutOriginal(r, f) \/ RemoveOriginal(r, f) \/ RecordRejection(r, f)
      PROVE  Unsent' \subseteq Unsent /\ log' = log
  BY <1>2 DEF PutOriginal, RemoveOriginal, RecordRejection, streamVars, Unsent, FilesOf, TypeOk
<1>3. ASSUME NEW r \in Requests, NEW f \in FilesOf(r), EnqueueProcessingJob(r, f)
      PROVE  /\ Unsent' \subseteq Unsent
             /\ Len(log') <= Len(log) + Sendings
             /\ f \in Unsent /\ f \notin Unsent'
  <2>1. f \in Files /\ log \in Seq(Files) /\ Len(log) \in Nat
    BY DEF FilesOf, TypeOk
  <2>3. Len(log') <= Len(log) + Sendings
    BY <1>3, <2>1, SentJobs
  <2>4. /\ offer[f] = "stored" /\ offer'[f] \in {"undo", "accepted"}
        /\ \A g \in Files \ {f} : offer'[g] = offer[g]
    BY <1>3, <2>1 DEF EnqueueProcessingJob, TypeOk
  <2> QED
    BY <2>1, <2>3, <2>4 DEF Unsent
<1>4. \/ UNCHANGED <<offer, log>>
      \/ \E r \in Requests : \E f \in FilesOf(r) :
           \/ PutOriginal(r, f) \/ EnqueueProcessingJob(r, f)
           \/ RemoveOriginal(r, f) \/ RecordRejection(r, f)
  <2>1. ASSUME NEW w \in Workers, WorkerStep(w) \/ WorkerCrash(w) PROVE UNCHANGED <<offer, log>>
    BY <2>1, WorkerStays DEF ReadProcessingJobs, requestVars
  <2> QED
    BY <2>1 DEF Next, RequestStep, Refuse, Begin, CountAccepted, RequestCrash, Expire,
                vars, requestVars, streamVars
<1> QED
  BY <1>1, <1>2, <1>3, <1>4

\* In every behaviour the stream holds at most Sendings messages for every file.
LEMMA StreamBound == Spec => [](TypeOk /\ MessagesInv /\ StreamIsBounded)
<1>1. Init => StreamIsBounded
  <2> SUFFICES ASSUME Init PROVE StreamIsBounded
    OBVIOUS
  <2>1. Unsent = Files /\ Len(log) = 0
    BY DEF Init, Unsent
  <2>2. Cardinality(Files) \in Nat
    BY SubsetOfFiles
  <2> QED
    BY <2>1, <2>2, OutcomeAssumption, Multiples DEF StreamIsBounded
<1>2. TypeOk /\ MessagesInv /\ StreamIsBounded /\ [Next]_vars => StreamIsBounded'
  <2> SUFFICES ASSUME TypeOk, MessagesInv, StreamIsBounded, [Next]_vars PROVE StreamIsBounded'
    OBVIOUS
  <2>1. Unsent \subseteq Files
    BY DEF Unsent
  <2>2. Unsent' \subseteq Unsent
    BY SendSteps
  <2>3. /\ IsFiniteSet(Unsent) /\ IsFiniteSet(Unsent')
        /\ Cardinality(Unsent) \in Nat /\ Cardinality(Unsent') \in Nat
        /\ Cardinality(Files) \in Nat /\ Len(log) \in Nat /\ Len(log') \in Nat
        /\ Cardinality(Unsent') <= Cardinality(Unsent)
    BY <2>1, <2>2, SubsetOfFiles, LogGrows
  <2>4. (\E f \in Unsent : f \notin Unsent') => Cardinality(Unsent') < Cardinality(Unsent)
    BY <2>2, <2>3, FS_Subset
  <2>5. \/ Len(log') = Len(log)
        \/ /\ Len(log') <= Len(log) + Sendings
           /\ Cardinality(Unsent') < Cardinality(Unsent)
    BY <2>4, SendSteps
  <2>6. Len(log') + Sendings * Cardinality(Unsent') <= Len(log) + Sendings * Cardinality(Unsent)
    <3> DEFINE a == Cardinality(Unsent)
               b == Cardinality(Unsent')
    <3>1. Sendings \in Nat /\ a \in Nat /\ b \in Nat /\ b <= a
      BY <2>3, OutcomeAssumption
    <3>2. Len(log') = Len(log) \/ (Len(log') <= Len(log) + Sendings /\ b < a)
      BY <2>5
    <3> HIDE DEF a, b
    <3>3. /\ Sendings * b <= Sendings * a
          /\ b < a => Sendings * b + Sendings <= Sendings * a
          /\ Sendings * a \in Nat /\ Sendings * b \in Nat
      BY <3>1, Multiples
    <3>4. Len(log') + Sendings * b <= Len(log) + Sendings * a
      BY <2>3, <3>1, <3>2, <3>3
    <3> QED
      BY <3>4 DEF a, b
  <2>7. /\ Sendings * Cardinality(Unsent) \in Nat /\ Sendings * Cardinality(Unsent') \in Nat
        /\ Sendings * Cardinality(Files) \in Nat
    BY <2>3, OutcomeAssumption, Multiples
  <2> QED
    BY <2>3, <2>6, <2>7 DEF StreamIsBounded
<1>3. Init => TypeOk /\ MessagesInv
  BY InitTypeOk, InitMessages
<1>4. TypeOk /\ MessagesInv /\ [Next]_vars => TypeOk' /\ MessagesInv'
  BY NextTypeAndMessages
<1> QED
  BY <1>1, <1>2, <1>3, <1>4, PTL DEF Spec

\* The stage of a message in w's batch, told by where w is.
LEMMA StageValues ==
  ASSUME NEW w \in Workers, NEW p, worker[w].pc \in WorkerPcs
  PROVE  /\ worker[w].pc = "move" => MessageStage(w, p) = IF p < worker[w].at THEN 2 ELSE 1
         /\ worker[w].pc = "cuda" => MessageStage(w, p) = 3
         /\ worker[w].pc = "watermark" =>
              MessageStage(w, p) = IF p < worker[w].at THEN 6 ELSE 4
         /\ worker[w].pc = "preview" =>
              MessageStage(w, p) = IF p < worker[w].at THEN 6
                                   ELSE IF p = worker[w].at THEN 5 ELSE 4
         /\ worker[w].pc = "remove" => MessageStage(w, p) = IF p <= worker[w].at THEN 6 ELSE 4
         /\ worker[w].pc = "create" => MessageStage(w, p) = 7
         /\ worker[w].pc \in {"completed", "failed"} =>
              MessageStage(w, p) = IF p = worker[w].at THEN 8 ELSE 7
         /\ worker[w].pc = "error" => MessageStage(w, p) = IF p = worker[w].at THEN 9 ELSE 7
         /\ worker[w].pc = "ack" => MessageStage(w, p) = IF p = worker[w].at THEN 10 ELSE 7
         /\ MessageStage(w, p) \in 1..10
  BY DEF MessageStage, WorkerPcs

\* What is left of w's batch gets no further back, and the message w is at further on.
StageRises(w) ==
  \A p \in Held(w)' :
    /\ p \in Held(w)
    /\ MessageStage(w, p)' >= MessageStage(w, p)
    /\ p = worker[w].at => MessageStage(w, p)' > MessageStage(w, p)

\* Where a worker that goes on stands.
LEMMA StageSteps ==
  ASSUME TypeOk, MessagesInv, MessagesInv', TypeOk', NEW w \in Workers,
         WorkerStep(w) \/ WorkerCrash(w), ~ReadProcessingJobs(w)
  PROVE  StageRises(w)
<1> SUFFICES ASSUME NEW p \in Held(w)'
             PROVE  /\ p \in Held(w)
                    /\ MessageStage(w, p)' >= MessageStage(w, p)
                    /\ p = worker[w].at => MessageStage(w, p)' > MessageStage(w, p)
  BY DEF StageRises
<1>1. Busy(w) /\ Busy(w)' /\ last' = last
  BY WorkerStays DEF Held, Busy
<1>3. /\ worker[w].at \in Nat /\ worker[w].lo \in Nat /\ worker[w].hi \in Nat /\ last \in Nat
      /\ worker'[w].at \in Nat /\ worker'[w].lo \in Nat /\ worker'[w].hi \in Nat
      /\ worker[w].pc \in WorkerPcs /\ worker'[w].pc \in WorkerPcs
  BY DEF TypeOk, WorkerRecord
<1>4. p \in Nat /\ p \in 1..last
  BY <1>1, <1>3 DEF Held, Batch, Busy, MessagesInv
<1>5. p \in Held(w) /\ ~(worker[w].pc = "ack" /\ p = worker[w].at)
  BY <1>4, HeldSteps
<1>6. /\ p \in worker[w].lo .. worker[w].hi
      /\ worker[w].pc \in Settling => p >= worker[w].at
      /\ worker[w].lo <= worker[w].at /\ worker[w].at <= worker[w].hi
  BY <1>1, <1>5 DEF Held, Batch, Busy, MessagesInv, Settling
<1> DEFINE a == worker[w].at
           b == worker'[w].at
           s == MessageStage(w, p)
           t == MessageStage(w, p)'
<1>7. /\ worker[w].pc = "move" => s = IF p < a THEN 2 ELSE 1
      /\ worker[w].pc = "cuda" => s = 3
      /\ worker[w].pc = "watermark" => s = IF p < a THEN 6 ELSE 4
      /\ worker[w].pc = "preview" => s = IF p < a THEN 6 ELSE IF p = a THEN 5 ELSE 4
      /\ worker[w].pc = "remove" => s = IF p <= a THEN 6 ELSE 4
      /\ worker[w].pc = "create" => s = 7
      /\ worker[w].pc \in {"completed", "failed"} => s = IF p = a THEN 8 ELSE 7
      /\ worker[w].pc = "error" => s = IF p = a THEN 9 ELSE 7
      /\ worker[w].pc = "ack" => s = IF p = a THEN 10 ELSE 7
  BY <1>3, StageValues
<1>8. /\ worker'[w].pc = "move" => t = IF p < b THEN 2 ELSE 1
      /\ worker'[w].pc = "cuda" => t = 3
      /\ worker'[w].pc = "watermark" => t = IF p < b THEN 6 ELSE 4
      /\ worker'[w].pc = "preview" => t = IF p < b THEN 6 ELSE IF p = b THEN 5 ELSE 4
      /\ worker'[w].pc = "remove" => t = IF p <= b THEN 6 ELSE 4
      /\ worker'[w].pc = "create" => t = 7
      /\ worker'[w].pc \in {"completed", "failed"} => t = IF p = b THEN 8 ELSE 7
      /\ worker'[w].pc = "error" => t = IF p = b THEN 9 ELSE 7
      /\ worker'[w].pc = "ack" => t = IF p = b THEN 10 ELSE 7
  BY <1>3 DEF MessageStage, WorkerPcs
<1> HIDE DEF s, t
<1> SUFFICES t >= s /\ (p = a => t > s)
  BY <1>5 DEF s, t
<1>9. ASSUME NEW pc \in {"cuda", "watermark", "failed", "create"}, NEW ok \in BOOLEAN,
             FromFirst(w, pc, ok)
      PROVE  worker'[w].pc = pc /\ b = worker[w].lo
  BY <1>1, <1>9, FromFirstMoves DEF WorkerPcs
<1>10. ASSUME NEW pc \in {"preview", "remove", "completed", "failed", "error", "ack"},
              GoOn(w, pc)
       PROVE  worker'[w].pc = pc /\ b = a
  BY <1>1, <1>10, GoOnMoves DEF WorkerPcs
<1>11. ASSUME NEW pc \in {"move", "watermark", "create", "failed"}, HasNext(w), Advance(w, pc)
       PROVE  worker'[w].pc = pc /\ b = a + 1
  BY <1>1, <1>11, AdvanceMoves DEF WorkerPcs
<1>12. CASE MoveJobToProcessing(w)
  <2>1. worker[w].pc = "move"
    BY <1>12 DEF MoveJobToProcessing
  <2>2. \/ worker'[w].pc = "move" /\ b = a + 1
        \/ /\ worker'[w].pc \in {"cuda", "watermark"} /\ b = worker[w].lo
    BY <1>9, <1>11, <1>12 DEF MoveJobToProcessing, Selected
  <2> QED
    BY <1>3, <1>4, <1>6, <1>7, <1>8, <2>1, <2>2
<1>13. CASE CudaSucceeds(w) \/ CudaFails(w)
  <2>1. worker[w].pc = "cuda"
    BY <1>13 DEF CudaSucceeds, CudaFails
  <2>2. worker'[w].pc \in {"create", "watermark", "failed"} /\ b = worker[w].lo
    BY <1>9, <1>13 DEF CudaSucceeds, CudaFails
  <2> QED
    BY <1>3, <1>4, <1>6, <1>7, <1>8, <2>1, <2>2
<1>14. CASE PutWatermarked(w)
  <2>1. worker[w].pc = "watermark"
    BY <1>14 DEF PutWatermarked
  <2>2. \/ worker'[w].pc = "preview" /\ b = a
        \/ worker'[w].pc = "failed" /\ b = worker[w].lo
    BY <1>9, <1>10, <1>14 DEF PutWatermarked
  <2> QED
    BY <1>3, <1>4, <1>6, <1>7, <1>8, <2>1, <2>2
<1>15. CASE PutPreview(w)
  <2>1. worker[w].pc = "preview"
    BY <1>15 DEF PutPreview
  <2>2. \/ worker'[w].pc = "watermark" /\ b = a + 1
        \/ worker'[w].pc = "remove" /\ b = a
        \/ worker'[w].pc = "create" /\ b = worker[w].lo
    BY <1>9, <1>10, <1>11, <1>15 DEF PutPreview
  <2> QED
    BY <1>3, <1>4, <1>6, <1>7, <1>8, <2>1, <2>2
<1>20. CASE RemoveWatermarked(w)
  <2>1. worker[w].pc = "remove" /\ worker'[w].pc = "failed" /\ b = worker[w].lo
    BY <1>9, <1>20 DEF RemoveWatermarked
  <2> QED
    BY <1>3, <1>4, <1>6, <1>7, <1>8, <2>1
<1>16. CASE CreatePhoto(w)
  <2>1. worker[w].pc = "create"
    BY <1>16 DEF CreatePhoto
  <2>2. worker'[w].pc \in {"completed", "failed"} /\ b = a
    BY <1>10, <1>16 DEF CreatePhoto, AfterCreate
  <2> QED
    BY <1>3, <1>4, <1>6, <1>7, <1>8, <2>1, <2>2
<1>17. CASE MoveToCompleted(w) \/ MoveToFailed(w)
  <2>1. worker[w].pc \in {"completed", "failed"}
    BY <1>17 DEF MoveToCompleted, MoveToFailed
  <2>2. worker'[w].pc \in {"error", "ack"} /\ b = a
    BY <1>10, <1>17 DEF MoveToCompleted, MoveToFailed
  <2> QED
    BY <1>3, <1>4, <1>6, <1>7, <1>8, <2>1, <2>2
<1>21. CASE RecordFailure(w)
  <2>1. worker[w].pc = "error" /\ worker'[w].pc = "ack" /\ b = a
    BY <1>10, <1>21 DEF RecordFailure
  <2> QED
    BY <1>3, <1>4, <1>6, <1>7, <1>8, <2>1
<1>18. CASE AckProcessingJob(w)
  <2>1. worker[w].pc = "ack" /\ p # a
    BY <1>5, <1>18 DEF AckProcessingJob
  <2>2. worker'[w].pc \in {"create", "failed"} /\ b = a + 1
    BY <1>1, <1>11, <1>18 DEF AckProcessingJob, IdleWorker, Busy, TypeOk
  <2> QED
    BY <1>3, <1>4, <1>6, <1>7, <1>8, <2>1, <2>2
<1>19. ~WorkerCrash(w)
  BY <1>1 DEF WorkerCrash, IdleWorker, Busy, TypeOk
<1> QED
  BY <1>12, <1>13, <1>14, <1>15, <1>16, <1>17, <1>18, <1>19, <1>20, <1>21 DEF WorkerStep

\* The requests and files go only forward, and a step of a handler moves one of them.
LEMMA RequestWorkSteps ==
  ASSUME TypeOk, MessagesInv, [Next]_vars
  PROVE  /\ FileWork' \subseteq FileWork /\ RequestWork' \subseteq RequestWork
         /\ \A r \in Requests : RequestStep(r) \/ RequestCrash(r) =>
              FileWork' # FileWork \/ RequestWork' # RequestWork
<1>1. /\ \A f \in Files : /\ offer[f] = "todo" <=> FileStage(f) = 0
                          /\ offer[f] = "stored" <=> FileStage(f) = 1
                          /\ offer[f] = "undo" <=> FileStage(f) = 2
                          /\ offer[f] = "failing" <=> FileStage(f) = 3
                          /\ FileStage(f) \in 0..4
      /\ \A r \in Requests : /\ rpc[r] = "start" <=> RequestStage(r) = 0
                             /\ rpc[r] = "loop" <=> RequestStage(r) = 1
                             /\ RequestStage(r) \in 0..2
  BY DEF FileStage, RequestStage
<1>2. /\ \A f \in Files : /\ offer'[f] = "todo" <=> FileStage(f)' = 0
                          /\ offer'[f] = "stored" <=> FileStage(f)' = 1
                          /\ offer'[f] = "undo" <=> FileStage(f)' = 2
                          /\ offer'[f] = "failing" <=> FileStage(f)' = 3
                          /\ FileStage(f)' \in 0..4
      /\ \A r \in Requests : /\ rpc'[r] = "start" <=> RequestStage(r)' = 0
                             /\ rpc'[r] = "loop" <=> RequestStage(r)' = 1
                             /\ RequestStage(r)' \in 0..2
  BY DEF FileStage, RequestStage
<1>3. ASSUME NEW r \in Requests, RequestStep(r) \/ RequestCrash(r)
      PROVE  /\ \A f \in Files : FileStage(f)' >= FileStage(f)
             /\ \A q \in Requests : RequestStage(q)' >= RequestStage(q)
             /\ \/ \E f \in Files : FileStage(f)' > FileStage(f)
                \/ RequestStage(r)' > RequestStage(r)
  <2>1. CASE \E f \in FilesOf(r) :
               \/ PutOriginal(r, f) \/ EnqueueProcessingJob(r, f)
               \/ RemoveOriginal(r, f) \/ RecordRejection(r, f)
    <3>1. PICK f \in FilesOf(r) :
            \/ PutOriginal(r, f) \/ EnqueueProcessingJob(r, f)
            \/ RemoveOriginal(r, f) \/ RecordRejection(r, f)
      BY <2>1
    <3>2. /\ f \in Files /\ rpc' = rpc
          /\ \A g \in Files \ {f} : offer'[g] = offer[g]
          /\ \/ offer[f] = "todo" /\ offer'[f] \in {"failing", "stored"}
             \/ offer[f] = "stored" /\ offer'[f] \in {"undo", "accepted"}
             \/ offer[f] = "undo" /\ offer'[f] = "failing"
             \/ offer[f] = "failing" /\ offer'[f] = "rejected"
      BY <3>1 DEF FilesOf, PutOriginal, EnqueueProcessingJob, RemoveOriginal,
                  RecordRejection, TypeOk
    <3>3. FileStage(f)' > FileStage(f)
      BY <1>1, <1>2, <3>2
    <3>4. \A g \in Files \ {f} : FileStage(g)' = FileStage(g)
      BY <3>2 DEF FileStage
    <3>5. \A q \in Requests : RequestStage(q)' = RequestStage(q)
      BY <3>2 DEF RequestStage
    <3>6. \A g \in Files : FileStage(g)' >= FileStage(g)
      BY <1>1, <1>2, <3>3, <3>4
    <3>7. \A q \in Requests : RequestStage(q)' >= RequestStage(q)
      BY <1>1, <3>5
    <3> QED
      BY <3>2, <3>3, <3>6, <3>7
  <2>2. CASE Refuse(r) \/ Begin(r) \/ CountAccepted(r) \/ RequestCrash(r)
    <3>1. /\ offer' = offer
          /\ \A q \in Requests \ {r} : rpc'[q] = rpc[q]
          /\ \/ rpc[r] = "start" /\ rpc'[r] # "start"
             \/ rpc[r] = "loop" /\ rpc'[r] \notin {"start", "loop"}
      BY <2>2 DEF Refuse, Begin, CountAccepted, RequestCrash, requestVars, TypeOk
    <3>2. RequestStage(r)' > RequestStage(r)
      BY <1>1, <1>2, <3>1
    <3>3. \A q \in Requests \ {r} : RequestStage(q)' = RequestStage(q)
      BY <3>1 DEF RequestStage
    <3>4. \A f \in Files : FileStage(f)' = FileStage(f)
      BY <3>1 DEF FileStage
    <3>5. \A q \in Requests : RequestStage(q)' >= RequestStage(q)
      BY <1>1, <1>2, <3>2, <3>3
    <3>6. \A f \in Files : FileStage(f)' >= FileStage(f)
      BY <1>1, <3>4
    <3> QED
      BY <3>2, <3>5, <3>6
  <2> QED
    BY <1>3, <2>1, <2>2 DEF RequestStep
<1>4. \/ UNCHANGED requestVars
      \/ \E r \in Requests : RequestStep(r) \/ RequestCrash(r)
  <2>1. ASSUME NEW w \in Workers, WorkerStep(w) \/ WorkerCrash(w) PROVE UNCHANGED requestVars
    BY <2>1, WorkerStays DEF ReadProcessingJobs
  <2> QED
    BY <2>1 DEF Next, Expire, vars
<1>5. /\ \A f \in Files : FileStage(f)' >= FileStage(f)
      /\ \A q \in Requests : RequestStage(q)' >= RequestStage(q)
  <2>1. CASE UNCHANGED requestVars
    BY <1>1, <2>1 DEF FileStage, RequestStage, requestVars
  <2> QED
    BY <1>3, <1>4, <2>1
<1>6. FileWork' \subseteq FileWork /\ RequestWork' \subseteq RequestWork
  <2>1. ASSUME NEW f \in Files, NEW k \in 1..4, k > FileStage(f)' PROVE k > FileStage(f)
    BY <1>1, <1>2, <1>5, <2>1
  <2>2. ASSUME NEW q \in Requests, NEW k \in 1..2, k > RequestStage(q)'
        PROVE  k > RequestStage(q)
    BY <1>1, <1>2, <1>5, <2>2
  <2> QED
    BY <2>1, <2>2 DEF FileWork, RequestWork
<1>7. ASSUME NEW r \in Requests, RequestStep(r) \/ RequestCrash(r)
      PROVE  FileWork' # FileWork \/ RequestWork' # RequestWork
  <2>1. ASSUME NEW f \in Files, FileStage(f)' > FileStage(f) PROVE FileWork' # FileWork
    <3>1. PICK k \in 1..4 : k = FileStage(f) + 1
      BY <1>1, <1>2, <2>1
    <3> DEFINE x == <<f, k>>
    <3>2. x \in FileWork
      BY <1>1, <3>1 DEF FileWork
    <3>3. x \notin FileWork'
      BY <1>1, <1>2, <2>1, <3>1 DEF FileWork
    <3> QED
      BY <3>2, <3>3
  <2>2. ASSUME RequestStage(r)' > RequestStage(r) PROVE RequestWork' # RequestWork
    <3>1. PICK k \in 1..2 : k = RequestStage(r) + 1
      BY <1>1, <1>2, <2>2
    <3> DEFINE x == <<r, k>>
    <3>2. x \in RequestWork
      BY <1>1, <3>1 DEF RequestWork
    <3>3. x \notin RequestWork'
      BY <1>1, <1>2, <2>2, <3>1 DEF RequestWork
    <3> QED
      BY <3>2, <3>3
  <2> QED
    BY <1>3, <1>7, <2>1, <2>2
<1> QED
  BY <1>6, <1>7

\* The messages go only forward, and a step of a worker moves one of them.
LEMMA MessageWorkSteps ==
  ASSUME TypeOk, MessagesInv, StreamIsBounded, TypeOk', MessagesInv', [Next]_vars
  PROVE  /\ MessageWork' \subseteq MessageWork
         /\ \A w \in Workers : WorkerStep(w) \/ WorkerCrash(w) => MessageWork' # MessageWork
<1> DEFINE M == 1..(Sendings * Cardinality(Files))
<1>1. last \in Nat /\ last' \in Nat /\ Len(log) \in Nat /\ last <= Len(log)
  BY DEF TypeOk
<1>2. 1..Len(log) \subseteq M
  <2>1. Unsent \subseteq Files
    BY DEF Unsent
  <2>2. Cardinality(Unsent) \in Nat /\ Cardinality(Files) \in Nat
    BY <2>1, SubsetOfFiles
  <2> QED
    BY <1>1, <2>2, OutcomeAssumption, Multiples DEF StreamIsBounded
<1> HIDE DEF M
<1>3. \A x : x \in MessageWork <=>
        /\ x \in M \X (1..11)
        /\ x[1] > last \/ \E w \in Workers : x[1] \in Held(w) /\ x[2] > MessageStage(w, x[1])
  BY DEF MessageWork, M
<1>4. \A x : x \in MessageWork' <=>
        /\ x \in M \X (1..11)
        /\ \/ x[1] > last'
           \/ \E w \in Workers : x[1] \in Held(w)' /\ x[2] > MessageStage(w, x[1])'
  BY DEF MessageWork, M
<1>5. /\ \A w \in Workers : \A p : MessageStage(w, p) \in 1..10
      /\ \A w \in Workers : \A p : MessageStage(w, p)' \in 1..10
  BY DEF MessageStage
<1>6. HeldByOneWorker
  BY HeldApart
<1>7. CASE UNCHANGED <<worker, last>>
  <2>1. MessageWork' = MessageWork
    BY <1>7 DEF MessageWork, Held, Batch, MessageStage
  <2>2. ASSUME NEW w \in Workers, WorkerStep(w) \/ WorkerCrash(w) PROVE FALSE
    <3>1. CASE ReadProcessingJobs(w)
      BY <1>1, <1>7, <3>1, ReadMoves
    <3>2. CASE ~ReadProcessingJobs(w)
      <4>1. StageRises(w) /\ Busy(w)
        BY <2>2, <3>2, StageSteps, WorkerStays
      <4>2. PICK p : p = worker[w].at
        OBVIOUS
      <4>3. p \in Held(w)
        BY <4>1, <4>2 DEF Held, Batch, Busy, MessagesInv, TypeOk, WorkerRecord
      <4>4. Held(w)' = Held(w) /\ MessageStage(w, p)' = MessageStage(w, p)
        BY <1>7 DEF Held, Batch, MessageStage
      <4> QED
        BY <1>5, <4>1, <4>2, <4>3, <4>4 DEF StageRises
    <3> QED
      BY <3>1, <3>2
  <2> QED
    BY <2>1, <2>2
<1>8. ASSUME NEW w \in Workers, WorkerStep(w) \/ WorkerCrash(w)
      PROVE  MessageWork' \subseteq MessageWork /\ MessageWork' # MessageWork
  <2>1. \A v \in Workers \ {w} : /\ Held(v)' = Held(v)
                                 /\ \A p : MessageStage(v, p)' = MessageStage(v, p)
    <3>1. \A v \in Workers \ {w} : worker'[v] = worker[v]
      BY <1>8, PcSteps
    <3> QED
      BY <3>1 DEF Held, Batch, MessageStage
  <2>2. CASE ReadProcessingJobs(w)
    <3>1. last' \in (last + 1) .. Len(log)
      BY <2>2, ReadMoves
    <3>2. \/ worker' = worker
          \/ worker'[w] = [pc |-> "move", lo |-> last + 1, hi |-> last',
                           at |-> last + 1, batchOk |-> TRUE]
      BY <2>2, ReadMoves
    <3>3. ~Busy(w)
      BY <2>2, ReadMoves
    <3>4. Held(w)' = {} \/ (Held(w)' \subseteq (last + 1)..last' /\ worker'[w].pc = "move"
                             /\ worker'[w].at = last + 1)
      BY <3>2, <3>3 DEF Held, Batch, Busy
    <3>5. \A p \in Held(w)' : p > last
      BY <1>1, <3>4
    <3>6. MessageWork' \subseteq MessageWork
      <4> SUFFICES ASSUME NEW x \in MessageWork' PROVE x \in MessageWork
        OBVIOUS
      <4>1. x \in M \X (1..11) /\ x[1] \in Int
        BY <1>4 DEF M
      <4>2. CASE x[1] > last'
        BY <1>1, <1>3, <3>1, <4>1, <4>2
      <4>3. CASE x[1] \in Held(w)'
        BY <1>3, <3>5, <4>1, <4>3
      <4>4. ASSUME NEW v \in Workers \ {w}, x[1] \in Held(v)', x[2] > MessageStage(v, x[1])'
            PROVE  x \in MessageWork
        BY <1>3, <2>1, <4>1, <4>4
      <4> QED
        BY <1>4, <4>2, <4>3, <4>4
    <3>7. MessageWork' # MessageWork
      <4>1. PICK x \in M \X (1..11) : x[1] = last + 1 /\ x[2] = 1
        <5>1. <<last + 1, 1>> \in M \X (1..11)
          BY <1>1, <1>2, <3>1
        <5> QED
          BY <5>1
      <4>2. x \in MessageWork
        BY <1>1, <1>3, <4>1
      <4>3. ~(x[1] > last')
        BY <1>1, <3>1, <4>1
      <4>4. \A v \in Workers : ~(x[2] > MessageStage(v, x[1])')
        BY <1>5, <4>1
      <4> QED
        BY <1>4, <4>2, <4>3, <4>4
    <3> QED
      BY <3>6, <3>7
  <2>3. CASE ~ReadProcessingJobs(w)
    <3>1. StageRises(w) /\ Busy(w) /\ last' = last
      BY <1>8, <2>3, StageSteps, WorkerStays
    <3>2. MessageWork' \subseteq MessageWork
      <4> SUFFICES ASSUME NEW x \in MessageWork' PROVE x \in MessageWork
        OBVIOUS
      <4>1. x \in M \X (1..11) /\ x[2] \in Int
        BY <1>4
      <4>2. CASE x[1] > last'
        BY <1>3, <3>1, <4>1, <4>2
      <4>3. CASE x[1] \in Held(w)' /\ x[2] > MessageStage(w, x[1])'
        <5>1. x[1] \in Held(w) /\ MessageStage(w, x[1])' >= MessageStage(w, x[1])
          BY <3>1, <4>3 DEF StageRises
        <5>2. x[2] > MessageStage(w, x[1])
          BY <1>5, <4>1, <4>3, <5>1
        <5> QED
          BY <1>3, <4>1, <5>1, <5>2
      <4>4. ASSUME NEW v \in Workers \ {w}, x[1] \in Held(v)', x[2] > MessageStage(v, x[1])'
            PROVE  x \in MessageWork
        BY <1>3, <2>1, <4>1, <4>4
      <4> QED
        BY <1>4, <4>2, <4>3, <4>4
    <3>3. MessageWork' # MessageWork
      <4>1. PICK p : p = worker[w].at
        OBVIOUS
      <4>2. p \in Held(w)
        BY <3>1, <4>1 DEF Held, Batch, Busy, MessagesInv, TypeOk, WorkerRecord
      <4>3. p \in 1..last /\ \A v \in Workers \ {w} : p \notin Held(v)
        BY <1>6, <4>2 DEF HeldByOneWorker
      <4>4. PICK k \in 1..11 : k = MessageStage(w, p) + 1
        BY <1>5
      <4>5. PICK x \in M \X (1..11) : x[1] = p /\ x[2] = k
        <5>1. <<p, k>> \in M \X (1..11)
          BY <1>1, <1>2, <4>3
        <5> QED
          BY <5>1
      <4>9. p \in Held(w)' => ~(k > MessageStage(w, p)')
        BY <1>5, <3>1, <4>1, <4>4 DEF StageRises
      <4>6. x \in MessageWork
        BY <1>3, <1>5, <4>2, <4>4, <4>5
      <4>7. ~(x[1] > last')
        BY <1>1, <3>1, <4>3, <4>5
      <4>8. \A v \in Workers : ~(x[1] \in Held(v)' /\ x[2] > MessageStage(v, x[1])')
        BY <2>1, <4>3, <4>5, <4>9
      <4> QED
        BY <1>4, <4>6, <4>7, <4>8
    <3> QED
      BY <3>2, <3>3
  <2> QED
    BY <2>2, <2>3
<1>9. UNCHANGED <<worker, last>> \/ \E w \in Workers : WorkerStep(w) \/ WorkerCrash(w)
  BY DEF Next, vars, streamVars, RequestStep, Refuse, Begin, PutOriginal,
         EnqueueProcessingJob, RemoveOriginal, RecordRejection, CountAccepted,
         RequestCrash, Expire
<1> QED
  BY <1>7, <1>8, <1>9

\* The work there is at most is finite.
LEMMA WorkIsFinite ==
  ASSUME IsFiniteSet(Requests)
  PROVE  /\ IsFiniteSet(FileWork) /\ IsFiniteSet(RequestWork) /\ IsFiniteSet(MessageWork)
         /\ Cardinality(FileWork) \in Nat /\ Cardinality(RequestWork) \in Nat
         /\ Cardinality(MessageWork) \in Nat
         /\ Cardinality(FileWork) <= 4 * Cardinality(Files)
         /\ Cardinality(RequestWork) <= 2 * Cardinality(Requests)
         /\ Cardinality(MessageWork) <= (Sendings * Cardinality(Files)) * 11
<1> DEFINE n == Sendings * Cardinality(Files)
           M == 1..n
<1> HIDE DEF M
<1>1. Cardinality(Files) \in Nat /\ Cardinality(Requests) \in Nat /\ IsFiniteSet(Files)
  BY ActorsAssumption, FS_CardinalityType
<1>2. /\ IsFiniteSet(1..2) /\ Cardinality(1..2) = 2
      /\ IsFiniteSet(1..4) /\ Cardinality(1..4) = 4
      /\ IsFiniteSet(1..11) /\ Cardinality(1..11) = 11
      /\ IsFiniteSet(M) /\ Cardinality(M) = n
  <2>1. \A k \in Nat : IsFiniteSet(1..k) /\ Cardinality(1..k) = k
    BY FS_Interval
  <2>2. 2 \in Nat /\ 4 \in Nat /\ 11 \in Nat
    OBVIOUS
  <2>3. n \in Nat
    BY <1>1, OutcomeAssumption, Multiples
  <2> HIDE DEF n
  <2> QED
    BY <2>1, <2>2, <2>3 DEF M
<1> HIDE DEF n
<1>3. /\ IsFiniteSet(Files \X (1..4)) /\ Cardinality(Files \X (1..4)) = Cardinality(Files) * 4
      /\ IsFiniteSet(Requests \X (1..2))
      /\ Cardinality(Requests \X (1..2)) = Cardinality(Requests) * 2
      /\ IsFiniteSet(M \X (1..11)) /\ Cardinality(M \X (1..11)) = Cardinality(M) * 11
  <2>1. \A S, T : IsFiniteSet(S) /\ IsFiniteSet(T) =>
          IsFiniteSet(S \X T) /\ Cardinality(S \X T) = Cardinality(S) * Cardinality(T)
    BY FS_Product
  <2>2. /\ IsFiniteSet(Files \X (1..4)) /\ Cardinality(Files \X (1..4)) = Cardinality(Files) * 4
    BY <1>1, <1>2, <2>1
  <2>3. /\ IsFiniteSet(Requests \X (1..2))
        /\ Cardinality(Requests \X (1..2)) = Cardinality(Requests) * 2
    BY <1>2, <2>1
  <2>4. IsFiniteSet(M \X (1..11)) /\ Cardinality(M \X (1..11)) = Cardinality(M) * 11
    BY <1>2, <2>1
  <2> QED
    BY <2>2, <2>3, <2>4
<1>4. /\ FileWork \subseteq Files \X (1..4) /\ RequestWork \subseteq Requests \X (1..2)
      /\ MessageWork \subseteq M \X (1..11)
  BY DEF FileWork, RequestWork, MessageWork, M, n
<1>5. /\ IsFiniteSet(FileWork) /\ IsFiniteSet(RequestWork) /\ IsFiniteSet(MessageWork)
      /\ Cardinality(FileWork) <= Cardinality(Files \X (1..4))
      /\ Cardinality(RequestWork) <= Cardinality(Requests \X (1..2))
      /\ Cardinality(MessageWork) <= Cardinality(M \X (1..11))
  BY <1>3, <1>4, FS_Subset
<1>6. /\ Cardinality(FileWork) \in Nat /\ Cardinality(RequestWork) \in Nat
      /\ Cardinality(MessageWork) \in Nat
  BY <1>5, FS_CardinalityType
<1> QED
  BY <1>1, <1>2, <1>3, <1>5, <1>6 DEF n

\* A set that shrinks has fewer elements, or as many and stays.
LEMMA Shrinks ==
  ASSUME NEW A, NEW B, B \subseteq A, IsFiniteSet(A), IsFiniteSet(B)
  PROVE  Cardinality(B) <= Cardinality(A) /\ (B # A => Cardinality(B) < Cardinality(A))
<1>1. Cardinality(A) \in Nat /\ Cardinality(B) \in Nat
  BY FS_CardinalityType
<1> QED
  BY <1>1, FS_Subset

\* Four stages for every file, eleven for each of its messages, two for every request.
WorkAtMost == 4 * Cardinality(Files) + 11 * (Sendings * Cardinality(Files))
                + 2 * Cardinality(Requests)

\* Whatever fails, is answered late or twice, and whoever dies: the pipeline is never
\* more than so many steps from its end, and each step takes it closer.
THEOREM PipelineRunsOutOfWork ==
  ASSUME ~StatusExpires, IsFiniteSet(Requests)
  PROVE  Spec => /\ [](WorkLeft \in 0..WorkAtMost)
                 /\ EveryStepIsWork
<1>1. WorkLeft \in 0..WorkAtMost
  <2> DEFINE n == Sendings * Cardinality(Files)
  <2>1. Cardinality(Files) \in Nat /\ Cardinality(Requests) \in Nat /\ n \in Nat
    BY ActorsAssumption, OutcomeAssumption, FS_CardinalityType, Multiples
  <2>2. /\ Cardinality(FileWork) \in Nat /\ Cardinality(RequestWork) \in Nat
        /\ Cardinality(MessageWork) \in Nat
        /\ Cardinality(FileWork) <= 4 * Cardinality(Files)
        /\ Cardinality(RequestWork) <= 2 * Cardinality(Requests)
        /\ Cardinality(MessageWork) <= n * 11
    BY WorkIsFinite
  <2>3. WorkAtMost = 4 * Cardinality(Files) + 11 * n + 2 * Cardinality(Requests)
    BY DEF WorkAtMost
  <2> HIDE DEF n
  <2> QED
    BY <2>1, <2>2, <2>3 DEF WorkLeft
<1>2. TypeOk /\ MessagesInv /\ StreamIsBounded /\ [Next]_vars => [WorkLeft' < WorkLeft]_vars
  <2> SUFFICES ASSUME TypeOk, MessagesInv, StreamIsBounded, [Next]_vars, ~UNCHANGED vars
               PROVE  WorkLeft' < WorkLeft
    OBVIOUS
  <2>1. TypeOk' /\ MessagesInv'
    BY NextTypeAndMessages
  <2>2. /\ FileWork' \subseteq FileWork /\ RequestWork' \subseteq RequestWork
        /\ MessageWork' \subseteq MessageWork
    BY <2>1, RequestWorkSteps, MessageWorkSteps
  <2>3. FileWork' # FileWork \/ RequestWork' # RequestWork \/ MessageWork' # MessageWork
    <3>1. \/ \E r \in Requests : RequestStep(r) \/ RequestCrash(r)
          \/ \E w \in Workers : WorkerStep(w) \/ WorkerCrash(w)
      BY DEF Next, Expire
    <3> QED
      BY <2>1, <3>1, RequestWorkSteps, MessageWorkSteps
  <2>4. /\ IsFiniteSet(FileWork) /\ IsFiniteSet(RequestWork) /\ IsFiniteSet(MessageWork)
        /\ Cardinality(FileWork) \in Nat /\ Cardinality(RequestWork) \in Nat
        /\ Cardinality(MessageWork) \in Nat
    BY WorkIsFinite
  <2>5. /\ IsFiniteSet(FileWork') /\ IsFiniteSet(RequestWork') /\ IsFiniteSet(MessageWork')
        /\ Cardinality(FileWork') \in Nat /\ Cardinality(RequestWork') \in Nat
        /\ Cardinality(MessageWork') \in Nat
    BY <2>2, <2>4, FS_Subset, FS_CardinalityType
  <2>6. /\ Cardinality(FileWork') <= Cardinality(FileWork)
        /\ FileWork' # FileWork => Cardinality(FileWork') < Cardinality(FileWork)
    BY <2>2, <2>4, <2>5, Shrinks
  <2>7. /\ Cardinality(RequestWork') <= Cardinality(RequestWork)
        /\ RequestWork' # RequestWork => Cardinality(RequestWork') < Cardinality(RequestWork)
    BY <2>2, <2>4, <2>5, Shrinks
  <2>8. /\ Cardinality(MessageWork') <= Cardinality(MessageWork)
        /\ MessageWork' # MessageWork => Cardinality(MessageWork') < Cardinality(MessageWork)
    BY <2>2, <2>4, <2>5, Shrinks
  <2> QED
    BY <2>3, <2>4, <2>5, <2>6, <2>7, <2>8 DEF WorkLeft
<1>3. Spec => [](TypeOk /\ MessagesInv /\ StreamIsBounded)
  BY StreamBound
<1> QED
  BY <1>1, <1>2, <1>3, PTL DEF Spec, EveryStepIsWork
=============================================================================

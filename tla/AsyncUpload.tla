---------------------------- MODULE AsyncUpload ----------------------------
(***************************************************************************)
(* The asynchronous upload pipeline: EnqueueUploads (one request handler   *)
(* per chunk of files), the Redis stream and status hash it writes, and    *)
(* the background workers that turn a job into a photo.                    *)
(*                                                                         *)
(* A file stands for everything the request makes for it: its photoID, its *)
(* three object keys and its ProcessingJob.  A message of the stream is a  *)
(* position of log, so a job that XADD wrote twice is two messages.        *)
(*                                                                         *)
(* Every call that leaves the process has an outcome: it may be applied or *)
(* not, and it may report an error or not, independently.  Outcome gives,  *)
(* call by call, the outcomes a run admits.                                *)
(***************************************************************************)
EXTENDS Integers, Sequences, FiniteSets

CONSTANTS
  Files,          \* the files the clients send
  Requests,       \* one POST .../photos each
  Uploads,        \* the upload ids (statusKey)
  Workers,        \* the goroutines that run AsyncProcessingWorker.Run
  ReqOf,          \* the request a file comes with
  UploadOf,       \* the upload id of a request; chunks may share one
  Authorised,     \* the requests whose competition, role and stage are in order
  ChunkMaxFiles,  \* cfg.PhotoUploadChunkMaxFiles
  BatchSize,      \* cfg.ImageProcessingWorkerBatchSize
  Mode,           \* cfg.PhotoProcessorMode
  Undecodable,    \* the files the local image processor cannot decode
  Outcome,        \* for each external call, the outcomes it may have
  Sendings,       \* how often the Redis client sends a command: MaxRetries + 1
  MayCrash,       \* the workers and requests whose process may die
  StatusExpires   \* whether a status hash may outlive its TTL

Calls == {"xadd", "read", "hash", "ack", "put", "remove", "create", "cuda"}
OutcomeKinds == {"ok", "fail", "lostReply", "retried", "retriedLost"}

\* The Redis client sends again what the server may have executed already, and
\* gives up in the end: what a call with outcome o leaves, given what it leaves
\* executed not at all, once and again.
Retried == {"retried", "retriedLost"}
Result(o, none, once, again) ==
  IF o = "fail" THEN none ELSE IF o \in Retried THEN again ELSE once
Applied(o) == o # "fail"
Errs(o) == o \in {"fail", "lostReply", "retriedLost"}

ASSUME ActorsAssumption ==
  /\ ReqOf \in [Files -> Requests]
  /\ UploadOf \in [Requests -> Uploads]
  /\ IsFiniteSet(Files)
  /\ Authorised \subseteq Requests
  /\ Undecodable \subseteq Files
ASSUME ConfigAssumption ==
  /\ BatchSize \in Nat \ {0}
  /\ ChunkMaxFiles \in Nat
  /\ Mode \in {"local", "cuda", "auto"}
  /\ StatusExpires \in BOOLEAN
ASSUME OutcomeAssumption ==
  /\ Outcome \in [Calls -> SUBSET OutcomeKinds]
  /\ \A c \in Calls : "ok" \in Outcome[c]
  /\ Retried \cap (Outcome["read"] \cup Outcome["create"]) = {}
  /\ Sendings \in Nat
  /\ Sendings >= 2

VARIABLES
  rpc,          \* where each request handler is
  offer,        \* what became of each file in its request
  log,          \* the stream photo:processing, in XADD order, never trimmed
  last,         \* the group's last-delivered message
  acked,        \* the messages the group no longer holds as pending
  hash,         \* photo:upload:<id>:status
  errs,         \* the files with an entry in photo:upload:<id>:errors
  original, watermarked, preview,  \* the objects in MinIO
  rows,         \* the photos, each with its three photo_versions
  worker        \* the local state of each worker

requestVars == <<rpc, offer>>
streamVars == <<log, last, acked>>
statusVars == <<hash, errs>>
storeVars == <<original, watermarked, preview>>
vars == <<requestVars, streamVars, statusVars, storeVars, rows, worker>>

FilesOf(r) == {f \in Files : ReqOf[f] = r}
UploadOfFile(f) == UploadOf[ReqOf[f]]
FilesOfUpload(u) == {f \in Files : UploadOfFile(f) = u}
Accepted(r) == {f \in FilesOf(r) : offer[f] = "accepted"}

-----------------------------------------------------------------------------
(* The status hash, one operator per transaction of UploadQueue, with the   *)
(* delta n it adds; executed k times with 1, it is executed with k.        *)

StatusRecord == [status : {"", "queued", "processing"}, total : Int, uploaded : Int,
                 queued : Int, processing : Int, completed : Int, failed : Int]

\* A missing key: every field reads as zero, the status as the empty string.
Absent == [status |-> "", total |-> 0, uploaded |-> 0, queued |-> 0,
           processing |-> 0, completed |-> 0, failed |-> 0]

InitUploadStatus(h) == [h EXCEPT !.status = IF @ = "" THEN "queued" ELSE @]

AddUploadCounters(h, n) ==
  [h EXCEPT !.uploaded = @ + n, !.queued = @ + n, !.total = @ + n, !.status = "queued"]

MoveQueuedToProcessing(h, n) ==
  [h EXCEPT !.queued = @ - n, !.processing = @ + n, !.status = "processing"]

MoveProcessingToCompleted(h, n) ==
  [h EXCEPT !.processing = @ - n, !.completed = @ + n]

\* Mutation: a transaction without the HINCRBY of "processing"; one without "failed".
MoveToFailedKeepsProcessing(h, n) == [h EXCEPT !.failed = @ + n]
MoveToFailedUncounted(h, n) == [h EXCEPT !.processing = @ - n]

MoveProcessingToFailed(h, n) ==
  [h EXCEPT !.processing = @ - n, !.failed = @ + n]

\* Mutation: jobs in processing count as done; failures are not looked at.
ReportedTooEarly(h) ==
  IF h.total > 0 /\ h.completed + h.failed + h.processing >= h.total
  THEN IF h.failed > 0 THEN "completed_with_errors" ELSE "completed"
  ELSE h.status
ReportedBlindly(h) ==
  IF h.total > 0 /\ h.completed + h.failed >= h.total THEN "completed" ELSE h.status

\* GetUploadStatus: the status a client polling the upload is shown.
Reported(h) ==
  IF h.total > 0 /\ h.completed + h.failed >= h.total
  THEN IF h.failed > 0 THEN "completed_with_errors" ELSE "completed"
  ELSE h.status

AddUploadError(f) ==
  \E o \in Outcome["hash"] : errs' = IF Applied(o) THEN errs \cup {f} ELSE errs

-----------------------------------------------------------------------------
(* The request handler: EnqueueUploads and enqueueOne.                     *)

Admissible(r) ==
  /\ Cardinality(FilesOf(r)) \in 1..ChunkMaxFiles
  /\ r \in Authorised

Refuse(r) ==
  /\ rpc[r] = "start"
  /\ ~Admissible(r)
  /\ rpc' = [rpc EXCEPT ![r] = "refused"]
  /\ UNCHANGED <<offer, streamVars, statusVars, storeVars, rows, worker>>

Begin(r) ==
  /\ rpc[r] = "start"
  /\ Admissible(r)
  /\ \E o \in Outcome["hash"] :
       /\ hash' = [hash EXCEPT ![UploadOf[r]] =
                     Result(o, @, InitUploadStatus(@), InitUploadStatus(@))]
       /\ rpc' = [rpc EXCEPT ![r] = IF Errs(o) THEN "error" ELSE "loop"]
  /\ UNCHANGED <<offer, streamVars, errs, storeVars, rows, worker>>

\* The loop takes the next file only when enqueueOne has returned for the last.
BetweenFiles(r) ==
  rpc[r] = "loop" /\ \A g \in FilesOf(r) : offer[g] \notin {"stored", "undo", "failing"}

PutOriginal(r, f) ==
  /\ BetweenFiles(r)
  /\ offer[f] = "todo"
  /\ \E o \in Outcome["put"] :
       /\ original' = IF Applied(o) THEN original \cup {f} ELSE original
       /\ offer' = [offer EXCEPT ![f] = IF Errs(o) THEN "failing" ELSE "stored"]
  /\ UNCHANGED <<rpc, streamVars, statusVars, watermarked, preview, rows, worker>>

EnqueueProcessingJob(r, f) ==
  /\ rpc[r] = "loop"
  /\ offer[f] = "stored"
  /\ \E o \in Outcome["xadd"], k \in 2..Sendings :
       /\ log' = Result(o, log, Append(log, f), log \o [i \in 1..k |-> f])
       /\ offer' = [offer EXCEPT ![f] = IF Errs(o) THEN "undo" ELSE "accepted"]
  /\ UNCHANGED <<rpc, last, acked, statusVars, storeVars, rows, worker>>

\* The job could not be queued, as far as the handler knows: its original goes.
RemoveOriginal(r, f) ==
  /\ rpc[r] = "loop"
  /\ offer[f] = "undo"
  /\ \E o \in Outcome["remove"] :
       original' = IF Applied(o) THEN original \ {f} ELSE original
  /\ offer' = [offer EXCEPT ![f] = "failing"]
  /\ UNCHANGED <<rpc, streamVars, statusVars, watermarked, preview, rows, worker>>

\* enqueueOne has returned an error: the handler records it and goes on.
RecordRejection(r, f) ==
  /\ rpc[r] = "loop"
  /\ offer[f] = "failing"
  /\ AddUploadError(f)
  /\ offer' = [offer EXCEPT ![f] = "rejected"]
  /\ UNCHANGED <<rpc, streamVars, hash, storeVars, rows, worker>>

\* After the loop, once, for all the accepted files of the request.
CountAccepted(r) ==
  /\ rpc[r] = "loop"
  /\ \A f \in FilesOf(r) : offer[f] \in {"accepted", "rejected"}
  /\ IF Accepted(r) = {}
     THEN rpc' = [rpc EXCEPT ![r] = "done"] /\ UNCHANGED hash
     ELSE \E o \in Outcome["hash"], k \in 2..Sendings :
            /\ hash' = [hash EXCEPT ![UploadOf[r]] =
                          Result(o, @, AddUploadCounters(@, Cardinality(Accepted(r))),
                                 AddUploadCounters(@, k * Cardinality(Accepted(r))))]
            /\ rpc' = [rpc EXCEPT ![r] = IF Errs(o) THEN "error" ELSE "done"]
  /\ UNCHANGED <<offer, streamVars, errs, storeVars, rows, worker>>

RequestStep(r) ==
  \/ Refuse(r)
  \/ Begin(r)
  \/ \E f \in FilesOf(r) :
       \/ PutOriginal(r, f) \/ EnqueueProcessingJob(r, f)
       \/ RemoveOriginal(r, f) \/ RecordRejection(r, f)
  \/ CountAccepted(r)

-----------------------------------------------------------------------------
(* The worker: Run and processJobs.  lo..hi are the messages of its batch, *)
(* at the one its loop is at, batchOk whether ProcessBatch succeeded.      *)

WorkerPcs == {"idle", "move", "cuda", "watermark", "preview", "remove", "create",
              "completed", "failed", "error", "ack"}
IdleWorker == [pc |-> "idle", lo |-> 0, hi |-> 0, at |-> 0, batchOk |-> TRUE]
Current(w) == log[worker[w].at]
Batch(w) == worker[w].lo .. worker[w].hi
BatchFiles(w) == {log[p] : p \in Batch(w)}

\* The worker goes on with pc where it is, or at the first message of its batch.
GoOn(w, pc) == worker' = [worker EXCEPT ![w].pc = pc]
FromFirst(w, pc, ok) ==
  worker' = [worker EXCEPT ![w] = [@ EXCEPT !.pc = pc, !.at = worker[w].lo, !.batchOk = ok]]
\* One pass of a loop over the batch: the next message, or what follows the loop.
\* Mutation: the loop stops one message short.
HasNextButOne(w) == worker[w].at + 1 < worker[w].hi
HasNext(w) == worker[w].at < worker[w].hi
Advance(w, pc) == worker' = [worker EXCEPT ![w] = [@ EXCEPT !.pc = pc, !.at = worker[w].at + 1]]

\* XREADGROUP with COUNT and ">": so many messages never delivered to the group.
NextBatchLen ==
  IF Len(log) - last < BatchSize THEN Len(log) - last ELSE BatchSize
Redelivered(n) == last
DeliveredUpTo(n) == last + n

\* The oldest undelivered messages.  An answer that is lost leaves them pending,
\* and Run never asks for pending ones.  (A read sent again is this one, unanswered,
\* and the next.)
ReadProcessingJobs(w) ==
  /\ worker[w].pc = "idle"
  /\ last < Len(log)
  /\ \E o \in Outcome["read"] :
       /\ Applied(o)
       /\ last' = DeliveredUpTo(NextBatchLen)
       /\ worker' = IF Errs(o) THEN worker
                    ELSE [worker EXCEPT ![w] =
                            [pc |-> "move", lo |-> last + 1, hi |-> last + NextBatchLen,
                             at |-> last + 1, batchOk |-> TRUE]]
  /\ UNCHANGED <<requestVars, log, acked, statusVars, storeVars, rows>>

\* BatchSelectorProcessor: the health check decides in mode "auto".
Selected == CASE Mode = "local" -> {"watermark"}
              [] Mode = "cuda" -> {"cuda"}
              [] OTHER -> {"cuda", "watermark"}

MoveJobToProcessing(w) ==
  /\ worker[w].pc = "move"
  /\ \E o \in Outcome["hash"], k \in 2..Sendings :
       hash' = [hash EXCEPT ![UploadOfFile(Current(w))] =
                  Result(o, @, MoveQueuedToProcessing(@, 1), MoveQueuedToProcessing(@, k))]
  /\ IF HasNext(w) THEN Advance(w, "move")
     ELSE \E pc \in Selected : FromFirst(w, pc, TRUE)
  /\ UNCHANGED <<requestVars, streamVars, errs, storeVars, rows>>

\* The service fetches the originals and puts the derived objects; its answer
\* counts as success only when every item of the batch is completed.
CudaSucceeds(w) ==
  /\ worker[w].pc = "cuda"
  /\ BatchFiles(w) \subseteq original
  /\ watermarked' = watermarked \cup BatchFiles(w)
  /\ preview' = preview \cup BatchFiles(w)
  /\ FromFirst(w, "create", TRUE)
  /\ UNCHANGED <<requestVars, streamVars, statusVars, original, rows>>

\* On an error it may have put any of them; mode "auto" falls back to local.
CudaFails(w) ==
  /\ worker[w].pc = "cuda"
  /\ "fail" \in Outcome["cuda"] \/ ~(BatchFiles(w) \subseteq original)
  /\ \E W, P \in SUBSET (BatchFiles(w) \cap original) :
       watermarked' = watermarked \cup W /\ preview' = preview \cup P
  /\ IF Mode = "auto" THEN FromFirst(w, "watermark", TRUE)
     ELSE FromFirst(w, "failed", FALSE)
  /\ UNCHANGED <<requestVars, streamVars, statusVars, original, rows>>

\* processOne, first half: an unreadable original, or one that does not decode,
\* ends ProcessBatch for the whole batch.
PutWatermarked(w) ==
  LET f == Current(w) IN
  /\ worker[w].pc = "watermark"
  /\ IF f \in original /\ f \notin Undecodable
     THEN \E o \in Outcome["put"] :
            /\ watermarked' = IF Applied(o) THEN watermarked \cup {f} ELSE watermarked
            /\ IF Errs(o) THEN FromFirst(w, "failed", FALSE) ELSE GoOn(w, "preview")
     ELSE FromFirst(w, "failed", FALSE) /\ UNCHANGED watermarked
  /\ UNCHANGED <<requestVars, streamVars, statusVars, original, preview, rows>>

\* Mutation: the error of the second put is not looked at.
PutPreviewUnchecked(w) ==
  /\ worker[w].pc = "preview"
  /\ \E o \in Outcome["put"] :
       preview' = IF Applied(o) THEN preview \cup {Current(w)} ELSE preview
  /\ IF HasNext(w) THEN Advance(w, "watermark") ELSE FromFirst(w, "create", TRUE)
  /\ UNCHANGED <<requestVars, streamVars, statusVars, original, watermarked, rows>>

\* processOne, second half.
PutPreview(w) ==
  /\ worker[w].pc = "preview"
  /\ \E o \in Outcome["put"] :
       /\ preview' = IF Applied(o) THEN preview \cup {Current(w)} ELSE preview
       /\ IF Errs(o) THEN GoOn(w, "remove")
          ELSE IF HasNext(w) THEN Advance(w, "watermark") ELSE FromFirst(w, "create", TRUE)
  /\ UNCHANGED <<requestVars, streamVars, statusVars, original, watermarked, rows>>

\* Without the preview the watermarked version goes too.
RemoveWatermarked(w) ==
  /\ worker[w].pc = "remove"
  /\ \E o \in Outcome["remove"] :
       watermarked' = IF Applied(o) THEN watermarked \ {Current(w)} ELSE watermarked
  /\ FromFirst(w, "failed", FALSE)
  /\ UNCHANGED <<requestVars, streamVars, statusVars, original, preview, rows>>

\* Mutation: the error is ignored; the job is only acknowledged; the worker
\* removes the original of a photo it could not create.
CreateAlwaysCounts(failed) == "completed"
CreateFailureIsSilent(failed) == IF failed THEN "ack" ELSE "completed"
AfterCreate(failed) == IF failed THEN "failed" ELSE "completed"

CreatePhotoOrRemove(w) ==
  LET f == Current(w) IN
  /\ worker[w].pc = "create"
  /\ IF f \in rows
     THEN GoOn(w, AfterCreate(TRUE)) /\ original' = original \ {f} /\ UNCHANGED rows
     ELSE rows' = rows \cup {f} /\ GoOn(w, AfterCreate(FALSE)) /\ UNCHANGED original
  /\ UNCHANGED <<requestVars, streamVars, statusVars, watermarked, preview>>

\* createPhotoFromProcessed: one transaction, refused when the id is taken.
CreatePhoto(w) ==
  LET f == Current(w) IN
  /\ worker[w].pc = "create"
  /\ IF f \in rows
     THEN GoOn(w, AfterCreate(TRUE)) /\ UNCHANGED rows
     ELSE \E o \in Outcome["create"] :
            /\ rows' = IF Applied(o) THEN rows \cup {f} ELSE rows
            /\ GoOn(w, AfterCreate(Errs(o)))
  /\ UNCHANGED <<requestVars, streamVars, statusVars, storeVars>>

MoveToCompleted(w) ==
  /\ worker[w].pc = "completed"
  /\ \E o \in Outcome["hash"], k \in 2..Sendings :
       hash' = [hash EXCEPT ![UploadOfFile(Current(w))] =
                  Result(o, @, MoveProcessingToCompleted(@, 1), MoveProcessingToCompleted(@, k))]
  /\ GoOn(w, "ack")
  /\ UNCHANGED <<requestVars, streamVars, errs, storeVars, rows>>

MoveToFailed(w) ==
  /\ worker[w].pc = "failed"
  /\ \E o \in Outcome["hash"], k \in 2..Sendings :
       hash' = [hash EXCEPT ![UploadOfFile(Current(w))] =
                  Result(o, @, MoveProcessingToFailed(@, 1), MoveProcessingToFailed(@, k))]
  /\ GoOn(w, "error")
  /\ UNCHANGED <<requestVars, streamVars, errs, storeVars, rows>>

\* The job is counted as failed; only now is its error recorded.
RecordFailure(w) ==
  /\ worker[w].pc = "error"
  /\ AddUploadError(Current(w))
  /\ GoOn(w, "ack")
  /\ UNCHANGED <<requestVars, streamVars, hash, storeVars, rows>>

AckProcessingJob(w) ==
  /\ worker[w].pc = "ack"
  /\ \E o \in Outcome["ack"] :
       acked' = IF Applied(o) THEN acked \cup {worker[w].at} ELSE acked
  /\ IF HasNext(w) THEN Advance(w, IF worker[w].batchOk THEN "create" ELSE "failed")
     ELSE worker' = [worker EXCEPT ![w] = IdleWorker]
  /\ UNCHANGED <<requestVars, log, last, statusVars, storeVars, rows>>

WorkerStep(w) ==
  \/ ReadProcessingJobs(w)
  \/ MoveJobToProcessing(w)
  \/ CudaSucceeds(w) \/ CudaFails(w)
  \/ PutWatermarked(w) \/ PutPreview(w) \/ RemoveWatermarked(w)
  \/ CreatePhoto(w)
  \/ MoveToCompleted(w)
  \/ MoveToFailed(w) \/ RecordFailure(w)
  \/ AckProcessingJob(w)

-----------------------------------------------------------------------------
(* The environment: a process dies, a hash outlives its TTL.               *)

\* The next process starts Run afresh; the batch stays pending in Redis.
WorkerCrash(w) ==
  /\ w \in MayCrash
  /\ worker[w].pc # "idle"
  /\ worker' = [worker EXCEPT ![w] = IdleWorker]
  /\ UNCHANGED <<requestVars, streamVars, statusVars, storeVars, rows>>

RequestCrash(r) ==
  /\ r \in MayCrash
  /\ rpc[r] = "loop"
  /\ rpc' = [rpc EXCEPT ![r] = "dead"]
  /\ UNCHANGED <<offer, streamVars, statusVars, storeVars, rows, worker>>

Expire(u) ==
  /\ StatusExpires
  /\ hash[u] # Absent
  /\ hash' = [hash EXCEPT ![u] = Absent]
  /\ UNCHANGED <<requestVars, streamVars, errs, storeVars, rows, worker>>

-----------------------------------------------------------------------------
Init ==
  /\ rpc = [r \in Requests |-> "start"]
  /\ offer = [f \in Files |-> "todo"]
  /\ log = <<>> /\ last = 0 /\ acked = {}
  /\ hash = [u \in Uploads |-> Absent]
  /\ errs = {}
  /\ original = {} /\ watermarked = {} /\ preview = {}
  /\ rows = {}
  /\ worker = [w \in Workers |-> IdleWorker]

Next ==
  \/ \E r \in Requests : RequestStep(r) \/ RequestCrash(r)
  \/ \E w \in Workers : WorkerStep(w) \/ WorkerCrash(w)
  \/ \E u \in Uploads : Expire(u)

Spec == Init /\ [][Next]_vars

\* Run loops until shutdown and net/http lets a handler finish, so every
\* goroutine that can take a step is scheduled again.
Fairness ==
  /\ \A r \in Requests : WF_vars(RequestStep(r))
  /\ \A w \in Workers : WF_vars(WorkerStep(w))

FairSpec == Spec /\ Fairness
=============================================================================

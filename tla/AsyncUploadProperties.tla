----------------------- MODULE AsyncUploadProperties -----------------------
(***************************************************************************)
(* What is claimed of the upload pipeline.  Each property holds under the  *)
(* outcomes of the runs that check it; the comment says which it needs.    *)
(***************************************************************************)
EXTENDS AsyncUpload

WorkerRecord == [pc : WorkerPcs, lo : Nat, hi : Nat, at : Nat, batchOk : BOOLEAN]

\* The types of all the variables (type invariant).
TypeOk ==
  /\ rpc \in [Requests -> {"start", "refused", "loop", "error", "done", "dead"}]
  /\ offer \in [Files -> {"todo", "stored", "undo", "failing", "accepted", "rejected"}]
  /\ log \in Seq(Files)
  /\ last \in 0..Len(log)
  /\ acked \subseteq 1..last
  /\ hash \in [Uploads -> StatusRecord]
  /\ errs \subseteq Files
  /\ original \subseteq Files
  /\ watermarked \subseteq Files
  /\ preview \subseteq Files
  /\ rows \subseteq Files
  /\ worker \in [Workers -> WorkerRecord]

-----------------------------------------------------------------------------
(* Photos and objects.                                                     *)

\* A photo row is published only with its three objects in the store, and they
\* stay there.  Needs XADD to be definite: no lost reply, no second sending.
PhotoIsWhole == rows \subseteq original \cap watermarked \cap preview

\* The same of the files the client was told are accepted, when the reply to
\* XADD may be lost: then RemoveOriginal hits only files reported as failed.
AcceptedPhotoIsWhole ==
  \A f \in rows : offer[f] = "accepted" => f \in original \cap watermarked \cap preview

\* A file whose upload was answered with an error never becomes a photo (nor a
\* job).  Needs XADD to be definite.
RejectedIsNotQueued ==
  \A f \in Files : offer[f] \in {"failing", "rejected"} => \A p \in 1..Len(log) : log[p] # f

-----------------------------------------------------------------------------
(* Messages.                                                               *)

Held(w) == IF worker[w].pc = "idle" THEN {}
           ELSE {p \in Batch(w) : p >= worker[w].at \/ worker[w].pc \in
                   {"move", "cuda", "watermark", "preview", "remove"}}

\* The loops of processJobs that come after ProcessBatch.
Settling == {"create", "completed", "failed", "error", "ack"}
Busy(w) == worker[w].pc # "idle"

\* Inductive form of HeldByOneWorker: a worker is inside its batch, the batches
\* are delivered and disjoint intervals of the stream, and what is acknowledged
\* of a batch lies behind the worker in the loop that settles it.
MessagesInv ==
  /\ \A w \in Workers : Busy(w) =>
       /\ 1 <= worker[w].lo
       /\ worker[w].lo <= worker[w].at
       /\ worker[w].at <= worker[w].hi
       /\ worker[w].hi <= last
  /\ \A v, w \in Workers : v # w /\ Busy(v) /\ Busy(w) =>
       worker[v].hi < worker[w].lo \/ worker[w].hi < worker[v].lo
  /\ \A w \in Workers : \A p \in Batch(w) : Busy(w) /\ p \in acked =>
       worker[w].pc \in Settling /\ p < worker[w].at

\* The group hands a message to one worker, and a message still in a worker's
\* hands has not been acknowledged.  Holds under every outcome and crash.
HeldByOneWorker ==
  \A w \in Workers :
    /\ Held(w) \cap acked = {}
    /\ Held(w) \subseteq 1..last
    /\ \A v \in Workers \ {w} : Held(w) \cap Held(v) = {}

\* No acknowledged message is lost: its file is a photo or has an entry in the
\* error list.  Holds through crashes; needs the Redis writes not to be lost.
AckedIsExplained == \A p \in acked : log[p] \in rows \cup errs

\* Inductive form of AckedIsExplained: what a worker is about to count is a photo,
\* and what it is about to acknowledge is explained.
ExplainedInv ==
  /\ AckedIsExplained
  /\ \A w \in Workers :
       /\ worker[w].pc = "completed" => Current(w) \in rows
       /\ worker[w].pc = "ack" => Current(w) \in rows \cup errs

\* Inductive form of PhotoIsWhole, when XADD is definite.  The stream holds each
\* accepted file once, and an original goes only with a file that is not in it.
LogInv ==
  /\ \A p \in 1..Len(log) : offer[log[p]] = "accepted"
  /\ \A p, q \in 1..Len(log) : log[p] = log[q] => p = q
  /\ \A f \in Files : offer[f] \in {"stored", "accepted"} => f \in original

\* A photo comes from a delivered message, and of the batch in its hands a worker
\* has photos only up to where it is in the settling loop.
RowsInv ==
  /\ \A f \in rows : \E p \in 1..last : log[p] = f
  /\ \A w \in Workers : \A p \in Batch(w) : Busy(w) /\ log[p] \in rows =>
       /\ worker[w].pc \in Settling
       /\ p <= worker[w].at
       /\ p = worker[w].at => worker[w].pc # "create"
  /\ rows \subseteq watermarked \cap preview

\* How far the derived objects of its batch are when a worker is at pc.
DerivedInv ==
  \A w \in Workers :
    /\ worker[w].pc \in {"create", "completed"} => worker[w].batchOk
    /\ worker[w].pc \in Settling /\ worker[w].batchOk =>
         BatchFiles(w) \subseteq watermarked \cap preview
    /\ worker[w].pc \in {"watermark", "preview"} =>
         \A p \in Batch(w) : p < worker[w].at => log[p] \in watermarked \cap preview
    /\ worker[w].pc = "preview" => Current(w) \in watermarked

PhotosInv == LogInv /\ RowsInv /\ DerivedInv

\* No worker takes an object back: the CUDA service makes them all, or the local
\* processor's puts are answered as executed.
ObjectsStay == Mode = "cuda" \/ \A o \in Outcome["put"] : ~Errs(o)

\* Inductive form of AcceptedPhotoIsWhole: it needs no LogInv when no worker takes
\* an object back.
WholeInv ==
  /\ \A f \in Files : offer[f] \in {"stored", "accepted"} => f \in original
  /\ rows \subseteq watermarked \cap preview
  /\ DerivedInv
  /\ Mode = "cuda" => \A w \in Workers : worker[w].pc \notin {"watermark", "preview"}
  /\ ObjectsStay => \A w \in Workers : worker[w].pc # "remove"

-----------------------------------------------------------------------------
(* Counters.                                                               *)

OfUpload(S, u) == {p \in S : UploadOfFile(log[p]) = u}
RequestsOf(u) == {r \in Requests : UploadOf[r] = u}

\* The accepted files whose request has not yet added them to the counters.
Uncounted(u) == {f \in FilesOfUpload(u) : offer[f] = "accepted" /\ rpc[ReqOf[f]] = "loop"}

\* Of what a worker holds, what it has yet to move to processing, and what it has
\* moved there and not yet settled.
ToMove(w) == {p \in Held(w) : worker[w].pc = "move" /\ p >= worker[w].at}
ToSettle(w) == {p \in Held(w) : /\ worker[w].pc = "move" => p < worker[w].at
                                /\ worker[w].pc \in {"error", "ack"} => p # worker[w].at}

\* The messages no worker has moved to processing, and those one has and that
\* have not reached their end.
Waiting == ((last + 1)..Len(log)) \cup UNION {ToMove(w) : w \in Workers}
InHand == UNION {ToSettle(w) : w \in Workers}

\* The counters of one upload say what the stream and the workers hold of it.
ExactFor(u) ==
  LET h == hash[u] IN
  /\ h.queued + Cardinality(Uncounted(u)) = Cardinality(OfUpload(Waiting, u))
  /\ h.processing = Cardinality(OfUpload(InHand, u))
  /\ h.completed + h.failed =
       Cardinality(OfUpload(1..Len(log) \ (Waiting \cup InHand), u))
  /\ h.total + Cardinality(Uncounted(u)) = Cardinality(OfUpload(1..Len(log), u))
  /\ h.uploaded = h.total

\* The counters are exact at every moment: "queued" runs behind the stream by
\* what the request has yet to add (and so goes below zero), "processing" is
\* what the workers have in hand, and the rest is settled.  Needs reliable
\* Redis calls, no crash and a hash that does not expire.
CountersAreExact == \A u \in Uploads : ExactFor(u)

\* "completed" never counts a photo that is not there: not after a crash, a lost
\* or unanswered call, an expired hash or a job queued twice.  Needs only that
\* the hash transactions are not executed twice.
CompletedIsBacked ==
  \A u \in Uploads : hash[u].completed <= Cardinality(rows \cap FilesOfUpload(u))

\* Inductive form of CompletedIsBacked: a created photo is credited to its
\* upload once, by the one worker that created it.
Crediting == {w \in Workers : worker[w].pc = "completed"}
Credited(u) == (rows \cap FilesOfUpload(u)) \ {Current(w) : w \in Crediting}
CreditInv ==
  /\ \A w \in Crediting : Current(w) \in rows
  /\ \A v, w \in Crediting : v # w => Current(v) # Current(w)
  /\ \A u \in Uploads : hash[u].completed <= Cardinality(Credited(u))

Terminal(u) == Reported(hash[u]) \in {"completed", "completed_with_errors"}
AllCounted(u) == \A r \in RequestsOf(u) : rpc[r] \in {"done", "refused"}
AcceptedOf(u) == {f \in FilesOfUpload(u) : offer[f] = "accepted"}

\* The messages a worker has counted, or will never count: no worker holds them
\* but with the transaction that counts them behind it.
Behind == {p \in 1..last : \A w \in Workers :
             p \in Held(w) => worker[w].pc \in {"error", "ack"} /\ p = worker[w].at}

\* Once every chunk of the upload has been answered, a status that says the
\* upload is over says the truth.  Every accepted file is a photo, or its error is
\* recorded, or the worker that counted it as failed has yet to record its error or
\* died before it could; and the files without a photo are counted as failed.
\* (Between two chunks it may say so too early.)  Holds through crashes of workers,
\* wherever they die; needs reliable status writes.
TerminalIsTrue ==
  \A u \in Uploads : AllCounted(u) /\ Terminal(u) =>
    /\ \A f \in AcceptedOf(u) :
         f \in rows \cup errs \/ \E p \in Behind \ acked : log[p] = f
    /\ Cardinality(AcceptedOf(u) \ rows) <= hash[u].failed

\* Then, too, "completed" without errors means that every accepted file is a
\* photo, even when any of the status writes is lost.
CompletedIsTrue ==
  \A u \in Uploads :
    AllCounted(u) /\ Reported(hash[u]) = "completed" => AcceptedOf(u) \subseteq rows

\* Inductive form of both: when no request of an upload has met an error, the
\* total is that of the files of the requests that are done.
CountedOf(u) == {f \in FilesOfUpload(u) : offer[f] = "accepted" /\ rpc[ReqOf[f]] = "done"}
NoErrors(u) == \A r \in RequestsOf(u) : rpc[r] # "error"
TotalInv ==
  /\ \A f \in Files : rpc[ReqOf[f]] \in {"start", "refused"} => offer[f] = "todo"
  /\ \A u \in Uploads :
       /\ hash[u].failed >= 0
       /\ NoErrors(u) => \/ hash[u].total = Cardinality(CountedOf(u))
                         \/ StatusExpires /\ hash[u].total = 0

\* Inductive form of TerminalIsTrue: what a hash calls settled are different
\* messages whose workers have them behind them.
TalliedInv == \A u \in Uploads :
  hash[u].completed + hash[u].failed <= Cardinality(OfUpload(Behind, u))

\* From then on the reported status never changes.
TerminalIsFinal ==
  [][\A u \in Uploads : AllCounted(u) /\ Terminal(u) =>
       Reported(hash[u])' = Reported(hash[u])]_vars

\* No accepted file is forgotten: until it is a photo or has an entry in the error
\* list, a message of it is still to be settled, or a worker is about to record its
\* error.  Needs the status writes and the answers to XREADGROUP not to be lost,
\* and no worker to die with its batch.
ToRecord == {worker[w].at : w \in {v \in Workers : worker[v].pc = "error"}}
NothingIsForgotten ==
  \A f \in Files : offer[f] = "accepted" =>
    f \in rows \cup errs \/ \E p \in Waiting \cup InHand \cup ToRecord : log[p] = f

\* Inductive form of NothingIsForgotten: every message is to be settled or explained.
DeliveryInv ==
  /\ \A f \in Files : offer[f] = "accepted" => \E p \in 1..Len(log) : log[p] = f
  /\ \A p \in 1..Len(log) :
       p \in Waiting \cup InHand \cup ToRecord \/ log[p] \in rows \cup errs

\* Once every chunk of an upload is answered, its status says that it is over
\* exactly when it has accepted a file and no message of it is to be settled: not
\* before, and at the last settling at once.  So an upload none of whose files was
\* accepted is never over.  Needs what CountersAreExact needs.
OverWhenSettled ==
  \A u \in Uploads : AllCounted(u) =>
    (Terminal(u) <=> AcceptedOf(u) # {} /\ OfUpload(Waiting \cup InHand, u) = {})

-----------------------------------------------------------------------------
(* How much is left to do.                                                 *)

\* How far a file is in its request, a request in its handler and a message of
\* w's batch in processJobs.  A message that is left behind has come to the end.
FileStage(f) ==
  CASE offer[f] = "todo" -> 0 [] offer[f] = "stored" -> 1 [] offer[f] = "undo" -> 2
    [] offer[f] = "failing" -> 3 [] OTHER -> 4
RequestStage(r) == CASE rpc[r] = "start" -> 0 [] rpc[r] = "loop" -> 1 [] OTHER -> 2
MessageStage(w, p) ==
  LET pc == worker[w].pc
      at == worker[w].at
  IN  CASE pc = "move" -> IF p < at THEN 2 ELSE 1
        [] pc = "cuda" -> 3
        [] pc = "watermark" -> IF p < at THEN 6 ELSE 4
        [] pc = "preview" -> IF p < at THEN 6 ELSE IF p = at THEN 5 ELSE 4
        [] pc = "remove" -> IF p <= at THEN 6 ELSE 4
        [] pc = "create" -> 7
        [] pc \in {"completed", "failed"} -> IF p = at THEN 8 ELSE 7
        [] pc = "error" -> IF p = at THEN 9 ELSE 7
        [] OTHER -> IF p = at THEN 10 ELSE 7

\* The stages still ahead.  A file makes at most Sendings messages.
FileWork == {x \in Files \X (1..4) : x[2] > FileStage(x[1])}
RequestWork == {x \in Requests \X (1..2) : x[2] > RequestStage(x[1])}
MessageWork ==
  {x \in (1..(Sendings * Cardinality(Files))) \X (1..11) :
     \/ x[1] > last
     \/ \E w \in Workers : x[1] \in Held(w) /\ x[2] > MessageStage(w, x[1])}
WorkLeft == Cardinality(FileWork) + Cardinality(RequestWork) + Cardinality(MessageWork)

\* Every step does some of the work and undoes none: nothing is tried again without
\* end, not after a failure, a lost answer, a duplicate or a crash.  Needs only
\* that no hash expires.
EveryStepIsWork == [][WorkLeft' < WorkLeft]_vars

-----------------------------------------------------------------------------
(* Progress, under Fairness, without crashes and with reliable Redis calls.*)

\* Every accepted file becomes a photo or gets an entry in the error list.
AcceptedIsSettled ==
  \A f \in Files : offer[f] = "accepted" ~> f \in rows \cup errs

\* The status of an upload that accepted a file ends up terminal, and stays so,
\* even when its chunks and the workers interleave.
UploadEnds ==
  \A u \in Uploads : <>[](AcceptedOf(u) # {} => Terminal(u))

-----------------------------------------------------------------------------
(* Refinement: what the client is promised.                                *)

\* A file is failed when it is not a photo and no message of it is still to be
\* settled: it is counted as failed, or its batch went with its worker or with the
\* answer that carried it.
Fate(f) ==
  IF offer[f] \in {"failing", "rejected"} THEN "rejected"
  ELSE IF f \in rows THEN "photo"
  ELSE IF offer[f] # "accepted" THEN "pending"
  ELSE IF \E p \in Waiting \cup InHand : log[p] = f THEN "accepted" ELSE "failed"

Promise == INSTANCE UploadPromise WITH
  fate <- [f \in Files |-> Fate(f)],
  report <- [u \in Uploads |-> IF Terminal(u) THEN Reported(hash[u]) ELSE "open"]

\* The pipeline keeps the promise of UploadPromise, when an upload is one request,
\* a status write is executed at most once, the hash does not expire, and XADD and
\* the creation of a photo are definite; whatever else is lost, and whoever dies.
KeepsPromise == Promise!Spec
=============================================================================

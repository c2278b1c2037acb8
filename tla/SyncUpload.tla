----------------------------- MODULE SyncUpload -----------------------------
(***************************************************************************)
(* The synchronous upload: UploadPhotos and processSingleUpload, which     *)
(* receives a file, has the processor derive two variants of it in two     *)
(* goroutines, puts three objects, creates the photo and, on an error,     *)
(* removes what it has put.  Its temporary files go when it returns.       *)
(*                                                                         *)
(* Object keys and photo ids are made from a fresh UUID for every file, so *)
(* requests share nothing and one of them is enough.  All its calls run    *)
(* under the context of the request: once the client has gone they fail,   *)
(* the ones that clean up included.                                        *)
(***************************************************************************)
EXTENDS Integers, Sequences, FiniteSets, Outcomes

CONSTANTS
  Files,         \* the files of the request
  MaxFiles,      \* maxUploadFiles
  Authorised,    \* whether competition, role and stage are in order
  Outcome,       \* for each external call, the outcomes it may have
  MayDisconnect  \* whether the client may go away

Calls == {"process", "put", "remove", "create", "hydrate"}

ASSUME RequestAssumption ==
  /\ IsFiniteSet(Files)
  /\ MaxFiles \in Nat
  /\ Authorised \in BOOLEAN /\ MayDisconnect \in BOOLEAN
ASSUME OutcomeAssumption ==
  /\ Outcome \in [Calls -> SUBSET AllOutcomes]
  /\ \A c \in Calls : "ok" \in Outcome[c]

VARIABLES
  rpc,        \* where UploadPhotos is
  gone,       \* whether the context of the request is cancelled
  pc,         \* where processSingleUpload is with each file
  temps,      \* the temporary files, by kind and file
  worker,     \* the goroutines of Process, by file and the kind they derive
  undo,       \* the kinds of objects it has yet to remove
  objects,    \* the objects in MinIO, by kind and file
  rows,       \* the photos with their versions
  scheduled,  \* the files scheduleBibRecognition has been called for
  doubtful    \* (observation) the calls for a file that did not do what they said

local == <<temps, worker>>
vars == <<rpc, gone, pc, local, undo, objects, rows, scheduled, doubtful>>

Kinds == {"original", "watermarked", "preview"}
Derived == {"watermarked", "preview"}
Objects(f) == {<<k, f>> : k \in Kinds}

Of(c) == IF gone THEN {"fail"} ELSE Outcome[c]

\* Observation: a put or a commit that is executed with an error, and a removal
\* that is not executed, whose error is dropped.
Misleads(c, o) == IF c = "remove" THEN ~Applied(o) ELSE Applied(o) /\ Errs(o)
Note(c, f, o) ==
  doubtful' = IF Misleads(c, o) THEN doubtful \cup {<<c, f>>} ELSE doubtful

Admissible == Cardinality(Files) \in 1..MaxFiles /\ Authorised

BeginUpload ==
  /\ rpc = "start"
  /\ rpc' = IF Admissible THEN "loop" ELSE "refused"
  /\ UNCHANGED <<gone, pc, local, undo, objects, rows, scheduled, doubtful>>

\* The loop takes the next file when it has the result of the last.
Answered == {"created", "failed"}
Turn(f) == rpc = "loop" /\ \A g \in Files \ {f} : pc[g] \in Answered \cup {"todo"}

Goto(f, step) == pc' = [pc EXCEPT ![f] = step]

\* The deferred removals of the temporary files, when processSingleUpload returns.
CleanUp(f) == temps' = temps \ Objects(f)

\* An error after the objects of these kinds were put.
Fail(f, kinds) ==
  /\ undo' = kinds
  /\ IF kinds = <<>> THEN Goto(f, "failed") /\ CleanUp(f)
     ELSE Goto(f, "undo") /\ UNCHANGED temps

\* The file is copied to a temporary one; on an error none is left.
ReceiveFile(f) ==
  /\ Turn(f)
  /\ pc[f] = "todo"
  /\ \E o \in Outcome["process"] :
       IF Errs(o) THEN Fail(f, <<>>)
       ELSE /\ temps' = temps \cup {<<"original", f>>}
            /\ Goto(f, "decode") /\ UNCHANGED undo
  /\ UNCHANGED <<rpc, gone, worker, objects, rows, scheduled, doubtful>>

\* Process looks at the context, decodes the image, creates two temporary files
\* (when it cannot create the second it removes the first) and starts a goroutine
\* for each.
Decode(f) ==
  /\ pc[f] = "decode"
  /\ \E o \in Of("process") :
       IF Errs(o) THEN Fail(f, <<>>) /\ UNCHANGED worker
       ELSE /\ temps' = temps \cup {<<k, f>> : k \in Derived}
            /\ worker' = [worker EXCEPT ![f] = [k \in Derived |-> "running"]]
            /\ Goto(f, "derive") /\ UNCHANGED undo
  /\ UNCHANGED <<rpc, gone, objects, rows, scheduled, doubtful>>

\* writeJPEG creates its file anew if it is not there, and may fail afterwards.
Derive(f, kind) ==
  /\ worker[f][kind] = "running"
  /\ \E o \in Outcome["process"] :
       /\ temps' = IF Applied(o) THEN temps \cup {<<kind, f>>} ELSE temps
       /\ worker' = [worker EXCEPT ![f][kind] = IF Errs(o) THEN "error" ELSE "done"]
  /\ UNCHANGED <<rpc, gone, pc, undo, objects, rows, scheduled, doubtful>>

\* Mutation: the first error is returned at once.
JoinAtFirstError(f) ==
  /\ pc[f] = "derive"
  /\ \/ (\E kind \in Derived : worker[f][kind] = "error") /\ Fail(f, <<>>)
     \/ /\ \A kind \in Derived : worker[f][kind] = "done"
        /\ Goto(f, "original") /\ UNCHANGED <<undo, temps>>
  /\ UNCHANGED <<rpc, gone, worker, objects, rows, scheduled, doubtful>>

\* Wait returns when both goroutines have ended, with an error if one had it.
Join(f) ==
  /\ pc[f] = "derive"
  /\ \A kind \in Derived : worker[f][kind] # "running"
  /\ IF \E kind \in Derived : worker[f][kind] = "error" THEN Fail(f, <<>>)
     ELSE Goto(f, "original") /\ UNCHANGED <<undo, temps>>
  /\ UNCHANGED <<rpc, gone, worker, objects, rows, scheduled, doubtful>>

\* Mutation: the failure to put the preview leaves the watermarked version.
PutBeforeForgets(kind) == IF kind = "original" THEN <<>> ELSE <<"original">>
PutBefore(kind) ==
  CASE kind = "original" -> <<>>
    [] kind = "watermarked" -> <<"original">>
    [] kind = "preview" -> <<"original", "watermarked">>
Following(kind) ==
  CASE kind = "original" -> "watermarked"
    [] kind = "watermarked" -> "preview"
    [] kind = "preview" -> "create"

\* Mutation: the error is not looked at.
PutUnchecked(f, kind) ==
  /\ pc[f] = kind
  /\ \E o \in Of("put") :
       /\ objects' = IF Applied(o) THEN objects \cup {<<kind, f>>} ELSE objects
       /\ Note("put", f, o)
  /\ Goto(f, Following(kind))
  /\ UNCHANGED <<rpc, gone, local, undo, rows, scheduled>>

PutObject(f, kind) ==
  /\ pc[f] = kind
  /\ \E o \in Of("put") :
       /\ objects' = IF Applied(o) THEN objects \cup {<<kind, f>>} ELSE objects
       /\ Note("put", f, o)
       /\ IF Errs(o) THEN Fail(f, PutBefore(kind))
          ELSE Goto(f, Following(kind)) /\ UNCHANGED <<undo, temps>>
  /\ UNCHANGED <<rpc, gone, worker, rows, scheduled>>

CreatePhoto(f) ==
  /\ pc[f] = "create"
  /\ \E o \in Of("create") :
       /\ rows' = IF Applied(o) THEN rows \cup {f} ELSE rows
       /\ Note("create", f, o)
       /\ IF Errs(o)
          THEN Fail(f, <<"original", "watermarked", "preview">>) /\ UNCHANGED scheduled
          ELSE /\ scheduled' = scheduled \cup {f}
               /\ Goto(f, "hydrate") /\ UNCHANGED <<undo, temps>>
  /\ UNCHANGED <<rpc, gone, worker, objects>>

\* Mutation: the error is treated like one of the creation.
HydrateUndoing(f) ==
  /\ pc[f] = "hydrate"
  /\ \E o \in Of("hydrate") :
       IF Errs(o) THEN Fail(f, <<"original", "watermarked", "preview">>)
       ELSE Goto(f, "created") /\ CleanUp(f) /\ UNCHANGED undo
  /\ UNCHANGED <<rpc, gone, worker, objects, rows, scheduled, doubtful>>

\* The photo is there, and is reported as failed when it cannot be read back.
Hydrate(f) ==
  /\ pc[f] = "hydrate"
  /\ \E o \in Of("hydrate") : Goto(f, IF Errs(o) THEN "failed" ELSE "created")
  /\ CleanUp(f)
  /\ UNCHANGED <<rpc, gone, worker, undo, objects, rows, scheduled, doubtful>>

\* Mutation: a removal is tried again until it succeeds.
RemoveUntilDone(f) ==
  /\ pc[f] = "undo"
  /\ undo # <<>>
  /\ \E o \in Of("remove") :
       /\ objects' = IF Applied(o) THEN objects \ {<<Head(undo), f>>} ELSE objects
       /\ Note("remove", f, o)
       /\ IF Errs(o) THEN UNCHANGED <<pc, undo, temps>> ELSE Fail(f, Tail(undo))
  /\ UNCHANGED <<rpc, gone, worker, rows, scheduled>>

\* The next of the removals, whose errors are dropped.
RemoveObject(f) ==
  /\ pc[f] = "undo"
  /\ undo # <<>>
  /\ \E o \in Of("remove") :
       /\ objects' = IF Applied(o) THEN objects \ {<<Head(undo), f>>} ELSE objects
       /\ Note("remove", f, o)
  /\ Fail(f, Tail(undo))
  /\ UNCHANGED <<rpc, gone, worker, rows, scheduled>>

EndUpload ==
  /\ rpc = "loop"
  /\ \A f \in Files : pc[f] \in Answered
  /\ rpc' = "answered"
  /\ UNCHANGED <<gone, pc, local, undo, objects, rows, scheduled, doubtful>>

Disconnect ==
  /\ MayDisconnect /\ ~gone /\ rpc = "loop"
  /\ gone' = TRUE
  /\ UNCHANGED <<rpc, pc, local, undo, objects, rows, scheduled, doubtful>>

ProcessStep(f) ==
  \/ ReceiveFile(f) \/ Decode(f) \/ Join(f)
  \/ \E kind \in Derived : Derive(f, kind)

FileStep(f) ==
  \/ ProcessStep(f)
  \/ \E kind \in Kinds : PutObject(f, kind)
  \/ CreatePhoto(f) \/ Hydrate(f) \/ RemoveObject(f)

HandlerStep == BeginUpload \/ (\E f \in Files : FileStep(f)) \/ EndUpload

Init ==
  /\ rpc = "start" /\ gone = FALSE
  /\ pc = [f \in Files |-> "todo"] /\ undo = <<>>
  /\ temps = {} /\ worker = [f \in Files |-> [k \in Derived |-> "idle"]]
  /\ objects = {} /\ rows = {} /\ scheduled = {} /\ doubtful = {}

Next == HandlerStep \/ Disconnect

Spec == Init /\ [][Next]_vars
\* net/http lets a handler run to its end, even when its client has gone.
FairSpec == Spec /\ WF_vars(HandlerStep)

-----------------------------------------------------------------------------
(* What is claimed.                                                        *)

\* The types of all the variables (type invariant).
TypeOk ==
  /\ rpc \in {"start", "refused", "loop", "answered"}
  /\ gone \in BOOLEAN
  /\ pc \in [Files -> {"todo", "decode", "derive", "create", "hydrate", "undo"} \cup Kinds \cup Answered]
  /\ temps \subseteq Kinds \X Files
  /\ worker \in [Files -> [Derived -> {"idle", "running", "done", "error"}]]
  /\ undo \in Seq(Kinds)
  /\ objects \subseteq Kinds \X Files
  /\ rows \subseteq Files
  /\ scheduled \subseteq Files
  /\ doubtful \subseteq Calls \X Files

\* What the client is told was created is a photo with its three objects, and
\* its recognition is scheduled, whatever call fails or loses its reply and
\* whenever the client goes.
CreatedIsWhole ==
  \A f \in Files : pc[f] = "created" =>
    f \in rows \cap scheduled /\ Objects(f) \subseteq objects

\* No photo is ever without one of its objects, and recognition works on photos
\* only, whatever fails.  The photos whose commit was executed with an error are
\* excepted: the code removes their objects.
RowsAreWhole ==
  /\ \A f \in rows : <<"create", f>> \notin doubtful => Objects(f) \subseteq objects
  /\ scheduled \subseteq rows

\* Inductive form of CreatedIsWhole: the objects that are there when a file is
\* at step, and the photo once its creation has succeeded.
PutBy(step) ==
  CASE step = "watermarked" -> {"original"}
    [] step = "preview" -> {"original", "watermarked"}
    [] step \in {"create", "hydrate", "created"} -> Kinds
    [] OTHER -> {}
ProgressInv ==
  \A f \in Files :
    /\ {<<k, f>> : k \in PutBy(pc[f])} \subseteq objects
    /\ pc[f] \in {"hydrate", "created"} => f \in rows \cap scheduled

\* Inductive form of RowsAreWhole: until it is created a file has no photo, and
\* what is cleaned up belongs to a file without one.
PhotoInv ==
  \A f \in Files :
    /\ f \in rows => pc[f] \in {"hydrate", "created", "undo", "failed"}
    /\ f \in rows /\ <<"create", f>> \notin doubtful =>
         pc[f] # "undo" /\ Objects(f) \subseteq objects
    /\ f \in scheduled => f \in rows

\* A file that has been answered left everything or nothing: an error after a
\* put leaves no object behind, and one after the commit leaves the photo whole.
\* The files one of whose calls did not do what it said are excepted.
AllOrNothing ==
  \A f \in Files : pc[f] \in Answered /\ (\A c \in Calls : <<c, f>> \notin doubtful) =>
    IF f \in rows THEN Objects(f) \subseteq objects ELSE Objects(f) \cap objects = {}

\* Inductive form of AllOrNothing: one file is handled at a time, and an undoubted
\* file without a photo has no objects but those put so far or yet to be removed.
Remaining(f) ==
  IF pc[f] = "undo" THEN {undo[i] : i \in 1..Len(undo)} ELSE PutBy(pc[f])
UndoInv ==
  /\ \A f, g \in Files : f # g => pc[f] \in Answered \cup {"todo"} \/ pc[g] \in Answered \cup {"todo"}
  /\ \A f \in Files : f \notin rows /\ (\A c \in Calls : <<c, f>> \notin doubtful) =>
       \A k \in Kinds : <<k, f>> \in objects => k \in Remaining(f)

\* A file that has been answered left no temporary file, and no goroutine that
\* could make one: each writer of a file has ended before the file is removed.
TempsCleaned ==
  \A f \in Files : pc[f] \in Answered =>
    /\ Objects(f) \cap temps = {}
    /\ \A kind \in Derived : worker[f][kind] # "running"

\* Inductive form of TempsCleaned: goroutines run while Process waits for them.
WorkerInv ==
  \A f \in Files :
    /\ \A kind \in Derived : worker[f][kind] = "running" => pc[f] = "derive"
    /\ pc[f] \in Answered => Objects(f) \cap temps = {}

\* The most steps a file may still take: the removals that follow an error are fewer
\* than the steps that it skips.
Busy(f, kind) == IF worker[f][kind] = "running" THEN 1 ELSE 0
StepsLeft(f) ==
  CASE pc[f] \in Answered -> 0
    [] pc[f] = "undo" -> Len(undo)
    [] pc[f] = "hydrate" -> 4
    [] pc[f] = "create" -> 5
    [] pc[f] = "preview" -> 6
    [] pc[f] = "watermarked" -> 7
    [] pc[f] = "original" -> 8
    [] pc[f] = "derive" -> 9 + Busy(f, "watermarked") + Busy(f, "preview")
    [] pc[f] = "decode" -> 12
    [] pc[f] = "todo" -> 13
Ahead == {x \in Files \X (1..13) : x[2] <= StepsLeft(x[1])}
UploadLeft ==
  Cardinality(Ahead) + (CASE rpc = "start" -> 2 [] rpc = "loop" -> 1 [] OTHER -> 0)
    + (IF gone THEN 0 ELSE 1)

\* Every step brings the answer closer: no error, and no error while cleaning up
\* after an error, makes the handler do anything over again.
EveryStepIsAhead == [][UploadLeft' < UploadLeft]_vars

\* Until it has answered, some statement of the handler can be executed: no file
\* is waiting for its turn when nobody has it, and no removal is pending when
\* there is nothing to remove.
UploadGoesOn ==
  /\ rpc = "refused" => ~Admissible
  /\ rpc = "loop" =>
       \/ \A f \in Files : pc[f] \in Answered
       \/ \E f \in Files : \/ pc[f] = "todo" /\ Turn(f)
                           \/ pc[f] = "undo" /\ undo # <<>>
                           \/ pc[f] \notin Answered \cup {"todo", "undo"}

\* Inductive form of UploadGoesOn: a file whose objects are removed has some left.
UndoShape == \A f \in Files : pc[f] = "undo" => Len(undo) \in 1..3

\* The client gets an answer for every file of an admissible request, even when
\* every call fails.  Needs FairSpec.
UploadAnswered == Admissible => <>(rpc = "answered")
=============================================================================

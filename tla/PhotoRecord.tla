----------------------------- MODULE PhotoRecord -----------------------------
(***************************************************************************)
(* The record of one photo while clients edit it and the goroutine that    *)
(* recognises its bibs runs: UpdatePhoto, DeletePhoto, AddBib, DeleteBib   *)
(* and processBibRecognition of the photo service.                         *)
(*                                                                         *)
(* No call holds a transaction over two statements, so every statement is  *)
(* a step of its own and what one call has read may be stale when it       *)
(* writes.  A bib value is what is left of it after TrimSpace; Norm is     *)
(* normalizeBib, and NoBib the empty string.                               *)
(***************************************************************************)
EXTENDS Integers, Sequences, FiniteSets, Outcomes

CONSTANTS
  Clients,       \* one call each
  Managers,      \* the clients canManagePhoto accepts
  Requests,      \* what a client may ask for: see Asked
  Values,        \* the bib values in requests and in recognizer responses
  NoBib,         \* the empty string, as a value and as a normal form
  Norm,          \* normalizeBib
  None,          \* nil
  Stages,        \* the ids of stages
  KnownStages,   \* those GetStageByID finds in the competition
  Responses,     \* what the OCR service may answer
  Recognizing,   \* whether the upload scheduled a recognition
  Outcome,       \* what may become of a statement
  MayTimeOut     \* whether the two minutes of a recognition may run out

Operations == {"update", "delete", "add", "unbib"}
Statuses == {"pending", "processing", "completed", "not_found", "failed"}
\* One request shape for the four operations; what an operation does not read
\* is None.  "keep" stands for a field that is absent.
Asked == [op : Operations, value : Values \cup {NoBib, None, "keep"},
          stage : Stages \cup {None, "keep"}]
OcrAnswer == [status : Statuses \cup {"unknown"}, bibs : Seq(Values \cup {NoBib}),
             bib : Values \cup {NoBib, None}]

ASSUME RequestsAssumption ==
  /\ Managers \subseteq Clients
  /\ Requests \subseteq Asked
  /\ \A q \in Requests : q.op = "add" => q.value \in Values \cup {NoBib}
  /\ KnownStages \subseteq Stages
  /\ None \notin Clients
ASSUME ValuesAssumption ==
  /\ NoBib \notin Values /\ None \notin Values
  /\ "keep" \notin Values \cup {NoBib, None}
  /\ Norm \in [Values \cup {NoBib} -> Values \cup {NoBib}]
  /\ Norm[NoBib] = NoBib
ASSUME AnswersAssumption ==
  /\ \A a \in Responses : a \in OcrAnswer
  /\ Recognizing \in BOOLEAN /\ MayTimeOut \in BOOLEAN
  /\ Outcome \subseteq AllOutcomes /\ "ok" \in Outcome

VARIABLES
  bibs,       \* photo_bibs of the photo
  nextId,     \* the id of the next bib: ids grow with created_at
  primary, stage, status,   \* primary_bib, stage_id, bib_recognition_status
  deletedBy,  \* deleted_by, set with deleted_at
  call,       \* the calls of the clients
  ocr         \* the recognition

bibVars == <<bibs, nextId>>
photo == <<bibVars, primary, stage, status, deletedBy>>
vars == <<photo, call, ocr>>

Ids == {b.id : b \in bibs}
Norms == {Norm[b.value] : b \in bibs}

\* The unique index uq_photo_bibs_photo_normalized_bib.
Duplicate(v) == Norm[v] \in Norms
InsertBib(v, source) ==
  /\ bibs' = bibs \cup {[id |-> nextId, value |-> v, source |-> source]}
  /\ nextId' = nextId + 1

-----------------------------------------------------------------------------
(* The calls of the clients.                                               *)

\* A call ends at "ok" or answers an error: at "partly" when AddBib or DeleteBib
\* breaks off after a statement that wrote, at "error" otherwise.
Goto(c, pc) == call' = [call EXCEPT ![c].pc = pc]
\* Where the first statement of a call that writes leads.
Answered(o, pc) == CASE o = "ok" -> pc [] o = "fail" -> "error" [] OTHER -> "partly"

FirstStep(op) == CASE op = "add" -> "insert"
                   [] op = "delete" -> "delete"
                   [] OTHER -> "read"
Invalid(q) == q.op = "add" /\ Norm[q.value] = NoBib

\* Where the checks every operation begins with lead.
Checked(c, q, o) ==
  IF Errs(o) \/ deletedBy # None \/ c \notin Managers \/ Invalid(q)
  THEN "error" ELSE FirstStep(q.op)

\* A client names a bib it has seen, or (0) one that never was.
GetPhotoAccessInfo(c) ==
  /\ call[c].pc = "start"
  /\ \E q \in Requests, o \in Outcome, id \in 0..(nextId - 1) :
       /\ q.op # "unbib" => id = 0
       /\ call' = [call EXCEPT ![c] =
            [pc |-> Checked(c, q, o), op |-> q.op, value |-> q.value, stage |-> q.stage,
             bib |-> id, seen |-> None, seenStage |-> None]]
  /\ UNCHANGED <<photo, ocr>>

\* The primary bib and the stage UpdatePhoto will write, given what it has read.
NewPrimary(asked) == CASE asked = "keep" -> primary
                       [] asked = NoBib -> None
                       [] OTHER -> asked
NewStage(asked) == IF asked = "keep" THEN stage ELSE asked

GetPhotoByID(c) ==
  /\ call[c].pc = "read"
  /\ \E o \in Outcome :
       IF Errs(o) THEN Goto(c, "error")
       ELSE \/ /\ call[c].op = "unbib"
               /\ call' = [call EXCEPT ![c] = [@ EXCEPT !.pc = "find", !.seen = primary]]
            \/ /\ call[c].op = "update"
               /\ IF call[c].stage \in Stages \ KnownStages THEN Goto(c, "error")
                  ELSE call' = [call EXCEPT ![c] = [@ EXCEPT !.pc = "write",
                                            !.seen = NewPrimary(call[c].value),
                                            !.seenStage = NewStage(call[c].stage)]]
  /\ UNCHANGED <<photo, ocr>>

\* An update that is written still answers an error when the photo cannot be read
\* back for the answer.
UpdatePhoto(c) ==
  /\ call[c].pc = "write"
  /\ \E o, hydrate \in Outcome :
       /\ IF Applied(o) THEN primary' = call[c].seen /\ stage' = call[c].seenStage
          ELSE UNCHANGED <<primary, stage>>
       /\ Goto(c, IF Errs(o) \/ Errs(hydrate) THEN "error" ELSE "ok")
  /\ UNCHANGED <<bibVars, status, deletedBy, ocr>>

\* Mutation: the statement without AND deleted_at IS NULL.
SoftDeleteAgain(c) ==
  /\ call[c].pc = "delete"
  /\ deletedBy' = c
  /\ Goto(c, "ok")
  /\ UNCHANGED <<bibVars, primary, stage, status, ocr>>

\* WHERE id = $1 AND deleted_at IS NULL; no row affected is an error.
SoftDeletePhoto(c) ==
  /\ call[c].pc = "delete"
  /\ IF deletedBy # None THEN Goto(c, "error") /\ UNCHANGED deletedBy
     ELSE \E o \in Outcome :
            /\ deletedBy' = IF Applied(o) THEN c ELSE None
            /\ Goto(c, IF Errs(o) THEN "error" ELSE "ok")
  /\ UNCHANGED <<bibVars, primary, stage, status, ocr>>

AddPhotoBib(c) ==
  /\ call[c].pc = "insert"
  /\ IF Duplicate(call[c].value) THEN Goto(c, "error") /\ UNCHANGED bibVars
     ELSE \E o \in Outcome :
            /\ IF Applied(o) THEN InsertBib(call[c].value, "manual") ELSE UNCHANGED bibVars
            /\ Goto(c, Answered(o, "check"))
  /\ UNCHANGED <<primary, stage, status, deletedBy, ocr>>

\* Mutation: the first bib is not made the primary one.
NeedsPrimaryNever == FALSE
NeedsPrimary == primary = None

\* AddBib reads the photo after it has added the bib.
CheckPrimary(c) ==
  /\ call[c].pc = "check"
  /\ \E o \in Outcome :
       IF Errs(o) THEN Goto(c, "partly")
       ELSE IF NeedsPrimary
            THEN call' = [call EXCEPT ![c] = [@ EXCEPT !.pc = "primary", !.seen = call[c].value]]
            ELSE Goto(c, "ok")
  /\ UNCHANGED <<photo, ocr>>

GetPhotoBibByID(c) ==
  /\ call[c].pc = "find"
  /\ \E o \in Outcome :
       \/ (Errs(o) \/ call[c].bib \notin Ids) /\ Goto(c, "error")
       \/ \E b \in bibs :
            /\ ~Errs(o) /\ b.id = call[c].bib
            /\ call' = [call EXCEPT ![c] = [@ EXCEPT !.pc = "remove", !.value = b.value]]
  /\ UNCHANGED <<photo, ocr>>

\* Mutation: a DELETE that affects no row is taken for a success.
DeletePhotoBibBlindly(c) ==
  /\ call[c].pc = "remove"
  /\ bibs' = {b \in bibs : b.id # call[c].bib}
  /\ Goto(c, IF call[c].seen = call[c].value THEN "list" ELSE "ok")
  /\ UNCHANGED <<nextId, primary, stage, status, deletedBy, ocr>>

DeletePhotoBib(c) ==
  /\ call[c].pc = "remove"
  /\ \E o \in Outcome :
       /\ bibs' = IF Applied(o) THEN {b \in bibs : b.id # call[c].bib} ELSE bibs
       /\ Goto(c, IF call[c].bib \notin Ids THEN "error"
                  ELSE Answered(o, IF call[c].seen = call[c].value THEN "list" ELSE "ok"))
  /\ UNCHANGED <<nextId, primary, stage, status, deletedBy, ocr>>

Oldest == {b \in bibs : \A x \in bibs : b.id <= x.id}
NextPrimary == IF Oldest = {} THEN None ELSE (CHOOSE b \in Oldest : TRUE).value

ListPhotoBibs(c) ==
  /\ call[c].pc = "list"
  /\ \E o \in Outcome :
       IF Errs(o) THEN Goto(c, "partly")
       ELSE call' = [call EXCEPT ![c] = [@ EXCEPT !.pc = "primary", !.seen = NextPrimary]]
  /\ UNCHANGED <<photo, ocr>>

\* Mutation: the statement is skipped when there is no other bib.
SetPrimaryUnlessNone(c) ==
  /\ call[c].pc = "primary"
  /\ primary' = IF call[c].seen = None THEN primary ELSE call[c].seen
  /\ Goto(c, "ok")
  /\ UNCHANGED <<bibVars, stage, status, deletedBy, ocr>>

\* The last step of AddBib, and of DeleteBib.
SetPrimaryBib(c) ==
  /\ call[c].pc = "primary"
  /\ \E o \in Outcome :
       /\ primary' = IF Applied(o) THEN call[c].seen ELSE primary
       /\ Goto(c, IF Errs(o) THEN "partly" ELSE "ok")
  /\ UNCHANGED <<bibVars, stage, status, deletedBy, ocr>>

ClientStep(c) ==
  \/ GetPhotoAccessInfo(c) \/ GetPhotoByID(c) \/ UpdatePhoto(c)
  \/ SoftDeletePhoto(c)
  \/ AddPhotoBib(c) \/ CheckPrimary(c)
  \/ GetPhotoBibByID(c) \/ DeletePhotoBib(c) \/ ListPhotoBibs(c)
  \/ SetPrimaryBib(c)

-----------------------------------------------------------------------------
(* processBibRecognition.  Its context covers every call it makes, the      *)
(* writes of its verdict included: once it has run out, they all fail.      *)

OcrOutcome == IF ocr.late THEN {"fail"} ELSE Outcome
Finish(verdict) == ocr' = [ocr EXCEPT !.pc = "finish", !.verdict = verdict]
\* Observation: broken when a statement of it failed that was to write.
FinishBroken(verdict, o) ==
  ocr' = [ocr EXCEPT !.pc = "finish", !.verdict = verdict, !.broken = Errs(o)]

MarkProcessing ==
  /\ ocr.pc = "scheduled"
  /\ \E o \in OcrOutcome : status' = IF Applied(o) THEN "processing" ELSE status
  /\ ocr' = [ocr EXCEPT !.pc = "open"]
  /\ UNCHANGED <<bibVars, primary, stage, deletedBy, call>>

OpenOriginal ==
  /\ ocr.pc = "open"
  /\ \E o \in OcrOutcome \cup {"fail"} :
       IF Errs(o) THEN Finish("failed") ELSE ocr' = [ocr EXCEPT !.pc = "recognize"]
  /\ UNCHANGED <<photo, call>>

\* The bibs of a response: the list or, when nothing in it is named, the single
\* bib of the old format.  (The loop skips the blank ones.)
RecognizedBibs(a) ==
  IF (\A i \in 1..Len(a.bibs) : a.bibs[i] = NoBib) /\ a.bib \notin {None, NoBib}
  THEN <<a.bib>> ELSE a.bibs

RecognizeBib ==
  /\ ocr.pc = "recognize"
  /\ \/ Finish("failed")
     \/ /\ ~ocr.late
        /\ \E a \in Responses :
             LET found == RecognizedBibs(a) IN
             \/ /\ a.status = "completed" /\ found # <<>>
                /\ ocr' = [ocr EXCEPT !.pc = "add", !.found = found, !.left = found]
             \/ /\ a.status = "not_found" \/ (a.status = "completed" /\ found = <<>>)
                /\ Finish("not_found")
             \/ a.status \notin {"completed", "not_found"} /\ Finish("failed")
  /\ UNCHANGED <<photo, call>>

\* Mutation: one bib is enough.
CountedAndStop == [ocr EXCEPT !.left = <<>>, !.first = Head(ocr.left)]
Counted == [ocr EXCEPT !.left = Tail(@),
                       !.first = IF @ = None THEN Head(ocr.left) ELSE @]

\* One pass of the loop: a bib without a normal form is skipped, one that is
\* already there counts as if it had been added.
AddRecognized ==
  LET v == Head(ocr.left) IN
  /\ ocr.pc = "add"
  /\ ocr.left # <<>>
  /\ IF Norm[v] = NoBib
     THEN ocr' = [ocr EXCEPT !.left = Tail(@)] /\ UNCHANGED bibVars
     ELSE \E o \in OcrOutcome :
            /\ IF Applied(o) /\ ~Duplicate(v) THEN InsertBib(v, "ocr") ELSE UNCHANGED bibVars
            /\ IF Errs(o) THEN FinishBroken("failed", o) ELSE ocr' = Counted
  /\ UNCHANGED <<primary, stage, status, deletedBy, call>>

NothingAdded ==
  /\ ocr.pc = "add" /\ ocr.left = <<>> /\ ocr.first = None
  /\ Finish("not_found")
  /\ UNCHANGED <<photo, call>>

\* Whatever the primary bib is by now, and whether or not the write succeeds.
SetRecognizedPrimary ==
  /\ ocr.pc = "add" /\ ocr.left = <<>> /\ ocr.first # None
  /\ \E o \in OcrOutcome :
       /\ primary' = IF Applied(o) THEN ocr.first ELSE primary
       /\ FinishBroken("completed", o)
  /\ UNCHANGED <<bibVars, stage, status, deletedBy, call>>

\* Mutation: the verdict of a recognition that failed is not written.
FailureUnwritten ==
  /\ ocr.pc = "finish"
  /\ status' = IF ocr.verdict = "failed" THEN status ELSE ocr.verdict
  /\ ocr' = [ocr EXCEPT !.pc = "ended"]
  /\ UNCHANGED <<bibVars, primary, stage, deletedBy, call>>

UpdateBibRecognitionStatus ==
  /\ ocr.pc = "finish"
  /\ \E o \in OcrOutcome :
       /\ status' = IF Applied(o) THEN ocr.verdict ELSE status
       /\ ocr' = [ocr EXCEPT !.pc = "ended", !.broken = @ \/ Errs(o)]
  /\ UNCHANGED <<bibVars, primary, stage, deletedBy, call>>

TimeOut ==
  /\ MayTimeOut /\ ocr.pc \notin {"none", "scheduled", "ended"} /\ ~ocr.late
  /\ ocr' = [ocr EXCEPT !.late = TRUE]
  /\ UNCHANGED <<photo, call>>

OcrStep ==
  \/ MarkProcessing \/ OpenOriginal \/ RecognizeBib
  \/ AddRecognized \/ NothingAdded \/ SetRecognizedPrimary
  \/ UpdateBibRecognitionStatus

-----------------------------------------------------------------------------
Init ==
  /\ bibs = {} /\ nextId = 1
  /\ primary = None /\ stage = None /\ status = "pending"
  /\ deletedBy = None
  /\ call = [c \in Clients |->
               [pc |-> "start", op |-> "add", value |-> None, stage |-> None,
                bib |-> 0, seen |-> None, seenStage |-> None]]
  /\ ocr = [pc |-> IF Recognizing THEN "scheduled" ELSE "none", found |-> <<>>,
            left |-> <<>>, first |-> None, verdict |-> "pending", late |-> FALSE,
            broken |-> FALSE]

Next == OcrStep \/ TimeOut \/ \E c \in Clients : ClientStep(c)

Spec == Init /\ [][Next]_vars

\* The goroutine of a recognition, and those that serve a request that has begun,
\* are scheduled again, and each of their calls ends.
FairSpec ==
  /\ Spec /\ WF_vars(OcrStep)
  /\ \A c \in Clients : WF_vars(call[c].pc # "start" /\ ClientStep(c))
=============================================================================

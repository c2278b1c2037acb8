------------------------- MODULE PhotoRecordProofs -------------------------
(***************************************************************************)
(* Proofs about PhotoRecord, for any number of clients and bibs.           *)
(***************************************************************************)
EXTENDS PhotoRecordProperties, SequenceTheorems, TLAPS

\* What an unfinished step may do to a call: it stays the same call.
Same(c) == /\ call'[c].op = call[c].op
           /\ call'[c].bib = call[c].bib
           /\ \A d \in Clients \ {c} : call'[d] = call[d]

\* Goto moves one call and leaves what it knows and all other calls alone.
LEMMA GotoMoves ==
  ASSUME TypeOk, NEW c \in Clients, NEW pc \in CallPcs, Goto(c, pc)
  PROVE  /\ call' \in [Clients -> CallRecord]
         /\ call'[c].pc = pc
         /\ call'[c].value = call[c].value
         /\ Same(c)
  BY DEF TypeOk, Goto, CallRecord, Same

\* The reads that make a call ready to write, or to go on.
LEMMA SeenMoves ==
  ASSUME TypeOk, NEW c \in Clients, NEW pc \in CallPcs, NEW p \in Values \cup {None},
         call' = [call EXCEPT ![c] = [@ EXCEPT !.pc = pc, !.seen = p]]
  PROVE  /\ call' \in [Clients -> CallRecord]
         /\ call'[c].pc = pc
         /\ call'[c].value = call[c].value
         /\ Same(c)
<1>1. call[c] \in CallRecord
  BY DEF TypeOk
<1>2. call'[c] = [call[c] EXCEPT !.pc = pc, !.seen = p]
  BY DEF TypeOk
<1> QED BY <1>1, <1>2 DEF TypeOk, CallRecord, Same

\* A call that reads and goes on.
LEMMA ReadMoves ==
  ASSUME TypeOk, NEW c \in Clients, NEW pc \in CallPcs,
         NEW p \in Values \cup {None}, NEW st \in Stages \cup {None},
         call' = [call EXCEPT ![c] = [@ EXCEPT !.pc = pc, !.seen = p, !.seenStage = st]]
  PROVE  /\ call' \in [Clients -> CallRecord]
         /\ call'[c].pc = pc
         /\ call'[c].value = call[c].value
         /\ Same(c)
<1>1. call[c] \in CallRecord
  BY DEF TypeOk
<1>2. call'[c] = [call[c] EXCEPT !.pc = pc, !.seen = p, !.seenStage = st]
  BY DEF TypeOk
<1> QED BY <1>1, <1>2 DEF TypeOk, CallRecord, Same

\* The value that DeleteBib finds in the row it will remove.
LEMMA FindMoves ==
  ASSUME TypeOk, NEW c \in Clients, NEW v \in Values,
         call' = [call EXCEPT ![c] = [@ EXCEPT !.pc = "remove", !.value = v]]
  PROVE  /\ call' \in [Clients -> CallRecord]
         /\ call'[c].pc = "remove"
         /\ Same(c)
<1>1. call[c] \in CallRecord
  BY DEF TypeOk
<1>2. call'[c] = [call[c] EXCEPT !.pc = "remove", !.value = v]
  BY DEF TypeOk
<1> QED BY <1>1, <1>2 DEF TypeOk, CallRecord, CallPcs, Same

\* The row a bib is inserted as.
LEMMA InsertType ==
  ASSUME TypeOk, NEW v \in Values, NEW source \in {"manual", "ocr"}, InsertBib(v, source)
  PROVE  bibs' \subseteq BibRow /\ nextId' \in Nat
  BY DEF TypeOk, InsertBib, BibRow

-----------------------------------------------------------------------------
\* The call record a client's first step makes.
LEMMA AccessType ==
  ASSUME TypeOk, CheckedInv, NEW c \in Clients, GetPhotoAccessInfo(c)
  PROVE  TypeOk' /\ CheckedInv'
<1>1. PICK q \in Requests, o \in Outcome, id \in 0..(nextId - 1) :
        call' = [call EXCEPT ![c] =
          [pc |-> Checked(c, q, o), op |-> q.op, value |-> q.value, stage |-> q.stage,
           bib |-> id, seen |-> None, seenStage |-> None]]
  BY DEF GetPhotoAccessInfo
<1>2. q \in Asked /\ (q.op = "add" => q.value \in Values \cup {NoBib})
  BY RequestsAssumption
<1>3. Checked(c, q, o) \in CallPcs
  BY DEF Checked, FirstStep, CallPcs
<1>4. Checked(c, q, o) \in {"insert", "check"} => q.value \in Values
  BY <1>2, ValuesAssumption DEF Checked, FirstStep, Invalid
<1>5. id \in Nat
  BY DEF TypeOk
<1>6. call'[c] \in CallRecord /\ (call'[c].pc \in {"insert", "check"} => call'[c].value \in Values)
  <2>1. call'[c] = [pc |-> Checked(c, q, o), op |-> q.op, value |-> q.value,
                    stage |-> q.stage, bib |-> id, seen |-> None, seenStage |-> None]
    BY <1>1 DEF TypeOk
  <2> QED BY <1>2, <1>3, <1>4, <1>5, <2>1 DEF CallRecord, Asked
<1>7. \A d \in Clients \ {c} : call'[d] = call[d]
  BY <1>1 DEF TypeOk
<1>8. call' \in [Clients -> CallRecord]
  <2>1. \A d \in Clients : call'[d] \in CallRecord
    BY <1>6, <1>7 DEF TypeOk
  <2>2. call' = [d \in Clients |-> call'[d]]
    BY <1>1 DEF TypeOk
  <2> QED BY <2>1, <2>2
<1> QED BY <1>6, <1>7, <1>8 DEF GetPhotoAccessInfo, photo, bibVars, TypeOk, CheckedInv

\* Every variable keeps its type, and bibs stay checked, in a client's step.
LEMMA ClientTypeOk ==
  ASSUME TypeOk, CheckedInv, NEW c \in Clients, ClientStep(c)
  PROVE  TypeOk' /\ CheckedInv'
<1>0. {"error", "partly", "ok", "find", "write", "check", "primary", "list"} \subseteq CallPcs
      /\ None \in Values \cup {None}
  BY DEF CallPcs
<1>1. CASE GetPhotoAccessInfo(c) BY <1>1, AccessType
<1>2. CASE GetPhotoByID(c)
  <2>1. NewPrimary(call[c].value) \in Values \cup {None}
    BY DEF NewPrimary, TypeOk, CallRecord
  <2>2. call[c].stage \in Stages \cup {None, "keep"} /\ NewStage(call[c].stage) \in Stages \cup {None}
    BY DEF NewStage, TypeOk, CallRecord
  <2>3. /\ call' \in [Clients -> CallRecord]
        /\ call'[c].pc \notin {"insert", "check"}
        /\ \A d \in Clients \ {c} : call'[d] = call[d]
    <3>1. CASE Goto(c, "error")
      BY <1>0, <3>1, GotoMoves DEF Same
    <3>2. CASE call' = [call EXCEPT ![c] = [@ EXCEPT !.pc = "find", !.seen = primary]]
      BY <1>0, <3>2, SeenMoves DEF TypeOk, Same
    <3>3. CASE call' = [call EXCEPT ![c] = [@ EXCEPT !.pc = "write", !.seen = NewPrimary(call[c].value),
                                    !.seenStage = NewStage(call[c].stage)]]
      <4>1. PICK p \in Values \cup {None}, st \in Stages \cup {None} :
              call' = [call EXCEPT ![c] = [@ EXCEPT !.pc = "write", !.seen = p, !.seenStage = st]]
        BY <2>1, <2>2, <3>3
      <4>2. "write" \in CallPcs
        BY <1>0
      <4>3. call' \in [Clients -> CallRecord] /\ call'[c].pc = "write" /\ Same(c)
        BY <4>1, <4>2, ReadMoves
      <4> QED BY <4>3 DEF Same
    <3> QED BY <1>2, <3>1, <3>2, <3>3 DEF GetPhotoByID
  <2> QED BY <1>2, <2>3 DEF GetPhotoByID, photo, bibVars, TypeOk, CheckedInv
<1>3. ASSUME NEW pc \in {"error", "partly", "ok", "list"}, Goto(c, pc)
      PROVE  call' \in [Clients -> CallRecord] /\ CheckedInv'
  BY <1>0, <1>3, GotoMoves DEF CheckedInv, Same
<1>4. CASE UpdatePhoto(c)
  <2>1. call[c].seen \in Values \cup {None} /\ call[c].seenStage \in Stages \cup {None}
    BY DEF TypeOk, CallRecord
  <2> QED BY <1>3, <1>4, <2>1 DEF UpdatePhoto, bibVars, TypeOk
<1>5. CASE SoftDeletePhoto(c)
  BY <1>3, <1>5 DEF SoftDeletePhoto, bibVars, TypeOk
<1>6. CASE AddPhotoBib(c)
  <2>1. call[c].value \in Values
    BY <1>6 DEF AddPhotoBib, CheckedInv
  <2>2. bibs' \subseteq BibRow /\ nextId' \in Nat
    BY <1>6, <2>1, InsertType DEF AddPhotoBib, bibVars, TypeOk
  <2>3. call' \in [Clients -> CallRecord] /\ CheckedInv'
    <3>1. CASE Goto(c, "error") \/ Goto(c, "partly") BY <1>3, <3>1
    <3>2. CASE Goto(c, "check")
      BY <1>0, <2>1, <3>2, GotoMoves DEF CheckedInv, Same
    <3> QED BY <1>6, <3>1, <3>2 DEF AddPhotoBib, Answered
  <2> QED BY <1>6, <2>2, <2>3 DEF AddPhotoBib, TypeOk
<1>7. CASE CheckPrimary(c)
  <2>1. call[c].value \in Values
    BY <1>7 DEF CheckPrimary, CheckedInv
  <2>2. call' \in [Clients -> CallRecord] /\ CheckedInv'
    <3>1. CASE Goto(c, "partly") \/ Goto(c, "ok") BY <1>3, <3>1
    <3>2. CASE call' = [call EXCEPT ![c] = [@ EXCEPT !.pc = "primary", !.seen = call[c].value]]
      BY <1>0, <2>1, <3>2, SeenMoves DEF CheckedInv, Same
    <3> QED BY <1>7, <3>1, <3>2 DEF CheckPrimary
  <2> QED BY <1>7, <2>2 DEF CheckPrimary, photo, bibVars, TypeOk
<1>8. CASE GetPhotoBibByID(c)
  <2>1. call' \in [Clients -> CallRecord] /\ CheckedInv'
    <3>1. CASE Goto(c, "error") BY <1>3, <3>1
    <3>2. CASE \E b \in bibs : call' = [call EXCEPT ![c] = [@ EXCEPT !.pc = "remove", !.value = b.value]]
      <4>1. PICK b \in bibs : call' = [call EXCEPT ![c] = [@ EXCEPT !.pc = "remove", !.value = b.value]]
        BY <3>2
      <4>2. b.value \in Values
        BY DEF TypeOk, BibRow
      <4> QED BY <4>1, <4>2, FindMoves DEF CheckedInv, Same
    <3> QED BY <1>8, <3>1, <3>2 DEF GetPhotoBibByID
  <2> QED BY <1>8, <2>1 DEF GetPhotoBibByID, photo, bibVars, TypeOk
<1>9. CASE DeletePhotoBib(c)
  BY <1>3, <1>9 DEF DeletePhotoBib, TypeOk, Answered
<1>10. CASE ListPhotoBibs(c)
  <2>1. NextPrimary \in Values \cup {None}
    <3>1. CASE Oldest = {} BY <3>1 DEF NextPrimary
    <3>2. CASE Oldest # {}
      <4>1. (CHOOSE b \in Oldest : TRUE) \in bibs
        BY <3>2 DEF Oldest
      <4> QED BY <3>2, <4>1 DEF NextPrimary, TypeOk, BibRow
    <3> QED BY <3>1, <3>2
  <2>2. call' \in [Clients -> CallRecord] /\ CheckedInv'
    <3>1. CASE Goto(c, "partly") BY <1>3, <3>1
    <3>2. CASE call' = [call EXCEPT ![c] = [@ EXCEPT !.pc = "primary", !.seen = NextPrimary]]
      BY <1>0, <2>1, <3>2, SeenMoves DEF CheckedInv, Same
    <3> QED BY <1>10, <3>1, <3>2 DEF ListPhotoBibs
  <2> QED BY <1>10, <2>2 DEF ListPhotoBibs, photo, bibVars, TypeOk
<1>11. CASE SetPrimaryBib(c)
  <2>1. call[c].seen \in Values \cup {None}
    BY DEF TypeOk, CallRecord
  <2> QED BY <1>3, <1>11, <2>1 DEF SetPrimaryBib, bibVars, TypeOk
<1> QED BY <1>1, <1>2, <1>4, <1>5, <1>6, <1>7, <1>8, <1>9, <1>10, <1>11 DEF ClientStep

-----------------------------------------------------------------------------
\* The recognition's record when it has reached a verdict.
LEMMA FinishType ==
  ASSUME TypeOk, NEW verdict \in Statuses, Finish(verdict)
  PROVE  ocr' \in OcrRecord
  BY DEF TypeOk, Finish, OcrRecord

\* A recognition that broke off keeps the types.
LEMMA FinishBrokenType ==
  ASSUME TypeOk, NEW verdict \in Statuses, NEW o, FinishBroken(verdict, o)
  PROVE  ocr' \in OcrRecord
  BY DEF TypeOk, FinishBroken, OcrRecord, Errs

\* The first bib that is left, and the rest of them.
LEMMA LeftType ==
  ASSUME TypeOk, ocr.left # <<>>
  PROVE  /\ Head(ocr.left) \in Values \cup {NoBib}
         /\ Tail(ocr.left) \in Seq(Values \cup {NoBib})
  BY HeadTailProperties DEF TypeOk, OcrRecord

\* The bibs of a response are bib values or blank.
LEMMA FoundType ==
  ASSUME NEW a \in Responses
  PROVE  RecognizedBibs(a) \in Seq(Values \cup {NoBib})
<1>1. /\ a.bibs \in Seq(Values \cup {NoBib})
      /\ a.bib \in Values \cup {NoBib, None}
  BY AnswersAssumption DEF OcrAnswer
<1>2. CASE a.bib \in {None, NoBib} BY <1>1, <1>2 DEF RecognizedBibs
<1>3. CASE a.bib \in Values
  <2>1. <<a.bib>> \in Seq(Values \cup {NoBib})
    BY <1>3
  <2> QED BY <1>1, <2>1 DEF RecognizedBibs
<1> QED BY <1>1, <1>2, <1>3

\* Every variable keeps its type in a step of the recognition.
LEMMA OcrTypeOk ==
  ASSUME TypeOk, CheckedInv, OcrStep \/ TimeOut
  PROVE  TypeOk' /\ CheckedInv'
<1>0. {"pending", "processing", "completed", "not_found", "failed"} = Statuses
  BY DEF Statuses
<1>1. CASE MarkProcessing
  <2>1. ocr' \in OcrRecord
    BY <1>1 DEF MarkProcessing, TypeOk, OcrRecord
  <2> QED BY <1>0, <1>1, <2>1 DEF MarkProcessing, bibVars, TypeOk, CheckedInv
<1>2. CASE OpenOriginal
  <2>1. CASE Finish("failed")
    BY <1>0, <1>2, <2>1, FinishType DEF OpenOriginal, photo, bibVars, TypeOk, CheckedInv
  <2>2. CASE ocr' = [ocr EXCEPT !.pc = "recognize"]
    <3>1. ocr' \in OcrRecord
      BY <2>2 DEF TypeOk, OcrRecord
    <3> QED BY <1>2, <3>1 DEF OpenOriginal, photo, bibVars, TypeOk, CheckedInv
  <2> QED BY <1>2, <2>1, <2>2 DEF OpenOriginal
<1>3. CASE RecognizeBib
  <2>1. CASE Finish("failed") \/ Finish("not_found")
    BY <1>0, <2>1, <1>3, FinishType DEF RecognizeBib, photo, bibVars, TypeOk, CheckedInv
  <2>2. CASE \E a \in Responses :
               ocr' = [ocr EXCEPT !.pc = "add", !.found = RecognizedBibs(a),
                                  !.left = RecognizedBibs(a)]
    <3>1. PICK found \in Seq(Values \cup {NoBib}) :
            ocr' = [ocr EXCEPT !.pc = "add", !.found = found, !.left = found]
      BY <2>2, FoundType
    <3>2. ocr' \in OcrRecord
      BY <3>1 DEF TypeOk, OcrRecord
    <3> QED BY <1>3, <3>2 DEF RecognizeBib, photo, bibVars, TypeOk, CheckedInv
  <2> QED BY <1>3, <2>1, <2>2 DEF RecognizeBib
<1>4. CASE AddRecognized
  <2>1. ocr.left # <<>>
    BY <1>4 DEF AddRecognized
  <2>2. CASE Norm[Head(ocr.left)] = NoBib
    <3>1. ocr' = [ocr EXCEPT !.left = Tail(ocr.left)] /\ UNCHANGED bibVars
      BY <1>4, <2>2 DEF AddRecognized
    <3>2. ocr' \in OcrRecord
      BY <2>1, <3>1, LeftType DEF TypeOk, OcrRecord
    <3> QED BY <1>4, <3>1, <3>2 DEF AddRecognized, bibVars, TypeOk, CheckedInv
  <2>3. CASE Norm[Head(ocr.left)] # NoBib
    <3>1. Head(ocr.left) \in Values
      BY <2>1, <2>3, LeftType, ValuesAssumption
    <3>2. bibs' \subseteq BibRow /\ nextId' \in Nat
      BY <1>4, <2>3, <3>1, InsertType DEF AddRecognized, bibVars, TypeOk
    <3>3. Counted \in OcrRecord
      BY <2>1, <3>1, LeftType DEF Counted, TypeOk, OcrRecord
    <3>4. ocr' \in OcrRecord
      BY <1>0, <1>4, <2>3, <3>3, FinishBrokenType DEF AddRecognized
    <3> QED BY <1>4, <3>2, <3>4 DEF AddRecognized, TypeOk, CheckedInv
  <2> QED BY <2>2, <2>3
<1>5. CASE NothingAdded
  BY <1>0, <1>5, FinishType DEF NothingAdded, photo, bibVars, TypeOk, CheckedInv
<1>6. CASE SetRecognizedPrimary
  <2>1. primary' \in Values \cup {None}
    BY <1>6 DEF SetRecognizedPrimary, TypeOk, OcrRecord
  <2> QED BY <1>0, <1>6, <2>1, FinishBrokenType DEF SetRecognizedPrimary, bibVars, TypeOk, CheckedInv
<1>7. CASE UpdateBibRecognitionStatus
  <2>1. ocr' \in OcrRecord /\ status' \in Statuses
    BY <1>7 DEF UpdateBibRecognitionStatus, TypeOk, OcrRecord, Errs
  <2> QED BY <1>7, <2>1 DEF UpdateBibRecognitionStatus, bibVars, TypeOk, CheckedInv
<1>8. CASE TimeOut
  <2>1. ocr' \in OcrRecord
    BY <1>8 DEF TimeOut, TypeOk, OcrRecord
  <2> QED BY <1>8, <2>1 DEF TimeOut, photo, bibVars, TypeOk, CheckedInv
<1> QED BY <1>1, <1>2, <1>3, <1>4, <1>5, <1>6, <1>7, <1>8 DEF OcrStep

\* Every variable has its type, whatever the calls and the recognition do.
THEOREM RecordTypeCorrect == Spec => [](TypeOk /\ CheckedInv)
<1>1. Init => TypeOk /\ CheckedInv
  BY DEF Init, TypeOk, CheckedInv, CallRecord, CallPcs, Operations, Statuses, OcrRecord, BibRow
<1>2. TypeOk /\ CheckedInv /\ [Next]_vars => TypeOk' /\ CheckedInv'
  <2> SUFFICES ASSUME TypeOk, CheckedInv, [Next]_vars PROVE TypeOk' /\ CheckedInv'
    OBVIOUS
  <2>1. CASE OcrStep \/ TimeOut BY <2>1, OcrTypeOk
  <2>2. CASE \E c \in Clients : ClientStep(c) BY <2>2, ClientTypeOk
  <2>3. CASE UNCHANGED vars
    BY <2>3 DEF vars, photo, bibVars, TypeOk, CheckedInv
  <2> QED BY <2>1, <2>2, <2>3 DEF Next
<1> QED BY <1>1, <1>2, PTL DEF Spec

-----------------------------------------------------------------------------
\* What any step does to the rows: some go, or one is added with the next id.
Rows == \/ bibs' \subseteq bibs /\ nextId' = nextId
        \/ \E row : bibs' = bibs \cup {row} /\ row.id = nextId /\ nextId' = nextId + 1

\* A call that succeeds in deleting the photo, and one that removes a bib.
Deletes(c) == deletedBy = None /\ deletedBy' = c
Removes(c) == call[c].pc = "remove" /\ call[c].bib \in Ids
              /\ bibs' = {b \in bibs : b.id # call[c].bib}

\* What a client's step does to the other calls, the rows and deleted_by, and what
\* it takes to be among those that deleted the photo or removed a bib.
Moves(c) ==
  /\ call' \in [Clients -> CallRecord]
  /\ \A d \in Clients \ {c} : call'[d] = call[d]
  /\ call'[c].bib = call[c].bib \/ (call[c].pc = "start" /\ call'[c].bib < nextId)
  /\ call'[c].op = call[c].op
       \/ (call[c].pc = "start" /\ call'[c].pc \notin Gone)
  /\ call'[c].op = "delete" /\ call'[c].pc = "ok" => Deletes(c)
  /\ call'[c].op = "unbib" /\ call'[c].pc \in Gone
       => call[c].pc \in {"list", "primary"} \/ Removes(c)
  /\ deletedBy # None => deletedBy' = deletedBy
  /\ Rows
  /\ LET k == call'[c] IN
       /\ k.pc = "delete" => k.op = "delete"
       /\ k.pc = "write" => k.op = "update"
       /\ k.pc \in {"insert", "check"} => k.op = "add"
       /\ k.pc \in {"find", "remove", "list"} => k.op = "unbib"
       /\ k.pc = "read" => k.op \in {"update", "unbib"}
       /\ k.pc = "primary" => k.op \in {"add", "unbib"}

\* An inserted bib has the next id.
LEMMA InsertRows ==
  ASSUME NEW v, NEW source, InsertBib(v, source)
  PROVE  Rows
<1>1. [id |-> nextId, value |-> v, source |-> source].id = nextId
  OBVIOUS
<1> QED BY <1>1 DEF InsertBib, Rows

\* A client's first step, and then any of its steps, moves its call as Moves says.
LEMMA AccessMoves ==
  ASSUME TypeOk, CheckedInv, NEW c \in Clients, GetPhotoAccessInfo(c)
  PROVE  Moves(c)
<1>1. PICK q \in Requests, o \in Outcome, id \in 0..(nextId - 1) :
        call' = [call EXCEPT ![c] =
          [pc |-> Checked(c, q, o), op |-> q.op, value |-> q.value, stage |-> q.stage,
           bib |-> id, seen |-> None, seenStage |-> None]]
  BY DEF GetPhotoAccessInfo
<1>2. call'[c].pc = Checked(c, q, o) /\ call'[c].op = q.op /\ call'[c].bib = id
  BY <1>1 DEF TypeOk
<1>3. q.op \in Operations
  BY RequestsAssumption DEF Asked
<1>4. /\ Checked(c, q, o) \in {"error", "insert", "delete", "read"}
      /\ Checked(c, q, o) = "insert" => q.op = "add"
      /\ Checked(c, q, o) = "delete" => q.op = "delete"
      /\ Checked(c, q, o) = "read" => q.op \in {"update", "unbib"}
  <2>1. CASE Checked(c, q, o) = "error" BY <2>1
  <2>2. CASE Checked(c, q, o) = FirstStep(q.op)
    <3>1. CASE q.op = "add" BY <2>2, <3>1 DEF FirstStep
    <3>2. CASE q.op = "delete" BY <2>2, <3>2 DEF FirstStep
    <3>3. CASE q.op \in {"update", "unbib"}
      <4>1. FirstStep(q.op) = "read"
        BY <3>3 DEF FirstStep
      <4> QED BY <2>2, <3>3, <4>1
    <3> QED BY <1>3, <3>1, <3>2, <3>3 DEF Operations
  <2> QED BY <2>1, <2>2 DEF Checked
<1>5. id < nextId
  BY DEF TypeOk
<1>6. call' \in [Clients -> CallRecord]
  BY AccessType DEF TypeOk
<1>7. \A d \in Clients \ {c} : call'[d] = call[d]
  BY <1>1 DEF TypeOk
<1>8. call[c].pc = "start" /\ UNCHANGED photo
  BY DEF GetPhotoAccessInfo
<1> QED BY <1>2, <1>4, <1>5, <1>6, <1>7, <1>8 DEF Gone, Moves, Rows, photo, bibVars

\* Every step of a client is one of these moves.
LEMMA ClientMoves ==
  ASSUME TypeOk, CheckedInv, OpInv, NEW c \in Clients, ClientStep(c)
  PROVE  Moves(c)
<1>0. {"error", "partly", "ok", "find", "write", "check", "primary", "list", "remove"}
        \subseteq CallPcs
  BY DEF CallPcs
<1>a. call' \in [Clients -> CallRecord]
  BY ClientTypeOk DEF TypeOk
<1>1. CASE GetPhotoAccessInfo(c) BY <1>1, AccessMoves
<1>2. CASE GetPhotoByID(c)
  <2>1. /\ Same(c)
        /\ \/ call'[c].pc = "error"
           \/ call'[c].pc = "find" /\ call[c].op = "unbib"
           \/ call'[c].pc = "write" /\ call[c].op = "update"
    <3>1. CASE Goto(c, "error") BY <1>0, <3>1, GotoMoves
    <3>2. CASE /\ call[c].op = "unbib"
               /\ call' = [call EXCEPT ![c] = [@ EXCEPT !.pc = "find", !.seen = primary]]
      BY <1>0, <3>2, SeenMoves DEF TypeOk
    <3>3. CASE /\ call[c].op = "update"
               /\ call' = [call EXCEPT ![c] = [@ EXCEPT !.pc = "write",
                                       !.seen = NewPrimary(call[c].value),
                                       !.seenStage = NewStage(call[c].stage)]]
      <4>1. call'[c] = [call[c] EXCEPT !.pc = "write", !.seen = NewPrimary(call[c].value),
                                       !.seenStage = NewStage(call[c].stage)]
        BY <3>3 DEF TypeOk
      <4>2. \A d \in Clients \ {c} : call'[d] = call[d]
        BY <3>3 DEF TypeOk
      <4>3. call[c] \in CallRecord
        BY DEF TypeOk
      <4>4. /\ call'[c].op = call[c].op /\ call'[c].bib = call[c].bib
            /\ call'[c].pc = "write"
        BY <4>1, <4>3 DEF CallRecord
      <4> QED BY <3>3, <4>2, <4>4 DEF Same
    <3> QED BY <1>2, <3>1, <3>2, <3>3 DEF GetPhotoByID
  <2> QED BY <1>a, <1>2, <2>1 DEF Gone, GetPhotoByID, photo, bibVars, Moves, Rows, Same
<1>4. CASE UpdatePhoto(c)
  <2>1. call[c].op = "update" /\ Same(c) /\ call'[c].pc \in {"error", "ok"}
    BY <1>0, <1>4, GotoMoves DEF UpdatePhoto, OpInv
  <2> QED BY <1>a, <1>4, <2>1 DEF UpdatePhoto, bibVars, Moves, Rows, Same
<1>5. CASE SoftDeletePhoto(c)
  <2>1. call[c].op = "delete" /\ Same(c) /\ call'[c].pc \in {"error", "ok"}
    BY <1>0, <1>5, GotoMoves DEF SoftDeletePhoto, OpInv
  <2>2. call'[c].pc = "ok" => Deletes(c)
    <3>1. CASE deletedBy # None
      BY <1>0, <1>5, <3>1, GotoMoves DEF SoftDeletePhoto
    <3>2. CASE deletedBy = None
      BY <1>0, <1>5, <3>2, GotoMoves DEF SoftDeletePhoto, Deletes, Applied, Errs
    <3> QED BY <3>1, <3>2
  <2>3. deletedBy # None => deletedBy' = deletedBy
    BY <1>5 DEF SoftDeletePhoto
  <2> QED BY <1>a, <1>5, <2>1, <2>2, <2>3 DEF SoftDeletePhoto, bibVars, Moves, Rows, Same
<1>6. CASE AddPhotoBib(c)
  <2>1. call[c].op = "add" /\ Same(c) /\ call'[c].pc \in {"error", "partly", "check"}
    BY <1>0, <1>6, GotoMoves DEF AddPhotoBib, Answered, OpInv
  <2>2. Rows
    BY <1>6, InsertRows DEF AddPhotoBib, bibVars, Rows
  <2> QED BY <1>a, <1>6, <2>1, <2>2 DEF AddPhotoBib, Moves, Same
<1>7. CASE CheckPrimary(c)
  <2>1. call[c].op = "add" /\ call[c].value \in Values
    BY <1>7 DEF CheckPrimary, OpInv, CheckedInv
  <2>2. Same(c) /\ call'[c].pc \in {"partly", "ok", "primary"}
    BY <1>0, <1>7, <2>1, GotoMoves, SeenMoves DEF CheckPrimary
  <2> QED BY <1>a, <1>7, <2>1, <2>2 DEF CheckPrimary, photo, bibVars, Moves, Rows, Same
<1>8. CASE GetPhotoBibByID(c)
  <2>1. call[c].op = "unbib"
    BY <1>8 DEF GetPhotoBibByID, OpInv
  <2>2. Same(c) /\ call'[c].pc \in {"error", "remove"}
    <3>1. CASE Goto(c, "error") BY <1>0, <3>1, GotoMoves
    <3>2. CASE \E b \in bibs : call' = [call EXCEPT ![c] = [@ EXCEPT !.pc = "remove", !.value = b.value]]
      BY <3>2, FindMoves DEF TypeOk, BibRow
    <3> QED BY <1>8, <3>1, <3>2 DEF GetPhotoBibByID
  <2> QED BY <1>a, <1>8, <2>1, <2>2 DEF Gone, GetPhotoBibByID, photo, bibVars, Moves, Rows, Same
<1>9. CASE DeletePhotoBib(c)
  <2>1. call[c].op = "unbib" /\ Same(c)
        /\ call'[c].pc \in {"error", "partly", "ok", "list"}
    BY <1>0, <1>9, GotoMoves DEF DeletePhotoBib, Answered, OpInv
  <2>2. call'[c].pc \in {"partly", "list", "ok"} => Removes(c)
    BY <1>0, <1>9, GotoMoves DEF DeletePhotoBib, Removes, Applied, Answered
  <2>3. bibs' \subseteq bibs
    BY <1>9 DEF DeletePhotoBib
  <2> QED BY <1>a, <1>9, <2>1, <2>2, <2>3 DEF Gone, DeletePhotoBib, Moves, Rows, Same
<1>10. CASE ListPhotoBibs(c)
  <2>1. call[c].op = "unbib" /\ call[c].pc = "list"
    BY <1>10 DEF ListPhotoBibs, OpInv
  <2>2. Same(c) /\ call'[c].pc \in {"partly", "primary"}
    <3>1. CASE Goto(c, "partly") BY <1>0, <3>1, GotoMoves
    <3>2. CASE call' = [call EXCEPT ![c] = [@ EXCEPT !.pc = "primary", !.seen = NextPrimary]]
      BY <3>2 DEF TypeOk, CallRecord, Same
    <3> QED BY <1>10, <3>1, <3>2 DEF ListPhotoBibs
  <2> QED BY <1>a, <1>10, <2>1, <2>2 DEF ListPhotoBibs, photo, bibVars, Moves, Rows, Same
<1>11. CASE SetPrimaryBib(c)
  <2>1. /\ call[c].op \in {"add", "unbib"} /\ call[c].pc = "primary"
        /\ Same(c) /\ call'[c].pc \in {"partly", "ok"}
    BY <1>0, <1>11, GotoMoves DEF SetPrimaryBib, OpInv
  <2> QED BY <1>a, <1>11, <2>1 DEF SetPrimaryBib, bibVars, Moves, Rows, Same
<1> QED BY <1>1, <1>2, <1>4, <1>5, <1>6, <1>7, <1>8, <1>9, <1>10, <1>11 DEF ClientStep

\* A step of the recognition adds a bib at most.
LEMMA OcrMoves ==
  ASSUME OcrStep \/ TimeOut
  PROVE  Rows /\ UNCHANGED <<call, deletedBy>>
<1>1. CASE AddRecognized
  <2>1. Rows
    BY <1>1, InsertRows DEF AddRecognized, bibVars, Rows
  <2> QED BY <1>1, <2>1 DEF AddRecognized
<1>2. CASE UNCHANGED <<bibVars, call, deletedBy>>
  BY <1>2 DEF bibVars, Rows
<1>3. AddRecognized \/ UNCHANGED <<bibVars, call, deletedBy>>
  BY DEF OcrStep, MarkProcessing, OpenOriginal, RecognizeBib, NothingAdded,
         SetRecognizedPrimary, UpdateBibRecognitionStatus, TimeOut, photo
<1> QED BY <1>1, <1>2, <1>3

\* The inductive invariant: types, what each operation may reach, and the two
\* promises with what they rest on.
DeletionInv == TypeOk /\ CheckedInv /\ OpInv /\ OneDeletion /\ RemovalInv

\* It holds initially: no call has begun and there is no bib.
LEMMA DeletionInit == Init => DeletionInv
  BY RequestsAssumption DEF Init, DeletionInv, TypeOk, CheckedInv, OpInv, OneDeletion,
     RemovalInv, BibRemovedOnce, Removers, Ids, CallRecord, CallPcs, Operations, Statuses,
     OcrRecord, BibRow

\* A client's step keeps it: a removal takes away the one row it names.
LEMMA DeletionStep ==
  ASSUME DeletionInv, NEW c \in Clients, ClientStep(c)
  PROVE  DeletionInv'
<1>1. TypeOk /\ CheckedInv /\ OpInv /\ OneDeletion /\ RemovalInv
  BY DEF DeletionInv
<1>2. Moves(c)
  BY <1>1, ClientMoves
<1>3. TypeOk' /\ CheckedInv'
  BY <1>1, ClientTypeOk
<1>4. OpInv'
  BY <1>1, <1>2 DEF Moves, OpInv
<1>5. OneDeletion'
  BY <1>1, <1>2, RequestsAssumption DEF Moves, Deletes, OneDeletion
<1>6. nextId \in Nat /\ nextId' \in Nat /\ nextId <= nextId'
  BY <1>1, <1>2, <1>3 DEF TypeOk, Moves, Rows
<1>7. \A b \in bibs' : b.id < nextId'
  <2>1. \A b \in bibs : b.id \in Nat /\ b.id < nextId
    BY <1>1 DEF TypeOk, BibRow, RemovalInv
  <2> QED BY <1>2, <1>6, <2>1 DEF Moves, Rows
<1>8. \A d \in Clients : call'[d].bib \in Nat /\ call[d].bib \in Nat
  BY <1>1, <1>3 DEF TypeOk, CallRecord
<1>9. \A d \in Clients : call'[d].bib < nextId'
  BY <1>1, <1>2, <1>6, <1>8 DEF Moves, RemovalInv
<1>10. \A d \in Removers' : call'[d].bib \notin Ids' /\ call'[d].bib = call[d].bib
                            /\ (d # c => d \in Removers)
  <2> SUFFICES ASSUME NEW d \in Removers'
               PROVE  call'[d].bib \notin Ids' /\ call'[d].bib = call[d].bib
                      /\ (d # c => d \in Removers)
    OBVIOUS
  <2>1. d \in Clients /\ call'[d].op = "unbib" /\ call'[d].pc \in Gone
    BY DEF Removers, Gone
  <2>2. CASE d \in Removers /\ call'[d].bib = call[d].bib
    <3>1. call[d].bib \notin Ids /\ call[d].bib < nextId
      BY <1>1, <2>1, <2>2 DEF RemovalInv
    <3>2. call[d].bib # nextId
      BY <1>6, <1>8, <2>1, <3>1
    <3> QED BY <1>2, <2>2, <3>1, <3>2 DEF Moves, Rows, Ids
  <2>3. CASE d = c /\ Removes(c) /\ call'[d].bib = call[d].bib
    BY <2>3 DEF Removes, Ids
  <2>4. CASE d # c
    BY <1>2, <2>1, <2>2, <2>4 DEF Moves, Removers
  <2>5. CASE d = c
    <3>1. call'[c].bib = call[c].bib /\ call[c].op = "unbib"
      BY <1>2, <2>1, <2>5 DEF Moves, Removes
    <3> QED BY <1>2, <2>1, <2>2, <2>3, <2>5, <3>1 DEF Gone, Moves, Removers
  <2> QED BY <2>4, <2>5
<1>11. \A d \in Removers' : d # c => call'[d].bib # call'[c].bib \/ c \notin Removers'
  <2> SUFFICES ASSUME NEW d \in Removers', d # c, c \in Removers'
               PROVE  call'[d].bib # call'[c].bib
    OBVIOUS
  <2>1. d \in Removers /\ call'[d].bib = call[d].bib /\ call'[c].bib = call[c].bib
    BY <1>10
  <2>2. c \in Removers \/ Removes(c)
    <3>1. call'[c].op = "unbib" /\ call'[c].pc \in Gone
      BY DEF Removers, Gone
    <3>2. CASE call[c].pc \in {"list", "primary"}
      BY <1>2, <3>1, <3>2 DEF Moves, Removers, Gone
    <3> QED BY <1>2, <3>1, <3>2 DEF Moves
  <2> QED BY <1>1, <2>1, <2>2 DEF RemovalInv, BibRemovedOnce, Removes
<1>12. BibRemovedOnce'
  <2> SUFFICES ASSUME NEW d \in Removers', NEW e \in Removers', d # e
               PROVE  call'[d].bib # call'[e].bib
    BY DEF BibRemovedOnce
  <2>1. CASE d = c \/ e = c BY <1>11, <2>1
  <2>2. CASE d # c /\ e # c BY <1>1, <1>10, <2>2 DEF RemovalInv, BibRemovedOnce
  <2> QED BY <2>1, <2>2
<1>13. RemovalInv'
  BY <1>7, <1>9, <1>10, <1>12 DEF RemovalInv
<1> QED BY <1>3, <1>4, <1>5, <1>13 DEF DeletionInv

\* A step of the recognition may only add a bib with a new id.
LEMMA DeletionOcr ==
  ASSUME DeletionInv, OcrStep \/ TimeOut
  PROVE  DeletionInv'
<1>1. TypeOk /\ CheckedInv /\ OpInv /\ OneDeletion /\ RemovalInv
  BY DEF DeletionInv
<1>2. Rows /\ UNCHANGED <<call, deletedBy>>
  BY <1>1, OcrMoves
<1>3. TypeOk' /\ CheckedInv'
  BY <1>1, OcrTypeOk
<1>4. OpInv' /\ OneDeletion' /\ Removers' = Removers /\ BibRemovedOnce'
  BY <1>1, <1>2 DEF OpInv, OneDeletion, RemovalInv, BibRemovedOnce, Removers
<1>5. nextId \in Nat /\ nextId' \in Nat /\ nextId <= nextId'
      /\ \A d \in Clients : call[d].bib \in Nat
  BY <1>1, <1>2, <1>3 DEF TypeOk, Rows, CallRecord
<1>6. (\A b \in bibs' : b.id < nextId') /\ (\A d \in Clients : call'[d].bib < nextId')
  <2>1. \A b \in bibs : b.id \in Nat /\ b.id < nextId
    BY <1>1 DEF TypeOk, BibRow, RemovalInv
  <2>2. \A b \in bibs' : b.id < nextId'
    BY <1>2, <1>5, <2>1 DEF Rows
  <2> QED BY <1>1, <1>2, <1>5, <2>2 DEF RemovalInv
<1>7. \A d \in Removers' : call'[d].bib \notin Ids'
  <2> SUFFICES ASSUME NEW d \in Removers PROVE call[d].bib \notin Ids'
    BY <1>2, <1>4
  <2>1. d \in Clients /\ call[d].bib \notin Ids /\ call[d].bib < nextId
    BY <1>1 DEF Removers, RemovalInv
  <2>2. call[d].bib # nextId
    BY <1>5, <2>1
  <2> QED BY <1>2, <2>1, <2>2 DEF Rows, Ids
<1> QED BY <1>3, <1>4, <1>6, <1>7 DEF DeletionInv, RemovalInv

\* So it always holds.
LEMMA DeletionKept == Spec => []DeletionInv
<1>1. DeletionInv /\ [Next]_vars => DeletionInv'
  <2> SUFFICES ASSUME DeletionInv, [Next]_vars PROVE DeletionInv'
    OBVIOUS
  <2>1. CASE OcrStep \/ TimeOut BY <2>1, DeletionOcr
  <2>2. CASE \E c \in Clients : ClientStep(c) BY <2>2, DeletionStep
  <2>3. CASE UNCHANGED vars
    BY <2>3 DEF vars, photo, bibVars, DeletionInv, TypeOk, CheckedInv, OpInv, OneDeletion,
                RemovalInv, BibRemovedOnce, Removers, Ids
  <2> QED BY <2>1, <2>2, <2>3 DEF Next
<1> QED BY <1>1, DeletionInit, PTL DEF Spec

\* However many DeletePhoto calls overlap, one at most succeeds, and deleted_by
\* names it for good.
THEOREM OneDeletionSucceeds == Spec => []OneDeletion
<1>1. DeletionInv => OneDeletion
  BY DEF DeletionInv
<1> QED BY <1>1, DeletionKept, PTL

\* However many DeleteBib calls overlap, with each other and with anything that
\* adds bibs, one at most removes a given bib.
THEOREM OneRemovalSucceeds == Spec => []BibRemovedOnce
<1>1. DeletionInv => BibRemovedOnce
  BY DEF DeletionInv, RemovalInv
<1> QED BY <1>1, DeletionKept, PTL

-----------------------------------------------------------------------------
\* The ways of a recognition from one statement to the next.
Begins == /\ ocr.pc = "scheduled" /\ ocr'.pc = "open" /\ status' \in {status, "processing"}
Opens == /\ ocr.pc = "open" /\ ocr'.pc = "recognize" /\ status' = status
Answers == /\ ocr.pc = "recognize" /\ ocr'.pc = "add" /\ status' = status
           /\ \E a \in Responses : ocr'.left = RecognizedBibs(a)
Loops == /\ ocr.pc = "add" /\ ocr'.pc = "add" /\ status' = status
         /\ Len(ocr'.left) = Len(ocr.left) - 1
Concludes == /\ ocr.pc \in {"open", "recognize", "add"} /\ ocr'.pc = "finish"
             /\ ocr'.verdict \in Verdicts /\ status' = status
Ends == /\ ocr.pc = "finish" /\ ocr'.pc = "ended" /\ ocr'.verdict = ocr.verdict
        /\ ocr'.broken \/ status' = ocr.verdict
        /\ ocr.late => ocr'.broken /\ status' = status
Ages == /\ ocr.pc \in {"open", "recognize", "add", "finish"} /\ ~ocr.late
        /\ ocr' = [ocr EXCEPT !.late = TRUE] /\ status' = status

\* A step of a recognition takes one of these ways.
LEMMA OcrWays ==
  ASSUME TypeOk, OcrStep \/ TimeOut
  PROVE  \/ Ages
         \/ /\ ocr'.late = ocr.late
            /\ Begins \/ Opens \/ Answers \/ Loops \/ Concludes \/ Ends
<1>0. ocr \in OcrRecord
  BY DEF TypeOk
<1>1. ASSUME NEW verdict \in Verdicts, Finish(verdict), status' = status,
             ocr.pc \in {"open", "recognize", "add"}
      PROVE  ocr'.late = ocr.late /\ Concludes
  BY <1>0, <1>1 DEF Finish, Concludes, OcrRecord
<1>2. ASSUME NEW verdict \in Verdicts, NEW o, FinishBroken(verdict, o), status' = status,
             ocr.pc = "add"
      PROVE  ocr'.late = ocr.late /\ Concludes
  BY <1>0, <1>2 DEF FinishBroken, Concludes, OcrRecord
<1>3. {"failed", "not_found", "completed"} = Verdicts
  BY DEF Verdicts
<1>4. CASE MarkProcessing
  BY <1>0, <1>4 DEF MarkProcessing, Begins, OcrRecord
<1>5. CASE OpenOriginal
  <2>1. CASE Finish("failed")
    BY <1>1, <1>3, <1>5, <2>1 DEF OpenOriginal, photo
  <2>2. CASE ocr' = [ocr EXCEPT !.pc = "recognize"]
    BY <1>0, <1>5, <2>2 DEF OpenOriginal, photo, Opens, OcrRecord
  <2> QED
    BY <1>5, <2>1, <2>2 DEF OpenOriginal
<1>6. CASE RecognizeBib
  <2>1. CASE Finish("failed") \/ Finish("not_found")
    BY <1>1, <1>3, <1>6, <2>1 DEF RecognizeBib, photo
  <2>2. CASE \E a \in Responses :
               ocr' = [ocr EXCEPT !.pc = "add", !.found = RecognizedBibs(a),
                                  !.left = RecognizedBibs(a)]
    <3>1. PICK a \in Responses :
            ocr' = [ocr EXCEPT !.pc = "add", !.found = RecognizedBibs(a),
                               !.left = RecognizedBibs(a)]
      BY <2>2
    <3>2. ocr'.pc = "add" /\ ocr'.late = ocr.late /\ ocr'.left = RecognizedBibs(a)
      BY <1>0, <3>1 DEF OcrRecord
    <3> QED
      BY <1>6, <3>2 DEF RecognizeBib, photo, Answers
  <2> QED
    BY <1>6, <2>1, <2>2 DEF RecognizeBib
<1>7. CASE AddRecognized
  <2>1. ocr.left # <<>> /\ Len(Tail(ocr.left)) = Len(ocr.left) - 1
    BY <1>0, <1>7 DEF AddRecognized, OcrRecord
  <2>2. CASE ocr' = [ocr EXCEPT !.left = Tail(@)] \/ ocr' = Counted
    <3>1. ocr'.pc = "add" /\ ocr'.late = ocr.late /\ ocr'.left = Tail(ocr.left)
      BY <1>0, <1>7, <2>2 DEF AddRecognized, Counted, OcrRecord
    <3> QED
      BY <1>7, <2>1, <3>1 DEF AddRecognized, Loops
  <2>3. CASE \E o \in OcrOutcome : FinishBroken("failed", o)
    BY <1>2, <1>3, <1>7, <2>3 DEF AddRecognized
  <2> QED
    BY <1>7, <2>2, <2>3 DEF AddRecognized
<1>8. CASE NothingAdded
  BY <1>1, <1>3, <1>8 DEF NothingAdded, photo
<1>9. CASE SetRecognizedPrimary
  BY <1>2, <1>3, <1>9 DEF SetRecognizedPrimary
<1>10. CASE UpdateBibRecognitionStatus
  <2>1. PICK o \in OcrOutcome :
          /\ status' = IF Applied(o) THEN ocr.verdict ELSE status
          /\ ocr' = [ocr EXCEPT !.pc = "ended", !.broken = @ \/ Errs(o)]
    BY <1>10 DEF UpdateBibRecognitionStatus
  <2>2. /\ ocr'.pc = "ended" /\ ocr'.late = ocr.late /\ ocr'.verdict = ocr.verdict
        /\ Errs(o) => ocr'.broken
    BY <1>0, <2>1 DEF OcrRecord
  <2>3. ocr.late => Errs(o) /\ ~Applied(o)
    BY DEF OcrOutcome, Errs, Applied
  <2>4. Errs(o) \/ Applied(o)
    BY DEF Errs, Applied
  <2> QED
    BY <1>10, <2>1, <2>2, <2>3, <2>4 DEF UpdateBibRecognitionStatus, Ends
<1>11. CASE TimeOut
  BY <1>0, <1>11 DEF TimeOut, photo, Ages, OcrRecord
<1> QED
  BY <1>4, <1>5, <1>6, <1>7, <1>8, <1>9, <1>10, <1>11 DEF OcrStep

\* The calls of the clients leave the status and the recognition alone.
LEMMA ClientsLeaveStatus ==
  ASSUME NEW c \in Clients, ClientStep(c)
  PROVE  UNCHANGED <<status, ocr>>
  BY DEF ClientStep, GetPhotoAccessInfo, GetPhotoByID, UpdatePhoto, SoftDeletePhoto,
     AddPhotoBib, CheckPrimary, GetPhotoBibByID, DeletePhotoBib, ListPhotoBibs,
     SetPrimaryBib, photo

\* A recognition ends with a verdict that is final, or broken off; one whose time
\* ran out leaves the photo undecided for good.
THEOREM RecognitionDecides == Spec => []RecognitionIsDecided /\ VerdictsAreFinal
<1>1. Init => RecognitionIsDecided
  BY DEF Init, RecognitionIsDecided, Undecided
<1>2. ASSUME TypeOk, RecognitionIsDecided, OcrStep \/ TimeOut
      PROVE  RecognitionIsDecided' /\ (status' # status => status \in Undecided)
  <2>0. ocr \in OcrRecord
    BY <1>2 DEF TypeOk
  <2>1. CASE Ages
    <3>1. /\ ocr'.pc = ocr.pc /\ ocr.pc # "ended" /\ ocr'.verdict = ocr.verdict
          /\ status' = status
      BY <2>0, <2>1 DEF Ages, OcrRecord
    <3> QED
      BY <1>2, <3>1 DEF RecognitionIsDecided
  <2>2. CASE ocr'.late = ocr.late /\ (Begins \/ Opens \/ Answers \/ Loops \/ Concludes \/ Ends)
    BY <1>2, <2>2 DEF Begins, Opens, Answers, Loops, Concludes, Ends, RecognitionIsDecided,
       Undecided
  <2> QED
    BY <1>2, <2>1, <2>2, OcrWays
<1>3. RecognitionIsDecided /\ UNCHANGED <<status, ocr>> =>
        RecognitionIsDecided' /\ (status' # status => status \in Undecided)
  BY DEF RecognitionIsDecided
<1>4. TypeOk /\ RecognitionIsDecided /\ [Next]_vars =>
        /\ RecognitionIsDecided'
        /\ [status' # status => status \in Undecided]_vars
  <2> SUFFICES ASSUME TypeOk, RecognitionIsDecided, [Next]_vars
               PROVE  RecognitionIsDecided' /\ (status' # status => status \in Undecided)
    OBVIOUS
  <2>1. CASE \E c \in Clients : ClientStep(c)
    BY <1>3, <2>1, ClientsLeaveStatus
  <2>2. CASE UNCHANGED vars
    BY <1>3, <2>2 DEF vars, photo
  <2> QED
    BY <1>2, <2>1, <2>2 DEF Next
<1> QED
  BY <1>1, <1>4, RecordTypeCorrect, PTL DEF Spec, VerdictsAreFinal

\* A recognition ends in so many steps, whatever the OCR service answers, whichever
\* statement fails and whatever the clients do: nothing is tried again.
THEOREM RecognitionRunsOutOfSteps ==
  ASSUME NEW n \in Nat, \A a \in Responses : Len(RecognizedBibs(a)) <= n
  PROVE  Spec => [](RecognitionLeft(n) \in 0..(n + 6)) /\ [][RecognitionGoesOn(n)]_vars
<1> DEFINE Short == ocr.pc = "add" => Len(ocr.left) <= n
<1>1. Init => Short
  BY DEF Init
<1>2. \A a \in Responses : Len(RecognizedBibs(a)) \in Nat
  BY FoundType
<1>3. ASSUME TypeOk, Short, OcrStep \/ TimeOut
      PROVE  Short' /\ RecognitionLeft(n)' < RecognitionLeft(n)
  <2>0. ocr \in OcrRecord /\ Len(ocr.left) \in Nat
    BY <1>3 DEF TypeOk, OcrRecord
  <2>1. CASE Ages
    <3>1. ocr'.pc = ocr.pc /\ ocr.pc # "ended" /\ ocr'.left = ocr.left /\ ocr'.late /\ ~ocr.late
      BY <2>0, <2>1 DEF Ages, OcrRecord
    <3> QED
      BY <1>3, <2>0, <2>1, <3>1 DEF RecognitionLeft, Ages
  <2>2. CASE ocr'.late = ocr.late /\ Answers
    <3>1. PICK a \in Responses : ocr'.left = RecognizedBibs(a)
      BY <2>2 DEF Answers
    <3>2. Len(ocr'.left) \in Nat /\ Len(ocr'.left) <= n
      BY <1>2, <3>1
    <3> QED
      BY <2>2, <3>2 DEF Answers, RecognitionLeft
  <2>3. CASE ocr'.late = ocr.late /\ (Begins \/ Opens \/ Loops \/ Concludes \/ Ends)
    BY <1>3, <2>0, <2>3 DEF Begins, Opens, Loops, Concludes, Ends, RecognitionLeft
  <2> QED
    BY <1>3, <2>1, <2>2, <2>3, OcrWays
<1>4. Short /\ UNCHANGED ocr => Short' /\ RecognitionLeft(n)' = RecognitionLeft(n)
  BY DEF RecognitionLeft
<1>5. TypeOk /\ Short /\ [Next]_vars => Short' /\ [RecognitionGoesOn(n)]_vars
  <2> SUFFICES ASSUME TypeOk, Short, [Next]_vars
               PROVE  Short' /\ [RecognitionGoesOn(n)]_vars
    OBVIOUS
  <2>1. CASE OcrStep \/ TimeOut
    BY <1>3, <2>1 DEF RecognitionGoesOn
  <2>2. CASE ~(OcrStep \/ TimeOut)
    <3>1. UNCHANGED ocr
      BY <2>2, ClientsLeaveStatus DEF Next, vars
    <3> QED
      BY <1>4, <2>2, <3>1 DEF RecognitionGoesOn
  <2> QED
    BY <2>1, <2>2
<1>6. TypeOk /\ Short => RecognitionLeft(n) \in 0..(n + 6)
  BY DEF TypeOk, OcrRecord, RecognitionLeft
<1> QED
  BY <1>1, <1>5, <1>6, RecordTypeCorrect, PTL DEF Spec
=============================================================================

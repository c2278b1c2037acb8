-------------------------- MODULE PhotoBibsProofs --------------------------
(***************************************************************************)
(* Proofs about the bibs of PhotoRecord: what the status of a recognition  *)
(* says of them, and the primary one.                                      *)
(***************************************************************************)
EXTENDS PhotoRecordProofs, WellFoundedInduction

\* The normal form of a bib that is there, or has been removed, stays one of those.
Keeps == Norms \subseteq Norms' \cup Removed' /\ Removed \subseteq Removed'

\* Kept says the same of a value before a step and after it.
LEMMA KeptStays ==
  ASSUME Keeps, NEW v, Kept(v)
  PROVE  Norm[v] \in Norms' \cup Removed' \cup {NoBib}
  BY DEF Keeps, Kept

\* Calls that have removed a bib stay among those, with its value.
LEMMA RemoversStay ==
  ASSUME DeletionInv, NEW c \in Clients, ClientStep(c), NEW d \in Removers
  PROVE  d \in Removers' /\ call'[d].value = call[d].value
<1>1. TypeOk /\ CheckedInv /\ OpInv /\ Moves(c)
  BY ClientMoves DEF DeletionInv
<1>2. d \in Clients /\ call[d].op = "unbib" /\ call[d].pc \in Gone
  BY DEF Removers
<1>3. CASE d # c
  BY <1>1, <1>2, <1>3 DEF Moves, Removers
<1>4. CASE d = c
  <2>1. ListPhotoBibs(c) \/ SetPrimaryBib(c)
    BY <1>2, <1>4 DEF Gone, ClientStep, GetPhotoAccessInfo, GetPhotoByID, UpdatePhoto,
       SoftDeletePhoto, AddPhotoBib, CheckPrimary, GetPhotoBibByID, DeletePhotoBib
  <2>2. /\ call'[c].op = "unbib" /\ call'[c].value = call[c].value
        /\ call'[c].pc \in {"primary", "partly", "ok"}
    <3>1. CASE \E pc \in {"partly", "ok"} : Goto(c, pc)
      BY <1>1, <1>2, <1>4, <3>1, GotoMoves DEF Same, CallPcs
    <3>2. CASE call' = [call EXCEPT ![c] = [@ EXCEPT !.pc = "primary", !.seen = NextPrimary]]
      BY <1>1, <1>2, <1>4, <3>2 DEF TypeOk, CallRecord
    <3> QED BY <2>1, <3>1, <3>2 DEF ListPhotoBibs, SetPrimaryBib
  <2> QED BY <1>2, <1>4, <2>2 DEF Removers, Gone
<1> QED BY <1>3, <1>4

\* A client's step that touches no bib.
LEMMA RowsStand ==
  ASSUME bibs' = bibs
  PROVE  Norms' = Norms /\ Ids' = Ids
  BY DEF Norms, Ids

\* What a client's step does to the bibs: an added one is "manual"; one that goes
\* is the one the call has found.
LEMMA ClientBibs ==
  ASSUME DeletionInv, FoundInv, NEW c \in Clients, ClientStep(c)
  PROVE  FoundInv' /\ Keeps /\ \A b \in bibs' : b \in bibs \/ b.source = "manual"
<1>1. TypeOk /\ CheckedInv /\ OpInv /\ Moves(c) /\ RemovalInv
  BY ClientMoves DEF DeletionInv
<1>2. \A b \in bibs : b.id \in Nat /\ b.id < nextId /\ nextId \in Nat
  BY <1>1 DEF TypeOk, BibRow, RemovalInv
<1>3. \A a, b \in bibs' : a.id = b.id => a = b
  <2>1. CASE bibs' \subseteq bibs
    BY <2>1 DEF FoundInv
  <2>2. CASE \E row : bibs' = bibs \cup {row} /\ row.id = nextId
    BY <1>2, <2>2 DEF FoundInv
  <2> QED BY <1>1, <2>1, <2>2 DEF Moves, Rows
<1>4. Removed \subseteq Removed'
  BY RemoversStay DEF Removed
<1>5. \A d \in Clients \ {c} : call'[d] = call[d] /\ call[d].bib \in Nat /\ call[d].bib < nextId
  BY <1>1 DEF Moves, TypeOk, CallRecord, RemovalInv
<1>6. \A d \in Clients \ {c} : call'[d].pc = "remove" =>
        \A b \in bibs' : b.id = call'[d].bib => b.value = call'[d].value
  <2> SUFFICES ASSUME NEW d \in Clients \ {c}, call'[d].pc = "remove",
                      NEW b \in bibs', b.id = call'[d].bib
               PROVE  b.value = call'[d].value
    OBVIOUS
  <2>1. call'[d] = call[d] /\ b.id # nextId
    BY <1>2, <1>5
  <2>2. b \in bibs
    BY <1>1, <2>1 DEF Moves, Rows
  <2> QED BY <2>1, <2>2 DEF FoundInv
<1>7. CASE GetPhotoBibByID(c)
  <2>1. bibs' = bibs /\ Norms' = Norms
    BY <1>7, RowsStand DEF GetPhotoBibByID, photo, bibVars
  <2>2. call'[c].pc = "remove" =>
          \A b \in bibs : b.id = call'[c].bib => b.value = call'[c].value
    <3>1. CASE Goto(c, "error")
      BY <1>1, <3>1, GotoMoves DEF CallPcs
    <3>2. CASE \E b \in bibs : b.id = call[c].bib
                 /\ call' = [call EXCEPT ![c] = [@ EXCEPT !.pc = "remove", !.value = b.value]]
      <4>1. PICK b \in bibs : b.id = call[c].bib
                 /\ call' = [call EXCEPT ![c] = [@ EXCEPT !.pc = "remove", !.value = b.value]]
        BY <3>2
      <4>2. call'[c] = [call[c] EXCEPT !.pc = "remove", !.value = b.value]
            /\ call[c] \in CallRecord
        BY <1>1, <4>1 DEF TypeOk
      <4>3. call'[c].value = b.value /\ call'[c].bib = b.id
        BY <4>1, <4>2 DEF CallRecord
      <4> QED BY <4>3 DEF FoundInv
    <3> QED BY <1>7, <3>1, <3>2 DEF GetPhotoBibByID
  <2>3. FoundInv'
    BY <1>3, <1>6, <2>1, <2>2 DEF FoundInv
  <2> QED BY <1>4, <2>1, <2>3 DEF Keeps
<1>8. CASE DeletePhotoBib(c)
  <2>1. call'[c].pc # "remove" /\ call'[c].value = call[c].value /\ call'[c].op = "unbib"
        /\ call[c].pc = "remove"
    BY <1>1, <1>8, GotoMoves DEF DeletePhotoBib, Answered, CallPcs, OpInv, Same
  <2>2. bibs' = bibs \/ (c \in Removers' /\ bibs' = {b \in bibs : b.id # call[c].bib})
    <3>1. CASE call[c].bib \notin Ids
      BY <1>8, <3>1 DEF DeletePhotoBib, Ids
    <3>2. CASE call[c].bib \in Ids
      <4>1. PICK o \in Outcome :
              /\ bibs' = IF Applied(o) THEN {b \in bibs : b.id # call[c].bib} ELSE bibs
              /\ Goto(c, Answered(o, IF call[c].seen = call[c].value THEN "list" ELSE "ok"))
        BY <1>8, <3>2 DEF DeletePhotoBib
      <4>2. CASE Applied(o)
        <5>1. Answered(o, IF call[c].seen = call[c].value THEN "list" ELSE "ok")
                \in {"list", "ok", "partly"}
          BY <4>2 DEF Answered, Applied
        <5>2. call'[c].pc \in {"list", "ok", "partly"}
          BY <1>1, <4>1, <5>1, GotoMoves DEF CallPcs
        <5> QED BY <2>1, <4>1, <4>2, <5>2 DEF Removers, Gone
      <4> QED BY <4>1, <4>2
    <3> QED BY <3>1, <3>2
  <2>3. Norms \subseteq Norms' \cup Removed'
    <3>1. CASE bibs' = bibs BY <3>1 DEF Norms
    <3>2. CASE c \in Removers' /\ bibs' = {b \in bibs : b.id # call[c].bib}
      <4>1. \A b \in bibs \ bibs' : b.value = call'[c].value
        BY <2>1, <3>2 DEF FoundInv
      <4> QED BY <3>2, <4>1 DEF Norms, Removed
    <3> QED BY <2>2, <3>1, <3>2
  <2>4. bibs' \subseteq bibs
    BY <2>2
  <2>5. FoundInv'
    BY <1>3, <1>6, <2>1 DEF FoundInv
  <2> QED BY <1>4, <2>3, <2>4, <2>5 DEF Keeps
<1>9. CASE AddPhotoBib(c)
  <2>1. call'[c].pc # "remove"
    BY <1>1, <1>9, GotoMoves DEF AddPhotoBib, Answered, CallPcs
  <2>2. bibs \subseteq bibs' /\ \A b \in bibs' : b \in bibs \/ b.source = "manual"
    BY <1>9 DEF AddPhotoBib, InsertBib, bibVars
  <2>3. Norms \subseteq Norms'
    BY <2>2 DEF Norms
  <2>4. FoundInv'
    BY <1>3, <1>6, <2>1 DEF FoundInv
  <2> QED BY <1>4, <2>2, <2>3, <2>4 DEF Keeps
<1>10. CASE GetPhotoAccessInfo(c) \/ GetPhotoByID(c) \/ UpdatePhoto(c) \/ SoftDeletePhoto(c)
            \/ CheckPrimary(c) \/ ListPhotoBibs(c) \/ SetPrimaryBib(c)
  <2>1. bibs' = bibs /\ Norms' = Norms
    BY <1>10, RowsStand DEF GetPhotoAccessInfo, GetPhotoByID, UpdatePhoto, SoftDeletePhoto,
       CheckPrimary, ListPhotoBibs, SetPrimaryBib, photo, bibVars
  <2>2. call'[c].pc # "remove"
    <3>1. CASE GetPhotoAccessInfo(c)
      BY <1>1, <3>1 DEF GetPhotoAccessInfo, Checked, FirstStep, TypeOk
    <3>2. CASE \E pc \in {"error", "ok", "partly"} : Goto(c, pc)
      BY <1>1, <3>2, GotoMoves DEF CallPcs
    <3>3. CASE GetPhotoByID(c) \/ CheckPrimary(c) \/ ListPhotoBibs(c)
      <4>1. call[c] \in CallRecord /\ call \in [Clients -> CallRecord]
        BY <1>1 DEF TypeOk
      <4> QED BY <3>2, <3>3, <4>1 DEF GetPhotoByID, CheckPrimary, ListPhotoBibs, CallRecord
    <3> QED BY <1>10, <3>1, <3>2, <3>3 DEF UpdatePhoto, SoftDeletePhoto, SetPrimaryBib
  <2>3. FoundInv'
    BY <1>3, <1>6, <2>2 DEF FoundInv
  <2> QED BY <1>4, <2>1, <2>3 DEF Keeps
<1> QED BY <1>7, <1>8, <1>9, <1>10 DEF ClientStep

-----------------------------------------------------------------------------
\* A step of the recognition inserts a bib at most, and only in its loop.
LEMMA OcrBibs ==
  ASSUME DeletionInv, FoundInv, OcrStep \/ TimeOut
  PROVE  FoundInv' /\ Keeps /\ UNCHANGED call
<1>1. Rows /\ UNCHANGED call /\ TypeOk /\ RemovalInv
  BY OcrMoves DEF DeletionInv
<1>2. bibs \subseteq bibs'
  BY DEF OcrStep, MarkProcessing, OpenOriginal, RecognizeBib, AddRecognized, NothingAdded,
     SetRecognizedPrimary, UpdateBibRecognitionStatus, TimeOut, photo, bibVars, InsertBib
<1>3. bibs' = bibs \/ \E row : bibs' = bibs \cup {row} /\ row.id = nextId
  BY <1>1, <1>2 DEF Rows
<1>4. \A b \in bibs : b.id \in Nat /\ b.id < nextId /\ nextId \in Nat
  BY <1>1 DEF TypeOk, BibRow, RemovalInv
<1>5. \A c \in Clients : call[c].bib \in Nat /\ call[c].bib < nextId
  BY <1>1 DEF TypeOk, CallRecord, RemovalInv
<1>6. FoundInv'
  BY <1>1, <1>3, <1>4, <1>5 DEF FoundInv
<1>7. Keeps
  BY <1>1, <1>2 DEF Keeps, Norms, Removed, Removers
<1> QED BY <1>1, <1>6, <1>7

\* A client's step keeps what the recognition rests on: Keeps carries it.
LEMMA RecognitionClient ==
  ASSUME DeletionInv, RecognitionInv, NEW c \in Clients, ClientStep(c)
  PROVE  RecognitionInv'
<1>1. FoundInv /\ LoopInv /\ VerdictInv
  BY DEF RecognitionInv
<1>2. FoundInv' /\ Keeps /\ \A b \in bibs' : b \in bibs \/ b.source = "manual"
  BY <1>1, ClientBibs
<1>3. UNCHANGED <<ocr, status>>
  BY DEF ClientStep, GetPhotoAccessInfo, GetPhotoByID, UpdatePhoto, SoftDeletePhoto,
     AddPhotoBib, CheckPrimary, GetPhotoBibByID, DeletePhotoBib, ListPhotoBibs,
     SetPrimaryBib, photo
<1>4. LoopInv'
  <2> SUFFICES ASSUME ocr.pc = "add" PROVE LoopInv'
    BY <1>3 DEF LoopInv
  <2>1. \A i \in 1..Passed : Norm[ocr.found[i]] \in Norms' \cup Removed' \cup {NoBib}
    BY <1>1, <1>2, KeptStays DEF LoopInv
  <2> QED BY <1>1, <1>3, <2>1 DEF LoopInv, Passed, Kept
<1>5. VerdictInv'
  <2>1. Uncounted' => \A b \in bibs' : b.source # "ocr"
    BY <1>1, <1>2, <1>3 DEF VerdictInv, Uncounted
  <2>2. ocr.pc \in {"finish", "ended"} /\ ocr.verdict = "completed" =>
          \A i \in 1..Len(ocr.found) : Norm[ocr.found[i]] \in Norms' \cup Removed' \cup {NoBib}
    BY <1>1, <1>2, KeptStays DEF VerdictInv
  <2> QED BY <1>1, <1>3, <2>1, <2>2 DEF VerdictInv, Kept
<1> QED BY <1>2, <1>4, <1>5 DEF RecognitionInv

\* The bibs a response names are what the loop starts with; it has passed none.
LEMMA RecognizeKeeps ==
  ASSUME TypeOk, RecognitionInv, RecognizeBib
  PROVE  LoopInv' /\ VerdictInv'
<1>1. UNCHANGED photo /\ ocr.pc = "recognize" /\ ocr.first = None /\ ocr \in OcrRecord
      /\ status \in {"pending", "processing"} /\ \A b \in bibs : b.source # "ocr"
  BY DEF RecognizeBib, RecognitionInv, VerdictInv, Uncounted, TypeOk
<1>2. CASE \E verdict \in {"failed", "not_found"} : Finish(verdict)
  <2>1. PICK verdict \in {"failed", "not_found"} : Finish(verdict)
    BY <1>2
  <2>2. ocr'.pc = "finish" /\ ocr'.verdict = verdict
    BY <1>1, <2>1 DEF Finish, OcrRecord
  <2> QED BY <1>1, <2>2 DEF LoopInv, VerdictInv, Uncounted, photo, bibVars
<1>3. CASE \E a \in Responses :
             ocr' = [ocr EXCEPT !.pc = "add", !.found = RecognizedBibs(a),
                                !.left = RecognizedBibs(a)]
  <2>1. PICK found \in Seq(Values \cup {NoBib}) :
          ocr' = [ocr EXCEPT !.pc = "add", !.found = found, !.left = found]
    BY <1>3, FoundType
  <2>2. ocr'.pc = "add" /\ ocr'.found = found /\ ocr'.left = found /\ ocr'.first = None
    BY <1>1, <2>1 DEF OcrRecord
  <2>3. Passed' = 0
    BY <2>2 DEF Passed
  <2>4. LoopInv'
    BY <2>2, <2>3 DEF LoopInv
  <2> QED BY <1>1, <2>2, <2>4 DEF VerdictInv, Uncounted, photo, bibVars
<1> QED BY <1>2, <1>3 DEF RecognizeBib

\* A pass of the loop: the bib it treats is blank, or there when it is done.
LEMMA LoopStep ==
  ASSUME DeletionInv, RecognitionInv, AddRecognized
  PROVE  LoopInv' /\ VerdictInv'
<1> DEFINE v == Head(ocr.left)
<1>1. TypeOk /\ LoopInv /\ VerdictInv /\ FoundInv
  BY DEF RecognitionInv, DeletionInv
<1>2. Keeps /\ UNCHANGED status
  BY <1>1, OcrBibs DEF OcrStep, AddRecognized
<1>3. /\ ocr.pc = "add" /\ ocr.left # <<>> /\ ocr \in OcrRecord
      /\ status \in {"pending", "processing"}
  BY <1>1 DEF AddRecognized, VerdictInv, TypeOk
<1>4. /\ Len(ocr.left) \in Nat /\ Len(ocr.left) > 0 /\ Len(ocr.found) \in Nat
      /\ Tail(ocr.left) \in Seq(Values \cup {NoBib})
      /\ Len(Tail(ocr.left)) = Len(ocr.left) - 1
      /\ \A i \in 1..Len(Tail(ocr.left)) : Tail(ocr.left)[i] = ocr.left[i + 1]
      /\ v = ocr.left[1]
  BY <1>1, <1>3, HeadTailProperties DEF OcrRecord
<1>5. ASSUME ocr'.pc = "add", ocr'.found = ocr.found, ocr'.left = Tail(ocr.left),
             Norm[v] \in Norms' \cup Removed' \cup {NoBib}
      PROVE  LoopInv'
  <2>1. Passed \in Nat /\ Passed' = Passed + 1 /\ v = ocr.found[Passed + 1]
    <3>1. Passed \in Nat
      BY <1>1, <1>3, <1>4 DEF Passed, LoopInv
    <3>2. Passed' = Passed + 1
      <4>1. Len(ocr'.left) = Len(ocr.left) - 1 /\ Len(ocr'.found) = Len(ocr.found)
        BY <1>4, <1>5
      <4>2. Passed' = Len(ocr'.found) - Len(ocr'.left)
        BY DEF Passed
      <4> QED BY <1>4, <4>1, <4>2 DEF Passed
    <3>3. 1 \in 1..Len(ocr.left)
      BY <1>4
    <3>4. ocr.left[1] = ocr.found[Passed + 1]
      BY <1>1, <1>3, <3>3 DEF LoopInv
    <3> QED BY <1>4, <3>1, <3>2, <3>4
  <2>2. \A i \in 1..Passed : Norm[ocr.found[i]] \in Norms' \cup Removed' \cup {NoBib}
    BY <1>1, <1>2, <1>3, KeptStays DEF LoopInv
  <2>3. \A i \in 1..(Passed + 1) : Norm[ocr.found[i]] \in Norms' \cup Removed' \cup {NoBib}
    BY <1>5, <2>1, <2>2
  <2>4. \A i \in 1..Len(Tail(ocr.left)) :
          Tail(ocr.left)[i] = ocr.found[Passed + 1 + i]
    BY <1>1, <1>3, <1>4, <2>1 DEF LoopInv
  <2> QED BY <1>5, <2>1, <2>3, <2>4 DEF LoopInv, Kept
<1>6. CASE Norm[v] = NoBib
  <2>1. ocr' = [ocr EXCEPT !.left = Tail(@)] /\ UNCHANGED bibVars
    BY <1>6 DEF AddRecognized
  <2>2. ocr'.pc = "add" /\ ocr'.found = ocr.found /\ ocr'.left = Tail(ocr.left)
        /\ ocr'.first = ocr.first
    BY <1>3, <2>1 DEF OcrRecord
  <2>3. LoopInv'
    BY <1>5, <1>6, <2>2
  <2> QED BY <1>1, <1>2, <1>3, <2>1, <2>2, <2>3 DEF VerdictInv, Uncounted, bibVars
<1>7. CASE Norm[v] # NoBib
  <2>1. PICK o \in OcrOutcome :
          /\ IF Applied(o) /\ ~Duplicate(v) THEN InsertBib(v, "ocr") ELSE UNCHANGED bibVars
          /\ IF Errs(o) THEN FinishBroken("failed", o) ELSE ocr' = Counted
    BY <1>7 DEF AddRecognized
  <2>2. CASE Errs(o)
    <3>1. ocr'.pc = "finish" /\ ocr'.verdict = "failed" /\ ocr'.found = ocr.found
      BY <1>3, <2>1, <2>2 DEF FinishBroken, OcrRecord
    <3> QED BY <1>2, <1>3, <3>1 DEF LoopInv, VerdictInv, Uncounted
  <2>3. CASE ~Errs(o)
    <3>1. v \in Values /\ v # None
      BY <1>1, <1>3, <1>7, LeftType, ValuesAssumption
    <3>2. /\ ocr'.pc = "add" /\ ocr'.found = ocr.found /\ ocr'.left = Tail(ocr.left)
          /\ ocr'.first # None
      BY <1>3, <2>1, <2>3, <3>1 DEF Counted, OcrRecord
    <3>3. Norm[v] \in Norms'
      <4>1. CASE Duplicate(v)
        <5>1. bibs' = bibs
          BY <2>1, <4>1 DEF bibVars
        <5> QED BY <4>1, <5>1 DEF Duplicate, Norms
      <4>2. CASE ~Duplicate(v)
        <5>1. bibs' = bibs \cup {[id |-> nextId, value |-> v, source |-> "ocr"]}
          BY <2>1, <2>3, <4>2 DEF Applied, Errs, InsertBib
        <5>2. [id |-> nextId, value |-> v, source |-> "ocr"].value = v
          OBVIOUS
        <5> QED BY <5>1, <5>2 DEF Norms
      <4> QED BY <4>1, <4>2
    <3>4. LoopInv'
      BY <1>5, <3>2, <3>3
    <3> QED BY <1>2, <1>3, <3>2, <3>4 DEF VerdictInv, Uncounted
  <2> QED BY <2>2, <2>3
<1> QED BY <1>6, <1>7

\* A step of the recognition keeps what its verdict will rest on.
LEMMA RecognitionOcr ==
  ASSUME DeletionInv, RecognitionInv, OcrStep \/ TimeOut
  PROVE  RecognitionInv'
<1>1. TypeOk /\ FoundInv /\ LoopInv /\ VerdictInv /\ ocr \in OcrRecord
  BY DEF RecognitionInv, DeletionInv, TypeOk
<1>2. FoundInv' /\ UNCHANGED call
  BY <1>1, OcrBibs
<1>3. CASE RecognizeBib BY <1>1, <1>2, <1>3, RecognizeKeeps DEF RecognitionInv
<1>4. CASE AddRecognized BY <1>2, <1>4, LoopStep DEF RecognitionInv
<1>5. CASE ~(RecognizeBib \/ AddRecognized)
  <2>1. bibs' = bibs /\ Norms' = Norms /\ Removed' = Removed
    <3>1. bibs' = bibs
      BY <1>5 DEF OcrStep, MarkProcessing, OpenOriginal, NothingAdded, SetRecognizedPrimary,
         UpdateBibRecognitionStatus, TimeOut, photo, bibVars
    <3> QED BY <1>2, <3>1 DEF Norms, Removed, Removers
  <2>2. CASE MarkProcessing
    <3>1. ocr'.pc = "open" /\ ocr'.first = ocr.first /\ ocr.pc = "scheduled"
      BY <1>1, <2>2 DEF MarkProcessing, OcrRecord
    <3>2. status' \in {"pending", "processing"}
      BY <1>1, <2>2 DEF MarkProcessing, VerdictInv
    <3> QED BY <1>1, <1>2, <2>1, <3>1, <3>2 DEF RecognitionInv, LoopInv, VerdictInv, Uncounted
  <2>3. CASE OpenOriginal
    <3>1. /\ ocr'.pc = "recognize" \/ (ocr'.pc = "finish" /\ ocr'.verdict = "failed")
          /\ ocr'.first = ocr.first /\ ocr.pc = "open" /\ status' = status
      BY <1>1, <2>3 DEF OpenOriginal, Finish, OcrRecord, photo
    <3> QED BY <1>1, <1>2, <2>1, <3>1 DEF RecognitionInv, LoopInv, VerdictInv, Uncounted
  <2>4. CASE NothingAdded
    <3>1. /\ ocr'.pc = "finish" /\ ocr'.verdict = "not_found" /\ status' = status
          /\ ocr.pc = "add" /\ ocr.first = None
      BY <1>1, <2>4 DEF NothingAdded, Finish, OcrRecord, photo
    <3> QED BY <1>1, <1>2, <2>1, <3>1 DEF RecognitionInv, LoopInv, VerdictInv, Uncounted
  <2>5. CASE SetRecognizedPrimary
    <3>1. /\ ocr'.pc = "finish" /\ ocr'.verdict = "completed" /\ status' = status
          /\ ocr.pc = "add" /\ ocr.left = <<>> /\ ocr'.found = ocr.found
      BY <1>1, <2>5 DEF SetRecognizedPrimary, FinishBroken, OcrRecord
    <3>2. Passed = Len(ocr.found)
      BY <1>1, <3>1 DEF Passed, OcrRecord
    <3>3. \A i \in 1..Len(ocr.found) : Kept(ocr.found[i])
      BY <1>1, <3>1, <3>2 DEF LoopInv
    <3> QED BY <1>1, <1>2, <2>1, <3>1, <3>3
            DEF RecognitionInv, LoopInv, VerdictInv, Uncounted, Kept
  <2>6. CASE UpdateBibRecognitionStatus
    <3>1. /\ ocr'.pc = "ended" /\ ocr'.verdict = ocr.verdict /\ ocr'.found = ocr.found
          /\ ocr.pc = "finish" /\ (status' = status \/ status' = ocr.verdict)
      BY <1>1, <2>6 DEF UpdateBibRecognitionStatus, OcrRecord
    <3> QED BY <1>1, <1>2, <2>1, <3>1
            DEF RecognitionInv, LoopInv, VerdictInv, Uncounted, Kept
  <2>7. CASE TimeOut
    <3>1. /\ ocr'.pc = ocr.pc /\ ocr'.found = ocr.found /\ ocr'.left = ocr.left
          /\ ocr'.first = ocr.first /\ ocr'.verdict = ocr.verdict /\ status' = status
      BY <1>1, <2>7 DEF TimeOut, OcrRecord, photo
    <3> QED BY <1>1, <1>2, <2>1, <3>1
            DEF RecognitionInv, LoopInv, VerdictInv, Uncounted, Kept, Passed
  <2> QED BY <1>5, <2>2, <2>3, <2>4, <2>5, <2>6, <2>7 DEF OcrStep
<1> QED BY <1>3, <1>4, <1>5

\* It holds whenever the types and the removals are right.
LEMMA RecognitionKept == Spec => []RecognitionInv
<1>1. Init => RecognitionInv
  BY DEF Init, RecognitionInv, FoundInv, LoopInv, VerdictInv, Uncounted
<1>2. DeletionInv /\ RecognitionInv /\ [Next]_vars => RecognitionInv'
  <2> SUFFICES ASSUME DeletionInv, RecognitionInv, [Next]_vars PROVE RecognitionInv'
    OBVIOUS
  <2>1. CASE OcrStep \/ TimeOut BY <2>1, RecognitionOcr
  <2>2. CASE \E c \in Clients : ClientStep(c) BY <2>2, RecognitionClient
  <2>3. CASE UNCHANGED vars
    <3>1. UNCHANGED <<bibs, status, call, ocr>>
      BY <2>3 DEF vars, photo, bibVars
    <3>2. Norms' = Norms /\ Removed' = Removed
      BY <3>1 DEF Norms, Removed, Removers
    <3>3. FoundInv' /\ VerdictInv'
      BY <3>1, <3>2 DEF RecognitionInv, FoundInv, VerdictInv, Uncounted, Kept
    <3>4. LoopInv'
      BY <3>1, <3>2 DEF RecognitionInv, LoopInv, Passed, Kept
    <3> QED BY <3>3, <3>4 DEF RecognitionInv
  <2> QED BY <2>1, <2>2, <2>3 DEF Next
<1> QED BY <1>1, <1>2, DeletionKept, PTL DEF Spec

\* The status of a recognition says what became of the bibs, whatever fails and
\* whoever adds, removes and edits meanwhile.
THEOREM VerdictsAreTrue == Spec => []RecognitionIsTrue
<1>1. RecognitionInv => RecognitionIsTrue
  BY DEF RecognitionInv, VerdictInv, Uncounted, RecognitionIsTrue
<1> QED BY <1>1, RecognitionKept, PTL

-----------------------------------------------------------------------------
\* A set of natural numbers has a least one, so a photo with bibs an oldest one.
LEMMA LeastNumber ==
  ASSUME NEW S, S \subseteq Nat, S # {}
  PROVE  \E m \in S : \A n \in S : m <= n
<1> DEFINE Less == {p \in Nat \X Nat : p[1] < p[2]}
<1>1. Less = OpToRel(<, Nat)
  BY Zenon DEF OpToRel
<1>2. IsWellFoundedOn(Less, Nat)
  BY <1>1, NatLessThanWellFounded, Zenon
<1> HIDE DEF Less
<1>3. PICK m \in S : \A n \in S : ~(<<n, m>> \in Less)
  BY <1>2, WFMin
<1>4. \A n \in S : m <= n
  <2> SUFFICES ASSUME NEW n \in S, n < m PROVE FALSE
    OBVIOUS
  <2>1. <<n, m>> \in Nat \X Nat /\ <<n, m>>[1] < <<n, m>>[2]
    OBVIOUS
  <2>2. <<n, m>> \in Less
    BY <2>1, Zenon DEF Less
  <2> QED BY <1>3, <2>2
<1> QED BY <1>4

\* What ListPhotoBibs finds to be the next primary bib is there.
LEMMA NextIsListed ==
  ASSUME TypeOk
  PROVE  IF bibs = {} THEN NextPrimary = None ELSE NextPrimary \in Values /\ Norm[NextPrimary] \in Norms
<1>1. CASE bibs = {} BY <1>1 DEF NextPrimary, Oldest
<1>2. CASE bibs # {}
  <2>1. Ids \subseteq Nat /\ Ids # {}
    BY <1>2 DEF TypeOk, BibRow, Ids
  <2>2. PICK m \in Ids : \A n \in Ids : m <= n
    BY <2>1, LeastNumber
  <2>3. Oldest # {}
    BY <2>2 DEF Oldest, Ids
  <2>4. PICK b \in bibs : NextPrimary = b.value
    BY <2>3 DEF NextPrimary, Oldest
  <2>5. b.value \in Values
    BY DEF TypeOk, BibRow
  <2> QED BY <1>2, <2>4, <2>5 DEF Norms
<1> QED BY <1>1, <1>2

-----------------------------------------------------------------------------
\* What ChoiceInv says stays so in a client's step: only GetPhotoByID makes a call
\* ready to write, and none is made to start again.
LEMMA ChoiceClient ==
  ASSUME DeletionInv, ChoiceInv, NEW c \in Clients, ClientStep(c)
  PROVE  ChoiceInv'
<1>1. /\ TypeOk /\ Moves(c) /\ call[c] \in CallRecord /\ call \in [Clients -> CallRecord]
      /\ \A d \in Clients \ {c} : call'[d] = call[d]
  BY ClientMoves DEF DeletionInv, TypeOk, Moves
<1>2. UNCHANGED ocr
  BY DEF ClientStep, GetPhotoAccessInfo, GetPhotoByID, UpdatePhoto, SoftDeletePhoto,
     AddPhotoBib, CheckPrimary, GetPhotoBibByID, DeletePhotoBib, ListPhotoBibs, SetPrimaryBib
<1>3. /\ call'[c].pc # "start"
      /\ call'[c].pc = "write" /\ call'[c].value # "keep" =>
           call'[c].seen = IF call'[c].value = NoBib THEN None ELSE call'[c].value
  <2>1. CASE \E pc \in CallPcs \ {"start", "write"} : Goto(c, pc)
    BY <1>1, <2>1, GotoMoves
  <2>2. CASE GetPhotoAccessInfo(c)
    <3>1. call'[c].pc \in {"error", "insert", "delete", "read"}
      BY <1>1, <2>2 DEF GetPhotoAccessInfo, Checked, FirstStep
    <3> QED BY <3>1
  <2>3. CASE call' = [call EXCEPT ![c] = [@ EXCEPT !.pc = "write",
                                          !.seen = NewPrimary(call[c].value),
                                          !.seenStage = NewStage(call[c].stage)]]
    <3>1. call'[c] = [call[c] EXCEPT !.pc = "write", !.seen = NewPrimary(call[c].value),
                                     !.seenStage = NewStage(call[c].stage)]
      BY <1>1, <2>3
    <3>2. /\ call'[c].pc = "write" /\ call'[c].seen = NewPrimary(call[c].value)
          /\ call'[c].value = call[c].value
      BY <1>1, <3>1 DEF CallRecord
    <3> QED BY <3>2 DEF NewPrimary
  <2>4. CASE \E pc \in {"find", "primary"} : \E p :
               call' = [call EXCEPT ![c] = [@ EXCEPT !.pc = pc, !.seen = p]]
    <3>0. PICK pc \in {"find", "primary"} :
            \E p : call' = [call EXCEPT ![c] = [@ EXCEPT !.pc = pc, !.seen = p]]
      BY <2>4
    <3>1. PICK p : call' = [call EXCEPT ![c] = [@ EXCEPT !.pc = pc, !.seen = p]]
      BY <3>0
    <3>2. call'[c] = [call[c] EXCEPT !.pc = pc, !.seen = p]
      BY <1>1, <3>1
    <3>3. call'[c].pc = pc
      BY <1>1, <3>2 DEF CallRecord
    <3> QED BY <3>3
  <2>5. CASE \E v : call' = [call EXCEPT ![c] = [@ EXCEPT !.pc = "remove", !.value = v]]
    <3>1. PICK v : call' = [call EXCEPT ![c] = [@ EXCEPT !.pc = "remove", !.value = v]]
      BY <2>5
    <3>2. call'[c] = [call[c] EXCEPT !.pc = "remove", !.value = v]
      BY <1>1, <3>1
    <3>3. call'[c].pc = "remove"
      BY <1>1, <3>2 DEF CallRecord
    <3> QED BY <3>3
  <2>6. {"error", "ok", "partly", "check", "list"} \subseteq CallPcs \ {"start", "write"}
    BY DEF CallPcs
  <2>7. CASE GetPhotoByID(c) \/ CheckPrimary(c) \/ ListPhotoBibs(c) \/ GetPhotoBibByID(c)
    BY <2>1, <2>3, <2>4, <2>5, <2>6, <2>7
       DEF GetPhotoByID, CheckPrimary, ListPhotoBibs, GetPhotoBibByID
  <2>8. CASE UpdatePhoto(c) \/ SoftDeletePhoto(c) \/ AddPhotoBib(c) \/ DeletePhotoBib(c)
             \/ SetPrimaryBib(c)
    BY <2>1, <2>6, <2>8
       DEF UpdatePhoto, SoftDeletePhoto, AddPhotoBib, DeletePhotoBib, SetPrimaryBib, Answered
  <2> QED BY <2>2, <2>7, <2>8 DEF ClientStep
<1> QED BY <1>1, <1>2, <1>3 DEF ChoiceInv

\* A bib the loop has counted is there.
LEMMA CountedIsListed ==
  ASSUME TypeOk, NEW v \in Values, NEW o,
         IF Applied(o) /\ ~Duplicate(v) THEN InsertBib(v, "ocr") ELSE UNCHANGED bibVars,
         ~Errs(o)
  PROVE  Norm[v] \in Norms'
<1>1. CASE Duplicate(v)
  <2>1. bibs' = bibs
    BY <1>1 DEF bibVars
  <2> QED BY <1>1, <2>1 DEF Duplicate, Norms
<1>2. CASE ~Duplicate(v)
  <2>1. bibs' = bibs \cup {[id |-> nextId, value |-> v, source |-> "ocr"]}
    BY <1>2 DEF Applied, Errs, InsertBib
  <2>2. [id |-> nextId, value |-> v, source |-> "ocr"].value = v
    OBVIOUS
  <2> QED BY <2>1, <2>2 DEF Norms
<1> QED BY <1>1, <1>2

\* What a step of the recognition does to the bibs, the primary one and what it is
\* about to write: first is counted, or written, or the recognition is broken.
LEMMA OcrDoes ==
  ASSUME DeletionInv, RecognitionInv, ChoiceInv, OcrStep \/ TimeOut
  PROVE  /\ UNCHANGED call /\ bibs \subseteq bibs'
         /\ ocr'.pc = "add" /\ ocr'.first # None =>
              \/ ocr.pc = "add" /\ ocr'.first = ocr.first
              \/ Norm[ocr'.first] \in Norms'
         /\ ocr'.pc \notin {"finish", "ended"} => ~ocr'.broken
         /\ primary' = primary \/ (ocr.pc = "add" /\ ocr.left = <<>> /\ ocr.first # None
                                   /\ primary' = ocr.first /\ ocr'.pc = "finish")
         /\ ocr.broken => ocr'.broken
         /\ ocr.pc = "add" /\ ocr.first # None =>
              ocr'.broken \/ (ocr'.pc = "add" /\ ocr'.first # None) \/ primary' # None
         /\ bibs' # bibs => ocr'.broken \/ (ocr'.pc = "add" /\ ocr'.first # None)
<1>1. TypeOk /\ ocr \in OcrRecord /\ UNCHANGED call
  BY OcrMoves DEF DeletionInv, TypeOk
<1>2. CASE AddRecognized
  <2> DEFINE v == Head(ocr.left)
  <2>1. ocr.pc = "add" /\ ocr.left # <<>> /\ UNCHANGED primary /\ ~ocr.broken
    BY <1>2 DEF AddRecognized, ChoiceInv
  <2>2. bibs \subseteq bibs'
    BY <1>2 DEF AddRecognized, InsertBib, bibVars
  <2>3. CASE Norm[v] = NoBib
    <3>1. ocr' = [ocr EXCEPT !.left = Tail(@)] /\ bibs' = bibs
      BY <1>2, <2>3 DEF AddRecognized, bibVars
    <3>2. ocr'.pc = "add" /\ ocr'.first = ocr.first /\ ocr'.broken = ocr.broken
      BY <1>1, <2>1, <3>1 DEF OcrRecord
    <3> QED BY <1>1, <2>1, <3>1, <3>2
  <2>4. CASE Norm[v] # NoBib
    <3>1. PICK o \in OcrOutcome :
            /\ IF Applied(o) /\ ~Duplicate(v) THEN InsertBib(v, "ocr") ELSE UNCHANGED bibVars
            /\ IF Errs(o) THEN FinishBroken("failed", o) ELSE ocr' = Counted
      BY <1>2, <2>4 DEF AddRecognized
    <3>2. CASE Errs(o)
      <4>1. ocr'.pc = "finish" /\ ocr'.broken
        BY <1>1, <3>1, <3>2 DEF FinishBroken, OcrRecord
      <4> QED BY <1>1, <2>1, <2>2, <4>1
    <3>3. CASE ~Errs(o)
      <4>1. v \in Values /\ v # None
        BY <1>1, <2>1, <2>4, LeftType, ValuesAssumption
      <4>2. /\ ocr'.pc = "add" /\ ~ocr'.broken
            /\ ocr'.first = IF ocr.first = None THEN v ELSE ocr.first
        BY <1>1, <2>1, <3>1, <3>3 DEF Counted, OcrRecord
      <4>3. Norm[v] \in Norms'
        BY <1>1, <3>1, <3>3, <4>1, CountedIsListed
      <4> QED BY <1>1, <2>1, <2>2, <4>1, <4>2, <4>3
    <3> QED BY <3>2, <3>3
  <2> QED BY <2>3, <2>4
<1>3. CASE SetRecognizedPrimary
  <2>1. PICK o \in OcrOutcome :
          /\ primary' = IF Applied(o) THEN ocr.first ELSE primary
          /\ FinishBroken("completed", o)
    BY <1>3 DEF SetRecognizedPrimary
  <2>2. /\ ocr.pc = "add" /\ ~ocr.broken /\ ocr.first # None /\ ocr.left = <<>>
        /\ bibs' = bibs
    BY <1>3 DEF SetRecognizedPrimary, ChoiceInv, bibVars
  <2>3. ocr'.pc = "finish" /\ ocr'.broken = Errs(o)
    BY <1>1, <2>1 DEF FinishBroken, OcrRecord
  <2> QED BY <1>1, <2>1, <2>2, <2>3 DEF Applied, Errs
<1>4. CASE ~(AddRecognized \/ SetRecognizedPrimary)
  <2>1. UNCHANGED <<bibs, primary>>
    BY <1>4 DEF OcrStep, MarkProcessing, OpenOriginal, RecognizeBib, NothingAdded,
       UpdateBibRecognitionStatus, TimeOut, photo, bibVars
  <2>2. CASE MarkProcessing
    <3>1. ocr.pc = "scheduled" /\ ocr'.pc = "open" /\ ocr'.broken = ocr.broken
      BY <1>1, <2>2 DEF MarkProcessing, OcrRecord
    <3> QED BY <1>1, <2>1, <3>1 DEF ChoiceInv
  <2>3. CASE OpenOriginal \/ NothingAdded
    <3>1. /\ ocr'.pc \in {"recognize", "finish"} /\ ocr'.broken = ocr.broken
          /\ ocr.pc = "open" \/ (ocr.pc = "add" /\ ocr.first = None)
      BY <1>1, <2>3 DEF OpenOriginal, NothingAdded, Finish, OcrRecord
    <3> QED BY <1>1, <2>1, <3>1 DEF ChoiceInv
  <2>4. CASE RecognizeBib
    <3>1. ocr.pc = "recognize" /\ ocr.first = None
      BY <2>4 DEF RecognizeBib, RecognitionInv, VerdictInv
    <3>2. ocr'.broken = ocr.broken /\ ocr'.first = ocr.first
      BY <1>1, <2>4 DEF RecognizeBib, Finish, OcrRecord
    <3> QED BY <1>1, <2>1, <3>1, <3>2 DEF ChoiceInv
  <2>5. CASE UpdateBibRecognitionStatus
    <3>1. ocr.pc = "finish" /\ ocr'.pc = "ended" /\ (ocr.broken => ocr'.broken)
      BY <1>1, <2>5 DEF UpdateBibRecognitionStatus, OcrRecord
    <3> QED BY <1>1, <2>1, <3>1
  <2>6. CASE TimeOut
    <3>1. ocr'.pc = ocr.pc /\ ocr'.first = ocr.first /\ ocr'.broken = ocr.broken
      BY <1>1, <2>6 DEF TimeOut, OcrRecord
    <3> QED BY <1>1, <2>1, <3>1 DEF ChoiceInv
  <2> QED BY <1>4, <2>2, <2>3, <2>4, <2>5, <2>6 DEF OcrStep
<1> QED BY <1>2, <1>3, <1>4

\* What ChoiceInv says always holds.
LEMMA ChoiceKept == Spec => []ChoiceInv
<1>1. Init => ChoiceInv
  BY DEF Init, ChoiceInv
<1>2. DeletionInv /\ RecognitionInv /\ ChoiceInv /\ [Next]_vars => ChoiceInv'
  <2> SUFFICES ASSUME DeletionInv, RecognitionInv, ChoiceInv, [Next]_vars PROVE ChoiceInv'
    OBVIOUS
  <2>1. CASE OcrStep \/ TimeOut BY <2>1, OcrDoes DEF ChoiceInv
  <2>2. CASE \E c \in Clients : ClientStep(c) BY <2>2, ChoiceClient
  <2>3. CASE UNCHANGED vars BY <2>3 DEF vars, ChoiceInv
  <2> QED BY <2>1, <2>2, <2>3 DEF Next
<1> QED BY <1>1, <1>2, DeletionKept, RecognitionKept, PTL DEF Spec

-----------------------------------------------------------------------------
\* What PrimaryIsListed and HasPrimary say of a step.
Stays == (PrimaryListed => PrimaryListed') /\ (PrimaryThere => PrimaryThere')

\* A step of the recognition keeps the primary bib listed and owed to none, but for
\* a write that is outdated.
LEMMA PrimaryOcr ==
  ASSUME DeletionInv, RecognitionInv, ChoiceInv, OcrStep \/ TimeOut, ~OutdatedWrite
  PROVE  Stays
<1>1. /\ UNCHANGED call /\ bibs \subseteq bibs'
      /\ primary' = primary \/ (ocr.pc = "add" /\ ocr.left = <<>> /\ ocr.first # None
                                /\ primary' = ocr.first /\ ocr'.pc = "finish")
      /\ ocr.broken => ocr'.broken
      /\ ocr.pc = "add" /\ ocr.first # None =>
           ocr'.broken \/ (ocr'.pc = "add" /\ ocr'.first # None) \/ primary' # None
      /\ bibs' # bibs => ocr'.broken \/ (ocr'.pc = "add" /\ ocr'.first # None)
  BY OcrDoes
<1>2. Norms \subseteq Norms'
  BY <1>1 DEF Norms
<1>3. /\ HandPicked' = HandPicked /\ Broken' = Broken /\ Replacing' = Replacing
      /\ primary' = primary => Respelled' = Respelled
  BY <1>1 DEF HandPicked, Updates, Broken, Replacing, Respelled, Removers
<1>4. primary' = primary \/ (primary' # None /\ Norm[primary'] \in Norms')
  BY <1>1, <1>2 DEF OutdatedWrite, RecognitionOutdated, Amiss
<1>5. PrimaryListed => PrimaryListed'
  BY <1>1, <1>2, <1>3, <1>4 DEF PrimaryListed
<1>6. PrimaryThere => PrimaryThere'
  BY <1>1, <1>3, <1>4 DEF PrimaryThere, Cleared, Due
<1> QED BY <1>5, <1>6 DEF Stays

\* Those who have set a primary bib by hand, and the calls that broke off, stay.
LEMMA NotedStay ==
  ASSUME DeletionInv, ChoiceInv, NEW c \in Clients, ClientStep(c)
  PROVE  HandPicked \subseteq HandPicked' /\ Broken \subseteq Broken'
<1>1. /\ TypeOk /\ OpInv /\ Moves(c) /\ call[c] \in CallRecord
      /\ call \in [Clients -> CallRecord]
  BY ClientMoves DEF DeletionInv, TypeOk
<1>2. call[c].op = "update" => call'[c].op = "update" /\ call'[c].value = call[c].value
  <2> SUFFICES ASSUME call[c].op = "update"
               PROVE  call'[c].op = "update" /\ call'[c].value = call[c].value
    OBVIOUS
  <2>1. GetPhotoByID(c) \/ UpdatePhoto(c)
    BY <1>1 DEF ChoiceInv, OpInv, ClientStep, GetPhotoAccessInfo, SoftDeletePhoto,
       AddPhotoBib, CheckPrimary, GetPhotoBibByID, DeletePhotoBib, ListPhotoBibs, SetPrimaryBib
  <2>2. CASE \E pc \in {"error", "ok"} : Goto(c, pc)
    BY <1>1, <2>2, GotoMoves DEF CallPcs, Same
  <2>3. CASE call' = [call EXCEPT ![c] = [@ EXCEPT !.pc = "write",
                                          !.seen = NewPrimary(call[c].value),
                                          !.seenStage = NewStage(call[c].stage)]]
    <3>1. call'[c] = [call[c] EXCEPT !.pc = "write", !.seen = NewPrimary(call[c].value),
                                     !.seenStage = NewStage(call[c].stage)]
      BY <1>1, <2>3
    <3> QED BY <1>1, <3>1 DEF CallRecord
  <2> QED BY <2>1, <2>2, <2>3 DEF GetPhotoByID, UpdatePhoto
<1>3. HandPicked \subseteq HandPicked'
  BY <1>1, <1>2 DEF Moves, HandPicked, Updates
<1>4. call[c].pc # "partly"
  BY DEF ClientStep, GetPhotoAccessInfo, GetPhotoByID, UpdatePhoto, SoftDeletePhoto,
     AddPhotoBib, CheckPrimary, GetPhotoBibByID, DeletePhotoBib, ListPhotoBibs, SetPrimaryBib
<1>5. Broken \subseteq Broken'
  BY <1>1, <1>4 DEF Moves, Broken
<1> QED BY <1>3, <1>5

\* A step that leaves the primary bib alone and removes none keeps it listed.
LEMMA ListedFrame ==
  ASSUME DeletionInv, ChoiceInv, PrimaryListed, NEW c \in Clients, ClientStep(c),
         primary' = primary,
         c \in Replacing => c \in Replacing' \cup Broken',
         Norm[primary] \in Norms => Norm[primary] \in Norms' \/ c \in Respelled'
  PROVE  PrimaryListed'
<1>1. Moves(c)
  BY ClientMoves DEF DeletionInv
<1>2. HandPicked \subseteq HandPicked' /\ Broken \subseteq Broken'
  BY NotedStay
<1>3. \A d \in Replacing : d \in Replacing' \cup Broken'
  BY <1>1 DEF Moves, Replacing
<1>4. Respelled \subseteq Respelled'
  BY RemoversStay DEF Respelled
<1> QED BY <1>2, <1>3, <1>4 DEF PrimaryListed

\* A step that leaves the primary bib alone owes none it did not owe, unless the
\* call goes on to write one or breaks off.
LEMMA ThereFrame ==
  ASSUME DeletionInv, ChoiceInv, PrimaryThere, NEW c \in Clients, ClientStep(c),
         primary' = primary,
         bibs' # {} /\ primary = None =>
           \/ bibs # {} /\ call[c].pc \notin {"check", "list", "primary"}
           \/ call'[c].pc \in {"check", "list", "primary", "partly"}
  PROVE  PrimaryThere'
<1>1. Moves(c) /\ UNCHANGED ocr
  BY ClientMoves DEF DeletionInv, ClientStep, GetPhotoAccessInfo, GetPhotoByID, UpdatePhoto,
     SoftDeletePhoto, AddPhotoBib, CheckPrimary, GetPhotoBibByID, DeletePhotoBib,
     ListPhotoBibs, SetPrimaryBib
<1>2. HandPicked \subseteq HandPicked' /\ Broken \subseteq Broken'
  BY NotedStay
<1> SUFFICES ASSUME bibs' # {}, primary = None
             PROVE  Cleared' \/ Broken' # {} \/ ocr'.broken \/ Due'
  BY DEF PrimaryThere
<1>3. CASE call'[c].pc \in {"check", "list", "primary", "partly"}
  BY <1>3 DEF Due, Broken
<1>4. CASE bibs # {} /\ call[c].pc \notin {"check", "list", "primary"}
  <2>1. Cleared \/ Broken # {} \/ ocr.broken \/ Due
    BY <1>4 DEF PrimaryThere
  <2>2. Due => Due'
    BY <1>1, <1>4 DEF Due, Moves
  <2>3. Cleared => Cleared'
    BY <1>2 DEF Cleared
  <2> QED BY <1>1, <1>2, <2>1, <2>2, <2>3
<1> QED BY <1>3, <1>4

\* A client's write is among the steps OutdatedWrite excuses only when it is outdated.
LEMMA WriteInTime ==
  ASSUME DeletionInv, NEW c \in Clients, ~OutdatedWrite,
         UpdatePhoto(c) \/ DeletePhotoBib(c) \/ SetPrimaryBib(c)
  PROVE  ~Outdated(call[c])
<1>1. TypeOk /\ call[c].pc \in {"write", "remove", "primary"}
  BY DEF DeletionInv, UpdatePhoto, DeletePhotoBib, SetPrimaryBib
<1>2. PICK pc \in {"error", "ok", "partly", "list"} : Goto(c, pc)
  BY DEF UpdatePhoto, DeletePhotoBib, SetPrimaryBib, Answered
<1>3. call'[c].pc = pc
  BY <1>1, <1>2, GotoMoves DEF CallPcs
<1> QED BY <1>1, <1>3 DEF OutdatedWrite

\* UpdatePhoto writes the primary bib it has found, or what its client has set.
LEMMA PrimaryUpdate ==
  ASSUME DeletionInv, ChoiceInv, NEW c \in Clients, UpdatePhoto(c), ~OutdatedWrite
  PROVE  Stays
<1>1. TypeOk /\ OpInv /\ ClientStep(c) /\ ~Outdated(call[c])
  BY WriteInTime DEF DeletionInv, ClientStep
<1>2. /\ call[c].pc = "write" /\ call[c].op = "update" /\ bibs' = bibs /\ Norms' = Norms
      /\ call[c].value # "keep" =>
           call[c].seen = IF call[c].value = NoBib THEN None ELSE call[c].value
      /\ call[c].value = "keep" => call[c].seen = primary
      /\ primary' = primary \/ primary' = call[c].seen
      /\ call'[c].op = "update" /\ call'[c].value = call[c].value
  BY <1>1, RowsStand, GotoMoves
     DEF UpdatePhoto, OpInv, ChoiceInv, Outdated, bibVars, Same, CallPcs
<1>3. CASE primary' = primary
  <2>1. PrimaryListed => PrimaryListed'
    BY <1>1, <1>2, <1>3, ListedFrame DEF Replacing
  <2>2. PrimaryThere => PrimaryThere'
    BY <1>1, <1>2, <1>3, ThereFrame
  <2> QED BY <2>1, <2>2 DEF Stays
<1>4. CASE primary' # primary
  <2>1. /\ call[c].value \in HandPicked'
        /\ \/ primary' = None /\ call[c].value = NoBib
           \/ primary' = call[c].value
    BY <1>2, <1>4 DEF HandPicked, Updates
  <2> QED BY <2>1 DEF Stays, PrimaryListed, PrimaryThere, Cleared
<1> QED BY <1>3, <1>4

\* DeleteBib goes on to replace the bib it has removed if that was the primary one;
\* otherwise the primary one is still there, if not in the same spelling.
LEMMA PrimaryRemoval ==
  ASSUME DeletionInv, RecognitionInv, ChoiceInv, NEW c \in Clients, DeletePhotoBib(c),
         ~OutdatedWrite
  PROVE  Stays
<1>1. /\ TypeOk /\ OpInv /\ ClientStep(c) /\ FoundInv /\ ~Outdated(call[c])
  BY WriteInTime DEF DeletionInv, ClientStep, RecognitionInv
<1>2. /\ call[c].pc = "remove" /\ call[c].op = "unbib"
      /\ call[c].value = primary => call[c].seen = primary
      /\ primary' = primary /\ bibs' \subseteq bibs
  BY <1>1 DEF DeletePhotoBib, OpInv, Outdated
<1>3. call'[c].op = "unbib" /\ call'[c].value = call[c].value
  BY <1>1, <1>2, GotoMoves DEF DeletePhotoBib, Answered, CallPcs, Same
<1>4. PICK o \in Outcome :
        /\ bibs' = IF Applied(o) THEN {b \in bibs : b.id # call[c].bib} ELSE bibs
        /\ Goto(c, IF call[c].bib \notin Ids THEN "error"
                   ELSE Answered(o, IF call[c].seen = call[c].value THEN "list" ELSE "ok"))
  BY DEF DeletePhotoBib
<1>5. \/ bibs' = bibs
      \/ call'[c].pc \in {"list", "partly"}
      \/ call'[c].pc = "ok" /\ call[c].value # primary
  <2>1. CASE call[c].bib \notin Ids
    BY <1>4, <2>1 DEF Ids
  <2>2. CASE call[c].bib \in Ids /\ Applied(o)
    <3>1. CASE primary = call[c].value
      BY <1>1, <1>2, <1>4, <2>2, <3>1, GotoMoves DEF Answered, Applied, CallPcs
    <3>2. CASE primary # call[c].value
      <4>1. PICK pc \in {"list", "partly", "ok"} : Goto(c, pc)
        BY <1>4, <2>2 DEF Answered, Applied
      <4>2. call'[c].pc = pc
        BY <1>1, <4>1, GotoMoves DEF CallPcs
      <4> QED BY <3>2, <4>1, <4>2
    <3> QED BY <3>1, <3>2
  <2> QED BY <1>4, <2>1, <2>2
<1>6. PrimaryThere => PrimaryThere'
  BY <1>1, <1>2, ThereFrame
<1> SUFFICES ASSUME PrimaryListed PROVE PrimaryListed'
  BY <1>6 DEF Stays
<1>7. CASE bibs' = bibs
  <2>1. Norms' = Norms
    BY <1>7, RowsStand
  <2> QED BY <1>1, <1>2, <2>1, ListedFrame DEF Replacing
<1>8. CASE call'[c].pc \in {"list", "partly"}
  BY <1>3, <1>8 DEF PrimaryListed, Replacing, Broken
<1>9. CASE call'[c].pc = "ok" /\ call[c].value # primary
  <2>1. c \in Removers'
    BY <1>3, <1>9 DEF Removers, Gone
  <2>2. Norm[primary] \in Norms => Norm[primary] \in Norms' \/ c \in Respelled'
    <3> SUFFICES ASSUME NEW b \in bibs, Norm[primary] = Norm[b.value],
                        Norm[primary] \notin Norms'
                 PROVE  c \in Respelled'
      BY DEF Norms
    <3>1. b \notin bibs'
      BY DEF Norms
    <3>2. b.id = call[c].bib
      BY <1>4, <3>1
    <3>3. b.value = call[c].value
      BY <1>1, <1>2, <3>2 DEF FoundInv
    <3> QED BY <1>2, <1>3, <1>9, <2>1, <3>3 DEF Respelled
  <2> QED BY <1>1, <1>2, <2>2, ListedFrame DEF Replacing
<1> QED BY <1>5, <1>7, <1>8, <1>9

\* The last step of AddBib and DeleteBib writes a bib that is there, or none when
\* there is none, or is known to have failed.
LEMMA PrimaryWritten ==
  ASSUME DeletionInv, NEW c \in Clients, SetPrimaryBib(c), ~OutdatedWrite
  PROVE  Stays
<1>1. TypeOk /\ ~Outdated(call[c])
  BY WriteInTime DEF DeletionInv
<1>2. PICK o \in Outcome :
        /\ primary' = IF Applied(o) THEN call[c].seen ELSE primary
        /\ Goto(c, IF Errs(o) THEN "partly" ELSE "ok")
  BY DEF SetPrimaryBib
<1>3. call[c].pc = "primary" /\ bibs' = bibs /\ Norms' = Norms
  BY RowsStand DEF SetPrimaryBib, bibVars
<1>4. CASE Errs(o)
  <2>1. c \in Broken'
    BY <1>1, <1>2, <1>4, GotoMoves DEF Broken, CallPcs
  <2> QED BY <2>1 DEF Stays, PrimaryListed, PrimaryThere
<1>5. CASE ~Errs(o)
  <2>1. primary' = call[c].seen
    BY <1>2, <1>5 DEF Applied, Errs
  <2>2. IF primary' = None THEN bibs' = {} ELSE Norm[primary'] \in Norms'
    BY <1>1, <1>3, <2>1 DEF Outdated, Amiss
  <2> QED BY <2>2 DEF Stays, PrimaryListed, PrimaryThere
<1> QED BY <1>4, <1>5

\* A client's step keeps the primary bib listed and owed to none, but for a write
\* that is outdated.
LEMMA PrimaryClient ==
  ASSUME DeletionInv, RecognitionInv, ChoiceInv, NEW c \in Clients, ClientStep(c),
         ~OutdatedWrite
  PROVE  Stays
<1>1. /\ TypeOk /\ OpInv /\ Moves(c) /\ call[c] \in CallRecord
      /\ call \in [Clients -> CallRecord]
  BY ClientMoves DEF DeletionInv, TypeOk
<1>2. CASE UpdatePhoto(c) BY <1>2, PrimaryUpdate
<1>3. CASE DeletePhotoBib(c) BY <1>3, PrimaryRemoval
<1>4. CASE SetPrimaryBib(c) BY <1>4, PrimaryWritten
<1>5. CASE \/ GetPhotoAccessInfo(c) \/ GetPhotoByID(c) \/ SoftDeletePhoto(c)
           \/ GetPhotoBibByID(c)
  <2>1. /\ primary' = primary /\ bibs' = bibs /\ Norms' = Norms
        /\ call[c].pc \in {"start", "read", "delete", "find"}
    BY <1>5, RowsStand DEF GetPhotoAccessInfo, GetPhotoByID, SoftDeletePhoto,
       GetPhotoBibByID, photo, bibVars
  <2>2. PrimaryListed => PrimaryListed'
    BY <2>1, ListedFrame DEF Replacing
  <2>3. PrimaryThere => PrimaryThere'
    BY <2>1, ThereFrame
  <2> QED BY <2>2, <2>3 DEF Stays
<1>6. CASE AddPhotoBib(c)
  <2>1. /\ primary' = primary /\ bibs \subseteq bibs' /\ call[c].pc = "insert"
        /\ bibs' = bibs \/ call'[c].pc \in {"check", "partly"}
    <3>1. CASE Duplicate(call[c].value)
      BY <1>6, <3>1 DEF AddPhotoBib, bibVars
    <3>2. CASE ~Duplicate(call[c].value)
      BY <1>1, <1>6, <3>2, GotoMoves
         DEF AddPhotoBib, bibVars, InsertBib, Answered, Applied, CallPcs
    <3> QED BY <3>1, <3>2
  <2>2. Norms \subseteq Norms'
    BY <2>1 DEF Norms
  <2>3. PrimaryListed => PrimaryListed'
    BY <2>1, <2>2, ListedFrame DEF Replacing
  <2>4. PrimaryThere => PrimaryThere'
    BY <2>1, ThereFrame
  <2> QED BY <2>3, <2>4 DEF Stays
<1>7. CASE CheckPrimary(c) \/ ListPhotoBibs(c)
  <2>1. /\ primary' = primary /\ bibs' = bibs /\ Norms' = Norms
        /\ call'[c].op = call[c].op
        /\ \/ call'[c].pc \in {"partly", "primary"}
           \/ call[c].pc = "check" /\ primary # None
    <3>1. CASE \E pc \in {"partly", "ok"} : Goto(c, pc)
      <4>1. PICK pc \in {"partly", "ok"} : Goto(c, pc)
        BY <3>1
      <4>2. call'[c].pc = pc /\ call'[c].op = call[c].op
        BY <1>1, <4>1, GotoMoves DEF CallPcs, Same
      <4>3. primary' = primary /\ bibs' = bibs /\ Norms' = Norms
        BY <1>7, RowsStand DEF CheckPrimary, ListPhotoBibs, photo, bibVars
      <4>4. pc = "ok" => call[c].pc = "check" /\ primary # None
        BY <1>1, <1>7, <4>1, <4>2 DEF CheckPrimary, ListPhotoBibs, NeedsPrimary, CallRecord, Goto
      <4> QED BY <4>1, <4>2, <4>3, <4>4
    <3>2. CASE \E p : call' = [call EXCEPT ![c] = [@ EXCEPT !.pc = "primary", !.seen = p]]
      <4>1. PICK p : call' = [call EXCEPT ![c] = [@ EXCEPT !.pc = "primary", !.seen = p]]
        BY <3>2
      <4>2. call'[c] = [call[c] EXCEPT !.pc = "primary", !.seen = p]
        BY <1>1, <4>1
      <4>3. call'[c].pc = "primary" /\ call'[c].op = call[c].op
        BY <1>1, <4>2 DEF CallRecord
      <4> QED BY <1>7, <4>3, RowsStand DEF CheckPrimary, ListPhotoBibs, photo, bibVars
    <3> QED BY <1>7, <3>1, <3>2 DEF CheckPrimary, ListPhotoBibs
  <2>2. c \in Replacing => c \in Replacing' \cup Broken'
    BY <1>1, <1>7, <2>1 DEF Replacing, Broken, CheckPrimary, ListPhotoBibs, OpInv
  <2>3. PrimaryListed => PrimaryListed'
    BY <2>1, <2>2, ListedFrame
  <2>4. PrimaryThere => PrimaryThere'
    BY <2>1, ThereFrame
  <2> QED BY <2>3, <2>4 DEF Stays
<1> QED BY <1>2, <1>3, <1>4, <1>5, <1>6, <1>7 DEF ClientStep

\* No step but an outdated write loses either.
LEMMA PrimaryKept ==
  ASSUME DeletionInv, RecognitionInv, ChoiceInv, [Next]_vars, ~OutdatedWrite
  PROVE  Stays
<1>1. CASE OcrStep \/ TimeOut BY <1>1, PrimaryOcr
<1>2. CASE \E c \in Clients : ClientStep(c) BY <1>2, PrimaryClient
<1>3. CASE UNCHANGED vars
  <2>1. UNCHANGED <<bibs, primary, call, ocr>>
    BY <1>3 DEF vars, photo, bibVars
  <2>2. Norms' = Norms /\ HandPicked' = HandPicked /\ Broken' = Broken
        /\ Replacing' = Replacing /\ Respelled' = Respelled
    BY <2>1 DEF Norms, HandPicked, Updates, Broken, Replacing, Respelled, Removers
  <2> QED BY <2>1, <2>2 DEF Stays, PrimaryListed, PrimaryThere, Cleared, Due
<1> QED BY <1>1, <1>2, <1>3 DEF Next

\* The primary bib ceases to be one of the photo's, or one set by hand, only by a
\* write that is outdated when it is made, however calls and recognition overlap.
THEOREM PrimaryStaysListed == Spec => PrimaryIsListed
<1>1. DeletionInv /\ RecognitionInv /\ ChoiceInv /\ [Next]_vars =>
        [PrimaryListed => PrimaryListed' \/ OutdatedWrite]_vars
  BY PrimaryKept DEF Stays
<1> QED BY <1>1, DeletionKept, RecognitionKept, ChoiceKept, PTL DEF Spec, PrimaryIsListed

\* Only by such a write is a photo that has bibs left without a primary one.
THEOREM BibsHavePrimary == Spec => HasPrimary
<1>1. DeletionInv /\ RecognitionInv /\ ChoiceInv /\ [Next]_vars =>
        [PrimaryThere => PrimaryThere' \/ OutdatedWrite]_vars
  BY PrimaryKept DEF Stays
<1> QED BY <1>1, DeletionKept, RecognitionKept, ChoiceKept, PTL DEF Spec, HasPrimary

-----------------------------------------------------------------------------
\* What a call has just read, or inserted, is what is there.
LEMMA ClientIsFresh ==
  ASSUME DeletionInv, NEW c \in Clients, ClientStep(c), ~Overtaken(call[c])
  PROVE  ~Overtaken(call[c])'
<1>1. /\ TypeOk /\ OpInv /\ CheckedInv /\ call[c] \in CallRecord
      /\ call \in [Clients -> CallRecord]
  BY DEF DeletionInv, TypeOk
<1>2. CASE \E pc \in {"error", "ok", "partly", "list"} : Goto(c, pc)
  <2>1. call'[c].pc \in {"error", "ok", "partly", "list"}
    BY <1>1, <1>2, GotoMoves DEF CallPcs
  <2> QED BY <2>1 DEF Overtaken, Outdated
<1>3. CASE GetPhotoAccessInfo(c)
  <2>1. call'[c].pc \in {"error", "insert", "delete", "read"}
    BY <1>1, <1>3 DEF GetPhotoAccessInfo, Checked, FirstStep
  <2> QED BY <2>1 DEF Overtaken, Outdated
<1>4. CASE GetPhotoByID(c)
  <2>1. primary' = primary
    BY <1>4 DEF GetPhotoByID, photo
  <2>2. CASE call' = [call EXCEPT ![c] = [@ EXCEPT !.pc = "find", !.seen = primary]]
    <3>1. call'[c] = [call[c] EXCEPT !.pc = "find", !.seen = primary]
      BY <1>1, <2>2
    <3>2. call'[c].pc = "find" /\ call'[c].seen = primary
      BY <1>1, <3>1 DEF CallRecord
    <3> QED BY <2>1, <3>2 DEF Overtaken, Outdated
  <2>3. CASE call' = [call EXCEPT ![c] = [@ EXCEPT !.pc = "write",
                                          !.seen = NewPrimary(call[c].value),
                                          !.seenStage = NewStage(call[c].stage)]]
    <3>1. call'[c] = [call[c] EXCEPT !.pc = "write", !.seen = NewPrimary(call[c].value),
                                     !.seenStage = NewStage(call[c].stage)]
      BY <1>1, <2>3
    <3>2. /\ call'[c].pc = "write" /\ call'[c].seen = NewPrimary(call[c].value)
          /\ call'[c].value = call[c].value
      BY <1>1, <3>1 DEF CallRecord
    <3>3. call[c].value = "keep" => call'[c].seen = primary
      BY <3>2, ValuesAssumption DEF NewPrimary
    <3> QED BY <2>1, <3>2, <3>3 DEF Overtaken, Outdated
  <2> QED BY <1>2, <1>4, <2>2, <2>3 DEF GetPhotoByID
<1>5. CASE AddPhotoBib(c)
  <2>1. CASE Goto(c, "check")
    <3>1. call'[c].pc = "check" /\ call'[c].value = call[c].value
      BY <1>1, <2>1, GotoMoves DEF CallPcs
    <3>2. bibs' = bibs \cup {[id |-> nextId, value |-> call[c].value, source |-> "manual"]}
      BY <1>1, <1>5, <3>1, GotoMoves DEF AddPhotoBib, Answered, Applied, InsertBib, CallPcs
    <3>3. [id |-> nextId, value |-> call[c].value, source |-> "manual"].value = call[c].value
      OBVIOUS
    <3>4. call[c].value # None /\ Norm[call[c].value] \in Norms'
      BY <1>1, <1>5, <3>2, <3>3, ValuesAssumption DEF AddPhotoBib, CheckedInv, Norms
    <3> QED BY <3>1, <3>4 DEF Overtaken, Outdated, Amiss
  <2> QED BY <1>2, <1>5, <2>1 DEF AddPhotoBib, Answered
<1>6. CASE CheckPrimary(c) \/ ListPhotoBibs(c)
  <2>1. bibs' = bibs /\ Norms' = Norms
    BY <1>6, RowsStand DEF CheckPrimary, ListPhotoBibs, photo, bibVars
  <2>2. CASE \E p : /\ ~Amiss(p)
                    /\ call' = [call EXCEPT ![c] = [@ EXCEPT !.pc = "primary", !.seen = p]]
    <3>1. PICK p : /\ ~Amiss(p)
                   /\ call' = [call EXCEPT ![c] = [@ EXCEPT !.pc = "primary", !.seen = p]]
      BY <2>2
    <3>2. call'[c] = [call[c] EXCEPT !.pc = "primary", !.seen = p]
      BY <1>1, <3>1
    <3>3. call'[c].pc = "primary" /\ call'[c].seen = p
      BY <1>1, <3>2 DEF CallRecord
    <3> QED BY <2>1, <3>1, <3>3 DEF Overtaken, Outdated, Amiss
  <2>3. ~Amiss(NextPrimary)
    BY <1>1, NextIsListed, ValuesAssumption DEF Amiss
  <2>4. CheckPrimary(c) => ~Amiss(call[c].value)
    BY DEF CheckPrimary, Overtaken
  <2> QED BY <1>2, <1>6, <2>2, <2>3, <2>4 DEF CheckPrimary, ListPhotoBibs
<1>7. CASE GetPhotoBibByID(c)
  <2>1. primary' = primary /\ call[c].seen = primary
    BY <1>7 DEF GetPhotoBibByID, photo, Overtaken
  <2>2. CASE \E v : call' = [call EXCEPT ![c] = [@ EXCEPT !.pc = "remove", !.value = v]]
    <3>1. PICK v : call' = [call EXCEPT ![c] = [@ EXCEPT !.pc = "remove", !.value = v]]
      BY <2>2
    <3>2. call'[c] = [call[c] EXCEPT !.pc = "remove", !.value = v]
      BY <1>1, <3>1
    <3>3. call'[c].pc = "remove" /\ call'[c].seen = call[c].seen
      BY <1>1, <3>2 DEF CallRecord
    <3> QED BY <2>1, <3>3 DEF Overtaken, Outdated
  <2> QED BY <1>2, <1>7, <2>2 DEF GetPhotoBibByID
<1>8. CASE UpdatePhoto(c) \/ SoftDeletePhoto(c) \/ DeletePhotoBib(c) \/ SetPrimaryBib(c)
  BY <1>2, <1>8 DEF UpdatePhoto, SoftDeletePhoto, DeletePhotoBib, SetPrimaryBib, Answered
<1> QED BY <1>3, <1>4, <1>5, <1>6, <1>7, <1>8 DEF ClientStep

\* A call, or the recognition, is about to make an outdated write only because of
\* what others have done since it read: one that overlaps with nothing makes none.
THEOREM OvertakenOnlyByOthers == Spec => OvertakenByOthers
<1> DEFINE Fresh(c) == call'[c] # call[c] /\ ~Overtaken(call[c]) => ~Overtaken(call[c])'
<1>1. ASSUME DeletionInv, RecognitionInv, ChoiceInv, [Next]_vars
      PROVE  /\ \A c \in Clients : Fresh(c)
             /\ ocr' # ocr /\ ~RecognitionOutdated => ~RecognitionOutdated'
  <2>1. CASE OcrStep \/ TimeOut
    <3>1. /\ UNCHANGED call /\ bibs \subseteq bibs'
          /\ ocr'.pc = "add" /\ ocr'.first # None =>
               \/ ocr.pc = "add" /\ ocr'.first = ocr.first
               \/ Norm[ocr'.first] \in Norms'
      BY <1>1, <2>1, OcrDoes
    <3>2. Norms \subseteq Norms'
      BY <3>1 DEF Norms
    <3> QED BY <3>1, <3>2 DEF RecognitionOutdated, Amiss
  <2>2. ASSUME NEW d \in Clients, ClientStep(d)
        PROVE  (\A c \in Clients : Fresh(c)) /\ UNCHANGED ocr
    <3>1. UNCHANGED ocr
      BY <2>2 DEF ClientStep, GetPhotoAccessInfo, GetPhotoByID, UpdatePhoto, SoftDeletePhoto,
         AddPhotoBib, CheckPrimary, GetPhotoBibByID, DeletePhotoBib, ListPhotoBibs,
         SetPrimaryBib
    <3>2. \A c \in Clients \ {d} : call'[c] = call[c]
      BY <1>1, <2>2, ClientMoves DEF DeletionInv, Moves
    <3>3. Fresh(d)
      BY <1>1, <2>2, ClientIsFresh
    <3> QED BY <3>1, <3>2, <3>3
  <2>3. CASE UNCHANGED vars
    BY <2>3 DEF vars
  <2> QED BY <1>1, <2>1, <2>2, <2>3 DEF Next
<1>2. DeletionInv /\ RecognitionInv /\ ChoiceInv /\ [Next]_vars =>
        [/\ \A c \in Clients :
              call'[c] # call[c] /\ ~Overtaken(call[c]) => ~Overtaken(call[c])'
         /\ ocr' # ocr /\ ~RecognitionOutdated => ~RecognitionOutdated']_vars
  BY <1>1
<1> QED BY <1>2, DeletionKept, RecognitionKept, ChoiceKept, PTL DEF Spec, OvertakenByOthers

=============================================================================

----------------------- MODULE PhotoRecordProperties -----------------------
(***************************************************************************)
(* What is claimed of a photo's record under concurrent calls.             *)
(***************************************************************************)
EXTENDS PhotoRecord

BibRow == [id : Nat, value : Values, source : {"manual", "ocr"}]
CallPcs == {"start", "read", "find", "remove", "list", "insert", "check", "delete",
            "write", "primary", "ok", "error", "partly"}
CallRecord == [pc : CallPcs, op : Operations, value : Values \cup {NoBib, None, "keep"},
               stage : Stages \cup {None, "keep"}, bib : Nat,
               seen : Values \cup {None}, seenStage : Stages \cup {None}]
OcrRecord == [pc : {"none", "scheduled", "open", "recognize", "add", "finish", "ended"},
              found : Seq(Values \cup {NoBib}), left : Seq(Values \cup {NoBib}),
              first : Values \cup {None}, verdict : Statuses, late : BOOLEAN,
              broken : BOOLEAN]

\* The types of all the variables (type invariant); a primary bib is never blank.
TypeOk ==
  /\ bibs \subseteq BibRow
  /\ nextId \in Nat
  /\ primary \in Values \cup {None}
  /\ stage \in Stages \cup {None}
  /\ status \in Statuses
  /\ deletedBy \in Clients \cup {None}
  /\ call \in [Clients -> CallRecord]
  /\ ocr \in OcrRecord

\* Inductive part of TypeOk: a bib that AddBib inserts has passed its check.
CheckedInv == \A c \in Clients : call[c].pc \in {"insert", "check"} => call[c].value \in Values

\* Which operations reach which steps; nothing but DeletePhoto and DeleteBib
\* themselves end what OneDeletion and BibRemovedOnce speak of.
OpInv ==
  \A c \in Clients : LET k == call[c] IN
    /\ k.pc = "delete" => k.op = "delete"
    /\ k.pc = "write" => k.op = "update"
    /\ k.pc \in {"insert", "check"} => k.op = "add"
    /\ k.pc \in {"find", "remove", "list"} => k.op = "unbib"
    /\ k.pc = "read" => k.op \in {"update", "unbib"}
    /\ k.pc = "primary" => k.op \in {"add", "unbib"}

\* A client whose DeletePhoto succeeded is, for good, the one recorded in
\* deleted_by, so at most one succeeds however many passed the check on
\* deleted_at at once.  Holds under every failure.
OneDeletion ==
  \A c \in Clients : call[c].op = "delete" /\ call[c].pc = "ok" => deletedBy = c

\* The calls of DeleteBib that have removed their bib.
Gone == {"list", "primary", "ok", "partly"}
Removers == {c \in Clients : call[c].op = "unbib" /\ call[c].pc \in Gone}

\* Of the calls of DeleteBib that found the same bib, one at most removes it, and
\* the others end with an error.  Holds under every failure.
BibRemovedOnce == \A c, d \in Removers : c # d => call[c].bib # call[d].bib

\* Inductive form of BibRemovedOnce: what has been removed does not come back,
\* since no bib is inserted with an id that some call knows.
RemovalInv ==
  /\ \A b \in bibs : b.id < nextId
  /\ \A c \in Clients : call[c].bib < nextId
  /\ \A c \in Removers : call[c].bib \notin Ids
  /\ BibRemovedOnce

\* The normal forms of the bibs that calls of DeleteBib have removed.
Removed == {Norm[call[c].value] : c \in Removers}
Kept(v) == Norm[v] \in Norms \cup Removed \cup {NoBib}

\* bib_recognition_status tells what became of the recognized bibs: "completed"
\* that each of them was added or was there already, and is there unless a call of
\* DeleteBib has removed it, "not_found" that none was added.  Holds whatever
\* statement fails and when the time runs out.
RecognitionIsTrue ==
  /\ status = "completed" =>
       \A i \in 1..Len(ocr.found) : Kept(ocr.found[i])
  /\ status = "not_found" => \A b \in bibs : b.source # "ocr"

\* Inductive form of RecognitionIsTrue: a call removes the bib it has found, what
\* the loop has passed is kept, and before it has counted one none is added.
FoundInv ==
  /\ \A a, b \in bibs : a.id = b.id => a = b
  /\ \A c \in Clients : call[c].pc = "remove" =>
       \A b \in bibs : b.id = call[c].bib => b.value = call[c].value
Passed == Len(ocr.found) - Len(ocr.left)
LoopInv == ocr.pc = "add" =>
  /\ Passed >= 0
  /\ \A i \in 1..Len(ocr.left) : ocr.left[i] = ocr.found[Passed + i]
  /\ \A i \in 1..Passed : Kept(ocr.found[i])
Uncounted ==
  \/ ocr.pc \in {"none", "scheduled", "open", "recognize"}
  \/ ocr.pc = "add" /\ ocr.first = None
  \/ ocr.pc \in {"finish", "ended"} /\ ocr.verdict = "not_found"
VerdictInv ==
  /\ Uncounted => \A b \in bibs : b.source # "ocr"
  /\ ocr.pc \in {"none", "scheduled", "open", "recognize"} => ocr.first = None
  /\ ocr.pc \in {"finish", "ended"} /\ ocr.verdict = "completed" =>
       \A i \in 1..Len(ocr.found) : Kept(ocr.found[i])
  /\ status \in {"pending", "processing"} \/ (ocr.pc = "ended" /\ status = ocr.verdict)
RecognitionInv == FoundInv /\ LoopInv /\ VerdictInv

\* The primary bib is one of the photo's bibs, up to normalization, or one a
\* client sets by hand.  While DeleteBib is replacing it, and after a call that
\* broke off between its statements, it may be the old one; and DeleteBib leaves
\* it alone when the bib it removed was spelled otherwise.
Updates == {c \in Clients : call[c].op = "update"}
HandPicked == {call[c].value : c \in Updates}
Replacing == {c \in Clients : call[c].op = "unbib" /\ call[c].pc \in {"list", "primary"}}
Broken == {c \in Clients : call[c].pc = "partly"}
Respelled == {c \in Removers : call[c].value # primary /\ Norm[call[c].value] = Norm[primary]}
PrimaryListed ==
  \/ primary \in {None} \cup HandPicked
  \/ Replacing \cup Broken \cup Respelled # {}
  \/ Norm[primary] \in Norms

\* A photo that has bibs has a primary one, unless a client clears it, a call or
\* the recognition broke off, or one of them is about to set it.
Cleared == HandPicked \cap {None, NoBib} # {}
Due == \/ \E c \in Clients : call[c].pc \in {"check", "list", "primary"}
       \/ ocr.pc = "add" /\ ocr.first # None
PrimaryThere ==
  bibs # {} /\ primary = None => Cleared \/ Broken # {} \/ ocr.broken \/ Due

\* A write that rests on what is not so any more: the primary bib it sets has been
\* removed, or it sets none where a bib has been added; UpdatePhoto writes back one
\* that has been replaced; DeleteBib removes a bib that has become the primary one.
Amiss(v) == IF v = None THEN bibs # {} ELSE Norm[v] \notin Norms
Outdated(k) ==
  \/ k.pc = "primary" /\ Amiss(k.seen)
  \/ k.pc = "write" /\ k.value = "keep" /\ k.seen # primary
  \/ k.pc = "remove" /\ k.value = primary /\ k.seen # primary
RecognitionOutdated == ocr.pc = "add" /\ ocr.first # None /\ Amiss(ocr.first)
OutdatedWrite ==
  \/ \E c \in Clients : call'[c] # call[c] /\ Outdated(call[c])
  \/ ocr' # ocr /\ ocr.left = <<>> /\ RecognitionOutdated

\* However the calls and the recognition overlap, and whatever fails, the primary
\* bib ceases to be a listed one only by a write that is outdated when it is made:
\* nothing holds the photo between a call's statements.
PrimaryIsListed == [][PrimaryListed => PrimaryListed' \/ OutdatedWrite]_vars

\* And only so is a photo that has bibs left without a primary one.
HasPrimary == [][PrimaryThere => PrimaryThere' \/ OutdatedWrite]_vars

\* No write is outdated but by the steps of others: a call, or the recognition, that
\* overlaps with nothing never makes such a write.  (What a call still has to read
\* may be overtaken too.)
Overtaken(k) ==
  \/ Outdated(k)
  \/ k.pc = "find" /\ k.seen # primary
  \/ k.pc = "check" /\ Amiss(k.value)
OvertakenByOthers ==
  [][/\ \A c \in Clients :
          call'[c] # call[c] /\ ~Overtaken(call[c]) => ~Overtaken(call[c])'
     /\ ocr' # ocr /\ ~RecognitionOutdated => ~RecognitionOutdated']_vars

\* Inductive part of them all: only an update that keeps the primary bib rests on the
\* one it has read, and no recognition is broken before it is over.
ChoiceInv ==
  /\ \A c \in Clients : LET k == call[c] IN
       /\ k.pc = "start" => k.op = "add"
       /\ k.pc = "write" /\ k.value # "keep" =>
            k.seen = IF k.value = NoBib THEN None ELSE k.value
  /\ ocr.pc \notin {"finish", "ended"} => ~ocr.broken

\* The end of a recognition decides the status, unless a statement of it failed.  It
\* decides nothing once its time has run out: the writes of the verdict share the
\* context, so the photo stays "pending" or "processing".
Verdicts == {"completed", "not_found", "failed"}
Undecided == {"pending", "processing"}
RecognitionIsDecided ==
  /\ ocr.pc = "ended" => /\ ocr.verdict \in Verdicts
                         /\ ocr.broken \/ status = ocr.verdict
                         /\ ocr.late => ocr.broken /\ status \in Undecided
  /\ ocr.pc = "finish" => ocr.verdict \in Verdicts
  /\ ocr.pc # "ended" => status \in Undecided

\* A verdict is final: no edit of the photo and no later step changes it.
VerdictsAreFinal == [][status' # status => status \in Undecided]_vars

\* The steps a recognition may still take when no answer names more than n bibs;
\* each of its steps is one of them, and no step of a client adds to them.
RecognitionLeft(n) ==
  (CASE ocr.pc = "scheduled" -> n + 5
     [] ocr.pc = "open" -> n + 4
     [] ocr.pc = "recognize" -> n + 3
     [] ocr.pc = "add" -> Len(ocr.left) + 2
     [] ocr.pc = "finish" -> 1
     [] ocr.pc \in {"ended", "none"} -> 0)
  + (IF ocr.late THEN 0 ELSE 1)
RecognitionGoesOn(n) ==
  IF OcrStep \/ TimeOut THEN RecognitionLeft(n)' < RecognitionLeft(n)
  ELSE RecognitionLeft(n)' = RecognitionLeft(n)

\* A scheduled recognition ends, whatever the OCR service answers, and leaves its
\* verdict in the status unless a statement of it failed; needs FairSpec, and an
\* OCR service that answers before the time runs out.
RecognitionEnds ==
  Recognizing => <>(ocr.pc = "ended" /\ (ocr.broken \/ status = ocr.verdict))
=============================================================================

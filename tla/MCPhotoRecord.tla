--------------------------- MODULE MCPhotoRecord ---------------------------
(* The small instances of PhotoRecord that TLC checks.                     *)
EXTENDS PhotoRecordProperties, TLC

CONSTANTS c1, c2, c3, v1, v1b, v2, dash, stageA, stageB, blank, none

\* Two spellings of one bib, another bib, and a value without a normal form.
Spellings == (v1 :> v1) @@ (v1b :> v1) @@ (v2 :> v2) @@ (dash :> blank) @@ (blank :> blank)

Ask(op, value, st) == [op |-> op, value |-> value, stage |-> st]
Adds == {Ask("add", v, "keep") : v \in {v1, v2, dash}}
Removes == {Ask("unbib", none, "keep"), Ask("delete", none, "keep")}
Edits == {Ask("update", "keep", stageA), Ask("update", "keep", stageB),
          Ask("update", v1b, none), Ask("update", blank, "keep")}
EveryRequest == Adds \cup Removes \cup Edits
FewRequests == {Ask("add", v1, "keep"), Ask("add", v2, "keep"), Ask("unbib", none, "keep"),
                Ask("update", "keep", stageA), Ask("update", v1b, "keep"),
                Ask("update", blank, "keep")}

Answer(s, found, one) == [status |-> s, bibs |-> found, bib |-> one]
Answers == {Answer("completed", <<dash, v1b, v2>>, none), Answer("completed", <<>>, v1),
            Answer("completed", <<blank>>, none), Answer("completed", <<dash>>, none),
            Answer("not_found", <<>>, none),
            Answer("failed", <<>>, none), Answer("unknown", <<>>, none)}
OneAnswer == {Answer("completed", <<dash, v1b, v2>>, none)}

ClientSymmetry == Permutations(Clients)
=============================================================================

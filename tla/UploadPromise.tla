--------------------------- MODULE UploadPromise ---------------------------
(***************************************************************************)
(* What the asynchronous upload promises a client, whatever happens inside.*)
(* A file is answered once, an accepted file becomes a photo or is given up *)
(* once and for all, alone or with the files that were under way with it,  *)
(* and the status of an upload says it is over only when every one of its  *)
(* files has met its fate, in the word that fits.                          *)
(***************************************************************************)
CONSTANTS Files, Uploads, FilesOfUpload(_)

VARIABLES
  fate,     \* of each file: "pending", "rejected", "accepted", "photo", "failed"
  report    \* of each upload: "open", "completed", "completed_with_errors"

vars == <<fate, report>>

Final == {"rejected", "photo", "failed"}

\* The report of u may stay as it is, or turn to what the files' fates, as
\* they are after this step, have come to.
ReportFor(u) ==
  LET F == {fate'[f] : f \in FilesOfUpload(u)} IN
  IF report[u] # "open" \/ ~(F \subseteq Final) THEN {report[u]}
  ELSE IF "failed" \in F THEN {"open", "completed_with_errors"}
  ELSE IF "photo" \in F THEN {"open", "completed"}
  ELSE {"open"}

Reporting == /\ DOMAIN report' = Uploads
             /\ report' = [u \in Uploads |-> report'[u]]
             /\ \A u \in Uploads : report'[u] \in ReportFor(u)

Turns(f, from, to) ==
  /\ fate[f] = from
  /\ fate' = [fate EXCEPT ![f] = to]
  /\ Reporting

Answer(f) == Turns(f, "pending", "accepted") \/ Turns(f, "pending", "rejected")
Publish(f) == Turns(f, "accepted", "photo")
GiveUp(S) ==
  /\ S # {}
  /\ \A f \in S : fate[f] = "accepted"
  /\ fate' = [f \in Files |-> IF f \in S THEN "failed" ELSE fate[f]]
  /\ Reporting
Close(u) == report[u] = "open" /\ UNCHANGED fate /\ Reporting

Init == /\ fate = [f \in Files |-> "pending"]
        /\ report = [u \in Uploads |-> "open"]

Next == \/ \E f \in Files : Answer(f) \/ Publish(f)
        \/ \E S \in SUBSET Files : GiveUp(S)
        \/ \E u \in Uploads : Close(u)

Safety == Init /\ [][Next]_vars

\* And no accepted file is left without a fate for ever.
EveryFileSettles ==
  \A f \in Files : fate[f] = "accepted" ~> fate[f] \in {"photo", "failed"}

Spec == Safety /\ EveryFileSettles
=============================================================================

------------------------------ MODULE Outcomes ------------------------------
(* What may become of a statement sent to the database or the store: it is  *)
(* carried out and answered ("ok"), it is not carried out ("fail"), or it   *)
(* is and the reply is lost ("lostReply").                                  *)
AllOutcomes == {"ok", "fail", "lostReply"}
Applied(o) == o # "fail"
Errs(o) == o # "ok"
=============================================================================

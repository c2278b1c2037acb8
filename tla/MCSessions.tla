----------------------------- MODULE MCSessions -----------------------------
(* The small instances of Sessions that TLC checks.                        *)
EXTENDS Sessions, TLC

CONSTANTS c1, c2, c3, c4, ann, bob, eve, p1, p2, none

\* Ann and Bob have accounts, Eve may register.
TwoSeeded == (ann :> p1) @@ (bob :> p1) @@ (eve :> none)
AnnAndEve == (ann :> p1) @@ (eve :> p2)

ClientSymmetry == Permutations(Clients)
=============================================================================

--------------------------- MODULE MCCompetitions ---------------------------
(* The small instance of Competitions that TLC checks.                     *)
EXTENDS CompetitionsProperties, TLC

CONSTANTS c1, c2, c3, adam, orla, otto, o1, none

\* Days have two units; the clock is half a day east of UTC.  The competition
\* lasts from the second half of day 0 to the first half of day 2.
Opening == [start |-> 0, end |-> 3, organizer |-> orla, updatedBy |-> adam, cover |-> o1]
FirstDay == [of |-> o1, start |-> 0, end |-> 1]

Asks(op, actor) == [op |-> op, actor |-> actor, start |-> none, end |-> none,
                    organizer |-> none, remove |-> FALSE, cover |-> FALSE]
Asked == {
  [Asks("create", otto) EXCEPT !.start = 2, !.end = 4, !.organizer = orla, !.cover = TRUE],
  [Asks("update", orla) EXCEPT !.cover = TRUE, !.end = 1],
  [Asks("update", otto) EXCEPT !.organizer = otto, !.start = 2],
  [Asks("update", adam) EXCEPT !.organizer = otto, !.cover = TRUE],
  [Asks("update", adam) EXCEPT !.remove = TRUE],
  Asks("delete", orla),
  [Asks("createStage", orla) EXCEPT !.start = 1, !.end = 2],
  [Asks("updateStage", orla) EXCEPT !.end = 0],
  [Asks("updateStage", otto) EXCEPT !.start = 1],
  [Asks("updateStage", otto) EXCEPT !.start = -1],
  Asks("deleteStage", orla)}

ClientSymmetry == Permutations(Clients)
=============================================================================

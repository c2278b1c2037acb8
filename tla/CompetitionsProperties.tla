----------------------- MODULE CompetitionsProperties -----------------------
(* What is claimed of Competitions.                                        *)
EXTENDS Competitions

\* What the state of a database that the service has filled is like.
Owned(k) == k.updatedBy \notin Admins => k.organizer = k.updatedBy
DaysWithin(s, k) == DayOf(k.start) <= s.start /\ s.end <= DayOf(k.end)
ASSUME FirstAssumption ==
  /\ First \in Competition /\ InOrder(First) /\ Owned(First) /\ First.cover \in {Old, None}
  /\ FirstStage \in Stage \cup {None}
  /\ FirstStage # None =>
       FirstStage.of = Old /\ InOrder(FirstStage) /\ DaysWithin(FirstStage, First)

CallRecord ==
  [pc : {"start", "read", "readStage", "put", "write", "undo", "clean", "over"},
   request : Request, id : Names, stage : Names,
   old : Competition \cup {None}, row : Competition \cup Stage \cup {None}]

\* The types of all the variables (type invariant).
TypeOk ==
  /\ competitions \in [Names -> Competition \cup {None}]
  /\ stages \in [Names -> Stage \cup {None}]
  /\ objects \subseteq Names
  /\ call \in [Clients -> CallRecord]
  /\ noted \subseteq Names /\ moved \subseteq Names

Rows == {competitions[n] : n \in Names} \ {None}
StageRows == {stages[n] : n \in Names} \ {None}

\* No competition and no stage ever ends before it starts, though an update may
\* give one of the dates only and any updates overlap: what has been checked
\* together is written together.
DatesInOrder == \A r \in Rows \cup StageRows : InOrder(r)

\* A competition last written by an organizer is that organizer's; only admins
\* give one to somebody else.  Holds however updates overlap.
OrganizerEdits == \A k \in Rows : Owned(k)

\* A stage belongs to a competition that is there and lies within its days, in the
\* clock the database's times are in, unless an update has moved the competition,
\* which does not look at the stages.  Needs a clock that is not west of UTC: the
\* days of a stage begin in UTC.
StagesWithin ==
  \A s \in StageRows :
    /\ competitions[s.of] # None
    /\ s.of \notin moved => DaysWithin(s, competitions[s.of])

\* The cover a competition names is there, unless it was noted.
CoverExists == \A k \in Rows : k.cover \in objects \cup noted \cup {None}

\* When all calls are over, each cover in the bucket is named by a competition,
\* unless it was noted.
NoStrayCovers ==
  (\A c \in Clients : call[c].pc \in {"start", "over"}) =>
    \A key \in objects \ noted : \E k \in Rows : k.cover = key
=============================================================================

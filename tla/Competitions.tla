---------------------------- MODULE Competitions ----------------------------
(***************************************************************************)
(* Competitions with their covers and stages: Create, Update, Delete,      *)
(* CreateStage, UpdateStage and DeleteStage of the competition service.    *)
(*                                                                         *)
(* Every call reads, decides, and writes the whole row it has read; a      *)
(* cover is put before the row is written, and the one it replaces removed *)
(* afterwards.  Each statement is a step of its own.  What a call creates, *)
(* the cover's object key included, has a fresh UUID: it is named after    *)
(* the call.                                                               *)
(***************************************************************************)
EXTENDS Integers, Outcomes

CONSTANTS
  Clients,             \* one call each
  Old,                 \* what is there from the start: a competition, its cover, a stage
  None,                \* no row, no value
  Admins, Organizers,  \* who may manage competitions
  Users,
  Requests,            \* the requests of the instance
  First, FirstStage,   \* the rows there from the start
  DayLength, Offset,   \* units of a day; of the database's clock east of UTC
  Outcome              \* what may become of a statement or a call

Names == Clients \cup {Old}
Ops == {"create", "update", "delete", "createStage", "updateStage", "deleteStage"}

Competition ==
  [start : Int, end : Int, organizer : Users, updatedBy : Users, cover : Names \cup {None}]
Stage == [of : Names, start : Int, end : Int]
\* None is a field the request does not give.
Request ==
  [op : Ops, actor : Users, start : Int \cup {None}, end : Int \cup {None},
   organizer : Users \cup {None}, remove : BOOLEAN, cover : BOOLEAN]

ASSUME NamesAssumption ==
  /\ None \notin Names \cup Users \cup Int \cup Competition \cup Stage
  /\ Old \notin Clients
ASSUME RolesAssumption ==
  Admins \subseteq Users /\ Organizers \subseteq Users /\ Admins \cap Organizers = {}
ASSUME RequestsAssumption ==
  /\ Requests \subseteq Request
  /\ \A r \in Requests : r.op \in {"create", "createStage"} => r.start # None /\ r.end # None
ASSUME ClockAssumption ==
  DayLength \in Nat \ {0} /\ Offset \in -DayLength..DayLength
ASSUME OutcomeAssumption == Outcome \subseteq AllOutcomes

VARIABLES
  competitions, stages,  \* the tables, by id
  objects,               \* the covers in MinIO, by key
  call,                  \* the calls of the clients
  noted, moved           \* (observation) see Note and UpdateCompetition

vars == <<competitions, stages, objects, call, noted, moved>>

-----------------------------------------------------------------------------
(* Dates.  A competition has instants, a stage the numbers of days.        *)

InOrder(r) == r.start <= r.end

DayOf(instant) == (instant + Offset) \div DayLength
StartOfDay(instant) == DayOf(instant) * DayLength - Offset
EndOfDay(instant) == StartOfDay(instant) + DayLength - 1
\* parseStageDate gives the midnight of the day in UTC.
Midnight(day) == day * DayLength

\* Mutation: only the end of a stage is looked at.
EndWithin(s, k) == InOrder(s) /\ Midnight(s.end) \in StartOfDay(k.start)..EndOfDay(k.end)
Within(s, k) ==
  /\ InOrder(s)
  /\ Midnight(s.start) \in StartOfDay(k.start)..EndOfDay(k.end)
  /\ Midnight(s.end) \in StartOfDay(k.start)..EndOfDay(k.end)

-----------------------------------------------------------------------------
(* Requests, and the rows they ask for.                                    *)

Given(x, otherwise) == IF x = None THEN otherwise ELSE x

Created(c, r) ==
  [start |-> r.start, end |-> r.end, updatedBy |-> r.actor,
   organizer |-> IF r.actor \in Admins THEN Given(r.organizer, r.actor) ELSE r.actor,
   cover |-> IF r.cover THEN c ELSE None]

Edited(c, r, row) ==
  [start |-> Given(r.start, row.start), end |-> Given(r.end, row.end), updatedBy |-> r.actor,
   organizer |-> IF r.actor \in Organizers THEN r.actor ELSE Given(r.organizer, row.organizer),
   cover |-> IF r.cover THEN c ELSE IF r.remove THEN None ELSE row.cover]

MayManage(u) == u \in Admins \cup Organizers
\* An organizer does not hand a competition to somebody else.
HandsOver(r) == r.actor \in Organizers /\ r.organizer \notin {None, r.actor}

Goto(c, pc) == call' = [call EXCEPT ![c].pc = pc]
\* The call goes on to write row, having read old.
Plan(c, old, row, pc) ==
  call' = [call EXCEPT ![c] = [@ EXCEPT !.old = old, !.row = row, !.pc = pc]]

Begin(c) ==
  /\ call[c].pc = "start"
  /\ \E r \in Requests, id, stage \in Names :
       LET row == Created(c, r)
           pc == IF ~MayManage(r.actor) THEN "over"
                 ELSE IF r.op # "create" THEN "read"
                 ELSE IF ~InOrder(row) THEN "over"
                 ELSE IF r.cover THEN "put" ELSE "write"
       IN  /\ r.op = "create" => id = c /\ stage = c
           /\ r.op # "create" => competitions[id] # None
           /\ r.op \in {"updateStage", "deleteStage"} => stages[stage] # None
           /\ r.op \notin {"updateStage", "deleteStage"} => stage = c
           /\ call' = [call EXCEPT ![c] =
                [pc |-> pc, request |-> r, id |-> id, stage |-> stage, old |-> None,
                 row |-> IF r.op = "create" THEN row ELSE None]]
  /\ UNCHANGED <<competitions, stages, objects, noted, moved>>

\* GetCompetitionByID, with which every other call begins.
GetCompetitionByID(c) ==
  LET k == call[c]
      r == k.request
      old == competitions[k.id]
  IN
  /\ k.pc = "read"
  /\ \E o \in Outcome :
       IF Errs(o) \/ old = None THEN Goto(c, "over")
       ELSE CASE r.op = "update" ->
                   LET row == Edited(c, r, old) IN
                   Plan(c, old, row,
                        IF HandsOver(r) THEN "over" ELSE IF r.cover THEN "put"
                        ELSE IF InOrder(row) THEN "write" ELSE "over")
              [] r.op = "createStage" ->
                   LET row == [of |-> k.id, start |-> r.start, end |-> r.end] IN
                   Plan(c, old, row, IF Within(row, old) THEN "write" ELSE "over")
              [] r.op = "updateStage" -> Plan(c, old, None, "readStage")
              [] r.op \in {"delete", "deleteStage"} -> Plan(c, old, None, "write")
  /\ UNCHANGED <<competitions, stages, objects, noted, moved>>

GetStageByID(c) ==
  LET k == call[c]
      s == stages[k.stage]
  IN
  /\ k.pc = "readStage"
  /\ \E o \in Outcome :
       IF Errs(o) \/ s = None \/ s.of # k.id THEN Goto(c, "over")
       ELSE LET row == [s EXCEPT !.start = Given(k.request.start, @),
                                 !.end = Given(k.request.end, @)]
            IN  Plan(c, k.old, row, IF Within(row, k.old) THEN "write" ELSE "over")
  /\ UNCHANGED <<competitions, stages, objects, noted, moved>>

-----------------------------------------------------------------------------
(* The calls to MinIO.                                                     *)

\* Observation: covers that may be in the bucket without a row, or named by a row
\* without being there, because a call did not do what it said or because a row
\* was written over a cover that had changed since it was read.
Note(keys) == noted' = noted \cup (keys \ {None})

\* Mutation: a cover is put and forgotten when the dates are refused.
PutAndForget(c) ==
  LET k == call[c] IN
  /\ k.pc = "put"
  /\ \E o \in Outcome :
       /\ objects' = IF Applied(o) THEN objects \cup {c} ELSE objects
       /\ Note(IF Applied(o) /\ Errs(o) THEN {c} ELSE {})
       /\ Goto(c, IF ~Errs(o) /\ InOrder(k.row) THEN "write" ELSE "over")
  /\ UNCHANGED <<competitions, stages, moved>>

\* The dates of an update are looked at only after its cover has been put.
PutObject(c) ==
  LET k == call[c] IN
  /\ k.pc = "put"
  /\ \E o \in Outcome :
       /\ objects' = IF Applied(o) THEN objects \cup {c} ELSE objects
       /\ Note(IF Applied(o) /\ Errs(o) THEN {c} ELSE {})
       /\ Goto(c, IF Errs(o) THEN "over" ELSE IF InOrder(k.row) THEN "write" ELSE "undo")
  /\ UNCHANGED <<competitions, stages, moved>>

\* The cover this call has put, or the one it has replaced; the error is dropped.
RemoveObject(c) ==
  LET k == call[c]
      key == IF k.pc = "undo" THEN c ELSE k.old.cover
  IN
  /\ k.pc \in {"undo", "clean"}
  /\ \E o \in Outcome :
       /\ objects' = IF Applied(o) THEN objects \ {key} ELSE objects
       /\ Note(IF Applied(o) THEN {} ELSE {key})
  /\ Goto(c, "over")
  /\ UNCHANGED <<competitions, stages, moved>>

-----------------------------------------------------------------------------
(* The statements that write.                                              *)

Writes(c, op) == call[c].pc = "write" /\ call[c].request.op = op

\* What is left after an error: to remove the cover that was put.
Failed(k) == IF k.request.cover THEN "undo" ELSE "over"

CreateCompetition(c) ==
  LET k == call[c] IN
  /\ Writes(c, "create")
  /\ \E o \in Outcome :
       /\ competitions' = IF Applied(o) THEN [competitions EXCEPT ![c] = k.row] ELSE competitions
       /\ Note(IF Applied(o) /\ Errs(o) THEN {k.row.cover} ELSE {})
       /\ Goto(c, IF Errs(o) THEN Failed(k) ELSE "over")
  /\ UNCHANGED <<stages, objects, moved>>

\* Mutation: the old cover is removed whatever the request says.
ReplacesAlways(k) == k.old.cover # None
\* Whether the update takes the place of a cover that has to go.
Replaces(k) == k.old.cover # None /\ (k.request.remove \/ k.request.cover)

\* The covers a write leaves in doubt.
Doubtful(k, now, cover, o) ==
  (IF now.cover # k.old.cover THEN {now.cover, k.old.cover} ELSE {}) \cup
  (IF Errs(o) /\ cover # k.old.cover THEN {cover, k.old.cover} ELSE {})

\* Mutation: only the dates that the request gives are written.
GivenDates(k, now) == [k.row EXCEPT !.start = Given(k.request.start, now.start),
                                    !.end = Given(k.request.end, now.end)]
\* The whole row is written, whatever the row is now.
RowToWrite(k, now) == k.row

\* Observation: whether the update moves the dates.
UpdateCompetition(c) ==
  LET k == call[c]
      now == competitions[k.id]
      row == RowToWrite(k, now)
  IN
  /\ Writes(c, "update")
  /\ \E o \in Outcome :
       LET done == Applied(o) /\ now # None IN
       /\ competitions' = IF done THEN [competitions EXCEPT ![k.id] = row] ELSE competitions
       /\ moved' = IF done /\ <<now.start, now.end>> # <<row.start, row.end>>
                   THEN moved \cup {k.id} ELSE moved
       /\ Note(IF done THEN Doubtful(k, now, row.cover, o) ELSE {})
       /\ Goto(c, IF ~done \/ Errs(o) THEN Failed(k)
                  ELSE IF Replaces(k) THEN "clean" ELSE "over")
  /\ UNCHANGED <<stages, objects>>

\* The stages of a competition go with it.
DeleteCompetition(c) ==
  LET k == call[c]
      now == competitions[k.id]
  IN
  /\ Writes(c, "delete")
  /\ \E o \in Outcome :
       LET done == Applied(o) /\ now # None IN
       /\ competitions' = IF done THEN [competitions EXCEPT ![k.id] = None] ELSE competitions
       /\ stages' = IF done THEN [s \in Names |-> IF stages[s] # None /\ stages[s].of = k.id
                                                  THEN None ELSE stages[s]]
                    ELSE stages
       /\ Note(IF done THEN Doubtful(k, now, None, o) ELSE {})
       /\ Goto(c, IF ~done \/ Errs(o) \/ k.old.cover = None THEN "over" ELSE "clean")
  /\ UNCHANGED <<objects, moved>>

\* A stage is not created for a competition that is gone.
CreateStage(c) ==
  LET k == call[c] IN
  /\ Writes(c, "createStage")
  /\ \E o \in Outcome :
       stages' = IF Applied(o) /\ competitions[k.id] # None
                 THEN [stages EXCEPT ![c] = k.row] ELSE stages
  /\ Goto(c, "over")
  /\ UNCHANGED <<competitions, objects, noted, moved>>

Present(k) == stages[k.stage] # None /\ stages[k.stage].of = k.id
UpdateStage(c) ==
  LET k == call[c] IN
  /\ Writes(c, "updateStage")
  /\ \E o \in Outcome :
       stages' = IF Applied(o) /\ Present(k) THEN [stages EXCEPT ![k.stage] = k.row] ELSE stages
  /\ Goto(c, "over")
  /\ UNCHANGED <<competitions, objects, noted, moved>>

DeleteStage(c) ==
  LET k == call[c] IN
  /\ Writes(c, "deleteStage")
  /\ \E o \in Outcome :
       stages' = IF Applied(o) /\ Present(k) THEN [stages EXCEPT ![k.stage] = None] ELSE stages
  /\ Goto(c, "over")
  /\ UNCHANGED <<competitions, objects, noted, moved>>

-----------------------------------------------------------------------------
ClientStep(c) ==
  \/ Begin(c) \/ GetCompetitionByID(c) \/ GetStageByID(c)
  \/ PutObject(c) \/ RemoveObject(c)
  \/ CreateCompetition(c) \/ UpdateCompetition(c) \/ DeleteCompetition(c)
  \/ CreateStage(c) \/ UpdateStage(c) \/ DeleteStage(c)

Nothing == [op |-> "delete", actor |-> First.organizer, start |-> None, end |-> None,
            organizer |-> None, remove |-> FALSE, cover |-> FALSE]

Init ==
  /\ competitions = [n \in Names |-> IF n = Old THEN First ELSE None]
  /\ stages = [n \in Names |-> IF n = Old THEN FirstStage ELSE None]
  /\ objects = {First.cover} \ {None}
  /\ call = [c \in Clients |-> [pc |-> "start", request |-> Nothing, id |-> c, stage |-> c,
                                old |-> None, row |-> None]]
  /\ noted = {} /\ moved = {}

Next == \E c \in Clients : ClientStep(c)

Spec == Init /\ [][Next]_vars
=============================================================================

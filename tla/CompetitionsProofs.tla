------------------------- MODULE CompetitionsProofs -------------------------
(***************************************************************************)
(* Proofs about Competitions, for any clients, users, requests and clock,  *)
(* and whatever becomes of the statements and the calls to MinIO.          *)
(***************************************************************************)
EXTENDS CompetitionsProperties, TLAPS

\* What has been decided about a call when it goes on: a row that is about to be
\* written has passed the checks, and one that replaces another is written after
\* that other was read.
Sound(row) == row \in Competition /\ InOrder(row) /\ Owned(row)
CallOk(k) ==
  /\ k.pc # "start" => k.request \in Requests
  /\ k.pc = "read" => MayManage(k.request.actor) /\ k.request.op # "create"
  /\ k.pc = "readStage" => k.request.op = "updateStage"
  /\ k.pc = "put" => k.request.op \in {"create", "update"} /\ k.row \in Competition /\ Owned(k.row)
  /\ k.pc = "write" /\ k.request.op \in {"create", "update"} => Sound(k.row)
  /\ k.pc = "write" /\ k.request.op \in {"createStage", "updateStage"} =>
       k.row \in Stage /\ InOrder(k.row)
  /\ k.pc \in {"put", "write"} /\ k.request.op = "update" => k.old \in Competition
  /\ k.pc = "write" /\ k.request.op = "delete" => k.old \in Competition
  /\ k.pc = "clean" => k.old \in Competition

RowsOk ==
  /\ \A n \in Names : competitions[n] # None => InOrder(competitions[n]) /\ Owned(competitions[n])
  /\ \A n \in Names : stages[n] # None => InOrder(stages[n])

\* The inductive invariant.
Inv == TypeOk /\ (\A c \in Clients : CallOk(call[c])) /\ RowsOk

-----------------------------------------------------------------------------
\* The row a request to create asks for is typed, and its owner an organizer who
\* creates it.
LEMMA CreatedOwned ==
  ASSUME NEW c \in Clients, NEW r \in Requests, r.op = "create", MayManage(r.actor)
  PROVE  Created(c, r) \in Competition /\ Owned(Created(c, r))
  BY RequestsAssumption, RolesAssumption, NamesAssumption
  DEF Request, Competition, Created, Owned, MayManage, Given, Names

\* So is the row an update makes of the one it has read.
LEMMA EditedOwned ==
  ASSUME NEW c \in Clients, NEW r \in Requests, NEW row \in Competition, MayManage(r.actor)
  PROVE  Edited(c, r, row) \in Competition /\ Owned(Edited(c, r, row))
  BY RequestsAssumption, RolesAssumption, NamesAssumption
  DEF Request, Competition, Edited, Owned, MayManage, Given, Names

\* A stage has its dates in order when it lies within a competition, and takes
\* those of a request that gives them.
LEMMA StageDates ==
  /\ \A s, k : Within(s, k) => InOrder(s)
  /\ \A r \in Requests, n \in Names : r.op = "createStage" =>
       [of |-> n, start |-> r.start, end |-> r.end] \in Stage
  /\ \A r \in Requests, s \in Stage :
       [s EXCEPT !.start = Given(r.start, @), !.end = Given(r.end, @)] \in Stage
<1>1. \A s, k : Within(s, k) => InOrder(s)
  BY DEF Within
<1>2. ASSUME NEW r \in Requests, NEW n \in Names, r.op = "createStage"
      PROVE  [of |-> n, start |-> r.start, end |-> r.end] \in Stage
  BY <1>2, RequestsAssumption DEF Request, Stage
<1>3. ASSUME NEW r \in Requests, NEW s \in Stage
      PROVE  [s EXCEPT !.start = Given(r.start, @), !.end = Given(r.end, @)] \in Stage
  <2>1. Given(r.start, s.start) \in Int /\ Given(r.end, s.end) \in Int
    BY RequestsAssumption DEF Request, Stage, Given
  <2> QED BY <2>1 DEF Stage
<1> QED BY <1>1, <1>2, <1>3

\* A call that changes to k, which is typed and in order, leaves all of them so.
LEMMA CallStep ==
  ASSUME Inv, NEW c \in Clients, NEW k \in CallRecord, CallOk(k), call' = [call EXCEPT ![c] = k]
  PROVE  call' \in [Clients -> CallRecord] /\ \A d \in Clients : CallOk(call'[d])
  BY DEF Inv, TypeOk

\* A call that only goes on to pc.
LEMMA GotoStep ==
  ASSUME Inv, NEW c \in Clients, NEW pc, Goto(c, pc),
         \/ pc \in {"over", "undo"}
         \/ pc = "clean" /\ call[c].old \in Competition
         \/ pc = "write" /\ call[c].pc = "put" /\ InOrder(call[c].row),
         call[c].pc # "start"
  PROVE  call' \in [Clients -> CallRecord] /\ \A d \in Clients : CallOk(call'[d])
<1> DEFINE k == [call[c] EXCEPT !.pc = pc]
<1>1. call[c] \in CallRecord /\ CallOk(call[c])
  BY DEF Inv, TypeOk
<1>2. k \in CallRecord
  BY <1>1 DEF CallRecord
<1>3. CallOk(k)
  BY <1>1 DEF CallOk, CallRecord, Sound
<1>4. call' = [call EXCEPT ![c] = k]
  BY DEF Goto
<1> QED BY <1>2, <1>3, <1>4, CallStep

\* What Note adds are keys.
LEMMA NoteStep ==
  ASSUME Inv, NEW keys, keys \subseteq Names \cup {None}, Note(keys)
  PROVE  noted' \subseteq Names
  BY DEF Inv, TypeOk, Note

\* A call that leaves the tables as they are.
LEMMA SameTables ==
  ASSUME Inv, UNCHANGED <<competitions, stages, moved>>, objects' \subseteq Names,
         noted' \subseteq Names,
         call' \in [Clients -> CallRecord], \A d \in Clients : CallOk(call'[d])
  PROVE  Inv'
<1>1. TypeOk'
  BY DEF Inv, TypeOk
<1>2. RowsOk'
  BY DEF Inv, RowsOk
<1>3. \A d \in Clients : CallOk(call[d])'
  BY DEF CallOk, Sound, MayManage, Owned, InOrder
<1> QED BY <1>1, <1>2, <1>3 DEF Inv

-----------------------------------------------------------------------------
(* The requests and the reads.                                             *)

\* A request begins.
LEMMA BeginInv == ASSUME Inv, NEW c \in Clients, Begin(c) PROVE Inv'
<1> DEFINE Pc(r) == IF ~MayManage(r.actor) THEN "over"
                    ELSE IF r.op # "create" THEN "read"
                    ELSE IF ~InOrder(Created(c, r)) THEN "over"
                    ELSE IF r.cover THEN "put" ELSE "write"
           Row(r) == IF r.op = "create" THEN Created(c, r) ELSE None
           New(r, id, stage) == [pc |-> Pc(r), request |-> r, id |-> id, stage |-> stage,
                                 old |-> None, row |-> Row(r)]
<1>1. PICK r \in Requests, id \in Names, stage \in Names :
        call' = [call EXCEPT ![c] = New(r, id, stage)]
  BY DEF Begin
<1>2. /\ Pc(r) \in {"over", "read", "put", "write"}
      /\ Pc(r) # "over" => MayManage(r.actor)
      /\ Pc(r) \in {"put", "write"} => r.op = "create" /\ InOrder(Created(c, r))
      /\ Pc(r) = "read" => r.op # "create"
  BY DEF MayManage, InOrder
<1>3. r.op = "create" /\ MayManage(r.actor) =>
        Created(c, r) \in Competition /\ Owned(Created(c, r))
  BY CreatedOwned
<1>4. r.op = "create" => Created(c, r) \in Competition
  BY RequestsAssumption, RolesAssumption, NamesAssumption
  DEF Request, Competition, Created, Given, Names
<1>5. New(r, id, stage) \in CallRecord
  <2>1. r \in Request /\ Row(r) \in Competition \cup Stage \cup {None}
    BY <1>4, RequestsAssumption
  <2> HIDE DEF Pc, Row
  <2> QED BY <1>2, <2>1 DEF CallRecord
<1>6. CallOk(New(r, id, stage))
  <2>1. r.op = "create" => Row(r) = Created(c, r)
    OBVIOUS
  <2> HIDE DEF Pc, Row
  <2> QED BY <1>2, <1>3, <2>1 DEF CallOk, Sound
<1> HIDE DEF New
<1>7. call' \in [Clients -> CallRecord] /\ \A d \in Clients : CallOk(call'[d])
  BY <1>1, <1>5, <1>6, CallStep
<1> QED BY <1>7, SameTables DEF Begin, Inv, TypeOk

\* A call goes on, having read old and decided on row.
LEMMA PlanStep ==
  ASSUME Inv, NEW c \in Clients, NEW old \in Competition, NEW row, NEW pc, Plan(c, old, row, pc),
         call[c].pc \in {"read", "readStage"},
         row \in Competition \cup Stage \cup {None},
         pc \in {"over", "readStage", "put", "write"},
         CallOk([call[c] EXCEPT !.old = old, !.row = row, !.pc = pc])
  PROVE  call' \in [Clients -> CallRecord] /\ \A d \in Clients : CallOk(call'[d])
<1> DEFINE k == [call[c] EXCEPT !.old = old, !.row = row, !.pc = pc]
<1>1. k \in CallRecord
  BY DEF Inv, TypeOk, CallRecord
<1>2. call' = [call EXCEPT ![c] = k]
  BY DEF Plan
<1> QED BY <1>1, <1>2, CallStep

\* A competition is read.
LEMMA ReadInv == ASSUME Inv, NEW c \in Clients, GetCompetitionByID(c) PROVE Inv'
<1> DEFINE k == call[c]
           r == call[c].request
           old == competitions[call[c].id]
<1>1. /\ k \in CallRecord /\ k.pc = "read" /\ r \in Requests /\ r \in Request
      /\ MayManage(r.actor) /\ k.id \in Names
  BY RequestsAssumption DEF Inv, TypeOk, CallOk, GetCompetitionByID, CallRecord
<1>2. old # None => old \in Competition
  BY <1>1 DEF Inv, TypeOk
<1>3. \/ Goto(c, "over")
      \/ /\ old # None /\ r.op = "update"
         /\ \E pc \in {"over", "put", "write"} :
              /\ pc = "write" => InOrder(Edited(c, r, old))
              /\ Plan(c, old, Edited(c, r, old), pc)
      \/ /\ old # None /\ r.op = "createStage"
         /\ LET row == [of |-> k.id, start |-> r.start, end |-> r.end] IN
            \E pc \in {"over", "write"} :
              (pc = "write" => Within(row, old)) /\ Plan(c, old, row, pc)
      \/ old # None /\ r.op = "updateStage" /\ Plan(c, old, None, "readStage")
      \/ old # None /\ r.op \in {"delete", "deleteStage"} /\ Plan(c, old, None, "write")
  <2>1. r.op \in {"update", "createStage", "updateStage", "delete", "deleteStage"} \/ r.op = "create"
    BY <1>1 DEF Request, Ops
  <2>2. r.op # "create" BY <1>1 DEF Inv, CallOk
  <2>3. CASE r.op = "update"
    BY <2>3 DEF GetCompetitionByID, InOrder, HandsOver
  <2>4. CASE r.op = "createStage"
    BY <2>4 DEF GetCompetitionByID
  <2>5. CASE r.op \in {"updateStage", "delete", "deleteStage"}
    BY <2>5 DEF GetCompetitionByID
  <2> QED BY <2>1, <2>2, <2>3, <2>4, <2>5
<1>4. call' \in [Clients -> CallRecord] /\ \A d \in Clients : CallOk(call'[d])
  <2>1. CASE Goto(c, "over")
    BY <1>1, <2>1, GotoStep
  <2>2. ASSUME old # None, r.op = "update", NEW pc \in {"over", "put", "write"},
               pc = "write" => InOrder(Edited(c, r, old)), Plan(c, old, Edited(c, r, old), pc)
        PROVE  call' \in [Clients -> CallRecord] /\ \A d \in Clients : CallOk(call'[d])
    <3>1. Edited(c, r, old) \in Competition /\ Owned(Edited(c, r, old))
      BY <1>1, <1>2, <2>2, EditedOwned
    <3>2. CallOk([k EXCEPT !.old = old, !.row = Edited(c, r, old), !.pc = pc])
      BY <1>1, <1>2, <2>2, <3>1 DEF CallOk, CallRecord, Sound
    <3> QED BY <1>1, <1>2, <2>2, <3>1, <3>2, PlanStep
  <2>3. ASSUME old # None, r.op = "createStage", NEW row, NEW pc \in {"over", "write"},
               row = [of |-> k.id, start |-> r.start, end |-> r.end],
               pc = "write" => Within(row, old), Plan(c, old, row, pc)
        PROVE  call' \in [Clients -> CallRecord] /\ \A d \in Clients : CallOk(call'[d])
    <3>1. row \in Stage /\ (pc = "write" => InOrder(row))
      BY <1>1, <2>3, StageDates
    <3>2. CallOk([k EXCEPT !.old = old, !.row = row, !.pc = pc])
      BY <1>1, <1>2, <2>3, <3>1 DEF CallOk, CallRecord
    <3> QED BY <1>1, <1>2, <2>3, <3>1, <3>2, PlanStep
  <2>4. ASSUME old # None, r.op \in {"updateStage", "delete", "deleteStage"},
               NEW pc, pc = IF r.op = "updateStage" THEN "readStage" ELSE "write",
               Plan(c, old, None, pc)
        PROVE  call' \in [Clients -> CallRecord] /\ \A d \in Clients : CallOk(call'[d])
    <3>1. CallOk([k EXCEPT !.old = old, !.row = None, !.pc = pc])
      BY <1>1, <1>2, <2>4 DEF CallOk, CallRecord
    <3> QED BY <1>1, <1>2, <2>4, <3>1, PlanStep
  <2> QED BY <1>3, <2>1, <2>2, <2>3, <2>4
<1> QED BY <1>4, SameTables DEF GetCompetitionByID, Inv, TypeOk

\* A stage is read.
LEMMA ReadStageInv == ASSUME Inv, NEW c \in Clients, GetStageByID(c) PROVE Inv'
<1> DEFINE k == call[c]
           s == stages[call[c].stage]
           row == [s EXCEPT !.start = Given(call[c].request.start, @),
                            !.end = Given(call[c].request.end, @)]
<1>1. /\ k \in CallRecord /\ k.pc = "readStage" /\ k.request \in Requests
      /\ k.request.op = "updateStage" /\ k.stage \in Names
  BY DEF Inv, TypeOk, CallOk, GetStageByID, CallRecord
<1>2. s # None => s \in Stage /\ row \in Stage
  BY <1>1, StageDates DEF Inv, TypeOk
<1>3. \/ Goto(c, "over")
      \/ s # None /\ \E pc \in {"over", "write"} :
           (pc = "write" => Within(row, k.old)) /\ Plan(c, k.old, row, pc)
  BY DEF GetStageByID
<1>4. call' \in [Clients -> CallRecord] /\ \A d \in Clients : CallOk(call'[d])
  <2>1. CASE Goto(c, "over")
    BY <1>1, <2>1, GotoStep
  <2>2. ASSUME s # None, NEW pc \in {"over", "write"},
               pc = "write" => Within(row, k.old), Plan(c, k.old, row, pc)
        PROVE  call' \in [Clients -> CallRecord] /\ \A d \in Clients : CallOk(call'[d])
    <3>1. row \in Stage /\ (pc = "write" => InOrder(row))
      BY <1>2, <2>2, StageDates
    <3> DEFINE new == [k EXCEPT !.old = k.old, !.row = row, !.pc = pc]
    <3> HIDE DEF row
    <3>2. new \in CallRecord /\ CallOk(new)
      BY <1>1, <2>2, <3>1 DEF CallOk, CallRecord
    <3>3. call' = [call EXCEPT ![c] = new]
      BY <2>2 DEF Plan
    <3> QED BY <3>2, <3>3, CallStep
  <2> QED BY <1>3, <2>1, <2>2
<1> QED BY <1>4, SameTables DEF GetStageByID, Inv, TypeOk

-----------------------------------------------------------------------------
(* The calls to MinIO.                                                     *)

\* A cover is put.
LEMMA PutInv == ASSUME Inv, NEW c \in Clients, PutObject(c) PROVE Inv'
<1>1. call[c].pc = "put" /\ c \in Names
  BY DEF PutObject, Names
<1>2. \E pc \in {"over", "undo", "write"} :
        (pc = "write" => InOrder(call[c].row)) /\ Goto(c, pc)
  BY DEF PutObject, InOrder
<1>3. call' \in [Clients -> CallRecord] /\ \A d \in Clients : CallOk(call'[d])
  BY <1>1, <1>2, GotoStep
<1>4. objects' \subseteq Names /\ noted' \subseteq Names
  BY <1>1 DEF PutObject, Note, Inv, TypeOk
<1> QED BY <1>3, <1>4, SameTables DEF PutObject

\* A cover is removed.
LEMMA RemoveInv == ASSUME Inv, NEW c \in Clients, RemoveObject(c) PROVE Inv'
<1>1. call[c].pc # "start" /\ Goto(c, "over")
  BY DEF RemoveObject
<1>2. call' \in [Clients -> CallRecord] /\ \A d \in Clients : CallOk(call'[d])
  BY <1>1, GotoStep
<1> DEFINE key == IF call[c].pc = "undo" THEN c ELSE call[c].old.cover
<1>3. key \in Names \cup {None}
  BY DEF RemoveObject, Inv, CallOk, Competition, Names
<1>4. objects' \subseteq Names /\ noted' \subseteq Names
  BY <1>3 DEF RemoveObject, Note, Inv, TypeOk
<1> QED BY <1>2, <1>4, SameTables DEF RemoveObject

-----------------------------------------------------------------------------
(* The statements that write.                                              *)

\* A statement that gives competition id the row it may have, or none.
LEMMA WriteStep ==
  ASSUME Inv, NEW id \in Names, NEW row, row = None \/ Sound(row),
         competitions' = [competitions EXCEPT ![id] = row]
  PROVE  /\ competitions' \in [Names -> Competition \cup {None}]
         /\ \A n \in Names : competitions'[n] # None =>
              InOrder(competitions'[n]) /\ Owned(competitions'[n])
  BY DEF Inv, TypeOk, RowsOk, Sound

\* A call that has written a competition, or tried to.
LEMMA AfterWrite ==
  ASSUME Inv, objects' = objects, noted' \subseteq Names, moved' \subseteq Names,
         \/ competitions' = competitions
         \/ /\ competitions' \in [Names -> Competition \cup {None}]
            /\ \A n \in Names : competitions'[n] # None =>
                 InOrder(competitions'[n]) /\ Owned(competitions'[n]),
         \/ stages' = stages
         \/ /\ stages' \in [Names -> Stage \cup {None}]
            /\ \A n \in Names : stages'[n] # None => InOrder(stages'[n]),
         call' \in [Clients -> CallRecord], \A d \in Clients : CallOk(call'[d])
  PROVE  Inv'
<1>1. TypeOk'
  BY DEF Inv, TypeOk
<1>2. RowsOk'
  <2>1. \A n \in Names : competitions'[n] # None =>
          InOrder(competitions'[n]) /\ Owned(competitions'[n])
    BY DEF Inv, RowsOk
  <2>2. \A n \in Names : stages'[n] # None => InOrder(stages'[n])
    BY DEF Inv, RowsOk
  <2> QED BY <2>1, <2>2 DEF RowsOk, InOrder, Owned
<1>3. \A d \in Clients : CallOk(call[d])'
  BY DEF CallOk, Sound, MayManage, Owned, InOrder
<1> QED BY <1>1, <1>2, <1>3 DEF Inv

\* A competition is inserted.
LEMMA CreateInv == ASSUME Inv, NEW c \in Clients, CreateCompetition(c) PROVE Inv'
<1>1. /\ call[c].pc = "write" /\ Sound(call[c].row) /\ c \in Names
      /\ call[c].row.cover \in Names \cup {None}
  BY DEF CreateCompetition, Writes, Inv, CallOk, Names, Sound, Competition
<1>2. \E pc \in {"over", "undo"} : Goto(c, pc)
  BY DEF CreateCompetition, Failed
<1>3. call' \in [Clients -> CallRecord] /\ \A d \in Clients : CallOk(call'[d])
  BY <1>1, <1>2, GotoStep
<1>4. noted' \subseteq Names
  BY <1>1 DEF CreateCompetition, Note, Inv, TypeOk
<1>5. competitions' = competitions \/ competitions' = [competitions EXCEPT ![c] = call[c].row]
  BY DEF CreateCompetition
<1>6. UNCHANGED <<stages, objects>> /\ moved' \subseteq Names
  BY DEF CreateCompetition, Inv, TypeOk
<1> QED BY <1>1, <1>3, <1>4, <1>5, <1>6, WriteStep, AfterWrite

\* The covers an update leaves in doubt are keys.
LEMMA DoubtfulKeys ==
  ASSUME NEW k, k.old \in Competition, NEW now \in Competition,
         NEW cover \in Names \cup {None}, NEW o
  PROVE  Doubtful(k, now, cover, o) \subseteq Names \cup {None}
  BY DEF Doubtful, Competition

\* A competition is overwritten.
LEMMA UpdateInv == ASSUME Inv, NEW c \in Clients, UpdateCompetition(c) PROVE Inv'
<1> DEFINE k == call[c]
           now == competitions[call[c].id]
<1>1. /\ k.pc = "write" /\ Sound(k.row) /\ k.old \in Competition /\ k.id \in Names
      /\ k.row.cover \in Names \cup {None} /\ (now # None => now \in Competition)
  BY DEF UpdateCompetition, Writes, Inv, TypeOk, CallOk, CallRecord, Sound, Competition
<1>2. PICK o \in Outcome :
        LET done == Applied(o) /\ now # None IN
        /\ competitions' = IF done THEN [competitions EXCEPT ![k.id] = k.row] ELSE competitions
        /\ moved' = IF done /\ <<now.start, now.end>> # <<k.row.start, k.row.end>>
                    THEN moved \cup {k.id} ELSE moved
        /\ Note(IF done THEN Doubtful(k, now, k.row.cover, o) ELSE {})
        /\ Goto(c, IF ~done \/ Errs(o) THEN Failed(k)
                   ELSE IF Replaces(k) THEN "clean" ELSE "over")
  BY DEF UpdateCompetition, RowToWrite
<1>3. \E pc \in {"over", "undo", "clean"} : Goto(c, pc)
  BY <1>2 DEF Failed, Replaces
<1>4. call' \in [Clients -> CallRecord] /\ \A d \in Clients : CallOk(call'[d])
  BY <1>1, <1>3, GotoStep
<1>5. noted' \subseteq Names
  <2>1. now # None => Doubtful(k, now, k.row.cover, o) \subseteq Names \cup {None}
    BY <1>1, DoubtfulKeys
  <2> QED BY <1>2, <2>1, NoteStep
<1>6. moved' \subseteq Names
  BY <1>1, <1>2 DEF Inv, TypeOk
<1>7. competitions' = competitions \/ competitions' = [competitions EXCEPT ![k.id] = k.row]
  BY <1>2
<1>8. UNCHANGED <<stages, objects>>
  BY DEF UpdateCompetition
<1> QED BY <1>1, <1>4, <1>5, <1>6, <1>7, <1>8, WriteStep, AfterWrite

\* A competition is deleted.
LEMMA DeleteInv == ASSUME Inv, NEW c \in Clients, DeleteCompetition(c) PROVE Inv'
<1> DEFINE k == call[c]
           now == competitions[call[c].id]
           gone == [s \in Names |-> IF stages[s] # None /\ stages[s].of = call[c].id
                                    THEN None ELSE stages[s]]
<1>1. /\ k.pc = "write" /\ k.old \in Competition /\ k.id \in Names
      /\ now # None => now \in Competition
  BY DEF DeleteCompetition, Writes, Inv, TypeOk, CallOk, CallRecord
<1>2. PICK o \in Outcome :
        LET done == Applied(o) /\ now # None IN
        /\ competitions' = IF done THEN [competitions EXCEPT ![k.id] = None] ELSE competitions
        /\ stages' = IF done THEN gone ELSE stages
        /\ Note(IF done THEN Doubtful(k, now, None, o) ELSE {})
        /\ Goto(c, IF ~done \/ Errs(o) \/ k.old.cover = None THEN "over" ELSE "clean")
  BY DEF DeleteCompetition
<1>3. \E pc \in {"over", "clean"} : Goto(c, pc)
  BY <1>2
<1>4. call' \in [Clients -> CallRecord] /\ \A d \in Clients : CallOk(call'[d])
  BY <1>1, <1>3, GotoStep
<1>5. noted' \subseteq Names
  <2>1. now # None => Doubtful(k, now, None, o) \subseteq Names \cup {None}
    BY <1>1, DoubtfulKeys
  <2> QED BY <1>2, <2>1, NoteStep
<1>6. gone \in [Names -> Stage \cup {None}] /\ \A n \in Names : gone[n] # None => InOrder(gone[n])
  BY DEF Inv, TypeOk, RowsOk
<1>7. competitions' = competitions \/ competitions' = [competitions EXCEPT ![k.id] = None]
  BY <1>2
<1>8. stages' = stages \/ stages' = gone
  BY <1>2
<1>9. objects' = objects /\ moved' \subseteq Names
  BY DEF DeleteCompetition, Inv, TypeOk
<1> HIDE DEF gone
<1> QED BY <1>1, <1>4, <1>5, <1>6, <1>7, <1>8, <1>9, WriteStep, AfterWrite

\* A stage is inserted, updated or deleted.
LEMMA StageInv ==
  ASSUME Inv, NEW c \in Clients, CreateStage(c) \/ UpdateStage(c) \/ DeleteStage(c)
  PROVE  Inv'
<1> DEFINE k == call[c]
<1>1. /\ k.pc = "write" /\ c \in Names /\ k.stage \in Names /\ Goto(c, "over")
      /\ k.request.op \in {"createStage", "updateStage"} => k.row \in Stage /\ InOrder(k.row)
  BY DEF CreateStage, UpdateStage, DeleteStage, Writes, Inv, TypeOk, CallOk, CallRecord, Names
<1>2. call' \in [Clients -> CallRecord] /\ \A d \in Clients : CallOk(call'[d])
  BY <1>1, GotoStep
<1>3. \/ stages' = stages
      \/ \E n \in Names, row \in Stage \cup {None} :
           (row = None \/ InOrder(row)) /\ stages' = [stages EXCEPT ![n] = row]
  BY <1>1 DEF CreateStage, UpdateStage, DeleteStage, Writes
<1>4. \/ stages' = stages
      \/ /\ stages' \in [Names -> Stage \cup {None}]
         /\ \A n \in Names : stages'[n] # None => InOrder(stages'[n])
  BY <1>3 DEF Inv, TypeOk, RowsOk
<1>5. UNCHANGED <<competitions, objects, noted, moved>>
  BY DEF CreateStage, UpdateStage, DeleteStage
<1>6. noted' \subseteq Names /\ moved' \subseteq Names
  BY <1>5 DEF Inv, TypeOk
<1> QED BY <1>2, <1>4, <1>5, <1>6, AfterWrite

-----------------------------------------------------------------------------
\* The first competition and stage are in order.
LEMMA InitInv == Init => Inv
<1> SUFFICES ASSUME Init PROVE Inv
  OBVIOUS
<1>1. Nothing \in Request
  BY FirstAssumption DEF Nothing, Request, Ops, Competition
<1>2. TypeOk
  BY <1>1, FirstAssumption DEF Init, TypeOk, CallRecord, Names, Competition
<1>3. \A c \in Clients : CallOk(call[c])
  BY DEF Init, CallOk
<1>4. RowsOk
  BY FirstAssumption DEF Init, RowsOk
<1> QED BY <1>2, <1>3, <1>4 DEF Inv

\* Inv is inductive.
LEMMA NextInv == Inv /\ [Next]_vars => Inv'
<1> SUFFICES ASSUME Inv, [Next]_vars PROVE Inv'
  OBVIOUS
<1>1. ASSUME NEW c \in Clients, ClientStep(c) PROVE Inv'
  BY <1>1, BeginInv, ReadInv, ReadStageInv, PutInv, RemoveInv, CreateInv, UpdateInv, DeleteInv,
     StageInv DEF ClientStep
<1>2. CASE UNCHANGED vars
  <2>1. call' \in [Clients -> CallRecord] /\ \A d \in Clients : CallOk(call'[d])
    BY <1>2 DEF vars, Inv, TypeOk
  <2> QED BY <1>2, <2>1, SameTables DEF vars, Inv, TypeOk
<1> QED BY <1>1, <1>2 DEF Next

\* Inv implies what is claimed.
LEMMA InvImplies == Inv => TypeOk /\ DatesInOrder /\ OrganizerEdits
  BY DEF Inv, RowsOk, DatesInOrder, OrganizerEdits, Rows, StageRows

\* Every variable of the competitions has its type in every state.
THEOREM CompetitionsTypeCorrect == Spec => []TypeOk
  BY InitInv, NextInv, InvImplies, PTL DEF Spec

\* However calls overlap and fail, no competition and no stage ends before it starts.
THEOREM DatesStayInOrder == Spec => []DatesInOrder
  BY InitInv, NextInv, InvImplies, PTL DEF Spec

\* However calls overlap and fail, what an organizer wrote last is that organizer's.
THEOREM OrganizersEditTheirs == Spec => []OrganizerEdits
  BY InitInv, NextInv, InvImplies, PTL DEF Spec
-----------------------------------------------------------------------------
(* The covers.  A key is only ever named by one competition, its home; a   *)
(* call that has not written its cover keeps it to itself, but for the     *)
(* keys that were noted; and a call that cleans up removes a key that no   *)
(* row names, but for the same.                                            *)

Named(key, n) == competitions[n] # None /\ competitions[n].cover = key
OldCover(c) == IF call[c].old = None THEN None ELSE call[c].old.cover
Known(key) == (\E n \in Names : Named(key, n)) \/ (\E d \in Clients : OldCover(d) = key)
Home(key) == IF key = Old THEN Old ELSE call[key].id

HomeInv ==
  /\ \A key, n \in Names : Named(key, n) => Home(key) = n
  /\ \A key \in Names, c \in Clients : OldCover(c) = key => Home(key) = call[c].id
FreshInv ==
  \A c \in Clients :
    /\ call[c].pc = "start" => ~Known(c)
    /\ call[c].pc \notin {"over", "clean"} /\ Known(c) => c \in noted
    /\ \/ call[c].pc = "start"
       \/ call[c].pc \in {"put", "write"} /\ call[c].request.op = "create"
       => competitions[c] = None
PlannedInv ==
  \A c \in Clients :
    LET k == call[c] IN
    k.pc \in {"put", "write"} /\ k.request.op \in {"create", "update"} =>
      /\ k.row.cover = IF k.request.cover THEN c
                       ELSE IF k.request.op = "create" \/ k.request.remove THEN None
                       ELSE k.old.cover
      /\ k.request.op = "create" => k.id = c
      /\ k.pc = "put" => k.request.cover
      /\ k.pc = "write" /\ k.request.cover => c \in objects \cup noted
GoneInv ==
  \A c \in Clients : call[c].pc = "clean" =>
    /\ OldCover(c) \in Names
    /\ \A n \in Names : Named(OldCover(c), n) => OldCover(c) \in noted
ExistsInv ==
  \A n \in Names : competitions[n] # None => competitions[n].cover \in objects \cup noted \cup {None}
Pending(c) ==
  \/ call[c].pc = "undo"
  \/ call[c].pc = "write" /\ call[c].request.op \in {"create", "update"} /\ call[c].request.cover
StrayInv ==
  \A key \in objects \ noted :
    \/ \E n \in Names : Named(key, n)
    \/ key \in Clients /\ Pending(key)
    \/ \E c \in Clients : call[c].pc = "clean" /\ OldCover(c) = key

CoversInv ==
  Inv /\ HomeInv /\ FreshInv /\ PlannedInv /\ GoneInv /\ ExistsInv /\ StrayInv
\* The names of the invariant's parts, without Inv.
CoversParts == HomeInv /\ FreshInv /\ PlannedInv /\ GoneInv /\ ExistsInv /\ StrayInv

\* What a call that only goes on to pc keeps.
LEMMA GotoKeeps ==
  ASSUME Inv, NEW c \in Clients, NEW pc, Goto(c, pc)
  PROVE  /\ call'[c].pc = pc
         /\ \A d \in Clients : /\ d # c => call'[d].pc = call[d].pc
                               /\ call'[d].id = call[d].id /\ call'[d].old = call[d].old
                               /\ call'[d].row = call[d].row
                               /\ call'[d].request = call[d].request
         /\ \A d \in Clients : OldCover(d)' = OldCover(d)
         /\ \A key \in Names : Home(key)' = Home(key)
<1>1. call \in [Clients -> CallRecord]
  BY DEF Inv, TypeOk
<1>2. /\ call'[c].pc = pc
      /\ \A d \in Clients : /\ d # c => call'[d].pc = call[d].pc
                            /\ call'[d].id = call[d].id /\ call'[d].old = call[d].old
                            /\ call'[d].row = call[d].row
                            /\ call'[d].request = call[d].request
  BY <1>1 DEF Goto, CallRecord
<1>3. \A d \in Clients : OldCover(d)' = OldCover(d)
  BY <1>2 DEF OldCover
<1>4. \A key \in Names : Home(key)' = Home(key)
  BY <1>2 DEF Home, Names
<1> QED BY <1>2, <1>3, <1>4

\* A call that goes on without having written to a competition, and with its own
\* cover still to be removed when it has put one.
LEMMA NotWritten ==
  ASSUME CoversInv, NEW c \in Clients, NEW pc \in {"over", "undo"}, Goto(c, pc),
         call[c].pc = "write", Pending(c) => pc = "undo",
         UNCHANGED <<competitions, objects, noted>>
  PROVE  CoversParts'
<1>1. \A key, n \in Names : Named(key, n)' <=> Named(key, n)
  BY DEF Named
<1>2. \A d \in Clients : Known(d)' <=> Known(d)
  BY <1>1, GotoKeeps DEF Known, CoversInv, Names
<1>3. HomeInv'
  BY <1>1, GotoKeeps DEF HomeInv, CoversInv
<1>4. FreshInv'
  BY <1>2, GotoKeeps DEF FreshInv, CoversInv
<1>5. PlannedInv'
  BY GotoKeeps DEF PlannedInv, CoversInv
<1>6. GoneInv'
  BY GotoKeeps DEF GoneInv, CoversInv, Named
<1>7. ExistsInv'
  BY DEF ExistsInv, CoversInv
<1>8. StrayInv'
  <2>1. \A d \in Clients : Pending(d) => Pending(d)'
    BY GotoKeeps DEF Pending, CoversInv
  <2>2. objects \ noted \subseteq Names
    BY DEF CoversInv, Inv, TypeOk
  <2> QED BY <1>1, <2>1, <2>2, GotoKeeps DEF StrayInv, CoversInv
<1> QED BY <1>3, <1>4, <1>5, <1>6, <1>7, <1>8 DEF CoversParts

\* The calls on stages.
LEMMA StageCovers ==
  ASSUME CoversInv, NEW c \in Clients, CreateStage(c) \/ UpdateStage(c) \/ DeleteStage(c)
  PROVE  CoversParts'
<1>1. /\ UNCHANGED <<competitions, objects, noted>> /\ Goto(c, "over")
      /\ call[c].pc = "write" /\ call[c].request.op \notin {"create", "update"}
  BY DEF CreateStage, UpdateStage, DeleteStage, Writes
<1> QED BY <1>1, NotWritten DEF Pending

\* A cover is put, or not, under a key that nobody knows.
LEMMA PutCovers == ASSUME CoversInv, NEW c \in Clients, PutObject(c) PROVE CoversParts'
<1>1. PICK o \in Outcome :
        /\ objects' = IF Applied(o) THEN objects \cup {c} ELSE objects
        /\ Note(IF Applied(o) /\ Errs(o) THEN {c} ELSE {})
        /\ Goto(c, IF Errs(o) THEN "over" ELSE IF InOrder(call[c].row) THEN "write" ELSE "undo")
  BY DEF PutObject
<1>2. /\ call[c].pc = "put" /\ competitions' = competitions /\ c \in Names /\ c # None
      /\ noted \subseteq noted' /\ objects \subseteq objects' /\ objects' \subseteq objects \cup {c}
  BY <1>1, NamesAssumption DEF PutObject, Note, Names
<1>3. PICK pc \in {"over", "write", "undo"} :
        /\ Goto(c, pc)
        /\ pc = "over" => objects' = objects \/ c \in noted'
        /\ pc # "over" => objects' = objects \cup {c}
  BY <1>1, <1>2 DEF Note, Applied, Errs
<1>4. \A key, n \in Names : Named(key, n)' <=> Named(key, n)
  BY <1>2 DEF Named
<1>5. \A d \in Clients : Known(d)' <=> Known(d)
  BY <1>3, <1>4, GotoKeeps DEF Known, CoversInv, Names
<1>6. HomeInv'
  BY <1>3, <1>4, GotoKeeps DEF HomeInv, CoversInv
<1>7. FreshInv'
  BY <1>2, <1>3, <1>5, GotoKeeps DEF FreshInv, CoversInv
<1>8. PlannedInv'
  BY <1>2, <1>3, GotoKeeps DEF PlannedInv, CoversInv
<1>9. GoneInv'
  BY <1>2, <1>3, GotoKeeps DEF GoneInv, CoversInv, Named
<1>10. ExistsInv'
  BY <1>2 DEF ExistsInv, CoversInv
<1>11. StrayInv'
  <2>1. \A d \in Clients : Pending(d) => Pending(d)'
    BY <1>2, <1>3, GotoKeeps DEF Pending, CoversInv
  <2>2. pc # "over" => Pending(c)'
    <3>1. call[c].request.op \in {"create", "update"} /\ call[c].request.cover
      BY <1>2 DEF CoversInv, PlannedInv, Inv, CallOk
    <3> QED BY <1>3, <3>1, GotoKeeps DEF Pending, CoversInv
  <2>3. objects' \ noted' \subseteq Names
    BY <1>2, <1>3 DEF CoversInv, Inv, TypeOk
  <2>4. \A key \in objects' \ noted' : key \in objects \ noted \/ (key = c /\ pc # "over")
    BY <1>2, <1>3
  <2> QED BY <1>2, <1>3, <1>4, <2>1, <2>2, <2>3, <2>4, GotoKeeps DEF StrayInv, CoversInv
<1> QED BY <1>6, <1>7, <1>8, <1>9, <1>10, <1>11 DEF CoversParts

\* A cover is removed, or not, that no row names unless it was noted.
LEMMA RemoveCovers == ASSUME CoversInv, NEW c \in Clients, RemoveObject(c) PROVE CoversParts'
<1> DEFINE key == IF call[c].pc = "undo" THEN c ELSE call[c].old.cover
<1>1. /\ call[c].pc \in {"undo", "clean"} /\ competitions' = competitions /\ Goto(c, "over")
      /\ \/ objects' = objects \ {key} /\ noted' = noted
         \/ objects' = objects /\ noted' = noted \cup ({key} \ {None})
  BY DEF RemoveObject, Note
<1>2. call[c].pc = "clean" => key = OldCover(c)
  BY NamesAssumption DEF CoversInv, Inv, CallOk, OldCover
<1>3. \A n \in Names : Named(key, n) => key \in noted
  <2>1. CASE call[c].pc = "undo"
    BY <2>1 DEF CoversInv, FreshInv, Known
  <2>2. CASE call[c].pc = "clean"
    BY <1>2, <2>2 DEF CoversInv, GoneInv
  <2> QED BY <1>1, <2>1, <2>2
<1>4. \A d \in Clients \ {c} : call[d].pc = "write" /\ d = key => d \in noted
  <2>1. ASSUME NEW d \in Clients \ {c}, call[d].pc = "write", d = key PROVE d \in noted
    <3>1. call[c].pc = "clean" /\ OldCover(c) = d
      BY <1>1, <1>2, <2>1
    <3> QED BY <2>1, <3>1 DEF CoversInv, FreshInv, Known
  <2> QED BY <2>1
<1>5. \A k, n \in Names : Named(k, n)' <=> Named(k, n)
  BY <1>1 DEF Named
<1>6. \A d \in Clients : Known(d)' <=> Known(d)
  BY <1>1, <1>5, GotoKeeps DEF Known, CoversInv, Names
<1>7. HomeInv'
  BY <1>1, <1>5, GotoKeeps DEF HomeInv, CoversInv
<1>8. FreshInv'
  BY <1>1, <1>6, GotoKeeps DEF FreshInv, CoversInv
<1>9. PlannedInv'
  <2> HIDE DEF key
  <2> QED BY <1>1, <1>4, GotoKeeps DEF PlannedInv, CoversInv
<1>10. GoneInv'
  <2> HIDE DEF key
  <2> QED BY <1>1, GotoKeeps DEF GoneInv, CoversInv, Named
<1>11. ExistsInv'
  <2> HIDE DEF key
  <2> QED BY <1>1, <1>3 DEF ExistsInv, CoversInv, Named
<1>12. StrayInv'
  <2>1. \A d \in Clients \ {c} : Pending(d) => Pending(d)'
    BY <1>1, GotoKeeps DEF Pending, CoversInv
  <2>2. \A k \in objects' \ noted' : k \in objects \ noted /\ k # key /\ k \in Names
    BY <1>1, NamesAssumption DEF CoversInv, Inv, TypeOk
  <2>3. Pending(c) => key = c
    BY <1>1 DEF Pending
  <2> HIDE DEF key
  <2>4. ASSUME NEW k \in objects' \ noted'
        PROVE \/ \E n \in Names : Named(k, n)'
              \/ k \in Clients /\ Pending(k)'
              \/ \E d \in Clients : call'[d].pc = "clean" /\ OldCover(d)' = k
    <3>1. CASE \E n \in Names : Named(k, n)
      BY <1>5, <2>2, <3>1
    <3>2. CASE k \in Clients /\ Pending(k)
      BY <2>1, <2>2, <2>3, <3>2
    <3>3. CASE \E d \in Clients : call[d].pc = "clean" /\ OldCover(d) = k
      BY <1>1, <1>2, <2>2, <3>3, GotoKeeps DEF CoversInv
    <3> QED BY <2>2, <3>1, <3>2, <3>3 DEF CoversInv, StrayInv
  <2> QED BY <2>4 DEF StrayInv
<1> QED BY <1>7, <1>8, <1>9, <1>10, <1>11, <1>12 DEF CoversParts
\* A request begins.
LEMMA BeginCovers == ASSUME CoversInv, NEW c \in Clients, Begin(c) PROVE CoversParts'
<1> DEFINE k == call'[c]
<1>1. PICK r \in Requests, id \in Names, stage \in Names :
        /\ r.op = "create" => id = c
        /\ call' = [call EXCEPT ![c] =
             [pc |-> IF ~MayManage(r.actor) THEN "over"
                     ELSE IF r.op # "create" THEN "read"
                     ELSE IF ~InOrder(Created(c, r)) THEN "over"
                     ELSE IF r.cover THEN "put" ELSE "write",
              request |-> r, id |-> id, stage |-> stage, old |-> None,
              row |-> IF r.op = "create" THEN Created(c, r) ELSE None]]
  BY DEF Begin
<1>2. /\ call[c].pc = "start" /\ UNCHANGED <<competitions, objects, noted>>
      /\ \A d \in Clients \ {c} : call'[d] = call[d]
      /\ k.pc \in {"over", "read", "put", "write"} /\ k.id = id /\ k.old = None /\ k.request = r
      /\ k.pc \in {"put", "write"} => r.op = "create" /\ k.row = Created(c, r) /\ id = c
      /\ k.pc = "put" => r.cover
      /\ k.pc = "write" => ~r.cover
  BY <1>1 DEF Begin, CoversInv, Inv, TypeOk, MayManage, InOrder
<1>3. /\ OldCover(c)' = None /\ \A d \in Clients \ {c} : OldCover(d)' = OldCover(d)
      /\ \A key \in Names \ {c} : Home(key)' = Home(key)
  BY <1>2 DEF OldCover, Home, Names
<1>4. \A key, n \in Names : Named(key, n)' <=> Named(key, n)
  BY <1>2 DEF Named
<1>5. \A d \in Clients : Known(d)' => Known(d)
  BY <1>3, <1>4, NamesAssumption DEF Known, Names
<1>6. ~Known(c)
  BY <1>2 DEF CoversInv, FreshInv
<1>7. HomeInv'
  BY <1>2, <1>3, <1>4, <1>6, NamesAssumption DEF HomeInv, CoversInv, Known, Names
<1>8. FreshInv'
  BY <1>2, <1>5, <1>6 DEF FreshInv, CoversInv
<1>9. PlannedInv'
  <2>1. Created(c, r).cover = IF r.cover THEN c ELSE None
    BY DEF Created
  <2> QED BY <1>2, <2>1 DEF PlannedInv, CoversInv
<1>10. GoneInv'
  BY <1>2, <1>3, <1>4 DEF GoneInv, CoversInv, Named
<1>11. ExistsInv'
  BY <1>2 DEF ExistsInv, CoversInv
<1>12. StrayInv'
  <2>1. ~Pending(c) /\ \A d \in Clients \ {c} : Pending(d) => Pending(d)'
    BY <1>2 DEF Pending
  <2>2. objects \ noted \subseteq Names
    BY DEF CoversInv, Inv, TypeOk
  <2> QED BY <1>2, <1>3, <1>4, <2>1, <2>2 DEF StrayInv, CoversInv
<1> QED BY <1>7, <1>8, <1>9, <1>10, <1>11, <1>12 DEF CoversParts

\* A call reads: what it takes for the old competition is, or was, named at its id.
LEMMA ReadCovers ==
  ASSUME CoversInv, NEW c \in Clients, GetCompetitionByID(c) \/ GetStageByID(c)
  PROVE  CoversParts'
<1> DEFINE k == call'[c]
           now == competitions[call[c].id]
<1>1. /\ call[c].pc \in {"read", "readStage"} /\ UNCHANGED <<competitions, objects, noted>>
      /\ call[c] \in CallRecord /\ CallOk(call[c]) /\ call[c].id \in Names
      /\ call \in [Clients -> CallRecord]
  BY DEF GetCompetitionByID, GetStageByID, CoversInv, Inv, TypeOk, CallRecord
<1>2. /\ \A d \in Clients \ {c} : call'[d] = call[d]
      /\ k.id = call[c].id /\ k.request = call[c].request
      /\ k.old = call[c].old \/ (now # None /\ k.old = now)
      /\ k.pc \in {"over", "readStage", "put", "write"}
      /\ k.pc \in {"put", "write"} /\ k.request.op = "update" =>
           /\ now # None /\ k.old = now
           /\ k.row = Edited(c, k.request, now) /\ (k.pc = "put" <=> k.request.cover)
      /\ k.request.op # "create"
  <2>1. CASE GetCompetitionByID(c)
    <3> DEFINE r == call[c].request
    <3>1. r.op \in {"update", "createStage", "updateStage", "delete", "deleteStage"}
      BY <1>1, <2>1, RequestsAssumption DEF GetCompetitionByID, CallOk, Request, Ops
    <3>2. CASE Goto(c, "over")
      BY <1>1, <3>1, <3>2 DEF Goto, CallRecord
    <3>3. CASE r.op = "update" /\ ~Goto(c, "over")
      <4>1. PICK pc : /\ now # None /\ Plan(c, now, Edited(c, r, now), pc)
                      /\ pc \in {"over", "put", "write"} /\ (pc = "put" => r.cover)
                      /\ pc = "write" => ~r.cover
        BY <2>1, <3>3 DEF GetCompetitionByID, HandsOver, InOrder
      <4> QED BY <1>1, <3>3, <4>1 DEF Plan, CallRecord
    <3>4. CASE r.op = "createStage" /\ ~Goto(c, "over")
      <4>1. PICK pc, row : now # None /\ Plan(c, now, row, pc) /\ pc \in {"over", "write"}
        BY <2>1, <3>4 DEF GetCompetitionByID
      <4> QED BY <1>1, <3>4, <4>1 DEF Plan, CallRecord
    <3>5. CASE r.op \in {"updateStage", "delete", "deleteStage"} /\ ~Goto(c, "over")
      <4>1. PICK pc : now # None /\ Plan(c, now, None, pc) /\ pc \in {"readStage", "write"}
        BY <2>1, <3>5 DEF GetCompetitionByID
      <4> QED BY <1>1, <3>5, <4>1 DEF Plan, CallRecord
    <3> QED BY <3>1, <3>2, <3>3, <3>4, <3>5
  <2>2. CASE GetStageByID(c)
    <3>1. call[c].pc = "readStage" /\ call[c].request.op = "updateStage"
      BY <1>1, <2>2 DEF GetStageByID, CallOk
    <3>2. \/ Goto(c, "over")
          \/ \E row, pc : Plan(c, call[c].old, row, pc) /\ pc \in {"over", "write"}
      BY <2>2 DEF GetStageByID
    <3>3. CASE Goto(c, "over")
      BY <1>1, <3>1, <3>3 DEF Goto, CallRecord
    <3>4. ASSUME NEW row, NEW pc \in {"over", "write"}, Plan(c, call[c].old, row, pc)
          PROVE  /\ \A d \in Clients \ {c} : call'[d] = call[d]
                 /\ k.id = call[c].id /\ k.request = call[c].request /\ k.old = call[c].old
                 /\ k.pc = pc
      BY <1>1, <3>4 DEF Plan, CallRecord
    <3> QED BY <1>1, <3>1, <3>2, <3>3, <3>4
  <2> QED BY <2>1, <2>2
<1>3. /\ \A d \in Clients \ {c} : OldCover(d)' = OldCover(d)
      /\ OldCover(c)' = OldCover(c) \/ (now # None /\ OldCover(c)' = now.cover)
      /\ \A key \in Names : Home(key)' = Home(key)
  BY <1>2, NamesAssumption DEF OldCover, Home, Names
<1>4. \A key, n \in Names : Named(key, n)' <=> Named(key, n)
  BY <1>1 DEF Named
<1>5. \A d \in Clients : Known(d)' => Known(d)
  <2>1. now # None => Named(now.cover, call[c].id)
    BY DEF Named
  <2> QED BY <1>1, <1>3, <1>4, <2>1 DEF Known, Names
<1>6. HomeInv'
  <2>1. ASSUME NEW key \in Names, NEW d \in Clients, OldCover(d)' = key
        PROVE  Home(key)' = call'[d].id
    <3>1. CASE OldCover(d) = key
      BY <1>2, <1>3, <3>1 DEF HomeInv, CoversInv
    <3>2. CASE d = c /\ Named(key, call[c].id)
      BY <1>1, <1>2, <1>3, <3>2 DEF HomeInv, CoversInv
    <3> QED BY <1>3, <2>1, <3>1, <3>2 DEF Named
  <2> QED BY <1>3, <1>4, <2>1 DEF HomeInv, CoversInv
<1>7. FreshInv'
  BY <1>1, <1>2, <1>5 DEF FreshInv, CoversInv
<1>8. PlannedInv'
  <2>1. now # None /\ k.request.op = "update" =>
          Edited(c, k.request, now).cover = IF k.request.cover THEN c
                                            ELSE IF k.request.remove THEN None ELSE now.cover
    BY DEF Edited
  <2> QED BY <1>1, <1>2, <2>1 DEF PlannedInv, CoversInv
<1>9. GoneInv'
  BY <1>1, <1>2, <1>3, <1>4 DEF GoneInv, CoversInv, Named
<1>10. ExistsInv'
  BY <1>1 DEF ExistsInv, CoversInv
<1>11. StrayInv'
  <2>1. ~Pending(c) /\ \A d \in Clients \ {c} : Pending(d) => Pending(d)'
    BY <1>1, <1>2 DEF Pending
  <2>2. objects \ noted \subseteq Names
    BY DEF CoversInv, Inv, TypeOk
  <2> QED BY <1>1, <1>2, <1>3, <1>4, <2>1, <2>2 DEF StrayInv, CoversInv
<1> QED BY <1>6, <1>7, <1>8, <1>9, <1>10, <1>11 DEF CoversParts

\* Where a competition is written: nothing but its row changes, and the call goes on.
LEMMA RowWritten ==
  ASSUME CoversInv, NEW c \in Clients, NEW id \in Names, NEW row, NEW pc, Goto(c, pc),
         competitions' = [competitions EXCEPT ![id] = row]
  PROVE  /\ \A key, n \in Names : n # id => (Named(key, n)' <=> Named(key, n))
         /\ \A key : Named(key, id)' <=> (row # None /\ row.cover = key)
         /\ \A d \in Clients :
              Known(d)' => Known(d) \/ (row # None /\ row.cover = d)
<1>1. competitions \in [Names -> Competition \cup {None}]
  BY DEF CoversInv, Inv, TypeOk
<1>2. /\ \A key, n \in Names : n # id => (Named(key, n)' <=> Named(key, n))
      /\ \A key : Named(key, id)' <=> (row # None /\ row.cover = key)
  BY <1>1 DEF Named
<1>3. \A d \in Clients : OldCover(d)' = OldCover(d)
  BY GotoKeeps DEF CoversInv
<1> QED BY <1>2, <1>3 DEF Known, Names
\* What has to be shown of a call that gives its competition a row with this cover,
\* or none, and goes on to pc.
MayWrite(c, pc, id, row, cover) ==
  /\ competitions' = [competitions EXCEPT ![id] = row] /\ objects' = objects
  /\ noted \subseteq noted'
  /\ call[c].pc = "write" /\ (id = c \/ competitions[id] # None)
  /\ cover = IF row = None THEN None ELSE row.cover
  /\ cover # None => Home(cover) = id
  /\ cover \in objects \cup noted' \cup {None}
  /\ cover \in Clients => cover = c \/ Known(cover)
  /\ pc = "undo" /\ (cover = c \/ Known(c)) => c \in noted'
  /\ \A d \in Clients : call[d].pc = "clean" /\ OldCover(d) = cover => cover \in noted'
  /\ pc = "clean" => OldCover(c) # cover \/ cover \in noted'
  /\ pc = "clean" => OldCover(c) \in Names /\ Home(OldCover(c)) = id
  /\ \A key \in objects \ noted' : Named(key, id) =>
       cover = key \/ (pc = "clean" /\ OldCover(c) = key)
  /\ Pending(c) => cover = c \/ pc = "undo"

\* It leaves the covers in order.
LEMMA Written ==
  ASSUME CoversInv, NEW c \in Clients, NEW pc \in {"over", "undo", "clean"}, Goto(c, pc),
         NEW id \in Names, NEW row, NEW cover \in Names \cup {None},
         MayWrite(c, pc, id, row, cover)
  PROVE  CoversParts'
<1> USE DEF MayWrite
<1> None \notin Names
  BY NamesAssumption
<1> c \in Names /\ Clients \subseteq Names
  BY DEF Names
<1>1. /\ \A key, n \in Names : n # id => (Named(key, n)' <=> Named(key, n))
      /\ \A key \in Names : Named(key, id)' <=> cover = key
      /\ \A d \in Clients : Known(d)' => Known(d) \/ cover = d
  BY RowWritten
<1>2. HomeInv'
  BY <1>1, GotoKeeps DEF HomeInv, CoversInv
<1>3. FreshInv'
  <2>1. ASSUME NEW d \in Clients, call'[d].pc = "start" PROVE ~Known(d)'
    BY <1>1, <2>1, GotoKeeps DEF FreshInv, CoversInv
  <2>2. ASSUME NEW d \in Clients, call'[d].pc \notin {"over", "clean"}, Known(d)'
        PROVE  d \in noted'
    <3>1. CASE d = c
      BY <1>1, <2>2, <3>1, GotoKeeps DEF CoversInv
    <3>2. CASE d # c
      BY <1>1, <2>2, <3>2, GotoKeeps DEF FreshInv, CoversInv
    <3> QED BY <3>1, <3>2
  <2>3. ASSUME NEW d \in Clients,
               \/ call'[d].pc = "start"
               \/ call'[d].pc \in {"put", "write"} /\ call'[d].request.op = "create"
        PROVE  competitions'[d] = None
    <3>1. d # c /\ competitions[d] = None
      BY <2>3, GotoKeeps DEF FreshInv, CoversInv
    <3> QED BY <3>1
  <2> QED BY <2>1, <2>2, <2>3 DEF FreshInv
<1>4. PlannedInv'
  BY GotoKeeps DEF PlannedInv, CoversInv
<1>5. GoneInv'
  <2>1. ASSUME NEW d \in Clients, call'[d].pc = "clean"
        PROVE  /\ OldCover(d)' \in Names
               /\ \A n \in Names : Named(OldCover(d), n)' => OldCover(d)' \in noted'
    <3> DEFINE key == OldCover(d)
    <3>1. key' = key
      BY GotoKeeps DEF CoversInv
    <3>2. CASE d = c
      <4>1. pc = "clean"
        BY <2>1, <3>2, GotoKeeps DEF CoversInv
      <4>2. \A n \in Names : n # id => ~Named(key, n)
        BY <3>2, <4>1 DEF CoversInv, HomeInv
      <4>3. \A n \in Names : n # id => ~Named(key, n)'
        BY <4>2, <3>1 DEF Named
      <4>4. Named(key, id)' => key' \in noted'
        BY <1>1, <3>1, <3>2, <4>1 DEF Named
      <4> QED BY <3>1, <3>2, <4>1, <4>3, <4>4
    <3>3. CASE d # c
      <4>1. call[d].pc = "clean"
        BY <2>1, <3>3, GotoKeeps DEF CoversInv
      <4>2. key \in Names /\ \A n \in Names : Named(key, n) => key \in noted
        BY <4>1 DEF CoversInv, GoneInv
      <4>3. \A n \in Names : n # id => (Named(key, n)' <=> Named(key, n))
        BY <1>1, <3>1, <4>2 DEF Named
      <4>4. Named(key, id)' => key' \in noted'
        BY <1>1, <3>1, <4>1, <4>2 DEF Named
      <4> QED BY <3>1, <4>2, <4>3, <4>4
    <3> QED BY <3>2, <3>3
  <2> QED BY <2>1 DEF GoneInv
<1>6. ExistsInv'
  BY <1>1 DEF ExistsInv, CoversInv, Inv, TypeOk
<1>7. StrayInv'
  <2>1. \A d \in Clients \ {c} : Pending(d) => Pending(d)'
    BY GotoKeeps DEF Pending, CoversInv
  <2>2. pc = "undo" => Pending(c)'
    BY GotoKeeps DEF Pending, CoversInv
  <2>3. objects \ noted \subseteq Names
    BY DEF CoversInv, Inv, TypeOk
  <2>4. ASSUME NEW k \in objects' \ noted'
        PROVE \/ \E n \in Names : Named(k, n)'
              \/ k \in Clients /\ Pending(k)'
              \/ \E d \in Clients : call'[d].pc = "clean" /\ OldCover(d)' = k
    <3>1. CASE \E n \in Names : Named(k, n)
      BY <1>1, <2>3, <2>4, <3>1, GotoKeeps DEF CoversInv
    <3>2. CASE k \in Clients /\ Pending(k)
      BY <1>1, <2>1, <2>2, <3>2
    <3>3. CASE \E d \in Clients : call[d].pc = "clean" /\ OldCover(d) = k
      BY <3>3, GotoKeeps DEF CoversInv
    <3> QED BY <2>3, <2>4, <3>1, <3>2, <3>3 DEF CoversInv, StrayInv
  <2> QED BY <2>4 DEF StrayInv
<1> QED BY <1>2, <1>3, <1>4, <1>5, <1>6, <1>7 DEF CoversParts
\* A competition is inserted with the cover of the call.
LEMMA CreateCovers == ASSUME CoversInv, NEW c \in Clients, CreateCompetition(c) PROVE CoversParts'
<1> DEFINE k == call[c]
           cover == IF k.request.cover THEN c ELSE None
<1> None \notin Names /\ c \in Names
  BY NamesAssumption DEF Names
<1>1. PICK o \in Outcome :
        /\ competitions' = IF Applied(o) THEN [competitions EXCEPT ![c] = k.row] ELSE competitions
        /\ Note(IF Applied(o) /\ Errs(o) THEN {k.row.cover} ELSE {})
        /\ Goto(c, IF Errs(o) THEN Failed(k) ELSE "over")
  BY DEF CreateCompetition
<1>2. /\ k.pc = "write" /\ k.request.op = "create" /\ objects' = objects
      /\ k.row # None /\ k.row.cover = cover
  BY NamesAssumption DEF CreateCompetition, Writes, CoversInv, PlannedInv, Inv, CallOk, Sound
<1>3. k.id = c /\ (k.request.cover => c \in objects \cup noted)
  BY <1>2 DEF CoversInv, PlannedInv
<1>4. CASE ~Applied(o)
  <2>1. Errs(o) /\ noted' = noted /\ competitions' = competitions
    BY <1>1, <1>4 DEF Applied, Errs, Note
  <2>2. PICK pc \in {"over", "undo"} : Goto(c, pc) /\ (Pending(c) => pc = "undo")
    BY <1>1, <1>2, <2>1 DEF Failed, Pending
  <2> QED BY <1>2, <2>1, <2>2, NotWritten
<1>5. CASE Applied(o)
  <2>1. competitions' = [competitions EXCEPT ![c] = k.row]
    BY <1>1, <1>5
  <2>2. PICK pc \in {"over", "undo", "clean"} :
          Goto(c, pc) /\ pc # "clean" /\ (pc = "undo" => Errs(o) /\ k.request.cover)
    BY <1>1 DEF Failed
  <2>3. noted \subseteq noted' /\ (Errs(o) /\ k.request.cover => c \in noted')
    BY <1>1, <1>2, <1>5 DEF Note
  <2>4. cover # None => Home(cover) = c
    BY <1>3, NamesAssumption DEF Home
  <2>5. \A d \in Clients : call[d].pc = "clean" /\ OldCover(d) = cover => cover \in noted'
    <3>1. ASSUME NEW d \in Clients, call[d].pc = "clean", OldCover(d) = cover PROVE cover \in noted'
      <4>1. cover = c
        BY <3>1 DEF CoversInv, GoneInv
      <4>2. Known(c)
        BY <3>1, <4>1 DEF Known
      <4> QED BY <1>2, <2>3, <4>1, <4>2 DEF CoversInv, FreshInv
    <3> QED BY <3>1
  <2>6. \A key : ~Named(key, c)
    BY <1>2 DEF CoversInv, FreshInv, Named
  <2>7. /\ cover = IF k.row = None THEN None ELSE k.row.cover
        /\ cover \in Names \cup {None} /\ cover \in objects \cup noted' \cup {None}
        /\ cover \in Clients => cover = c
        /\ Pending(c) => cover = c
        /\ pc = "undo" => c \in noted'
    BY <1>2, <1>3, <2>2, <2>3 DEF Pending, Names
  <2>8. MayWrite(c, pc, c, k.row, cover)
    BY <1>2, <2>1, <2>2, <2>3, <2>4, <2>5, <2>6, <2>7 DEF MayWrite
  <2> HIDE DEF cover, k
  <2> QED BY <2>2, <2>7, <2>8, Written
<1> QED BY <1>4, <1>5
\* A competition is overwritten: covers that a stale row brings back were noted.
LEMMA UpdateCovers == ASSUME CoversInv, NEW c \in Clients, UpdateCompetition(c) PROVE CoversParts'
<1> DEFINE k == call[c]
           id == call[c].id
           now == competitions[call[c].id]
           cover == call[c].row.cover
           old == call[c].old.cover
<1> /\ None \notin Names /\ c \in Names
  BY NamesAssumption DEF Names
<1>1. /\ k.pc = "write" /\ k.request.op = "update" /\ objects' = objects /\ id \in Names
      /\ k.row \in Competition /\ k.old \in Competition
      /\ k.row # None /\ k.old # None /\ old = OldCover(c)
      /\ cover = (IF k.request.cover THEN c ELSE IF k.request.remove THEN None ELSE old)
      /\ k.request.cover => c \in objects \cup noted
      /\ old \in Names \cup {None} /\ cover \in Names \cup {None}
  <2>1. k.pc = "write" /\ k.request.op = "update" /\ objects' = objects
    BY DEF UpdateCompetition, Writes
  <2>2. k \in CallRecord /\ CallOk(k)
    BY DEF CoversInv, Inv, TypeOk
  <2>3. k.row \in Competition /\ k.old \in Competition /\ k.row # None /\ k.old # None
    BY <2>1, <2>2, NamesAssumption DEF CallOk, Sound
  <2> QED BY <2>1, <2>2, <2>3 DEF CoversInv, PlannedInv, OldCover, CallRecord, Competition
<1>2. PICK o \in Outcome :
        LET done == Applied(o) /\ now # None IN
        /\ competitions' = IF done THEN [competitions EXCEPT ![id] = k.row] ELSE competitions
        /\ Note(IF done THEN Doubtful(k, now, cover, o) ELSE {})
        /\ Goto(c, IF ~done \/ Errs(o) THEN Failed(k)
                   ELSE IF Replaces(k) THEN "clean" ELSE "over")
  BY DEF UpdateCompetition, RowToWrite
<1>3. CASE ~(Applied(o) /\ now # None)
  <2>1. noted' = noted /\ competitions' = competitions
    BY <1>2, <1>3 DEF Note
  <2>2. PICK pc \in {"over", "undo"} : Goto(c, pc) /\ (Pending(c) => pc = "undo")
    BY <1>1, <1>2, <1>3 DEF Failed, Pending
  <2> QED BY <1>1, <2>1, <2>2, NotWritten
<1>4. CASE Applied(o) /\ now # None
  <2>1. competitions' = [competitions EXCEPT ![id] = k.row]
    BY <1>2, <1>4
  <2>2. PICK pc \in {"over", "undo", "clean"} :
          /\ Goto(c, pc)
          /\ pc = "undo" => Errs(o) /\ k.request.cover
          /\ pc = "clean" <=> ~Errs(o) /\ Replaces(k)
          /\ Errs(o) /\ k.request.cover => pc = "undo"
    BY <1>2, <1>4 DEF Failed
  <2>3. /\ noted \subseteq noted'
        /\ now.cover # old => {now.cover, old} \ {None} \subseteq noted'
        /\ Errs(o) /\ cover # old => {cover, old} \ {None} \subseteq noted'
    BY <1>2, <1>4 DEF Note, Doubtful
  <2>4. /\ OldCover(c) = c => c \in noted
        /\ \A d \in Clients : call[d].pc = "clean" /\ OldCover(d) = c => c \in noted
        /\ old \in Clients => Known(old)
        /\ Known(c) => c \in noted
    BY <1>1 DEF CoversInv, FreshInv, Known
  <2>5. (old # None => Home(old) = id) /\ Home(c) = id
    <3>1. c # Old
      BY NamesAssumption
    <3> QED BY <1>1, <3>1 DEF CoversInv, HomeInv, Home
  <2>6. Named(now.cover, id) /\ (now.cover # None => now.cover \in objects \cup noted)
    BY <1>1, <1>4 DEF Named, CoversInv, ExistsInv
  <2>7. cover \in objects \cup noted' \cup {None}
    BY <1>1, <2>3, <2>6
  <2>8. pc = "undo" => c \in noted'
    BY <1>1, <2>2, <2>3, <2>4
  <2>9. \A d \in Clients : call[d].pc = "clean" /\ OldCover(d) = cover => cover \in noted'
    <3>1. ASSUME NEW d \in Clients, call[d].pc = "clean", OldCover(d) = cover PROVE cover \in noted'
      <4>1. cover # None /\ \A n \in Names : Named(cover, n) => cover \in noted
        BY <3>1 DEF CoversInv, GoneInv
      <4>2. CASE cover = c
        BY <2>3, <2>4, <3>1, <4>2
      <4>3. CASE cover = old
        BY <1>1, <2>3, <2>6, <4>1, <4>3
      <4> QED BY <1>1, <4>1, <4>2, <4>3
    <3> QED BY <3>1
  <2>10. pc = "clean" => /\ OldCover(c) # cover \/ cover \in noted'
                         /\ OldCover(c) \in Names /\ Home(OldCover(c)) = id
    BY <1>1, <2>2, <2>3, <2>4, <2>5 DEF Replaces
  <2>11. \A key \in objects \ noted' : Named(key, id) =>
           cover = key \/ (pc = "clean" /\ OldCover(c) = key)
    <3>1. ASSUME NEW key \in objects \ noted', Named(key, id)
          PROVE  cover = key \/ (pc = "clean" /\ OldCover(c) = key)
      <4>1. key \in Names /\ key = now.cover /\ key = old
        BY <2>3, <3>1 DEF Named, CoversInv, Inv, TypeOk
      <4>2. CASE Errs(o)
        BY <2>3, <3>1, <4>1, <4>2
      <4>3. CASE ~Errs(o)
        BY <1>1, <2>2, <4>1, <4>3 DEF Replaces
      <4> QED BY <4>2, <4>3
    <3> QED BY <3>1
  <2>12. /\ cover # None => Home(cover) = id
         /\ cover \in Clients => cover = c \/ Known(cover)
    <3>1. cover \in {c, None, old}
      BY <1>1
    <3>2. None \notin Clients
      BY DEF Names
    <3> HIDE DEF cover, old, id
    <3> QED BY <2>4, <2>5, <3>1, <3>2
  <2>13. Pending(c) => cover = c
    BY <1>1 DEF Pending
  <2>14. MayWrite(c, pc, id, k.row, cover)
    BY <1>1, <1>4, <2>1, <2>3, <2>7, <2>8, <2>9, <2>10, <2>11, <2>12, <2>13 DEF MayWrite
  <2> HIDE DEF cover, k, id
  <2> QED BY <1>1, <2>2, <2>14, Written
<1> QED BY <1>3, <1>4

\* A competition is deleted.
LEMMA DeleteCovers == ASSUME CoversInv, NEW c \in Clients, DeleteCompetition(c) PROVE CoversParts'
<1> DEFINE k == call[c]
           id == call[c].id
           now == competitions[call[c].id]
           old == call[c].old.cover
<1> /\ None \notin Names /\ c \in Names
  BY NamesAssumption DEF Names
<1>1. /\ k.pc = "write" /\ k.request.op = "delete" /\ objects' = objects /\ id \in Names
      /\ old = OldCover(c) /\ old \in Names \cup {None} /\ ~Pending(c)
  <2>1. k.pc = "write" /\ k.request.op = "delete" /\ objects' = objects
    BY DEF DeleteCompetition, Writes
  <2>2. k \in CallRecord /\ CallOk(k)
    BY DEF CoversInv, Inv, TypeOk
  <2>3. k.old \in Competition /\ k.old # None
    BY <2>1, <2>2, NamesAssumption DEF CallOk
  <2> QED BY <2>1, <2>2, <2>3 DEF OldCover, CallRecord, Competition, Pending
<1>2. PICK o \in Outcome :
        LET done == Applied(o) /\ now # None IN
        /\ competitions' = IF done THEN [competitions EXCEPT ![id] = None] ELSE competitions
        /\ Note(IF done THEN Doubtful(k, now, None, o) ELSE {})
        /\ Goto(c, IF ~done \/ Errs(o) \/ old = None THEN "over" ELSE "clean")
  BY DEF DeleteCompetition
<1>3. CASE ~(Applied(o) /\ now # None)
  <2>1. noted' = noted /\ competitions' = competitions /\ Goto(c, "over")
    BY <1>2, <1>3 DEF Note
  <2> QED BY <1>1, <2>1, NotWritten
<1>4. CASE Applied(o) /\ now # None
  <2>1. competitions' = [competitions EXCEPT ![id] = None]
    BY <1>2, <1>4
  <2>2. PICK pc \in {"over", "clean"} :
          Goto(c, pc) /\ (pc = "clean" <=> ~(Errs(o) \/ old = None))
    BY <1>2, <1>4
  <2>3. /\ noted \subseteq noted'
        /\ now.cover # old => {now.cover, old} \ {None} \subseteq noted'
        /\ Errs(o) /\ None # old => old \in noted'
    BY <1>2, <1>4 DEF Note, Doubtful
  <2>4. old # None => Home(old) = id
    BY <1>1 DEF CoversInv, HomeInv
  <2>5. \A key \in objects \ noted' : Named(key, id) => pc = "clean" /\ OldCover(c) = key
    <3>1. ASSUME NEW key \in objects \ noted', Named(key, id)
          PROVE  pc = "clean" /\ OldCover(c) = key
      <4>1. key \in Names /\ key = now.cover /\ key = old
        BY <2>3, <3>1 DEF Named, CoversInv, Inv, TypeOk
      <4> QED BY <1>1, <2>2, <2>3, <3>1, <4>1
    <3> QED BY <3>1
  <2>6. \A d \in Clients : call[d].pc = "clean" => OldCover(d) # None
    BY DEF CoversInv, GoneInv
  <2>7. pc = "clean" => /\ OldCover(c) # None
                        /\ OldCover(c) \in Names /\ Home(OldCover(c)) = id
    BY <1>1, <2>2, <2>4
  <2>8. None \notin Clients
    BY DEF Names
  <2>9. MayWrite(c, pc, id, None, None)
    BY <1>1, <1>4, <2>1, <2>2, <2>3, <2>5, <2>6, <2>7, <2>8 DEF MayWrite
  <2> HIDE DEF id
  <2> QED BY <1>1, <2>2, <2>9, Written
<1> QED BY <1>3, <1>4

-----------------------------------------------------------------------------
\* The cover of the first competition is there.
LEMMA InitCovers == Init => CoversInv
<1> SUFFICES ASSUME Init PROVE CoversInv
  OBVIOUS
<1> None \notin Names /\ Old \notin Clients
  BY NamesAssumption
<1>1. /\ \A key \in Names, n \in Names : Named(key, n) => key = Old /\ n = Old
      /\ \A d \in Clients : OldCover(d) = None /\ ~Known(d)
  BY FirstAssumption DEF Init, Named, OldCover, Known, Names
<1>2. HomeInv
  BY <1>1 DEF HomeInv, Home
<1>3. FreshInv
  BY <1>1 DEF FreshInv, Init, Names
<1>4. PlannedInv /\ GoneInv
  BY DEF PlannedInv, GoneInv, Init
<1>5. ExistsInv
  BY FirstAssumption DEF ExistsInv, Init
<1>6. StrayInv
  <2>1. Old \in Names /\ competitions[Old] = First /\ First # None
    BY NamesAssumption, FirstAssumption DEF Init, Names
  <2>2. Named(First.cover, Old)
    BY <2>1 DEF Named
  <2> QED BY <2>1, <2>2 DEF StrayInv, Init
<1> QED BY <1>2, <1>3, <1>4, <1>5, <1>6, InitInv DEF CoversInv

\* CoversInv is inductive.
LEMMA NextCovers == CoversInv /\ [Next]_vars => CoversInv'
<1> SUFFICES ASSUME CoversInv, [Next]_vars PROVE CoversInv'
  OBVIOUS
<1>1. Inv'
  BY NextInv DEF CoversInv
<1>2. ASSUME NEW c \in Clients, ClientStep(c) PROVE CoversParts'
  BY <1>2, BeginCovers, ReadCovers, PutCovers, RemoveCovers, CreateCovers, UpdateCovers,
     DeleteCovers, StageCovers DEF ClientStep
<1>3. CASE UNCHANGED vars
  <2>1. HomeInv'
    BY <1>3 DEF vars, CoversInv, HomeInv, Named, Home, OldCover
  <2>2. FreshInv'
    BY <1>3 DEF vars, CoversInv, FreshInv, Known, Named, OldCover
  <2>3. PlannedInv' /\ ExistsInv'
    BY <1>3 DEF vars, CoversInv, PlannedInv, ExistsInv
  <2>4. GoneInv'
    BY <1>3 DEF vars, CoversInv, GoneInv, Named, OldCover
  <2>5. StrayInv'
    BY <1>3 DEF vars, CoversInv, StrayInv, Named, OldCover, Pending
  <2> QED BY <1>1, <2>1, <2>2, <2>3, <2>4, <2>5 DEF CoversInv
<1> QED BY <1>1, <1>2, <1>3 DEF Next, CoversInv, CoversParts

\* CoversInv implies what is claimed of the covers.
LEMMA CoversImply == CoversInv => CoverExists /\ NoStrayCovers
<1> SUFFICES ASSUME CoversInv PROVE CoverExists /\ NoStrayCovers
  OBVIOUS
<1>1. CoverExists
  BY DEF CoversInv, ExistsInv, CoverExists, Rows
<1>2. NoStrayCovers
  BY DEF CoversInv, StrayInv, NoStrayCovers, Rows, Named, Pending
<1> QED BY <1>1, <1>2

\* However calls overlap and fail, the cover a competition names is in the bucket,
\* but for the covers noted when a call misled the service or a stale row was written.
THEOREM CoversExist == Spec => []CoverExists
  BY InitCovers, NextCovers, CoversImply, PTL DEF Spec

\* When all calls are over, no cover in the bucket belongs to no competition, but for
\* the same.
THEOREM CoversAreNamed == Spec => []NoStrayCovers
  BY InitCovers, NextCovers, CoversImply, PTL DEF Spec

-----------------------------------------------------------------------------
(* The stages.  The dates a call has checked a stage against are still its *)
(* competition's, unless that has gone or been moved since.                *)

Dated(id, r) ==
  \/ competitions[id] = None \/ id \in moved
  \/ r.start = competitions[id].start /\ r.end = competitions[id].end
Placed(s) ==
  competitions[s.of] = None \/ s.of \in moved \/ DaysWithin(s, competitions[s.of])

Judged(k) ==
  /\ k.pc = "readStage" => k.old \in Competition /\ Dated(k.id, k.old)
  /\ k.pc = "write" /\ k.request.op \in {"createStage", "updateStage"} =>
       k.row.of = k.id /\ Placed(k.row)
\* The call's competition is yet to be created: nobody else can name it.
Unborn(k) ==
  \/ k.pc = "start"
  \/ k.pc \in {"put", "write"} /\ k.request.op = "create"

PlacedInv == \A n \in Names : stages[n] # None =>
  competitions[stages[n].of] # None /\ Placed(stages[n])
JudgedInv == \A c \in Clients : Judged(call[c])
UnbornInv == \A c \in Clients : Unborn(call[c]) =>
  competitions[c] = None /\ \A d \in Clients \ {c} : call[d].id # c
StagesParts == PlacedInv /\ JudgedInv /\ UnbornInv
StagesInv == Inv /\ StagesParts

\* A step leaves the dates of competition id, or it goes or is moved.
Stays(id) ==
  \/ competitions'[id] = None \/ id \in moved'
  \/ /\ competitions[id] # None
     /\ competitions'[id].start = competitions[id].start
     /\ competitions'[id].end = competitions[id].end

\* A product is compared by its other factor.
LEMMA CancelDay ==
  ASSUME NEW a \in Int, NEW b \in Int, a * DayLength < b * DayLength
  PROVE  a < b
<1>1. DayLength \in Int /\ DayLength > 0
  BY ClockAssumption
<1> QED BY <1>1, Z3

\* A stage that passes the check lies within the competition's days, when the days
\* of the database do not begin after those of UTC.
LEMMA WithinDays ==
  ASSUME Offset \in 0..(DayLength - 1), NEW s \in Stage, NEW k, k.start \in Int, k.end \in Int,
         Within(s, k)
  PROVE  DaysWithin(s, k)
<1> DEFINE first == DayOf(k.start)
           last == DayOf(k.end)
<1>1. DayLength \in Int /\ DayLength > 0 /\ Offset \in Int /\ Offset >= 0 /\ Offset < DayLength
  BY ClockAssumption
<1>2. first \in Int /\ last \in Int /\ s.start \in Int /\ s.end \in Int
  BY <1>1 DEF DayOf, Stage
<1>3. /\ s.start * DayLength \in StartOfDay(k.start)..EndOfDay(k.end)
      /\ s.end * DayLength \in StartOfDay(k.start)..EndOfDay(k.end)
  BY DEF Within, Midnight
<1>4. /\ StartOfDay(k.start) = first * DayLength - Offset
      /\ EndOfDay(k.end) = last * DayLength - Offset + DayLength - 1
  BY DEF StartOfDay, EndOfDay
<1> HIDE DEF first, last
<1>5. /\ first * DayLength \in Int /\ last * DayLength \in Int
      /\ s.start * DayLength \in Int /\ s.end * DayLength \in Int
  BY <1>1, <1>2
<1>6. first * DayLength - DayLength < s.start * DayLength
      /\ s.end * DayLength < last * DayLength + DayLength
  BY <1>1, <1>3, <1>4, <1>5
<1>7. /\ (first - 1) * DayLength = first * DayLength - DayLength
      /\ (last + 1) * DayLength = last * DayLength + DayLength
  BY <1>1, <1>2, Z3
<1>8. first - 1 < s.start /\ s.end < last + 1
  BY <1>2, <1>6, <1>7, CancelDay
<1>9. first <= s.start /\ s.end <= last
  BY <1>2, <1>8
<1> QED BY <1>9 DEF DaysWithin, first, last

\* What was dated or placed remains so when its competition stays.
LEMMA StaysPlaced ==
  ASSUME NEW id, NEW r, Stays(id), moved \subseteq moved'
  PROVE  /\ Dated(id, r) => Dated(id, r)'
         /\ r.of = id /\ Placed(r) => Placed(r)'
  BY DEF Stays, Dated, Placed, DaysWithin, DayOf

\* A call that changes to k, when the others' competitions stay.
LEMMA OneCallJudged ==
  ASSUME Inv, JudgedInv, UnbornInv, NEW c \in Clients, NEW k \in CallRecord,
         call' = [call EXCEPT ![c] = k], moved \subseteq moved',
         k.id = call[c].id \/ k.id = c \/ competitions[k.id] # None,
         \A d \in Clients \ {c} : Stays(call[d].id),
         \A d \in Clients \ {c} : competitions[d] = None /\ call[c].id # d =>
           competitions'[d] = None,
         Unborn(k) => Unborn(call[c]) /\ k.id \in {c, call[c].id} /\ competitions'[c] = None,
         Judged(k)'
  PROVE  JudgedInv' /\ UnbornInv'
<1>1. call'[c] = k /\ \A d \in Clients \ {c} : call'[d] = call[d]
  BY DEF Inv, TypeOk
<1>2. ASSUME NEW d \in Clients \ {c} PROVE Judged(call[d])'
  <2>1. PICK m : m = call[d]
    OBVIOUS
  <2>2. Judged(m) /\ Stays(m.id)
    BY <2>1 DEF JudgedInv
  <2>3. /\ Dated(m.id, m.old) => Dated(m.id, m.old)'
        /\ m.row.of = m.id /\ Placed(m.row) => Placed(m.row)'
    BY <2>2, StaysPlaced
  <2>4. Judged(m)'
    BY <2>2, <2>3 DEF Judged
  <2>5. call'[d] = m
    BY <1>1, <2>1
  <2> QED BY <2>4, <2>5 DEF Judged
<1>3. JudgedInv'
  <2>1. Judged(call[c])'
    BY <1>1 DEF Judged
  <2> QED BY <1>2, <2>1 DEF JudgedInv
<1>4. ASSUME NEW d \in Clients, Unborn(call[d])'
      PROVE  competitions'[d] = None /\ \A e \in Clients \ {d} : call'[e].id # d
  <2>1. CASE d = c
    <3>1. Unborn(k)
      BY <1>1, <1>4, <2>1 DEF Unborn
    <3>2. \A e \in Clients \ {c} : call[e].id # c
      BY <3>1 DEF UnbornInv
    <3> QED BY <1>1, <2>1, <3>1, <3>2
  <2>2. CASE d # c
    <3>1. Unborn(call[d])
      BY <1>1, <1>4, <2>2 DEF Unborn
    <3>2. competitions[d] = None /\ \A e \in Clients \ {d} : call[e].id # d
      BY <3>1 DEF UnbornInv
    <3>3. k.id # d
      BY <2>2, <3>2
    <3> QED BY <1>1, <2>2, <3>2, <3>3
  <2> QED BY <2>1, <2>2
<1>5. UnbornInv'
  BY <1>4 DEF UnbornInv
<1> QED BY <1>3, <1>5

\* A call that only goes on to pc, when the others' competitions stay.
LEMMA GotoJudged ==
  ASSUME Inv, JudgedInv, UnbornInv, NEW c \in Clients, NEW pc, Goto(c, pc),
         moved \subseteq moved',
         \/ pc \in {"over", "undo", "clean"}
         \/ pc = "write" /\ call[c].pc = "put" /\ competitions' = competitions,
         \A d \in Clients \ {c} : Stays(call[d].id),
         \A d \in Clients \ {c} : competitions[d] = None /\ call[c].id # d =>
           competitions'[d] = None
  PROVE  JudgedInv' /\ UnbornInv'
<1>1. PICK k : k = [call[c] EXCEPT !.pc = pc]
  OBVIOUS
<1>2. call[c] \in CallRecord /\ CallOk(call[c])
  BY DEF Inv, TypeOk
<1>3. k \in CallRecord /\ k.pc = pc /\ k.id = call[c].id /\ k.request = call[c].request
  BY <1>1, <1>2 DEF CallRecord
<1>4. call' = [call EXCEPT ![c] = k]
  BY <1>1 DEF Goto
<1>5. Unborn(k) => Unborn(call[c]) /\ competitions'[c] = None
  BY <1>3 DEF Unborn, UnbornInv
<1>6. Judged(k)'
  BY <1>2, <1>3 DEF Judged, CallOk
<1> QED BY <1>3, <1>4, <1>5, <1>6, OneCallJudged

\* What stays when no table but that of the stages changes.
LEMMA AllStay ==
  ASSUME Inv, UNCHANGED <<competitions, moved>>
  PROVE  /\ \A d \in Names : Stays(d)
         /\ \A d \in Clients : Stays(call[d].id)
  BY DEF Stays, Inv, TypeOk, CallRecord

\* The stages are placed while no table changes.
LEMMA SamePlaced ==
  ASSUME PlacedInv, UNCHANGED <<competitions, stages, moved>>
  PROVE  PlacedInv'
  BY DEF PlacedInv, Placed, DaysWithin, DayOf

\* A request begins.
LEMMA BeginStages == ASSUME StagesInv, NEW c \in Clients, Begin(c) PROVE StagesParts'
<1>1. call[c].pc = "start" /\ UNCHANGED <<competitions, stages, moved>> /\ Inv
  BY DEF Begin, StagesInv
<1>2. call' \in [Clients -> CallRecord]
  BY <1>1, BeginInv DEF Inv, TypeOk
<1>3. PICK k : k = call'[c]
  OBVIOUS
<1>4. /\ call' = [call EXCEPT ![c] = k]
      /\ k.pc \in {"over", "read"} \/ (k.pc \in {"put", "write"} /\ k.request.op = "create")
      /\ k.request.op = "create" => k.id = c
      /\ k.request.op # "create" => competitions[k.id] # None
  <2> DEFINE Pc(r) == IF ~MayManage(r.actor) THEN "over"
                      ELSE IF r.op # "create" THEN "read"
                      ELSE IF ~InOrder(Created(c, r)) THEN "over"
                      ELSE IF r.cover THEN "put" ELSE "write"
             Row(r) == IF r.op = "create" THEN Created(c, r) ELSE None
             New(r, id, stage) == [pc |-> Pc(r), request |-> r, id |-> id, stage |-> stage,
                                   old |-> None, row |-> Row(r)]
  <2>1. PICK r \in Requests, id \in Names, stage \in Names :
          /\ call' = [call EXCEPT ![c] = New(r, id, stage)]
          /\ r.op = "create" => id = c
          /\ r.op # "create" => competitions[id] # None
    BY DEF Begin
  <2>2. Pc(r) \in {"over", "read"} \/ (Pc(r) \in {"put", "write"} /\ r.op = "create")
    OBVIOUS
  <2> HIDE DEF Pc, Row
  <2>3. k = New(r, id, stage)
    BY <1>1, <1>3, <2>1 DEF Inv, TypeOk
  <2> QED BY <2>1, <2>2, <2>3
<1>5. k \in CallRecord
  BY <1>2, <1>3
<1>6. Unborn(k) => Unborn(call[c]) /\ k.id = c /\ competitions'[c] = None
  <2>1. Unborn(call[c])
    BY <1>1 DEF Unborn
  <2>2. competitions[c] = None
    BY <2>1 DEF StagesInv, StagesParts, UnbornInv
  <2>3. Unborn(k) => k.request.op = "create"
    BY <1>4 DEF Unborn
  <2> QED BY <1>1, <1>4, <2>1, <2>2, <2>3
<1>7. Judged(k)'
  BY <1>4 DEF Judged
<1>8. JudgedInv' /\ UnbornInv'
  BY <1>1, <1>4, <1>5, <1>6, <1>7, AllStay, OneCallJudged DEF StagesInv, StagesParts
<1> QED BY <1>1, <1>8, SamePlaced DEF StagesInv, StagesParts

\* A call goes on, having read old and decided on row, a stage if it is one that
\* writes stages.
LEMMA PlanJudged ==
  ASSUME StagesInv, NEW c \in Clients, NEW old, NEW row, NEW pc, Plan(c, old, row, pc),
         call' \in [Clients -> CallRecord],
         UNCHANGED <<competitions, stages, moved>>, call[c].request.op # "create",
         pc \in {"over", "readStage", "put", "write"},
         pc = "readStage" => old \in Competition /\ Dated(call[c].id, old),
         pc = "write" /\ call[c].request.op \in {"createStage", "updateStage"} =>
           row.of = call[c].id /\ Placed(row)
  PROVE  StagesParts'
<1>1. PICK k : k = [call[c] EXCEPT !.old = old, !.row = row, !.pc = pc]
  OBVIOUS
<1>2. call[c] \in CallRecord /\ Inv
  BY DEF StagesInv, Inv, TypeOk
<1>3. /\ k.pc = pc /\ k.id = call[c].id /\ k.request = call[c].request
      /\ k.old = old /\ k.row = row
  BY <1>1, <1>2 DEF CallRecord
<1>4. call' = [call EXCEPT ![c] = k]
  BY <1>1 DEF Plan
<1>5. k \in CallRecord
  BY <1>2, <1>4 DEF Inv, TypeOk
<1>6. ~Unborn(k)
  BY <1>3 DEF Unborn
<1>7. /\ k.pc = "readStage" => k.old \in Competition /\ Dated(k.id, k.old)
      /\ k.pc = "write" /\ k.request.op \in {"createStage", "updateStage"} =>
           k.row.of = k.id /\ Placed(k.row)
  BY <1>3
<1>8. Judged(k)'
  BY <1>7 DEF Judged, Dated, Placed, DaysWithin, DayOf
<1>9. JudgedInv' /\ UnbornInv'
  BY <1>2, <1>3, <1>4, <1>5, <1>6, <1>8, AllStay, OneCallJudged DEF StagesInv, StagesParts
<1> QED BY <1>9, SamePlaced DEF StagesInv, StagesParts

\* A competition is read: a stage to be created lies within it.
LEMMA ReadStages ==
  ASSUME Offset \in 0..(DayLength - 1), StagesInv, NEW c \in Clients, GetCompetitionByID(c)
  PROVE  StagesParts'
<1> DEFINE k == call[c]
           r == call[c].request
           old == competitions[call[c].id]
<1>1. /\ Inv /\ k \in CallRecord /\ k.pc = "read" /\ r \in Requests /\ r \in Request
      /\ r.op # "create" /\ k.id \in Names /\ UNCHANGED <<competitions, stages, moved>>
  BY RequestsAssumption DEF StagesInv, Inv, TypeOk, CallOk, GetCompetitionByID, CallRecord
<1>2. /\ old # None => old \in Competition
      /\ call' \in [Clients -> CallRecord]
  BY <1>1, ReadInv DEF Inv, TypeOk
<1>3. \/ Goto(c, "over")
      \/ /\ old # None /\ r.op = "update"
         /\ \E row, pc : pc \in {"over", "put", "write"} /\ Plan(c, old, row, pc)
      \/ /\ old # None /\ r.op = "createStage"
         /\ LET row == [of |-> k.id, start |-> r.start, end |-> r.end] IN
            \E pc \in {"over", "write"} :
              (pc = "write" => Within(row, old)) /\ Plan(c, old, row, pc)
      \/ old # None /\ r.op = "updateStage" /\ Plan(c, old, None, "readStage")
      \/ old # None /\ r.op \in {"delete", "deleteStage"} /\ Plan(c, old, None, "write")
  <2>1. r.op \in {"update", "createStage", "updateStage", "delete", "deleteStage"}
    BY <1>1 DEF Request, Ops
  <2>2. CASE r.op = "update"
    BY <2>2 DEF GetCompetitionByID
  <2>3. CASE r.op = "createStage"
    BY <2>3 DEF GetCompetitionByID
  <2>4. CASE r.op \in {"updateStage", "delete", "deleteStage"}
    BY <2>4 DEF GetCompetitionByID
  <2> QED BY <2>1, <2>2, <2>3, <2>4
<1>4. CASE Goto(c, "over")
  <2>1. JudgedInv' /\ UnbornInv'
    BY <1>1, <1>4, AllStay, GotoJudged DEF StagesInv, StagesParts
  <2> QED BY <1>1, <2>1, SamePlaced DEF StagesInv, StagesParts
<1>5. ASSUME NEW row, NEW pc \in {"over", "put", "write"}, r.op = "update", Plan(c, old, row, pc)
      PROVE  StagesParts'
  BY <1>1, <1>2, <1>5, PlanJudged
<1>6. ASSUME old # None, r.op = "createStage", NEW row, NEW pc \in {"over", "write"},
             row = [of |-> k.id, start |-> r.start, end |-> r.end],
             pc = "write" => Within(row, old), Plan(c, old, row, pc)
      PROVE  StagesParts'
  <2>1. row \in Stage /\ row.of = k.id
    BY <1>1, <1>6, StageDates
  <2>2. old.start \in Int /\ old.end \in Int
    BY <1>2, <1>6 DEF Competition
  <2>3. pc = "write" => DaysWithin(row, old)
    BY <1>6, <2>1, <2>2, WithinDays
  <2>4. pc = "write" => Placed(row)
    BY <2>1, <2>3 DEF Placed
  <2> QED BY <1>1, <1>2, <1>6, <2>1, <2>4, PlanJudged
<1>7. CASE old # None /\ r.op = "updateStage" /\ Plan(c, old, None, "readStage")
  <2>1. Dated(k.id, old)
    BY DEF Dated
  <2> QED BY <1>1, <1>2, <1>7, <2>1, PlanJudged
<1>8. CASE old # None /\ r.op \in {"delete", "deleteStage"} /\ Plan(c, old, None, "write")
  BY <1>1, <1>2, <1>8, PlanJudged
<1> QED BY <1>3, <1>4, <1>5, <1>6, <1>7, <1>8

\* A stage is read: it will lie within the competition that was read before.
LEMMA ReadStageStages ==
  ASSUME Offset \in 0..(DayLength - 1), StagesInv, NEW c \in Clients, GetStageByID(c)
  PROVE  StagesParts'
<1> DEFINE k == call[c]
           s == stages[call[c].stage]
<1>1. /\ Inv /\ k \in CallRecord /\ k.pc = "readStage" /\ k.request \in Requests
      /\ k.request.op = "updateStage" /\ k.stage \in Names
      /\ UNCHANGED <<competitions, stages, moved>>
      /\ k.old \in Competition /\ Dated(k.id, k.old)
  BY DEF StagesInv, StagesParts, Inv, TypeOk, CallOk, GetStageByID, CallRecord, JudgedInv, Judged
<1>2. s # None => s \in Stage
  BY <1>1 DEF Inv, TypeOk
<1>3. call' \in [Clients -> CallRecord]
  BY <1>1, ReadStageInv DEF Inv, TypeOk
<1>4. \/ Goto(c, "over")
      \/ /\ s # None /\ s.of = k.id
         /\ \E row : \E pc \in {"over", "write"} :
              /\ row = [s EXCEPT !.start = Given(k.request.start, @),
                                 !.end = Given(k.request.end, @)]
              /\ (pc = "write" => Within(row, k.old)) /\ Plan(c, k.old, row, pc)
  BY DEF GetStageByID
<1>5. CASE Goto(c, "over")
  <2>1. JudgedInv' /\ UnbornInv'
    BY <1>1, <1>5, AllStay, GotoJudged DEF StagesInv, StagesParts
  <2> QED BY <1>1, <2>1, SamePlaced DEF StagesInv, StagesParts
<1>6. ASSUME s # None, s.of = k.id, NEW pc \in {"over", "write"}, NEW row,
             row = [s EXCEPT !.start = Given(k.request.start, @),
                             !.end = Given(k.request.end, @)],
             pc = "write" => Within(row, k.old), Plan(c, k.old, row, pc)
      PROVE  StagesParts'
  <2>1. row \in Stage /\ row.of = k.id
    <3>1. row \in Stage
      BY <1>1, <1>2, <1>6, StageDates
    <3>2. row.of = s.of
      BY <1>2, <1>6 DEF Stage
    <3> QED BY <1>6, <3>1, <3>2
  <2>2. k.old.start \in Int /\ k.old.end \in Int
    BY <1>1 DEF Competition
  <2>3. pc = "write" => DaysWithin(row, k.old)
    BY <1>6, <2>1, <2>2, WithinDays
  <2>4. pc = "write" => Placed(row)
    BY <1>1, <2>1, <2>3 DEF Placed, Dated, DaysWithin
  <2> QED BY <1>1, <1>3, <1>6, <2>1, <2>4, PlanJudged
<1> QED BY <1>4, <1>5, <1>6

\* The calls to MinIO change no table.
LEMMA StoreStages ==
  ASSUME StagesInv, NEW c \in Clients, PutObject(c) \/ RemoveObject(c)
  PROVE  StagesParts'
<1>1. /\ Inv /\ UNCHANGED <<competitions, stages, moved>>
      /\ \E pc : /\ Goto(c, pc)
                 /\ pc \in {"over", "undo"} \/ (pc = "write" /\ call[c].pc = "put")
  <2>1. CASE PutObject(c)
    <3>1. \E o \in Outcome :
            Goto(c, IF Errs(o) THEN "over" ELSE IF InOrder(call[c].row) THEN "write" ELSE "undo")
      BY <2>1 DEF PutObject
    <3> QED BY <2>1, <3>1 DEF PutObject, StagesInv
  <2>2. CASE RemoveObject(c)
    BY <2>2 DEF RemoveObject, StagesInv
  <2> QED BY <2>1, <2>2
<1>2. JudgedInv' /\ UnbornInv'
  BY <1>1, AllStay, GotoJudged DEF StagesInv, StagesParts
<1> QED BY <1>1, <1>2, SamePlaced DEF StagesInv, StagesParts

\* A competition is inserted, which no stage and no other call has named.
LEMMA CreateStages ==
  ASSUME StagesInv, NEW c \in Clients, CreateCompetition(c) PROVE StagesParts'
<1>1. /\ Inv /\ call[c].pc = "write" /\ call[c].request.op = "create"
      /\ UNCHANGED <<stages, moved>> /\ c \in Names
  BY DEF CreateCompetition, Writes, StagesInv, Names
<1>2. competitions[c] = None /\ \A d \in Clients \ {c} : call[d].id # c
  BY <1>1 DEF StagesInv, StagesParts, UnbornInv, Unborn
<1>3. \A n \in Names \ {c} : competitions'[n] = competitions[n]
  BY <1>1 DEF CreateCompetition, Inv, TypeOk
<1>4. \A n \in Names \ {c} : Stays(n)
  BY <1>1, <1>3 DEF Stays
<1>5. \A d \in Clients : call[d].id \in Names
  BY <1>1 DEF Inv, TypeOk, CallRecord
<1>6. PICK pc \in {"over", "undo"} : Goto(c, pc)
  BY DEF CreateCompetition, Failed
<1>7. JudgedInv' /\ UnbornInv'
  <2>1. \A d \in Clients \ {c} : Stays(call[d].id)
    BY <1>2, <1>4, <1>5
  <2>2. \A d \in Clients \ {c} : competitions[d] = None /\ call[c].id # d => competitions'[d] = None
    BY <1>3 DEF Names
  <2>3. moved \subseteq moved'
    BY <1>1
  <2> QED BY <1>1, <1>6, <2>1, <2>2, <2>3, GotoJudged DEF StagesInv, StagesParts
<1>8. PlacedInv'
  <2> SUFFICES ASSUME NEW n \in Names, stages'[n] # None
               PROVE  competitions'[stages'[n].of] # None /\ Placed(stages[n])'
    BY DEF PlacedInv
  <2>1. PICK s : s = stages[n]
    OBVIOUS
  <2>2. s \in Stage /\ competitions[s.of] # None /\ Placed(s)
    BY <1>1, <2>1 DEF StagesInv, StagesParts, PlacedInv, Inv, TypeOk
  <2>3. s.of \in Names \ {c}
    BY <1>2, <2>2 DEF Stage
  <2>4. Placed(s)'
    BY <1>1, <1>4, <2>2, <2>3, StaysPlaced
  <2>5. stages'[n] = s
    BY <1>1, <2>1
  <2> QED BY <1>3, <2>2, <2>3, <2>4, <2>5 DEF Placed
<1> QED BY <1>7, <1>8 DEF StagesParts

\* A competition is overwritten: its stages were placed, unless that moves it.
LEMMA UpdateStages ==
  ASSUME StagesInv, NEW c \in Clients, UpdateCompetition(c) PROVE StagesParts'
<1> DEFINE k == call[c]
           now == competitions[call[c].id]
<1>1. Inv /\ stages' = stages /\ k.id \in Names /\ k.row \in Competition
  BY DEF UpdateCompetition, Writes, StagesInv, Inv, TypeOk, CallOk, CallRecord, Sound
<1>2. PICK o \in Outcome :
        LET done == Applied(o) /\ now # None IN
        /\ competitions' = IF done THEN [competitions EXCEPT ![k.id] = k.row] ELSE competitions
        /\ moved' = IF done /\ <<now.start, now.end>> # <<k.row.start, k.row.end>>
                    THEN moved \cup {k.id} ELSE moved
        /\ Goto(c, IF ~done \/ Errs(o) THEN Failed(k)
                   ELSE IF Replaces(k) THEN "clean" ELSE "over")
  BY DEF UpdateCompetition, RowToWrite
<1>3. moved \subseteq moved'
  BY <1>2
<1>4. \A n \in Names : Stays(n) /\ (competitions[n] = None <=> competitions'[n] = None)
  <2>1. k.row # None
    BY <1>1, NamesAssumption
  <2> QED BY <1>1, <1>2, <2>1 DEF Stays, Inv, TypeOk
<1>5. PICK pc \in {"over", "undo", "clean"} : Goto(c, pc)
  BY <1>2 DEF Failed
<1>6. JudgedInv' /\ UnbornInv'
  <2>1. \A d \in Clients : call[d].id \in Names
    BY <1>1 DEF Inv, TypeOk, CallRecord
  <2>2. \A d \in Clients \ {c} : Stays(call[d].id)
    BY <1>4, <2>1
  <2>3. \A d \in Clients \ {c} : competitions[d] = None /\ call[c].id # d => competitions'[d] = None
    BY <1>4 DEF Names
  <2> QED BY <1>1, <1>3, <1>5, <2>2, <2>3, GotoJudged DEF StagesInv, StagesParts
<1>7. PlacedInv'
  <2> SUFFICES ASSUME NEW n \in Names, stages'[n] # None
               PROVE  competitions'[stages'[n].of] # None /\ Placed(stages[n])'
    BY DEF PlacedInv
  <2>1. PICK s : s = stages[n]
    OBVIOUS
  <2>2. s \in Stage /\ competitions[s.of] # None /\ Placed(s)
    BY <1>1, <2>1 DEF StagesInv, StagesParts, PlacedInv, Inv, TypeOk
  <2>3. s.of \in Names
    BY <2>2 DEF Stage
  <2>4. Placed(s)'
    BY <1>3, <1>4, <2>2, <2>3, StaysPlaced
  <2>5. stages'[n] = s
    BY <1>1, <2>1
  <2> QED BY <1>4, <2>2, <2>3, <2>4, <2>5 DEF Placed
<1> QED BY <1>6, <1>7 DEF StagesParts

\* A competition is deleted, and its stages with it.
LEMMA DeleteStages ==
  ASSUME StagesInv, NEW c \in Clients, DeleteCompetition(c) PROVE StagesParts'
<1> DEFINE k == call[c]
           now == competitions[call[c].id]
           gone == [s \in Names |-> IF stages[s] # None /\ stages[s].of = call[c].id
                                    THEN None ELSE stages[s]]
<1>1. Inv /\ moved' = moved /\ k.id \in Names
  BY DEF DeleteCompetition, StagesInv, Inv, TypeOk, CallRecord
<1>2. PICK o \in Outcome :
        LET done == Applied(o) /\ now # None IN
        /\ competitions' = IF done THEN [competitions EXCEPT ![k.id] = None] ELSE competitions
        /\ stages' = IF done THEN gone ELSE stages
        /\ Goto(c, IF ~done \/ Errs(o) \/ k.old.cover = None THEN "over" ELSE "clean")
  BY DEF DeleteCompetition
<1>3. \A n \in Names : competitions'[n] \in {None, competitions[n]}
  BY <1>1, <1>2 DEF Inv, TypeOk
<1>4. \A n \in Names : Stays(n)
  BY <1>3 DEF Stays
<1>5. PICK pc \in {"over", "clean"} : Goto(c, pc)
  BY <1>2
<1>6. JudgedInv' /\ UnbornInv'
  <2>1. \A d \in Clients : call[d].id \in Names
    BY <1>1 DEF Inv, TypeOk, CallRecord
  <2>2. \A d \in Clients \ {c} : Stays(call[d].id)
    BY <1>4, <2>1
  <2>3. \A d \in Clients \ {c} : competitions[d] = None /\ call[c].id # d => competitions'[d] = None
    BY <1>3 DEF Names
  <2>4. moved \subseteq moved'
    BY <1>1
  <2> QED BY <1>1, <1>5, <2>2, <2>3, <2>4, GotoJudged DEF StagesInv, StagesParts
<1>7. PlacedInv'
  <2> SUFFICES ASSUME NEW n \in Names, stages'[n] # None
               PROVE  competitions'[stages'[n].of] # None /\ Placed(stages[n])'
    BY DEF PlacedInv
  <2>1. PICK s : s = stages[n]
    OBVIOUS
  <2>2. stages'[n] = s /\ (competitions' # competitions => s.of # k.id)
    BY <1>2, <2>1
  <2>3. s # None
    BY <2>2
  <2>4. s \in Stage /\ competitions[s.of] # None /\ Placed(s)
    BY <1>1, <2>1, <2>3 DEF StagesInv, StagesParts, PlacedInv, Inv, TypeOk
  <2>5. s.of \in Names
    BY <2>4 DEF Stage
  <2>6. competitions'[s.of] = competitions[s.of]
    BY <1>1, <1>2, <2>2, <2>5 DEF Inv, TypeOk
  <2>7. moved \subseteq moved'
    BY <1>1
  <2>8. Placed(s)'
    BY <1>4, <2>4, <2>5, <2>7, StaysPlaced
  <2> QED BY <2>2, <2>4, <2>6, <2>8 DEF Placed
<1> QED BY <1>6, <1>7 DEF StagesParts

\* A stage is inserted, updated or deleted.
LEMMA StageStages ==
  ASSUME StagesInv, NEW c \in Clients, CreateStage(c) \/ UpdateStage(c) \/ DeleteStage(c)
  PROVE  StagesParts'
<1> DEFINE k == call[c]
<1>1. /\ Inv /\ UNCHANGED <<competitions, moved>> /\ Goto(c, "over")
      /\ k.pc = "write" /\ k \in CallRecord /\ c \in Names
      /\ k.request.op \in {"createStage", "updateStage"} => k.row.of = k.id /\ Placed(k.row)
  BY DEF CreateStage, UpdateStage, DeleteStage, Writes, StagesInv, StagesParts, Inv, TypeOk,
     JudgedInv, Judged, Names
<1>2. k.stage \in Names
  BY <1>1 DEF CallRecord
<1>3. JudgedInv' /\ UnbornInv'
  BY <1>1, AllStay, GotoJudged DEF StagesInv, StagesParts
<1>4. \/ stages' = stages
      \/ \E n \in Names : \E row :
           /\ stages' = [stages EXCEPT ![n] = row]
           /\ row # None => competitions[row.of] # None /\ Placed(row)
  <2>1. CASE CreateStage(c)
    BY <1>1, <2>1 DEF CreateStage, Writes
  <2>2. CASE UpdateStage(c)
    <3>1. Present(k) => competitions[k.id] # None
      BY <1>2 DEF Present, StagesInv, StagesParts, PlacedInv
    <3> QED BY <1>1, <1>2, <2>2, <3>1 DEF UpdateStage, Writes
  <2>3. CASE DeleteStage(c)
    BY <1>2, <2>3 DEF DeleteStage
  <2> QED BY <2>1, <2>2, <2>3
<1>5. \A n \in Names : stages'[n] # None =>
        competitions[stages'[n].of] # None /\ Placed(stages'[n])
  BY <1>1, <1>4 DEF StagesInv, StagesParts, PlacedInv, Inv, TypeOk
<1>6. PlacedInv'
  <2> SUFFICES ASSUME NEW n \in Names, stages'[n] # None
               PROVE  competitions'[stages'[n].of] # None /\ Placed(stages[n])'
    BY DEF PlacedInv
  <2>1. PICK s : s = stages'[n]
    OBVIOUS
  <2>2. competitions[s.of] # None /\ Placed(s)
    BY <1>5, <2>1
  <2> QED BY <1>1, <2>1, <2>2 DEF Placed, DaysWithin, DayOf
<1> QED BY <1>3, <1>6 DEF StagesParts

\* The first stage lies within the first competition.
LEMMA InitStages == Init => StagesInv
<1> SUFFICES ASSUME Init PROVE StagesInv
  OBVIOUS
<1>1. Inv
  BY InitInv
<1>2. PlacedInv
  <2>1. First # None
    BY FirstAssumption, NamesAssumption
  <2> QED BY <2>1, FirstAssumption DEF Init, PlacedInv, Placed, Names
<1>3. JudgedInv
  BY DEF Init, JudgedInv, Judged
<1>4. UnbornInv
  BY NamesAssumption DEF Init, UnbornInv, Names
<1> QED BY <1>1, <1>2, <1>3, <1>4 DEF StagesInv, StagesParts

\* StagesInv is inductive where the days of the database do not begin after UTC's.
LEMMA NextStages ==
  ASSUME Offset \in 0..(DayLength - 1)
  PROVE  StagesInv /\ [Next]_vars => StagesInv'
<1> SUFFICES ASSUME StagesInv, [Next]_vars PROVE StagesInv'
  OBVIOUS
<1>1. Inv'
  BY NextInv DEF StagesInv
<1>2. ASSUME NEW c \in Clients, ClientStep(c) PROVE StagesParts'
  BY <1>2, BeginStages, ReadStages, ReadStageStages, StoreStages, CreateStages, UpdateStages,
     DeleteStages, StageStages DEF ClientStep
<1>3. CASE UNCHANGED vars
  <2>1. PlacedInv'
    BY <1>3, SamePlaced DEF vars, StagesInv, StagesParts
  <2>2. JudgedInv'
    BY <1>3 DEF vars, StagesInv, StagesParts, JudgedInv, Judged, Placed, Dated, DaysWithin, DayOf
  <2>3. UnbornInv'
    BY <1>3 DEF vars, StagesInv, StagesParts, UnbornInv, Unborn
  <2> QED BY <1>1, <2>1, <2>2, <2>3 DEF StagesInv, StagesParts
<1> QED BY <1>1, <1>2, <1>3 DEF Next, StagesInv

\* However calls overlap and fail, a stage belongs to a competition that is there and
\* lies within its days unless that was moved, where the clock is that of UTC or
\* less than a day east of it.
THEOREM StagesStayWithin ==
  ASSUME Offset \in 0..(DayLength - 1)
  PROVE  Spec => []StagesWithin
<1>1. StagesInv => StagesWithin
  BY DEF StagesInv, StagesParts, PlacedInv, Placed, StagesWithin, StageRows
<1>2. StagesInv /\ [Next]_vars => StagesInv'
  BY NextStages
<1> QED BY <1>1, <1>2, InitStages, PTL DEF Spec
=============================================================================

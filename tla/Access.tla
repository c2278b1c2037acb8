------------------------------- MODULE Access -------------------------------
(***************************************************************************)
(* The grants of access to the originals of a competition: CreateGrant,    *)
(* UpdateGrant and DeleteGrant of the access service, over a clock and     *)
(* organizers that change meanwhile.                                       *)
(*                                                                         *)
(* Every statement is a step of its own.  The role of an actor is the one  *)
(* RequireAuth read when the request came in.  revoked_at is not modelled: *)
(* no statement of the repository sets it.                                 *)
(***************************************************************************)
EXTENDS Integers, Outcomes

CONSTANTS
  Clients,            \* one call on grants each
  Users,
  Admins, Organizers, \* those with these roles
  Competitions,
  None,               \* nil
  FirstOrganizer,     \* organizer_id of each competition at first
  FirstGrants,        \* the grants that are there from the start
  Successors,         \* the users a competition may be handed over to
  Requests,           \* what the clients may ask for: see Asked
  Outcome,            \* what may become of a statement
  GrantIds,           \* the ids of the grants that may ever be created
  MaxTime             \* bound on the clock

Times == 0..MaxTime
\* None stands for a field of the request that is absent.
Asked == [op : {"create", "update", "revoke"}, actor : Users, comp : Competitions,
          grant : GrantIds \cup {None}, user : Users \cup {None},
          original : BOOLEAN \cup {None}, expires : Times \cup {None},
          clear : BOOLEAN]
Grant == [id : GrantIds, comp : Competitions, user : Users, original : BOOLEAN,
          expires : Times \cup {None}]

ASSUME BoundsAssumption == MaxTime \in Nat
ASSUME RolesAssumption ==
  /\ Admins \subseteq Users /\ Organizers \subseteq Users /\ Successors \subseteq Users
  /\ None \notin Users /\ None \notin Times
  /\ FirstOrganizer \in [Competitions -> Users]
ASSUME GrantRequestsAssumption ==
  /\ Outcome \subseteq AllOutcomes
  /\ Requests \subseteq Asked
  /\ \A q \in Requests :
       q.op = "create" => /\ q.user \in Users /\ q.original \in BOOLEAN
                          /\ q.expires \in Times \cup {None}
ASSUME GrantsAssumption ==
  /\ FirstGrants \subseteq Grant
  /\ \A g, h \in FirstGrants : g.id = h.id \/ (g.comp = h.comp /\ g.user = h.user) => g = h

VARIABLES
  organizer,     \* organizer_id of each competition
  grants,        \* competition_access_grants
  given,         \* the ids given so far: an id is never given twice
  now,           \* the time
  call,          \* the calls of the clients
  managing,      \* (observation) the clients who managed their competition at
                 \* some moment of their call
  revoked,       \* (observation) the ids DeleteGrant answered to have deleted
  terms          \* (observation) what was last asked for each grant, and whether
                 \* an update wrote over terms it had not read

access == <<organizer, grants, given, now>>
observed == <<managing, revoked, terms>>
accessVars == <<access, call, observed>>

GrantOf(rows, k, u) == {g \in rows : g.comp = k /\ g.user = u}
Found(k, id) == {g \in grants : g.comp = k /\ g.id = id}
Terms(g) == [original |-> g.original, expires |-> g.expires]

\* canManageCompetitionAccess, and the first two answers of buildEffectiveAccess,
\* of a competition with the organizer o.
Manages(u, o) == u \in Admins \/ (u \in Organizers /\ o = u)

-----------------------------------------------------------------------------
Goto(c, pc) == call' = [call EXCEPT ![c].pc = pc]

BeginAccess(c) ==
  /\ call[c].pc = "start"
  /\ \E q \in Requests :
       call' = [call EXCEPT ![c] = [pc |-> "check", asked |-> q, row |-> None]]
  /\ UNCHANGED <<access, revoked, terms>>

FirstStep(op) == CASE op = "create" -> "insert"
                   [] op = "update" -> "read"
                   [] op = "revoke" -> "delete"

CheckManager(c) ==
  LET q == call[c].asked IN
  /\ call[c].pc = "check"
  /\ \E o \in Outcome :
       Goto(c, IF ~Errs(o) /\ Manages(q.actor, organizer[q.comp]) THEN FirstStep(q.op) ELSE "error")
  /\ UNCHANGED <<access, revoked, terms>>

\* The key uq_competition_access_grants admits one grant per competition and user.
CreateGrant(c) ==
  LET q == call[c].asked IN
  /\ call[c].pc = "insert"
  /\ \E o \in Outcome, id \in GrantIds \ given :
       IF Applied(o) /\ GrantOf(grants, q.comp, q.user) = {}
       THEN /\ grants' = grants \cup {[id |-> id, comp |-> q.comp, user |-> q.user,
                                      original |-> q.original, expires |-> q.expires]}
            /\ given' = given \cup {id}
            /\ terms' = [terms EXCEPT ![id] = [last |-> Terms(q), mixed |-> FALSE]]
            /\ Goto(c, IF Errs(o) THEN "error" ELSE "ok")
       ELSE Goto(c, "error") /\ UNCHANGED <<grants, given, terms>>
  /\ UNCHANGED <<organizer, now, revoked>>

ReadGrant(c) ==
  LET q == call[c].asked IN
  /\ call[c].pc = "read"
  /\ \E o \in Outcome :
       \/ (Errs(o) \/ Found(q.comp, q.grant) = {}) /\ Goto(c, "error")
       \/ /\ ~Errs(o)
          /\ \E g \in Found(q.comp, q.grant) :
               call' = [call EXCEPT ![c] = [@ EXCEPT !.pc = "write", !.row = g]]
  /\ UNCHANGED <<access, revoked, terms>>

\* The terms t with the fields set that a request gives; clearing the expiry wins.
Changed(t, q) ==
  [original |-> IF q.original = None THEN t.original ELSE q.original,
   expires |-> CASE q.clear -> None
                 [] ~q.clear /\ q.expires # None -> q.expires
                 [] OTHER -> t.expires]

\* Mutation: a grant that is gone is inserted again.
UpsertGrant(c) ==
  LET q == call[c].asked
      t == Changed(Terms(call[c].row), q)
      new == [call[c].row EXCEPT !.original = t.original, !.expires = t.expires] IN
  /\ call[c].pc = "write"
  /\ grants' = {g \in grants : g.id # new.id} \cup {new}
  /\ Goto(c, "ok")
  /\ UNCHANGED <<organizer, given, now, revoked, terms>>

\* Mutation: a field that is absent is written as its zero value.
UpdateVerbatim(c) ==
  LET q == call[c].asked
      old == Found(q.comp, q.grant)
      new == {[g EXCEPT !.original = (q.original = TRUE), !.expires = q.expires] : g \in old} IN
  /\ call[c].pc = "write" /\ old # {}
  /\ grants' = (grants \ old) \cup new
  /\ terms' = [terms EXCEPT ![q.grant].last = Changed(@, q)]
  /\ Goto(c, "ok")
  /\ UNCHANGED <<organizer, given, now, revoked>>

\* Both columns are written, from what was read, whichever the request gave.
UpdateGrant(c) ==
  LET q == call[c].asked
      t == Changed(Terms(call[c].row), q)
      old == Found(q.comp, q.grant)
      new == {[g EXCEPT !.original = t.original, !.expires = t.expires] : g \in old} IN
  /\ call[c].pc = "write"
  /\ \E o \in Outcome :
       IF Applied(o) /\ old # {}
       THEN /\ grants' = (grants \ old) \cup new
            /\ terms' = [terms EXCEPT ![q.grant] =
                 [last |-> Changed(@.last, q), mixed |-> @.mixed \/ call[c].row \notin old]]
            /\ Goto(c, IF Errs(o) THEN "error" ELSE "ok")
       ELSE Goto(c, "error") /\ UNCHANGED <<grants, terms>>
  /\ UNCHANGED <<organizer, given, now, revoked>>

\* Mutation: a grant is found by its id alone.
DeleteGrantById(c) ==
  LET q == call[c].asked IN
  /\ call[c].pc = "delete"
  /\ grants' = {g \in grants : g.id # q.grant}
  /\ Goto(c, "ok")
  /\ UNCHANGED <<organizer, given, now, terms, revoked>>

DeleteGrant(c) ==
  LET q == call[c].asked
      old == Found(q.comp, q.grant) IN
  /\ call[c].pc = "delete"
  /\ \E o \in Outcome :
       LET done == ~Errs(o) /\ old # {} IN
       /\ grants' = IF Applied(o) THEN grants \ old ELSE grants
       /\ revoked' = IF done THEN revoked \cup {q.grant} ELSE revoked
       /\ Goto(c, IF done THEN "ok" ELSE "error")
  /\ UNCHANGED <<organizer, given, now, terms>>

GrantStep(c) ==
  \/ CheckManager(c) \/ CreateGrant(c)
  \/ ReadGrant(c) \/ UpdateGrant(c) \/ DeleteGrant(c)

\* An admin's UpdateCompetition names another organizer (see Competitions).
HandOver(k, u) ==
  /\ organizer[k] # u
  /\ organizer' = [organizer EXCEPT ![k] = u]
  /\ UNCHANGED <<grants, given, now, call, revoked, terms>>

Tick ==
  /\ now < MaxTime
  /\ now' = now + 1
  /\ UNCHANGED <<organizer, grants, given, call, revoked, terms>>

-----------------------------------------------------------------------------
Over == {"start", "ok", "error"}

\* Which clients manage their competition now, or did since their call began.
ObserveManagers ==
  managing' = {c \in Clients :
    /\ call'[c].pc \notin Over
    /\ \/ c \in managing
       \/ Manages(call'[c].asked.actor, organizer'[call'[c].asked.comp])}

FirstTerms(id) ==
  IF id \in given THEN Terms(CHOOSE g \in FirstGrants : g.id = id)
  ELSE [original |-> FALSE, expires |-> None]

AccessInit ==
  /\ organizer = FirstOrganizer
  /\ grants = FirstGrants
  /\ given = {g.id : g \in FirstGrants}
  /\ now = 0
  /\ call = [c \in Clients |-> [pc |-> "start", asked |-> None, row |-> None]]
  /\ managing = {} /\ revoked = {}
  /\ terms = [id \in GrantIds |-> [last |-> FirstTerms(id), mixed |-> FALSE]]

AccessStep ==
  /\ \/ \E c \in Clients : BeginAccess(c) \/ GrantStep(c)
     \/ \E k \in Competitions, u \in Successors : HandOver(k, u)
     \/ Tick
  /\ ObserveManagers
=============================================================================

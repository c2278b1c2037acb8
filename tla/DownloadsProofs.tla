-------------------------- MODULE DownloadsProofs --------------------------
(***************************************************************************)
(* Proofs about Access and Downloads, for any sets of clients, users,      *)
(* competitions, photos, names, requests and outcomes, and without the     *)
(* bounds on calls and deletions, which no proof uses.                     *)
(***************************************************************************)
EXTENDS DownloadsProperties, FiniteSetTheorems, SequenceTheorems, TLAPS

-----------------------------------------------------------------------------
(* The grants.                                                             *)

CallPcs == {"start", "check", "insert", "read", "write", "delete", "ok", "error"}

\* A call that goes on keeps what it asked.
LEMMA GotoType ==
  ASSUME GrantsTypeOk, NEW c \in Clients, NEW pc \in CallPcs, Goto(c, pc)
  PROVE  /\ call' \in [Clients -> CallRecord]
         /\ call'[c].pc = pc /\ call'[c].asked = call[c].asked /\ call'[c].row = call[c].row
         /\ \A e \in Clients \ {c} : call'[e] = call[e]
  BY DEF GrantsTypeOk, Goto, CallRecord, CallPcs

\* The fields of a request.
LEMMA AskedType ==
  ASSUME NEW q \in Requests
  PROVE  /\ q.op \in {"create", "update", "revoke"} /\ q.actor \in Users
         /\ q.comp \in Competitions /\ q.clear \in BOOLEAN
         /\ q.original \in BOOLEAN \cup {None} /\ q.expires \in Times \cup {None}
         /\ q.op = "create" => q.user \in Users /\ q.original \in BOOLEAN
  BY GrantRequestsAssumption DEF Asked

\* The fields of a grant, and a grant made of them.
LEMMA GrantType ==
  /\ \A g \in Grant : /\ g.id \in GrantIds /\ g.comp \in Competitions /\ g.user \in Users
                      /\ g.original \in BOOLEAN /\ g.expires \in Times \cup {None}
  /\ \A id \in GrantIds, k \in Competitions, u \in Users, x \in BOOLEAN, t \in Times \cup {None} :
       [id |-> id, comp |-> k, user |-> u, original |-> x, expires |-> t] \in Grant
  BY DEF Grant

\* The terms an update writes.
LEMMA ChangedType ==
  ASSUME NEW t \in TermsRecord, NEW q \in Requests
  PROVE  Changed(t, q) \in TermsRecord
<1>1. t.original \in BOOLEAN /\ t.expires \in Times \cup {None}
  BY DEF TermsRecord
<1>2. (IF q.original = None THEN t.original ELSE q.original) \in BOOLEAN
  BY <1>1, AskedType
<1>3. (CASE q.clear -> None
         [] ~q.clear /\ q.expires # None -> q.expires
         [] OTHER -> t.expires) \in Times \cup {None}
  BY <1>1, AskedType
<1> QED BY <1>2, <1>3 DEF Changed, TermsRecord

\* The row an update writes: the old one with other terms.
Rewritten(g, t) == [g EXCEPT !.original = t.original, !.expires = t.expires]

\* It keeps the id, the competition and the user.
LEMMA RewrittenType ==
  ASSUME NEW g \in Grant, NEW t \in TermsRecord
  PROVE  /\ Rewritten(g, t) \in Grant
         /\ Rewritten(g, t).id = g.id /\ Rewritten(g, t).comp = g.comp
         /\ Rewritten(g, t).user = g.user
         /\ Terms(Rewritten(g, t)) = t
  BY DEF Rewritten, Grant, TermsRecord, Terms

\* What a statement may do to the grants: nothing, add one with a new id and a free
\* key, rewrite one, or remove one.
Adds(g) ==
  /\ g \in Grant /\ g.id \notin given /\ GrantOf(grants, g.comp, g.user) = {}
  /\ grants' = grants \cup {g} /\ given' = given \cup {g.id} /\ revoked' = revoked
Rewrites(g, t) ==
  /\ g \in grants /\ t \in TermsRecord
  /\ grants' = (grants \ {g}) \cup {Rewritten(g, t)} /\ UNCHANGED <<given, revoked>>
Removes(g) ==
  /\ g \in grants /\ grants' = grants \ {g} /\ given' = given
  /\ revoked' \in {revoked, revoked \cup {g.id}}

\* An id names at most one grant.
LEMMA FoundOne ==
  ASSUME GrantsTypeOk, GrantsInv, NEW k, NEW id, NEW g \in Found(k, id)
  PROVE  Found(k, id) = {g} /\ g \in grants /\ g.id = id /\ g.comp = k
  BY DEF Found, GrantsInv

\* The statements on the grants, as changes of one of them and of its terms.
LEMMA CreateChanges ==
  ASSUME GrantsTypeOk, NEW c \in Clients, CreateGrant(c)
  PROVE  /\ Goto(c, "ok") \/ Goto(c, "error")
         /\ \/ UNCHANGED <<grants, given, revoked, terms>>
            \/ \E g \in Grant : /\ Adds(g) /\ g.comp = call[c].asked.comp
                                /\ terms' = [terms EXCEPT ![g.id] = [last |-> Terms(g), mixed |-> FALSE]]
<1> DEFINE q == call[c].asked
<1>0. q \in Requests /\ q.op = "create" BY DEF CreateGrant, GrantsTypeOk
<1>1. PICK o \in Outcome, id \in GrantIds \ given :
       IF Applied(o) /\ GrantOf(grants, q.comp, q.user) = {}
       THEN /\ grants' = grants \cup {[id |-> id, comp |-> q.comp, user |-> q.user,
                                      original |-> q.original, expires |-> q.expires]}
            /\ given' = given \cup {id}
            /\ terms' = [terms EXCEPT ![id] = [last |-> Terms(q), mixed |-> FALSE]]
            /\ Goto(c, IF Errs(o) THEN "error" ELSE "ok")
       ELSE Goto(c, "error") /\ UNCHANGED <<grants, given, terms>>
  BY DEF CreateGrant
<1>2. revoked' = revoked BY DEF CreateGrant
<1>3. CASE Applied(o) /\ GrantOf(grants, q.comp, q.user) = {}
  <2> DEFINE g == [id |-> id, comp |-> q.comp, user |-> q.user,
                   original |-> q.original, expires |-> q.expires]
  <2>1. g \in Grant BY <1>0, AskedType DEF Grant
  <2>2. Terms(g) = Terms(q) BY DEF Terms
  <2>3. Adds(g) BY <1>1, <1>2, <1>3, <2>1 DEF Adds
  <2>4. terms' = [terms EXCEPT ![g.id] = [last |-> Terms(g), mixed |-> FALSE]]
    BY <1>1, <1>3, <2>2
  <2>5. Goto(c, "ok") \/ Goto(c, "error") BY <1>1, <1>3
  <2> QED BY <2>1, <2>3, <2>4, <2>5
<1>4. CASE ~(Applied(o) /\ GrantOf(grants, q.comp, q.user) = {})
  BY <1>1, <1>2, <1>4
<1> QED BY <1>3, <1>4

\* An update rewrites the grant if it is still there, with the terms of its row.
LEMMA UpdateChanges ==
  ASSUME GrantsTypeOk, GrantsInv, NEW c \in Clients, UpdateGrant(c)
  PROVE  /\ Goto(c, "ok") \/ Goto(c, "error")
         /\ \/ UNCHANGED <<grants, given, revoked, terms>>
            \/ \E g \in grants :
                 LET q == call[c].asked t == Changed(Terms(call[c].row), q) IN
                 /\ Rewrites(g, t) /\ g.id = q.grant /\ g.comp = q.comp
                 /\ terms' = [terms EXCEPT ![q.grant] =
                      [last |-> Changed(@.last, q), mixed |-> @.mixed \/ call[c].row # g]]
<1> DEFINE q == call[c].asked
           t == Changed(Terms(call[c].row), q)
           old == Found(q.comp, q.grant)
<1>0. q \in Requests /\ call[c].row \in Grant BY DEF UpdateGrant, GrantsTypeOk
<1>1. t \in TermsRecord
  <2>1. Terms(call[c].row) \in TermsRecord BY <1>0, GrantType DEF Terms, TermsRecord
  <2> QED BY <1>0, <2>1, ChangedType
<1>2. PICK o \in Outcome :
       IF Applied(o) /\ old # {}
       THEN /\ grants' = (grants \ old) \cup {Rewritten(g, t) : g \in old}
            /\ terms' = [terms EXCEPT ![q.grant] =
                 [last |-> Changed(@.last, q), mixed |-> @.mixed \/ call[c].row \notin old]]
            /\ Goto(c, IF Errs(o) THEN "error" ELSE "ok")
       ELSE Goto(c, "error") /\ UNCHANGED <<grants, terms>>
  BY DEF UpdateGrant, Rewritten
<1>3. given' = given /\ revoked' = revoked BY DEF UpdateGrant
<1>4. CASE Applied(o) /\ old # {}
  <2>1. PICK g : g \in old BY <1>4
  <2>2. old = {g} /\ g \in grants /\ g.id = q.grant /\ g.comp = q.comp BY <2>1, FoundOne
  <2>3. Rewrites(g, t) BY <1>1, <1>2, <1>3, <1>4, <2>2 DEF Rewrites
  <2>4. terms' = [terms EXCEPT ![q.grant] =
          [last |-> Changed(@.last, q), mixed |-> @.mixed \/ call[c].row # g]]
    BY <1>2, <1>4, <2>2
  <2>5. Goto(c, "ok") \/ Goto(c, "error") BY <1>2, <1>4
  <2> QED BY <2>2, <2>3, <2>4, <2>5
<1>5. CASE ~(Applied(o) /\ old # {})
  BY <1>2, <1>3, <1>5
<1> QED BY <1>4, <1>5

\* A deletion removes the grant if it is there, and says so only then.
LEMMA DeleteChanges ==
  ASSUME GrantsTypeOk, GrantsInv, NEW c \in Clients, DeleteGrant(c)
  PROVE  /\ Goto(c, "ok") \/ Goto(c, "error")
         /\ terms' = terms
         /\ \/ UNCHANGED <<grants, given, revoked>>
            \/ \E g \in grants : Removes(g) /\ g.comp = call[c].asked.comp
<1> DEFINE q == call[c].asked
           old == Found(q.comp, q.grant)
<1>1. PICK o \in Outcome :
        /\ grants' = IF Applied(o) THEN grants \ old ELSE grants
        /\ revoked' = IF ~Errs(o) /\ old # {} THEN revoked \cup {q.grant} ELSE revoked
        /\ Goto(c, IF ~Errs(o) /\ old # {} THEN "ok" ELSE "error")
  BY DEF DeleteGrant
<1>2. terms' = terms /\ given' = given BY DEF DeleteGrant
<1>3. Goto(c, "ok") \/ Goto(c, "error") BY <1>1
<1>4. CASE old = {} BY <1>1, <1>2, <1>3, <1>4
<1>5. CASE old # {}
  <2>1. PICK g : g \in old BY <1>5
  <2>2. old = {g} /\ g \in grants /\ g.id = q.grant /\ g.comp = q.comp BY <2>1, FoundOne
  <2>3. CASE Applied(o) BY <1>1, <1>2, <1>3, <2>2, <2>3 DEF Removes
  <2>4. CASE ~Applied(o) BY <1>1, <1>2, <1>3, <2>4 DEF Applied, Errs
  <2> QED BY <2>3, <2>4
<1> QED BY <1>4, <1>5

\* Every change of one grant leaves the grants as GrantsInv and their types say.
LEMMA ChangeKeeps ==
  ASSUME GrantsTypeOk, GrantsInv,
         NEW g \in Grant, Adds(g) \/ Removes(g) \/ \E t \in TermsRecord : Rewrites(g, t)
  PROVE  GrantsInv' /\ grants' \subseteq Grant /\ given' \subseteq GrantIds /\ revoked' \subseteq GrantIds
<1>0. grants \subseteq Grant /\ given \subseteq GrantIds /\ revoked \subseteq GrantIds /\ g.id \in GrantIds
  BY GrantType DEF GrantsTypeOk
<1>1. CASE Adds(g)
  BY <1>0, <1>1 DEF Adds, GrantsInv, GrantOf
<1>2. CASE Removes(g)
  BY <1>0, <1>2 DEF Removes, GrantsInv
<1>3. ASSUME NEW t \in TermsRecord, Rewrites(g, t)
      PROVE GrantsInv' /\ grants' \subseteq Grant /\ given' \subseteq GrantIds /\ revoked' \subseteq GrantIds
  <2>1. /\ Rewritten(g, t) \in Grant /\ Rewritten(g, t).id = g.id
        /\ Rewritten(g, t).comp = g.comp /\ Rewritten(g, t).user = g.user
    BY RewrittenType
  <2> QED BY <1>0, <1>3, <2>1 DEF Rewrites, GrantsInv
<1> QED BY <1>1, <1>2, <1>3

\* The steps of a call on grants, and what they leave alone.
LEMMA CallMoves ==
  ASSUME GrantsTypeOk, GrantsInv, NEW c \in Clients, BeginAccess(c) \/ GrantStep(c)
  PROVE  /\ call' \in [Clients -> CallRecord] /\ UNCHANGED <<organizer, now>>
         /\ \A e \in Clients \ {c} : call'[e] = call[e]
         /\ call'[c].pc # "start" => call'[c].asked \in Requests
         /\ call'[c].pc = "insert" => call'[c].asked.op = "create"
         /\ call'[c].pc = "write" => call'[c].row \in Grant
<1>1. CASE BeginAccess(c)
  <2>1. PICK q \in Requests :
          call' = [call EXCEPT ![c] = [pc |-> "check", asked |-> q, row |-> None]]
    BY <1>1 DEF BeginAccess
  <2> QED BY <1>1, <2>1 DEF BeginAccess, access, GrantsTypeOk, CallRecord
<1>2. CASE CheckManager(c)
  <2>1. call[c].asked \in Requests BY <1>2 DEF CheckManager, GrantsTypeOk
  <2>2. PICK pc \in {FirstStep(call[c].asked.op), "error"} : Goto(c, pc)
    BY <1>2 DEF CheckManager
  <2>3. call[c].asked.op \in {"create", "update", "revoke"} BY <2>1, AskedType
  <2>4. pc \in CallPcs \ {"write", "start"} /\ (pc = "insert" => call[c].asked.op = "create")
    BY <2>2, <2>3 DEF FirstStep, CallPcs
  <2> QED BY <1>2, <2>1, <2>2, <2>4, GotoType DEF CheckManager, access
<1>3. CASE ReadGrant(c)
  <2>1. call[c].asked \in Requests BY <1>3 DEF ReadGrant, GrantsTypeOk
  <2>2. CASE Goto(c, "error")
    BY <1>3, <2>1, <2>2, GotoType DEF ReadGrant, access, CallPcs
  <2>3. CASE \E g \in Found(call[c].asked.comp, call[c].asked.grant) :
               call' = [call EXCEPT ![c] = [@ EXCEPT !.pc = "write", !.row = g]]
    <3>1. PICK g \in grants : call' = [call EXCEPT ![c] = [@ EXCEPT !.pc = "write", !.row = g]]
      BY <2>3 DEF Found
    <3> QED BY <1>3, <2>1, <3>1 DEF ReadGrant, access, GrantsTypeOk, CallRecord
  <2> QED BY <1>3, <2>2, <2>3 DEF ReadGrant
<1>4. CASE CreateGrant(c) \/ UpdateGrant(c) \/ DeleteGrant(c)
  <2>1. Goto(c, "ok") \/ Goto(c, "error")
    BY <1>4, CreateChanges, UpdateChanges, DeleteChanges
  <2>2. call[c].asked \in Requests /\ UNCHANGED <<organizer, now>>
    BY <1>4 DEF CreateGrant, UpdateGrant, DeleteGrant, GrantsTypeOk
  <2> QED BY <2>1, <2>2, GotoType DEF CallPcs
<1> QED BY <1>1, <1>2, <1>3, <1>4 DEF GrantStep

\* What a call on grants does to them: it changes one, or nothing.
LEMMA CallChanges ==
  ASSUME GrantsTypeOk, GrantsInv, NEW c \in Clients, BeginAccess(c) \/ GrantStep(c)
  PROVE  \/ UNCHANGED <<grants, given, revoked>>
         \/ /\ call[c].pc \notin Over \cup {"check"} /\ call'[c].pc # call[c].pc
            /\ \E g \in Grant : /\ g.comp = call[c].asked.comp
                                /\ Adds(g) \/ Removes(g) \/ \E t \in TermsRecord : Rewrites(g, t)
<1>1. CASE BeginAccess(c) \/ CheckManager(c) \/ ReadGrant(c)
  BY <1>1 DEF BeginAccess, CheckManager, ReadGrant, access
<1>2. CASE CreateGrant(c) \/ UpdateGrant(c) \/ DeleteGrant(c)
  <2>0. call'[c].pc \in {"ok", "error"}
    BY <1>2, CreateChanges, UpdateChanges, DeleteChanges, GotoType DEF CallPcs
  <2>1. call[c].pc \notin Over \cup {"check"} /\ call'[c].pc # call[c].pc
    BY <1>2, <2>0 DEF CreateGrant, UpdateGrant, DeleteGrant, Over
  <2>2. grants \subseteq Grant BY DEF GrantsTypeOk
  <2>3. CASE CreateGrant(c) BY <2>1, <2>3, CreateChanges
  <2>4. CASE UpdateGrant(c)
    <3>1. UNCHANGED <<grants, given, revoked>>
          \/ \E g \in grants, t \in TermsRecord : Rewrites(g, t) /\ g.comp = call[c].asked.comp
      BY <2>4, UpdateChanges DEF Rewrites
    <3> QED BY <2>1, <2>2, <3>1
  <2>5. CASE DeleteGrant(c) BY <2>1, <2>2, <2>5, DeleteChanges
  <2> QED BY <1>2, <2>3, <2>4, <2>5
<1> QED BY <1>1, <1>2 DEF GrantStep

\* The terms keep their type.
LEMMA TermsTyped ==
  ASSUME GrantsTypeOk, GrantsInv, NEW c \in Clients, BeginAccess(c) \/ GrantStep(c)
  PROVE  terms' \in [GrantIds -> [last : TermsRecord, mixed : BOOLEAN]]
<1>0. \A g \in Grant : Terms(g) \in TermsRecord BY GrantType DEF Terms, TermsRecord
<1>1. CASE BeginAccess(c) \/ CheckManager(c) \/ ReadGrant(c) \/ DeleteGrant(c)
  BY <1>1, DeleteChanges DEF BeginAccess, CheckManager, ReadGrant, GrantsTypeOk
<1>2. CASE CreateGrant(c)
  <2>1. CASE terms' = terms BY <2>1 DEF GrantsTypeOk
  <2>2. ASSUME NEW g \in Grant,
               terms' = [terms EXCEPT ![g.id] = [last |-> Terms(g), mixed |-> FALSE]]
        PROVE  terms' \in [GrantIds -> [last : TermsRecord, mixed : BOOLEAN]]
    BY <1>0, <2>2 DEF GrantsTypeOk
  <2> QED BY <1>2, <2>1, <2>2, CreateChanges
<1>3. CASE UpdateGrant(c)
  <2> DEFINE q == call[c].asked
  <2>1. q \in Requests BY <1>3 DEF UpdateGrant, GrantsTypeOk
  <2>2. CASE terms' = terms BY <2>2 DEF GrantsTypeOk
  <2>3. ASSUME NEW g \in grants, g.id = q.grant,
               terms' = [terms EXCEPT ![q.grant] =
                 [last |-> Changed(@.last, q), mixed |-> @.mixed \/ call[c].row # g]]
        PROVE  terms' \in [GrantIds -> [last : TermsRecord, mixed : BOOLEAN]]
    <3>1. q.grant \in GrantIds BY <2>3, GrantType DEF GrantsTypeOk
    <3>2. terms[q.grant].last \in TermsRecord BY <3>1 DEF GrantsTypeOk
    <3>3. Changed(terms[q.grant].last, q) \in TermsRecord BY <2>1, <3>2, ChangedType
    <3> QED BY <2>3, <3>1, <3>3 DEF GrantsTypeOk
  <2> QED BY <1>3, <2>2, <2>3, UpdateChanges
<1> QED BY <1>1, <1>2, <1>3 DEF GrantStep

\* The types of the grants and GrantsInv survive every step on the grants.
LEMMA AccessKeeps ==
  ASSUME GrantsTypeOk, GrantsInv, AccessStep
  PROVE  GrantsTypeOk' /\ GrantsInv'
<1>0. managing' \subseteq Clients BY DEF AccessStep, ObserveManagers
<1>1. ASSUME NEW c \in Clients, BeginAccess(c) \/ GrantStep(c)
      PROVE  GrantsTypeOk' /\ GrantsInv'
  <2>1. GrantsInv' /\ grants' \subseteq Grant /\ given' \subseteq GrantIds /\ revoked' \subseteq GrantIds
    <3>1. CASE UNCHANGED <<grants, given, revoked>>
      BY <3>1 DEF GrantsInv, GrantsTypeOk
    <3>2. CASE \E g \in Grant : Adds(g) \/ Removes(g) \/ \E t \in TermsRecord : Rewrites(g, t)
      BY <3>2, ChangeKeeps
    <3> QED BY <1>1, <3>1, <3>2, CallChanges
  <2>2. organizer' = organizer /\ now' = now /\ call' \in [Clients -> CallRecord]
    BY <1>1, CallMoves
  <2>3. terms' \in [GrantIds -> [last : TermsRecord, mixed : BOOLEAN]]
    BY <1>1, TermsTyped
  <2>4. \A e \in Clients :
          /\ call'[e].pc # "start" => call'[e].asked \in Requests
          /\ call'[e].pc = "insert" => call'[e].asked.op = "create"
          /\ call'[e].pc = "write" => call'[e].row \in Grant
    BY <1>1, CallMoves DEF GrantsTypeOk
  <2> QED BY <1>0, <2>1, <2>2, <2>3, <2>4 DEF GrantsTypeOk
<1>2. ASSUME NEW k \in Competitions, NEW u \in Successors, HandOver(k, u)
      PROVE  GrantsTypeOk' /\ GrantsInv'
  BY <1>0, <1>2, RolesAssumption DEF HandOver, GrantsTypeOk, GrantsInv
<1>3. CASE Tick
  BY <1>0, <1>3, BoundsAssumption DEF Tick, GrantsTypeOk, GrantsInv, Times
<1> QED BY <1>1, <1>2, <1>3 DEF AccessStep

-----------------------------------------------------------------------------
(* The types of the calls on photos.                                       *)

\* The ways a call on photos moves on without anything else.
LEMMA PlainMoves ==
  ASSUME get \in [Downloaders -> GetRecord], NEW d \in Downloaders
  PROVE  /\ \A pc \in {"error", "grant"} : GoOn(d, pc) =>
              /\ get' \in [Downloaders -> GetRecord] /\ get'[d].pc = pc
              /\ get'[d].asked = get[d].asked /\ get'[d].items = get[d].items
         /\ \A pc \in {"error", "done"} : End(d, pc) =>
              /\ get' \in [Downloaders -> GetRecord] /\ get'[d].pc = pc
              /\ get'[d].asked = get[d].asked
         /\ \A can \in BOOLEAN : Decided(d, can) =>
              /\ get' \in [Downloaders -> GetRecord] /\ get'[d].pc = "decided"
              /\ get'[d].asked = get[d].asked /\ get'[d].items = get[d].items
<1>1. ASSUME NEW pc \in {"error", "grant"}, GoOn(d, pc)
      PROVE  /\ get' \in [Downloaders -> GetRecord] /\ get'[d].pc = pc
             /\ get'[d].asked = get[d].asked /\ get'[d].items = get[d].items
  BY <1>1 DEF GoOn, GetRecord
<1>2. ASSUME NEW pc \in {"error", "done"}, End(d, pc)
      PROVE  /\ get' \in [Downloaders -> GetRecord] /\ get'[d].pc = pc
             /\ get'[d].asked = get[d].asked
  <2>1. {} \in SUBSET Nat OBVIOUS
  <2>2. get[d] \in GetRecord OBVIOUS
  <2>3. [get[d] EXCEPT !.pc = pc, !.open = {}] \in GetRecord BY <2>1, <2>2 DEF GetRecord
  <2> QED BY <1>2, <2>3 DEF End, GetRecord
<1>3. ASSUME NEW can \in BOOLEAN, Decided(d, can)
      PROVE  /\ get' \in [Downloaders -> GetRecord] /\ get'[d].pc = "decided"
             /\ get'[d].asked = get[d].asked /\ get'[d].items = get[d].items
  <2>1. get[d] \in GetRecord OBVIOUS
  <2>2. [get[d] EXCEPT !.can = can, !.pc = "decided"] \in GetRecord BY <2>1 DEF GetRecord
  <2> QED BY <1>3, <2>2 DEF Decided, GetRecord
<1> QED BY <1>1, <1>2, <1>3

\* What is asked for.
LEMMA WantedType ==
  ASSUME NEW q \in Gets
  PROVE  /\ q.op \in {"one", "list", "download"} /\ q.actor \in Users
         /\ q.photos \in Seq(Photos)
         /\ q.op = "one" => q.photos # <<>>
<1>1. q \in Wanted /\ (q.op = "one" => Len(q.photos) = 1) BY WantedAssumption
<1>2. q.op \in {"one", "list", "download"} /\ q.actor \in Users /\ q.photos \in Seq(Photos)
  BY <1>1 DEF Wanted
<1>3. ASSUME q.op = "one", q.photos = <<>> PROVE FALSE
  <2>1. Len(<<>>) = 1 BY <1>1, <1>3
  <2> QED BY <2>1
<1> QED BY <1>2, <1>3

\* Every step of a call on photos keeps its types.
LEMMA GetMoves ==
  ASSUME TypeOk, NEW d \in Downloaders, BeginGet(d) \/ GetStep(d)
  PROVE  /\ get' \in [Downloaders -> GetRecord]
         /\ GetTypeOk(d)' /\ get'[d].pc # "start"
<1>0. get \in [Downloaders -> GetRecord] /\ get[d] \in GetRecord /\ GetTypeOk(d)
  BY DEF TypeOk
<1>1. CASE BeginGet(d)
  <2>1. PICK q \in Gets :
       get' = [get EXCEPT ![d] = [@ EXCEPT !.asked = q, !.todo = q.photos,
                 !.pc = CASE q.op = "list" -> "list"
                             [] q.op # "list" /\ q.photos = <<>> -> "error"
                             [] OTHER -> "photo"]]
    BY <1>1 DEF BeginGet
  <2>2. q.op \in {"one", "list", "download"} /\ q.photos \in Seq(Photos) BY WantedType
  <2>3. CASE q.op = "list" BY <1>0, <2>1, <2>2, <2>3 DEF GetRecord, GetTypeOk, Judging
  <2>4. CASE q.op # "list" /\ q.photos = <<>>
    BY <1>0, <2>1, <2>2, <2>4 DEF GetRecord, GetTypeOk, Judging
  <2>5. CASE q.op # "list" /\ q.photos # <<>>
    BY <1>0, <2>1, <2>2, <2>5 DEF GetRecord, GetTypeOk, Judging
  <2> QED BY <2>3, <2>4, <2>5
<1>2. CASE ListPhotos(d)
  <2> DEFINE found == {p \in Photos \ deleted : Home[p] = get[d].asked.comp}
  <2>1. CASE GoOn(d, "error")
    BY <1>0, <1>2, <2>1, PlainMoves DEF ListPhotos, GetTypeOk, Judging
  <2>2. CASE get' = [get EXCEPT ![d] = [@ EXCEPT !.items = found,
                               !.pc = IF found = {} THEN "done" ELSE "organizer"]]
    <3>1. found \in SUBSET Photos OBVIOUS
    <3> HIDE DEF found
    <3> QED BY <1>0, <1>2, <2>2, <3>1 DEF ListPhotos, GetRecord, GetTypeOk, Judging
  <2> QED BY <1>2, <2>1, <2>2 DEF ListPhotos
<1>3. CASE GetPhoto(d)
  <2>1. CASE End(d, "error")
    BY <1>0, <1>3, <2>1, PlainMoves DEF GetPhoto, GetTypeOk, Judging
  <2>2. CASE get' = [get EXCEPT ![d] = [@ EXCEPT !.items = {Head(get[d].todo)}, !.todo = Tail(get[d].todo),
                               !.pc = "organizer"]]
    <3>1. get[d].todo \in Seq(Photos) /\ get[d].todo # <<>>
      BY <1>0, <1>3 DEF GetPhoto, GetTypeOk, GetRecord
    <3>2. Head(get[d].todo) \in Photos /\ Tail(get[d].todo) \in Seq(Photos) BY <3>1
    <3> QED BY <1>0, <1>3, <2>2, <3>2 DEF GetPhoto, GetRecord, GetTypeOk, Judging
  <2> QED BY <1>3, <2>1, <2>2 DEF GetPhoto
<1>4. CASE ReadCompetition(d)
  <2>1. get[d].pc = "organizer"
        /\ (End(d, "error") \/ Decided(d, TRUE) \/ GoOn(d, "grant"))
    BY <1>4 DEF ReadCompetition
  <2> QED BY <1>0, <2>1, PlainMoves DEF GetTypeOk, Judging
<1>5. CASE ReadOwnGrant(d)
  <2>1. CASE End(d, "error") \/ Decided(d, FALSE)
    BY <1>0, <1>5, <2>1, PlainMoves DEF ReadOwnGrant, GetTypeOk, Judging
  <2>2. CASE \E g \in GrantOf(grants, CompOf(d), get[d].asked.actor) :
            get' = [get EXCEPT ![d] = [@ EXCEPT !.row = g, !.pc = "clock"]]
    <3>1. PICK g \in Grant : get' = [get EXCEPT ![d] = [@ EXCEPT !.row = g, !.pc = "clock"]]
      BY <2>2 DEF GrantOf, TypeOk, GrantsTypeOk
    <3> QED BY <1>0, <1>5, <3>1 DEF ReadOwnGrant, GetRecord, GetTypeOk, Judging
  <2> QED BY <1>5, <2>1, <2>2 DEF ReadOwnGrant
<1>6. CASE ReadClock(d)
  <2>1. get[d].row \in Grant BY <1>0, <1>6 DEF ReadClock, GetTypeOk
  <2>2. (get[d].row.original /\ IsActive(get[d].row, now)) \in BOOLEAN OBVIOUS
  <2> QED BY <1>0, <1>6, <2>2, PlainMoves DEF ReadClock, GetTypeOk, Judging
<1>7. CASE Answer(d)
  <2> DEFINE all == {[photo |-> p, original |-> MayHave(d, p)] : p \in get[d].items}
  <2>1. all \in SUBSET ShownRecord
    <3>1. get[d].items \subseteq Photos BY <1>0 DEF GetRecord
    <3>2. \A p : MayHave(d, p) \in BOOLEAN BY DEF MayHave
    <3> QED BY <3>1, <3>2 DEF ShownRecord
  <2>2. get' = [get EXCEPT ![d] = [@ EXCEPT !.pc = "done", !.shown = all]] BY <1>7 DEF Answer
  <2> HIDE DEF all
  <2>3. [get[d] EXCEPT !.pc = "done", !.shown = all] \in GetRecord
    BY <1>0, <2>1 DEF GetRecord
  <2>4. get' = [get EXCEPT ![d] = [get[d] EXCEPT !.pc = "done", !.shown = all]]
    BY <2>2
  <2>5. get' \in [Downloaders -> GetRecord] BY <1>0, <2>3, <2>4
  <2>6. get'[d].pc = "done" /\ get'[d].asked = get[d].asked BY <1>0, <2>4 DEF GetRecord
  <2> QED BY <1>0, <1>7, <2>5, <2>6 DEF Answer, GetTypeOk, Judging
<1>8. CASE OpenVersion(d)
  <2>1. CASE End(d, "error")
    BY <1>0, <1>8, <2>1, PlainMoves DEF OpenVersion, GetTypeOk, Judging
  <2>2. ASSUME NEW p \in get[d].items,
          get' = [get EXCEPT ![d] = [@ EXCEPT
              !.files = Append(get[d].files, [photo |-> p, original |-> MayHave(d, p),
                             name |-> IF MayHave(d, p) THEN NameOf[p] ELSE Append(NameOf[p], 0)]),
              !.open = get[d].open \cup {Len(get[d].files) + 1},
              !.pc = IF get[d].todo = <<>> THEN "send" ELSE "photo"]]
        PROVE  /\ get' \in [Downloaders -> GetRecord]
               /\ GetTypeOk(d)' /\ get'[d].pc # "start"
    <3> DEFINE f == [photo |-> p, original |-> MayHave(d, p),
                     name |-> IF MayHave(d, p) THEN NameOf[p] ELSE Append(NameOf[p], 0)]
    <3>1. p \in Photos BY <1>0 DEF GetRecord
    <3>2. NameOf[p] \in Seq(Nat) /\ Append(NameOf[p], 0) \in Seq(Nat)
      BY <3>1, PhotosAssumption
    <3>3. MayHave(d, p) \in BOOLEAN BY DEF MayHave
    <3>4. f \in FileRecord BY <3>1, <3>2, <3>3 DEF FileRecord
    <3>5. get[d].files \in Seq(FileRecord) /\ get[d].open \in SUBSET Nat BY <1>0 DEF GetRecord
    <3>6. Append(get[d].files, f) \in Seq(FileRecord) /\ get[d].open \cup {Len(get[d].files) + 1} \in SUBSET Nat
      BY <3>4, <3>5
    <3>7. get' = [get EXCEPT ![d] = [@ EXCEPT !.files = Append(get[d].files, f),
              !.open = get[d].open \cup {Len(get[d].files) + 1},
              !.pc = IF get[d].todo = <<>> THEN "send" ELSE "photo"]]
      BY <1>0, <2>2 DEF GetRecord
    <3> HIDE DEF f
    <3> QED BY <1>0, <1>8, <3>6, <3>7 DEF OpenVersion, GetRecord, GetTypeOk, Judging
  <2> QED BY <1>8, <2>1, <2>2 DEF OpenVersion
<1>9. CASE SendFile(d)
  BY <1>0, <1>9, PlainMoves DEF SendFile, GetTypeOk, Judging
<1>10. CASE ZipFile(d)
  <2>1. CASE End(d, "done")
    BY <1>0, <1>10, <2>1, PlainMoves DEF ZipFile, GetTypeOk, Judging
  <2>2. CASE get' = [get EXCEPT ![d] = [@ EXCEPT !.sent = get[d].sent + 1, !.open = get[d].open \ {get[d].sent + 1},
                  !.pc = IF get[d].sent + 1 = Len(get[d].files) THEN "done" ELSE "send"]]
    <3> DEFINE r == [get[d] EXCEPT !.sent = get[d].sent + 1, !.open = get[d].open \ {get[d].sent + 1},
                  !.pc = IF get[d].sent + 1 = Len(get[d].files) THEN "done" ELSE "send"]
    <3>1. get[d].sent + 1 \in Nat /\ get[d].open \ {get[d].sent + 1} \in SUBSET Nat
      BY <1>0 DEF GetRecord
    <3>2. r \in GetRecord BY <1>0, <3>1 DEF GetRecord
    <3>3. get' = [get EXCEPT ![d] = r] BY <1>0, <2>2 DEF GetRecord
    <3>4. r.pc \in {"done", "send"} /\ r.asked = get[d].asked BY <1>0 DEF GetRecord
    <3> HIDE DEF r
    <3> QED BY <1>0, <1>10, <3>2, <3>3, <3>4 DEF ZipFile, GetTypeOk, Judging
  <2> QED BY <1>10, <2>1, <2>2 DEF ZipFile
<1> QED BY <1>1, <1>2, <1>3, <1>4, <1>5, <1>6, <1>7, <1>8, <1>9, <1>10 DEF GetStep

\* It leaves the other calls, the grants and the photos alone.
LEMMA GetLeaves ==
  ASSUME get \in [Downloaders -> GetRecord], NEW d \in Downloaders, BeginGet(d) \/ GetStep(d)
  PROVE  /\ UNCHANGED <<accessVars, deleted>>
         /\ \A e \in Downloaders \ {d} : get'[e] = get[e]
  BY DEF BeginGet, GetStep, ListPhotos, GetPhoto, ReadCompetition, ReadOwnGrant, ReadClock,
         Answer, OpenVersion, SendFile, ZipFile, GoOn, End, Decided

\* A call goes on with what it asked.
LEMMA AskedKept ==
  ASSUME TypeOk, NEW d \in Downloaders, GetStep(d)
  PROVE  get'[d].asked = get[d].asked /\ get[d].pc \notin GetOver
<1>0. get \in [Downloaders -> GetRecord] /\ get[d] \in GetRecord BY DEF TypeOk
<1>1. get[d].pc \notin GetOver
  BY DEF GetStep, ListPhotos, GetPhoto, ReadCompetition, ReadOwnGrant, ReadClock,
         Answer, OpenVersion, SendFile, ZipFile, GetOver
<1>2. \A pc : GoOn(d, pc) \/ End(d, pc) => get'[d].asked = get[d].asked
  BY <1>0 DEF GoOn, End, GetRecord
<1>3. \A can : Decided(d, can) => get'[d].asked = get[d].asked
  BY <1>0 DEF Decided, GetRecord
<1>4. CASE ListPhotos(d) \/ GetPhoto(d)
  BY <1>1, <1>0, <1>2, <1>4 DEF ListPhotos, GetPhoto, GetRecord
<1>5. CASE ReadCompetition(d) \/ ReadClock(d)
  BY <1>1, <1>2, <1>3, <1>5 DEF ReadCompetition, ReadClock
<1>6. CASE ReadOwnGrant(d)
  BY <1>1, <1>0, <1>2, <1>3, <1>6 DEF ReadOwnGrant, GetRecord
<1>7. CASE Answer(d)
  BY <1>1, <1>0, <1>7 DEF Answer, GetRecord
<1>8. CASE OpenVersion(d)
  <2>1. ASSUME NEW p \in get[d].items,
          get' = [get EXCEPT ![d] = [@ EXCEPT
              !.files = Append(get[d].files, [photo |-> p, original |-> MayHave(d, p),
                             name |-> IF MayHave(d, p) THEN NameOf[p] ELSE Append(NameOf[p], 0)]),
              !.open = get[d].open \cup {Len(get[d].files) + 1},
              !.pc = IF get[d].todo = <<>> THEN "send" ELSE "photo"]]
        PROVE  get'[d].asked = get[d].asked
    BY <1>0, <2>1 DEF GetRecord
  <2> QED BY <1>1, <1>2, <1>8, <2>1 DEF OpenVersion
<1>9. CASE SendFile(d) \/ ZipFile(d)
  BY <1>1, <1>0, <1>2, <1>9 DEF SendFile, ZipFile, GetRecord
<1> QED BY <1>1, <1>4, <1>5, <1>6, <1>7, <1>8, <1>9 DEF GetStep

-----------------------------------------------------------------------------
(* What is observed of a call.                                             *)

\* What may have become of the call d in a step: nothing, or a step of its own.
Moves(d) == BeginGet(d) \/ GetStep(d)
LEMMA NextMoves ==
  ASSUME TypeOk, [Next]_vars
  PROVE  \A d \in Downloaders :
           \/ get'[d] = get[d]
           \/ Moves(d) /\ UNCHANGED <<accessVars, deleted>> /\ Next
<1>0. get \in [Downloaders -> GetRecord] BY DEF TypeOk
<1>1. CASE UNCHANGED vars BY <1>1 DEF vars
<1>2. CASE AccessStep /\ UNCHANGED <<deleted, get>> BY <1>2
<1>3. CASE \E p \in Photos : SoftDelete(p) BY <1>3 DEF SoftDelete
<1>4. CASE Next /\ \E e \in Downloaders : BeginGet(e) \/ GetStep(e)
  <2>1. PICK e \in Downloaders : BeginGet(e) \/ GetStep(e) BY <1>4
  <2>2. UNCHANGED <<accessVars, deleted>> /\ \A d \in Downloaders \ {e} : get'[d] = get[d]
    BY <1>0, <2>1, GetLeaves
  <2> QED BY <1>4, <2>1, <2>2 DEF Moves
<1> QED BY <1>1, <1>2, <1>3, <1>4 DEF Next

\* Whether somebody is entitled is a truth value.
LEMMA EntitledType ==
  ASSUME NEW u, NEW k, NEW org, NEW rows, NEW t
  PROVE  Entitled(u, k, org, rows, t) \in BOOLEAN
  BY DEF Entitled

\* What is observed keeps its type.
LEMMA SinceType ==
  ASSUME TypeOk, Observe
  PROVE  since' \in [Downloaders -> SinceRecord]
<1>1. ASSUME NEW d \in Downloaders PROVE Observed(d) \in SinceRecord
  <2> DEFINE u == get'[d].asked.actor
  <2>0. since[d] \in SinceRecord /\ deleted \in SUBSET Photos BY DEF TypeOk
  <2>1. HeldNow(u) \in SUBSET (Competitions \X BOOLEAN) BY EntitledType DEF HeldNow
  <2>2. ChangedNow(u) \in SUBSET Competitions BY DEF ChangedNow
  <2> HIDE DEF u
  <2>3. [deleted |-> deleted, held |-> HeldNow(u), changed |-> {}] \in SinceRecord
    BY <2>0, <2>1 DEF SinceRecord
  <2>4. [since[d] EXCEPT !.held = @ \cup HeldNow(u), !.changed = @ \cup ChangedNow(u)] \in SinceRecord
    <3> DEFINE h == since[d].held \cup HeldNow(u) x == since[d].changed \cup ChangedNow(u)
    <3>1. h \in SUBSET (Competitions \X BOOLEAN) /\ x \in SUBSET Competitions
      BY <2>0, <2>1, <2>2 DEF SinceRecord
    <3> HIDE DEF h, x
    <3>2. [since[d] EXCEPT !.held = h, !.changed = x] \in SinceRecord
      BY <2>0, <3>1 DEF SinceRecord
    <3> QED BY <3>2 DEF h, x
  <2>5. Observed(d) \in {since[d], [deleted |-> deleted, held |-> HeldNow(u), changed |-> {}],
          [since[d] EXCEPT !.held = @ \cup HeldNow(u), !.changed = @ \cup ChangedNow(u)]}
    BY DEF Observed, u
  <2> QED BY <2>0, <2>3, <2>4, <2>5
<1> QED BY <1>1 DEF Observe

\* While a call goes on, what has been observed of it grows by what is so now.
LEMMA SinceGrows ==
  ASSUME TypeOk, Observe, NEW d \in Downloaders, get[d].pc \notin GetOver,
         get'[d].pc # "start", get'[d].asked = get[d].asked
  PROVE  LET u == get[d].asked.actor IN
         /\ since'[d].deleted = since[d].deleted
         /\ since[d].held \subseteq since'[d].held
         /\ since[d].changed \subseteq since'[d].changed
         /\ \A k \in Competitions :
              /\ <<k, Entitled(u, k, organizer', grants', now')>> \in since'[d].held
              /\ organizer'[k] # organizer[k] \/ GrantOf(grants', k, u) # GrantOf(grants, k, u)
                   => k \in since'[d].changed
<1> DEFINE u == get[d].asked.actor
<1>1. since'[d] = [since[d] EXCEPT !.held = @ \cup HeldNow(u), !.changed = @ \cup ChangedNow(u)]
  BY DEF Observe, Observed, GetOver
<1>2. since[d] \in SinceRecord BY DEF TypeOk
<1>3. /\ since'[d].deleted = since[d].deleted
      /\ since'[d].held = since[d].held \cup HeldNow(u)
      /\ since'[d].changed = since[d].changed \cup ChangedNow(u)
  BY <1>1, <1>2 DEF SinceRecord
<1> HIDE DEF u
<1>4. \A k \in Competitions :
        /\ <<k, Entitled(u, k, organizer', grants', now')>> \in HeldNow(u)
        /\ organizer'[k] # organizer[k] \/ GrantOf(grants', k, u) # GrantOf(grants, k, u)
             => k \in ChangedNow(u)
  BY DEF HeldNow, ChangedNow
<1> QED BY <1>3, <1>4 DEF u

\* It is what it was for a call that is over or not yet begun.
LEMMA SinceStays ==
  ASSUME TypeOk, Observe, NEW d \in Downloaders, get[d].pc \in GetOver, get'[d].pc = get[d].pc
  PROVE  since'[d] = since[d]
  BY DEF Observe, Observed, GetOver

\* It starts anew with a call.
LEMMA SinceBegins ==
  ASSUME TypeOk, Observe, NEW d \in Downloaders, get[d].pc = "start", get'[d].pc # "start"
  PROVE  since'[d].deleted = deleted
  BY DEF Observe, Observed

\* All types survive every step.
LEMMA NextTypeOk ==
  ASSUME TypeOk, GrantsInv, [Next]_vars
  PROVE  TypeOk'
<1>1. CASE UNCHANGED vars
  BY <1>1 DEF vars, accessVars, access, observed, TypeOk, GrantsTypeOk, GetTypeOk, CallRecord
<1>2. CASE Next
  <2>1. since' \in [Downloaders -> SinceRecord] BY <1>2, SinceType DEF Next
  <2>2. CASE AccessStep /\ UNCHANGED <<deleted, get>>
    BY <2>1, <2>2, AccessKeeps DEF TypeOk, GetTypeOk
  <2>3. ASSUME NEW d \in Downloaders, BeginGet(d) \/ GetStep(d) PROVE TypeOk'
    <3>1. get' \in [Downloaders -> GetRecord] /\ GetTypeOk(d)' BY <2>3, GetMoves
    <3>2. UNCHANGED <<accessVars, deleted>> /\ \A e \in Downloaders \ {d} : get'[e] = get[e]
      BY <2>3, GetLeaves DEF TypeOk
    <3>3. \A e \in Downloaders : GetTypeOk(e)' BY <3>1, <3>2 DEF TypeOk, GetTypeOk
    <3>4. GrantsTypeOk' BY <3>2 DEF accessVars, access, observed, TypeOk, GrantsTypeOk
    <3> QED BY <2>1, <3>1, <3>2, <3>3, <3>4 DEF TypeOk
  <2>4. ASSUME NEW p \in Photos, SoftDelete(p) PROVE TypeOk'
    <3>1. GrantsTypeOk' BY <2>4 DEF SoftDelete, accessVars, access, observed, TypeOk, GrantsTypeOk
    <3> QED BY <2>1, <2>4, <3>1 DEF SoftDelete, TypeOk, GetTypeOk
  <2> QED BY <1>2, <2>2, <2>3, <2>4 DEF Next
<1> QED BY <1>1, <1>2

\* Initially everything has its type, and the grants have ids and keys of their own.
LEMMA InitTypeOk == Init => TypeOk /\ GrantsInv
<1> SUFFICES ASSUME Init PROVE TypeOk /\ GrantsInv OBVIOUS
<1>1. GrantsInv BY GrantsAssumption DEF Init, AccessInit, GrantsInv
<1>2. GrantsTypeOk
  <2>1. FirstGrants \subseteq Grant /\ given \subseteq GrantIds
    BY GrantsAssumption, GrantType DEF Init, AccessInit
  <2>2. ASSUME NEW id \in GrantIds PROVE FirstTerms(id) \in TermsRecord
    <3>1. CASE id \in given
      <4>1. \E g \in FirstGrants : g.id = id BY <3>1 DEF Init, AccessInit
      <4>2. (CHOOSE g \in FirstGrants : g.id = id) \in Grant BY <2>1, <4>1
      <4> QED BY <3>1, <4>2, GrantType DEF FirstTerms, Terms, TermsRecord
    <3>2. CASE id \notin given
      BY <3>2 DEF FirstTerms, TermsRecord
    <3> QED BY <3>1, <3>2
  <2>3. terms \in [GrantIds -> [last : TermsRecord, mixed : BOOLEAN]]
    BY <2>2 DEF Init, AccessInit
  <2>4. call \in [Clients -> CallRecord] /\ \A c \in Clients : call[c].pc = "start"
    BY DEF Init, AccessInit, CallRecord
  <2>5. organizer \in [Competitions -> Users] /\ now \in Times /\ managing = {} /\ revoked = {}
        /\ grants = FirstGrants
    BY RolesAssumption, BoundsAssumption DEF Init, AccessInit, Times
  <2> QED BY <2>1, <2>3, <2>4, <2>5 DEF GrantsTypeOk
<1>3. get \in [Downloaders -> GetRecord] /\ \A d \in Downloaders : GetTypeOk(d)
  <2>1. Idle \in GetRecord BY DEF Idle, GetRecord
  <2>2. Idle.pc = "start" BY DEF Idle
  <2> QED BY <2>1, <2>2 DEF Init, GetTypeOk, Judging
<1>4. since \in [Downloaders -> SinceRecord] /\ deleted = {}
  BY DEF Init, Fresh, SinceRecord
<1> QED BY <1>1, <1>2, <1>3, <1>4 DEF TypeOk

\* A grant and its key and id are unique after every step too.
LEMMA NextGrantsInv ==
  ASSUME TypeOk, GrantsInv, [Next]_vars
  PROVE  GrantsInv'
<1>1. CASE UNCHANGED accessVars
  BY <1>1 DEF accessVars, access, observed, GrantsInv
<1>2. CASE AccessStep BY <1>2, AccessKeeps DEF TypeOk
<1>3. CASE \E d \in Downloaders : BeginGet(d) \/ GetStep(d)
  BY <1>1, <1>3, GetLeaves DEF TypeOk
<1> QED BY <1>1, <1>2, <1>3 DEF Next, SoftDelete, vars

\* Every variable always has its type.
THEOREM DownloadsTypeCorrect == Spec => [](TypeOk /\ GrantsInv)
<1>1. TypeOk /\ GrantsInv /\ [Next]_vars => (TypeOk /\ GrantsInv)'
  BY NextTypeOk, NextGrantsInv
<1> QED BY <1>1, InitTypeOk, PTL DEF Spec

\* A grant that DeleteGrant answered to have deleted never comes back, whatever
\* updates had read it before: an id is not given twice and an update finds no row.
THEOREM RevocationStands == Spec => []RevokedStaysRevoked
<1>1. GrantsInv => RevokedStaysRevoked BY DEF GrantsInv, RevokedStaysRevoked
<1> QED BY <1>1, DownloadsTypeCorrect, PTL

-----------------------------------------------------------------------------
(* The terms of the grants, and who writes them.                           *)

\* A call on grants keeps TermsStand.
LEMMA CallKeepsTerms ==
  ASSUME GrantsTypeOk, GrantsInv, TermsStand, NEW c \in Clients, BeginAccess(c) \/ GrantStep(c)
  PROVE  TermsStand'
<1>0. grants \subseteq Grant /\ terms \in [GrantIds -> [last : TermsRecord, mixed : BOOLEAN]]
  BY DEF GrantsTypeOk
<1>1. CASE UNCHANGED <<grants, terms>> BY <1>1 DEF TermsStand
<1>2. CASE BeginAccess(c) \/ CheckManager(c) \/ ReadGrant(c)
  BY <1>1, <1>2 DEF BeginAccess, CheckManager, ReadGrant, access
<1>3. CASE CreateGrant(c)
  <2>1. ASSUME NEW g \in Grant, Adds(g),
               terms' = [terms EXCEPT ![g.id] = [last |-> Terms(g), mixed |-> FALSE]]
        PROVE  TermsStand'
    <3>1. g.id \in GrantIds BY GrantType
    <3>2. terms'[g.id].last = Terms(g) BY <1>0, <2>1, <3>1
    <3>3. ASSUME NEW h \in grants PROVE terms'[h.id] = terms[h.id]
      <4>1. h.id # g.id /\ h.id \in GrantIds BY <1>0, <2>1, GrantType DEF Adds, GrantsInv
      <4> QED BY <1>0, <2>1, <4>1
    <3>4. grants' = grants \cup {g} BY <2>1 DEF Adds
    <3> QED BY <3>2, <3>3, <3>4 DEF TermsStand, Terms
  <2> QED BY <1>1, <1>3, <2>1, CreateChanges
<1>4. CASE UpdateGrant(c)
  <2> DEFINE q == call[c].asked
             t == Changed(Terms(call[c].row), q)
  <2>1. ASSUME NEW g \in grants, Rewrites(g, t), g.id = q.grant,
               terms' = [terms EXCEPT ![q.grant] =
                      [last |-> Changed(@.last, q), mixed |-> @.mixed \/ call[c].row # g]]
        PROVE  TermsStand'
    <3>1. g \in Grant /\ g.id \in GrantIds BY <1>0, GrantType
    <3>2. /\ terms'[g.id].last = Changed(terms[g.id].last, q)
          /\ terms'[g.id].mixed = (terms[g.id].mixed \/ call[c].row # g)
      BY <1>0, <2>1, <3>1
    <3>3. ASSUME NEW h \in grants, h # g PROVE terms'[h.id] = terms[h.id]
      <4>1. h.id # g.id /\ h.id \in GrantIds BY <1>0, <3>3, GrantType DEF GrantsInv
      <4> QED BY <1>0, <2>1, <4>1
    <3>4. /\ grants' = (grants \ {g}) \cup {Rewritten(g, t)} /\ t \in TermsRecord
      BY <2>1 DEF Rewrites
    <3>5. Rewritten(g, t).id = g.id /\ Terms(Rewritten(g, t)) = t
      BY <3>1, <3>4, RewrittenType
    <3>6. terms'[g.id].mixed \/ t = terms'[g.id].last
      BY <3>2 DEF TermsStand
    <3> HIDE DEF t
    <3>7. ASSUME NEW h \in grants' PROVE terms'[h.id].mixed \/ Terms(h) = terms'[h.id].last
      <4>1. CASE h = Rewritten(g, t) BY <3>5, <3>6, <4>1
      <4>2. CASE h \in grants /\ h # g BY <3>3, <4>2 DEF TermsStand
      <4> QED BY <3>4, <3>7, <4>1, <4>2
    <3> QED BY <3>7 DEF TermsStand, Terms
  <2> QED BY <1>1, <1>4, <2>1, UpdateChanges
<1>5. CASE DeleteGrant(c)
  <2>1. terms' = terms /\ grants' \subseteq grants
    BY <1>5, DeleteChanges DEF Removes
  <2> QED BY <2>1 DEF TermsStand, Terms
<1> QED BY <1>2, <1>3, <1>4, <1>5 DEF GrantStep

\* The terms of a grant are the ones last asked for, each by the last request that
\* gave it, unless an update wrote over terms it had not read.
THEOREM TermsAreAskedFor == Spec => []TermsStand
<1>1. Init => TermsStand
  <2> SUFFICES ASSUME Init, NEW g \in grants PROVE Terms(g) = terms[g.id].last
    BY DEF TermsStand
  <2>1. g \in FirstGrants /\ g.id \in given /\ g.id \in GrantIds
    BY GrantsAssumption, GrantType DEF Init, AccessInit
  <2>2. (CHOOSE h \in FirstGrants : h.id = g.id) = g
    BY <2>1, GrantsAssumption
  <2> QED BY <2>1, <2>2 DEF FirstTerms, Init, AccessInit
<1>2. TypeOk /\ GrantsInv /\ TermsStand /\ [Next]_vars => TermsStand'
  <2> SUFFICES ASSUME TypeOk, GrantsInv, TermsStand, [Next]_vars PROVE TermsStand'
    OBVIOUS
  <2>1. CASE UNCHANGED <<grants, terms>> BY <2>1 DEF TermsStand, Terms
  <2>2. CASE AccessStep
    BY <2>1, <2>2, CallKeepsTerms DEF AccessStep, HandOver, Tick, TypeOk
  <2>3. CASE \E d \in Downloaders : BeginGet(d) \/ GetStep(d)
    BY <2>1, <2>3, GetLeaves DEF TypeOk, accessVars, access, observed
  <2> QED BY <2>1, <2>2, <2>3 DEF Next, SoftDelete, vars, accessVars, access, observed
<1> QED BY <1>1, <1>2, DownloadsTypeCorrect, PTL DEF Spec

\* A step of a call gets past CheckManager only for somebody who manages.
LEMMA OnlyManagersPass ==
  ASSUME GrantsTypeOk, GrantsInv, NEW c \in Clients, BeginAccess(c) \/ GrantStep(c),
         call'[c].pc \notin Over \cup {"check"}
  PROVE  /\ call[c].pc \notin Over /\ call'[c].asked = call[c].asked /\ organizer' = organizer
         /\ call[c].pc # "check" \/ Manages(call[c].asked.actor, organizer[call[c].asked.comp])
<1>1. CASE BeginAccess(c) BY <1>1 DEF BeginAccess, GrantsTypeOk
<1>2. CASE CheckManager(c)
  <2> DEFINE q == call[c].asked
  <2>1. q \in Requests /\ call[c].pc = "check" /\ organizer' = organizer
    BY <1>2 DEF CheckManager, GrantsTypeOk, access
  <2>2. FirstStep(q.op) \in CallPcs BY <2>1, AskedType DEF FirstStep, CallPcs
  <2>3. PICK o \in Outcome :
          Goto(c, IF ~Errs(o) /\ Manages(q.actor, organizer[q.comp]) THEN FirstStep(q.op) ELSE "error")
    BY <1>2 DEF CheckManager
  <2>4. CASE ~(~Errs(o) /\ Manages(q.actor, organizer[q.comp]))
    <3>1. Goto(c, "error") BY <2>3, <2>4
    <3>2. call'[c].pc = "error" BY <3>1, GotoType DEF CallPcs
    <3> QED BY <3>2 DEF Over
  <2>5. CASE Manages(q.actor, organizer[q.comp])
    <3>1. \E pc \in CallPcs : Goto(c, pc) BY <2>2, <2>3 DEF CallPcs
    <3>2. call'[c].asked = q BY <3>1, GotoType
    <3> QED BY <2>1, <2>5, <3>2 DEF Over
  <2> QED BY <2>4, <2>5
<1>3. CASE ReadGrant(c)
  <2>1. call[c].pc = "read" /\ organizer' = organizer BY <1>3 DEF ReadGrant, access
  <2>2. call'[c].asked = call[c].asked
    BY <1>3 DEF ReadGrant, Goto, GrantsTypeOk, CallRecord
  <2> QED BY <2>1, <2>2 DEF Over
<1>4. CASE CreateGrant(c) \/ UpdateGrant(c) \/ DeleteGrant(c)
  <2>1. call'[c].pc \in {"ok", "error"}
    BY <1>4, CreateChanges, UpdateChanges, DeleteChanges, GotoType DEF CallPcs
  <2> QED BY <2>1 DEF Over
<1> QED BY <1>1, <1>2, <1>3, <1>4 DEF GrantStep

\* Whoever has got past CheckManager is noted as having managed.
LEMMA NextManagingInv ==
  ASSUME TypeOk, GrantsInv, ManagingInv, [Next]_vars
  PROVE  ManagingInv'
<1>0. GrantsTypeOk BY DEF TypeOk
<1>1. CASE UNCHANGED <<call, managing>> BY <1>1 DEF ManagingInv
<1>2. CASE AccessStep
  <2> SUFFICES ASSUME NEW c \in Clients, call'[c].pc \notin Over \cup {"check"}
               PROVE  c \in managing'
    BY DEF ManagingInv
  <2>1. CASE call'[c] = call[c]
    BY <1>2, <2>1 DEF AccessStep, ObserveManagers, ManagingInv
  <2>2. CASE BeginAccess(c) \/ GrantStep(c)
    BY <1>0, <1>2, <2>2, OnlyManagersPass DEF AccessStep, ObserveManagers, ManagingInv
  <2>3. CASE \E e \in Clients \ {c} : BeginAccess(e) \/ GrantStep(e)
    BY <1>0, <2>1, <2>3, CallMoves
  <2>4. (\E k \in Competitions, u \in Successors : HandOver(k, u)) \/ Tick => call' = call
    BY DEF HandOver, Tick
  <2> QED BY <1>2, <2>1, <2>2, <2>3, <2>4 DEF AccessStep
<1>3. CASE \E d \in Downloaders : BeginGet(d) \/ GetStep(d)
  BY <1>1, <1>3, GetLeaves DEF TypeOk, accessVars, observed
<1> QED BY <1>1, <1>2, <1>3 DEF Next, SoftDelete, vars, accessVars, observed

\* The grants of a competition are written only by calls for that competition, of
\* somebody who managed it at some moment of the call.
THEOREM OnlyManagersWrite == Spec => ManagersOnly
<1> DEFINE Step == \A g \in (grants \ grants') \cup (grants' \ grants) :
             \E c \in managing : call'[c] # call[c] /\ call[c].asked.comp = g.comp
<1>1. Init => ManagingInv BY DEF Init, AccessInit, ManagingInv, Over
<1>2. TypeOk /\ GrantsInv /\ ManagingInv /\ [Next]_vars => [Step]_vars
  <2> SUFFICES ASSUME TypeOk, GrantsInv, ManagingInv, [Next]_vars PROVE Step
    OBVIOUS
  <2>0. GrantsTypeOk BY DEF TypeOk
  <2>1. CASE grants' = grants BY <2>1
  <2>2. ASSUME NEW c \in Clients, BeginAccess(c) \/ GrantStep(c) PROVE Step
    <3>1. CASE UNCHANGED <<grants, given, revoked>> BY <2>1, <3>1
    <3>2. ASSUME NEW g \in Grant, call[c].pc \notin Over \cup {"check"}, call'[c].pc # call[c].pc,
                 g.comp = call[c].asked.comp,
                 Adds(g) \/ Removes(g) \/ \E t \in TermsRecord : Rewrites(g, t)
          PROVE  Step
      <4>1. c \in managing BY <3>2 DEF ManagingInv
      <4>2. \A h \in (grants \ grants') \cup (grants' \ grants) : h.comp = g.comp
        BY <3>2, RewrittenType DEF Adds, Removes, Rewrites
      <4> QED BY <3>2, <4>1, <4>2
    <3> QED BY <2>0, <2>2, <3>1, <3>2, CallChanges
  <2>3. CASE AccessStep BY <2>1, <2>2, <2>3 DEF AccessStep, HandOver, Tick
  <2>4. CASE \E d \in Downloaders : BeginGet(d) \/ GetStep(d)
    BY <2>1, <2>4, GetLeaves DEF TypeOk, accessVars, access
  <2> QED BY <2>1, <2>3, <2>4 DEF Next, SoftDelete, vars, accessVars, access
<1>3. TypeOk /\ GrantsInv /\ ManagingInv /\ [Next]_vars => ManagingInv'
  BY NextManagingInv
<1> QED BY <1>1, <1>2, <1>3, DownloadsTypeCorrect, PTL DEF Spec, ManagersOnly

-----------------------------------------------------------------------------
(* The photos that are shown and served.                                   *)

\* The photos at hand have a competition.
LEMMA CompOfType ==
  ASSUME TypeOk, NEW d \in Downloaders, get[d].items # {}
  PROVE  CompOf(d) \in Competitions /\ get[d].items \subseteq Photos
<1>1. get[d].items \subseteq Photos BY DEF TypeOk, GetRecord
<1>2. (CHOOSE p \in get[d].items : TRUE) \in get[d].items OBVIOUS
<1> QED BY <1>1, <1>2, PhotosAssumption DEF CompOf

\* The clock only goes on, and photos are only ever deleted.
LEMMA TimeGoesOn ==
  ASSUME TypeOk, GrantsInv, [Next]_vars
  PROVE  /\ deleted \subseteq deleted'
         /\ \A g \in Grant : IsActive(g, now') => IsActive(g, now)
<1>0. now \in Int /\ \A g \in Grant : g.expires \in Int \/ g.expires = None
  BY BoundsAssumption, GrantType DEF TypeOk, GrantsTypeOk, Times
<1>1. CASE UNCHANGED <<now, deleted>> BY <1>1 DEF IsActive
<1>2. CASE AccessStep /\ UNCHANGED <<deleted, get>>
  <2>1. now' = now \/ now' = now + 1
    BY <1>2, CallMoves DEF AccessStep, HandOver, Tick, TypeOk
  <2>2. \A g \in Grant : IsActive(g, now') => IsActive(g, now)
    BY <1>0, <2>1 DEF IsActive
  <2> QED BY <1>2, <2>2
<1>3. CASE \E d \in Downloaders : BeginGet(d) \/ GetStep(d)
  BY <1>1, <1>3, GetLeaves DEF TypeOk, accessVars, access
<1>4. CASE \E p \in Photos : SoftDelete(p)
  BY <1>4 DEF SoftDelete, accessVars, access, IsActive
<1> QED BY <1>1, <1>2, <1>3, <1>4 DEF Next, vars, accessVars, access

\* What was served rightly stays so while more is observed.
LEMMA RightlyStays ==
  ASSUME NEW d, NEW s, Rightly(d, s), get'[d].asked = get[d].asked,
         since'[d].deleted = since[d].deleted,
         since[d].held \subseteq since'[d].held, since[d].changed \subseteq since'[d].changed
  PROVE  Rightly(d, s)'
  BY DEF Rightly

\* A call that does not move keeps its invariant whatever else happens.
LEMMA OthersKeep ==
  ASSUME TypeOk, GrantsInv, [Next]_vars, NEW d \in Downloaders, get'[d] = get[d],
         ServedInv(d), get[d].pc \in Judging => JudgingInv(d)
  PROVE  ServedInv(d)' /\ (get'[d].pc \in Judging => JudgingInv(d)')
<1>0. deleted \subseteq deleted' /\ Served(d)' = Served(d)
  BY TimeGoesOn DEF Served
<1>1. CASE UNCHANGED vars
  <2>1. UNCHANGED <<organizer, grants, now, get, since, deleted>>
    BY <1>1 DEF vars, accessVars, access
  <2>2. ServedInv(d)' BY <1>0, <2>1 DEF ServedInv, Rightly
  <2>3. CompOf(d)' = CompOf(d) BY <2>1 DEF CompOf
  <2>4. JudgingInv(d) => JudgingInv(d)' BY <2>1, <2>3 DEF JudgingInv, Now
  <2> QED BY <2>1, <2>2, <2>4
<1>2. CASE Next /\ get[d].pc \in GetOver
  <2>1. since'[d] = since[d] BY <1>2, SinceStays DEF Next
  <2>2. get[d].pc \notin Judging BY <1>2 DEF GetOver, Judging
  <2> QED BY <1>0, <2>1, <2>2 DEF ServedInv, Rightly
<1>3. CASE Next /\ get[d].pc \notin GetOver
  <2> DEFINE u == get[d].asked.actor
             k == CompOf(d)
  <2>1. /\ since'[d].deleted = since[d].deleted
        /\ since[d].held \subseteq since'[d].held
        /\ since[d].changed \subseteq since'[d].changed
        /\ \A c \in Competitions :
              /\ <<c, Entitled(u, c, organizer', grants', now')>> \in since'[d].held
              /\ organizer'[c] # organizer[c] \/ GrantOf(grants', c, u) # GrantOf(grants, c, u)
                   => c \in since'[d].changed
    BY <1>3, SinceGrows DEF Next, GetOver
  <2>2. ServedInv(d)'
    BY <1>0, <2>1, RightlyStays DEF ServedInv
  <2>3. ASSUME get[d].pc \in Judging PROVE JudgingInv(d)'
    <3>1. JudgingInv(d) /\ get[d].items # {} BY <2>3 DEF TypeOk, GetTypeOk
    <3>2. CompOf(d)' = k /\ k \in Competitions BY <3>1, CompOfType DEF CompOf
    <3>3. \A p \in get[d].items : Home[p] = k /\ p \notin since'[d].deleted
      BY <2>1, <3>1 DEF JudgingInv
    <3>4. Now(u, k)' \in since'[d].held BY <2>1, <3>2 DEF Now
    <3>5. get[d].pc \in {"grant", "clock"} => k \in since'[d].changed \/ ~Manages(u, organizer'[k])
      BY <2>1, <3>1, <3>2 DEF JudgingInv
    <3>6. ASSUME get[d].pc = "clock"
          PROVE  /\ get[d].row.original /\ IsActive(get[d].row, now') => <<k, TRUE>> \in since'[d].held
                 /\ k \in since'[d].changed \/ GrantOf(grants', k, u) = {get[d].row}
      <4>1. get[d].row \in Grant BY <3>6 DEF TypeOk, GetTypeOk
      <4>2. IsActive(get[d].row, now') => IsActive(get[d].row, now) BY <4>1, TimeGoesOn
      <4> QED BY <2>1, <3>1, <3>2, <3>6, <4>2 DEF JudgingInv
    <3>7. ASSUME get[d].pc = "decided"
          PROVE  /\ get[d].can => <<k, TRUE>> \in since'[d].held
                 /\ ~get[d].can => <<k, FALSE>> \in since'[d].held \/ k \in since'[d].changed
      BY <2>1, <3>1, <3>7 DEF JudgingInv
    <3> QED BY <3>2, <3>3, <3>4, <3>5, <3>6, <3>7 DEF JudgingInv, Now
  <2> QED BY <2>2, <2>3
<1> QED BY <1>1, <1>2, <1>3

\* What a plain move leaves of a call.
LEMMA PlainKeeps ==
  ASSUME get \in [Downloaders -> GetRecord], NEW d \in Downloaders
  PROVE  /\ \A pc : GoOn(d, pc) =>
              /\ get'[d].pc = pc /\ get'[d].open = get[d].open /\ get'[d].items = get[d].items
              /\ get'[d].files = get[d].files /\ get'[d].shown = get[d].shown
              /\ get'[d].sent = get[d].sent
         /\ \A pc : End(d, pc) =>
              /\ get'[d].pc = pc /\ get'[d].open = {}
              /\ get'[d].files = get[d].files /\ get'[d].shown = get[d].shown
              /\ get'[d].sent = get[d].sent
         /\ \A can : Decided(d, can) =>
              /\ get'[d].pc = "decided" /\ get'[d].can = can
              /\ get'[d].open = get[d].open /\ get'[d].items = get[d].items
              /\ get'[d].files = get[d].files /\ get'[d].shown = get[d].shown
              /\ get'[d].sent = get[d].sent
<1>0. get[d] \in GetRecord OBVIOUS
<1>1. ASSUME NEW pc, GoOn(d, pc)
      PROVE  /\ get'[d].pc = pc /\ get'[d].open = get[d].open /\ get'[d].items = get[d].items
             /\ get'[d].files = get[d].files /\ get'[d].shown = get[d].shown
             /\ get'[d].sent = get[d].sent
  BY <1>0, <1>1 DEF GoOn, GetRecord
<1>2. ASSUME NEW pc, End(d, pc)
      PROVE  /\ get'[d].pc = pc /\ get'[d].open = {}
             /\ get'[d].files = get[d].files /\ get'[d].shown = get[d].shown
             /\ get'[d].sent = get[d].sent
  BY <1>0, <1>2 DEF End, GetRecord
<1>3. ASSUME NEW can, Decided(d, can)
      PROVE  /\ get'[d].pc = "decided" /\ get'[d].can = can
             /\ get'[d].open = get[d].open /\ get'[d].items = get[d].items
             /\ get'[d].files = get[d].files /\ get'[d].shown = get[d].shown
             /\ get'[d].sent = get[d].sent
  BY <1>0, <1>3 DEF Decided, GetRecord
<1> QED BY <1>1, <1>2, <1>3

\* What a call knows when it makes a step of its own: nothing else changes, and what
\* is so now is observed.
LEMMA OwnStep ==
  ASSUME TypeOk, NEW d \in Downloaders, GetStep(d), Observe
  PROVE  LET u == get[d].asked.actor IN
         /\ UNCHANGED <<organizer, grants, now, deleted>>
         /\ get'[d].asked = get[d].asked
         /\ since'[d].deleted = since[d].deleted
         /\ since[d].held \subseteq since'[d].held
         /\ since[d].changed \subseteq since'[d].changed
         /\ \A k \in Competitions : <<k, Entitled(u, k, organizer, grants, now)>> \in since'[d].held
<1>1. UNCHANGED <<organizer, grants, now, deleted>>
  BY GetLeaves DEF TypeOk, accessVars, access
<1>2. get'[d].asked = get[d].asked /\ get[d].pc \notin GetOver BY AskedKept
<1>3. get'[d].pc # "start" BY GetMoves
<1> QED BY <1>1, <1>2, <1>3, SinceGrows

\* A step that serves nothing more leaves what was served right.
LEMMA ServesNothing ==
  ASSUME TypeOk, NEW d \in Downloaders, GetStep(d), Observe, ServedInv(d),
         get'[d].files = get[d].files, get'[d].shown = get[d].shown
  PROVE  ServedInv(d)'
<1>1. Served(d)' = Served(d) BY DEF Served
<1> QED BY <1>1, OwnStep, RightlyStays DEF ServedInv

\* A step that fixes the photos at hand judges them from the start.
LEMMA TakesPhotos ==
  ASSUME TypeOk, NEW d \in Downloaders, GetStep(d), Observe, ServedInv(d),
         get'[d].pc = "organizer", get'[d].items # {}, NEW k \in Competitions,
         \A p \in get'[d].items : Home[p] = k /\ p \notin deleted
  PROVE  JudgingInv(d)'
<1>1. (CHOOSE p \in get'[d].items : TRUE) \in get'[d].items OBVIOUS
<1>2. CompOf(d)' = k BY <1>1 DEF CompOf
<1>3. Now(get[d].asked.actor, k)' \in since'[d].held BY OwnStep DEF Now
<1>4. \A p \in get'[d].items : p \notin since'[d].deleted BY OwnStep DEF ServedInv
<1> QED BY <1>2, <1>3, <1>4, OwnStep DEF JudgingInv

\* A step that goes on with the same photos keeps what was known of them.
LEMMA KeepsPhotos ==
  ASSUME TypeOk, NEW d \in Downloaders, GetStep(d), Observe, JudgingInv(d),
         get[d].items # {}, get'[d].items = get[d].items
  PROVE  LET k == CompOf(d) u == get[d].asked.actor IN
         /\ k \in Competitions /\ CompOf(d)' = k
         /\ \A p \in get'[d].items : Home[p] = k /\ p \notin since'[d].deleted
         /\ Now(u, k)' \in since'[d].held
         /\ <<k, Entitled(u, k, organizer, grants, now)>> \in since'[d].held
<1>1. CompOf(d) \in Competitions /\ CompOf(d)' = CompOf(d) BY CompOfType DEF CompOf
<1> QED BY <1>1, OwnStep DEF JudgingInv, Now

\* The reads that judge: of the organizer, of the grant and of the clock.
LEMMA JudgesRightly ==
  ASSUME TypeOk, GrantsInv, NEW d \in Downloaders, Observe, JudgingInv(d), GetStep(d),
         ReadCompetition(d) \/ ReadOwnGrant(d) \/ ReadClock(d)
  PROVE  get'[d].pc \in Judging => JudgingInv(d)'
<1> DEFINE k == CompOf(d) u == get[d].asked.actor
<1>0. /\ get \in [Downloaders -> GetRecord] /\ get[d] \in GetRecord /\ get[d].items # {}
  BY DEF TypeOk, GetTypeOk, ReadCompetition, ReadOwnGrant, ReadClock, Judging
<1>1. /\ UNCHANGED <<organizer, grants, now>> /\ get'[d].asked = get[d].asked
      /\ since[d].held \subseteq since'[d].held /\ since[d].changed \subseteq since'[d].changed
  BY OwnStep
<1>2. \A pc : End(d, pc) => get'[d].pc = pc BY <1>0, PlainKeeps
<1>3. CASE ReadCompetition(d)
  <2>1. CASE Decided(d, TRUE) /\ Manages(u, organizer[k])
    <3>1. get'[d].pc = "decided" /\ get'[d].can = TRUE /\ get'[d].items = get[d].items
      BY <1>0, <2>1, PlainKeeps
    <3>2. Entitled(u, k, organizer, grants, now) = TRUE BY <2>1 DEF Entitled
    <3>3. <<k, TRUE>> \in since'[d].held BY <1>0, <3>1, <3>2, KeepsPhotos
    <3> QED BY <1>0, <1>1, <3>1, <3>3, KeepsPhotos DEF JudgingInv
  <2>2. CASE GoOn(d, "grant") /\ ~Manages(u, organizer[k])
    <3>1. get'[d].pc = "grant" /\ get'[d].items = get[d].items BY <1>0, <2>2, PlainKeeps
    <3> QED BY <1>0, <1>1, <2>2, <3>1, KeepsPhotos DEF JudgingInv
  <2>3. CASE End(d, "error") BY <1>2, <2>3 DEF Judging
  <2>4. \/ Decided(d, TRUE) /\ Manages(u, organizer[k])
        \/ GoOn(d, "grant") /\ ~Manages(u, organizer[k])
        \/ End(d, "error")
    <3>1. PICK o \in Outcome :
            CASE Errs(o) -> End(d, "error")
              [] ~Errs(o) /\ Manages(u, organizer[k]) -> Decided(d, TRUE)
              [] OTHER -> GoOn(d, "grant")
      BY <1>3 DEF ReadCompetition
    <3> QED BY <3>1
  <2> QED BY <2>1, <2>2, <2>3, <2>4
<1>4. CASE ReadOwnGrant(d)
  <2> DEFINE own == GrantOf(grants, k, u)
  <2>0. get[d].pc = "grant" /\ (k \in since[d].changed \/ ~Manages(u, organizer[k]))
    BY <1>4 DEF ReadOwnGrant, JudgingInv
  <2>1. CASE own = {} /\ Decided(d, FALSE)
    <3>1. get'[d].pc = "decided" /\ get'[d].can = FALSE /\ get'[d].items = get[d].items
      BY <1>0, <2>1, PlainKeeps
    <3>2. k \in since[d].changed \/ Entitled(u, k, organizer, grants, now) = FALSE
      BY <2>0, <2>1 DEF Entitled
    <3>3. k \in since'[d].changed \/ <<k, FALSE>> \in since'[d].held
      BY <1>0, <1>1, <3>1, <3>2, KeepsPhotos
    <3> QED BY <1>0, <1>1, <3>1, <3>3, KeepsPhotos DEF JudgingInv
  <2>2. ASSUME NEW g \in own, get' = [get EXCEPT ![d] = [@ EXCEPT !.row = g, !.pc = "clock"]]
        PROVE  JudgingInv(d)'
    <3>1. get'[d].pc = "clock" /\ get'[d].row = g /\ get'[d].items = get[d].items
      BY <1>0, <2>2 DEF GetRecord
    <3>2. own = {g} BY <2>2 DEF GrantOf, GrantsInv
    <3>3. g.original /\ IsActive(g, now) => Entitled(u, k, organizer, grants, now) = TRUE
      BY <2>2 DEF Entitled, IsActive
    <3>4. g.original /\ IsActive(g, now) => <<k, TRUE>> \in since'[d].held
      BY <1>0, <3>1, <3>3, KeepsPhotos
    <3> QED BY <1>0, <1>1, <2>0, <3>1, <3>2, <3>4, KeepsPhotos DEF JudgingInv
  <2>3. CASE End(d, "error") BY <1>2, <2>3 DEF Judging
  <2> QED BY <1>4, <2>1, <2>2, <2>3 DEF ReadOwnGrant
<1>5. CASE ReadClock(d)
  <2> DEFINE can == get[d].row.original /\ IsActive(get[d].row, now)
  <2>0. /\ get[d].pc = "clock" /\ Decided(d, can)
        /\ k \in since[d].changed \/ ~Manages(u, organizer[k])
        /\ can => <<k, TRUE>> \in since[d].held
        /\ k \in since[d].changed \/ GrantOf(grants, k, u) = {get[d].row}
    BY <1>5 DEF ReadClock, JudgingInv
  <2>1. get'[d].pc = "decided" /\ get'[d].can = can /\ get'[d].items = get[d].items
    BY <1>0, <2>0, PlainKeeps
  <2>2. ~can => k \in since[d].changed \/ Entitled(u, k, organizer, grants, now) = FALSE
    BY <2>0 DEF Entitled, IsActive
  <2>3. ~can => k \in since'[d].changed \/ <<k, FALSE>> \in since'[d].held
    BY <1>0, <1>1, <2>1, <2>2, KeepsPhotos
  <2>4. can => <<k, TRUE>> \in since'[d].held BY <1>1, <2>0
  <2> HIDE DEF can
  <2> QED BY <1>0, <1>1, <2>1, <2>3, <2>4, KeepsPhotos DEF JudgingInv
<1> QED BY <1>3, <1>4, <1>5

\* A variant that is served of the photos at hand is served as the actor is entitled.
LEMMA VariantIsRight ==
  ASSUME TypeOk, NEW d \in Downloaders, GetStep(d), Observe, JudgingInv(d),
         get[d].pc = "decided", NEW p \in get[d].items,
         NEW s, s.photo = p, s.original = MayHave(d, p)
  PROVE  Rightly(d, s)'
<1> DEFINE k == CompOf(d)
<1>1. /\ Home[p] = k /\ p \notin since[d].deleted
      /\ get[d].can => <<k, TRUE>> \in since[d].held
      /\ ~get[d].can => <<k, FALSE>> \in since[d].held \/ k \in since[d].changed
  BY DEF JudgingInv
<1>2. /\ get'[d].asked = get[d].asked /\ since'[d].deleted = since[d].deleted
      /\ since[d].held \subseteq since'[d].held /\ since[d].changed \subseteq since'[d].changed
  BY OwnStep
<1> HIDE DEF k
<1> QED BY <1>1, <1>2 DEF Rightly, MayHave

\* The steps that fetch photos, answer, open and send.
LEMMA ServesRightly ==
  ASSUME TypeOk, NEW d \in Downloaders, GetStep(d), Observe, ServedInv(d),
         get[d].pc \in Judging => JudgingInv(d),
         ~(ReadCompetition(d) \/ ReadOwnGrant(d) \/ ReadClock(d))
  PROVE  ServedInv(d)' /\ (get'[d].pc \in Judging => JudgingInv(d)')
<1>0. get \in [Downloaders -> GetRecord] /\ get[d] \in GetRecord /\ GetTypeOk(d)
  BY DEF TypeOk
<1>1. CASE \E pc \in {"error", "done"} : GoOn(d, pc) \/ End(d, pc)
  <2>1. get'[d].files = get[d].files /\ get'[d].shown = get[d].shown /\ get'[d].pc \notin Judging
    BY <1>0, <1>1, PlainKeeps DEF Judging
  <2> QED BY <2>1, ServesNothing
<1>2. CASE ListPhotos(d)
  <2> DEFINE found == {p \in Photos \ deleted : Home[p] = get[d].asked.comp}
  <2>1. CASE get' = [get EXCEPT ![d] = [@ EXCEPT !.items = found,
                               !.pc = IF found = {} THEN "done" ELSE "organizer"]]
    <3> HIDE DEF found
    <3>1. /\ get'[d].files = get[d].files /\ get'[d].shown = get[d].shown
          /\ get'[d].items = found
          /\ get'[d].pc = IF found = {} THEN "done" ELSE "organizer"
      BY <1>0, <2>1 DEF GetRecord
    <3>2. ServedInv(d)' BY <3>1, ServesNothing
    <3>3. CASE found = {} BY <3>1, <3>2, <3>3 DEF Judging
    <3>4. CASE found # {}
      <4>1. PICK p : p \in found BY <3>4
      <4>2. p \in Photos /\ \A r \in found : Home[r] = get[d].asked.comp /\ r \notin deleted
        BY <4>1 DEF found
      <4>3. get[d].asked.comp \in Competitions
        BY <4>1, <4>2, PhotosAssumption
      <4> QED BY <3>1, <3>2, <3>4, <4>2, <4>3, TakesPhotos
    <3> QED BY <3>3, <3>4
  <2> QED BY <1>1, <1>2, <2>1 DEF ListPhotos
<1>3. CASE GetPhoto(d)
  <2> DEFINE p == Head(get[d].todo)
  <2>1. CASE /\ p \notin deleted
             /\ get' = [get EXCEPT ![d] = [@ EXCEPT !.items = {p}, !.todo = Tail(get[d].todo), !.pc = "organizer"]]
    <3>1. get[d].todo \in Seq(Photos) /\ get[d].todo # <<>>
      BY <1>0, <1>3 DEF GetPhoto, GetTypeOk, GetRecord
    <3>2. p \in Photos /\ Home[p] \in Competitions BY <3>1, PhotosAssumption
    <3> HIDE DEF p
    <3>3. /\ get'[d].files = get[d].files /\ get'[d].shown = get[d].shown
          /\ get'[d].items = {p} /\ get'[d].pc = "organizer"
      BY <1>0, <2>1 DEF GetRecord
    <3> QED BY <2>1, <3>2, <3>3, ServesNothing, TakesPhotos
  <2> QED BY <1>1, <1>3, <2>1 DEF GetPhoto
<1>4. CASE Answer(d)
  <2> DEFINE all == {[photo |-> p, original |-> MayHave(d, p)] : p \in get[d].items}
  <2>1. JudgingInv(d) /\ get[d].pc = "decided" BY <1>4 DEF Answer, Judging
  <2>2. \A s \in all : Rightly(d, s)' BY <2>1, VariantIsRight
  <2>3. get' = [get EXCEPT ![d] = [@ EXCEPT !.pc = "done", !.shown = all]] BY <1>4 DEF Answer
  <2> HIDE DEF all
  <2>4. get'[d].files = get[d].files /\ get'[d].shown = all /\ get'[d].pc = "done"
    BY <1>0, <2>3 DEF GetRecord
  <2>5. \A s \in Served(d) : Rightly(d, s)' BY OwnStep, RightlyStays DEF ServedInv
  <2>6. Served(d)' \subseteq all \cup Served(d) BY <2>4 DEF Served
  <2>7. since'[d].deleted \subseteq deleted' BY OwnStep DEF ServedInv
  <2> QED BY <2>2, <2>4, <2>5, <2>6, <2>7 DEF ServedInv, Judging
<1>5. CASE OpenVersion(d)
  <2>1. ASSUME NEW p \in get[d].items,
          get' = [get EXCEPT ![d] = [@ EXCEPT
              !.files = Append(get[d].files, [photo |-> p, original |-> MayHave(d, p),
                             name |-> IF MayHave(d, p) THEN NameOf[p] ELSE Append(NameOf[p], 0)]),
              !.open = get[d].open \cup {Len(get[d].files) + 1},
              !.pc = IF get[d].todo = <<>> THEN "send" ELSE "photo"]]
        PROVE  ServedInv(d)' /\ get'[d].pc \notin Judging
    <3> DEFINE f == [photo |-> p, original |-> MayHave(d, p),
                     name |-> IF MayHave(d, p) THEN NameOf[p] ELSE Append(NameOf[p], 0)]
               s == [photo |-> p, original |-> MayHave(d, p)]
    <3>1. JudgingInv(d) /\ get[d].pc = "decided" BY <1>5 DEF OpenVersion, Judging
    <3>2. \A t \in {s} : Rightly(d, t)' BY <3>1, VariantIsRight
    <3>3. /\ get'[d].files = Append(get[d].files, f) /\ get'[d].shown = get[d].shown
          /\ get'[d].pc \in {"send", "photo"}
      BY <1>0, <2>1 DEF GetRecord
    <3>4. \A t \in Served(d) : Rightly(d, t)' BY OwnStep, RightlyStays DEF ServedInv
    <3>5. Served(d)' \subseteq {s} \cup Served(d)
      <4>1. get[d].files \in Seq(FileRecord) BY <1>0 DEF GetRecord
      <4>2. f.photo = p /\ f.original = MayHave(d, p) OBVIOUS
      <4> HIDE DEF f
      <4>3. \A i \in DOMAIN get'[d].files :
              \/ get'[d].files[i] = f
              \/ i \in DOMAIN get[d].files /\ get'[d].files[i] = get[d].files[i]
        BY <3>3, <4>1
      <4>4. \A i \in DOMAIN get'[d].files :
              [photo |-> get'[d].files[i].photo, original |-> get'[d].files[i].original]
                \in {s} \cup Served(d)
        BY <4>2, <4>3 DEF Served
      <4> QED BY <3>3, <4>4 DEF Served
    <3>6. since'[d].deleted \subseteq deleted' BY OwnStep DEF ServedInv
    <3> QED BY <3>2, <3>3, <3>4, <3>5, <3>6 DEF ServedInv, Judging
  <2> QED BY <1>1, <1>5, <2>1 DEF OpenVersion
<1>6. CASE SendFile(d)
  BY <1>1, <1>6 DEF SendFile
<1>7. CASE ZipFile(d)
  <2>1. CASE get' = [get EXCEPT ![d] = [@ EXCEPT !.sent = get[d].sent + 1, !.open = get[d].open \ {get[d].sent + 1},
                  !.pc = IF get[d].sent + 1 = Len(get[d].files) THEN "done" ELSE "send"]]
    <3>1. get'[d].files = get[d].files /\ get'[d].shown = get[d].shown /\ get'[d].pc \in {"done", "send"}
      BY <1>0, <2>1 DEF GetRecord
    <3> QED BY <3>1, ServesNothing DEF Judging
  <2> QED BY <1>1, <1>7, <2>1 DEF ZipFile
<1> QED BY <1>2, <1>3, <1>4, <1>5, <1>6, <1>7 DEF GetStep

\* A call that begins has served nothing yet.
LEMMA BeginsEmpty ==
  ASSUME TypeOk, NEW d \in Downloaders, BeginGet(d), Observe, OpenInv(d)
  PROVE  OpenInv(d)' /\ ServedInv(d)' /\ get'[d].pc \notin Judging
<1>0. get \in [Downloaders -> GetRecord] /\ get[d] \in GetRecord BY DEF TypeOk
<1>1. PICK q \in Gets :
       get' = [get EXCEPT ![d] = [@ EXCEPT !.asked = q, !.todo = q.photos,
                 !.pc = CASE q.op = "list" -> "list"
                             [] q.op # "list" /\ q.photos = <<>> -> "error"
                             [] OTHER -> "photo"]]
  BY DEF BeginGet
<1>2. /\ get[d].files = <<>> /\ get[d].shown = {} /\ get[d].sent \in Nat
      /\ get[d].pc = "start" /\ get[d].sent = 0 /\ get[d].open = {}
  BY <1>0 DEF OpenInv, BeginGet, GetOver, GetRecord
<1>3. /\ get'[d].files = <<>> /\ get'[d].shown = {} /\ get'[d].sent = 0 /\ get'[d].open = {}
      /\ get'[d].asked = q
      /\ get'[d].pc = CASE q.op = "list" -> "list"
                        [] q.op # "list" /\ q.photos = <<>> -> "error"
                        [] OTHER -> "photo"
  BY <1>0, <1>1, <1>2 DEF GetRecord
<1>4. get'[d].pc \in {"list", "error", "photo"} /\ (get'[d].pc = "list" => q.op = "list")
  BY <1>3
<1>5. Len(<<>>) = 0 /\ (0 + 1)..0 = {} OBVIOUS
<1>6. OpenInv(d)' BY <1>3, <1>4, <1>5 DEF OpenInv, GetOver
<1>7. Served(d)' = {} BY <1>3 DEF Served
<1>8. since'[d].deleted = deleted BY <1>2, <1>4, SinceBegins
<1>9. deleted' = deleted BY DEF BeginGet
<1> QED BY <1>4, <1>6, <1>7, <1>8, <1>9 DEF ServedInv, Judging

\* Readers are opened and closed as the files need.
LEMMA OpensAndCloses ==
  ASSUME TypeOk, NEW d \in Downloaders, GetStep(d), OpenInv(d)
  PROVE  OpenInv(d)'
<1>0. get \in [Downloaders -> GetRecord] /\ get[d] \in GetRecord BY DEF TypeOk
<1>1. get'[d].asked = get[d].asked /\ get[d].pc \notin GetOver BY AskedKept
<1>2. get[d].sent \in Nat /\ Len(get[d].files) \in Nat BY <1>0 DEF GetRecord
<1>3. get[d].open = (get[d].sent + 1)..Len(get[d].files) BY <1>1 DEF OpenInv
<1>4. /\ get[d].asked.op # "download" => get[d].files = <<>>
      /\ get[d].sent <= Len(get[d].files)
  BY <1>1 DEF OpenInv, GetOver
<1>5. CASE \E pc \in {"error", "done"} : End(d, pc)
  <2>1. /\ get'[d].pc \in {"error", "done"} /\ get'[d].open = {}
        /\ get'[d].files = get[d].files /\ get'[d].sent = get[d].sent
    BY <1>0, <1>5, PlainKeeps
  <2> QED BY <1>1, <1>4, <2>1 DEF OpenInv, GetOver
<1>6. ASSUME get[d].pc # "send", get'[d].files = get[d].files, get'[d].sent = get[d].sent,
             get'[d].open = get[d].open,
             \/ get'[d].pc \in {"photo", "organizer", "grant", "clock", "decided"}
             \/ get'[d].pc \in {"error", "done"} /\ get[d].asked.op # "download"
      PROVE  OpenInv(d)'
  <2>1. get[d].sent = 0 BY <1>1, <1>6 DEF OpenInv, GetOver
  <2>2. CASE get'[d].pc \in {"photo", "organizer", "grant", "clock", "decided"}
    BY <1>1, <1>3, <1>4, <1>6, <2>1, <2>2 DEF OpenInv, GetOver
  <2>3. CASE get'[d].pc \in {"error", "done"} /\ get[d].asked.op # "download"
    <3>1. get[d].files = <<>> BY <1>4, <2>3
    <3>2. Len(get[d].files) = 0 BY <3>1
    <3>3. get[d].open = {} BY <1>2, <1>3, <3>2
    <3> QED BY <1>1, <1>6, <2>3, <3>1, <3>3 DEF OpenInv, GetOver
  <2> QED BY <1>6, <2>2, <2>3
<1>7. CASE ListPhotos(d)
  <2> DEFINE found == {p \in Photos \ deleted : Home[p] = get[d].asked.comp}
  <2>1. get[d].asked.op = "list" /\ get[d].pc = "list" BY <1>7 DEF ListPhotos, OpenInv
  <2>2. CASE GoOn(d, "error") BY <1>0, <1>6, <2>1, <2>2, PlainKeeps
  <2>3. CASE get' = [get EXCEPT ![d] = [@ EXCEPT !.items = found,
                               !.pc = IF found = {} THEN "done" ELSE "organizer"]]
    <3> HIDE DEF found
    <3>1. /\ get'[d].files = get[d].files /\ get'[d].sent = get[d].sent
          /\ get'[d].open = get[d].open /\ get'[d].pc \in {"done", "organizer"}
      BY <1>0, <2>3 DEF GetRecord
    <3> QED BY <1>6, <2>1, <3>1
  <2> QED BY <1>7, <2>2, <2>3 DEF ListPhotos
<1>8. CASE GetPhoto(d)
  <2>1. CASE get' = [get EXCEPT ![d] = [@ EXCEPT !.items = {Head(get[d].todo)},
                               !.todo = Tail(get[d].todo), !.pc = "organizer"]]
    <3>1. \A x, y : get' = [get EXCEPT ![d] = [@ EXCEPT !.items = x, !.todo = y, !.pc = "organizer"]] =>
            /\ get'[d].files = get[d].files /\ get'[d].sent = get[d].sent
            /\ get'[d].open = get[d].open /\ get'[d].pc = "organizer"
      BY <1>0 DEF GetRecord
    <3> QED BY <1>6, <1>8, <2>1, <3>1 DEF GetPhoto
  <2> QED BY <1>5, <1>8, <2>1 DEF GetPhoto
<1>9. CASE ReadCompetition(d)
  <2>1. End(d, "error") \/ Decided(d, TRUE) \/ GoOn(d, "grant") BY <1>9 DEF ReadCompetition
  <2>2. get[d].pc # "send" BY <1>9 DEF ReadCompetition
  <2> QED BY <1>0, <1>5, <1>6, <2>1, <2>2, PlainKeeps
<1>10. CASE ReadOwnGrant(d)
  <2>1. CASE Decided(d, FALSE) BY <1>0, <1>6, <1>10, <2>1, PlainKeeps DEF ReadOwnGrant
  <2>2. ASSUME NEW g, get' = [get EXCEPT ![d] = [@ EXCEPT !.row = g, !.pc = "clock"]]
        PROVE  OpenInv(d)'
    <3>1. /\ get'[d].files = get[d].files /\ get'[d].sent = get[d].sent
          /\ get'[d].open = get[d].open /\ get'[d].pc = "clock"
      BY <1>0, <2>2 DEF GetRecord
    <3> QED BY <1>6, <1>10, <3>1 DEF ReadOwnGrant
  <2> QED BY <1>5, <1>10, <2>1, <2>2 DEF ReadOwnGrant
<1>11. CASE ReadClock(d)
  <2>1. \E can : Decided(d, can) BY <1>11 DEF ReadClock
  <2> QED BY <1>0, <1>6, <1>11, <2>1, PlainKeeps DEF ReadClock
<1>12. CASE Answer(d)
  <2>1. \A x : get' = [get EXCEPT ![d] = [@ EXCEPT !.pc = "done", !.shown = x]] =>
          /\ get'[d].files = get[d].files /\ get'[d].sent = get[d].sent
          /\ get'[d].open = get[d].open /\ get'[d].pc = "done"
    BY <1>0 DEF GetRecord
  <2> QED BY <1>6, <1>12, <2>1 DEF Answer
<1>13. CASE OpenVersion(d)
  <2>1. ASSUME NEW f \in FileRecord,
               get' = [get EXCEPT ![d] = [@ EXCEPT !.files = Append(get[d].files, f),
                         !.open = get[d].open \cup {Len(get[d].files) + 1},
                         !.pc = IF get[d].todo = <<>> THEN "send" ELSE "photo"]]
        PROVE  OpenInv(d)'
    <3> DEFINE n == Len(get[d].files)
    <3>1. /\ get'[d].files = Append(get[d].files, f) /\ get'[d].sent = get[d].sent
          /\ get'[d].open = get[d].open \cup {n + 1}
          /\ get'[d].pc \in {"send", "photo"}
      BY <1>0, <2>1 DEF GetRecord
    <3>2. get[d].pc = "decided" /\ get[d].asked.op = "download" BY <1>13 DEF OpenVersion
    <3>3. get[d].sent = 0 BY <3>2 DEF OpenInv
    <3>4. get[d].files \in Seq(FileRecord) BY <1>0 DEF GetRecord
    <3>5. Len(get'[d].files) = n + 1 BY <3>1, <3>4
    <3>6. get'[d].open = 1..(n + 1)
      <4>1. get[d].open = 1..n BY <1>3, <3>3
      <4>2. n \in Nat BY <1>2
      <4> HIDE DEF n
      <4> QED BY <3>1, <4>1, <4>2
    <3>7. 0 < n + 1 /\ 0 <= n + 1 /\ get'[d].sent + 1 = 1 BY <1>2, <3>1, <3>3
    <3> HIDE DEF n
    <3> QED BY <1>1, <3>1, <3>2, <3>3, <3>5, <3>6, <3>7 DEF OpenInv, GetOver
  <2>2. ASSUME NEW p \in get[d].items
        PROVE  [photo |-> p, original |-> MayHave(d, p),
                name |-> IF MayHave(d, p) THEN NameOf[p] ELSE Append(NameOf[p], 0)] \in FileRecord
    <3>1. p \in Photos BY <1>0 DEF GetRecord
    <3>2. NameOf[p] \in Seq(Nat) /\ Append(NameOf[p], 0) \in Seq(Nat)
      BY <3>1, PhotosAssumption
    <3>3. MayHave(d, p) \in BOOLEAN BY DEF MayHave
    <3> QED BY <3>1, <3>2, <3>3 DEF FileRecord
  <2> QED BY <1>5, <1>13, <2>1, <2>2 DEF OpenVersion
<1>14. CASE SendFile(d)
  BY <1>5, <1>14 DEF SendFile
<1>15. CASE ZipFile(d)
  <2> DEFINE j == get[d].sent + 1 n == Len(get[d].files)
  <2>1. CASE get' = [get EXCEPT ![d] = [@ EXCEPT !.sent = j, !.open = get[d].open \ {j},
                  !.pc = IF j = n THEN "done" ELSE "send"]]
    <3>1. get[d].sent < n /\ get[d].asked.op = "download"
      BY <1>15 DEF ZipFile, OpenInv, GetOver
    <3>2. j \in Nat /\ n \in Nat /\ j <= n BY <1>2, <3>1
    <3>3. get[d].open = j..n BY <1>3
    <3> HIDE DEF j, n
    <3>4. /\ get'[d].files = get[d].files /\ get'[d].sent = j /\ get'[d].open = get[d].open \ {j}
          /\ get'[d].pc = IF j = n THEN "done" ELSE "send"
      BY <1>0, <2>1 DEF GetRecord
    <3>5. get'[d].open = (j + 1)..n BY <3>2, <3>3, <3>4
    <3>6. CASE j = n
      <4>1. get'[d].open = {} /\ j <= Len(get'[d].files) BY <3>2, <3>4, <3>5, <3>6 DEF n
      <4> QED BY <1>1, <3>1, <3>4, <3>6, <4>1 DEF OpenInv, GetOver
    <3>7. CASE j # n
      <4>1. j < n /\ j <= n /\ n = Len(get'[d].files) BY <3>2, <3>4, <3>7 DEF n
      <4> QED BY <1>1, <3>1, <3>4, <3>5, <3>7, <4>1 DEF OpenInv, GetOver
    <3> QED BY <3>6, <3>7
  <2> QED BY <1>5, <1>15, <2>1 DEF ZipFile
<1> QED BY <1>7, <1>8, <1>9, <1>10, <1>11, <1>12, <1>13, <1>14, <1>15 DEF GetStep

\* Every step keeps what is known of every call.
LEMMA NextDownloadsInv ==
  ASSUME TypeOk, GrantsInv, DownloadsInv, [Next]_vars
  PROVE  DownloadsInv'
<1> SUFFICES ASSUME NEW d \in Downloaders
             PROVE  ServedInv(d)' /\ OpenInv(d)' /\ (get'[d].pc \in Judging => JudgingInv(d)')
  BY DEF DownloadsInv
<1>0. ServedInv(d) /\ OpenInv(d) /\ (get[d].pc \in Judging => JudgingInv(d))
  BY DEF DownloadsInv
<1>1. CASE get'[d] = get[d]
  <2>1. OpenInv(d)' BY <1>0, <1>1 DEF OpenInv
  <2> QED BY <1>0, <1>1, <2>1, OthersKeep
<1>2. CASE BeginGet(d) /\ Observe
  BY <1>0, <1>2, BeginsEmpty
<1>3. CASE GetStep(d) /\ Observe
  <2>1. OpenInv(d)' BY <1>0, <1>3, OpensAndCloses
  <2>2. CASE ReadCompetition(d) \/ ReadOwnGrant(d) \/ ReadClock(d)
    <3>1. get \in [Downloaders -> GetRecord] /\ get[d].pc \in Judging
      BY <2>2 DEF TypeOk, ReadCompetition, ReadOwnGrant, ReadClock, Judging
    <3>2. get'[d].files = get[d].files /\ get'[d].shown = get[d].shown
      <4>1. CASE \E g \in GrantOf(grants, CompOf(d), get[d].asked.actor) :
                   get' = [get EXCEPT ![d] = [@ EXCEPT !.row = g, !.pc = "clock"]]
        BY <3>1, <4>1 DEF GetRecord
      <4>2. CASE \E pc : GoOn(d, pc) \/ End(d, pc) BY <3>1, <4>2, PlainKeeps
      <4>3. CASE \E can : Decided(d, can) BY <3>1, <4>3, PlainKeeps
      <4> QED BY <2>2, <4>1, <4>2, <4>3 DEF ReadCompetition, ReadOwnGrant, ReadClock
    <3>3. ServedInv(d)' BY <1>0, <1>3, <3>2, ServesNothing
    <3> QED BY <1>0, <1>3, <2>1, <2>2, <3>1, <3>3, JudgesRightly
  <2>3. CASE ~(ReadCompetition(d) \/ ReadOwnGrant(d) \/ ReadClock(d))
    BY <1>0, <1>3, <2>1, <2>3, ServesRightly
  <2> QED BY <2>2, <2>3
<1> QED BY <1>1, <1>2, <1>3, NextMoves DEF Moves, Next

\* A call shows and serves what its actor was entitled to, of photos that were there,
\* and never more or less.
LEMMA DownloadsAlways == Spec => []DownloadsInv
<1>1. Init => DownloadsInv
  <2> SUFFICES ASSUME Init, NEW d \in Downloaders
               PROVE  ServedInv(d) /\ OpenInv(d) /\ get[d].pc \notin Judging
    BY DEF DownloadsInv
  <2>1. get[d] = Idle /\ since[d] = Fresh BY DEF Init
  <2>2. Served(d) = {} BY <2>1 DEF Served, Idle
  <2> QED BY <2>1, <2>2 DEF ServedInv, OpenInv, Idle, Fresh, Judging, GetOver
<1>2. TypeOk /\ GrantsInv /\ DownloadsInv /\ [Next]_vars => DownloadsInv'
  BY NextDownloadsInv
<1> QED BY <1>1, <1>2, DownloadsTypeCorrect, PTL DEF Spec

\* An original is opened, or shown as one to download, only for the author of the
\* photo and for users entitled to it at some moment of the call, although the
\* organizer, the grant and the clock are read at different moments.
THEOREM OriginalsAreProtected == Spec => []OriginalsAreEntitled
<1>1. DownloadsInv => OriginalsAreEntitled
  BY DEF DownloadsInv, ServedInv, Rightly, OriginalsAreEntitled
<1> QED BY <1>1, DownloadsAlways, PTL

\* The watermarked variant is served only to a user who was not entitled at some
\* moment of the call, unless the organizer or the grant was written during it.
THEOREM WatermarksAreEarned == Spec => []EntitledGetOriginals
<1>1. DownloadsInv => EntitledGetOriginals
  BY DEF DownloadsInv, ServedInv, Rightly, EntitledGetOriginals
<1> QED BY <1>1, DownloadsAlways, PTL

\* A photo that was deleted before a call began is neither shown nor served by it.
THEOREM DeletedStaysHidden == Spec => []DeletedIsNotServed
<1>1. DownloadsInv => DeletedIsNotServed
  BY DEF DownloadsInv, ServedInv, Rightly, DeletedIsNotServed
<1> QED BY <1>1, DownloadsAlways, PTL

\* No reader stays open once a call has ended, however it ends.
THEOREM NoReaderLeaks == Spec => []ReadersClosed
<1>1. DownloadsInv => ReadersClosed
  BY DEF DownloadsInv, OpenInv, ReadersClosed
<1> QED BY <1>1, DownloadsAlways, PTL

-----------------------------------------------------------------------------
(* The names in a zip.                                                     *)

\* How many of the files up to j are named like the file j.
Repeats(f, j) == Cardinality({i \in 1..j : f[i].name = f[j].name})

\* It is one at least, at most j, and grows from one of a name to the next.
LEMMA RepeatsGrow ==
  ASSUME NEW f, NEW j \in Nat \ {0}
  PROVE  /\ Repeats(f, j) \in 1..j
         /\ \A i \in 1..(j - 1) : f[i].name = f[j].name => Repeats(f, i) < Repeats(f, j)
<1> DEFINE R(k) == {i \in 1..k : f[i].name = f[j].name}
<1>0. \A k \in Nat : IsFiniteSet(R(k)) /\ Cardinality(R(k)) \in Nat /\ Cardinality(R(k)) <= k
  <2> SUFFICES ASSUME NEW k \in Nat
               PROVE  IsFiniteSet(R(k)) /\ Cardinality(R(k)) \in Nat /\ Cardinality(R(k)) <= k
    OBVIOUS
  <2>1. IsFiniteSet(1..k) /\ Cardinality(1..k) = k BY FS_Interval
  <2>2. R(k) \in SUBSET (1..k) OBVIOUS
  <2> QED BY <2>1, <2>2, FS_Subset, FS_CardinalityType
<1>1. Repeats(f, j) = Cardinality(R(j)) BY DEF Repeats
<1>2. R(j) = R(j - 1) \cup {j} /\ j \notin R(j - 1) OBVIOUS
<1>3. Cardinality(R(j)) = Cardinality(R(j - 1)) + 1
  <2>1. IsFiniteSet(R(j - 1)) BY <1>0
  <2> HIDE DEF R
  <2> QED BY <1>2, <2>1, FS_AddElement
<1>4. ASSUME NEW i \in 1..(j - 1), f[i].name = f[j].name
      PROVE  Repeats(f, i) < Repeats(f, j)
  <2>1. Repeats(f, i) = Cardinality(R(i)) BY <1>4 DEF Repeats
  <2>2. R(i) \in SUBSET R(j - 1) /\ IsFiniteSet(R(j - 1)) BY <1>0
  <2>3. Cardinality(R(i)) <= Cardinality(R(j - 1)) BY <2>2, FS_Subset
  <2>4. Cardinality(R(i)) \in Nat /\ Cardinality(R(j - 1)) \in Nat BY <1>0
  <2> HIDE DEF R
  <2> QED BY <1>1, <1>3, <2>1, <2>3, <2>4
<1>5. Cardinality(R(j)) \in Nat /\ Cardinality(R(j - 1)) \in Nat /\ Cardinality(R(j)) <= j BY <1>0
<1> HIDE DEF R
<1> QED BY <1>1, <1>3, <1>4, <1>5

\* Two files of a zip have different names, unless one is named like the other with
\* a number added.
LEMMA NamesDiffer ==
  ASSUME NEW f \in Seq(FileRecord), NEW i \in 1..Len(f), NEW j \in 1..Len(f), i < j,
         \A a, b \in DOMAIN f, n \in 2..Len(f) : f[a].name # Append(f[b].name, n)
  PROVE  UniqueZipName(f, i) # UniqueZipName(f, j)
<1> DEFINE x == f[i].name
           y == f[j].name
           m == Repeats(f, i)
           n == Repeats(f, j)
<1>1. x \in Seq(Nat) /\ y \in Seq(Nat)
  <2>1. f[i] \in FileRecord /\ f[j] \in FileRecord BY ElementOfSeq
  <2>2. \A r \in FileRecord : r.name \in Seq(Nat) BY DEF FileRecord
  <2> QED BY <2>1, <2>2
<1>2. Len(f) \in Nat /\ DOMAIN f = 1..Len(f) OBVIOUS
<1>3. m \in 1..Len(f) /\ n \in 1..Len(f)
  <2>1. m \in 1..i /\ n \in 1..j BY <1>2, RepeatsGrow
  <2> QED BY <1>2, <2>1
<1>4. x = y => m < n
  <2>1. i \in 1..(j - 1) BY <1>2
  <2> QED BY <1>2, <2>1, RepeatsGrow
<1>5. /\ UniqueZipName(f, i) = IF m = 1 THEN x ELSE Append(x, m)
      /\ UniqueZipName(f, j) = IF n = 1 THEN y ELSE Append(y, n)
  BY DEF UniqueZipName, Repeats
<1>6. \A k \in 2..Len(f) : x # Append(y, k) /\ y # Append(x, k)
  BY <1>2
<1> HIDE DEF x, y, m, n
<1>7. CASE m = 1 /\ n = 1 BY <1>4, <1>5, <1>7
<1>8. CASE m = 1 /\ n # 1 BY <1>2, <1>3, <1>5, <1>6, <1>8
<1>9. CASE m # 1 /\ n = 1 BY <1>2, <1>3, <1>5, <1>6, <1>9
<1>10. CASE m # 1 /\ n # 1
  <2>1. m \in Nat /\ n \in Nat BY <1>2, <1>3
  <2>2. Append(x, m) = Append(y, n) => x = y /\ m = n BY <1>1, <2>1, AppendInjective
  <2>3. ~(x = y /\ m = n) BY <1>4, <2>1
  <2> QED BY <1>5, <1>10, <2>2, <2>3
<1> QED BY <1>7, <1>8, <1>9, <1>10

\* The files of a zip have different names, unless one of them is named like
\* another with a number added: the numbers only grow from one of a name to the next.
THEOREM ZipNamesDiffer == Spec => []ZipNamesDistinct
<1>1. TypeOk /\ DownloadsInv => ZipNamesDistinct
  <2> SUFFICES ASSUME TypeOk, DownloadsInv, NEW d \in Downloaders,
                 \A a, b \in DOMAIN get[d].files, n \in 2..Len(get[d].files) :
                   get[d].files[a].name # Append(get[d].files[b].name, n),
                 NEW i \in 1..get[d].sent, NEW j \in 1..get[d].sent, i # j
               PROVE  UniqueZipName(get[d].files, i) # UniqueZipName(get[d].files, j)
    BY DEF ZipNamesDistinct
  <2>1. get[d].files \in Seq(FileRecord) /\ get[d].sent \in Nat BY DEF TypeOk, GetRecord
  <2>2. get[d].sent <= Len(get[d].files) BY DEF DownloadsInv, OpenInv
  <2>3. i \in 1..Len(get[d].files) /\ j \in 1..Len(get[d].files) /\ (i < j \/ j < i)
    BY <2>1, <2>2
  <2>4. CASE i < j BY <2>1, <2>3, <2>4, NamesDiffer
  <2>5. CASE j < i
    <3>1. UniqueZipName(get[d].files, j) # UniqueZipName(get[d].files, i)
      BY <2>1, <2>3, <2>5, NamesDiffer
    <3> QED BY <3>1
  <2> QED BY <2>3, <2>4, <2>5
<1> QED BY <1>1, DownloadsAlways, DownloadsTypeCorrect, PTL
=============================================================================

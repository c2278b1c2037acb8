--------------------------- MODULE SessionsProofs ---------------------------
(***************************************************************************)
(* Proofs about Sessions, for any number of clients, logins and tokens.    *)
(***************************************************************************)
EXTENDS Sessions, TLAPS

Pcs == Over \cup {"lookup", "insert", "find", "create", "active", "user", "revoke",
                  "auth", "update"}

\* What does not change in a call but where it is.
Same(c) == /\ call'[c].op = call[c].op /\ call'[c].who = call[c].who
           /\ call'[c].secret = call[c].secret /\ call'[c].token = call[c].token
           /\ call'[c].session = call[c].session
           /\ call'[c].target = call[c].target /\ call'[c].value = call[c].value
           /\ \A d \in Clients \ {c} : call'[d] = call[d]

\* Goto moves one call and leaves what it knows and all other calls alone.
LEMMA GotoMoves ==
  ASSUME TypeOk, NEW c \in Clients, NEW pc \in Pcs, Goto(c, pc)
  PROVE  call' \in [Clients -> CallRecord] /\ call'[c].pc = pc /\ Same(c)
  BY DEF TypeOk, Goto, CallRecord, Pcs, Same

\* What a call is when it begins.
Fresh(k) ==
  /\ k \in CallRecord
  /\ WellFormed(k)
  /\ k.pc = FirstStep(k.op)

\* A request is such a record.
LEMMA RequestIsFresh ==
  ASSUME NEW op \in Operations, NEW who \in Users, NEW secret \in Passwords \cup {None},
         NEW t, t.id \in Nat, t.session \in Nat,
         NEW target \in Users \cup {None}, NEW value \in Roles \cup Statuses \cup {None},
         op \in {"register", "login"} => secret \in Passwords /\ t.id = 0,
         op = "role" => value \in Roles, op = "status" => value \in Statuses
  PROVE  Fresh(Request(op, who, secret, t, target, value))
<1>1. FirstStep(op) \in Pcs
  BY DEF FirstStep, Pcs, Operations, AdminOps
<1> QED BY <1>1 DEF Fresh, WellFormed, Request, CallRecord, Pcs

\* Begin starts one call with a request.
LEMMA BeginMoves ==
  ASSUME TypeOk, NEW c \in Clients, Begin(c)
  PROVE  \E k : Fresh(k) /\ call' = [call EXCEPT ![c] = k]
<1>0. NoToken.id = 0 /\ NoToken.session = 0
  BY DEF NoToken
<1>1. CASE \E op \in {"register", "login"}, u \in Users, p \in Passwords :
             Start(c, Request(op, u, p, NoToken, None, None))
  <2>1. PICK op \in {"register", "login"}, u \in Users, p \in Passwords :
          call' = [call EXCEPT ![c] = Request(op, u, p, NoToken, None, None)]
    BY <1>1 DEF Start
  <2>2. op \in Operations
    BY DEF Operations
  <2>3. Fresh(Request(op, u, p, NoToken, None, None))
    BY <1>0, <2>2, RequestIsFresh
  <2> QED BY <2>1, <2>3
<1>2. CASE \E op \in {"refresh", "logout"}, t \in tokens :
             Start(c, Request(op, t.user, None, t, None, None))
  <2>1. \A t \in tokens : t.user \in Users /\ t.id \in Nat /\ t.session \in Nat
    BY DEF TypeOk
  <2>2. PICK op \in {"refresh", "logout"}, t \in tokens :
          call' = [call EXCEPT ![c] = Request(op, t.user, None, t, None, None)]
    BY <1>2 DEF Start
  <2>3. op \in Operations
    BY DEF Operations
  <2>4. Fresh(Request(op, t.user, None, t, None, None))
    BY <2>1, <2>3, RequestIsFresh
  <2> QED BY <2>2, <2>4
<1>3. CASE \E u \in Users : Start(c, Request("me", u, None, NoToken, None, None))
  <2>1. PICK u \in Users : call' = [call EXCEPT ![c] = Request("me", u, None, NoToken, None, None)]
    BY <1>3 DEF Start
  <2>2. "me" \in Operations
    BY DEF Operations
  <2>3. Fresh(Request("me", u, None, NoToken, None, None))
    BY <1>0, <2>2, RequestIsFresh
  <2> QED BY <2>1, <2>3
<1>4. CASE \E u, v \in Users, x \in NewRoles : Start(c, Request("role", u, None, NoToken, v, x))
  <2>1. PICK u \in Users, v \in Users, x \in NewRoles :
          call' = [call EXCEPT ![c] = Request("role", u, None, NoToken, v, x)]
    BY <1>4 DEF Start
  <2>2. /\ "role" \in Operations /\ x \in Roles
        /\ None \in Passwords \cup {None} /\ v \in Users \cup {None}
        /\ x \in Roles \cup Statuses \cup {None}
    BY RequestsAssumption DEF Operations, AdminOps
  <2>3. Fresh(Request("role", u, None, NoToken, v, x))
    BY <1>0, <2>2, RequestIsFresh
  <2> QED BY <2>1, <2>3
<1>5. CASE \E u, v \in Users, x \in NewStatuses : Start(c, Request("status", u, None, NoToken, v, x))
  <2>1. PICK u \in Users, v \in Users, x \in NewStatuses :
          call' = [call EXCEPT ![c] = Request("status", u, None, NoToken, v, x)]
    BY <1>5 DEF Start
  <2>2. /\ "status" \in Operations /\ x \in Statuses
        /\ None \in Passwords \cup {None} /\ v \in Users \cup {None}
        /\ x \in Roles \cup Statuses \cup {None}
    BY RequestsAssumption DEF Operations, AdminOps
  <2>3. Fresh(Request("status", u, None, NoToken, v, x))
    BY <1>0, <2>2, RequestIsFresh
  <2> QED BY <2>1, <2>3
<1> QED BY <1>1, <1>2, <1>3, <1>4, <1>5 DEF Begin

\* A client's step either begins a call or moves one on.
Moves(c) ==
  /\ call' \in [Clients -> CallRecord]
  /\ \/ /\ call[c].pc = "start" /\ UNCHANGED <<users, sessions>>
        /\ \E k : Fresh(k) /\ call' = [call EXCEPT ![c] = k]
     \/ call[c].pc # "start" /\ call'[c].pc # "start" /\ Same(c)

\* What a step of a client changes.
LEMMA ClientMoves ==
  ASSUME TypeOk, NEW c \in Clients, ClientStep(c)
  PROVE  Moves(c)
<1>0. /\ {"ok", "error", "insert", "create", "user", "revoke", "update"} \subseteq Pcs
      /\ "start" \notin {"ok", "error", "insert", "create", "user", "revoke", "update"}
  BY DEF Pcs, Over
<1>1. CASE Begin(c)
  <2>1. PICK k : Fresh(k) /\ call' = [call EXCEPT ![c] = k]
    BY <1>1, BeginMoves
  <2>2. call' \in [Clients -> CallRecord]
    BY <2>1 DEF Fresh, TypeOk
  <2> QED BY <1>1, <2>1, <2>2 DEF Begin, Moves
<1>2. ASSUME call[c].pc # "start",
             NEW pc \in {"ok", "error", "insert", "create", "user", "revoke", "update"},
             Goto(c, pc)
      PROVE  Moves(c)
  BY <1>0, <1>2, GotoMoves DEF Moves
<1>3. CASE LookUpLogin(c) BY <1>2, <1>3 DEF LookUpLogin
<1>4. CASE CreateUser(c) BY <1>2, <1>4 DEF CreateUser
<1>5. CASE CheckCredentials(c) BY <1>2, <1>5 DEF CheckCredentials
<1>6. CASE CreateToken(c) BY <1>2, <1>6 DEF CreateToken
<1>7. CASE GetActiveByHash(c) BY <1>2, <1>7 DEF GetActiveByHash
<1>8. CASE CheckStatus(c) BY <1>2, <1>8 DEF CheckStatus
<1>9. CASE RevokeByHash(c) BY <1>2, <1>9 DEF RevokeByHash
<1>10. CASE RequireAuth(c) BY <1>2, <1>10 DEF RequireAuth
<1>11. CASE UpdateUser(c) BY <1>2, <1>11 DEF UpdateUser
<1> QED BY <1>1, <1>3, <1>4, <1>5, <1>6, <1>7, <1>8, <1>9, <1>10, <1>11 DEF ClientStep

-----------------------------------------------------------------------------
\* Every request keeps what it holds.
LEMMA RequestStep ==
  ASSUME TypeOk, RequestInv, NEW c \in Clients, Moves(c)
  PROVE  RequestInv'
<1>1. CASE \E k : Fresh(k) /\ call' = [call EXCEPT ![c] = k]
  BY <1>1 DEF RequestInv, Fresh, TypeOk
<1>2. CASE call[c].pc # "start" /\ Same(c)
  BY <1>2 DEF RequestInv, WellFormed, Same
<1> QED BY <1>1, <1>2 DEF Moves

\* Every variable keeps its type in a client's step.
LEMMA ClientTypeOk ==
  ASSUME TypeOk, RequestInv, NEW c \in Clients, ClientStep(c), Observe
  PROVE  TypeOk' /\ RequestInv'
<1>1. Moves(c)
  BY ClientMoves
<1>2. RequestInv'
  BY <1>1, RequestStep
<1>3. call' \in [Clients -> CallRecord] /\ barred' \subseteq Clients \X Facets
  BY <1>1 DEF Moves, Observe
<1>4. CASE UNCHANGED <<users, sessions>>
  <2>1. UNCHANGED <<password, role, status, tokens, nextToken, revoked, expired, held>>
    BY <1>4 DEF users, sessions
  <2> QED BY <1>2, <1>3, <2>1 DEF TypeOk
<1>5. CASE CreateUser(c)
  <2>1. call[c].secret \in Passwords \cup {None}
    BY DEF TypeOk, CallRecord
  <2>2. password' \in [Users -> Passwords \cup {None}] /\ role' \in [Users -> Roles]
        /\ status' \in [Users -> Statuses]
    BY <1>5, <2>1 DEF CreateUser, users, TypeOk, Roles, Statuses
  <2> QED BY <1>2, <1>3, <1>5, <2>2 DEF CreateUser, sessions, TypeOk
<1>6. CASE CreateToken(c)
  <2>1. call[c].who \in Users /\ call[c].token \in Nat /\ call[c].session \in Nat
    BY <1>6 DEF CreateToken, RequestInv, WellFormed, TypeOk, CallRecord
  <2>2. nextToken \in Nat /\ nextToken' \in Nat /\ held' \subseteq Nat
    BY <1>6 DEF CreateToken, TypeOk
  <2>3. tokens' \subseteq [id : Nat, user : Users, from : Nat, session : Nat]
    BY <1>6, <2>1, <2>2 DEF CreateToken, TypeOk
  <2> QED BY <1>2, <1>3, <1>6, <2>2, <2>3 DEF CreateToken, users, TypeOk
<1>7. CASE RevokeByHash(c)
  <2>1. call[c].token \in Nat
    BY DEF TypeOk, CallRecord
  <2> QED BY <1>2, <1>3, <1>7, <2>1 DEF RevokeByHash, users, TypeOk
<1>8. CASE UpdateUser(c)
  <2>1. (call[c].op = "role" => call[c].value \in Roles)
        /\ (call[c].op = "status" => call[c].value \in Statuses)
    BY <1>8 DEF UpdateUser, RequestInv, WellFormed
  <2>2. role' \in [Users -> Roles] /\ status' \in [Users -> Statuses]
    BY <1>8, <2>1 DEF UpdateUser, TypeOk
  <2> QED BY <1>2, <1>3, <1>8, <2>2 DEF UpdateUser, sessions, TypeOk
<1>9. CASE LookUpLogin(c) \/ CheckCredentials(c) \/ GetActiveByHash(c) \/ CheckStatus(c)
           \/ RequireAuth(c) \/ Begin(c)
  BY <1>4, <1>9 DEF LookUpLogin, CheckCredentials, GetActiveByHash, CheckStatus,
                    RequireAuth, Begin
<1> QED BY <1>2, <1>5, <1>6, <1>7, <1>8, <1>9 DEF ClientStep

\* Every variable has its type, whatever the clients do and whichever statement fails.
THEOREM SessionsTypeCorrect == Spec => [](TypeOk /\ RequestInv)
<1>1. Init => TypeOk /\ RequestInv
  <2> SUFFICES ASSUME Init PROVE TypeOk /\ RequestInv
    OBVIOUS
  <2>1. password \in [Users -> Passwords \cup {None}] /\ role \in [Users -> Roles]
        /\ status \in [Users -> Statuses]
    BY AccountsAssumption DEF Init, Roles, Statuses
  <2>2. call \in [Clients -> CallRecord]
    BY DEF Init, CallRecord, Over, Operations
  <2> QED BY <2>1, <2>2 DEF Init, TypeOk, RequestInv
<1>2. TypeOk /\ RequestInv /\ [Next]_vars => TypeOk' /\ RequestInv'
  <2> SUFFICES ASSUME TypeOk, RequestInv, [Next]_vars PROVE TypeOk' /\ RequestInv'
    OBVIOUS
  <2>1. CASE Observe /\ \E c \in Clients : ClientStep(c) BY <2>1, ClientTypeOk
  <2>2. CASE Observe /\ Expire
    BY <2>2 DEF Expire, Observe, users, TypeOk, RequestInv
  <2>3. CASE UNCHANGED vars
    BY <2>3 DEF vars, users, sessions, TypeOk, RequestInv
  <2> QED BY <2>1, <2>2, <2>3 DEF Next
<1> QED BY <1>1, <1>2, PTL DEF Spec

-----------------------------------------------------------------------------
\* What the observation records.
LEMMA BarredMeans ==
  ASSUME Observe, NEW c \in Clients, NEW facet \in Facets
  PROVE  <<c, facet>> \in barred' <=>
           /\ <<c, facet>> \in barred \/ (call[c].pc = "start" /\ call'[c].pc # "start")
           /\ Lacks(c, facet)'
<1> DEFINE x == <<c, facet>>
<1>1. x \in Clients \X Facets /\ x[1] = c /\ x[2] = facet
  OBVIOUS
<1> QED BY <1>1 DEF Observe

\* What a call has been found to have is not lost by a step that does not begin it.
LEMMA FoundStays ==
  ASSUME Observe, NEW c \in Clients, call[c].pc # "start" \/ call'[c].pc = "start"
  PROVE  /\ \A facet \in Facets : <<c, facet>> \notin barred => <<c, facet>> \notin barred'
         /\ Clear(c) => Clear(c)'
  BY BarredMeans DEF Clear

\* A call that lacks nothing after a step is then barred from nothing.
LEMMA NothingLacking ==
  ASSUME Observe, NEW c \in Clients, \A facet \in Facets : ~Lacks(c, facet)'
  PROVE  Clear(c)'
  BY BarredMeans DEF Clear

\* The checks of a client's own step.
LEMMA OwnStepChecks ==
  ASSUME TypeOk, ChecksInv, NEW c \in Clients, ClientStep(c), Observe
  PROVE  Checked(c)'
<1>0. Checked(c) /\ Moves(c)
  BY ClientMoves DEF ChecksInv
<1>1. CASE Begin(c)
  <2>1. PICK k : Fresh(k) /\ call' = [call EXCEPT ![c] = k]
    BY <1>1, BeginMoves
  <2>2. call'[c] = k /\ k.pc = FirstStep(k.op) /\ k.op \in Operations
    BY <2>1 DEF TypeOk, Fresh, CallRecord
  <2>3. CASE k.op = "logout"
    <3>1. \A facet \in Facets : ~Lacks(c, facet)'
      BY <2>2, <2>3 DEF Lacks, AdminOps
    <3> QED BY <2>2, <2>3, <3>1, NothingLacking DEF Checked, FirstStep
  <2> QED BY <2>2, <2>3 DEF Checked, FirstStep, Operations, AdminOps
<1> DEFINE k == call[c]
           next == call'[c]
<1>2. ASSUME k.pc # "start", Same(c)
      PROVE  /\ next.op = k.op /\ next.who = k.who /\ next.secret = k.secret
             /\ next.token = k.token
             /\ \A facet \in Facets : <<c, facet>> \notin barred => <<c, facet>> \notin barred'
             /\ Clear(c) => Clear(c)'
  BY <1>2, FoundStays DEF Same
<1>3. ASSUME NEW pc \in Pcs, Goto(c, pc) PROVE next.pc = pc /\ Same(c)
  BY <1>3, GotoMoves
<1>4. CASE LookUpLogin(c)
  <2>1. Same(c) /\ next.pc \in {"insert", "error"} /\ k.op = "register"
    BY <1>0, <1>3, <1>4 DEF LookUpLogin, Pcs, Over, Checked
  <2> QED BY <1>2, <1>4, <2>1 DEF Checked, LookUpLogin
<1>5. CASE CreateUser(c)
  <2>1. Same(c) /\ next.pc \in {"ok", "error"} /\ k.op = "register"
    BY <1>0, <1>3, <1>5 DEF CreateUser, Pcs, Over, Checked
  <2>2. \A facet \in Facets : ~Lacks(c, facet)'
    BY <1>2, <1>5, <2>1 DEF Lacks, AdminOps, CreateUser
  <2> QED BY <2>1, <2>2, NothingLacking DEF Checked
<1>6. CASE CheckCredentials(c)
  <2>1. Same(c) /\ k.op = "login" /\ next.op = "login"
    BY <1>0, <1>2, <1>3, <1>6 DEF CheckCredentials, Pcs, Over, Checked
  <2>2. next.pc = "error" \/
        (next.pc = "create" /\ status[k.who] = "active" /\ password[k.who] = k.secret)
    BY <1>3, <1>6 DEF CheckCredentials, Pcs, Over
  <2>3. CASE next.pc = "create"
    <3>1. \A facet \in Facets : ~Lacks(c, facet)'
      BY <1>2, <1>6, <2>1, <2>2, <2>3 DEF CheckCredentials, users, Lacks, AdminOps
    <3> QED BY <2>1, <2>3, <3>1, NothingLacking DEF Checked
  <2> QED BY <2>1, <2>2, <2>3 DEF Checked
<1>7. CASE CreateToken(c)
  <2>1. Same(c) /\ next.pc \in {"ok", "error"} /\ Clear(c)
    BY <1>0, <1>3, <1>7 DEF CreateToken, Pcs, Over, Checked
  <2> QED BY <1>2, <1>7, <2>1 DEF Checked, CreateToken
<1>8. CASE GetActiveByHash(c)
  <2>1. Same(c) /\ k.op = "refresh" /\ next.op = "refresh" /\ next.token = k.token
    BY <1>0, <1>2, <1>3, <1>8 DEF GetActiveByHash, Pcs, Over, Checked
  <2>2. next.pc = "error" \/ (next.pc = "user" /\ Live(k.token))
    BY <1>3, <1>8 DEF GetActiveByHash, Pcs, Over
  <2>3. CASE next.pc = "user"
    <3>1. Live(k.token)'
      BY <1>8, <2>1, <2>2, <2>3 DEF GetActiveByHash, sessions, Live
    <3>2. ~Lacks(c, "token")'
      BY <2>1, <3>1 DEF Lacks, Live
    <3>3. <<c, "token">> \notin barred'
      BY <3>2, BarredMeans DEF Facets
    <3> QED BY <2>1, <2>3, <3>3 DEF Checked
  <2> QED BY <2>1, <2>2, <2>3 DEF Checked
<1>9. CASE CheckStatus(c)
  <2>1. Same(c) /\ k.op = "refresh" /\ next.op = "refresh" /\ next.who = k.who
        /\ <<c, "token">> \notin barred
    BY <1>0, <1>2, <1>3, <1>9 DEF CheckStatus, Pcs, Over, Checked
  <2>2. next.pc = "error" \/ (next.pc = "revoke" /\ status[k.who] = "active")
    BY <1>3, <1>9 DEF CheckStatus, Pcs, Over
  <2>3. CASE next.pc = "revoke"
    <3>1. \A facet \in Facets : facet # "token" => ~Lacks(c, facet)'
      BY <1>9, <2>1, <2>2, <2>3 DEF CheckStatus, users, Lacks, AdminOps
    <3>2. <<c, "token">> \notin barred'
      BY <1>2, <1>9, <2>1 DEF CheckStatus, Facets
    <3>3. Clear(c)'
      BY <3>1, <3>2, BarredMeans DEF Clear
    <3> QED BY <2>1, <2>3, <3>3 DEF Checked
  <2> QED BY <2>1, <2>2, <2>3 DEF Checked
<1>10. CASE RevokeByHash(c)
  <2>1. Same(c) /\ Clear(c) /\ next.pc \in {"error", "ok", "create"}
        /\ (next.pc = "create" => k.op = "refresh")
    BY <1>0, <1>3, <1>10 DEF RevokeByHash, Pcs, Over, Checked
  <2> QED BY <1>2, <1>10, <2>1 DEF Checked, RevokeByHash
<1>11. CASE RequireAuth(c)
  <2>1. Same(c) /\ k.op \in {"me"} \cup AdminOps /\ next.op = k.op /\ next.who = k.who
    BY <1>0, <1>2, <1>3, <1>11 DEF RequireAuth, Pcs, Over, Checked
  <2>2. next.pc = "error" \/
        /\ next.pc \in {"update", "ok"}
        /\ next.pc = "update" => k.op \in AdminOps
        /\ status[k.who] = "active"
        /\ k.op \in AdminOps => role[k.who] = "admin"
    BY <1>3, <1>11 DEF RequireAuth, MayChange, Pcs, Over
  <2>3. CASE next.pc # "error"
    <3>1. \A facet \in Facets : ~Lacks(c, facet)'
      BY <1>11, <2>1, <2>2, <2>3 DEF RequireAuth, users, Lacks, AdminOps
    <3> QED BY <2>1, <2>2, <2>3, <3>1, NothingLacking DEF Checked
  <2> QED BY <2>1, <2>3 DEF Checked
<1>12. CASE UpdateUser(c)
  <2>1. Same(c) /\ Clear(c) /\ next.pc \in {"ok", "error"}
    BY <1>0, <1>3, <1>12 DEF UpdateUser, Pcs, Over, Checked
  <2> QED BY <1>2, <1>12, <2>1 DEF Checked, UpdateUser
<1> QED BY <1>1, <1>4, <1>5, <1>6, <1>7, <1>8, <1>9, <1>10, <1>11, <1>12 DEF ClientStep

\* The strengthening is inductive.
LEMMA ChecksStep ==
  ASSUME TypeOk, ChecksInv, [Next]_vars
  PROVE  ChecksInv'
<1>1. CASE Observe /\ \E c \in Clients : ClientStep(c)
  <2>1. PICK c \in Clients : ClientStep(c)
    BY <1>1
  <2>2. Checked(c)' /\ Moves(c)
    BY <1>1, <2>1, OwnStepChecks, ClientMoves
  <2>3. ASSUME NEW d \in Clients, d # c PROVE Checked(d)'
    <3>1. call'[d] = call[d]
      BY <2>2, <2>3 DEF Moves, Same, TypeOk
    <3>2. (Clear(d) => Clear(d)') /\ Checked(d)
          /\ (<<d, "token">> \notin barred => <<d, "token">> \notin barred')
      BY <1>1, <3>1, FoundStays DEF ChecksInv, Facets
    <3> QED BY <3>1, <3>2 DEF Checked
  <2> QED BY <1>1, <2>2, <2>3, BarredMeans DEF ChecksInv
<1>2. CASE Observe /\ Expire
  <2>1. ASSUME NEW d \in Clients PROVE Checked(d)'
    <3>1. call'[d] = call[d]
      BY <1>2 DEF Expire
    <3>2. (Clear(d) => Clear(d)') /\ Checked(d)
          /\ (<<d, "token">> \notin barred => <<d, "token">> \notin barred')
      BY <1>2, <3>1, FoundStays DEF ChecksInv, Facets
    <3> QED BY <3>1, <3>2 DEF Checked
  <2> QED BY <1>2, <2>1, BarredMeans DEF ChecksInv
<1>3. CASE UNCHANGED vars
  BY <1>3 DEF vars, users, sessions, ChecksInv, Checked, Clear, Lacks, Live
<1> QED BY <1>1, <1>2, <1>3 DEF Next

\* Nobody succeeds without an account, a token and a role that were good while the
\* call ran, whichever statement fails and however the calls overlap.
THEOREM EntitledCorrect == Spec => [](ChecksInv /\ OnlyEntitledSucceed)
<1>1. Init => ChecksInv
  BY DEF Init, ChecksInv, Checked, Clear
<1>2. TypeOk /\ ChecksInv /\ [Next]_vars => ChecksInv'
  BY ChecksStep
<1>3. ChecksInv => OnlyEntitledSucceed
  BY DEF ChecksInv, Checked, Clear, OnlyEntitledSucceed
<1> QED BY <1>1, <1>2, <1>3, SessionsTypeCorrect, PTL DEF Spec

-----------------------------------------------------------------------------
\* A client's step keeps the tokens in line: successors only of revoked tokens.
LEMMA RotationStep ==
  ASSUME TypeOk, RequestInv, ChecksInv, RotationInv, [Next]_vars
  PROVE  RotationInv'
<1>1. CASE Observe /\ \E c \in Clients : ClientStep(c)
  <2>1. PICK c \in Clients : ClientStep(c)
    BY <1>1
  <2>2. Moves(c)
    BY <2>1, ClientMoves
  <2>3. ASSUME NEW d \in Clients, d # c PROVE call'[d] = call[d]
    BY <2>2, <2>3 DEF Moves, Same, TypeOk
  <2>4. revoked \subseteq revoked'
    BY <2>1 DEF ClientStep, Begin, LookUpLogin, CreateUser, CheckCredentials, CreateToken,
                GetActiveByHash, CheckStatus, RevokeByHash, RequireAuth, UpdateUser, sessions
  <2>5. SuccessorsReplace'
    <3>1. CASE tokens' = tokens
      BY <2>4, <3>1 DEF RotationInv, SuccessorsReplace
    <3>2. CASE CreateToken(c)
      BY <2>1, <3>2 DEF RotationInv, SuccessorsReplace, CreateToken
    <3> QED BY <2>1, <3>1, <3>2 DEF ClientStep, Begin, LookUpLogin, CreateUser,
              CheckCredentials, GetActiveByHash, CheckStatus, RevokeByHash, RequireAuth,
              UpdateUser, sessions
  <2>6. call'[c].pc = "create" => call'[c].token = 0 \/ call'[c].token \in revoked'
    <3>1. ASSUME NEW pc \in Pcs, Goto(c, pc) PROVE call'[c].pc = pc /\ Same(c)
      BY <3>1, GotoMoves
    <3>2. CASE Begin(c)
      <4>1. PICK k : Fresh(k) /\ call' = [call EXCEPT ![c] = k]
        BY <3>2, BeginMoves
      <4> QED BY <4>1 DEF TypeOk, Fresh, FirstStep
    <3>3. CASE CheckCredentials(c)
      <4>1. call[c].op = "login" /\ call[c].token = 0
        BY <3>3 DEF CheckCredentials, ChecksInv, Checked, RequestInv, WellFormed
      <4> QED BY <3>1, <3>3, <4>1 DEF CheckCredentials, Pcs, Over, Same
    <3>4. CASE RevokeByHash(c)
      <4>1. PICK o \in Outcome :
              /\ revoked' = IF Applied(o) THEN revoked \cup {call[c].token} ELSE revoked
              /\ Goto(c, IF Errs(o) THEN "error"
                         ELSE IF call[c].op = "refresh" THEN "create" ELSE "ok")
        BY <3>4 DEF RevokeByHash
      <4>2. CASE Errs(o)
        BY <3>1, <4>1, <4>2 DEF Pcs, Over
      <4>3. CASE ~Errs(o)
        BY <3>1, <4>1, <4>3 DEF Pcs, Over, Same, Applied, Errs
      <4> QED BY <4>2, <4>3
    <3>5. CASE LookUpLogin(c) BY <3>1, <3>5 DEF LookUpLogin, Pcs, Over
    <3>6. CASE CreateUser(c) BY <3>1, <3>6 DEF CreateUser, Pcs, Over
    <3>7. CASE CreateToken(c) BY <3>1, <3>7 DEF CreateToken, Pcs, Over
    <3>8. CASE GetActiveByHash(c) BY <3>1, <3>8 DEF GetActiveByHash, Pcs, Over
    <3>9. CASE CheckStatus(c) BY <3>1, <3>9 DEF CheckStatus, Pcs, Over
    <3>10. CASE RequireAuth(c) BY <3>1, <3>10 DEF RequireAuth, Pcs, Over
    <3>11. CASE UpdateUser(c) BY <3>1, <3>11 DEF UpdateUser, Pcs, Over
    <3> QED BY <2>1, <3>2, <3>3, <3>4, <3>5, <3>6, <3>7, <3>8, <3>9, <3>10, <3>11
            DEF ClientStep
  <2> QED BY <2>3, <2>4, <2>5, <2>6 DEF RotationInv
<1>2. CASE Expire
  BY <1>2 DEF Expire, RotationInv, SuccessorsReplace
<1>3. CASE UNCHANGED vars
  BY <1>3 DEF vars, sessions, RotationInv, SuccessorsReplace
<1> QED BY <1>1, <1>2, <1>3 DEF Next

\* A refresh token that succeeds another exists only once that one is revoked, though
\* any number of refreshes of it overlap and any statement fails.
THEOREM SuccessorsCorrect == Spec => []SuccessorsReplace
<1>1. Init => RotationInv
  BY DEF Init, RotationInv, SuccessorsReplace
<1>2. TypeOk /\ RequestInv /\ ChecksInv /\ RotationInv /\ [Next]_vars => RotationInv'
  BY RotationStep
<1>3. RotationInv => SuccessorsReplace
  BY DEF RotationInv
<1> QED BY <1>1, <1>2, <1>3, SessionsTypeCorrect, EntitledCorrect, PTL DEF Spec

-----------------------------------------------------------------------------
\* A client's step keeps the answered registrations.
LEMMA RegistrationStep ==
  ASSUME TypeOk, RequestInv, ChecksInv, RegistrationStands, [Next]_vars
  PROVE  RegistrationStands'
<1>1. CASE \E c \in Clients : ClientStep(c)
  <2>1. PICK c \in Clients : ClientStep(c)
    BY <1>1
  <2>2. Moves(c)
    BY <2>1, ClientMoves
  <2>3. ASSUME NEW d \in Clients, d # c PROVE call'[d] = call[d]
    BY <2>2, <2>3 DEF Moves, Same, TypeOk
  <2>4. CASE CreateUser(c)
    <3>1. PICK o \in Outcome :
            IF Applied(o) /\ password[call[c].who] = None
            THEN /\ password' = [password EXCEPT ![call[c].who] = call[c].secret]
                 /\ Goto(c, IF Errs(o) THEN "error" ELSE "ok")
            ELSE Goto(c, "error") /\ UNCHANGED password
      BY <2>4 DEF CreateUser, users
    <3>2. Same(c) /\ call[c].who \in Users
      BY <2>2, <2>4 DEF Moves, CreateUser, RequestInv, WellFormed
    <3>3. CASE Applied(o) /\ password[call[c].who] = None
      <4>1. password' = [password EXCEPT ![call[c].who] = call[c].secret]
        BY <3>1, <3>3
      <4>2. ASSUME NEW d \in Clients, d # c, call[d].op = "register", call[d].pc = "ok"
            PROVE  password'[call[d].who] = call[d].secret
        <5>1. call[d].secret \in Passwords /\ password[call[d].who] = call[d].secret
          BY <4>2 DEF RequestInv, WellFormed, RegistrationStands
        <5>2. call[d].who # call[c].who
          BY <3>3, <5>1, AccountsAssumption
        <5> QED BY <4>1, <5>1, <5>2 DEF TypeOk
      <4>3. password'[call[c].who] = call[c].secret
        BY <3>2, <4>1 DEF TypeOk
      <4> QED BY <2>3, <3>2, <4>2, <4>3 DEF RegistrationStands, Same
    <3>4. CASE ~(Applied(o) /\ password[call[c].who] = None)
      <4>1. Goto(c, "error") /\ UNCHANGED password
        BY <3>1, <3>4
      <4>2. call'[c].pc = "error"
        BY <4>1, GotoMoves DEF Pcs, Over
      <4> QED BY <2>3, <4>1, <4>2 DEF RegistrationStands
    <3> QED BY <3>3, <3>4
  <2>5. CASE ~CreateUser(c)
    <3>1. password' = password
      BY <2>1, <2>5 DEF ClientStep, Begin, LookUpLogin, CheckCredentials, CreateToken,
            GetActiveByHash, CheckStatus, RevokeByHash, RequireAuth, UpdateUser, users
    <3>2. call'[c].op = "register" => call'[c].pc # "ok"
      <4>1. ASSUME NEW pc \in Pcs, Goto(c, pc)
            PROVE  call'[c].pc = pc /\ call'[c].op = call[c].op
        BY <4>1, GotoMoves DEF Same
      <4>2. CASE Begin(c)
        <5>1. PICK k : Fresh(k) /\ call' = [call EXCEPT ![c] = k]
          BY <4>2, BeginMoves
        <5> QED BY <5>1 DEF TypeOk, Fresh, FirstStep
      <4>3. CASE LookUpLogin(c) BY <4>1, <4>3 DEF LookUpLogin, Pcs, Over
      <4>4. CASE ~Begin(c) /\ ~LookUpLogin(c)
        <5>1. call[c].op # "register" /\ call[c].pc # "start"
          BY <2>1, <2>5, <4>4 DEF ClientStep, CheckCredentials, CreateToken, GetActiveByHash,
                CheckStatus, RevokeByHash, RequireAuth, UpdateUser, ChecksInv, Checked, AdminOps
        <5> QED BY <2>2, <5>1 DEF Moves, Same
      <4> QED BY <4>2, <4>3, <4>4
    <3> QED BY <2>3, <3>1, <3>2 DEF RegistrationStands
  <2> QED BY <2>4, <2>5
<1>2. CASE Expire
  BY <1>2 DEF Expire, users, RegistrationStands
<1>3. CASE UNCHANGED vars
  BY <1>3 DEF vars, users, RegistrationStands
<1> QED BY <1>1, <1>2, <1>3 DEF Next

\* Whoever was told that they are registered can log in with that password, though
\* any number of registrations of the login overlap.
THEOREM RegistrationCorrect == Spec => []RegistrationStands
<1>1. Init => RegistrationStands
  BY DEF Init, RegistrationStands
<1>2. TypeOk /\ RequestInv /\ ChecksInv /\ RegistrationStands /\ [Next]_vars
        => RegistrationStands'
  BY RegistrationStep
<1> QED BY <1>1, <1>2, SessionsTypeCorrect, EntitledCorrect, PTL DEF Spec

-----------------------------------------------------------------------------
\* A login begins without a token, a refresh and a logout with one that is there.
LEMMA BeginSession ==
  ASSUME TypeOk, NEW c \in Clients, Begin(c)
  PROVE  /\ call'[c].op = "login" => call'[c].token = 0 /\ call'[c].session = 0
         /\ call'[c].op \in {"refresh", "logout"} =>
              Continues(call'[c].token, call'[c].session)
<1>0. NoToken.id = 0 /\ NoToken.session = 0
  BY DEF NoToken
<1>1. ASSUME NEW k, Start(c, k) PROVE call'[c] = k
  BY <1>1 DEF Start, TypeOk
<1>2. CASE \E op \in {"register", "login"}, u \in Users, p \in Passwords :
             Start(c, Request(op, u, p, NoToken, None, None))
  <2>1. PICK op \in {"register", "login"}, u \in Users, p \in Passwords :
          Start(c, Request(op, u, p, NoToken, None, None))
    BY <1>2
  <2>2. call'[c] = Request(op, u, p, NoToken, None, None)
    BY <1>1, <2>1
  <2> QED BY <1>0, <2>2 DEF Request
<1>3. CASE \E op \in {"refresh", "logout"}, t \in tokens :
             Start(c, Request(op, t.user, None, t, None, None))
  <2>1. PICK op \in {"refresh", "logout"}, t \in tokens :
          Start(c, Request(op, t.user, None, t, None, None))
    BY <1>3
  <2>2. call'[c] = Request(op, t.user, None, t, None, None)
    BY <1>1, <2>1
  <2> QED BY <2>2 DEF Request, Continues
<1>4. CASE \E u \in Users : Start(c, Request("me", u, None, NoToken, None, None))
  <2>1. PICK u \in Users : Start(c, Request("me", u, None, NoToken, None, None))
    BY <1>4
  <2>2. call'[c] = Request("me", u, None, NoToken, None, None)
    BY <1>1, <2>1
  <2> QED BY <2>2 DEF Request
<1>5. CASE \E u, v \in Users, x \in NewRoles : Start(c, Request("role", u, None, NoToken, v, x))
  <2>1. PICK u \in Users, v \in Users, x \in NewRoles :
          Start(c, Request("role", u, None, NoToken, v, x))
    BY <1>5
  <2>2. call'[c] = Request("role", u, None, NoToken, v, x)
    BY <1>1, <2>1
  <2> QED BY <2>2 DEF Request
<1>6. CASE \E u, v \in Users, x \in NewStatuses : Start(c, Request("status", u, None, NoToken, v, x))
  <2>1. PICK u \in Users, v \in Users, x \in NewStatuses :
          Start(c, Request("status", u, None, NoToken, v, x))
    BY <1>6
  <2>2. call'[c] = Request("status", u, None, NoToken, v, x)
    BY <1>1, <2>1
  <2> QED BY <2>2 DEF Request
<1> QED BY <1>2, <1>3, <1>4, <1>5, <1>6 DEF Begin

\* Calls go on with the session they have begun with.
LEMMA CallsContinueStep ==
  ASSUME TypeOk, CallsContinue, NEW c \in Clients, ClientStep(c), tokens \subseteq tokens'
  PROVE  CallsContinue'
<1>1. \A id, session : Continues(id, session) => Continues(id, session)'
  BY DEF Continues
<1>2. Moves(c)
  BY ClientMoves
<1>3. ASSUME NEW d \in Clients, d # c PROVE call'[d] = call[d]
  BY <1>2, <1>3 DEF Moves, Same, TypeOk
<1>4. CASE Begin(c)
  BY <1>1, <1>3, <1>4, BeginSession DEF CallsContinue
<1>5. CASE call[c].pc # "start" /\ Same(c)
  BY <1>1, <1>3, <1>5 DEF CallsContinue, Same
<1>6. Begin(c) \/ (call[c].pc # "start" /\ Same(c))
  <2>1. call[c].pc = "start" => Begin(c)
    BY DEF ClientStep, LookUpLogin, CreateUser, CheckCredentials, CreateToken,
           GetActiveByHash, CheckStatus, RevokeByHash, RequireAuth, UpdateUser
  <2> QED BY <1>2, <2>1 DEF Moves
<1> QED BY <1>4, <1>5, <1>6

\* A new token is a session of its own, or the successor of a token of its session.
LEMMA TreeStep ==
  ASSUME TypeOk, RequestInv, ChecksInv, TipInv, NEW c \in Clients, CreateToken(c)
  PROVE  Tree' /\ OneTip'
<1> DEFINE k == call[c]
<1>0. CallsContinue /\ Tree /\ OneTip
  BY DEF TipInv
<1>a. PICK new : new = [id |-> nextToken, user |-> k.who, from |-> k.token,
                        session |-> IF k.session = 0 THEN nextToken ELSE k.session]
  OBVIOUS
<1>1. CASE tokens' = tokens /\ nextToken' = nextToken
  BY <1>0, <1>1 DEF Tree, OneTip, Last, Branched, Continues
<1>2. CASE tokens' = tokens \cup {new} /\ nextToken' = nextToken + 1
  <2>1. k.op \in {"login", "refresh"} /\ nextToken \in Nat /\ nextToken # 0
    BY <1>0 DEF CreateToken, ChecksInv, Checked, TypeOk, Tree
  <2>2. \A t \in tokens : t.id \in Nat /\ t.id < nextToken /\ t.session \in Nat /\ t.session < nextToken
                         /\ t.id # 0 /\ t.session # 0
    BY <1>0, <2>1 DEF Tree
  <2>3. new.id = nextToken /\ new.from = k.token
        /\ new.session = IF k.session = 0 THEN nextToken ELSE k.session
    BY <1>a
  <2>4. \/ new.from = 0 /\ new.session = nextToken
        \/ \E f \in tokens : f.id = new.from /\ f.session = new.session
    <3>1. CASE k.op = "login"
      BY <1>0, <2>3, <3>1 DEF CallsContinue
    <3>2. CASE k.op = "refresh"
      <4>1. PICK f \in tokens : f.id = k.token /\ f.session = k.session
        BY <1>0, <3>2 DEF CallsContinue, Continues
      <4> QED BY <2>2, <2>3, <4>1
    <3> QED BY <2>1, <3>1, <3>2
  <2>5. Tree'
    <3>1. nextToken' # 0 /\ nextToken' \in Nat /\ nextToken' = nextToken + 1 BY <1>2, <2>1
    <3>2. \A id, session : Continues(id, session) => Continues(id, session)'
      BY <1>2 DEF Continues
    <3>3. ASSUME NEW t \in tokens
          PROVE  /\ t.id \in 1..(nextToken' - 1) /\ t.session \in 1..(nextToken' - 1)
                 /\ t.from = 0 \/ Continues(t.from, t.session)'
      BY <1>0, <2>1, <2>2, <3>1, <3>2, <3>3 DEF Tree
    <3>4. new.id \in 1..(nextToken' - 1) /\ new.session \in 1..(nextToken' - 1)
      BY <2>1, <2>2, <2>3, <2>4, <3>1
    <3>5. new.from = 0 \/ Continues(new.from, new.session)'
      BY <1>2, <2>4 DEF Continues
    <3>6. \A s, t \in tokens' : s.id = t.id => s = t
      BY <1>0, <1>2, <2>2, <2>3 DEF Tree
    <3> QED BY <1>2, <3>1, <3>3, <3>4, <3>5, <3>6 DEF Tree
  <2>6. OneTip'
    <3>1. \A t \in tokens : Last(t)' => Last(t) /\ t.id # new.from
      BY <1>2 DEF Last
    <3>2. \A session : Branched(session) => Branched(session)'
      BY <1>2 DEF Branched
    <3>3. ASSUME NEW s \in tokens, NEW t \in tokens, Last(s)', Last(t)', s.session = t.session
          PROVE  s = t \/ Branched(s.session)'
      BY <1>0, <3>1, <3>2, <3>3 DEF OneTip
    <3>4. ASSUME NEW t \in tokens, Last(t)', t.session = new.session
          PROVE  Branched(new.session)'
      <4>1. PICK f \in tokens : f.id = new.from /\ f.session = new.session
        BY <2>2, <2>4, <3>4
      <4>2. t # f /\ Last(t) BY <3>1, <3>4, <4>1
      <4>3. CASE Last(f)
        BY <1>0, <3>2, <3>4, <4>1, <4>2, <4>3 DEF OneTip
      <4>4. CASE ~Last(f)
        <5>1. PICK u \in tokens : u.from = f.id BY <4>4 DEF Last
        <5>2. u.from # 0 /\ Continues(u.from, u.session) BY <1>0, <2>2, <5>1 DEF Tree
        <5>3. PICK w \in tokens : w.id = u.from /\ w.session = u.session BY <5>2 DEF Continues
        <5>4. w = f BY <1>0, <5>1, <5>3 DEF Tree
        <5>5. u # new BY <2>2, <2>3
        <5> QED BY <1>2, <4>1, <5>1, <5>2, <5>3, <5>4, <5>5 DEF Branched
      <4> QED BY <4>3, <4>4
    <3> QED BY <1>2, <3>3, <3>4 DEF OneTip
  <2> QED BY <2>5, <2>6
<1> QED BY <1>a, <1>1, <1>2 DEF CreateToken

\* The invariant of the sessions is kept by every step.
LEMMA TipStep ==
  ASSUME TypeOk, RequestInv, ChecksInv, TipInv, [Next]_vars
  PROVE  TipInv'
<1>0. CallsContinue /\ Tree /\ OneTip
  BY DEF TipInv
<1>1. ASSUME UNCHANGED <<tokens, nextToken>> PROVE Tree' /\ OneTip'
  BY <1>0, <1>1 DEF Tree, OneTip, Last, Branched, Continues
<1>2. ASSUME NEW c \in Clients, ClientStep(c) PROVE TipInv'
  <2>1. CASE CreateToken(c)
    <3>1. tokens \subseteq tokens' BY <2>1 DEF CreateToken
    <3> QED BY <1>0, <1>2, <2>1, <3>1, TreeStep, CallsContinueStep DEF TipInv
  <2>2. CASE ~CreateToken(c)
    <3>1. UNCHANGED <<tokens, nextToken>>
      BY <1>2, <2>2 DEF ClientStep, Begin, LookUpLogin, CreateUser, CheckCredentials,
         GetActiveByHash, CheckStatus, RevokeByHash, RequireAuth, UpdateUser, sessions
    <3> QED BY <1>0, <1>1, <1>2, <3>1, CallsContinueStep DEF TipInv
  <2> QED BY <2>1, <2>2
<1>3. CASE Expire
  BY <1>0, <1>1, <1>3 DEF TipInv, Expire, CallsContinue, Continues
<1>4. CASE UNCHANGED vars
  BY <1>0, <1>1, <1>4 DEF TipInv, vars, sessions, CallsContinue, Continues
<1> QED BY <1>2, <1>3, <1>4 DEF Next

\* In every behaviour, the tokens of a session form a tree.
LEMMA TipCorrect == Spec => []TipInv
<1>1. Init => TipInv
  BY DEF Init, TipInv, CallsContinue, Tree, OneTip
<1>2. TypeOk /\ RequestInv /\ ChecksInv /\ TipInv /\ [Next]_vars => TipInv'
  BY TipStep
<1> QED BY <1>1, <1>2, SessionsTypeCorrect, EntitledCorrect, PTL DEF Spec

\* A session has two live tokens only if two refreshes of one token overlapped,
\* though any number of calls overlap, fail or lose their reply.
THEOREM SessionsAreSingle == Spec => []OneLivePerSession
<1>1. TipInv /\ SuccessorsReplace => OneLivePerSession
  <2> SUFFICES ASSUME TipInv, SuccessorsReplace PROVE OneLivePerSession
    OBVIOUS
  <2>1. \A t \in tokens : Live(t.id) => Last(t)
    <3> SUFFICES ASSUME NEW t \in tokens, Live(t.id), NEW u \in tokens PROVE u.from # t.id
      BY DEF Last
    <3>1. t.id \in 1..(nextToken - 1) BY DEF TipInv, Tree
    <3>2. t.id # 0 BY <3>1
    <3> QED BY <3>2 DEF SuccessorsReplace, Live
  <2> QED BY <2>1 DEF TipInv, OneTip, OneLivePerSession
<1> QED BY <1>1, TipCorrect, SuccessorsCorrect, PTL

-----------------------------------------------------------------------------
\* Which accounts change, and how, in a step of a client.
LEMMA AccountsChange ==
  ASSUME TypeOk, RequestInv, ChecksInv, NEW c \in Clients, ClientStep(c), NEW u \in Users
  PROVE  /\ password[u] # None => password'[u] # None
         /\ \/ role'[u] = role[u] /\ status'[u] = status[u]
            \/ password[u] = None /\ role'[u] = "participant"
            \/ UpdateUser(c) /\ call[c].target = u /\ password[u] # None
<1>1. CASE UNCHANGED users BY <1>1 DEF users
<1>2. CASE CreateUser(c)
  <2>1. call[c].secret \in Passwords /\ None \notin Passwords
    BY <1>2, AccountsAssumption DEF CreateUser, RequestInv, WellFormed, ChecksInv, Checked
  <2> QED BY <1>1, <1>2, <2>1 DEF CreateUser, TypeOk
<1>3. CASE UpdateUser(c)
  <2>1. call[c].pc = "update" /\ UNCHANGED password BY <1>3 DEF UpdateUser
  <2>2. (role'[u] # role[u] => call[c].op = "role" /\ call[c].target = u /\ password[u] # None)
        /\ (status'[u] # status[u] => call[c].op = "status" /\ call[c].target = u /\ password[u] # None)
    BY <1>3 DEF UpdateUser, TypeOk
  <2> QED BY <1>3, <2>1, <2>2
<1> QED BY <1>1, <1>2, <1>3 DEF ClientStep, Begin, LookUpLogin, CheckCredentials, CreateToken,
        GetActiveByHash, CheckStatus, RevokeByHash, RequireAuth

\* Nobody gets to change their own account.
LEMMA AdminStep ==
  ASSUME TypeOk, RequestInv, ChecksInv, AdminInv, NEW c \in Clients, ClientStep(c)
  PROVE  AdminInv'
<1>1. \A u \in Users : role'[u] = "admin" => password'[u] # None
  <2> SUFFICES ASSUME NEW u \in Users, role'[u] = "admin" PROVE password'[u] # None
    OBVIOUS
  <2>1. role[u] = "admin" => password[u] # None BY DEF AdminInv
  <2> QED BY <2>1, AccountsChange
<1>2. Moves(c)
  BY ClientMoves
<1>3. ASSUME NEW pc \in Pcs, Goto(c, pc) PROVE call'[c].pc = pc
  BY <1>3, GotoMoves
<1>4. ASSUME NEW d \in Clients, call'[d].pc = "update"
      PROVE  call'[d].target # call'[d].who
  <2>1. CASE d # c
    <3>1. call'[d] = call[d] BY <1>2, <2>1 DEF Moves, Same, TypeOk
    <3> QED BY <1>4, <3>1 DEF AdminInv
  <2>2. CASE d = c
    <3>1. ~Begin(c)
      <4> SUFFICES ASSUME Begin(c) PROVE FALSE
        OBVIOUS
      <4>1. PICK k : Fresh(k) /\ call' = [call EXCEPT ![c] = k]
        BY BeginMoves
      <4>2. k.pc = "update" BY <1>4, <2>2, <4>1 DEF TypeOk
      <4> QED BY <4>1, <4>2 DEF Fresh, FirstStep
    <3>2. ~LookUpLogin(c) BY <1>3, <1>4, <2>2 DEF LookUpLogin, Pcs, Over
    <3>3. ~CreateUser(c) BY <1>3, <1>4, <2>2 DEF CreateUser, Pcs, Over
    <3>4. ~CheckCredentials(c) BY <1>3, <1>4, <2>2 DEF CheckCredentials, Pcs, Over
    <3>5. ~CreateToken(c) BY <1>3, <1>4, <2>2 DEF CreateToken, Pcs, Over
    <3>6. ~GetActiveByHash(c) BY <1>3, <1>4, <2>2 DEF GetActiveByHash, Pcs, Over
    <3>7. ~CheckStatus(c) BY <1>3, <1>4, <2>2 DEF CheckStatus, Pcs, Over
    <3>8. ~RevokeByHash(c) BY <1>3, <1>4, <2>2 DEF RevokeByHash, Pcs, Over
    <3>9. ~UpdateUser(c) BY <1>3, <1>4, <2>2 DEF UpdateUser, Pcs, Over
    <3>10. RequireAuth(c)
      BY <3>1, <3>2, <3>3, <3>4, <3>5, <3>6, <3>7, <3>8, <3>9 DEF ClientStep
    <3>11. \/ Goto(c, "error") \/ Goto(c, "ok")
           \/ Goto(c, "update") /\ MayChange(call[c])
      BY <3>10 DEF RequireAuth
    <3>12. MayChange(call[c]) /\ Same(c)
      BY <1>4, <2>2, <3>11, GotoMoves DEF Pcs, Over
    <3> QED BY <2>2, <3>12 DEF MayChange, Same
  <2> QED BY <2>1, <2>2
<1> QED BY <1>1, <1>4 DEF AdminInv

\* The step that takes the last active admin away is the write of an overtaken call.
LEMMA LastAdminStep ==
  ASSUME TypeOk, RequestInv, ChecksInv, AdminInv, NEW c \in Clients, ClientStep(c),
         SomeAdmin, ~SomeAdmin'
  PROVE  Overtaken(c) /\ call'[c] # call[c]
<1>1. PICK u \in Users : ActiveAdmin(u)
  BY DEF SomeAdmin
<1>2. ASSUME NEW v \in Users, ActiveAdmin(v)
      PROVE  UpdateUser(c) /\ call[c].target = v
  <2>1. ~ActiveAdmin(v)' BY DEF SomeAdmin
  <2>2. password[v] # None BY <1>2 DEF AdminInv, ActiveAdmin
  <2> QED BY <1>2, <2>1, <2>2, AccountsChange DEF ActiveAdmin
<1>3. UpdateUser(c) /\ call[c].pc = "update"
  BY <1>1, <1>2 DEF UpdateUser
<1>4. ~ActiveAdmin(call[c].who)
  <2>1. call[c].who \in Users /\ call[c].target # call[c].who
    BY <1>3 DEF RequestInv, WellFormed, AdminInv
  <2> QED BY <1>2, <2>1
<1>5. Clear(c)
  BY <1>3 DEF ChecksInv, Checked
<1>6. call'[c].pc \in {"ok", "error"}
  BY <1>3, GotoMoves DEF UpdateUser, Pcs, Over
<1> QED BY <1>3, <1>4, <1>5, <1>6 DEF Overtaken

\* The last active admin goes only by the write of a call that was overtaken by the
\* change of its caller's account, for any number of accounts and overlapping changes.
THEOREM AnAdminIsLeft == Spec => AdminRemains
<1>1. Init => AdminInv
  <2> SUFFICES ASSUME Init PROVE AdminInv
    OBVIOUS
  <2>1. \A u \in Users : role[u] = "admin" => u \in Admins
    BY DEF Init
  <2>2. \A u \in Admins : password[u] # None
    BY AccountsAssumption DEF Init
  <2> QED BY <2>1, <2>2 DEF AdminInv, Init
<1>2. TypeOk /\ RequestInv /\ ChecksInv /\ AdminInv /\ [Next]_vars => AdminInv'
  <2> SUFFICES ASSUME TypeOk, RequestInv, ChecksInv, AdminInv, [Next]_vars PROVE AdminInv'
    OBVIOUS
  <2>1. CASE \E c \in Clients : ClientStep(c) BY <2>1, AdminStep
  <2>2. CASE UNCHANGED <<users, call>>
    BY <2>2 DEF users, AdminInv
  <2> QED BY <2>1, <2>2 DEF Next, Expire, vars
<1>3. TypeOk /\ RequestInv /\ ChecksInv /\ AdminInv /\ [Next]_vars =>
        [SomeAdmin => SomeAdmin' \/ \E c \in Clients : Overtaken(c) /\ call'[c] # call[c]]_vars
  <2> SUFFICES ASSUME TypeOk, RequestInv, ChecksInv, AdminInv, [Next]_vars,
                      SomeAdmin, ~SomeAdmin'
               PROVE  \E c \in Clients : Overtaken(c) /\ call'[c] # call[c]
    OBVIOUS
  <2>1. CASE \E c \in Clients : ClientStep(c) BY <2>1, LastAdminStep
  <2>2. CASE UNCHANGED users
    BY <2>2 DEF users, SomeAdmin, ActiveAdmin
  <2> QED BY <2>1, <2>2 DEF Next, Expire, vars
<1> QED
  BY <1>1, <1>2, <1>3, SessionsTypeCorrect, EntitledCorrect, PTL DEF Spec, AdminRemains

-----------------------------------------------------------------------------
\* In a step of a client, the tokens keep, and only a refresh with a live token
\* enters the steps in which it may go on with a session.
LEMMA SessionSteps ==
  ASSUME TypeOk, RequestInv, ChecksInv, TipInv, NEW c \in Clients, ClientStep(c)
  PROVE  /\ revoked \subseteq revoked' /\ expired' = expired /\ tokens \subseteq tokens'
         /\ \A d \in Clients \ {c} : call'[d] = call[d]
         /\ \/ tokens' = tokens
            \/ /\ call[c].pc = "create" /\ call[c].op \in {"login", "refresh"}
               /\ \A t \in tokens' \ tokens :
                    t.session = IF call[c].session = 0 THEN nextToken ELSE call[c].session
         /\ call'[c].op = "refresh" /\ call'[c].pc \in {"user", "revoke", "create"} =>
              /\ call[c].op = "refresh" /\ call'[c].session = call[c].session
              /\ \/ call[c].pc \in {"user", "revoke", "create"}
                 \/ call[c].pc = "active" /\ Live(call[c].token)
<1>1. Moves(c)
  BY ClientMoves
<1>2. \A d \in Clients \ {c} : call'[d] = call[d]
  BY <1>1 DEF Moves, Same, TypeOk
<1>3. revoked \subseteq revoked' /\ expired' = expired /\ tokens \subseteq tokens'
  BY DEF ClientStep, Begin, LookUpLogin, CreateUser, CheckCredentials, CreateToken,
     GetActiveByHash, CheckStatus, RevokeByHash, RequireAuth, UpdateUser, sessions
<1>4. CASE CreateToken(c)
  <2>1. call[c].pc = "create" /\ call[c].op \in {"login", "refresh"}
    BY <1>4 DEF CreateToken, ChecksInv, Checked
  <2>2. \/ tokens' = tokens
        \/ tokens' = tokens \cup
             {[id |-> nextToken, user |-> call[c].who, from |-> call[c].token,
               session |-> IF call[c].session = 0 THEN nextToken ELSE call[c].session]}
    BY <1>4 DEF CreateToken
  <2>3. call'[c].pc \in {"ok", "error"}
    <3>1. ASSUME NEW pc \in {"ok", "error"}, Goto(c, pc) PROVE call'[c].pc = pc
      BY <3>1, GotoMoves DEF Pcs, Over
    <3> QED
      BY <1>4, <3>1 DEF CreateToken
  <2> QED
    BY <1>2, <1>3, <2>1, <2>2, <2>3
<1>5. CASE Begin(c)
  <2>1. PICK k : Fresh(k) /\ call' = [call EXCEPT ![c] = k]
    BY <1>5, BeginMoves
  <2>2. call'[c].op = "refresh" => call'[c].pc = "active"
    BY <2>1 DEF TypeOk, Fresh, FirstStep
  <2>3. tokens' = tokens
    BY <1>5 DEF Begin, sessions
  <2> QED
    BY <1>2, <1>3, <2>2, <2>3
<1>6. CASE ~CreateToken(c) /\ ~Begin(c)
  <2>1. tokens' = tokens
    BY <1>6 DEF ClientStep, LookUpLogin, CreateUser, CheckCredentials,
       GetActiveByHash, CheckStatus, RevokeByHash, RequireAuth, UpdateUser, sessions
  <2>2. call[c].pc # "start"
    BY <1>6 DEF ClientStep, LookUpLogin, CreateUser, CheckCredentials,
       GetActiveByHash, CheckStatus, RevokeByHash, RequireAuth, UpdateUser
  <2>3. Same(c)
    BY <1>1, <2>2 DEF Moves
  <2>4. CASE GetActiveByHash(c)
    <3>1. ASSUME NEW pc \in {"user", "error"}, Goto(c, pc) PROVE call'[c].pc = pc
      BY <3>1, GotoMoves DEF Pcs, Over
    <3>2. call'[c].pc = "error" \/ Live(call[c].token)
      BY <2>4, <3>1 DEF GetActiveByHash
    <3> QED
      BY <1>2, <1>3, <2>1, <2>3, <2>4, <3>2 DEF GetActiveByHash, Same
  <2>5. CASE ~GetActiveByHash(c)
    <3>1. call[c].op = "refresh" => call[c].pc \in {"user", "revoke", "create"}
      BY <1>6, <2>5 DEF ClientStep, LookUpLogin, CreateUser, CheckCredentials,
         CheckStatus, RevokeByHash, RequireAuth, UpdateUser, ChecksInv, Checked, AdminOps
    <3> QED
      BY <1>2, <1>3, <2>1, <2>3, <3>1 DEF Same
  <2> QED
    BY <2>4, <2>5
<1> QED
  BY <1>4, <1>5, <1>6

\* An ended session is not brought back by a client's step.
LEMMA EndedStep ==
  ASSUME TypeOk, RequestInv, ChecksInv, TipInv, NEW c \in Clients, ClientStep(c),
         NEW t \in tokens, Ended(t.session)
  PROVE  Ended(t.session)'
<1> DEFINE s == t.session
<1>0. /\ CallsContinue /\ Tree
      /\ s \in Nat /\ s # 0 /\ s # nextToken
      /\ \A u \in tokens : u.session = s => ~Live(u.id)
      /\ \A d \in Clients : /\ call[d].op = "refresh" /\ call[d].session = s
                            => call[d].pc \notin {"user", "revoke", "create"}
  BY DEF TipInv, Tree, TypeOk, Ended, Refreshing
<1> HIDE DEF s
<1>1. \A u \in tokens' : u.session = s => u \in tokens
  <2> SUFFICES ASSUME NEW u \in tokens' \ tokens, u.session = s PROVE FALSE
    OBVIOUS
  <2>1. /\ call[c].pc = "create" /\ call[c].op \in {"login", "refresh"}
        /\ s = IF call[c].session = 0 THEN nextToken ELSE call[c].session
    BY SessionSteps
  <2>2. CASE call[c].op = "login"
    BY <1>0, <2>1, <2>2 DEF CallsContinue
  <2>3. CASE call[c].op = "refresh"
    BY <1>0, <2>1, <2>3
  <2> QED
    BY <2>1, <2>2, <2>3
<1>2. \A u \in tokens' : u.session = s => ~Live(u.id)'
  BY <1>0, <1>1, SessionSteps DEF Live
<1>3. ASSUME NEW d \in Clients, call'[d].op = "refresh", call'[d].session = s,
             call'[d].pc \in {"user", "revoke", "create"}
      PROVE  FALSE
  <2>1. CASE d # c
    BY <1>0, <1>3, <2>1, SessionSteps
  <2>2. CASE d = c
    <3>1. /\ call[c].op = "refresh" /\ call[c].session = s
          /\ call[c].pc = "active" /\ Live(call[c].token)
      BY <1>0, <1>3, <2>2, SessionSteps
    <3>2. PICK u \in tokens : u.id = call[c].token /\ u.session = s
      BY <1>0, <3>1 DEF CallsContinue, Continues
    <3> QED
      BY <1>0, <3>1, <3>2
  <2> QED
    BY <2>1, <2>2
<1> QED
  BY <1>2, <1>3 DEF Ended, Refreshing, s

\* A session that is over is over for good.
THEOREM EndedSessionsStayEnded == Spec => EndedStaysEnded
<1>1. ASSUME TypeOk, RequestInv, ChecksInv, TipInv, [Next]_vars, NEW t \in tokens,
             Ended(t.session)
      PROVE  Ended(t.session)'
  <2>1. CASE \E c \in Clients : ClientStep(c)
    BY <1>1, <2>1, EndedStep
  <2>2. CASE Expire
    BY <1>1, <2>2 DEF Expire, Ended, Refreshing, Live
  <2>3. CASE UNCHANGED vars
    BY <1>1, <2>3 DEF vars, sessions, Ended, Refreshing, Live
  <2> QED
    BY <1>1, <2>1, <2>2, <2>3 DEF Next
<1>2. TypeOk /\ RequestInv /\ ChecksInv /\ TipInv /\ [Next]_vars
        => [\A t \in tokens : Ended(t.session) => Ended(t.session)']_vars
  BY <1>1
<1> QED
  BY <1>2, SessionsTypeCorrect, EntitledCorrect, TipCorrect, PTL DEF Spec, EndedStaysEnded

\* A logout with the only live token of a session leaves none.
LEMMA LogoutStep ==
  ASSUME TypeOk, RequestInv, ChecksInv, TipInv, OneLivePerSession, [Next]_vars,
         NEW c \in Clients, call[c].op = "logout", call[c].pc = "revoke", call'[c].pc = "ok",
         Live(call[c].token), ~Refreshing(call[c].session), ~Branched(call[c].session)
  PROVE  Ended(call[c].session)'
<1>0. PICK s : s = call[c].session
  OBVIOUS
<1>1. ClientStep(c)
  <2>1. ASSUME NEW d \in Clients, ClientStep(d), d # c PROVE FALSE
    BY <2>1, SessionSteps
  <2> QED
    BY <2>1 DEF Next, Expire, vars
<1>2. RevokeByHash(c)
  BY <1>1 DEF ClientStep, Begin, LookUpLogin, CreateUser, CheckCredentials, CreateToken,
     GetActiveByHash, CheckStatus, RequireAuth, UpdateUser
<1>3. Same(c)
  BY <1>1, ClientMoves DEF Moves
<1>4. revoked' = revoked \cup {call[c].token} /\ UNCHANGED <<tokens, expired>>
  <2>1. PICK o \in Outcome :
          /\ revoked' = IF Applied(o) THEN revoked \cup {call[c].token} ELSE revoked
          /\ Goto(c, IF Errs(o) THEN "error" ELSE "ok")
    BY <1>2 DEF RevokeByHash
  <2>2. Errs(o) => call'[c].pc = "error"
    BY <2>1, GotoMoves DEF Pcs, Over
  <2> QED
    BY <1>2, <2>1, <2>2 DEF RevokeByHash, Applied, Errs
<1>5. PICK t \in tokens : t.id = call[c].token /\ t.session = s
  BY <1>0 DEF TipInv, CallsContinue, Continues
<1>6. \A u \in tokens : u.session = s /\ Live(u.id) => u = t
  BY <1>0, <1>5 DEF OneLivePerSession
<1>7. \A u \in tokens' : u.session = s => ~Live(u.id)'
  BY <1>4, <1>5, <1>6 DEF Live
<1>8. \A d \in Clients : ~ /\ call'[d].op = "refresh" /\ call'[d].session = s
                           /\ call'[d].pc \in {"user", "revoke", "create"}
  BY <1>0, <1>1, <1>3, SessionSteps DEF Refreshing, Same
<1>9. call'[c].session = s
  BY <1>0, <1>3 DEF Same
<1> QED
  BY <1>7, <1>8, <1>9 DEF Ended, Refreshing

\* An answered logout ends a session that has not branched and is not being refreshed.
THEOREM LogoutEndsTheSession == Spec => LogoutEnds
<1>1. TypeOk /\ RequestInv /\ ChecksInv /\ TipInv /\ OneLivePerSession /\ [Next]_vars
        => [\A c \in Clients :
              /\ call[c].op = "logout" /\ call[c].pc = "revoke" /\ call'[c].pc = "ok"
              /\ Live(call[c].token)
              /\ ~Refreshing(call[c].session) /\ ~Branched(call[c].session)
              => Ended(call[c].session)']_vars
  BY LogoutStep
<1> QED
  BY <1>1, SessionsTypeCorrect, EntitledCorrect, TipCorrect, SessionsAreSingle, PTL
     DEF Spec, LogoutEnds

=============================================================================

------------------------------ MODULE Sessions ------------------------------
(***************************************************************************)
(* Accounts and sessions: Register, Login, Refresh and Logout of           *)
(* AuthService, the check every other request begins with (RequireAuth),   *)
(* and the requests of an admin that change a role or a status.            *)
(*                                                                         *)
(* Every statement is a step of its own.  An access token is not stored:   *)
(* whoever has an account may present one, and RequireAuth reads the       *)
(* account again.  A refresh token is known to those it was answered to.   *)
(***************************************************************************)
EXTENDS Integers, FiniteSets, Outcomes

CONSTANTS
  Clients,       \* one call each
  Users,         \* logins
  Passwords,
  None,          \* no account, no value
  Seeded,        \* the password of each account that is there from the start
  Admins,        \* the admins among those
  Ops,           \* the operations of the instance
  NewRoles, NewStatuses,  \* what PatchRole and PatchStatus may ask for
  Outcome,       \* what may become of a statement
  MayExpire,     \* whether refresh tokens may expire
  MaxTokens      \* bound on the refresh tokens ever created

AdminOps == {"role", "status"}
Operations == {"register", "login", "refresh", "logout", "me"} \cup AdminOps
Roles == {"admin", "organizer", "photographer", "participant"}
Statuses == {"active", "blocked", "pending"}

ASSUME AccountsAssumption ==
  /\ None \notin Passwords /\ None \notin Users
  /\ Seeded \in [Users -> Passwords \cup {None}]
  /\ Admins \subseteq {u \in Users : Seeded[u] # None}
ASSUME RequestsAssumption ==
  /\ Ops \subseteq Operations
  /\ NewRoles \subseteq Roles /\ NewStatuses \subseteq Statuses
  /\ MaxTokens \in Nat /\ MayExpire \in BOOLEAN
  /\ Outcome \subseteq AllOutcomes

VARIABLES
  password, role, status,  \* users, by login
  tokens, nextToken,       \* refresh_tokens
  revoked, expired,        \* those with revoked_at, those past expires_at
  held,                    \* the ones that were answered to a client
  call,                    \* the calls of the clients
  barred                   \* (observation) see Observe

users == <<password, role, status>>
sessions == <<tokens, nextToken, revoked, expired, held>>
vars == <<users, sessions, call, barred>>

Live(t) == t \notin revoked \cup expired

-----------------------------------------------------------------------------
Over == {"start", "ok", "error"}

Goto(c, pc) == call' = [call EXCEPT ![c].pc = pc]

FirstStep(op) == CASE op = "register" -> "lookup"
                   [] op = "login" -> "find"
                   [] op = "refresh" -> "active"
                   [] op = "logout" -> "revoke"
                   [] OTHER -> "auth"
NoToken == [id |-> 0, session |-> 0]
Request(op, who, secret, t, target, value) ==
  [pc |-> FirstStep(op), op |-> op, who |-> who, secret |-> secret, token |-> t.id,
   session |-> t.session, target |-> target, value |-> value]

Start(c, request) == request.op \in Ops /\ call' = [call EXCEPT ![c] = request]

Begin(c) ==
  /\ call[c].pc = "start"
  /\ \/ \E op \in {"register", "login"}, u \in Users, p \in Passwords :
          Start(c, Request(op, u, p, NoToken, None, None))
     \/ \E op \in {"refresh", "logout"}, t \in tokens :
          t.id \in held /\ Start(c, Request(op, t.user, None, t, None, None))
     \/ \E u \in Users : password[u] # None /\ Start(c, Request("me", u, None, NoToken, None, None))
     \/ \E u, v \in Users, x \in NewRoles :
          password[u] # None /\ Start(c, Request("role", u, None, NoToken, v, x))
     \/ \E u, v \in Users, x \in NewStatuses :
          password[u] # None /\ Start(c, Request("status", u, None, NoToken, v, x))
  /\ UNCHANGED <<users, sessions>>

-----------------------------------------------------------------------------
(* Register and Login.                                                     *)

\* A login that cannot be looked up is taken for one that is free.
LookUpLogin(c) ==
  /\ call[c].pc = "lookup"
  /\ \E o \in Outcome :
       IF ~Errs(o) /\ password[call[c].who] # None THEN Goto(c, "error")
       ELSE \E pc \in {"insert", "error"} : Goto(c, pc)  \* HashPassword may fail
  /\ UNCHANGED <<users, sessions>>

\* Mutation: without the unique key.
CreateOrReplaceUser(c) ==
  /\ call[c].pc = "insert"
  /\ password' = [password EXCEPT ![call[c].who] = call[c].secret]
  /\ Goto(c, "ok")
  /\ UNCHANGED <<role, status, sessions>>

\* The key users_login_key refuses a login that is taken.
CreateUser(c) ==
  LET u == call[c].who IN
  /\ call[c].pc = "insert"
  /\ \E o \in Outcome :
       IF Applied(o) /\ password[u] = None
       THEN /\ password' = [password EXCEPT ![u] = call[c].secret]
            /\ role' = [role EXCEPT ![u] = "participant"]
            /\ status' = [status EXCEPT ![u] = "active"]
            /\ Goto(c, IF Errs(o) THEN "error" ELSE "ok")
       ELSE Goto(c, "error") /\ UNCHANGED users
  /\ UNCHANGED sessions

CheckCredentials(c) ==
  LET k == call[c] IN
  /\ k.pc = "find"
  /\ \E o \in Outcome :
       Goto(c, IF Errs(o) \/ password[k.who] # k.secret \/ status[k.who] # "active"
               THEN "error" ELSE "create")
  /\ UNCHANGED <<users, sessions>>

\* The last step of Login (TouchLastLogin, whose error is dropped, aside) and of
\* Refresh.  A login begins a session, a refresh goes on with one.
CreateToken(c) ==
  LET k == call[c] IN
  /\ k.pc = "create"
  /\ nextToken <= MaxTokens
  /\ \E o \in Outcome :
       /\ IF Applied(o)
          THEN /\ tokens' = tokens \cup
                    {[id |-> nextToken, user |-> k.who, from |-> k.token,
                      session |-> IF k.session = 0 THEN nextToken ELSE k.session]}
               /\ nextToken' = nextToken + 1
          ELSE UNCHANGED <<tokens, nextToken>>
       /\ held' = IF Errs(o) THEN held ELSE held \cup {nextToken}
       /\ Goto(c, IF Errs(o) THEN "error" ELSE "ok")
  /\ UNCHANGED <<users, revoked, expired>>

-----------------------------------------------------------------------------
(* Refresh and Logout.                                                     *)

GetActiveByHash(c) ==
  /\ call[c].pc = "active"
  /\ \E o \in Outcome :
       Goto(c, IF Errs(o) \/ ~Live(call[c].token) THEN "error" ELSE "user")
  /\ UNCHANGED <<users, sessions>>

\* Mutation: the status of the user is not looked at.
SkipStatus(c) ==
  /\ call[c].pc = "user"
  /\ Goto(c, "revoke")
  /\ UNCHANGED <<users, sessions>>

CheckStatus(c) ==
  /\ call[c].pc = "user"
  /\ \E o \in Outcome :
       Goto(c, IF Errs(o) \/ status[call[c].who] # "active" THEN "error" ELSE "revoke")
  /\ UNCHANGED <<users, sessions>>

\* Mutation: the error is dropped.
RevokeIfPossible(c) ==
  /\ call[c].pc = "revoke"
  /\ \E o \in Outcome :
       revoked' = IF Applied(o) THEN revoked \cup {call[c].token} ELSE revoked
  /\ Goto(c, IF call[c].op = "refresh" THEN "create" ELSE "ok")
  /\ UNCHANGED <<users, tokens, nextToken, expired, held>>

\* A token that is already revoked is left as it is, which is no error.
RevokeByHash(c) ==
  /\ call[c].pc = "revoke"
  /\ \E o \in Outcome :
       /\ revoked' = IF Applied(o) THEN revoked \cup {call[c].token} ELSE revoked
       /\ Goto(c, IF Errs(o) THEN "error"
                  ELSE IF call[c].op = "refresh" THEN "create" ELSE "ok")
  /\ UNCHANGED <<users, tokens, nextToken, expired, held>>

Expire ==
  /\ MayExpire
  /\ \E t \in tokens : expired' = expired \cup {t.id}
  /\ UNCHANGED <<users, tokens, nextToken, revoked, held, call>>

-----------------------------------------------------------------------------
(* RequireAuth, RequireRoles, PatchRole and PatchStatus.                   *)

\* Mutation: an admin may change their own account.
MayChangeAnybody(k) == role[k.who] = "admin"
MayChange(k) == role[k.who] = "admin" /\ k.target # k.who

RequireAuth(c) ==
  LET k == call[c] IN
  /\ k.pc = "auth"
  /\ \/ Goto(c, "error")  \* the access token has expired
     \/ \E o \in Outcome :
          Goto(c, IF Errs(o) \/ status[k.who] # "active" \/ (k.op \in AdminOps /\ ~MayChange(k))
                  THEN "error" ELSE IF k.op \in AdminOps THEN "update" ELSE "ok")
  /\ UNCHANGED <<users, sessions>>

\* An id that does not exist is an error.
UpdateUser(c) ==
  LET k == call[c] IN
  /\ k.pc = "update"
  /\ \E o \in Outcome :
       LET done == Applied(o) /\ password[k.target] # None IN
       /\ IF done /\ k.op = "role" THEN role' = [role EXCEPT ![k.target] = k.value]
                                   ELSE UNCHANGED role
       /\ IF done /\ k.op = "status" THEN status' = [status EXCEPT ![k.target] = k.value]
                                     ELSE UNCHANGED status
       /\ Goto(c, IF done /\ ~Errs(o) THEN "ok" ELSE "error")
  /\ UNCHANGED <<password, sessions>>

-----------------------------------------------------------------------------
\* What a call needs and does not have: an active account, its password, a live
\* token, the role of an admin.
Facets == {"account", "password", "token", "role"}
Lacks(c, facet) ==
  LET k == call[c] IN
  \/ facet = "account" /\ k.op \notin {"register", "logout"} /\ status[k.who] # "active"
  \/ facet = "password" /\ k.op = "login" /\ password[k.who] # k.secret
  \/ facet = "token" /\ k.op = "refresh" /\ ~Live(k.token)
  \/ facet = "role" /\ k.op \in AdminOps /\ role[k.who] # "admin"

\* Observation: the calls, each with what it has lacked ever since it began.
Observe ==
  barred' = {x \in Clients \X Facets :
               /\ x \in barred \/ (call[x[1]].pc = "start" /\ call'[x[1]].pc # "start")
               /\ Lacks(x[1], x[2])'}

ClientStep(c) ==
  \/ Begin(c)
  \/ LookUpLogin(c) \/ CreateUser(c) \/ CheckCredentials(c) \/ CreateToken(c)
  \/ GetActiveByHash(c) \/ CheckStatus(c) \/ RevokeByHash(c)
  \/ RequireAuth(c) \/ UpdateUser(c)

Init ==
  /\ password = Seeded
  /\ role = [u \in Users |-> IF u \in Admins THEN "admin" ELSE "participant"]
  /\ status = [u \in Users |-> IF Seeded[u] = None THEN "pending" ELSE "active"]
  /\ tokens = {} /\ nextToken = 1
  /\ revoked = {} /\ expired = {} /\ held = {}
  /\ call = [c \in Clients |->
               [pc |-> "start", op |-> "me", who |-> None, secret |-> None,
                token |-> 0, session |-> 0, target |-> None, value |-> None]]
  /\ barred = {}

Next == ((\E c \in Clients : ClientStep(c)) \/ Expire) /\ Observe

Spec == Init /\ [][Next]_vars

-----------------------------------------------------------------------------
(* What is claimed.                                                        *)

CallRecord ==
  [pc : Over \cup {"lookup", "insert", "find", "create", "active", "user", "revoke",
                   "auth", "update"},
   op : Operations, who : Users \cup {None}, secret : Passwords \cup {None},
   token : Nat, session : Nat, target : Users \cup {None},
   value : Roles \cup Statuses \cup {None}]

\* The types of all the variables (type invariant).
TypeOk ==
  /\ password \in [Users -> Passwords \cup {None}]
  /\ role \in [Users -> Roles] /\ status \in [Users -> Statuses]
  /\ tokens \subseteq [id : Nat, user : Users, from : Nat, session : Nat]
  /\ nextToken \in Nat
  /\ revoked \subseteq Nat /\ expired \subseteq Nat /\ held \subseteq Nat
  /\ call \in [Clients -> CallRecord]
  /\ barred \subseteq Clients \X Facets

\* Whatever a call needs in order to succeed, it had at some moment while it ran:
\* nobody logs in, refreshes or acts as an admin with an account blocked, a role
\* lost, or a token revoked or expired before the call began.  Two of them need not
\* have been there at the same moment.  Holds under every failure.
OnlyEntitledSucceed ==
  \A c \in Clients, facet \in Facets : call[c].pc = "ok" => <<c, facet>> \notin barred

\* Inductive part of TypeOk: what a request holds besides.
WellFormed(k) ==
  /\ k.who \in Users
  /\ k.op \in {"register", "login"} => k.secret \in Passwords /\ k.token = 0
  /\ k.op = "role" => k.value \in Roles
  /\ k.op = "status" => k.value \in Statuses
RequestInv == \A c \in Clients : call[c].pc # "start" => WellFormed(call[c])

\* Inductive form of OnlyEntitledSucceed: which operations reach which steps, and
\* what a call has been found to have when it is there.
Clear(c) == \A facet \in Facets : <<c, facet>> \notin barred
Checked(c) ==
  LET k == call[c] IN
  /\ k.pc \in {"lookup", "insert"} => k.op = "register"
  /\ k.pc = "find" => k.op = "login"
  /\ k.pc \in {"active", "user"} => k.op = "refresh"
  /\ k.pc = "revoke" => k.op \in {"refresh", "logout"}
  /\ k.pc = "create" => k.op \in {"login", "refresh"}
  /\ k.pc \in {"auth", "update"} => k.op \in {"me"} \cup AdminOps
  /\ k.pc = "user" => <<c, "token">> \notin barred
  /\ k.pc \in {"start", "revoke", "create", "update", "ok"} => Clear(c)
ChecksInv ==
  /\ \A c \in Clients, facet \in Facets : <<c, facet>> \in barred => Lacks(c, facet)
  /\ \A c \in Clients : Checked(c)

\* A refresh token that succeeds another one exists only once that one has been
\* revoked, however refreshes, logouts and failures overlap: a token found to be
\* live has no successor yet.
SuccessorsReplace == \A t \in tokens : t.from # 0 => t.from \in revoked

\* Inductive form of SuccessorsReplace.
RotationInv ==
  /\ SuccessorsReplace
  /\ \A c \in Clients : call[c].pc = "create" =>
       call[c].token = 0 \/ call[c].token \in revoked

\* A registration that was answered with success keeps its login and password,
\* though others register the same login at the same time.
RegistrationStands ==
  \A c \in Clients : call[c].op = "register" /\ call[c].pc = "ok" =>
    password[call[c].who] = call[c].secret

\* A session has more than one live refresh token only if two refreshes of one
\* token overlapped: both find it live before either revokes it, and both go on.
\* A refresh that fails or whose answer is lost never leaves two.
Branched(session) ==
  \E u, v \in tokens : u # v /\ u.session = session /\ u.from = v.from /\ u.from # 0
OneLivePerSession ==
  \A s, t \in tokens :
    Live(s.id) /\ Live(t.id) /\ s.session = t.session => s = t \/ Branched(s.session)

\* Inductive form of OneLivePerSession: a session is a tree of tokens, and two of
\* its tokens without a successor mean a branch; a refresh or a logout is about the
\* session of its token.
Last(t) == \A u \in tokens : u.from # t.id
Continues(id, session) == \E t \in tokens : t.id = id /\ t.session = session
CallsContinue ==
  \A c \in Clients :
    /\ call[c].op = "login" => call[c].token = 0 /\ call[c].session = 0
    /\ call[c].op \in {"refresh", "logout"} => Continues(call[c].token, call[c].session)
Tree ==
  /\ nextToken # 0
  /\ \A t \in tokens :
       /\ t.id \in 1..(nextToken - 1) /\ t.session \in 1..(nextToken - 1)
       /\ t.from = 0 \/ Continues(t.from, t.session)
       /\ \A s \in tokens : s.id = t.id => s = t
OneTip ==
  \A s, t \in tokens :
    Last(s) /\ Last(t) /\ s.session = t.session => s = t \/ Branched(s.session)
TipInv == CallsContinue /\ Tree /\ OneTip

\* A refresh that has found its token live may still go on with the session.
Refreshing(session) ==
  \E c \in Clients : /\ call[c].op = "refresh" /\ call[c].session = session
                     /\ call[c].pc \in {"user", "revoke", "create"}
Ended(session) ==
  /\ \A t \in tokens : t.session = session => ~Live(t.id)
  /\ ~Refreshing(session)

\* A session that has no live token, and no refresh past the check of its own, is
\* over for good: no later call brings it back.
EndedStaysEnded == [][\A t \in tokens : Ended(t.session) => Ended(t.session)']_vars

\* A logout with a live token that is answered with success ends the session, unless
\* a refresh is under way in it or the session has branched before.
LogoutEnds ==
  [][\A c \in Clients :
       /\ call[c].op = "logout" /\ call[c].pc = "revoke" /\ call'[c].pc = "ok"
       /\ Live(call[c].token)
       /\ ~Refreshing(call[c].session) /\ ~Branched(call[c].session)
       => Ended(call[c].session)']_vars

\* The last active admin goes only when two changes of accounts overlap: by the write
\* of somebody who was an active admin while their call ran and was demoted or blocked
\* before it wrote, as when two admins block each other.  No other step, and nobody
\* who is still an admin, takes the last one away; no line of the code prevents the
\* overlap.
ActiveAdmin(u) == role[u] = "admin" /\ status[u] = "active"
SomeAdmin == \E u \in Users : ActiveAdmin(u)
Overtaken(c) == call[c].pc = "update" /\ Clear(c) /\ ~ActiveAdmin(call[c].who)
AdminRemains ==
  [][SomeAdmin => SomeAdmin' \/ \E c \in Clients : Overtaken(c) /\ call'[c] # call[c]]_vars

\* Inductive form of AdminRemains: an admin has an account, so that no registration
\* overwrites it, and nobody is about to change their own.
AdminInv ==
  /\ \A u \in Users : role[u] = "admin" => password[u] # None
  /\ \A c \in Clients : call[c].pc = "update" => call[c].target # call[c].who
=============================================================================

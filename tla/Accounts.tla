------------------------------- MODULE Accounts -------------------------------
(***************************************************************************)
(* The web app's accounts and sessions: src/internal/router, the           *)
(* middlewares, and the handlers of auth.go, admin.go and preset.go with   *)
(* the tables user_credentials, user_sessions and booking_presets.         *)
(*                                                                         *)
(* Requests are served concurrently.  A request is a sequence of           *)
(* statements on the database, each of them atomic: the session row        *)
(* (SessionAuth), the role (SessionAuth again, then RequireAdmin or        *)
(* DenyAdmin), for club calls the credentials once more (TokenRefresh),    *)
(* and the handler's own.  A request that is refused changes nothing and   *)
(* is simply over.  Passwords are not modelled: a login or a registration  *)
(* happens only if they match.                                             *)
(***************************************************************************)
CONSTANTS
    Users,
    Requests,       \* bound: requests served at a time
    Sids            \* bound: session ids handed out; random, so never reused

ASSUME NamesAssumption == Users \intersect {"none", "unused", "deleted"} = {}
ASSUME SidsAssumption == "none" \notin Sids

VARIABLES
    role,           \* user_credentials.role, "none" if there is no row
    presets,        \* users with a row in booking_presets
    owner,          \* owner[s]: user of the session row s, or why there is none
    expired,        \* sessions past their expires_at
    pc, req,        \* where each request is, and what it asks
    \* history
    rolesSeen,      \* roles the request's user has had while it was served
    loggedOut,      \* sessions a Logout handler has ended
    racing,         \* logins under way when the account they read was deleted
    raced           \* sessions that such logins created

tables  == <<role, presets, owner, expired>>
serving == <<pc, req, rolesSeen>>
history == <<loggedOut, racing, raced>>
vars    == <<tables, serving, history>>

Roles     == {"ADMIN", "NON_ADMIN"}
AdminOps  == {"register", "setRole", "deleteUser", "deletePreset"}
MemberOps == {"savePreset", "clubCall"}
Ops       == AdminOps \union MemberOps \union {"logout"}

Accounts  == {u \in Users : role[u] # "none"}
\* Not a user: no session was created with this id yet, or its row is gone.
NoOwner   == {"unused", "deleted"}

NoRequest == [op |-> "none", sid |-> "none", who |-> "none", target |-> "none"]

Init ==
    /\ role \in [Users -> Roles \union {"none"}]
    /\ presets \in SUBSET Accounts
    /\ owner = [s \in Sids |-> "unused"] /\ expired = {}
    /\ pc = [r \in Requests |-> "idle"] /\ req = [r \in Requests |-> NoRequest]
    /\ rolesSeen = [r \in Requests |-> {}]
    /\ loggedOut = {} /\ racing = {} /\ raced = {}

\* Request r is over, whatever was answered.
Respond(r) ==
    /\ pc' = [pc EXCEPT ![r] = "idle"]
    /\ req' = [req EXCEPT ![r] = NoRequest]
    /\ rolesSeen' = [rolesSeen EXCEPT ![r] = {}]

\* Request r is answered by a step that may have given u another role, which
\* the other requests of u have then had in their time.
RespondWithRole(r, u) ==
    /\ pc' = [pc EXCEPT ![r] = "idle"]
    /\ req' = [req EXCEPT ![r] = NoRequest]
    /\ rolesSeen' = [q \in Requests |->
          IF q = r THEN {}
          ELSE IF pc[q] # "idle" /\ req[q].who = u THEN rolesSeen[q] \union {role'[u]}
          ELSE rolesSeen[q]]

-------------------------------------------------------------------------------
(* AuthHandler.Login reads the credentials and creates the session in two  *)
(* statements.                                                             *)

BeginLogin(r, u) ==
    /\ pc[r] = "idle" /\ u \in Accounts
    /\ pc' = [pc EXCEPT ![r] = "create"]
    /\ req' = [req EXCEPT ![r] = [NoRequest EXCEPT !.op = "login", !.who = u]]
    /\ rolesSeen' = [rolesSeen EXCEPT ![r] = {role[u]}]
    /\ UNCHANGED <<tables, history>>

CreateSession(r, s) ==
    /\ pc[r] = "create" /\ owner[s] = "unused"
    /\ owner' = [owner EXCEPT ![s] = req[r].who]
    /\ racing' = racing \ {r}
    /\ raced' = IF r \in racing THEN raced \union {s} ELSE raced
    /\ Respond(r)
    /\ UNCHANGED <<role, presets, expired, loggedOut>>

(* SessionAuth: Store.Get and Credentials.Get; then the router's choice of *)
(* middleware, which reads no more than the role found here.               *)

\* Mutant of Begin: a row that is not found is taken for a session.
BeginUnknown(r, s, op, target) ==
    /\ pc[r] = "idle" /\ s \notin expired
    /\ op \notin AdminOps => target = owner[s]
    /\ pc' = [pc EXCEPT ![r] = "session"]
    /\ req' = [req EXCEPT ![r] = [op |-> op, sid |-> s, who |-> owner[s],
                                  target |-> target]]
    /\ rolesSeen' = [rolesSeen EXCEPT ![r] = {role[u] : u \in Users \intersect {owner[s]}}]
    /\ UNCHANGED <<tables, history>>

\* Only the admin routes name a user other than the session's.
Begin(r, s, op, target) ==
    /\ pc[r] = "idle" /\ owner[s] \in Users /\ s \notin expired
    /\ op \notin AdminOps => target = owner[s]
    /\ pc' = [pc EXCEPT ![r] = "session"]
    /\ req' = [req EXCEPT ![r] = [op |-> op, sid |-> s, who |-> owner[s],
                                  target |-> target]]
    /\ rolesSeen' = [rolesSeen EXCEPT ![r] = {role[owner[s]]}]
    /\ UNCHANGED <<tables, history>>

\* Mutant of Allowed: the admin routes are not guarded.
AllowedToAll(op, asRole) == op \in MemberOps => asRole # "ADMIN"

\* RequireAdmin on the admin routes, DenyAdmin on the member routes.
Allowed(op, asRole) ==
    /\ op \in AdminOps => asRole = "ADMIN"
    /\ op \in MemberOps => asRole # "ADMIN"

Admit(r) ==
    /\ pc[r] = "session" /\ req[r].who \in Accounts
    /\ Allowed(req[r].op, role[req[r].who])
    /\ pc' = [pc EXCEPT ![r] = IF req[r].op = "clubCall" THEN "token" ELSE "handler"]
    /\ UNCHANGED <<tables, req, rolesSeen, history>>

Refuse(r) ==
    /\ pc[r] = "session"
    /\ req[r].who \in Accounts => ~Allowed(req[r].op, role[req[r].who])
    /\ Respond(r)
    /\ UNCHANGED <<tables, history>>

(* TokenRefresh reads the credentials anew and logs in at the club; then   *)
(* the slots and booking handlers call the club.                           *)

TokenRefresh(r) ==
    /\ pc[r] = "token"
    /\ \/ req[r].who \in Accounts /\ pc' = [pc EXCEPT ![r] = "handler"] /\ UNCHANGED <<req, rolesSeen>>
       \/ Respond(r)
    /\ UNCHANGED <<tables, history>>

ClubCall(r) ==
    /\ pc[r] = "handler" /\ req[r].op = "clubCall"
    /\ Respond(r)
    /\ UNCHANGED <<tables, history>>

(* The handlers that write.                                                *)

Handling(r, op) == pc[r] = "handler" /\ req[r].op = op

\* Mutant of Upsert: the conflict clause writes the role as well.
UpsertRole(u, new) == role' = [role EXCEPT ![u] = new]

\* Credentials.Upsert: a row that exists keeps its role, whatever the caller's.
Upsert(u, new) == role' = [role EXCEPT ![u] = IF @ = "none" THEN new ELSE @]

Register(r) ==
    /\ Handling(r, "register")
    /\ Upsert(req[r].target, "NON_ADMIN")
    /\ RespondWithRole(r, req[r].target)
    /\ UNCHANGED <<presets, owner, expired, history>>

SetUserRole(r) ==
    /\ Handling(r, "setRole") /\ req[r].target \in Accounts
    /\ \E new \in Roles : role' = [role EXCEPT ![req[r].target] = new]
    /\ RespondWithRole(r, req[r].target)
    /\ UNCHANGED <<presets, owner, expired, history>>

\* Mutant of RemoveUser: the sessions are left to expire.
RemoveUserOnly(u) ==
    /\ role' = [role EXCEPT ![u] = "none"]
    /\ presets' = presets \ {u}
    /\ UNCHANGED <<owner, expired>>

\* user.DeleteUser: one transaction.
RemoveUser(u) ==
    /\ role' = [role EXCEPT ![u] = "none"]
    /\ presets' = presets \ {u}
    /\ owner' = [s \in Sids |-> IF owner[s] = u THEN "deleted" ELSE owner[s]]
    /\ expired' = {s \in expired : owner[s] # u}

DeleteUser(r) ==
    /\ Handling(r, "deleteUser") /\ req[r].target \in Accounts
    /\ RemoveUser(req[r].target)
    /\ racing' = racing \union {q \in Requests : pc[q] = "create" /\ req[q].who = req[r].target}
    /\ RespondWithRole(r, req[r].target)
    /\ UNCHANGED <<loggedOut, raced>>

DeletePreset(r) ==
    /\ Handling(r, "deletePreset") /\ req[r].target \in presets
    /\ presets' = presets \ {req[r].target}
    /\ Respond(r)
    /\ UNCHANGED <<role, owner, expired, history>>

\* The foreign key to user_credentials refuses the row of a user deleted since.
SavePreset(r) ==
    /\ Handling(r, "savePreset") /\ req[r].who \in Accounts
    /\ presets' = presets \union {req[r].who}
    /\ Respond(r)
    /\ UNCHANGED <<role, owner, expired, history>>

\* Mutant of Logout: only the cookie is cleared.
LogoutCookieOnly(r) ==
    /\ Handling(r, "logout")
    /\ loggedOut' = loggedOut \union {req[r].sid}
    /\ Respond(r)
    /\ UNCHANGED <<tables, racing, raced>>

Logout(r) ==
    /\ Handling(r, "logout")
    /\ owner' = [owner EXCEPT ![req[r].sid] = "deleted"]
    /\ expired' = expired \ {req[r].sid}
    /\ loggedOut' = loggedOut \union {req[r].sid}
    /\ Respond(r)
    /\ UNCHANGED <<role, presets, racing, raced>>

\* The handler finds nothing to work on, or its statement or transaction fails
\* and is rolled back: so does DeleteUser when SavePreset inserts a row between
\* its statements.
Fail(r) ==
    /\ pc[r] = "handler"
    /\ Respond(r)
    /\ UNCHANGED <<tables, history>>

(* The createuser command, a process of its own on the same database.      *)

CreateUser(u, new) ==
    /\ Upsert(u, new)
    /\ rolesSeen' = [q \in Requests |->
          IF pc[q] # "idle" /\ req[q].who = u THEN rolesSeen[q] \union {role'[u]}
          ELSE rolesSeen[q]]
    /\ UNCHANGED <<presets, owner, expired, pc, req, history>>

(* Time, and the reaper of Store.                                          *)

Expire(s) ==
    /\ owner[s] \in Users
    /\ expired' = expired \union {s}
    /\ UNCHANGED <<role, presets, owner, serving, history>>

Reap ==
    /\ expired # {}
    /\ owner' = [s \in Sids |-> IF s \in expired THEN "deleted" ELSE owner[s]]
    /\ expired' = {}
    /\ UNCHANGED <<role, presets, serving, history>>

-------------------------------------------------------------------------------
Handle(r) ==
    \/ ClubCall(r) \/ Register(r) \/ SetUserRole(r) \/ DeleteUser(r) \/ DeletePreset(r)
    \/ SavePreset(r) \/ Logout(r) \/ Fail(r)

Next ==
    \/ \E r \in Requests :
          \/ \E u \in Users : BeginLogin(r, u)
          \/ \E s \in Sids : CreateSession(r, s)
          \/ \E s \in Sids, op \in Ops, u \in Users : Begin(r, s, op, u)
          \/ Admit(r) \/ Refuse(r) \/ TokenRefresh(r) \/ Handle(r)
    \/ \E u \in Users, new \in Roles : CreateUser(u, new)
    \/ \E s \in Sids : Expire(s)
    \/ Reap

Spec == Init /\ [][Next]_vars

-------------------------------------------------------------------------------
(* Properties.                                                             *)

RequestData == [op : Ops \union {"login", "none"}, sid : Sids \union {"none"},
                who : Users \union {"none"}, target : Users \union {"none"}]

TablesOK ==
    /\ role \in [Users -> Roles \union {"none"}]
    /\ presets \subseteq Users
    /\ owner \in [Sids -> Users \union NoOwner]
    /\ expired \subseteq {s \in Sids : owner[s] \in Users}

RequestsOK ==
    /\ pc \in [Requests -> {"idle", "create", "session", "token", "handler"}]
    /\ req \in [Requests -> RequestData]
    /\ rolesSeen \in [Requests -> SUBSET (Roles \union {"none"})]

\* Types of all variables.
TypeOK ==
    /\ TablesOK /\ RequestsOK
    /\ loggedOut \subseteq Sids /\ racing \subseteq Requests /\ raced \subseteq Sids

\* The role may change while a request is served.  An admin handler still runs
\* only for a user who was an admin, and a member handler only for one who was a
\* member, at some moment between the request's first statement and now.
RoleHeldDuringRequest ==
    \A r \in Requests : pc[r] \in {"token", "handler"} =>
        /\ req[r].op \in AdminOps => "ADMIN" \in rolesSeen[r]
        /\ req[r].op \in MemberOps => "NON_ADMIN" \in rolesSeen[r]

\* Registering a user who exists, or running createuser for one, renews the
\* password and nothing else: only SetUserRole moves a user between roles.  The
\* first role of a user is an admin's only if createuser gives it.
RoleChangesOnlyBySetRole ==
    [][\A u \in Users : role'[u] \in Roles /\ role'[u] # role[u] =>
          \/ role[u] = "none" /\ (role'[u] = "NON_ADMIN" \/ pc' = pc)
          \/ \E r \in Requests : Handling(r, "setRole") /\ req[r].target = u]_vars

\* SavePreset may race the deletion of its user: no preset outlives its account,
\* or the scheduler would run it without credentials.
PresetsHaveAccounts == presets \subseteq Accounts

\* A deletion ends every session of the user.  Those created by a login that had
\* read the credentials before the deletion are the only exception.
SessionsDieWithAccount ==
    \A s \in Sids : owner[s] \in Users /\ owner[s] \notin Accounts => s \in raced

\* Nothing that works for a user outlives the account, but such a session.
NothingOutlivesAccount == PresetsHaveAccounts /\ SessionsDieWithAccount

\* A session whose row Logout has deleted admits no request from then on.
LogoutIsFinal ==
    [][\A r \in Requests : pc[r] = "idle" /\ pc'[r] = "session"
          => req'[r].sid \notin loggedOut]_vars
===============================================================================

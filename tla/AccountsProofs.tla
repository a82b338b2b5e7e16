---------------------------- MODULE AccountsProofs ----------------------------
(***************************************************************************)
(* Proofs about Accounts for every number of users, of requests served at  *)
(* a time and of sessions.  The inductive invariant IInv adds to the       *)
(* safety properties what a request that is under way knows.               *)
(***************************************************************************)
EXTENDS Accounts, TLAPS

\* A request that has begun works for a user; unless it is a login, it names a
\* session and a user to work on.
RequestsNameUsers ==
    \A r \in Requests :
        /\ pc[r] # "idle" => req[r].who \in Users
        /\ pc[r] \in {"session", "token", "handler"} =>
               req[r].sid \in Sids /\ req[r].target \in Users

\* rolesSeen holds the present role of the user of every request under way.
PresentRoleSeen ==
    \A r \in Requests : pc[r] \in {"session", "token", "handler"} =>
        role[req[r].who] \in rolesSeen[r]

\* A login under way for a user without an account has raced a deletion.
LoginsKnown ==
    \A r \in Requests : pc[r] = "create" /\ req[r].who \notin Accounts => r \in racing

\* The row of a session that was logged out is gone, and never comes back.
LoggedOutGone == \A s \in loggedOut : owner[s] = "deleted"

IInv ==
    /\ TypeOK /\ RequestsNameUsers
    /\ PresetsHaveAccounts
    /\ LoginsKnown /\ SessionsDieWithAccount
    /\ PresentRoleSeen /\ RoleHeldDuringRequest
    /\ LoggedOutGone
-------------------------------------------------------------------------------

(* The tables keep their types.                                            *)
LEMMA TablesStep ==
    ASSUME IInv, [Next]_vars
    PROVE  TablesOK'
<1> USE DEF IInv, TypeOK, TablesOK, RequestsNameUsers, Roles, NoOwner
<1>1. ASSUME NEW r \in Requests, NEW u \in Users, BeginLogin(r, u)
      PROVE  TablesOK'
  BY <1>1 DEF BeginLogin, tables
<1>2. ASSUME NEW r \in Requests, NEW s \in Sids, CreateSession(r, s)
      PROVE  TablesOK'
  BY <1>2 DEF CreateSession
<1>3. ASSUME NEW r \in Requests, NEW s \in Sids, NEW op \in Ops, NEW u \in Users,
          Begin(r, s, op, u)
      PROVE  TablesOK'
  BY <1>3 DEF Begin, tables
<1>4. ASSUME NEW r \in Requests, Admit(r)
      PROVE  TablesOK'
  BY <1>4 DEF Admit, tables
<1>5. ASSUME NEW r \in Requests, Refuse(r)
      PROVE  TablesOK'
  BY <1>5 DEF Refuse, tables
<1>6. ASSUME NEW r \in Requests, TokenRefresh(r)
      PROVE  TablesOK'
  BY <1>6 DEF TokenRefresh, tables
<1>7. ASSUME NEW r \in Requests, ClubCall(r)
      PROVE  TablesOK'
  BY <1>7 DEF ClubCall, tables
<1>8. ASSUME NEW r \in Requests, Register(r)
      PROVE  TablesOK'
  BY <1>8 DEF Register, Upsert
<1>9. ASSUME NEW r \in Requests, SetUserRole(r)
      PROVE  TablesOK'
  BY <1>9 DEF SetUserRole, Handling
<1>10. ASSUME NEW r \in Requests, DeleteUser(r)
      PROVE  TablesOK'
  BY <1>10 DEF DeleteUser, RemoveUser
<1>11. ASSUME NEW r \in Requests, DeletePreset(r)
      PROVE  TablesOK'
  BY <1>11 DEF DeletePreset
<1>12. ASSUME NEW r \in Requests, SavePreset(r)
      PROVE  TablesOK'
  BY <1>12 DEF SavePreset, Handling
<1>13. ASSUME NEW r \in Requests, Logout(r)
      PROVE  TablesOK'
  BY <1>13 DEF Logout
<1>14. ASSUME NEW r \in Requests, Fail(r)
      PROVE  TablesOK'
  BY <1>14 DEF Fail, tables
<1>15. CASE \E s \in Sids : Expire(s)
  BY <1>15 DEF Expire
<1>16. CASE Reap
  BY <1>16 DEF Reap
<1>17. CASE UNCHANGED vars
  BY <1>17 DEF vars, tables
<1>18. ASSUME NEW u \in Users, NEW new \in Roles, CreateUser(u, new)
      PROVE  TablesOK'
  BY <1>18 DEF CreateUser, Upsert
<1> QED
  BY <1>1, <1>2, <1>3, <1>4, <1>5, <1>6, <1>7, <1>8, <1>9,
     <1>10, <1>11, <1>12, <1>13, <1>14, <1>15, <1>16, <1>17, <1>18 DEF Next, Handle

(* Requests keep their types.                                              *)
LEMMA RequestsStep ==
    ASSUME IInv, [Next]_vars
    PROVE  RequestsOK'
<1> USE NamesAssumption DEF IInv, TypeOK, TablesOK, RequestsOK,
      RequestsNameUsers, Accounts, Roles, NoOwner, RequestData, NoRequest
<1>1. ASSUME NEW r \in Requests, NEW u \in Users, BeginLogin(r, u)
      PROVE  RequestsOK'
  <2>1. [NoRequest EXCEPT !.op = "login", !.who = u] \in RequestData
    OBVIOUS
  <2> QED
    BY <1>1, <2>1 DEF BeginLogin, tables, history
<1>2. ASSUME NEW r \in Requests, NEW s \in Sids, CreateSession(r, s)
      PROVE  RequestsOK'
  BY <1>2 DEF CreateSession, Respond
<1>3. ASSUME NEW r \in Requests, NEW s \in Sids, NEW op \in Ops, NEW u \in Users,
          Begin(r, s, op, u)
      PROVE  RequestsOK'
  BY <1>3 DEF Begin
<1>4. ASSUME NEW r \in Requests, Admit(r)
      PROVE  RequestsOK'
  BY <1>4 DEF Admit
<1>5. ASSUME NEW r \in Requests, Refuse(r)
      PROVE  RequestsOK'
  BY <1>5 DEF Refuse, Respond
<1>6. ASSUME NEW r \in Requests, TokenRefresh(r)
      PROVE  RequestsOK'
  BY <1>6 DEF TokenRefresh, tables, history, Respond
<1>7. ASSUME NEW r \in Requests, ClubCall(r)
      PROVE  RequestsOK'
  BY <1>7 DEF ClubCall, Respond
<1>8. ASSUME NEW r \in Requests, Register(r)
      PROVE  RequestsOK'
  BY <1>8 DEF Register, Upsert, RespondWithRole
<1>9. ASSUME NEW r \in Requests, SetUserRole(r)
      PROVE  RequestsOK'
  BY <1>9 DEF SetUserRole, RespondWithRole
<1>10. ASSUME NEW r \in Requests, DeleteUser(r)
      PROVE  RequestsOK'
  BY <1>10 DEF DeleteUser, RemoveUser, RespondWithRole
<1>11. ASSUME NEW r \in Requests, DeletePreset(r)
      PROVE  RequestsOK'
  BY <1>11 DEF DeletePreset, Respond
<1>12. ASSUME NEW r \in Requests, SavePreset(r)
      PROVE  RequestsOK'
  BY <1>12 DEF SavePreset, Respond
<1>13. ASSUME NEW r \in Requests, Logout(r)
      PROVE  RequestsOK'
  BY <1>13 DEF Logout, Respond
<1>14. ASSUME NEW r \in Requests, Fail(r)
      PROVE  RequestsOK'
  BY <1>14 DEF Fail, Respond
<1>15. CASE \E s \in Sids : Expire(s)
  BY <1>15 DEF Expire, serving
<1>16. CASE Reap
  BY <1>16 DEF Reap, serving
<1>17. CASE UNCHANGED vars
  BY <1>17 DEF vars, serving
<1>18. ASSUME NEW u \in Users, NEW new \in Roles, CreateUser(u, new)
      PROVE  RequestsOK'
  BY <1>18 DEF CreateUser, Upsert
<1> QED
  BY <1>1, <1>2, <1>3, <1>4, <1>5, <1>6, <1>7, <1>8, <1>9,
     <1>10, <1>11, <1>12, <1>13, <1>14, <1>15, <1>16, <1>17, <1>18 DEF Next, Handle

(* A request under way names a user, and a session unless it is a login.   *)
LEMMA NamesStep ==
    ASSUME IInv, [Next]_vars
    PROVE  RequestsNameUsers'
<1> USE DEF IInv, TypeOK, RequestsOK, RequestsNameUsers
<1>1. ASSUME NEW r \in Requests, NEW u \in Users, BeginLogin(r, u)
      PROVE  RequestsNameUsers'
  BY <1>1 DEF BeginLogin
<1>2. ASSUME NEW r \in Requests, NEW s \in Sids, CreateSession(r, s)
      PROVE  RequestsNameUsers'
  BY <1>2 DEF CreateSession, Respond
<1>3. ASSUME NEW r \in Requests, NEW s \in Sids, NEW op \in Ops, NEW u \in Users,
          Begin(r, s, op, u)
      PROVE  RequestsNameUsers'
  BY <1>3 DEF Begin
<1>4. ASSUME NEW r \in Requests, Admit(r)
      PROVE  RequestsNameUsers'
  BY <1>4 DEF Admit
<1>5. ASSUME NEW r \in Requests, Refuse(r)
      PROVE  RequestsNameUsers'
  BY <1>5 DEF Refuse, Respond
<1>6. ASSUME NEW r \in Requests, TokenRefresh(r)
      PROVE  RequestsNameUsers'
  BY <1>6 DEF TokenRefresh, Respond
<1>7. ASSUME NEW r \in Requests, ClubCall(r)
      PROVE  RequestsNameUsers'
  BY <1>7 DEF ClubCall, Respond
<1>8. ASSUME NEW r \in Requests, Register(r)
      PROVE  RequestsNameUsers'
  BY <1>8 DEF Register, RespondWithRole
<1>9. ASSUME NEW r \in Requests, SetUserRole(r)
      PROVE  RequestsNameUsers'
  BY <1>9 DEF SetUserRole, RespondWithRole
<1>10. ASSUME NEW r \in Requests, DeleteUser(r)
      PROVE  RequestsNameUsers'
  BY <1>10 DEF DeleteUser, RespondWithRole
<1>11. ASSUME NEW r \in Requests, DeletePreset(r)
      PROVE  RequestsNameUsers'
  BY <1>11 DEF DeletePreset, Respond
<1>12. ASSUME NEW r \in Requests, SavePreset(r)
      PROVE  RequestsNameUsers'
  BY <1>12 DEF SavePreset, Respond
<1>13. ASSUME NEW r \in Requests, Logout(r)
      PROVE  RequestsNameUsers'
  BY <1>13 DEF Logout, Respond
<1>14. ASSUME NEW r \in Requests, Fail(r)
      PROVE  RequestsNameUsers'
  BY <1>14 DEF Fail, Respond
<1>15. CASE \E s \in Sids : Expire(s)
  BY <1>15 DEF Expire, serving
<1>16. CASE Reap
  BY <1>16 DEF Reap, serving
<1>17. CASE UNCHANGED vars
  BY <1>17 DEF vars, serving
<1>18. ASSUME NEW u \in Users, NEW new \in Roles, CreateUser(u, new)
      PROVE  RequestsNameUsers'
  BY <1>18 DEF CreateUser, Upsert, history
<1> QED
  BY <1>1, <1>2, <1>3, <1>4, <1>5, <1>6, <1>7, <1>8, <1>9,
     <1>10, <1>11, <1>12, <1>13, <1>14, <1>15, <1>16, <1>17, <1>18 DEF Next, Handle

(* The histories keep their types.                                         *)
LEMMA HistoryStep ==
    ASSUME IInv, [Next]_vars
    PROVE  (loggedOut \subseteq Sids /\ racing \subseteq Requests /\ raced \subseteq Sids)'
<1> USE DEF IInv, TypeOK, RequestsNameUsers
<1>1. ASSUME NEW r \in Requests, NEW u \in Users, BeginLogin(r, u)
      PROVE  (loggedOut \subseteq Sids /\ racing \subseteq Requests /\ raced \subseteq Sids)'
  BY <1>1 DEF BeginLogin, history
<1>2. ASSUME NEW r \in Requests, NEW s \in Sids, CreateSession(r, s)
      PROVE  (loggedOut \subseteq Sids /\ racing \subseteq Requests /\ raced \subseteq Sids)'
  BY <1>2 DEF CreateSession
<1>3. ASSUME NEW r \in Requests, NEW s \in Sids, NEW op \in Ops, NEW u \in Users,
          Begin(r, s, op, u)
      PROVE  (loggedOut \subseteq Sids /\ racing \subseteq Requests /\ raced \subseteq Sids)'
  BY <1>3 DEF Begin, history
<1>4. ASSUME NEW r \in Requests, Admit(r)
      PROVE  (loggedOut \subseteq Sids /\ racing \subseteq Requests /\ raced \subseteq Sids)'
  BY <1>4 DEF Admit, history
<1>5. ASSUME NEW r \in Requests, Refuse(r)
      PROVE  (loggedOut \subseteq Sids /\ racing \subseteq Requests /\ raced \subseteq Sids)'
  BY <1>5 DEF Refuse, history
<1>6. ASSUME NEW r \in Requests, TokenRefresh(r)
      PROVE  (loggedOut \subseteq Sids /\ racing \subseteq Requests /\ raced \subseteq Sids)'
  BY <1>6 DEF TokenRefresh, history
<1>7. ASSUME NEW r \in Requests, ClubCall(r)
      PROVE  (loggedOut \subseteq Sids /\ racing \subseteq Requests /\ raced \subseteq Sids)'
  BY <1>7 DEF ClubCall, history
<1>8. ASSUME NEW r \in Requests, Register(r)
      PROVE  (loggedOut \subseteq Sids /\ racing \subseteq Requests /\ raced \subseteq Sids)'
  BY <1>8 DEF Register, history
<1>9. ASSUME NEW r \in Requests, SetUserRole(r)
      PROVE  (loggedOut \subseteq Sids /\ racing \subseteq Requests /\ raced \subseteq Sids)'
  BY <1>9 DEF SetUserRole, history
<1>10. ASSUME NEW r \in Requests, DeleteUser(r)
      PROVE  (loggedOut \subseteq Sids /\ racing \subseteq Requests /\ raced \subseteq Sids)'
  BY <1>10 DEF DeleteUser
<1>11. ASSUME NEW r \in Requests, DeletePreset(r)
      PROVE  (loggedOut \subseteq Sids /\ racing \subseteq Requests /\ raced \subseteq Sids)'
  BY <1>11 DEF DeletePreset, history
<1>12. ASSUME NEW r \in Requests, SavePreset(r)
      PROVE  (loggedOut \subseteq Sids /\ racing \subseteq Requests /\ raced \subseteq Sids)'
  BY <1>12 DEF SavePreset, history
<1>13. ASSUME NEW r \in Requests, Logout(r)
      PROVE  (loggedOut \subseteq Sids /\ racing \subseteq Requests /\ raced \subseteq Sids)'
  BY <1>13 DEF Logout, Handling
<1>14. ASSUME NEW r \in Requests, Fail(r)
      PROVE  (loggedOut \subseteq Sids /\ racing \subseteq Requests /\ raced \subseteq Sids)'
  BY <1>14 DEF Fail, history
<1>15. CASE \E s \in Sids : Expire(s)
  BY <1>15 DEF Expire, history
<1>16. CASE Reap
  BY <1>16 DEF Reap, history
<1>17. CASE UNCHANGED vars
  BY <1>17 DEF vars, history
<1>18. ASSUME NEW u \in Users, NEW new \in Roles, CreateUser(u, new)
      PROVE  (loggedOut \subseteq Sids /\ racing \subseteq Requests /\ raced \subseteq Sids)'
  BY <1>18 DEF CreateUser, history
<1> QED
  BY <1>1, <1>2, <1>3, <1>4, <1>5, <1>6, <1>7, <1>8, <1>9,
     <1>10, <1>11, <1>12, <1>13, <1>14, <1>15, <1>16, <1>17, <1>18 DEF Next, Handle

(* No step leaves a preset without its account.                            *)
LEMMA PresetsStep ==
    ASSUME IInv, [Next]_vars
    PROVE  PresetsHaveAccounts'
<1> USE DEF IInv, PresetsHaveAccounts, Accounts, Roles
<1>1. ASSUME NEW r \in Requests, NEW u \in Users, BeginLogin(r, u)
      PROVE  PresetsHaveAccounts'
  BY <1>1 DEF BeginLogin, tables
<1>2. ASSUME NEW r \in Requests, NEW s \in Sids, CreateSession(r, s)
      PROVE  PresetsHaveAccounts'
  BY <1>2 DEF CreateSession
<1>3. ASSUME NEW r \in Requests, NEW s \in Sids, NEW op \in Ops, NEW u \in Users,
          Begin(r, s, op, u)
      PROVE  PresetsHaveAccounts'
  BY <1>3 DEF Begin, tables
<1>4. ASSUME NEW r \in Requests, Admit(r)
      PROVE  PresetsHaveAccounts'
  BY <1>4 DEF Admit, tables
<1>5. ASSUME NEW r \in Requests, Refuse(r)
      PROVE  PresetsHaveAccounts'
  BY <1>5 DEF Refuse, tables
<1>6. ASSUME NEW r \in Requests, TokenRefresh(r)
      PROVE  PresetsHaveAccounts'
  BY <1>6 DEF TokenRefresh, tables
<1>7. ASSUME NEW r \in Requests, ClubCall(r)
      PROVE  PresetsHaveAccounts'
  BY <1>7 DEF ClubCall, tables
<1>8. ASSUME NEW r \in Requests, Register(r)
      PROVE  PresetsHaveAccounts'
  BY <1>8 DEF Register, Upsert
<1>9. ASSUME NEW r \in Requests, SetUserRole(r)
      PROVE  PresetsHaveAccounts'
  BY <1>9 DEF SetUserRole
<1>10. ASSUME NEW r \in Requests, DeleteUser(r)
      PROVE  PresetsHaveAccounts'
  BY <1>10 DEF DeleteUser, RemoveUser
<1>11. ASSUME NEW r \in Requests, DeletePreset(r)
      PROVE  PresetsHaveAccounts'
  BY <1>11 DEF DeletePreset
<1>12. ASSUME NEW r \in Requests, SavePreset(r)
      PROVE  PresetsHaveAccounts'
  BY <1>12 DEF SavePreset
<1>13. ASSUME NEW r \in Requests, Logout(r)
      PROVE  PresetsHaveAccounts'
  BY <1>13 DEF Logout
<1>14. ASSUME NEW r \in Requests, Fail(r)
      PROVE  PresetsHaveAccounts'
  BY <1>14 DEF Fail, tables
<1>15. CASE \E s \in Sids : Expire(s)
  BY <1>15 DEF Expire
<1>16. CASE Reap
  BY <1>16 DEF Reap
<1>17. CASE UNCHANGED vars
  BY <1>17 DEF vars, tables
<1>18. ASSUME NEW u \in Users, NEW new \in Roles, CreateUser(u, new)
      PROVE  PresetsHaveAccounts'
  BY <1>18 DEF CreateUser, Upsert, history
<1> QED
  BY <1>1, <1>2, <1>3, <1>4, <1>5, <1>6, <1>7, <1>8, <1>9,
     <1>10, <1>11, <1>12, <1>13, <1>14, <1>15, <1>16, <1>17, <1>18 DEF Next, Handle

(* A login whose account is deleted under it is noted.                     *)
LEMMA LoginsStep ==
    ASSUME IInv, [Next]_vars
    PROVE  LoginsKnown'
<1> USE DEF IInv, TypeOK, RequestsOK, LoginsKnown, Accounts, Roles
<1>1. ASSUME NEW r \in Requests, NEW u \in Users, BeginLogin(r, u)
      PROVE  LoginsKnown'
  BY <1>1 DEF BeginLogin, tables, history
<1>2. ASSUME NEW r \in Requests, NEW s \in Sids, CreateSession(r, s)
      PROVE  LoginsKnown'
  BY <1>2 DEF CreateSession, Respond
<1>3. ASSUME NEW r \in Requests, NEW s \in Sids, NEW op \in Ops, NEW u \in Users,
          Begin(r, s, op, u)
      PROVE  LoginsKnown'
  BY <1>3 DEF Begin, tables, history
<1>4. ASSUME NEW r \in Requests, Admit(r)
      PROVE  LoginsKnown'
  BY <1>4 DEF Admit, tables, history
<1>5. ASSUME NEW r \in Requests, Refuse(r)
      PROVE  LoginsKnown'
  BY <1>5 DEF Refuse, tables, history, Respond
<1>6. ASSUME NEW r \in Requests, TokenRefresh(r)
      PROVE  LoginsKnown'
  BY <1>6 DEF TokenRefresh, tables, history, Respond
<1>7. ASSUME NEW r \in Requests, ClubCall(r)
      PROVE  LoginsKnown'
  BY <1>7 DEF ClubCall, tables, history, Respond
<1>8. ASSUME NEW r \in Requests, Register(r)
      PROVE  LoginsKnown'
  BY <1>8 DEF Register, Upsert, RespondWithRole, history
<1>9. ASSUME NEW r \in Requests, SetUserRole(r)
      PROVE  LoginsKnown'
  BY <1>9 DEF SetUserRole, RespondWithRole, history
<1>10. ASSUME NEW r \in Requests, DeleteUser(r)
      PROVE  LoginsKnown'
  BY <1>10 DEF DeleteUser, RemoveUser, RespondWithRole
<1>11. ASSUME NEW r \in Requests, DeletePreset(r)
      PROVE  LoginsKnown'
  BY <1>11 DEF DeletePreset, Respond, history
<1>12. ASSUME NEW r \in Requests, SavePreset(r)
      PROVE  LoginsKnown'
  BY <1>12 DEF SavePreset, Respond, history
<1>13. ASSUME NEW r \in Requests, Logout(r)
      PROVE  LoginsKnown'
  BY <1>13 DEF Logout, Respond
<1>14. ASSUME NEW r \in Requests, Fail(r)
      PROVE  LoginsKnown'
  BY <1>14 DEF Fail, tables, history, Respond
<1>15. CASE \E s \in Sids : Expire(s)
  BY <1>15 DEF Expire, serving, history
<1>16. CASE Reap
  BY <1>16 DEF Reap, serving, history
<1>17. CASE UNCHANGED vars
  BY <1>17 DEF vars, tables, serving, history
<1>18. ASSUME NEW u \in Users, NEW new \in Roles, CreateUser(u, new)
      PROVE  LoginsKnown'
  BY <1>18 DEF CreateUser, Upsert, history
<1> QED
  BY <1>1, <1>2, <1>3, <1>4, <1>5, <1>6, <1>7, <1>8, <1>9,
     <1>10, <1>11, <1>12, <1>13, <1>14, <1>15, <1>16, <1>17, <1>18 DEF Next, Handle

(* Only such a login creates a session without an account.                 *)
LEMMA SessionsStep ==
    ASSUME IInv, [Next]_vars
    PROVE  SessionsDieWithAccount'
<1> USE NamesAssumption DEF IInv, LoginsKnown, SessionsDieWithAccount,
      Accounts, Roles
<1>1. ASSUME NEW r \in Requests, NEW u \in Users, BeginLogin(r, u)
      PROVE  SessionsDieWithAccount'
  BY <1>1 DEF BeginLogin, tables, history
<1>2. ASSUME NEW r \in Requests, NEW s \in Sids, CreateSession(r, s)
      PROVE  SessionsDieWithAccount'
  BY <1>2 DEF CreateSession
<1>3. ASSUME NEW r \in Requests, NEW s \in Sids, NEW op \in Ops, NEW u \in Users,
          Begin(r, s, op, u)
      PROVE  SessionsDieWithAccount'
  BY <1>3 DEF Begin, tables, history
<1>4. ASSUME NEW r \in Requests, Admit(r)
      PROVE  SessionsDieWithAccount'
  BY <1>4 DEF Admit, tables, history
<1>5. ASSUME NEW r \in Requests, Refuse(r)
      PROVE  SessionsDieWithAccount'
  BY <1>5 DEF Refuse, tables, history
<1>6. ASSUME NEW r \in Requests, TokenRefresh(r)
      PROVE  SessionsDieWithAccount'
  BY <1>6 DEF TokenRefresh, tables, history
<1>7. ASSUME NEW r \in Requests, ClubCall(r)
      PROVE  SessionsDieWithAccount'
  BY <1>7 DEF ClubCall, tables, history
<1>8. ASSUME NEW r \in Requests, Register(r)
      PROVE  SessionsDieWithAccount'
  BY <1>8 DEF Register, Upsert, history
<1>9. ASSUME NEW r \in Requests, SetUserRole(r)
      PROVE  SessionsDieWithAccount'
  BY <1>9 DEF SetUserRole, history
<1>10. ASSUME NEW r \in Requests, DeleteUser(r)
      PROVE  SessionsDieWithAccount'
  BY <1>10 DEF DeleteUser, RemoveUser
<1>11. ASSUME NEW r \in Requests, DeletePreset(r)
      PROVE  SessionsDieWithAccount'
  BY <1>11 DEF DeletePreset, history
<1>12. ASSUME NEW r \in Requests, SavePreset(r)
      PROVE  SessionsDieWithAccount'
  BY <1>12 DEF SavePreset, history
<1>13. ASSUME NEW r \in Requests, Logout(r)
      PROVE  SessionsDieWithAccount'
  BY <1>13 DEF Logout
<1>14. ASSUME NEW r \in Requests, Fail(r)
      PROVE  SessionsDieWithAccount'
  BY <1>14 DEF Fail, tables, history
<1>15. CASE \E s \in Sids : Expire(s)
  BY <1>15 DEF Expire, history
<1>16. CASE Reap
  BY <1>16 DEF Reap, history
<1>17. CASE UNCHANGED vars
  BY <1>17 DEF vars, tables, history
<1>18. ASSUME NEW u \in Users, NEW new \in Roles, CreateUser(u, new)
      PROVE  SessionsDieWithAccount'
  BY <1>18 DEF CreateUser, Upsert, history
<1> QED
  BY <1>1, <1>2, <1>3, <1>4, <1>5, <1>6, <1>7, <1>8, <1>9,
     <1>10, <1>11, <1>12, <1>13, <1>14, <1>15, <1>16, <1>17, <1>18 DEF Next, Handle

(* A change of role is seen by the requests of the user under way.         *)
LEMMA SeenStep ==
    ASSUME IInv, [Next]_vars
    PROVE  PresentRoleSeen'
<1> USE DEF IInv, TypeOK, RequestsOK, PresentRoleSeen
<1>1. ASSUME NEW r \in Requests, NEW u \in Users, BeginLogin(r, u)
      PROVE  PresentRoleSeen'
  BY <1>1 DEF BeginLogin, tables
<1>2. ASSUME NEW r \in Requests, NEW s \in Sids, CreateSession(r, s)
      PROVE  PresentRoleSeen'
  BY <1>2 DEF CreateSession, Respond
<1>3. ASSUME NEW r \in Requests, NEW s \in Sids, NEW op \in Ops, NEW u \in Users,
          Begin(r, s, op, u)
      PROVE  PresentRoleSeen'
  BY <1>3 DEF Begin, tables
<1>4. ASSUME NEW r \in Requests, Admit(r)
      PROVE  PresentRoleSeen'
  BY <1>4 DEF Admit, tables
<1>5. ASSUME NEW r \in Requests, Refuse(r)
      PROVE  PresentRoleSeen'
  BY <1>5 DEF Refuse, tables, Respond
<1>6. ASSUME NEW r \in Requests, TokenRefresh(r)
      PROVE  PresentRoleSeen'
  BY <1>6 DEF TokenRefresh, tables, Respond
<1>7. ASSUME NEW r \in Requests, ClubCall(r)
      PROVE  PresentRoleSeen'
  BY <1>7 DEF ClubCall, tables, Respond
<1>8. ASSUME NEW r \in Requests, Register(r)
      PROVE  PresentRoleSeen'
  BY <1>8 DEF Register, Upsert, RespondWithRole
<1>9. ASSUME NEW r \in Requests, SetUserRole(r)
      PROVE  PresentRoleSeen'
  BY <1>9 DEF SetUserRole, RespondWithRole
<1>10. ASSUME NEW r \in Requests, DeleteUser(r)
      PROVE  PresentRoleSeen'
  BY <1>10 DEF DeleteUser, RemoveUser, RespondWithRole
<1>11. ASSUME NEW r \in Requests, DeletePreset(r)
      PROVE  PresentRoleSeen'
  BY <1>11 DEF DeletePreset, Respond
<1>12. ASSUME NEW r \in Requests, SavePreset(r)
      PROVE  PresentRoleSeen'
  BY <1>12 DEF SavePreset, Respond
<1>13. ASSUME NEW r \in Requests, Logout(r)
      PROVE  PresentRoleSeen'
  BY <1>13 DEF Logout, Respond
<1>14. ASSUME NEW r \in Requests, Fail(r)
      PROVE  PresentRoleSeen'
  BY <1>14 DEF Fail, tables, Respond
<1>15. CASE \E s \in Sids : Expire(s)
  BY <1>15 DEF Expire, serving
<1>16. CASE Reap
  BY <1>16 DEF Reap, serving
<1>17. CASE UNCHANGED vars
  BY <1>17 DEF vars, tables, serving
<1>18. ASSUME NEW u \in Users, NEW new \in Roles, CreateUser(u, new)
      PROVE  PresentRoleSeen'
  BY <1>18 DEF CreateUser, Upsert
<1> QED
  BY <1>1, <1>2, <1>3, <1>4, <1>5, <1>6, <1>7, <1>8, <1>9,
     <1>10, <1>11, <1>12, <1>13, <1>14, <1>15, <1>16, <1>17, <1>18 DEF Next, Handle

(* A handler is reached with a role that has been seen.                    *)
LEMMA RoleStep ==
    ASSUME IInv, [Next]_vars
    PROVE  RoleHeldDuringRequest'
<1> USE DEF IInv, TypeOK, RequestsOK, PresentRoleSeen, RoleHeldDuringRequest,
      Accounts, Roles
<1>1. ASSUME NEW r \in Requests, NEW u \in Users, BeginLogin(r, u)
      PROVE  RoleHeldDuringRequest'
  BY <1>1 DEF BeginLogin
<1>2. ASSUME NEW r \in Requests, NEW s \in Sids, CreateSession(r, s)
      PROVE  RoleHeldDuringRequest'
  BY <1>2 DEF CreateSession, Respond
<1>3. ASSUME NEW r \in Requests, NEW s \in Sids, NEW op \in Ops, NEW u \in Users,
          Begin(r, s, op, u)
      PROVE  RoleHeldDuringRequest'
  BY <1>3 DEF Begin
<1>4. ASSUME NEW r \in Requests, Admit(r)
      PROVE  RoleHeldDuringRequest'
  BY <1>4 DEF Admit, Allowed
<1>5. ASSUME NEW r \in Requests, Refuse(r)
      PROVE  RoleHeldDuringRequest'
  BY <1>5 DEF Refuse, Respond
<1>6. ASSUME NEW r \in Requests, TokenRefresh(r)
      PROVE  RoleHeldDuringRequest'
  BY <1>6 DEF TokenRefresh, Respond
<1>7. ASSUME NEW r \in Requests, ClubCall(r)
      PROVE  RoleHeldDuringRequest'
  BY <1>7 DEF ClubCall, Respond
<1>8. ASSUME NEW r \in Requests, Register(r)
      PROVE  RoleHeldDuringRequest'
  BY <1>8 DEF Register, RespondWithRole
<1>9. ASSUME NEW r \in Requests, SetUserRole(r)
      PROVE  RoleHeldDuringRequest'
  BY <1>9 DEF SetUserRole, RespondWithRole
<1>10. ASSUME NEW r \in Requests, DeleteUser(r)
      PROVE  RoleHeldDuringRequest'
  BY <1>10 DEF DeleteUser, RespondWithRole
<1>11. ASSUME NEW r \in Requests, DeletePreset(r)
      PROVE  RoleHeldDuringRequest'
  BY <1>11 DEF DeletePreset, Respond
<1>12. ASSUME NEW r \in Requests, SavePreset(r)
      PROVE  RoleHeldDuringRequest'
  BY <1>12 DEF SavePreset, Respond
<1>13. ASSUME NEW r \in Requests, Logout(r)
      PROVE  RoleHeldDuringRequest'
  BY <1>13 DEF Logout, Respond
<1>14. ASSUME NEW r \in Requests, Fail(r)
      PROVE  RoleHeldDuringRequest'
  BY <1>14 DEF Fail, Respond
<1>15. CASE \E s \in Sids : Expire(s)
  BY <1>15 DEF Expire, serving
<1>16. CASE Reap
  BY <1>16 DEF Reap, serving
<1>17. CASE UNCHANGED vars
  BY <1>17 DEF vars, serving
<1>18. ASSUME NEW u \in Users, NEW new \in Roles, CreateUser(u, new)
      PROVE  RoleHeldDuringRequest'
  BY <1>18 DEF CreateUser, Upsert, history
<1> QED
  BY <1>1, <1>2, <1>3, <1>4, <1>5, <1>6, <1>7, <1>8, <1>9,
     <1>10, <1>11, <1>12, <1>13, <1>14, <1>15, <1>16, <1>17, <1>18 DEF Next, Handle

(* The row of a session that was logged out stays gone.                    *)
LEMMA LogoutStep ==
    ASSUME IInv, [Next]_vars
    PROVE  LoggedOutGone'
<1> USE DEF IInv, TypeOK, TablesOK, RequestsNameUsers, LoggedOutGone
<1>1. ASSUME NEW r \in Requests, NEW u \in Users, BeginLogin(r, u)
      PROVE  LoggedOutGone'
  BY <1>1 DEF BeginLogin, tables, history
<1>2. ASSUME NEW r \in Requests, NEW s \in Sids, CreateSession(r, s)
      PROVE  LoggedOutGone'
  BY <1>2 DEF CreateSession
<1>3. ASSUME NEW r \in Requests, NEW s \in Sids, NEW op \in Ops, NEW u \in Users,
          Begin(r, s, op, u)
      PROVE  LoggedOutGone'
  BY <1>3 DEF Begin, tables, history
<1>4. ASSUME NEW r \in Requests, Admit(r)
      PROVE  LoggedOutGone'
  BY <1>4 DEF Admit, tables, history
<1>5. ASSUME NEW r \in Requests, Refuse(r)
      PROVE  LoggedOutGone'
  BY <1>5 DEF Refuse, tables, history
<1>6. ASSUME NEW r \in Requests, TokenRefresh(r)
      PROVE  LoggedOutGone'
  BY <1>6 DEF TokenRefresh, tables, history
<1>7. ASSUME NEW r \in Requests, ClubCall(r)
      PROVE  LoggedOutGone'
  BY <1>7 DEF ClubCall, tables, history
<1>8. ASSUME NEW r \in Requests, Register(r)
      PROVE  LoggedOutGone'
  BY <1>8 DEF Register, history
<1>9. ASSUME NEW r \in Requests, SetUserRole(r)
      PROVE  LoggedOutGone'
  BY <1>9 DEF SetUserRole, history
<1>10. ASSUME NEW r \in Requests, DeleteUser(r)
      PROVE  LoggedOutGone'
  BY <1>10 DEF DeleteUser, RemoveUser
<1>11. ASSUME NEW r \in Requests, DeletePreset(r)
      PROVE  LoggedOutGone'
  BY <1>11 DEF DeletePreset, history
<1>12. ASSUME NEW r \in Requests, SavePreset(r)
      PROVE  LoggedOutGone'
  BY <1>12 DEF SavePreset, history
<1>13. ASSUME NEW r \in Requests, Logout(r)
      PROVE  LoggedOutGone'
  BY <1>13 DEF Logout, Handling
<1>14. ASSUME NEW r \in Requests, Fail(r)
      PROVE  LoggedOutGone'
  BY <1>14 DEF Fail, tables, history
<1>15. CASE \E s \in Sids : Expire(s)
  BY <1>15 DEF Expire, history
<1>16. CASE Reap
  BY <1>16 DEF Reap, history
<1>17. CASE UNCHANGED vars
  BY <1>17 DEF vars, tables, history
<1>18. ASSUME NEW u \in Users, NEW new \in Roles, CreateUser(u, new)
      PROVE  LoggedOutGone'
  BY <1>18 DEF CreateUser, Upsert, history
<1> QED
  BY <1>1, <1>2, <1>3, <1>4, <1>5, <1>6, <1>7, <1>8, <1>9,
     <1>10, <1>11, <1>12, <1>13, <1>14, <1>15, <1>16, <1>17, <1>18 DEF Next, Handle

(* The initial states satisfy IInv.                                         *)
LEMMA InitIInv == Init => IInv
  BY NamesAssumption, SidsAssumption
     DEF Init, IInv, TypeOK, TablesOK, RequestsOK, RequestData, NoRequest, Roles, NoOwner,
         RequestsNameUsers, PresetsHaveAccounts, LoginsKnown, SessionsDieWithAccount,
         PresentRoleSeen, RoleHeldDuringRequest, LoggedOutGone, Accounts

(* Every step preserves IInv.                                               *)
LEMMA NextIInv == IInv /\ [Next]_vars => IInv'
<1> SUFFICES ASSUME IInv, [Next]_vars PROVE IInv'
  OBVIOUS
<1>1. TypeOK'
  BY TablesStep, RequestsStep, HistoryStep DEF TypeOK
<1>2. RequestsNameUsers' /\ PresetsHaveAccounts' /\ LoginsKnown' /\ SessionsDieWithAccount'
  BY NamesStep, PresetsStep, LoginsStep, SessionsStep
<1>3. PresentRoleSeen' /\ RoleHeldDuringRequest' /\ LoggedOutGone'
  BY SeenStep, RoleStep, LogoutStep
<1> QED
  BY <1>1, <1>2, <1>3 DEF IInv

(* IInv is an invariant of Accounts.                                        *)
THEOREM Invariance == Spec => []IInv
  BY InitIInv, NextIInv, PTL DEF Spec

(* The tables and the requests always have their types.                     *)
THEOREM TypeCorrect == Spec => []TypeOK
<1>1. IInv => TypeOK BY DEF IInv
<1> QED BY <1>1, Invariance, PTL

(* No preset outlives its account, however SavePreset and DeleteUser of     *)
(* concurrent requests interleave.                                          *)
THEOREM PresetsSafe == Spec => []PresetsHaveAccounts
<1>1. IInv => PresetsHaveAccounts BY DEF IInv
<1> QED BY <1>1, Invariance, PTL

(* DeleteUser ends the sessions of the user: only a login that had read the *)
(* credentials before the deletion leaves one without an account.           *)
THEOREM SessionsEnded == Spec => []SessionsDieWithAccount
<1>1. IInv => SessionsDieWithAccount BY DEF IInv
<1> QED BY <1>1, Invariance, PTL

(* Both of these.                                                           *)
THEOREM AccountsSafe == Spec => []NothingOutlivesAccount
<1>1. PresetsHaveAccounts /\ SessionsDieWithAccount => NothingOutlivesAccount
  BY DEF NothingOutlivesAccount
<1> QED BY <1>1, PresetsSafe, SessionsEnded, PTL

(* RequireAdmin and DenyAdmin let a handler run only for a user whose role  *)
(* allowed it at some moment of the request.                                *)
THEOREM RolesEnforced == Spec => []RoleHeldDuringRequest
<1>1. IInv => RoleHeldDuringRequest BY DEF IInv
<1> QED BY <1>1, Invariance, PTL

(* SessionAuth finds no row for a session that Logout has deleted.          *)
THEOREM LogoutFinal == Spec => LogoutIsFinal
<1>1. IInv /\ [Next]_vars => [\A r \in Requests : pc[r] = "idle" /\ pc'[r] = "session"
                                 => req'[r].sid \notin loggedOut]_vars
  <2> SUFFICES ASSUME IInv, Next, NEW r \in Requests, pc[r] = "idle", pc'[r] = "session"
               PROVE  req'[r].sid \notin loggedOut
    OBVIOUS
  <2> USE DEF IInv, TypeOK, RequestsOK
  <2>1. ASSUME NEW q \in Requests, (\E u \in Users : BeginLogin(q, u)) \/ Admit(q) \/ TokenRefresh(q)
        PROVE  FALSE
    BY <2>1 DEF BeginLogin, Admit, TokenRefresh, Respond
  <2>2. ASSUME NEW q \in Requests, (\E s \in Sids : CreateSession(q, s)) \/ Refuse(q)
        PROVE  FALSE
    BY <2>2 DEF CreateSession, Refuse, Respond
  <2>3. ASSUME NEW q \in Requests, Handle(q)
        PROVE  FALSE
    BY <2>3 DEF Handle, ClubCall, Register, SetUserRole, DeleteUser, DeletePreset, SavePreset,
                Logout, Fail, Respond, RespondWithRole
  <2>4. (\E s \in Sids : Expire(s)) \/ Reap => FALSE
    BY DEF Expire, Reap, serving
  <2>5. (\E u \in Users, new \in Roles : CreateUser(u, new)) => FALSE
    BY DEF CreateUser
  <2>6. PICK q \in Requests, s \in Sids, op \in Ops, u \in Users : Begin(q, s, op, u)
    BY <2>1, <2>2, <2>3, <2>4, <2>5 DEF Next
  <2>7. req'[r].sid = s /\ owner[s] # "deleted"
    BY <2>6, NamesAssumption DEF Begin
  <2> QED
    BY <2>7 DEF LoggedOutGone
<1> QED
  BY <1>1, Invariance, PTL DEF Spec, LogoutIsFinal

(* Only SetUserRole changes the role of a user who has one; a user who is   *)
(* registered, and not made by createuser, starts as a member.              *)
THEOREM RolesChangeOnPurpose == Spec => RoleChangesOnlyBySetRole
<1> DEFINE OnPurpose ==
        \A u \in Users : role'[u] \in Roles /\ role'[u] # role[u] =>
            \/ role[u] = "none" /\ (role'[u] = "NON_ADMIN" \/ pc' = pc)
            \/ \E r \in Requests : Handling(r, "setRole") /\ req[r].target = u
<1>1. IInv /\ [Next]_vars => [OnPurpose]_vars
  <2> SUFFICES ASSUME IInv, Next, NEW u \in Users, role'[u] \in Roles, role'[u] # role[u]
               PROVE  \/ role[u] = "none" /\ (role'[u] = "NON_ADMIN" \/ pc' = pc)
                      \/ \E r \in Requests : Handling(r, "setRole") /\ req[r].target = u
    OBVIOUS
  <2> USE DEF IInv, TypeOK, TablesOK
  <2>1. \/ \E r \in Requests : Register(r) \/ SetUserRole(r) \/ DeleteUser(r)
        \/ \E v \in Users, new \in Roles : CreateUser(v, new)
    BY DEF Next, Handle, BeginLogin, CreateSession, Begin, Admit, Refuse, TokenRefresh,
           ClubCall, DeletePreset, SavePreset, Logout, Fail, Expire, Reap, tables
  <2>2. CASE \E r \in Requests : Register(r)
    BY <2>2 DEF Register, Upsert
  <2>3. CASE \E r \in Requests : SetUserRole(r)
    BY <2>3 DEF SetUserRole
  <2>4. CASE \E r \in Requests : DeleteUser(r)
    BY <2>4 DEF DeleteUser, RemoveUser, Roles
  <2>5. CASE \E v \in Users, new \in Roles : CreateUser(v, new)
    BY <2>5 DEF CreateUser, Upsert
  <2> QED
    BY <2>1, <2>2, <2>3, <2>4, <2>5
<1> QED
  BY <1>1, Invariance, PTL DEF Spec, RoleChangesOnlyBySetRole
===============================================================================

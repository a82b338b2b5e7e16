--------------------------- MODULE SharedLoginProofs ---------------------------
(***************************************************************************)
(* Proofs about SharedLogin, for any set of courses: its types, the mutex, *)
(* that one lost session is survived, and that a login replaces a session  *)
(* the club has dropped.                                                   *)
(***************************************************************************)
EXTENDS SharedLogin, TLAPS

Refreshing == {"refresh", "lock", "login"}

\* A worker's session is the run's first or its own; what it has lost follows
\* from which of the two it holds and from whether the club still accepts it.
SessionsOK ==
    \A c \in Courses :
        /\ session[c] \in {Initial, c}
        /\ session[c] = c => losses[c] >= 1
        /\ ~Accepted(c) => losses[c] >= 1
        /\ session[c] = c /\ ~Accepted(c) => losses[c] = 2

\* What the labels of a worker say.
ControlOK ==
    \A c \in Courses :
        /\ pc[c] \in {"list", "listAgain"} => listing[c]
        /\ pc[c] = "listAgain" => session[c] = c
        /\ pc[c] \in Refreshing => ~Accepted(c)
        /\ pc[c] # "done" => status[c] = "running"

IInv == TypeOK /\ LoginsOneAtATime /\ SessionsOK /\ ControlOK /\ OneLossIsSurvived

-------------------------------------------------------------------------------
\* The invariant holds at first.
LEMMA InitIInv == Init => IInv
  <1> SUFFICES ASSUME Init PROVE IInv OBVIOUS
  <1> USE CoursesAssumption DEF Init, Initial, Sessions
  <1>1. TypeOK BY DEF TypeOK, Labels, Statuses
  <1>2. LoginsOneAtATime BY DEF LoginsOneAtATime
  <1>3. SessionsOK BY DEF SessionsOK, Accepted
  <1>4. ControlOK BY DEF ControlOK, Accepted, Refreshing
  <1>5. OneLossIsSurvived BY DEF OneLossIsSurvived
  <1> QED BY <1>1, <1>2, <1>3, <1>4, <1>5 DEF IInv

\* A worker that moves on while no session changes hands: the invariant holds
\* after it if its new label and status are in order.
LEMMA StepKeepsIInv ==
    ASSUME IInv, NoLogin, NEW c \in Courses, NEW label \in Labels,
           pc' = [pc EXCEPT ![c] = label],
           pc[c] # "login", label # "login",
           NEW s \in Statuses, status' = [status EXCEPT ![c] = s],
           NEW l \in BOOLEAN, listing' = [listing EXCEPT ![c] = l],
           label \in {"list", "listAgain"} => l /\ session[c] = c,
           label \in Refreshing => ~Accepted(c),
           s = "session" => \/ ctx # "live" \/ refused[c]
                            \/ l /\ losses[c] = 2,
           label # "done" => s = "running"
    PROVE  IInv'
  <1> USE DEF NoLogin, clubVars
  <1>1. TypeOK' BY DEF IInv, TypeOK
  <1>2. LoginsOneAtATime' BY DEF IInv, TypeOK, LoginsOneAtATime
  <1>3. SessionsOK' BY DEF IInv, SessionsOK, Accepted
  <1>4. ControlOK' BY DEF IInv, TypeOK, ControlOK, Accepted
  <1>5. OneLossIsSurvived' BY DEF IInv, TypeOK, OneLossIsSurvived
  <1> QED BY <1>1, <1>2, <1>3, <1>4, <1>5 DEF IInv

\* The club drops sessions, and nobody logs in.
LEMMA KeepKeepsTypes ==
    ASSUME TypeOK, NEW k \in SUBSET Sessions, Keep(k)
    PROVE  /\ live' \in SUBSET Sessions /\ single' \in BOOLEAN
           /\ losses' \in [Courses -> 0 .. 2]
           /\ \A c \in Courses : losses'[c] >= losses[c]
           /\ \A c \in Courses : session[c] \in live \ k /\ losses[c] >= 1 => losses'[c] = 2
           /\ \A c \in Courses : session[c] \in live \ k => losses'[c] >= 1
  BY DEF Keep, TypeOK, atMost2

\* What a session tells of its losses stays true whichever sessions the club keeps.
LEMMA KeepKeepsSessions ==
    ASSUME TypeOK, SessionsOK, NEW k \in SUBSET live, Keep(k), session' = session
    PROVE  SessionsOK'
  <1>1. k \in SUBSET Sessions BY DEF TypeOK
  <1>2. live' = k BY DEF Keep
  <1>3. losses \in [Courses -> 0 .. 2] BY DEF TypeOK
  <1> QED BY <1>1, <1>2, <1>3, KeepKeepsTypes DEF SessionsOK, Accepted

\* A club that drops sessions, and does nothing else, keeps the invariant.
LEMMA KeepKeepsIInv ==
    ASSUME IInv, NEW k \in SUBSET live, Keep(k), session' = session,
           UNCHANGED <<loginMu, pc, listing, status, refused>>,
           ctx' = ctx
    PROVE  IInv'
  <1>1. k \in SUBSET Sessions /\ live' = k BY DEF IInv, TypeOK, Keep
  <1>2. TypeOK' BY <1>1, KeepKeepsTypes DEF IInv, TypeOK
  <1>3. LoginsOneAtATime' BY DEF IInv, LoginsOneAtATime
  <1>4. SessionsOK' BY KeepKeepsSessions DEF IInv
  <1>5. ControlOK' BY <1>1 DEF IInv, ControlOK, Accepted
  <1>6. OneLossIsSurvived'
    <2>1. \A c \in Courses : losses[c] = 2 => losses'[c] = 2
      BY <1>1, KeepKeepsTypes DEF IInv, TypeOK
    <2> QED BY <2>1 DEF IInv, OneLossIsSurvived
  <1> QED BY <1>2, <1>3, <1>4, <1>5, <1>6 DEF IInv

\* A worker leaves its login for good, or panics: the mutex is free if it held it,
\* and no session has changed.
LEMMA LeavingKeepsIInv ==
    ASSUME IInv, NEW c \in Courses, loginMu' = loginMu \ {c},
           NEW s \in Statuses, status' = [status EXCEPT ![c] = s],
           pc' = [pc EXCEPT ![c] = "done"],
           NEW r \in BOOLEAN, refused' = [refused EXCEPT ![c] = refused[c] \/ r],
           s = "session" => r,
           UNCHANGED <<clubVars, session, ctx, listing>>
    PROVE  IInv'
  <1> USE DEF clubVars
  <1>1. TypeOK' BY DEF IInv, TypeOK, Labels
  <1>2. LoginsOneAtATime' BY DEF IInv, TypeOK, LoginsOneAtATime
  <1>3. SessionsOK' BY DEF IInv, SessionsOK, Accepted
  <1>4. ControlOK' BY DEF IInv, TypeOK, ControlOK, Accepted, Refreshing
  <1>5. OneLossIsSurvived' BY DEF IInv, TypeOK, OneLossIsSurvived
  <1> QED BY <1>1, <1>2, <1>3, <1>4, <1>5 DEF IInv

\* A worker that panics keeps it: the mutex is freed on its way out.
LEMMA PanicKeepsIInv ==
    ASSUME IInv, NEW c \in Courses, Panic(c) PROVE IInv'
  <1>1. refused' = [refused EXCEPT ![c] = refused[c] \/ FALSE]
    BY DEF Panic, IInv, TypeOK
  <1>2. /\ loginMu' = loginMu \ {c} /\ status' = [status EXCEPT ![c] = "failed"]
        /\ pc' = [pc EXCEPT ![c] = "done"] /\ UNCHANGED <<clubVars, session, ctx, listing>>
    BY DEF Panic, Finish, Goto
  <1>3. "failed" \in Statuses BY DEF Statuses
  <1> QED BY <1>1, <1>2, <1>3, LeavingKeepsIInv

\* A refused login, seen as two changes: the club's and the worker's.
LEMMA LoginRefusedKeepsIInv ==
    ASSUME IInv, NEW c \in Courses, LoginRefused(c) PROVE IInv'
  <1>1. PICK k \in SUBSET live : Keep(k)
    BY DEF LoginRefused, IInv, TypeOK
  <1>2. live' = k /\ k \in SUBSET Sessions /\ single' = single
    BY <1>1 DEF Keep, IInv, TypeOK
  <1>3. TypeOK
    BY DEF IInv
  <1>4. /\ loginMu' = loginMu \ {c} /\ status' = [status EXCEPT ![c] = "session"]
        /\ pc' = [pc EXCEPT ![c] = "done"] /\ refused' = [refused EXCEPT ![c] = TRUE]
        /\ UNCHANGED <<session, ctx, listing>>
    BY DEF LoginRefused, Finish, Goto
  <1>5. TypeOK'
    BY <1>1, <1>2, <1>3, <1>4, KeepKeepsTypes DEF TypeOK, Labels, Statuses
  <1>6. LoginsOneAtATime' BY <1>3, <1>4 DEF IInv, TypeOK, LoginsOneAtATime
  <1>7. SessionsOK' BY <1>1, <1>3, <1>4, KeepKeepsSessions DEF IInv
  <1>8. ControlOK' BY <1>2, <1>3, <1>4 DEF IInv, TypeOK, ControlOK, Accepted, Refreshing
  <1>9. OneLossIsSurvived'
    <2>1. \A d \in Courses : losses[d] = 2 => losses'[d] = 2
      BY <1>1, <1>2, <1>3, <1>5, KeepKeepsTypes DEF TypeOK
    <2> QED BY <2>1, <1>3, <1>4 DEF IInv, TypeOK, OneLossIsSurvived
  <1> QED BY <1>5, <1>6, <1>7, <1>8, <1>9 DEF IInv

\* A login keeps it: the worker has a session of its own, and frees the mutex.
LEMMA LoggedInKeepsIInv ==
    ASSUME IInv, NEW c \in Courses, LoggedIn(c) PROVE IInv'
  <1> DEFINE k == IF single THEN {c} ELSE live \union {c}
  <1>1. TypeOK /\ Keep(k) /\ k \in SUBSET Sessions /\ live' = k
    BY DEF LoggedIn, IInv, TypeOK, Keep, Sessions
  <1>2. ~Accepted(c) BY DEF LoggedIn, IInv, ControlOK, Refreshing
  <1>3. /\ session' = [session EXCEPT ![c] = c] /\ loginMu' = loginMu \ {c}
        /\ pc' = [pc EXCEPT ![c] = IF listing[c] THEN "listAgain" ELSE "sleep"]
        /\ UNCHANGED <<listing, status, ctx, refused>>
    BY DEF LoggedIn, GoOn, Goto, workVars
  <1>4. TypeOK'
    BY <1>1, <1>3, KeepKeepsTypes DEF TypeOK, Labels, Sessions
  <1>5. LoginsOneAtATime' BY <1>1, <1>3 DEF IInv, TypeOK, LoginsOneAtATime, LoggedIn
  <1>6. SessionsOK'
    <2> SUFFICES ASSUME NEW d \in Courses
                 PROVE  /\ session'[d] \in {Initial, d}
                        /\ session'[d] = d => losses'[d] >= 1
                        /\ ~Accepted(d)' => losses'[d] >= 1
                        /\ session'[d] = d /\ ~Accepted(d)' => losses'[d] = 2
      BY DEF SessionsOK
    <2>1. CASE d = c
      <3>1. session'[c] = c /\ Accepted(c)' BY <1>1, <1>3 DEF TypeOK, Accepted
      <3>2. losses'[c] >= losses[c] /\ losses[c] >= 1
        BY <1>1, <1>2, KeepKeepsTypes DEF IInv, SessionsOK
      <3>3. losses[c] \in Int /\ losses'[c] \in Int BY <1>1, <1>4 DEF TypeOK
      <3> QED BY <2>1, <3>1, <3>2, <3>3
    <2>2. CASE d # c
      <3>1. session'[d] = session[d] BY <1>1, <1>3, <2>2 DEF TypeOK
      <3>2. Accepted(d)' <=> session[d] \in k BY <1>1, <3>1 DEF Accepted
      <3>3. session[d] \in {Initial, d} BY DEF IInv, SessionsOK
      <3>4. session[d] # c BY <2>2, <3>3, CoursesAssumption
      <3>5. session[d] \in k => Accepted(d) BY <3>4 DEF Accepted
      <3>6. losses[d] \in 0 .. 2 /\ losses'[d] \in 0 .. 2 /\ losses'[d] >= losses[d]
        BY <1>1, <1>4, KeepKeepsTypes DEF TypeOK
      <3>7. Accepted(d) /\ session[d] \notin k =>
              losses'[d] >= 1 /\ (losses[d] >= 1 => losses'[d] = 2)
        BY <1>1, KeepKeepsTypes DEF Accepted
      <3>8. ~Accepted(d) => losses[d] >= 1 /\ (session[d] = d => losses[d] = 2)
        BY DEF IInv, SessionsOK
      <3>9. session[d] = d => losses[d] >= 1 BY DEF IInv, SessionsOK
      <3>10. CASE session[d] \in k BY <3>1, <3>2, <3>3, <3>5, <3>6, <3>9, <3>10
      <3>11. CASE session[d] \notin k /\ Accepted(d)
        BY <3>1, <3>2, <3>3, <3>6, <3>7, <3>9, <3>11
      <3>12. CASE session[d] \notin k /\ ~Accepted(d)
        BY <3>1, <3>2, <3>3, <3>6, <3>8, <3>12
      <3> QED BY <3>10, <3>11, <3>12
    <2> QED BY <2>1, <2>2
  <1>7. ControlOK'
    <2> SUFFICES ASSUME NEW d \in Courses
                 PROVE  /\ pc'[d] \in {"list", "listAgain"} => listing'[d]
                        /\ pc'[d] = "listAgain" => session'[d] = d
                        /\ pc'[d] \in Refreshing => ~Accepted(d)'
                        /\ pc'[d] # "done" => status'[d] = "running"
      BY DEF ControlOK
    <2>1. CASE d = c
      <3>1. pc[c] = "login" /\ status'[c] = "running"
        BY <1>3 DEF LoggedIn, IInv, ControlOK
      <3> QED BY <1>1, <1>3, <2>1, <3>1 DEF TypeOK, Refreshing
    <2>2. CASE d # c
      <3>1. /\ session'[d] = session[d] /\ pc'[d] = pc[d]
            /\ listing'[d] = listing[d] /\ status'[d] = status[d]
        BY <1>1, <1>3, <2>2 DEF TypeOK
      <3>2. session[d] # c BY <2>2, CoursesAssumption DEF IInv, SessionsOK
      <3>3. Accepted(d)' => Accepted(d) BY <1>1, <3>1, <3>2 DEF Accepted
      <3> QED BY <3>1, <3>3 DEF IInv, ControlOK
    <2> QED BY <2>1, <2>2
  <1>8. OneLossIsSurvived'
    <2>1. \A d \in Courses : losses[d] = 2 => losses'[d] = 2
      BY <1>1, <1>4, KeepKeepsTypes DEF TypeOK
    <2> QED BY <2>1, <1>3 DEF IInv, OneLossIsSurvived
  <1> QED BY <1>4, <1>5, <1>6, <1>7, <1>8 DEF IInv

\* The worker asks for the mutex, and gets it.
LEMMA LockKeepsIInv ==
    ASSUME IInv, NEW c \in Courses, Lock(c) PROVE IInv'
  <1> USE DEF Lock, GoOn, Goto, clubVars, workVars
  <1>1. TypeOK' BY DEF IInv, TypeOK, Labels
  <1>2. LoginsOneAtATime' BY DEF IInv, TypeOK, LoginsOneAtATime
  <1>3. SessionsOK' BY DEF IInv, SessionsOK, Accepted
  <1>4. ControlOK' BY DEF IInv, TypeOK, ControlOK, Accepted, Refreshing
  <1>5. OneLossIsSurvived' BY DEF IInv, TypeOK, OneLossIsSurvived
  <1> QED BY <1>1, <1>2, <1>3, <1>4, <1>5 DEF IInv

\* The steps of a worker outside the mutex and its login.
LEMMA WorkerKeepsIInv ==
    ASSUME IInv, NEW c \in Courses, Step(c) PROVE IInv'
  <1> USE DEF Finish, GoOn, Goto, workVars, Labels, Statuses
  <1>0. TypeOK /\ status[c] \in Statuses /\ listing[c] \in BOOLEAN
    BY DEF IInv, TypeOK
  \* Unchanged parts of a worker's state, as StepKeepsIInv wants them.
  <1>1. /\ UNCHANGED status => status' = [status EXCEPT ![c] = status[c]]
        /\ UNCHANGED listing => listing' = [listing EXCEPT ![c] = listing[c]]
    BY <1>0 DEF TypeOK
  <1>2. pc[c] # "done" => status[c] = "running"
    BY DEF IInv, ControlOK
  <1>3. CASE SlotsListed(c)
    <2>1. pc[c] # "login" /\ NoLogin BY <1>3 DEF SlotsListed
    <2>2. CASE Finish(c, "no_slots")
      BY <2>1, <2>2, <1>0, <1>1, StepKeepsIInv DEF Refreshing
    <2>3. CASE Goto(c, "pass") /\ listing' = [listing EXCEPT ![c] = FALSE] /\ UNCHANGED status
      <3>1. status[c] = "running" BY <1>2, <1>3 DEF SlotsListed
      <3> QED BY <2>1, <2>3, <1>0, <1>1, <3>1, StepKeepsIInv DEF Refreshing
    <2> QED BY <1>3, <2>2, <2>3 DEF SlotsListed
  <1>4. CASE SlotsFailed(c)
    BY <1>4, <1>0, <1>1, StepKeepsIInv DEF SlotsFailed, Refreshing
  <1>5. CASE SlotsRejected(c)
    <2>1. pc[c] # "login" /\ NoLogin /\ ~Accepted(c) BY <1>5 DEF SlotsRejected
    <2>2. CASE pc[c] = "list"
      BY <1>5, <2>1, <2>2, <1>0, <1>1, <1>2, StepKeepsIInv DEF SlotsRejected, Refreshing
    <2>3. CASE pc[c] = "listAgain"
      <3>1. listing[c] /\ losses[c] = 2 BY <2>1, <2>3 DEF IInv, ControlOK, SessionsOK
      <3> QED BY <1>5, <2>1, <2>3, <3>1, <1>0, <1>1, StepKeepsIInv DEF SlotsRejected, Refreshing
    <2> QED BY <1>5, <2>2, <2>3 DEF SlotsRejected
  <1>6. CASE Stop(c)
    <2>1. StoppedStatus \in Statuses /\ StoppedStatus # "session" BY DEF StoppedStatus
    <2> QED BY <1>6, <2>1, <1>0, <1>1, StepKeepsIInv DEF Stop, Refreshing
  <1>7. CASE StartPass(c)
    BY <1>7, <1>0, <1>1, <1>2, StepKeepsIInv DEF StartPass, Refreshing
  <1>8. CASE StartSlot(c)
    BY <1>8, <1>0, <1>1, <1>2, StepKeepsIInv DEF StartSlot, Refreshing
  <1>9. CASE PassOver(c)
    <2>1. CASE GoOn(c, "sleep")
      BY <1>9, <2>1, <1>0, <1>1, <1>2, StepKeepsIInv DEF PassOver, Refreshing
    <2>2. CASE Finish(c, "failed")
      BY <1>9, <2>2, <1>0, <1>1, StepKeepsIInv DEF PassOver, Refreshing
    <2> QED BY <1>9, <2>1, <2>2 DEF PassOver
  <1>10. CASE CheckAnswered(c)
    <2>1. PICK next \in {"delay", "book", "slot", "sleep"} : GoOn(c, next)
      BY <1>10 DEF CheckAnswered
    <2>2. NoLogin /\ pc[c] \notin {"login", "done"} BY <1>10 DEF CheckAnswered
    <2> QED BY <2>1, <2>2, <1>0, <1>1, <1>2, StepKeepsIInv DEF Refreshing
  <1>11. CASE CheckFails(c)
    BY <1>11, <1>0, <1>1, <1>2, StepKeepsIInv DEF CheckFails, Refreshing
  <1>12. CASE BookConfirmed(c)
    BY <1>12, <1>0, <1>1, StepKeepsIInv DEF BookConfirmed, Refreshing
  <1>13. CASE BookRefused(c)
    <2>1. PICK next \in {"slot", "sleep"} : GoOn(c, next) BY <1>13 DEF BookRefused
    <2>2. NoLogin /\ pc[c] \notin {"login", "done"} BY <1>13 DEF BookRefused
    <2> QED BY <2>1, <2>2, <1>0, <1>1, <1>2, StepKeepsIInv DEF Refreshing
  <1>14. CASE Rejected(c)
    BY <1>14, <1>0, <1>1, <1>2, StepKeepsIInv DEF Rejected, Refreshing
  <1>15. CASE WaitOver(c)
    <2>1. PICK next \in {"book", "pass"} : GoOn(c, next) BY <1>15 DEF WaitOver
    <2>2. NoLogin /\ pc[c] \notin {"login", "done"} BY <1>15 DEF WaitOver
    <2> QED BY <2>1, <2>2, <1>0, <1>1, <1>2, StepKeepsIInv DEF Refreshing
  <1>16. CASE Refresh(c)
    <2>1. ~Accepted(c) BY <1>16 DEF Refresh, IInv, ControlOK, Refreshing
    <2> QED BY <1>16, <2>1, <1>0, <1>1, <1>2, StepKeepsIInv DEF Refresh, Refreshing
  <1>17. CASE RefreshGivenUp(c)
    BY <1>17, <1>0, <1>1, StepKeepsIInv DEF RefreshGivenUp, Refreshing
  <1>18. CASE Lock(c) BY <1>18, LockKeepsIInv
  <1>19. CASE LoggedIn(c) BY <1>19, LoggedInKeepsIInv
  <1>20. CASE LoginRefused(c) BY <1>20, LoginRefusedKeepsIInv
  <1> QED BY <1>3, <1>4, <1>5, <1>6, <1>7, <1>8, <1>9, <1>10, <1>11, <1>12, <1>13, <1>14,
             <1>15, <1>16, <1>17, <1>18, <1>19, <1>20 DEF Step

\* The deadline, a cancellation, an expiry and the login of a page keep it.
LEMMA EnvironmentKeepsIInv ==
    ASSUME IInv, Deadline \/ Cancel \/ Expire \/ TokenRefresh PROVE IInv'
  <1>1. CASE Deadline \/ Cancel
    <2> USE <1>1 DEF Deadline, Cancel, clubVars, workVars
    <2>1. TypeOK' BY DEF IInv, TypeOK
    <2>2. LoginsOneAtATime' BY DEF IInv, LoginsOneAtATime
    <2>3. SessionsOK' BY DEF IInv, SessionsOK, Accepted
    <2>4. ControlOK' BY DEF IInv, ControlOK, Accepted
    <2>5. OneLossIsSurvived' BY DEF IInv, OneLossIsSurvived
    <2> QED BY <2>1, <2>2, <2>3, <2>4, <2>5 DEF IInv
  <1>2. CASE Expire
    <2>1. PICK s \in live : Keep(live \ {s}) BY <1>2 DEF Expire
    <2> QED BY <1>2, <2>1, KeepKeepsIInv DEF Expire, workVars
  <1>3. CASE TokenRefresh
    <2>1. PICK k \in SUBSET live : Keep(k) BY <1>3 DEF TokenRefresh
    <2> QED BY <1>3, <2>1, KeepKeepsIInv DEF TokenRefresh, workVars
  <1> QED BY <1>1, <1>2, <1>3

\* Every step keeps it.
LEMMA NextIInv == IInv /\ [Next]_vars => IInv'
  <1> SUFFICES ASSUME IInv, [Next]_vars PROVE IInv' OBVIOUS
  <1>1. CASE UNCHANGED vars
    BY <1>1 DEF vars, clubVars, workVars, IInv, TypeOK, LoginsOneAtATime, SessionsOK,
                ControlOK, OneLossIsSurvived, Accepted
  <1>2. CASE Next
    BY <1>2, WorkerKeepsIInv, PanicKeepsIInv, EnvironmentKeepsIInv DEF Next
  <1> QED BY <1>1, <1>2

\* It holds in every behaviour.
LEMMA SpecIInv == Spec => []IInv
  BY InitIInv, NextIInv, PTL DEF Spec

-------------------------------------------------------------------------------
\* The types of processPreset's sessions and workers, for any set of courses.
THEOREM SharedLoginTypes == Spec => []TypeOK
  <1>1. IInv => TypeOK BY DEF IInv
  <1> QED BY SpecIInv, <1>1, PTL

\* loginMu: one login at a time, and a mutex that is free again whichever way the
\* RefreshToken callback is left.
THEOREM MutexSerialisesLogins == Spec => []LoginsOneAtATime
  <1>1. IInv => LoginsOneAtATime BY DEF IInv
  <1> QED BY SpecIInv, <1>1, PTL

\* A worker whose context is live gives up on its session only after a refused
\* login or a second loss before it has its slots (runner.Run).
THEOREM RunsSurviveOneLoss == Spec => []OneLossIsSurvived
  <1>1. IInv => OneLossIsSurvived BY DEF IInv
  <1> QED BY SpecIInv, <1>1, PTL

\* RefreshToken is entered only with a session the club has dropped.
THEOREM OnlyLostSessionsReplaced == Spec => LoginsReplaceLostSessions
  <1>1. IInv /\ [Next]_vars =>
          [\A c \in Courses : pc[c] # "login" /\ pc'[c] = "login" => ~Accepted(c)]_vars
    <2> SUFFICES ASSUME IInv, Next, NEW c \in Courses, pc[c] # "login", pc'[c] = "login"
                 PROVE  ~Accepted(c)
      OBVIOUS
    <2> USE DEF IInv, TypeOK
    <2>1. ASSUME NEW d \in Courses, Panic(d) PROVE pc'[c] # "login"
      BY <2>1 DEF Panic, Finish, Goto
    <2>2. ASSUME NEW d \in Courses, Step(d) PROVE pc[c] = "lock"
      BY <2>2 DEF Step, SlotsListed, SlotsFailed, SlotsRejected, Stop, StartPass, StartSlot,
                  PassOver, CheckAnswered, CheckFails, BookConfirmed, BookRefused, Rejected,
                  WaitOver, Refresh, RefreshGivenUp, Lock, LoggedIn, LoginRefused,
                  Finish, GoOn, Goto
    <2>3. ASSUME Deadline \/ Cancel \/ Expire \/ TokenRefresh PROVE pc' = pc
      BY <2>3 DEF Deadline, Cancel, Expire, TokenRefresh
    <2>4. pc[c] = "lock"
      <3>1. CASE \E d \in Courses : Step(d) \/ Panic(d) BY <3>1, <2>1, <2>2
      <3>2. CASE Deadline \/ Cancel \/ Expire \/ TokenRefresh BY <3>2, <2>3
      <3> QED BY <3>1, <3>2 DEF Next
    <2> QED BY <2>4 DEF ControlOK, Refreshing
  <1> QED BY SpecIInv, <1>1, PTL DEF Spec, LoginsReplaceLostSessions, Accepted
===============================================================================

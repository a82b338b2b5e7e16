---------------------------- MODULE SchedulerProofs ----------------------------
(***************************************************************************)
(* Proofs about Scheduler, for any finite set of users, any capacity of    *)
(* the semaphore, and every bound on runs, requests, kills and failures.   *)
(***************************************************************************)
EXTENDS Scheduler, FiniteSetTheorems, TLAPS

(* The parts of the invariant.  Each is about the row and the goroutine of *)
(* one user.                                                               *)

BeforeCourse == {"wait", "queue", "skip", "skipped", "mark", "resolve"}
BeforeWork   == BeforeCourse \union {"credentials", "login"}
AfterWork    == {"report"} \union Reported
ClearPending == {"credentials", "login", "work", "report", "clearOverride"}

\* A missing row holds the defaults of an INSERT.
RowOK(u) ==
    u \notin presets =>
        /\ lastRunStatus[u] = "idle" /\ ~cancelRequested[u]
        /\ ~skipNextRun[u] /\ override[u] = "none"

\* A run has an outcome once it is decided; until then nobody was told anything,
\* and before it started workers there are no results.
OutcomeOK(u) ==
    /\ pc[u] \in BeforeWork \union {"work"} => outcome[u] = "none"
    /\ pc[u] \in {"report"} => outcome[u] # "none"
    /\ outcome[u] = "none" => told[u] = "none"
    /\ outcome[u] = "none" /\ pc[u] # "work" => work[u] = NoWork /\ received[u] = {}

\* The outcome and what the user is told agree with what the workers did, and
\* every result was received.
ResultOK(u) ==
    pc[u] \in AfterWork =>
        /\ told[u] = "success" <=> Booked(u) # {}
        /\ outcome[u] = "success" <=> Booked(u) # {}
        /\ Started(u) \subseteq received[u]

\* What was received is in the history.
HistoryOK(u) == Undisturbed /\ u \in accounts => received[u] \subseteq attempts[u]

\* NoRunLeftRunning, and what the row says of a booking.
StatusOK(u) ==
    /\ lastRunStatus[u] = "running" =>
          /\ Undisturbed => pc[u] \in Marked
          /\ dbFailures = 0 /\ outcome[u] # "none" => pc[u] \notin Reported
    /\ Undisturbed /\ Booked(u) # {} /\ u \in presets /\ pc[u] \in Reported
          => lastRunStatus[u] \in {"success", "idle"}

\* NoLeftoverCancel, and whose request it is.
CancelOK(u) ==
    cancelRequested[u] =>
        /\ Undisturbed => pc[u] \in Marked \union CleaningUp /\ asked[u]
        /\ dbFailures = 0 /\ outcome[u] # "none" => pc[u] \notin {"release", "done"}

\* The skips not served yet are those in the row.
SkipOK(u) == skipBalance[u] = IF skipNextRun[u] THEN 1 ELSE 0

\* A one-shot override that a run is going to use, or that waits in the row, was
\* saved and not used yet; only a run that has used one may still see it there.
OnceOK(u) ==
    Undisturbed =>
        /\ onceBalance[u] >= 0
        /\ pc[u] \in BeforeCourse /\ snapshot[u] = "once" => onceBalance[u] >= 1
        /\ override[u] = "once" =>
              onceBalance[u] >= 1 \/ (clearAfter[u] /\ pc[u] \in ClearPending)

Holders == {u \in Users : pc[u] \in Holding}

\* What a step may do to the semaphore.
HoldersMove ==
    \/ Holders' = Holders /\ sem' = sem
    \/ Holders' = {} /\ sem' = 0
    \/ \E u \in Users \ Holders :
          sem < MaxConcurrentPresets /\ Holders' = Holders \union {u} /\ sem' = sem + 1
    \/ \E u \in Holders : Holders' = Holders \ {u} /\ sem' = sem - 1

UserOK(u) ==
    /\ RowOK(u) /\ OutcomeOK(u) /\ ResultOK(u) /\ HistoryOK(u)
    /\ StatusOK(u) /\ CancelOK(u) /\ SkipOK(u) /\ OnceOK(u)

IInv ==
    /\ TypeOK
    /\ sem = Cardinality(Holders)
    /\ \A u \in Users : UserOK(u)

(* A missing row holds the defaults.                                        *)
LEMMA RowStep ==
    ASSUME IInv, [Next]_vars
    PROVE  (\A v \in Users : RowOK(v))'
<1> USE DEF IInv, TypeOK, PresetTypeOK, UserOK, RowOK, presetVars, webVars,
      bounds, runVars, workVars, historyVars, Goto
<1> DEFINE Goal == \A v \in Users : RowOK(v)
<1>1. CASE BeginRun
  BY <1>1 DEF BeginRun, FreshProcess, Idle
<1>2. CASE Crash
  BY <1>2 DEF Crash, FreshProcess
<1>3. CASE Midnight
  BY <1>3 DEF Midnight
<1>4. CASE UNCHANGED vars
  BY <1>4 DEF vars
<1>5. ASSUME NEW u \in Users, BookingOpens(u) PROVE Goal'
  BY <1>5 DEF BookingOpens
<1>6. ASSUME NEW u \in Users, Acquire(u) PROVE Goal'
  BY <1>6 DEF Acquire
<1>7. ASSUME NEW u \in Users, ServeSkip(u) PROVE Goal'
  BY <1>7 DEF ServeSkip, ConsumeSkipNextRun, ClearSkipNextRun, Updated
<1>8. ASSUME NEW u \in Users, NoSkip(u) PROVE Goal'
  BY <1>8 DEF NoSkip, Try
<1>9. ASSUME NEW u \in Users, AfterSkip(u) PROVE Goal'
  BY <1>9 DEF AfterSkip, Try, ClearCancelRequested, Updated
<1>10. ASSUME NEW u \in Users, MarkRunning(u) PROVE Goal'
  BY <1>10 DEF MarkRunning, Try, UpdatePresetRunStatus, Updated
<1>11. ASSUME NEW u \in Users, ResolveCourse(u) PROVE Goal'
  BY <1>11 DEF ResolveCourse, Try, ClearCourseOverride, Updated, ResolveOverride
<1>12. ASSUME NEW u \in Users, NoCredentials(u) PROVE Goal'
  BY <1>12 DEF NoCredentials
<1>13. ASSUME NEW u \in Users, ReadCredentials(u) PROVE Goal'
  BY <1>13 DEF ReadCredentials
<1>14. ASSUME NEW u \in Users, LoginFails(u) PROVE Goal'
  BY <1>14 DEF LoginFails, LogAttempt
<1>15. ASSUME NEW u \in Users, BadCutoff(u) PROVE Goal'
  BY <1>15 DEF BadCutoff
<1>16. ASSUME NEW u \in Users, StartWorkers(u) PROVE Goal'
  BY <1>16 DEF StartWorkers
<1>17. ASSUME NEW u \in Users, NEW c \in Courses, Receive(u, c) PROVE Goal'
  BY <1>17 DEF Receive, LogAttempt
<1>18. ASSUME NEW u \in Users, Decide(u) PROVE Goal'
  BY <1>18 DEF Decide, OutcomeOf
<1>19. ASSUME NEW u \in Users, Report(u) PROVE Goal'
  BY <1>19 DEF Report, Try, UpdatePresetRunStatus, Updated
<1>20. ASSUME NEW u \in Users, ClearOverride(u) PROVE Goal'
  BY <1>20 DEF ClearOverride, Try, ClearCourseOverride, Updated
<1>21. ASSUME NEW u \in Users, ClearCancel(u) PROVE Goal'
  BY <1>21 DEF ClearCancel, Try, ClearCancelRequested, Updated
<1>22. ASSUME NEW u \in Users, Release(u) PROVE Goal'
  BY <1>22 DEF Release
<1>23. ASSUME NEW u \in Users, SavePreset(u) PROVE Goal'
  BY <1>23 DEF SavePreset, Edit, UpsertPreset
<1>24. ASSUME NEW u \in Users, CancelRun(u) PROVE Goal'
  BY <1>24 DEF CancelRun, Edit, RequestCancelRun
<1>25. ASSUME NEW u \in Users, QueueSkip(u) PROVE Goal'
  BY <1>25 DEF QueueSkip, Edit, RequestSkipNextRun
<1>26. ASSUME NEW u \in Users, UndoSkip(u) PROVE Goal'
  BY <1>26 DEF UndoSkip, Edit, ClearSkipNextRun, Updated
<1>27. ASSUME NEW u \in Users, DeletePreset(u) PROVE Goal'
  BY <1>27 DEF DeletePreset, Edit, DeleteByUserName, DropsSkip
<1>28. ASSUME NEW u \in Users, DeleteUser(u) PROVE Goal'
  BY <1>28 DEF DeleteUser, Edit, DeleteByUserName, DropsSkip
<1>29. ASSUME NEW u \in Users, Deadline(u) PROVE Goal'
  BY <1>29 DEF Deadline
<1>30. ASSUME NEW u \in Users, PollCancel(u) PROVE Goal'
  BY <1>30 DEF PollCancel
<1>31. ASSUME NEW u \in Users, NEW c \in Courses, WorkerEnds(u, c) PROVE Goal'
  BY <1>31 DEF WorkerEnds
<1> QED
  BY <1>1, <1>2, <1>3, <1>4, <1>5, <1>6, <1>7, <1>8, <1>9, <1>10, <1>11, <1>12,
     <1>13, <1>14, <1>15, <1>16, <1>17, <1>18, <1>19, <1>20, <1>21, <1>22, <1>23,
     <1>24, <1>25, <1>26, <1>27, <1>28, <1>29, <1>30, <1>31 DEF Next, Process,
     Web

(* Nothing is decided, told or received before its time.                   *)
LEMMA OutcomeStep ==
    ASSUME IInv, [Next]_vars
    PROVE  (\A v \in Users : OutcomeOK(v))'
<1> USE DEF IInv, TypeOK, PresetTypeOK, UserOK, OutcomeOK, BeforeCourse,
      BeforeWork, Outcomes, presetVars, webVars, bounds, runVars, workVars,
      historyVars, Goto
<1> DEFINE Goal == \A v \in Users : OutcomeOK(v)
<1>1. CASE BeginRun
  BY <1>1 DEF BeginRun, FreshProcess, Idle
<1>2. CASE Crash
  BY <1>2 DEF Crash, FreshProcess
<1>3. CASE Midnight
  BY <1>3 DEF Midnight
<1>4. CASE UNCHANGED vars
  BY <1>4 DEF vars
<1>5. ASSUME NEW u \in Users, BookingOpens(u) PROVE Goal'
  BY <1>5 DEF BookingOpens
<1>6. ASSUME NEW u \in Users, Acquire(u) PROVE Goal'
  BY <1>6 DEF Acquire
<1>7. ASSUME NEW u \in Users, ServeSkip(u) PROVE Goal'
  BY <1>7 DEF ServeSkip, ConsumeSkipNextRun, ClearSkipNextRun, Updated
<1>8. ASSUME NEW u \in Users, NoSkip(u) PROVE Goal'
  BY <1>8 DEF NoSkip, Try
<1>9. ASSUME NEW u \in Users, AfterSkip(u) PROVE Goal'
  BY <1>9 DEF AfterSkip, Try, ClearCancelRequested, Updated
<1>10. ASSUME NEW u \in Users, MarkRunning(u) PROVE Goal'
  BY <1>10 DEF MarkRunning, Try, UpdatePresetRunStatus, Updated
<1>11. ASSUME NEW u \in Users, ResolveCourse(u) PROVE Goal'
  BY <1>11 DEF ResolveCourse, Try, ClearCourseOverride, Updated, ResolveOverride
<1>12. ASSUME NEW u \in Users, NoCredentials(u) PROVE Goal'
  BY <1>12 DEF NoCredentials
<1>13. ASSUME NEW u \in Users, ReadCredentials(u) PROVE Goal'
  BY <1>13 DEF ReadCredentials
<1>14. ASSUME NEW u \in Users, LoginFails(u) PROVE Goal'
  BY <1>14 DEF LoginFails, LogAttempt
<1>15. ASSUME NEW u \in Users, BadCutoff(u) PROVE Goal'
  BY <1>15 DEF BadCutoff
<1>16. ASSUME NEW u \in Users, StartWorkers(u) PROVE Goal'
  BY <1>16 DEF StartWorkers
<1>17. ASSUME NEW u \in Users, NEW c \in Courses, Receive(u, c) PROVE Goal'
  BY <1>17 DEF Receive, LogAttempt
<1>18. ASSUME NEW u \in Users, Decide(u) PROVE Goal'
  BY <1>18 DEF Decide, OutcomeOf
<1>19. ASSUME NEW u \in Users, Report(u) PROVE Goal'
  BY <1>19 DEF Report, Try, UpdatePresetRunStatus, Updated
<1>20. ASSUME NEW u \in Users, ClearOverride(u) PROVE Goal'
  BY <1>20 DEF ClearOverride, Try, ClearCourseOverride, Updated
<1>21. ASSUME NEW u \in Users, ClearCancel(u) PROVE Goal'
  BY <1>21 DEF ClearCancel, Try, ClearCancelRequested, Updated
<1>22. ASSUME NEW u \in Users, Release(u) PROVE Goal'
  BY <1>22 DEF Release
<1>23. ASSUME NEW u \in Users, SavePreset(u) PROVE Goal'
  BY <1>23 DEF SavePreset, Edit, UpsertPreset
<1>24. ASSUME NEW u \in Users, CancelRun(u) PROVE Goal'
  BY <1>24 DEF CancelRun, Edit, RequestCancelRun
<1>25. ASSUME NEW u \in Users, QueueSkip(u) PROVE Goal'
  BY <1>25 DEF QueueSkip, Edit, RequestSkipNextRun
<1>26. ASSUME NEW u \in Users, UndoSkip(u) PROVE Goal'
  BY <1>26 DEF UndoSkip, Edit, ClearSkipNextRun, Updated
<1>27. ASSUME NEW u \in Users, DeletePreset(u) PROVE Goal'
  BY <1>27 DEF DeletePreset, Edit, DeleteByUserName, DropsSkip
<1>28. ASSUME NEW u \in Users, DeleteUser(u) PROVE Goal'
  BY <1>28 DEF DeleteUser, Edit, DeleteByUserName, DropsSkip
<1>29. ASSUME NEW u \in Users, Deadline(u) PROVE Goal'
  BY <1>29 DEF Deadline
<1>30. ASSUME NEW u \in Users, PollCancel(u) PROVE Goal'
  BY <1>30 DEF PollCancel
<1>31. ASSUME NEW u \in Users, NEW c \in Courses, WorkerEnds(u, c) PROVE Goal'
  BY <1>31 DEF WorkerEnds
<1> QED
  BY <1>1, <1>2, <1>3, <1>4, <1>5, <1>6, <1>7, <1>8, <1>9, <1>10, <1>11, <1>12,
     <1>13, <1>14, <1>15, <1>16, <1>17, <1>18, <1>19, <1>20, <1>21, <1>22, <1>23,
     <1>24, <1>25, <1>26, <1>27, <1>28, <1>29, <1>30, <1>31 DEF Next, Process,
     Web

(* The outcome is what the workers did.                                    *)
LEMMA ResultStep ==
    ASSUME IInv, [Next]_vars
    PROVE  (\A v \in Users : ResultOK(v))'
<1> USE DEF IInv, TypeOK, PresetTypeOK, UserOK, OutcomeOK, ResultOK,
      BeforeCourse, BeforeWork, AfterWork, Reported, CleaningUp, Marked, Booked,
      Started, NoWork, presetVars, webVars, bounds, runVars, workVars,
      historyVars, Goto
<1> DEFINE Goal == \A v \in Users : ResultOK(v)
<1>1. CASE BeginRun
  BY <1>1 DEF BeginRun, FreshProcess, Idle
<1>2. CASE Crash
  BY <1>2 DEF Crash, FreshProcess
<1>3. CASE Midnight
  BY <1>3 DEF Midnight
<1>4. CASE UNCHANGED vars
  BY <1>4 DEF vars
<1>5. ASSUME NEW u \in Users, BookingOpens(u) PROVE Goal'
  BY <1>5 DEF BookingOpens
<1>6. ASSUME NEW u \in Users, Acquire(u) PROVE Goal'
  BY <1>6 DEF Acquire
<1>7. ASSUME NEW u \in Users, ServeSkip(u) PROVE Goal'
  BY <1>7 DEF ServeSkip, ConsumeSkipNextRun, ClearSkipNextRun, Updated
<1>8. ASSUME NEW u \in Users, NoSkip(u) PROVE Goal'
  BY <1>8 DEF NoSkip, Try
<1>9. ASSUME NEW u \in Users, AfterSkip(u) PROVE Goal'
  BY <1>9 DEF AfterSkip, Try, ClearCancelRequested, Updated
<1>10. ASSUME NEW u \in Users, MarkRunning(u) PROVE Goal'
  BY <1>10 DEF MarkRunning, Try, UpdatePresetRunStatus, Updated
<1>11. ASSUME NEW u \in Users, ResolveCourse(u) PROVE Goal'
  BY <1>11 DEF ResolveCourse, Try, ClearCourseOverride, Updated, ResolveOverride
<1>12. ASSUME NEW u \in Users, NoCredentials(u) PROVE Goal'
  BY <1>12 DEF NoCredentials
<1>13. ASSUME NEW u \in Users, ReadCredentials(u) PROVE Goal'
  BY <1>13 DEF ReadCredentials
<1>14. ASSUME NEW u \in Users, LoginFails(u) PROVE Goal'
  BY <1>14 DEF LoginFails, LogAttempt
<1>15. ASSUME NEW u \in Users, BadCutoff(u) PROVE Goal'
  BY <1>15 DEF BadCutoff
<1>16. ASSUME NEW u \in Users, StartWorkers(u) PROVE Goal'
  <2>1. /\ pc' = [pc EXCEPT ![u] = "work"] /\ UNCHANGED <<received, outcome, told>>
    BY <1>16 DEF StartWorkers
  <2>2. \A v \in Users \ {u} : work'[v] = work[v]
    BY <1>16 DEF StartWorkers
  <2> QED BY <2>1, <2>2
<1>17. ASSUME NEW u \in Users, NEW c \in Courses, Receive(u, c) PROVE Goal'
  BY <1>17 DEF Receive, LogAttempt
<1>18. ASSUME NEW u \in Users, Decide(u) PROVE Goal'
  BY <1>18 DEF Decide, OutcomeOf
<1>19. ASSUME NEW u \in Users, Report(u) PROVE Goal'
  BY <1>19 DEF Report, Try, UpdatePresetRunStatus, Updated
<1>20. ASSUME NEW u \in Users, ClearOverride(u) PROVE Goal'
  BY <1>20 DEF ClearOverride, Try, ClearCourseOverride, Updated
<1>21. ASSUME NEW u \in Users, ClearCancel(u) PROVE Goal'
  BY <1>21 DEF ClearCancel, Try, ClearCancelRequested, Updated
<1>22. ASSUME NEW u \in Users, Release(u) PROVE Goal'
  BY <1>22 DEF Release
<1>23. ASSUME NEW u \in Users, SavePreset(u) PROVE Goal'
  BY <1>23 DEF SavePreset, Edit, UpsertPreset
<1>24. ASSUME NEW u \in Users, CancelRun(u) PROVE Goal'
  BY <1>24 DEF CancelRun, Edit, RequestCancelRun
<1>25. ASSUME NEW u \in Users, QueueSkip(u) PROVE Goal'
  BY <1>25 DEF QueueSkip, Edit, RequestSkipNextRun
<1>26. ASSUME NEW u \in Users, UndoSkip(u) PROVE Goal'
  BY <1>26 DEF UndoSkip, Edit, ClearSkipNextRun, Updated
<1>27. ASSUME NEW u \in Users, DeletePreset(u) PROVE Goal'
  BY <1>27 DEF DeletePreset, Edit, DeleteByUserName, DropsSkip
<1>28. ASSUME NEW u \in Users, DeleteUser(u) PROVE Goal'
  BY <1>28 DEF DeleteUser, Edit, DeleteByUserName, DropsSkip
<1>29. ASSUME NEW u \in Users, Deadline(u) PROVE Goal'
  BY <1>29 DEF Deadline
<1>30. ASSUME NEW u \in Users, PollCancel(u) PROVE Goal'
  BY <1>30 DEF PollCancel
<1>31. ASSUME NEW u \in Users, NEW c \in Courses, WorkerEnds(u, c) PROVE Goal'
  BY <1>31 DEF WorkerEnds
<1> QED
  BY <1>1, <1>2, <1>3, <1>4, <1>5, <1>6, <1>7, <1>8, <1>9, <1>10, <1>11, <1>12,
     <1>13, <1>14, <1>15, <1>16, <1>17, <1>18, <1>19, <1>20, <1>21, <1>22, <1>23,
     <1>24, <1>25, <1>26, <1>27, <1>28, <1>29, <1>30, <1>31 DEF Next, Process,
     Web

(* The history of attempts only grows.                                     *)
LEMMA LogAttemptAdds ==
    ASSUME TypeOK, NEW u \in Users, NEW course, LogAttempt(u, course)
    PROVE  \A v \in Users : attempts[v] \subseteq attempts'[v]
<1>1. DOMAIN attempts = Users
  BY DEF TypeOK
<1>2. CASE attempts' = [attempts EXCEPT ![u] = @ \union {course}]
  BY <1>1, <1>2
<1>3. CASE attempts' = attempts
  BY <1>3
<1> QED
  BY <1>2, <1>3 DEF LogAttempt

(* Every result received is logged.                                        *)
LEMMA HistoryStep ==
    ASSUME IInv, [Next]_vars
    PROVE  (\A v \in Users : HistoryOK(v))'
<1> USE SchedulerBounds DEF IInv, TypeOK, PresetTypeOK, UserOK, HistoryOK,
      Undisturbed, presetVars, webVars, bounds, runVars, workVars, historyVars,
      Goto
<1> DEFINE Goal == \A v \in Users : HistoryOK(v)
<1>1. CASE BeginRun
  BY <1>1 DEF BeginRun, FreshProcess, Idle
<1>2. CASE Crash
  BY <1>2 DEF Crash, FreshProcess
<1>3. CASE Midnight
  BY <1>3 DEF Midnight
<1>4. CASE UNCHANGED vars
  BY <1>4 DEF vars
<1>5. ASSUME NEW u \in Users, BookingOpens(u) PROVE Goal'
  BY <1>5 DEF BookingOpens
<1>6. ASSUME NEW u \in Users, Acquire(u) PROVE Goal'
  BY <1>6 DEF Acquire
<1>7. ASSUME NEW u \in Users, ServeSkip(u) PROVE Goal'
  BY <1>7 DEF ServeSkip, ConsumeSkipNextRun, ClearSkipNextRun, Updated
<1>8. ASSUME NEW u \in Users, NoSkip(u) PROVE Goal'
  BY <1>8 DEF NoSkip, Try
<1>9. ASSUME NEW u \in Users, AfterSkip(u) PROVE Goal'
  <2>1. CASE ClearCancelRequested(u) /\ UNCHANGED dbFailures
    BY <1>9, <2>1 DEF AfterSkip, ClearCancelRequested, Updated
  <2>2. CASE dbFailures' = dbFailures + 1 /\ UNCHANGED presetVars
    BY <1>9, <2>2 DEF AfterSkip
  <2> QED BY <1>9, <2>1, <2>2 DEF AfterSkip, Try
<1>10. ASSUME NEW u \in Users, MarkRunning(u) PROVE Goal'
  BY <1>10 DEF MarkRunning, Try, UpdatePresetRunStatus, Updated
<1>11. ASSUME NEW u \in Users, ResolveCourse(u) PROVE Goal'
  BY <1>11 DEF ResolveCourse, Try, ClearCourseOverride, Updated, ResolveOverride
<1>12. ASSUME NEW u \in Users, NoCredentials(u) PROVE Goal'
  BY <1>12 DEF NoCredentials
<1>13. ASSUME NEW u \in Users, ReadCredentials(u) PROVE Goal'
  BY <1>13 DEF ReadCredentials
<1>14. ASSUME NEW u \in Users, LoginFails(u) PROVE Goal'
  <2>1. CASE UNCHANGED dbFailures
    <3>1. LogAttempt(u, "login")
      BY <1>14 DEF LoginFails
    <3>2. \A v \in Users : attempts[v] \subseteq attempts'[v]
      BY <3>1, LogAttemptAdds
    <3> QED BY <1>14, <2>1, <3>2 DEF LoginFails
  <2>2. CASE dbFailures' = dbFailures + 1
    BY <1>14, <2>2 DEF LoginFails
  <2> QED BY <1>14, <2>1, <2>2 DEF LoginFails, LogAttempt
<1>15. ASSUME NEW u \in Users, BadCutoff(u) PROVE Goal'
  BY <1>15 DEF BadCutoff
<1>16. ASSUME NEW u \in Users, StartWorkers(u) PROVE Goal'
  BY <1>16 DEF StartWorkers
<1>17. ASSUME NEW u \in Users, NEW c \in Courses, Receive(u, c) PROVE Goal'
  BY <1>17 DEF Receive, LogAttempt
<1>18. ASSUME NEW u \in Users, Decide(u) PROVE Goal'
  BY <1>18 DEF Decide, OutcomeOf
<1>19. ASSUME NEW u \in Users, Report(u) PROVE Goal'
  BY <1>19 DEF Report, Try, UpdatePresetRunStatus, Updated
<1>20. ASSUME NEW u \in Users, ClearOverride(u) PROVE Goal'
  BY <1>20 DEF ClearOverride, Try, ClearCourseOverride, Updated
<1>21. ASSUME NEW u \in Users, ClearCancel(u) PROVE Goal'
  <2>1. CASE ClearCancelRequested(u) /\ UNCHANGED dbFailures
    BY <1>21, <2>1 DEF ClearCancel, ClearCancelRequested, Updated
  <2>2. CASE dbFailures' = dbFailures + 1 /\ UNCHANGED presetVars
    BY <1>21, <2>2 DEF ClearCancel
  <2> QED BY <1>21, <2>1, <2>2 DEF ClearCancel, Try
<1>22. ASSUME NEW u \in Users, Release(u) PROVE Goal'
  BY <1>22 DEF Release
<1>23. ASSUME NEW u \in Users, SavePreset(u) PROVE Goal'
  BY <1>23 DEF SavePreset, Edit, UpsertPreset
<1>24. ASSUME NEW u \in Users, CancelRun(u) PROVE Goal'
  BY <1>24 DEF CancelRun, Edit, RequestCancelRun
<1>25. ASSUME NEW u \in Users, QueueSkip(u) PROVE Goal'
  BY <1>25 DEF QueueSkip, Edit, RequestSkipNextRun
<1>26. ASSUME NEW u \in Users, UndoSkip(u) PROVE Goal'
  BY <1>26 DEF UndoSkip, Edit, ClearSkipNextRun, Updated
<1>27. ASSUME NEW u \in Users, DeletePreset(u) PROVE Goal'
  BY <1>27 DEF DeletePreset, Edit, DeleteByUserName, DropsSkip
<1>28. ASSUME NEW u \in Users, DeleteUser(u) PROVE Goal'
  BY <1>28 DEF DeleteUser, Edit, DeleteByUserName, DropsSkip
<1>29. ASSUME NEW u \in Users, Deadline(u) PROVE Goal'
  BY <1>29 DEF Deadline
<1>30. ASSUME NEW u \in Users, PollCancel(u) PROVE Goal'
  BY <1>30 DEF PollCancel
<1>31. ASSUME NEW u \in Users, NEW c \in Courses, WorkerEnds(u, c) PROVE Goal'
  BY <1>31 DEF WorkerEnds
<1> QED
  BY <1>1, <1>2, <1>3, <1>4, <1>5, <1>6, <1>7, <1>8, <1>9, <1>10, <1>11, <1>12,
     <1>13, <1>14, <1>15, <1>16, <1>17, <1>18, <1>19, <1>20, <1>21, <1>22, <1>23,
     <1>24, <1>25, <1>26, <1>27, <1>28, <1>29, <1>30, <1>31 DEF Next, Process,
     Web

(* The status in the row.                                                  *)
LEMMA StatusStep ==
    ASSUME IInv, [Next]_vars
    PROVE  (\A v \in Users : StatusOK(v))'
<1> USE SchedulerBounds DEF IInv, TypeOK, PresetTypeOK, UserOK, RowOK,
      OutcomeOK, ResultOK, StatusOK, Undisturbed, BeforeCourse, BeforeWork,
      AfterWork, Reported, CleaningUp, Marked, Outcomes, Booked, NoWork,
      presetVars, webVars, bounds, runVars, workVars, historyVars, Goto
<1> DEFINE Goal == \A v \in Users : StatusOK(v)
<1>1. CASE BeginRun
  BY <1>1 DEF BeginRun, FreshProcess, Idle
<1>2. CASE Crash
  BY <1>2 DEF Crash, FreshProcess
<1>3. CASE Midnight
  BY <1>3 DEF Midnight
<1>4. CASE UNCHANGED vars
  BY <1>4 DEF vars
<1>5. ASSUME NEW u \in Users, BookingOpens(u) PROVE Goal'
  BY <1>5 DEF BookingOpens
<1>6. ASSUME NEW u \in Users, Acquire(u) PROVE Goal'
  BY <1>6 DEF Acquire
<1>7. ASSUME NEW u \in Users, ServeSkip(u) PROVE Goal'
  BY <1>7 DEF ServeSkip, ConsumeSkipNextRun, ClearSkipNextRun, Updated
<1>8. ASSUME NEW u \in Users, NoSkip(u) PROVE Goal'
  BY <1>8 DEF NoSkip, Try
<1>9. ASSUME NEW u \in Users, AfterSkip(u) PROVE Goal'
  <2>1. CASE ClearCancelRequested(u) /\ UNCHANGED dbFailures
    BY <1>9, <2>1 DEF AfterSkip, ClearCancelRequested, Updated
  <2>2. CASE dbFailures' = dbFailures + 1 /\ UNCHANGED presetVars
    BY <1>9, <2>2 DEF AfterSkip
  <2> QED BY <1>9, <2>1, <2>2 DEF AfterSkip, Try
<1>10. ASSUME NEW u \in Users, MarkRunning(u) PROVE Goal'
  BY <1>10 DEF MarkRunning, Try, UpdatePresetRunStatus, Updated
<1>11. ASSUME NEW u \in Users, ResolveCourse(u) PROVE Goal'
  BY <1>11 DEF ResolveCourse, Try, ClearCourseOverride, Updated, ResolveOverride
<1>12. ASSUME NEW u \in Users, NoCredentials(u) PROVE Goal'
  BY <1>12 DEF NoCredentials
<1>13. ASSUME NEW u \in Users, ReadCredentials(u) PROVE Goal'
  BY <1>13 DEF ReadCredentials
<1>14. ASSUME NEW u \in Users, LoginFails(u) PROVE Goal'
  BY <1>14 DEF LoginFails, LogAttempt
<1>15. ASSUME NEW u \in Users, BadCutoff(u) PROVE Goal'
  BY <1>15 DEF BadCutoff
<1>16. ASSUME NEW u \in Users, StartWorkers(u) PROVE Goal'
  BY <1>16 DEF StartWorkers
<1>17. ASSUME NEW u \in Users, NEW c \in Courses, Receive(u, c) PROVE Goal'
  BY <1>17 DEF Receive, LogAttempt
<1>18. ASSUME NEW u \in Users, Decide(u) PROVE Goal'
  BY <1>18 DEF Decide, OutcomeOf
<1>19. ASSUME NEW u \in Users, Report(u) PROVE Goal'
  <2>1. /\ pc[u] = "report"
        /\ pc' = [pc EXCEPT ![u] =
                     IF clearAfter[u] THEN "clearOverride" ELSE "clearCancel"]
        /\ UNCHANGED <<crashes, outcome, work, presets>>
    BY <1>19 DEF Report, Try, UpdatePresetRunStatus
  <2>2. /\ outcome[u] \in {"success", "failed", "cancelled"}
        /\ (outcome[u] = "success" <=> Booked(u) # {})
    BY <2>1
  <2>3. CASE lastRunStatus' = Updated(lastRunStatus, u, outcome[u]) /\ UNCHANGED dbFailures
    <3>1. lastRunStatus'[u] = IF u \in presets THEN outcome[u] ELSE "idle"
      BY <2>3 DEF Updated
    <3>2. StatusOK(u)'
      BY <2>1, <2>2, <2>3, <3>1
    <3>3. ASSUME NEW v \in Users, v # u PROVE StatusOK(v)'
      <4>1. lastRunStatus'[v] = lastRunStatus[v] /\ pc'[v] = pc[v]
        BY <2>1, <2>3, <3>3 DEF Updated
      <4> QED BY <2>1, <2>3, <4>1
    <3> QED BY <3>2, <3>3
  <2>4. CASE dbFailures' = dbFailures + 1 /\ UNCHANGED presetVars
    BY <2>1, <2>4
  <2> QED BY <1>19, <2>3, <2>4 DEF Report, Try, UpdatePresetRunStatus
<1>20. ASSUME NEW u \in Users, ClearOverride(u) PROVE Goal'
  BY <1>20 DEF ClearOverride, Try, ClearCourseOverride, Updated
<1>21. ASSUME NEW u \in Users, ClearCancel(u) PROVE Goal'
  <2>1. CASE ClearCancelRequested(u) /\ UNCHANGED dbFailures
    BY <1>21, <2>1 DEF ClearCancel, ClearCancelRequested, Updated
  <2>2. CASE dbFailures' = dbFailures + 1 /\ UNCHANGED presetVars
    BY <1>21, <2>2 DEF ClearCancel
  <2> QED BY <1>21, <2>1, <2>2 DEF ClearCancel, Try
<1>22. ASSUME NEW u \in Users, Release(u) PROVE Goal'
  BY <1>22 DEF Release
<1>23. ASSUME NEW u \in Users, SavePreset(u) PROVE Goal'
  BY <1>23 DEF SavePreset, Edit, UpsertPreset
<1>24. ASSUME NEW u \in Users, CancelRun(u) PROVE Goal'
  BY <1>24 DEF CancelRun, Edit, RequestCancelRun
<1>25. ASSUME NEW u \in Users, QueueSkip(u) PROVE Goal'
  BY <1>25 DEF QueueSkip, Edit, RequestSkipNextRun
<1>26. ASSUME NEW u \in Users, UndoSkip(u) PROVE Goal'
  BY <1>26 DEF UndoSkip, Edit, ClearSkipNextRun, Updated
<1>27. ASSUME NEW u \in Users, DeletePreset(u) PROVE Goal'
  BY <1>27 DEF DeletePreset, Edit, DeleteByUserName, DropsSkip
<1>28. ASSUME NEW u \in Users, DeleteUser(u) PROVE Goal'
  BY <1>28 DEF DeleteUser, Edit, DeleteByUserName, DropsSkip
<1>29. ASSUME NEW u \in Users, Deadline(u) PROVE Goal'
  BY <1>29 DEF Deadline
<1>30. ASSUME NEW u \in Users, PollCancel(u) PROVE Goal'
  BY <1>30 DEF PollCancel
<1>31. ASSUME NEW u \in Users, NEW c \in Courses, WorkerEnds(u, c) PROVE Goal'
  BY <1>31 DEF WorkerEnds
<1> QED
  BY <1>1, <1>2, <1>3, <1>4, <1>5, <1>6, <1>7, <1>8, <1>9, <1>10, <1>11, <1>12,
     <1>13, <1>14, <1>15, <1>16, <1>17, <1>18, <1>19, <1>20, <1>21, <1>22, <1>23,
     <1>24, <1>25, <1>26, <1>27, <1>28, <1>29, <1>30, <1>31 DEF Next, Process,
     Web

(* The cancel request in the row.                                          *)
LEMMA CancelStep ==
    ASSUME IInv, [Next]_vars
    PROVE  (\A v \in Users : CancelOK(v))'
<1> USE SchedulerBounds DEF IInv, TypeOK, PresetTypeOK, UserOK, RowOK,
      OutcomeOK, StatusOK, CancelOK, Undisturbed, BeforeCourse, BeforeWork,
      AfterWork, Reported, CleaningUp, Marked, presetVars, webVars, bounds,
      runVars, workVars, historyVars, Goto
<1> DEFINE Goal == \A v \in Users : CancelOK(v)
<1>1. CASE BeginRun
  BY <1>1 DEF BeginRun, FreshProcess, Idle
<1>2. CASE Crash
  BY <1>2 DEF Crash, FreshProcess
<1>3. CASE Midnight
  BY <1>3 DEF Midnight
<1>4. CASE UNCHANGED vars
  BY <1>4 DEF vars
<1>5. ASSUME NEW u \in Users, BookingOpens(u) PROVE Goal'
  BY <1>5 DEF BookingOpens
<1>6. ASSUME NEW u \in Users, Acquire(u) PROVE Goal'
  BY <1>6 DEF Acquire
<1>7. ASSUME NEW u \in Users, ServeSkip(u) PROVE Goal'
  BY <1>7 DEF ServeSkip, ConsumeSkipNextRun, ClearSkipNextRun, Updated
<1>8. ASSUME NEW u \in Users, NoSkip(u) PROVE Goal'
  BY <1>8 DEF NoSkip, Try
<1>9. ASSUME NEW u \in Users, AfterSkip(u) PROVE Goal'
  <2>1. CASE ClearCancelRequested(u) /\ UNCHANGED dbFailures
    BY <1>9, <2>1 DEF AfterSkip, ClearCancelRequested, Updated
  <2>2. CASE dbFailures' = dbFailures + 1 /\ UNCHANGED presetVars
    BY <1>9, <2>2 DEF AfterSkip
  <2> QED BY <1>9, <2>1, <2>2 DEF AfterSkip, Try
<1>10. ASSUME NEW u \in Users, MarkRunning(u) PROVE Goal'
  BY <1>10 DEF MarkRunning, Try, UpdatePresetRunStatus, Updated
<1>11. ASSUME NEW u \in Users, ResolveCourse(u) PROVE Goal'
  BY <1>11 DEF ResolveCourse, Try, ClearCourseOverride, Updated, ResolveOverride
<1>12. ASSUME NEW u \in Users, NoCredentials(u) PROVE Goal'
  BY <1>12 DEF NoCredentials
<1>13. ASSUME NEW u \in Users, ReadCredentials(u) PROVE Goal'
  BY <1>13 DEF ReadCredentials
<1>14. ASSUME NEW u \in Users, LoginFails(u) PROVE Goal'
  BY <1>14 DEF LoginFails, LogAttempt
<1>15. ASSUME NEW u \in Users, BadCutoff(u) PROVE Goal'
  BY <1>15 DEF BadCutoff
<1>16. ASSUME NEW u \in Users, StartWorkers(u) PROVE Goal'
  BY <1>16 DEF StartWorkers
<1>17. ASSUME NEW u \in Users, NEW c \in Courses, Receive(u, c) PROVE Goal'
  BY <1>17 DEF Receive, LogAttempt
<1>18. ASSUME NEW u \in Users, Decide(u) PROVE Goal'
  BY <1>18 DEF Decide, OutcomeOf
<1>19. ASSUME NEW u \in Users, Report(u) PROVE Goal'
  BY <1>19 DEF Report, Try, UpdatePresetRunStatus, Updated
<1>20. ASSUME NEW u \in Users, ClearOverride(u) PROVE Goal'
  BY <1>20 DEF ClearOverride, Try, ClearCourseOverride, Updated
<1>21. ASSUME NEW u \in Users, ClearCancel(u) PROVE Goal'
  <2>1. CASE ClearCancelRequested(u) /\ UNCHANGED dbFailures
    BY <1>21, <2>1 DEF ClearCancel, ClearCancelRequested, Updated
  <2>2. CASE dbFailures' = dbFailures + 1 /\ UNCHANGED presetVars
    BY <1>21, <2>2 DEF ClearCancel
  <2> QED BY <1>21, <2>1, <2>2 DEF ClearCancel, Try
<1>22. ASSUME NEW u \in Users, Release(u) PROVE Goal'
  BY <1>22 DEF Release
<1>23. ASSUME NEW u \in Users, SavePreset(u) PROVE Goal'
  BY <1>23 DEF SavePreset, Edit, UpsertPreset
<1>24. ASSUME NEW u \in Users, CancelRun(u) PROVE Goal'
  BY <1>24 DEF CancelRun, Edit, RequestCancelRun
<1>25. ASSUME NEW u \in Users, QueueSkip(u) PROVE Goal'
  BY <1>25 DEF QueueSkip, Edit, RequestSkipNextRun
<1>26. ASSUME NEW u \in Users, UndoSkip(u) PROVE Goal'
  BY <1>26 DEF UndoSkip, Edit, ClearSkipNextRun, Updated
<1>27. ASSUME NEW u \in Users, DeletePreset(u) PROVE Goal'
  BY <1>27 DEF DeletePreset, Edit, DeleteByUserName, DropsSkip
<1>28. ASSUME NEW u \in Users, DeleteUser(u) PROVE Goal'
  BY <1>28 DEF DeleteUser, Edit, DeleteByUserName, DropsSkip
<1>29. ASSUME NEW u \in Users, Deadline(u) PROVE Goal'
  BY <1>29 DEF Deadline
<1>30. ASSUME NEW u \in Users, PollCancel(u) PROVE Goal'
  BY <1>30 DEF PollCancel
<1>31. ASSUME NEW u \in Users, NEW c \in Courses, WorkerEnds(u, c) PROVE Goal'
  BY <1>31 DEF WorkerEnds
<1> QED
  BY <1>1, <1>2, <1>3, <1>4, <1>5, <1>6, <1>7, <1>8, <1>9, <1>10, <1>11, <1>12,
     <1>13, <1>14, <1>15, <1>16, <1>17, <1>18, <1>19, <1>20, <1>21, <1>22, <1>23,
     <1>24, <1>25, <1>26, <1>27, <1>28, <1>29, <1>30, <1>31 DEF Next, Process,
     Web

(* The balance of skips.                                                   *)
LEMMA SkipStep ==
    ASSUME IInv, [Next]_vars
    PROVE  (\A v \in Users : SkipOK(v))'
<1> USE DEF IInv, TypeOK, PresetTypeOK, UserOK, RowOK, SkipOK, presetVars,
      webVars, bounds, runVars, workVars, historyVars, Goto
<1> DEFINE Goal == \A v \in Users : SkipOK(v)
<1>1. CASE BeginRun
  BY <1>1 DEF BeginRun, FreshProcess, Idle
<1>2. CASE Crash
  BY <1>2 DEF Crash, FreshProcess
<1>3. CASE Midnight
  BY <1>3 DEF Midnight
<1>4. CASE UNCHANGED vars
  BY <1>4 DEF vars
<1>5. ASSUME NEW u \in Users, BookingOpens(u) PROVE Goal'
  BY <1>5 DEF BookingOpens
<1>6. ASSUME NEW u \in Users, Acquire(u) PROVE Goal'
  BY <1>6 DEF Acquire
<1>7. ASSUME NEW u \in Users, ServeSkip(u) PROVE Goal'
  BY <1>7 DEF ServeSkip, ConsumeSkipNextRun, ClearSkipNextRun, Updated
<1>8. ASSUME NEW u \in Users, NoSkip(u) PROVE Goal'
  BY <1>8 DEF NoSkip, Try
<1>9. ASSUME NEW u \in Users, AfterSkip(u) PROVE Goal'
  BY <1>9 DEF AfterSkip, Try, ClearCancelRequested, Updated
<1>10. ASSUME NEW u \in Users, MarkRunning(u) PROVE Goal'
  BY <1>10 DEF MarkRunning, Try, UpdatePresetRunStatus, Updated
<1>11. ASSUME NEW u \in Users, ResolveCourse(u) PROVE Goal'
  BY <1>11 DEF ResolveCourse, Try, ClearCourseOverride, Updated, ResolveOverride
<1>12. ASSUME NEW u \in Users, NoCredentials(u) PROVE Goal'
  BY <1>12 DEF NoCredentials
<1>13. ASSUME NEW u \in Users, ReadCredentials(u) PROVE Goal'
  BY <1>13 DEF ReadCredentials
<1>14. ASSUME NEW u \in Users, LoginFails(u) PROVE Goal'
  BY <1>14 DEF LoginFails, LogAttempt
<1>15. ASSUME NEW u \in Users, BadCutoff(u) PROVE Goal'
  BY <1>15 DEF BadCutoff
<1>16. ASSUME NEW u \in Users, StartWorkers(u) PROVE Goal'
  BY <1>16 DEF StartWorkers
<1>17. ASSUME NEW u \in Users, NEW c \in Courses, Receive(u, c) PROVE Goal'
  BY <1>17 DEF Receive, LogAttempt
<1>18. ASSUME NEW u \in Users, Decide(u) PROVE Goal'
  BY <1>18 DEF Decide, OutcomeOf
<1>19. ASSUME NEW u \in Users, Report(u) PROVE Goal'
  BY <1>19 DEF Report, Try, UpdatePresetRunStatus, Updated
<1>20. ASSUME NEW u \in Users, ClearOverride(u) PROVE Goal'
  BY <1>20 DEF ClearOverride, Try, ClearCourseOverride, Updated
<1>21. ASSUME NEW u \in Users, ClearCancel(u) PROVE Goal'
  BY <1>21 DEF ClearCancel, Try, ClearCancelRequested, Updated
<1>22. ASSUME NEW u \in Users, Release(u) PROVE Goal'
  BY <1>22 DEF Release
<1>23. ASSUME NEW u \in Users, SavePreset(u) PROVE Goal'
  BY <1>23 DEF SavePreset, Edit, UpsertPreset
<1>24. ASSUME NEW u \in Users, CancelRun(u) PROVE Goal'
  BY <1>24 DEF CancelRun, Edit, RequestCancelRun
<1>25. ASSUME NEW u \in Users, QueueSkip(u) PROVE Goal'
  BY <1>25 DEF QueueSkip, Edit, RequestSkipNextRun
<1>26. ASSUME NEW u \in Users, UndoSkip(u) PROVE Goal'
  BY <1>26 DEF UndoSkip, Edit, ClearSkipNextRun, Updated
<1>27. ASSUME NEW u \in Users, DeletePreset(u) PROVE Goal'
  BY <1>27 DEF DeletePreset, Edit, DeleteByUserName, DropsSkip
<1>28. ASSUME NEW u \in Users, DeleteUser(u) PROVE Goal'
  BY <1>28 DEF DeleteUser, Edit, DeleteByUserName, DropsSkip
<1>29. ASSUME NEW u \in Users, Deadline(u) PROVE Goal'
  BY <1>29 DEF Deadline
<1>30. ASSUME NEW u \in Users, PollCancel(u) PROVE Goal'
  BY <1>30 DEF PollCancel
<1>31. ASSUME NEW u \in Users, NEW c \in Courses, WorkerEnds(u, c) PROVE Goal'
  BY <1>31 DEF WorkerEnds
<1> QED
  BY <1>1, <1>2, <1>3, <1>4, <1>5, <1>6, <1>7, <1>8, <1>9, <1>10, <1>11, <1>12,
     <1>13, <1>14, <1>15, <1>16, <1>17, <1>18, <1>19, <1>20, <1>21, <1>22, <1>23,
     <1>24, <1>25, <1>26, <1>27, <1>28, <1>29, <1>30, <1>31 DEF Next, Process,
     Web

(* The balance of one-shot overrides.                                      *)
LEMMA OnceStep ==
    ASSUME IInv, [Next]_vars
    PROVE  (\A v \in Users : OnceOK(v))'
<1> USE SchedulerBounds DEF IInv, TypeOK, PresetTypeOK, UserOK, RowOK, OnceOK,
      Undisturbed, BeforeCourse, ClearPending, presetVars, webVars, bounds,
      runVars, workVars, historyVars, Goto
<1> DEFINE Goal == \A v \in Users : OnceOK(v)
<1>1. CASE BeginRun
  BY <1>1 DEF BeginRun, FreshProcess, Idle
<1>2. CASE Crash
  BY <1>2 DEF Crash, FreshProcess
<1>3. CASE Midnight
  BY <1>3 DEF Midnight
<1>4. CASE UNCHANGED vars
  BY <1>4 DEF vars
<1>5. ASSUME NEW u \in Users, BookingOpens(u) PROVE Goal'
  BY <1>5 DEF BookingOpens
<1>6. ASSUME NEW u \in Users, Acquire(u) PROVE Goal'
  BY <1>6 DEF Acquire
<1>7. ASSUME NEW u \in Users, ServeSkip(u) PROVE Goal'
  BY <1>7 DEF ServeSkip, ConsumeSkipNextRun, ClearSkipNextRun, Updated
<1>8. ASSUME NEW u \in Users, NoSkip(u) PROVE Goal'
  BY <1>8 DEF NoSkip, Try
<1>9. ASSUME NEW u \in Users, AfterSkip(u) PROVE Goal'
  <2>1. CASE ClearCancelRequested(u) /\ UNCHANGED dbFailures
    BY <1>9, <2>1 DEF AfterSkip, ClearCancelRequested, Updated
  <2>2. CASE dbFailures' = dbFailures + 1 /\ UNCHANGED presetVars
    BY <1>9, <2>2 DEF AfterSkip
  <2> QED BY <1>9, <2>1, <2>2 DEF AfterSkip, Try
<1>10. ASSUME NEW u \in Users, MarkRunning(u) PROVE Goal'
  BY <1>10 DEF MarkRunning, Try, UpdatePresetRunStatus, Updated
<1>11. ASSUME NEW u \in Users, ResolveCourse(u) PROVE Goal'
  <2> DEFINE state == ResolveOverride(snapshot[u], dayOver)
  <2>1. /\ pc[u] = "resolve" /\ pc' = [pc EXCEPT ![u] = "credentials"]
        /\ clearAfter' = [clearAfter EXCEPT ![u] = state = "once"]
        /\ onceBalance' = [onceBalance EXCEPT ![u] = IF state = "once" THEN @ - 1 ELSE @]
        /\ UNCHANGED <<snapshot, crashes>>
    BY <1>11 DEF ResolveCourse
  <2>2. state = "once" <=> snapshot[u] = "once"
    BY DEF ResolveOverride, Overrides
  <2> HIDE DEF state
  <2>3. CASE UNCHANGED <<dbFailures, override>>
    <3>1. CASE state = "once"
      <4>1. /\ pc'[u] = "credentials" /\ clearAfter'[u] /\ onceBalance'[u] = onceBalance[u] - 1
            /\ Undisturbed => onceBalance[u] >= 1
        BY <2>1, <2>2, <3>1
      <4>2. OnceOK(u)'
        BY <2>1, <2>3, <4>1
      <4>3. ASSUME NEW v \in Users, v # u PROVE OnceOK(v)'
        BY <2>1, <2>3, <4>3
      <4> QED BY <4>2, <4>3
    <3>2. CASE state # "once"
      <4>1. onceBalance' = onceBalance
        BY <2>1, <3>2
      <4>2. ASSUME NEW v \in Users PROVE OnceOK(v)'
        BY <2>1, <2>3, <4>1, <4>2
      <4> QED BY <4>2
    <3> QED BY <3>1, <3>2
  <2>4. CASE override' = Updated(override, u, "none") /\ UNCHANGED dbFailures
    BY <2>1, <2>2, <2>4 DEF Updated
  <2>5. CASE dbFailures' = dbFailures + 1
    BY <2>1, <2>5
  <2> QED BY <1>11, <2>3, <2>4, <2>5 DEF ResolveCourse, Try, ClearCourseOverride
<1>12. ASSUME NEW u \in Users, NoCredentials(u) PROVE Goal'
  BY <1>12 DEF NoCredentials
<1>13. ASSUME NEW u \in Users, ReadCredentials(u) PROVE Goal'
  BY <1>13 DEF ReadCredentials
<1>14. ASSUME NEW u \in Users, LoginFails(u) PROVE Goal'
  BY <1>14 DEF LoginFails, LogAttempt
<1>15. ASSUME NEW u \in Users, BadCutoff(u) PROVE Goal'
  BY <1>15 DEF BadCutoff
<1>16. ASSUME NEW u \in Users, StartWorkers(u) PROVE Goal'
  BY <1>16 DEF StartWorkers
<1>17. ASSUME NEW u \in Users, NEW c \in Courses, Receive(u, c) PROVE Goal'
  BY <1>17 DEF Receive, LogAttempt
<1>18. ASSUME NEW u \in Users, Decide(u) PROVE Goal'
  BY <1>18 DEF Decide, OutcomeOf
<1>19. ASSUME NEW u \in Users, Report(u) PROVE Goal'
  BY <1>19 DEF Report, Try, UpdatePresetRunStatus, Updated
<1>20. ASSUME NEW u \in Users, ClearOverride(u) PROVE Goal'
  BY <1>20 DEF ClearOverride, Try, ClearCourseOverride, Updated
<1>21. ASSUME NEW u \in Users, ClearCancel(u) PROVE Goal'
  <2>1. CASE ClearCancelRequested(u) /\ UNCHANGED dbFailures
    BY <1>21, <2>1 DEF ClearCancel, ClearCancelRequested, Updated
  <2>2. CASE dbFailures' = dbFailures + 1 /\ UNCHANGED presetVars
    BY <1>21, <2>2 DEF ClearCancel
  <2> QED BY <1>21, <2>1, <2>2 DEF ClearCancel, Try
<1>22. ASSUME NEW u \in Users, Release(u) PROVE Goal'
  BY <1>22 DEF Release
<1>23. ASSUME NEW u \in Users, SavePreset(u) PROVE Goal'
  BY <1>23 DEF SavePreset, Edit, UpsertPreset
<1>24. ASSUME NEW u \in Users, CancelRun(u) PROVE Goal'
  BY <1>24 DEF CancelRun, Edit, RequestCancelRun
<1>25. ASSUME NEW u \in Users, QueueSkip(u) PROVE Goal'
  BY <1>25 DEF QueueSkip, Edit, RequestSkipNextRun
<1>26. ASSUME NEW u \in Users, UndoSkip(u) PROVE Goal'
  BY <1>26 DEF UndoSkip, Edit, ClearSkipNextRun, Updated
<1>27. ASSUME NEW u \in Users, DeletePreset(u) PROVE Goal'
  BY <1>27 DEF DeletePreset, Edit, DeleteByUserName, DropsSkip
<1>28. ASSUME NEW u \in Users, DeleteUser(u) PROVE Goal'
  BY <1>28 DEF DeleteUser, Edit, DeleteByUserName, DropsSkip
<1>29. ASSUME NEW u \in Users, Deadline(u) PROVE Goal'
  BY <1>29 DEF Deadline
<1>30. ASSUME NEW u \in Users, PollCancel(u) PROVE Goal'
  BY <1>30 DEF PollCancel
<1>31. ASSUME NEW u \in Users, NEW c \in Courses, WorkerEnds(u, c) PROVE Goal'
  BY <1>31 DEF WorkerEnds
<1> QED
  BY <1>1, <1>2, <1>3, <1>4, <1>5, <1>6, <1>7, <1>8, <1>9, <1>10, <1>11, <1>12,
     <1>13, <1>14, <1>15, <1>16, <1>17, <1>18, <1>19, <1>20, <1>21, <1>22, <1>23,
     <1>24, <1>25, <1>26, <1>27, <1>28, <1>29, <1>30, <1>31 DEF Next, Process,
     Web

(* A step takes one slot or frees one, of its own preset; a new process      *)
(* starts with none.                                                       *)
LEMMA HoldersStep ==
    ASSUME IInv, [Next]_vars
    PROVE  HoldersMove
<1> USE DEF IInv, TypeOK, PresetTypeOK, UserOK, HoldersMove, Holders, Labels,
      Holding, Marked, CleaningUp, presetVars, webVars, bounds, runVars,
      workVars, historyVars, Goto
<1>1. CASE BeginRun
  BY <1>1 DEF BeginRun, FreshProcess, Idle
<1>2. CASE Crash
  BY <1>2 DEF Crash, FreshProcess
<1>3. CASE Midnight
  BY <1>3 DEF Midnight
<1>4. CASE UNCHANGED vars
  BY <1>4 DEF vars
<1>5. ASSUME NEW u \in Users, BookingOpens(u) PROVE HoldersMove
  BY <1>5 DEF BookingOpens
<1>6. ASSUME NEW u \in Users, Acquire(u) PROVE HoldersMove
  <2>1. u \notin Holders /\ sem < MaxConcurrentPresets /\ sem' = sem + 1
    BY <1>6 DEF Acquire
  <2>2. Holders' = Holders \union {u}
    BY <1>6 DEF Acquire
  <2> HIDE DEF Holders
  <2> QED BY <2>1, <2>2
<1>7. ASSUME NEW u \in Users, ServeSkip(u) PROVE HoldersMove
  BY <1>7 DEF ServeSkip, ConsumeSkipNextRun, ClearSkipNextRun, Updated
<1>8. ASSUME NEW u \in Users, NoSkip(u) PROVE HoldersMove
  BY <1>8 DEF NoSkip, Try
<1>9. ASSUME NEW u \in Users, AfterSkip(u) PROVE HoldersMove
  BY <1>9 DEF AfterSkip, Try, ClearCancelRequested, Updated
<1>10. ASSUME NEW u \in Users, MarkRunning(u) PROVE HoldersMove
  BY <1>10 DEF MarkRunning, Try, UpdatePresetRunStatus, Updated
<1>11. ASSUME NEW u \in Users, ResolveCourse(u) PROVE HoldersMove
  BY <1>11 DEF ResolveCourse, Try, ClearCourseOverride, Updated, ResolveOverride
<1>12. ASSUME NEW u \in Users, NoCredentials(u) PROVE HoldersMove
  BY <1>12 DEF NoCredentials
<1>13. ASSUME NEW u \in Users, ReadCredentials(u) PROVE HoldersMove
  BY <1>13 DEF ReadCredentials
<1>14. ASSUME NEW u \in Users, LoginFails(u) PROVE HoldersMove
  BY <1>14 DEF LoginFails, LogAttempt
<1>15. ASSUME NEW u \in Users, BadCutoff(u) PROVE HoldersMove
  BY <1>15 DEF BadCutoff
<1>16. ASSUME NEW u \in Users, StartWorkers(u) PROVE HoldersMove
  BY <1>16 DEF StartWorkers
<1>17. ASSUME NEW u \in Users, NEW c \in Courses, Receive(u, c) PROVE HoldersMove
  BY <1>17 DEF Receive, LogAttempt
<1>18. ASSUME NEW u \in Users, Decide(u) PROVE HoldersMove
  BY <1>18 DEF Decide, OutcomeOf
<1>19. ASSUME NEW u \in Users, Report(u) PROVE HoldersMove
  BY <1>19 DEF Report, Try, UpdatePresetRunStatus, Updated
<1>20. ASSUME NEW u \in Users, ClearOverride(u) PROVE HoldersMove
  BY <1>20 DEF ClearOverride, Try, ClearCourseOverride, Updated
<1>21. ASSUME NEW u \in Users, ClearCancel(u) PROVE HoldersMove
  BY <1>21 DEF ClearCancel, Try, ClearCancelRequested, Updated
<1>22. ASSUME NEW u \in Users, Release(u) PROVE HoldersMove
  <2>1. u \in Holders /\ sem' = sem - 1
    BY <1>22 DEF Release
  <2>2. Holders' = Holders \ {u}
    BY <1>22 DEF Release
  <2> HIDE DEF Holders
  <2> QED BY <2>1, <2>2
<1>23. ASSUME NEW u \in Users, SavePreset(u) PROVE HoldersMove
  BY <1>23 DEF SavePreset, Edit, UpsertPreset
<1>24. ASSUME NEW u \in Users, CancelRun(u) PROVE HoldersMove
  BY <1>24 DEF CancelRun, Edit, RequestCancelRun
<1>25. ASSUME NEW u \in Users, QueueSkip(u) PROVE HoldersMove
  BY <1>25 DEF QueueSkip, Edit, RequestSkipNextRun
<1>26. ASSUME NEW u \in Users, UndoSkip(u) PROVE HoldersMove
  BY <1>26 DEF UndoSkip, Edit, ClearSkipNextRun, Updated
<1>27. ASSUME NEW u \in Users, DeletePreset(u) PROVE HoldersMove
  BY <1>27 DEF DeletePreset, Edit, DeleteByUserName, DropsSkip
<1>28. ASSUME NEW u \in Users, DeleteUser(u) PROVE HoldersMove
  BY <1>28 DEF DeleteUser, Edit, DeleteByUserName, DropsSkip
<1>29. ASSUME NEW u \in Users, Deadline(u) PROVE HoldersMove
  BY <1>29 DEF Deadline
<1>30. ASSUME NEW u \in Users, PollCancel(u) PROVE HoldersMove
  BY <1>30 DEF PollCancel
<1>31. ASSUME NEW u \in Users, NEW c \in Courses, WorkerEnds(u, c) PROVE HoldersMove
  BY <1>31 DEF WorkerEnds
<1> QED
  BY <1>1, <1>2, <1>3, <1>4, <1>5, <1>6, <1>7, <1>8, <1>9, <1>10, <1>11, <1>12,
     <1>13, <1>14, <1>15, <1>16, <1>17, <1>18, <1>19, <1>20, <1>21, <1>22, <1>23,
     <1>24, <1>25, <1>26, <1>27, <1>28, <1>29, <1>30, <1>31 DEF Next, Process,
     Web

(* The count of the slots taken is the number of their holders.            *)
LEMMA SemStep ==
    ASSUME IInv, [Next]_vars
    PROVE  sem' = Cardinality(Holders') /\ sem' \in 0 .. MaxConcurrentPresets
<1> USE ConcurrencyAssumption DEF IInv, TypeOK
<1>1. IsFiniteSet(Holders)
  BY UsersAssumption, FS_Subset DEF Holders
<1>2. CASE Holders' = Holders /\ sem' = sem
  BY <1>2
<1>3. CASE Holders' = {} /\ sem' = 0
  BY <1>3, FS_EmptySet
<1>4. ASSUME NEW u \in Users \ Holders, sem < MaxConcurrentPresets,
             Holders' = Holders \union {u}, sem' = sem + 1
      PROVE  sem' = Cardinality(Holders') /\ sem' \in 0 .. MaxConcurrentPresets
  <2>1. Cardinality(Holders') = Cardinality(Holders) + 1
    BY <1>1, <1>4, FS_AddElement
  <2> QED BY <1>4, <2>1
<1>5. ASSUME NEW u \in Holders, Holders' = Holders \ {u}, sem' = sem - 1
      PROVE  sem' = Cardinality(Holders') /\ sem' \in 0 .. MaxConcurrentPresets
  <2>1. Cardinality(Holders') = Cardinality(Holders) - 1
    BY <1>1, <1>5, FS_RemoveElement
  <2>2. Cardinality(Holders) # 0
    BY <1>1, <1>5, FS_EmptySet
  <2>3. sem # 0 /\ sem \in 0 .. MaxConcurrentPresets
    BY <2>2
  <2>4. MaxConcurrentPresets \in Nat /\ sem' = sem - 1
    BY <1>5
  <2> HIDE DEF IInv, TypeOK
  <2>5. sem' \in 0 .. MaxConcurrentPresets
    BY <2>3, <2>4
  <2>6. sem = Cardinality(Holders)
    BY DEF IInv
  <2> QED BY <2>1, <2>4, <2>5, <2>6
<1> QED
  BY <1>2, <1>3, <1>4, <1>5, HoldersStep DEF HoldersMove

(* A column keeps its type when a statement writes it.                     *)
LEMMA UpdatedType ==
    ASSUME NEW S, NEW column \in [Users -> S], NEW u \in Users, NEW value \in S
    PROVE  Updated(column, u, value) \in [Users -> S]
BY DEF Updated

(* The statements the scheduler and UndoSkip run keep the types of the row. *)
LEMMA StatementTypes ==
    ASSUME PresetTypeOK, NEW u \in Users, NEW status \in RunStatuses
    PROVE  /\ UpdatePresetRunStatus(u, status) => PresetTypeOK'
           /\ ClearCancelRequested(u) => PresetTypeOK'
           /\ ClearCourseOverride(u) => PresetTypeOK'
           /\ ClearSkipNextRun(u) => PresetTypeOK'
<1> USE DEF PresetTypeOK
<1>1. UpdatePresetRunStatus(u, status) => PresetTypeOK'
  <2>1. Updated(lastRunStatus, u, status) \in [Users -> RunStatuses]
    BY UpdatedType
  <2> QED BY <2>1 DEF UpdatePresetRunStatus
<1>2. ClearCancelRequested(u) => PresetTypeOK'
  <2>1. Updated(cancelRequested, u, FALSE) \in [Users -> BOOLEAN]
    BY UpdatedType
  <2> QED BY <2>1 DEF ClearCancelRequested
<1>3. ClearCourseOverride(u) => PresetTypeOK'
  <2>1. Updated(override, u, "none") \in [Users -> Overrides]
    BY UpdatedType DEF Overrides
  <2> QED BY <2>1 DEF ClearCourseOverride
<1>4. ClearSkipNextRun(u) => PresetTypeOK'
  <2>1. Updated(skipNextRun, u, FALSE) \in [Users -> BOOLEAN]
    BY UpdatedType
  <2> QED BY <2>1 DEF ClearSkipNextRun
<1> QED
  BY <1>1, <1>2, <1>3, <1>4

(* Types.                                                                  *)
LEMMA TypeStep ==
    ASSUME IInv, [Next]_vars
    PROVE  TypeOK'
<1> USE SchedulerBounds DEF IInv, TypeOK, PresetTypeOK, UserOK, OutcomeOK,
      Outcomes, Overrides, RunStatuses, Labels, Stops, Statuses, Courses,
      NoWork, presetVars, webVars, bounds, runVars, workVars, historyVars, Goto
<1>s. sem' \in 0 .. MaxConcurrentPresets
  BY SemStep
<1>1. CASE BeginRun
  BY <1>1, <1>s DEF BeginRun, FreshProcess, Idle
<1>2. CASE Crash
  BY <1>2, <1>s DEF Crash, FreshProcess
<1>3. CASE Midnight
  BY <1>3, <1>s DEF Midnight
<1>4. CASE UNCHANGED vars
  BY <1>4, <1>s DEF vars
<1>5. ASSUME NEW u \in Users, BookingOpens(u) PROVE TypeOK'
  BY <1>5, <1>s DEF BookingOpens
<1>6. ASSUME NEW u \in Users, Acquire(u) PROVE TypeOK'
  BY <1>6, <1>s DEF Acquire
<1>7. ASSUME NEW u \in Users, ServeSkip(u) PROVE TypeOK'
  BY <1>7, <1>s DEF ServeSkip, ConsumeSkipNextRun, ClearSkipNextRun, Updated
<1>8. ASSUME NEW u \in Users, NoSkip(u) PROVE TypeOK'
  BY <1>8, <1>s DEF NoSkip, Try
<1>9. ASSUME NEW u \in Users, AfterSkip(u) PROVE TypeOK'
  <2>1. CASE ClearCancelRequested(u) /\ UNCHANGED dbFailures
    <3>1. PresetTypeOK'
      BY <2>1, StatementTypes, PresetTypeOK
    <3> QED BY <1>9, <2>1, <3>1, <1>s DEF AfterSkip
  <2>2. CASE dbFailures < MaxDbFailures /\ dbFailures' = dbFailures + 1 /\ UNCHANGED presetVars
    <3>1. PresetTypeOK'
      BY <2>2, PresetTypeOK DEF PresetTypeOK
    <3> QED BY <1>9, <2>2, <3>1, <1>s DEF AfterSkip
  <2> QED BY <1>9, <2>1, <2>2 DEF AfterSkip, Try
<1>10. ASSUME NEW u \in Users, MarkRunning(u) PROVE TypeOK'
  <2>1. CASE UpdatePresetRunStatus(u, "running") /\ UNCHANGED dbFailures
    <3>1. PresetTypeOK'
      BY <2>1, StatementTypes, PresetTypeOK
    <3> QED BY <1>10, <2>1, <3>1, <1>s DEF MarkRunning
  <2>2. CASE dbFailures < MaxDbFailures /\ dbFailures' = dbFailures + 1 /\ UNCHANGED presetVars
    <3>1. PresetTypeOK'
      BY <2>2, PresetTypeOK DEF PresetTypeOK
    <3> QED BY <1>10, <2>2, <3>1, <1>s DEF MarkRunning
  <2> QED BY <1>10, <2>1, <2>2 DEF MarkRunning, Try
<1>11. ASSUME NEW u \in Users, ResolveCourse(u) PROVE TypeOK'
  BY <1>11, <1>s DEF ResolveCourse, Try, ClearCourseOverride, Updated, ResolveOverride
<1>12. ASSUME NEW u \in Users, NoCredentials(u) PROVE TypeOK'
  BY <1>12, <1>s DEF NoCredentials
<1>13. ASSUME NEW u \in Users, ReadCredentials(u) PROVE TypeOK'
  BY <1>13, <1>s DEF ReadCredentials
<1>14. ASSUME NEW u \in Users, LoginFails(u) PROVE TypeOK'
  BY <1>14, <1>s DEF LoginFails, LogAttempt
<1>15. ASSUME NEW u \in Users, BadCutoff(u) PROVE TypeOK'
  BY <1>15, <1>s DEF BadCutoff
<1>16. ASSUME NEW u \in Users, StartWorkers(u) PROVE TypeOK'
  BY <1>16, <1>s DEF StartWorkers
<1>17. ASSUME NEW u \in Users, NEW c \in Courses, Receive(u, c) PROVE TypeOK'
  <2>1. received' \in [Users -> SUBSET Courses]
    BY <1>17 DEF Receive
  <2>2. attempts' \in [Users -> SUBSET (Courses \union {"login"})]
    <3>1. attempts[u] \union {c} \in SUBSET (Courses \union {"login"})
      OBVIOUS
    <3>2. attempts' = attempts \/ attempts' = [attempts EXCEPT ![u] = attempts[u] \union {c}]
      BY <1>17 DEF Receive, LogAttempt
    <3> QED BY <3>1, <3>2
  <2>3. dbFailures' \in 0 .. MaxDbFailures
    BY <1>17 DEF Receive, LogAttempt
  <2> QED BY <1>17, <2>1, <2>2, <2>3, <1>s DEF Receive
<1>18. ASSUME NEW u \in Users, Decide(u) PROVE TypeOK'
  BY <1>18, <1>s DEF Decide, OutcomeOf
<1>19. ASSUME NEW u \in Users, Report(u) PROVE TypeOK'
  BY <1>19, <1>s DEF Report, Try, UpdatePresetRunStatus, Updated
<1>20. ASSUME NEW u \in Users, ClearOverride(u) PROVE TypeOK'
  <2>1. CASE ClearCourseOverride(u) /\ UNCHANGED dbFailures
    <3>1. PresetTypeOK'
      BY <2>1, StatementTypes, PresetTypeOK
    <3> QED BY <1>20, <2>1, <3>1, <1>s DEF ClearOverride
  <2>2. CASE dbFailures < MaxDbFailures /\ dbFailures' = dbFailures + 1 /\ UNCHANGED presetVars
    <3>1. PresetTypeOK'
      BY <2>2, PresetTypeOK DEF PresetTypeOK
    <3> QED BY <1>20, <2>2, <3>1, <1>s DEF ClearOverride
  <2> QED BY <1>20, <2>1, <2>2 DEF ClearOverride, Try
<1>21. ASSUME NEW u \in Users, ClearCancel(u) PROVE TypeOK'
  <2>1. CASE ClearCancelRequested(u) /\ UNCHANGED dbFailures
    <3>1. PresetTypeOK'
      BY <2>1, StatementTypes, PresetTypeOK
    <3> QED BY <1>21, <2>1, <3>1, <1>s DEF ClearCancel
  <2>2. CASE dbFailures < MaxDbFailures /\ dbFailures' = dbFailures + 1 /\ UNCHANGED presetVars
    <3>1. PresetTypeOK'
      BY <2>2, PresetTypeOK DEF PresetTypeOK
    <3> QED BY <1>21, <2>2, <3>1, <1>s DEF ClearCancel
  <2> QED BY <1>21, <2>1, <2>2 DEF ClearCancel, Try
<1>22. ASSUME NEW u \in Users, Release(u) PROVE TypeOK'
  BY <1>22, <1>s DEF Release
<1>23. ASSUME NEW u \in Users, SavePreset(u) PROVE TypeOK'
  BY <1>23, <1>s DEF SavePreset, Edit, UpsertPreset
<1>24. ASSUME NEW u \in Users, CancelRun(u) PROVE TypeOK'
  BY <1>24, <1>s DEF CancelRun, Edit, RequestCancelRun
<1>25. ASSUME NEW u \in Users, QueueSkip(u) PROVE TypeOK'
  BY <1>25, <1>s DEF QueueSkip, Edit, RequestSkipNextRun
<1>26. ASSUME NEW u \in Users, UndoSkip(u) PROVE TypeOK'
  <2>1. PresetTypeOK'
    BY <1>26, StatementTypes, "idle" \in RunStatuses DEF UndoSkip
  <2>2. skipBalance' \in [Users -> Int]
    BY <1>26 DEF UndoSkip
  <2> QED BY <1>26, <2>1, <2>2, <1>s DEF UndoSkip, Edit
<1>27. ASSUME NEW u \in Users, DeletePreset(u) PROVE TypeOK'
  BY <1>27, <1>s DEF DeletePreset, Edit, DeleteByUserName, DropsSkip
<1>28. ASSUME NEW u \in Users, DeleteUser(u) PROVE TypeOK'
  BY <1>28, <1>s DEF DeleteUser, Edit, DeleteByUserName, DropsSkip
<1>29. ASSUME NEW u \in Users, Deadline(u) PROVE TypeOK'
  BY <1>29, <1>s DEF Deadline
<1>30. ASSUME NEW u \in Users, PollCancel(u) PROVE TypeOK'
  BY <1>30, <1>s DEF PollCancel
<1>31. ASSUME NEW u \in Users, NEW c \in Courses, WorkerEnds(u, c) PROVE TypeOK'
  <2>1. PICK status \in {"success"} \union Worker(u, c)!MayReport(ctx[u]) :
           work' = [work EXCEPT ![u][c] = status]
    BY <1>31 DEF WorkerEnds
  <2>2. status \in Statuses
    BY <2>1 DEF Worker!MayReport, Statuses
  <2> QED BY <1>31, <2>1, <2>2, <1>s DEF WorkerEnds
<1> HIDE DEF IInv, TypeOK, PresetTypeOK, UserOK, OutcomeOK
<1> QED
  BY <1>1, <1>2, <1>3, <1>4, <1>5, <1>6, <1>7, <1>8, <1>9, <1>10, <1>11, <1>12,
     <1>13, <1>14, <1>15, <1>16, <1>17, <1>18, <1>19, <1>20, <1>21, <1>22, <1>23,
     <1>24, <1>25, <1>26, <1>27, <1>28, <1>29, <1>30, <1>31 DEF Next, Process,
     Web

(* Only the poller cancels a run, and the flag it saw was asked for.         *)
LEMMA CancelledStep ==
    ASSUME IInv, [Next]_vars
    PROVE  (\A v \in Users : ctx[v] = "live" /\ ctx'[v] = "cancelled" /\ Undisturbed => asked[v])
<1> USE DEF IInv, TypeOK, PresetTypeOK, UserOK, CancelOK, Undisturbed,
      presetVars, webVars, bounds, runVars, workVars, historyVars, Goto
<1> DEFINE Goal == \A v \in Users : ctx[v] = "live" /\ ctx'[v] = "cancelled" /\ Undisturbed => asked[v]
<1>1. CASE BeginRun
  BY <1>1 DEF BeginRun, FreshProcess, Idle
<1>2. CASE Crash
  BY <1>2 DEF Crash, FreshProcess
<1>3. CASE Midnight
  BY <1>3 DEF Midnight
<1>4. CASE UNCHANGED vars
  BY <1>4 DEF vars
<1>5. ASSUME NEW u \in Users, BookingOpens(u) PROVE Goal
  BY <1>5 DEF BookingOpens
<1>6. ASSUME NEW u \in Users, Acquire(u) PROVE Goal
  BY <1>6 DEF Acquire
<1>7. ASSUME NEW u \in Users, ServeSkip(u) PROVE Goal
  BY <1>7 DEF ServeSkip, ConsumeSkipNextRun, ClearSkipNextRun, Updated
<1>8. ASSUME NEW u \in Users, NoSkip(u) PROVE Goal
  BY <1>8 DEF NoSkip, Try
<1>9. ASSUME NEW u \in Users, AfterSkip(u) PROVE Goal
  BY <1>9 DEF AfterSkip, Try, ClearCancelRequested, Updated
<1>10. ASSUME NEW u \in Users, MarkRunning(u) PROVE Goal
  BY <1>10 DEF MarkRunning, Try, UpdatePresetRunStatus, Updated
<1>11. ASSUME NEW u \in Users, ResolveCourse(u) PROVE Goal
  BY <1>11 DEF ResolveCourse, Try, ClearCourseOverride, Updated, ResolveOverride
<1>12. ASSUME NEW u \in Users, NoCredentials(u) PROVE Goal
  BY <1>12 DEF NoCredentials
<1>13. ASSUME NEW u \in Users, ReadCredentials(u) PROVE Goal
  BY <1>13 DEF ReadCredentials
<1>14. ASSUME NEW u \in Users, LoginFails(u) PROVE Goal
  BY <1>14 DEF LoginFails, LogAttempt
<1>15. ASSUME NEW u \in Users, BadCutoff(u) PROVE Goal
  BY <1>15 DEF BadCutoff
<1>16. ASSUME NEW u \in Users, StartWorkers(u) PROVE Goal
  BY <1>16 DEF StartWorkers
<1>17. ASSUME NEW u \in Users, NEW c \in Courses, Receive(u, c) PROVE Goal
  BY <1>17 DEF Receive, LogAttempt
<1>18. ASSUME NEW u \in Users, Decide(u) PROVE Goal
  BY <1>18 DEF Decide, OutcomeOf
<1>19. ASSUME NEW u \in Users, Report(u) PROVE Goal
  BY <1>19 DEF Report, Try, UpdatePresetRunStatus, Updated
<1>20. ASSUME NEW u \in Users, ClearOverride(u) PROVE Goal
  BY <1>20 DEF ClearOverride, Try, ClearCourseOverride, Updated
<1>21. ASSUME NEW u \in Users, ClearCancel(u) PROVE Goal
  BY <1>21 DEF ClearCancel, Try, ClearCancelRequested, Updated
<1>22. ASSUME NEW u \in Users, Release(u) PROVE Goal
  BY <1>22 DEF Release
<1>23. ASSUME NEW u \in Users, SavePreset(u) PROVE Goal
  BY <1>23 DEF SavePreset, Edit, UpsertPreset
<1>24. ASSUME NEW u \in Users, CancelRun(u) PROVE Goal
  BY <1>24 DEF CancelRun, Edit, RequestCancelRun
<1>25. ASSUME NEW u \in Users, QueueSkip(u) PROVE Goal
  BY <1>25 DEF QueueSkip, Edit, RequestSkipNextRun
<1>26. ASSUME NEW u \in Users, UndoSkip(u) PROVE Goal
  BY <1>26 DEF UndoSkip, Edit, ClearSkipNextRun, Updated
<1>27. ASSUME NEW u \in Users, DeletePreset(u) PROVE Goal
  BY <1>27 DEF DeletePreset, Edit, DeleteByUserName, DropsSkip
<1>28. ASSUME NEW u \in Users, DeleteUser(u) PROVE Goal
  BY <1>28 DEF DeleteUser, Edit, DeleteByUserName, DropsSkip
<1>29. ASSUME NEW u \in Users, Deadline(u) PROVE Goal
  BY <1>29 DEF Deadline
<1>30. ASSUME NEW u \in Users, PollCancel(u) PROVE Goal
  BY <1>30 DEF PollCancel
<1>31. ASSUME NEW u \in Users, NEW c \in Courses, WorkerEnds(u, c) PROVE Goal
  BY <1>31 DEF WorkerEnds
<1> QED
  BY <1>1, <1>2, <1>3, <1>4, <1>5, <1>6, <1>7, <1>8, <1>9, <1>10, <1>11, <1>12,
     <1>13, <1>14, <1>15, <1>16, <1>17, <1>18, <1>19, <1>20, <1>21, <1>22, <1>23,
     <1>24, <1>25, <1>26, <1>27, <1>28, <1>29, <1>30, <1>31 DEF Next, Process,
     Web

(* The invariant holds at first.                                           *)
LEMMA InitIInv == Init => IInv
<1> SUFFICES ASSUME Init PROVE IInv
  OBVIOUS
<1> USE SchedulerBounds, ConcurrencyAssumption DEF Init
<1>1. TypeOK
  <2>1. PresetTypeOK
    BY DEF PresetTypeOK, RunStatuses, Overrides
  <2>2. work \in [Users -> [Courses -> Statuses \union {"off", "running"}]]
    BY DEF NoWork
  <2>3. /\ attempts \in [Users -> SUBSET (Courses \union {"login"})]
        /\ received \in [Users -> SUBSET Courses]
    OBVIOUS
  <2>4. /\ runs \in 0 .. MaxRuns /\ edits \in 0 .. MaxEdits
        /\ crashes \in 0 .. MaxCrashes /\ dbFailures \in 0 .. MaxDbFailures
        /\ sem \in 0 .. MaxConcurrentPresets
    OBVIOUS
  <2>5. /\ pc \in [Users -> Labels] /\ snapshot \in [Users -> Overrides]
        /\ ctx \in [Users -> Stops]
        /\ outcome \in [Users -> Outcomes] /\ told \in [Users -> Outcomes]
    BY DEF Labels, Overrides, Stops, Outcomes
  <2>6. clearAfter \in [Users -> BOOLEAN] /\ overridden \in [Users -> BOOLEAN]
    OBVIOUS
  <2>7. asked \in [Users -> BOOLEAN]
    OBVIOUS
  <2>8. skipBalance \in [Users -> Int] /\ onceBalance \in [Users -> Int]
    OBVIOUS
  <2>9. accounts \subseteq Users /\ dayOver \in BOOLEAN
    OBVIOUS
  <2> HIDE DEF Init
  <2> QED
    BY <2>1, <2>2, <2>3, <2>4, <2>5, <2>6, <2>7, <2>8, <2>9
    DEF TypeOK
<1>2. Holders = {}
  BY DEF Holders, Holding, Marked, CleaningUp
<1>3. sem = Cardinality(Holders)
  BY <1>2, FS_EmptySet
<1>4. ASSUME NEW u \in Users
      PROVE  UserOK(u)
  BY DEF UserOK, RowOK, OutcomeOK, ResultOK, HistoryOK, StatusOK, CancelOK, SkipOK,
         OnceOK, BeforeCourse, BeforeWork, AfterWork, Reported, CleaningUp
<1> QED
  BY <1>1, <1>3, <1>4 DEF IInv

\* No step leaves the invariant.
LEMMA NextIInv == IInv /\ [Next]_vars => IInv'
<1> SUFFICES ASSUME IInv, [Next]_vars PROVE IInv'
  OBVIOUS
<1>1. TypeOK' /\ sem' = Cardinality(Holders')
  BY TypeStep, SemStep
<1>2. (\A u \in Users : RowOK(u) /\ OutcomeOK(u) /\ ResultOK(u) /\ HistoryOK(u))'
  BY RowStep, OutcomeStep, ResultStep, HistoryStep
<1>3. (\A u \in Users : StatusOK(u) /\ CancelOK(u) /\ SkipOK(u) /\ OnceOK(u))'
  BY StatusStep, CancelStep, SkipStep, OnceStep
<1> QED
  BY <1>1, <1>2, <1>3 DEF IInv, UserOK

\* So it holds throughout.
LEMMA Invariance == Spec => []IInv
<1> QED
  BY InitIInv, NextIInv, PTL DEF Spec

-------------------------------------------------------------------------------
(* The theorems.                                                           *)

\* Every variable keeps its type, for any users and bounds.
THEOREM TypeCorrect == Spec => []TypeOK
<1>1. IInv => TypeOK
  BY DEF IInv
<1> QED
  BY <1>1, Invariance, PTL

\* The semaphore counts its holders and never admits more than its capacity.
THEOREM SemaphoreIsBounded == Spec => []SemaphoreBound
<1>1. IInv => SemaphoreBound
  BY ConcurrencyAssumption DEF IInv, TypeOK, SemaphoreBound, Holders
<1> QED
  BY <1>1, Invariance, PTL

\* Without a crash or a failed write no cancel request outlives its run, and a run
\* that was not skipped clears what a crash left behind.
THEOREM CancelsAreCleared == Spec => []NoLeftoverCancel
<1>1. IInv => NoLeftoverCancel
  BY DEF IInv, UserOK, CancelOK, NoLeftoverCancel
<1> QED
  BY <1>1, Invariance, PTL

\* Without a crash or a failed write the row says "running" only while a run works
\* on it, and a run that was not skipped puts right what a crash left behind.
THEOREM RunningIsTrue == Spec => []NoRunLeftRunning
<1>1. IInv => NoRunLeftRunning
  BY DEF IInv, UserOK, StatusOK, NoRunLeftRunning
<1> QED
  BY <1>1, Invariance, PTL

\* No queued skip and no one-shot override is used twice.
THEOREM OneShotsAreSpentOnce == Spec => []OneShotsServeOnce
<1>1. IInv => OneShotsServeOnce
  BY DEF IInv, UserOK, SkipOK, OnceOK, OneShotsServeOnce
<1> QED
  BY <1>1, Invariance, PTL

\* The user is told of a success exactly when a worker booked; the row and the
\* history agree, unless the process was killed or a write failed.
THEOREM BookingsAreNeverHidden == Spec => []BookingsAreReported
<1>1. IInv => BookingsAreReported
  <2> SUFFICES ASSUME IInv, NEW u \in Users, pc[u] \in AfterWork
               PROVE  /\ told[u] = "success" <=> Booked(u) # {}
                      /\ Undisturbed /\ Booked(u) # {} /\ u \in presets /\ pc[u] \in Reported
                             => lastRunStatus[u] \in {"success", "idle"}
                      /\ Undisturbed /\ u \in accounts => Started(u) \subseteq attempts[u]
    BY DEF BookingsAreReported, AfterWork
  <2>1. ResultOK(u) /\ StatusOK(u) /\ HistoryOK(u)
    BY DEF IInv, UserOK
  <2> QED
    BY <2>1 DEF ResultOK, StatusOK, HistoryOK, AfterWork
<1> QED
  BY <1>1, Invariance, PTL

\* As long as no process was killed and no write failed, a run is cancelled only
\* by a request that was made while it was under way.
THEOREM OnlyOwnCancels == Spec => CancelBelongsToRun
<1>1. IInv /\ [Next]_vars
         => [\A u \in Users : ctx[u] = "live" /\ ctx'[u] = "cancelled" /\ Undisturbed
                => asked[u]]_vars
  BY CancelledStep
<1> QED
  BY <1>1, Invariance, PTL DEF Spec, CancelBelongsToRun

===============================================================================

------------------------------- MODULE Scheduler ------------------------------
(***************************************************************************)
(* src/cmd/scheduler/main.go: the daily run over all enabled presets, with *)
(* the web app working on the same table.                                  *)
(*                                                                         *)
(* run() takes a snapshot of the enabled presets and starts one goroutine  *)
(* per preset, which waits for booking_open, takes a semaphore slot and    *)
(* runs processPreset.  processPreset starts one worker per course; a      *)
(* poller cancels their context when the row's cancel flag is seen.  A     *)
(* worker is a BookingRun, the specification that Runner implements.       *)
(*                                                                         *)
(* Each statement on the database is one step, so the statements of the    *)
(* scheduler, of several presets and of the web handlers interleave.  The  *)
(* process may be killed (Crash), and a write may fail: the code logs the  *)
(* error and goes on.                                                      *)
(***************************************************************************)
EXTENDS Integers, FiniteSets, PresetStore

CONSTANTS
    MaxConcurrentPresets,   \* capacity of the semaphore channel
    MaxRuns,                \* bound: scheduler runs, one per day
    MaxEdits,               \* bound: requests of users and admins
    MaxCrashes,             \* bound: killed scheduler processes
    MaxDbFailures           \* bound: writes of the scheduler that fail

ASSUME UsersAssumption == IsFiniteSet(Users)
ASSUME ConcurrencyAssumption == MaxConcurrentPresets \in Nat \ {0}
ASSUME SchedulerBounds ==
    /\ MaxRuns \in Nat /\ MaxEdits \in Nat
    /\ MaxCrashes \in Nat /\ MaxDbFailures \in Nat

VARIABLES
    accounts,     \* users that have credentials
    attempts,     \* booking_attempts rows of the latest run, by course
    dayOver,      \* the expiry of a "today" override has passed
    runs, edits, crashes, dbFailures,
    sem,          \* slots of the semaphore that are taken
    pc,           \* where the goroutine of each preset is
    snapshot,     \* override column as GetEnabledPresets returned it
    clearAfter,   \* is ClearCourseOverride deferred?
    overridden,   \* does the run use an active override?
    ctx,          \* runCtx.Err() of each preset
    work,         \* work[u][c]: off, running, or the status of the worker
    received,     \* courses whose result the parent has received
    outcome,      \* what updateRunDone is going to write
    told,         \* what notifyUser was given, "none" if it was not called
    \* history
    asked,        \* was a cancel request accepted since the run began?
    skipBalance,  \* skips queued minus skips undone or served
    onceBalance   \* one-shot overrides saved minus runs that used one

Courses == {"primary", "alt"}

bounds     == <<runs, edits, crashes, dbFailures>>
webVars    == <<accounts, attempts, dayOver>>
workVars   == <<ctx, work, received>>
runVars    == <<snapshot, clearAfter, overridden, workVars, outcome, told>>
historyVars == <<asked, skipBalance, onceBalance>>
vars == <<presetVars, webVars, bounds, sem, pc, runVars, historyVars>>

\* One worker, as the contract of the runner describes it.
Worker(u, c) == INSTANCE BookingRun
    WITH Slots <- {c}, outcome <- work[u][c],
         booking <- {d \in {c} : work[u][c] = "success"}, stop <- ctx[u]

Idle == \A u \in Users : pc[u] \in {"off", "done"}
NoWork == [c \in Courses |-> "off"]

\* A write of the scheduler whose error is only logged.
Try(Statement) ==
    \/ Statement /\ UNCHANGED dbFailures
    \/ /\ dbFailures < MaxDbFailures
       /\ dbFailures' = dbFailures + 1
       /\ UNCHANGED presetVars

Goto(u, label) == pc' = [pc EXCEPT ![u] = label]

-------------------------------------------------------------------------------
Init ==
    /\ presets = Users /\ enabled \in [Users -> BOOLEAN]
    /\ lastRunStatus = [u \in Users |-> "idle"]
    /\ cancelRequested = [u \in Users |-> FALSE]
    /\ skipNextRun = [u \in Users |-> FALSE]
    /\ override = [u \in Users |-> "none"]
    /\ accounts = Users /\ attempts = [u \in Users |-> {}] /\ dayOver = FALSE
    /\ runs = 0 /\ edits = 0 /\ crashes = 0 /\ dbFailures = 0
    /\ sem = 0 /\ pc = [u \in Users |-> "off"]
    /\ snapshot = [u \in Users |-> "none"]
    /\ clearAfter = [u \in Users |-> FALSE] /\ overridden = [u \in Users |-> FALSE]
    /\ ctx = [u \in Users |-> "live"] /\ work = [u \in Users |-> NoWork]
    /\ received = [u \in Users |-> {}]
    /\ outcome = [u \in Users |-> "none"] /\ told = [u \in Users |-> "none"]
    /\ asked = [u \in Users |-> FALSE]
    /\ skipBalance = [u \in Users |-> 0] /\ onceBalance = [u \in Users |-> 0]

\* What a process that has just started knows.
FreshProcess ==
    /\ sem' = 0
    /\ clearAfter' = [u \in Users |-> FALSE] /\ overridden' = [u \in Users |-> FALSE]
    /\ ctx' = [u \in Users |-> "live"] /\ work' = [u \in Users |-> NoWork]
    /\ received' = [u \in Users |-> {}]
    /\ outcome' = [u \in Users |-> "none"] /\ told' = [u \in Users |-> "none"]

(* run(): the cron job starts, once the last one is over.                  *)
BeginRun ==
    /\ Idle /\ runs < MaxRuns
    /\ runs' = runs + 1
    /\ FreshProcess
    /\ pc' = [u \in Users |-> IF u \in presets /\ enabled[u] THEN "wait" ELSE "off"]
    /\ snapshot' = override
    /\ attempts' = [u \in Users |-> {}] /\ asked' = [u \in Users |-> FALSE]
    /\ UNCHANGED <<presetVars, accounts, dayOver, edits, crashes, dbFailures,
                   skipBalance, onceBalance>>

Crash ==
    /\ ~Idle /\ crashes < MaxCrashes
    /\ crashes' = crashes + 1
    /\ FreshProcess
    /\ pc' = [u \in Users |-> "off"]
    /\ UNCHANGED <<presetVars, webVars, runs, edits, dbFailures, snapshot, historyVars>>

(* The goroutine of one preset.                                            *)

BookingOpens(u) ==
    /\ pc[u] = "wait" /\ Goto(u, "queue")
    /\ UNCHANGED <<presetVars, webVars, bounds, sem, runVars, historyVars>>

\* Mutant of Acquire: one slot too many.
AcquireOneMore(u) ==
    /\ pc[u] = "queue" /\ sem <= MaxConcurrentPresets
    /\ sem' = sem + 1 /\ Goto(u, "skip")
    /\ UNCHANGED <<presetVars, webVars, bounds, runVars, historyVars>>

Acquire(u) ==
    /\ pc[u] = "queue" /\ sem < MaxConcurrentPresets
    /\ sem' = sem + 1 /\ Goto(u, "skip")
    /\ UNCHANGED <<presetVars, webVars, bounds, runVars, historyVars>>

Release(u) ==
    /\ pc[u] = "release"
    /\ sem' = sem - 1 /\ Goto(u, "done")
    /\ UNCHANGED <<presetVars, webVars, bounds, runVars, historyVars>>

(* processPreset.                                                          *)

ServeSkip(u) ==
    /\ pc[u] = "skip"
    /\ ConsumeSkipNextRun(u)
    /\ skipBalance' = [skipBalance EXCEPT ![u] = @ - 1]
    /\ Goto(u, "skipped")
    /\ UNCHANGED <<webVars, bounds, sem, runVars, asked, onceBalance>>

NoSkip(u) ==
    /\ pc[u] = "skip"
    /\ Try(~(u \in presets /\ skipNextRun[u]) /\ UNCHANGED presetVars)
    /\ Goto(u, "mark")
    /\ UNCHANGED <<webVars, runs, edits, crashes, sem, runVars, historyVars>>

\* The skipped run only drops a cancel request that was left over.
AfterSkip(u) ==
    /\ pc[u] = "skipped"
    /\ Try(ClearCancelRequested(u))
    /\ Goto(u, "release")
    /\ UNCHANGED <<webVars, runs, edits, crashes, sem, runVars, historyVars>>

MarkRunning(u) ==
    /\ pc[u] = "mark"
    /\ Try(UpdatePresetRunStatus(u, "running"))
    /\ Goto(u, "resolve")
    /\ UNCHANGED <<webVars, runs, edits, crashes, sem, runVars, historyVars>>

\* resolveCourseForRun, on the snapshot: an expired override is cleared at once,
\* a one-shot override after the run.
ResolveCourse(u) ==
    /\ pc[u] = "resolve"
    /\ LET state == ResolveOverride(snapshot[u], dayOver) IN
       /\ clearAfter' = [clearAfter EXCEPT ![u] = state = "once"]
       /\ overridden' = [overridden EXCEPT ![u] = state \in {"once", "active"}]
       /\ onceBalance' = [onceBalance EXCEPT ![u] = IF state = "once" THEN @ - 1 ELSE @]
       /\ IF state = "expired"
          THEN Try(ClearCourseOverride(u))
          ELSE UNCHANGED <<presetVars, dbFailures>>
    /\ Goto(u, "credentials")
    /\ UNCHANGED <<webVars, runs, edits, crashes, sem, snapshot, workVars, outcome, told,
                   asked, skipBalance>>

\* Mutant of NoCredentials: returns without updateRunDone.
ReturnsUnreported(u) ==
    /\ pc[u] = "credentials"
    /\ outcome' = [outcome EXCEPT ![u] = "failed"] /\ Goto(u, "clearCancel")
    /\ UNCHANGED <<presetVars, webVars, bounds, sem, snapshot, clearAfter, overridden,
                   workVars, told, historyVars>>

\* Credentials that cannot be read, found or decrypted fail the run silently.
NoCredentials(u) ==
    /\ pc[u] = "credentials"
    /\ outcome' = [outcome EXCEPT ![u] = "failed"] /\ Goto(u, "report")
    /\ UNCHANGED <<presetVars, webVars, bounds, sem, snapshot, clearAfter, overridden,
                   workVars, told, historyVars>>

ReadCredentials(u) ==
    /\ pc[u] = "credentials" /\ u \in accounts
    /\ Goto(u, "login")
    /\ UNCHANGED <<presetVars, webVars, bounds, sem, runVars, historyVars>>

\* LogAttempt: an INSERT that may fail like every write.
LogAttempt(u, course) ==
    \/ /\ attempts' = [attempts EXCEPT ![u] = @ \union {course}]
       /\ UNCHANGED dbFailures
    \/ /\ dbFailures < MaxDbFailures /\ dbFailures' = dbFailures + 1
       /\ UNCHANGED attempts

LoginFails(u) ==
    /\ pc[u] = "login"
    /\ LogAttempt(u, "login")
    /\ outcome' = [outcome EXCEPT ![u] = "failed"]
    /\ told' = [told EXCEPT ![u] = "failed"]
    /\ Goto(u, "report")
    /\ UNCHANGED <<presetVars, accounts, dayOver, runs, edits, crashes, sem, snapshot,
                   clearAfter, overridden, workVars, historyVars>>

BadCutoff(u) ==
    /\ pc[u] = "login"
    /\ outcome' = [outcome EXCEPT ![u] = "failed"] /\ Goto(u, "report")
    /\ UNCHANGED <<presetVars, webVars, bounds, sem, snapshot, clearAfter, overridden,
                   workVars, told, historyVars>>

\* resolveCoursesForRun: the other course joins on the preset's alt days, unless
\* an override chose the course.
StartWorkers(u) ==
    /\ pc[u] = "login"
    /\ \E courses \in {{"primary"}, Courses} :
          /\ overridden[u] => courses = {"primary"}
          /\ work' = [work EXCEPT ![u] =
                         [c \in Courses |-> IF c \in courses THEN "running" ELSE "off"]]
    /\ Goto(u, "work")
    /\ UNCHANGED <<presetVars, webVars, bounds, sem, snapshot, clearAfter, overridden,
                   ctx, received, outcome, told, historyVars>>

\* A worker returns, or panics: recover() turns that into "failed".
WorkerEnds(u, c) ==
    /\ pc[u] = "work" /\ work[u][c] = "running"
    /\ \E status \in {"success"} \union Worker(u, c)!MayReport(ctx[u]) :
          work' = [work EXCEPT ![u][c] = status]
    /\ UNCHANGED <<presetVars, webVars, bounds, sem, pc, snapshot, clearAfter, overridden,
                   ctx, received, outcome, told, historyVars>>

\* The context's deadline, and the poller that reads the row of the user.
Deadline(u) ==
    /\ pc[u] = "work" /\ ctx[u] = "live"
    /\ ctx' = [ctx EXCEPT ![u] = "deadline"]
    /\ UNCHANGED <<presetVars, webVars, bounds, sem, pc, snapshot, clearAfter, overridden,
                   work, received, outcome, told, historyVars>>

PollCancel(u) ==
    /\ pc[u] = "work" /\ ctx[u] = "live"
    /\ u \in presets /\ cancelRequested[u]
    /\ ctx' = [ctx EXCEPT ![u] = "cancelled"]
    /\ UNCHANGED <<presetVars, webVars, bounds, sem, pc, snapshot, clearAfter, overridden,
                   work, received, outcome, told, historyVars>>

\* The parent receives one result and writes its history row.
Receive(u, c) ==
    /\ pc[u] = "work" /\ c \notin received[u]
    /\ work[u][c] \notin {"off", "running"}
    /\ received' = [received EXCEPT ![u] = @ \union {c}]
    /\ LogAttempt(u, c)
    /\ UNCHANGED <<presetVars, accounts, dayOver, runs, edits, crashes, sem, pc, snapshot,
                   clearAfter, overridden, ctx, work, outcome, told, historyVars>>

Started(u) == {c \in Courses : work[u][c] # "off"}
Booked(u)  == {c \in Courses : work[u][c] = "success"}

\* Mutant of OutcomeOf: looks at the context first.
CancelWins(u) ==
    IF ctx[u] = "cancelled" THEN "cancelled"
    ELSE IF Booked(u) # {} THEN "success" ELSE "failed"

\* Mutant of OutcomeOf: the runner's status goes to the row as it is.
RunnerStatus(u) == IF Booked(u) # {} THEN "success" ELSE work[u]["primary"]

\* Any booking is a success; otherwise the user's cancellation, or a failure.
OutcomeOf(u) ==
    IF Booked(u) # {} THEN "success"
    ELSE IF ctx[u] = "cancelled" THEN "cancelled" ELSE "failed"

\* Mutant of Decide: waits for a result of every course there is.
DecideOnAll(u) ==
    /\ pc[u] = "work" /\ received[u] = Courses
    /\ outcome' = [outcome EXCEPT ![u] = OutcomeOf(u)]
    /\ told' = [told EXCEPT ![u] = OutcomeOf(u)]
    /\ Goto(u, "report")
    /\ UNCHANGED <<presetVars, webVars, bounds, sem, snapshot, clearAfter, overridden,
                   workVars, historyVars>>

Decide(u) ==
    /\ pc[u] = "work" /\ received[u] = Started(u)
    /\ outcome' = [outcome EXCEPT ![u] = OutcomeOf(u)]
    /\ told' = [told EXCEPT ![u] = OutcomeOf(u)]
    /\ Goto(u, "report")
    /\ UNCHANGED <<presetVars, webVars, bounds, sem, snapshot, clearAfter, overridden,
                   workVars, historyVars>>

\* updateRunDone.
Report(u) ==
    /\ pc[u] = "report"
    /\ Try(UpdatePresetRunStatus(u, outcome[u]))
    /\ Goto(u, IF clearAfter[u] THEN "clearOverride" ELSE "clearCancel")
    /\ UNCHANGED <<webVars, runs, edits, crashes, sem, runVars, historyVars>>

\* The deferred calls, last one first.
ClearOverride(u) ==
    /\ pc[u] = "clearOverride"
    /\ Try(ClearCourseOverride(u))
    /\ Goto(u, "clearCancel")
    /\ UNCHANGED <<webVars, runs, edits, crashes, sem, runVars, historyVars>>

\* Mutant of ClearCancel: the request stays in the row.
CancelKept(u) ==
    /\ pc[u] = "clearCancel"
    /\ Goto(u, "release")
    /\ UNCHANGED <<presetVars, webVars, bounds, sem, runVars, historyVars>>

ClearCancel(u) ==
    /\ pc[u] = "clearCancel"
    /\ Try(ClearCancelRequested(u))
    /\ Goto(u, "release")
    /\ UNCHANGED <<webVars, runs, edits, crashes, sem, runVars, historyVars>>

-------------------------------------------------------------------------------
(* The web app: preset.go and admin.go of src/internal/handlers.           *)

Edit == edits < MaxEdits /\ edits' = edits + 1

\* parseOverride rejects an expiry that has passed.
SavePreset(u) ==
    /\ Edit /\ u \in accounts
    /\ \E e \in BOOLEAN, o \in Overrides :
          /\ o = "today" => ~dayOver
          /\ UpsertPreset(u, e, o)
          /\ onceBalance' = [onceBalance EXCEPT ![u] = IF o = "once" THEN @ + 1 ELSE @]
    /\ UNCHANGED <<webVars, runs, crashes, dbFailures, sem, pc, runVars, asked, skipBalance>>

CancelRun(u) ==
    /\ Edit /\ u \in accounts
    /\ RequestCancelRun(u)
    /\ asked' = [asked EXCEPT ![u] = TRUE]
    /\ UNCHANGED <<webVars, runs, crashes, dbFailures, sem, pc, runVars, skipBalance, onceBalance>>

QueueSkip(u) ==
    /\ Edit /\ u \in accounts
    /\ RequestSkipNextRun(u)
    /\ skipBalance' = [skipBalance EXCEPT ![u] = IF skipNextRun[u] THEN @ ELSE @ + 1]
    /\ UNCHANGED <<webVars, runs, crashes, dbFailures, sem, pc, runVars, asked, onceBalance>>

UndoSkip(u) ==
    /\ Edit /\ u \in accounts
    /\ ClearSkipNextRun(u)
    /\ skipBalance' = [skipBalance EXCEPT ![u] = IF skipNextRun[u] THEN @ - 1 ELSE @]
    /\ UNCHANGED <<webVars, runs, crashes, dbFailures, sem, pc, runVars, asked, onceBalance>>

DropsSkip(u) == skipBalance' = [skipBalance EXCEPT ![u] = IF skipNextRun[u] THEN @ - 1 ELSE @]

DeletePreset(u) ==
    /\ Edit /\ u \in presets
    /\ DeleteByUserName(u) /\ DropsSkip(u)
    /\ UNCHANGED <<webVars, runs, crashes, dbFailures, sem, pc, runVars, asked, onceBalance>>

\* One transaction: preset, history and credentials go together.
DeleteUser(u) ==
    /\ Edit /\ u \in accounts
    /\ accounts' = accounts \ {u}
    /\ attempts' = [attempts EXCEPT ![u] = {}]
    /\ DeleteByUserName(u) /\ DropsSkip(u)
    /\ UNCHANGED <<dayOver, runs, crashes, dbFailures, sem, pc, runVars, asked, onceBalance>>

Midnight ==
    /\ ~dayOver /\ dayOver' = TRUE
    /\ UNCHANGED <<presetVars, accounts, attempts, bounds, sem, pc, runVars, historyVars>>

-------------------------------------------------------------------------------
Process(u) ==
    \/ BookingOpens(u) \/ Acquire(u) \/ ServeSkip(u) \/ NoSkip(u) \/ AfterSkip(u)
    \/ MarkRunning(u) \/ ResolveCourse(u) \/ NoCredentials(u) \/ ReadCredentials(u)
    \/ LoginFails(u) \/ BadCutoff(u) \/ StartWorkers(u)
    \/ \E c \in Courses : Receive(u, c)
    \/ Decide(u) \/ Report(u) \/ ClearOverride(u) \/ ClearCancel(u) \/ Release(u)

Web(u) ==
    \/ SavePreset(u) \/ CancelRun(u) \/ QueueSkip(u) \/ UndoSkip(u)
    \/ DeletePreset(u) \/ DeleteUser(u)

Next ==
    \/ BeginRun \/ Crash \/ Midnight
    \/ \E u \in Users :
          \/ Process(u) \/ Web(u) \/ Deadline(u) \/ PollCancel(u)
          \/ \E c \in Courses : WorkerEnds(u, c)

Spec == Init /\ [][Next]_vars

\* Goroutines run, database and club answer, and a worker returns: that is what
\* Runner's Termination shows of a run with a timeout, or with a session that
\* settles.  Nobody has to use the web app.
FairSpec ==
    /\ Spec
    /\ \A u \in Users : WF_vars(Process(u))
    /\ \A u \in Users, c \in Courses : WF_vars(WorkerEnds(u, c))

-------------------------------------------------------------------------------
(* Properties.                                                             *)

Labels == {"off", "wait", "queue", "skip", "skipped", "mark", "resolve", "credentials",
           "login", "work", "report", "clearOverride", "clearCancel", "release", "done"}
Stops == {"live", "deadline", "cancelled"}
Statuses == {"success", "failed", "no_slots", "cancelled"}
Outcomes == {"none", "success", "failed", "cancelled"}

\* Types of all variables.
TypeOK ==
    /\ PresetTypeOK
    /\ accounts \subseteq Users /\ dayOver \in BOOLEAN
    /\ attempts \in [Users -> SUBSET (Courses \union {"login"})]
    /\ runs \in 0 .. MaxRuns /\ edits \in 0 .. MaxEdits
    /\ crashes \in 0 .. MaxCrashes /\ dbFailures \in 0 .. MaxDbFailures
    /\ sem \in 0 .. MaxConcurrentPresets
    /\ pc \in [Users -> Labels]
    /\ snapshot \in [Users -> Overrides]
    /\ clearAfter \in [Users -> BOOLEAN] /\ overridden \in [Users -> BOOLEAN]
    /\ ctx \in [Users -> Stops]
    /\ work \in [Users -> [Courses -> Statuses \union {"off", "running"}]]
    /\ received \in [Users -> SUBSET Courses]
    /\ outcome \in [Users -> Outcomes] /\ told \in [Users -> Outcomes]
    /\ asked \in [Users -> BOOLEAN]
    /\ skipBalance \in [Users -> Int] /\ onceBalance \in [Users -> Int]

\* The process was not killed, and its writes have arrived.
Undisturbed == crashes = 0 /\ dbFailures = 0

\* Where a run is on its row: from its MarkRunning to its last clean-up.
Marked == {"resolve", "credentials", "login", "work", "report"}
CleaningUp == {"clearOverride", "clearCancel"}
Holding == Marked \union CleaningUp \union {"skip", "skipped", "mark", "release"}
Reported == CleaningUp \union {"release", "done"}

\* A cancel request does not outlive the run it was made for: a flag left in the
\* row would cancel the run of the next day.  A flag that a killed process left
\* behind is gone after the next run that was not skipped.
NoLeftoverCancel ==
    \A u \in Users : cancelRequested[u] =>
        /\ Undisturbed => pc[u] \in Marked \union CleaningUp
        /\ dbFailures = 0 /\ outcome[u] # "none" => pc[u] \notin {"release", "done"}

\* "running" in the row means that a run is under way: the settings page is
\* locked, and cancel requests are accepted, as long as it says so.  What a
\* killed process left behind is put right by the next run that was not skipped.
NoRunLeftRunning ==
    \A u \in Users : lastRunStatus[u] = "running" =>
        /\ Undisturbed => pc[u] \in Marked
        /\ dbFailures = 0 /\ outcome[u] # "none" => pc[u] \notin Reported

\* A run is cancelled only by a request that was made while it was under way.
CancelIsAskedFor ==
    [][\A u \in Users : ctx[u] = "live" /\ ctx'[u] = "cancelled" => asked[u]]_vars

CancelBelongsToRun ==
    [][\A u \in Users : ctx[u] = "live" /\ ctx'[u] = "cancelled" /\ Undisturbed
          => asked[u]]_vars

\* A queued skip skips one run, also when the process is killed in between, and an
\* override saved for the next run only is used by one run only.
OneShotsServeOnce ==
    \A u \in Users : skipBalance[u] >= 0 /\ (Undisturbed => onceBalance[u] >= 0)

\* A booking is never hidden: the user is told of a success exactly when a
\* worker booked, even if the run was cancelled meanwhile; the row says so, and
\* every course the run tried has its row in the history.
BookingsAreReported ==
    \A u \in Users : pc[u] \in Reported \union {"report"} =>
        /\ told[u] = "success" <=> Booked(u) # {}
        /\ Undisturbed /\ Booked(u) # {} /\ u \in presets /\ pc[u] \in Reported
               => lastRunStatus[u] \in {"success", "idle"}
        /\ Undisturbed /\ u \in accounts => Started(u) \subseteq attempts[u]

\* At most MaxConcurrentPresets presets are processed at a time, and every slot
\* of the semaphore that is taken has its holder.
SemaphoreBound ==
    /\ sem = Cardinality({u \in Users : pc[u] \in Holding})
    /\ sem <= MaxConcurrentPresets

\* Every enabled preset gets its run, and the run comes to an end.
EveryPresetFinishes ==
    \A u \in Users : pc[u] = "wait" ~> pc[u] \in {"off", "done"}

(* What the documentation says and the code does not do.                   *)

\* preset.go:193, "Called by the scheduler after a "next run only" run completes,
\* or when an override has expired by the time the run starts": no other
\* override is ever cleared by the scheduler.
OnlySpentOverridesCleared ==
    [][\A u \in Users :
          override[u] # "none" /\ override'[u] = "none" /\ edits' = edits
             => ResolveOverride(override[u], dayOver) \in {"once", "expired"}]_vars
===============================================================================

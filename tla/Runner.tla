-------------------------------- MODULE Runner --------------------------------
(***************************************************************************)
(* src/internal/runner/runner.go: one booking run of one user on one       *)
(* course.  Run lists the slots before the cutoff and then makes passes    *)
(* over them, earliest first: check a slot, wait, book it.  Between two    *)
(* passes it sleeps for a time that depends on how the last pass ended.    *)
(*                                                                         *)
(* A call to the club is one step: the club answers, and the run goes on   *)
(* with the answer.  The club is external; its answers are arbitrary,      *)
(* except that it rejects a token it no longer accepts.  The context may   *)
(* be done (deadline or cancellation) between any two steps, in particular *)
(* between a look at it and the call that follows.                         *)
(*                                                                         *)
(* Texts are abstracted to the class the code reads off them: a reason is  *)
(* "reserved", "accountWide" (window closed), "rapid" or neither.          *)
(***************************************************************************)
EXTENDS Integers, FiniteSets

CONSTANTS
    Modes,                \* records [repeat, refresh]: Timeout > 0, RefreshToken set
    MaxSlots,             \* bound: slots before the cutoff
    RetryInterval, CheckToBookDelay, AccountWideCooldown,
    RapidBackoffInitial, RapidBackoffMax,      \* all in seconds
    MaxRapids             \* where the count of Rapid passes saturates

ASSUME ModesAssumption == Modes \subseteq [repeat : BOOLEAN, refresh : BOOLEAN]
ASSUME MaxSlotsAssumption == MaxSlots \in Nat
ASSUME WaitsAssumption ==
    /\ RetryInterval \in Nat /\ CheckToBookDelay \in Nat
    /\ AccountWideCooldown \in Nat
    /\ RapidBackoffInitial \in Nat /\ RapidBackoffMax \in Nat
ASSUME BoundsAssumption == MaxRapids \in Nat \ {0}

VARIABLES
    mode,             \* the part of Config that selects behaviour
    ctx,              \* "live", "deadline" or "cancelled": ctx.Err()
    tokenValid,       \* does the club still accept cfg.Token?
    pc,               \* where the run is
    slots,            \* len(slotsBeforeCutoff)
    i,                \* index of the slot under way
    allSeenReserved,  \* runOnePass's local of that name
    waitKind,         \* how the last pass ended (passWait)
    rapidWait,        \* the next Rapid wait
    wait,             \* the sleep under way
    result,           \* the Result, status "running" until Run returns
    \* history: what the properties compare the run with
    held,             \* slots the club has booked for the user in this run
    confirmed,        \* those of them it told the run about
    said,             \* said[k]: how the current pass left slot k
    blocked,          \* was a closed-window or Rapid answer heard in this pass?
    owed,             \* seconds the run must still sleep before its next call
    rapids,           \* consecutive Rapid passes, up to MaxRapids
    late              \* calls answered after the context was done

clubVars    == <<tokenValid, held>>
passVars    == <<i, allSeenReserved, said, blocked>>
waitVars    == <<waitKind, rapidWait, wait, rapids>>
toldVars    == <<confirmed, owed>>
vars == <<mode, ctx, clubVars, pc, slots, passVars, waitVars, result,
          toldVars, late>>

Index == 1 .. MaxSlots
NoAnswer == [k \in Index |-> "none"]
Calling == {"getSlots", "getSlotsAgain", "check", "book", "blindBook",
            "slotsLogin", "passLogin"}

larger(a, b)  == IF a > b THEN a ELSE b
smaller(a, b) == IF a < b THEN a ELSE b

-------------------------------------------------------------------------------
(* Waits.                                                                  *)

RetryWait(kind, rapid) ==
    CASE kind = "rapid"       -> larger(RetryInterval, rapid)
      [] kind = "accountWide" -> larger(RetryInterval, AccountWideCooldown)
      [] OTHER                -> RetryInterval

\* Mutant of NextRapidBackoff: grows by a step instead of doubling.
LinearBackoff(cur) == smaller(cur + RapidBackoffInitial, RapidBackoffMax)

NextRapidBackoff(cur) ==
    IF RapidBackoffMax > 0 /\ cur * 2 > RapidBackoffMax
    THEN RapidBackoffMax ELSE cur * 2

\* The least time without a call that such an answer demands: the configured
\* cooldown, and of the Rapid waits the first one, whatever passes came before.
LeastWait(kind) ==
    IF kind = "accountWide" THEN AccountWideCooldown
    ELSE IF RapidBackoffMax > 0
         THEN smaller(RapidBackoffInitial, RapidBackoffMax)
         ELSE RapidBackoffInitial

\* sleepCtx: a wait of zero returns at once, without a look at the context.
Sleep(kind, d) ==
    /\ waitKind' = kind
    /\ wait' = d
    /\ pc' = IF d > 0 THEN "sleep" ELSE "pass"

-------------------------------------------------------------------------------
(* Ways out of a pass and of the run.                                      *)

Finish(status, why) ==
    /\ pc' = "done"
    /\ result' = [status |-> status, why |-> why]

StatusForDeadline == IF ctx = "deadline" THEN "failed" ELSE "cancelled"

\* Mutant of ResultForDeadline: the error of an interrupted wait is dropped.
ErrorDropped ==
    /\ ctx # "live" /\ pc' = "pass"
    /\ UNCHANGED <<result, waitVars>>

ResultForDeadline ==
    /\ ctx # "live"
    /\ Finish(StatusForDeadline, ctx)
    /\ UNCHANGED waitVars

\* Mutant of EndPass: the next pass begins at once, the wait is only computed.
EndPassAwake(kind) ==
    IF ~mode.repeat
    THEN Finish("failed", "noBooking") /\ UNCHANGED waitVars
    ELSE pc' = "pass" /\ UNCHANGED <<result, waitVars>>

\* A pass is over without a booking: give up, or sleep before the next one.
EndPass(kind) ==
    IF ~mode.repeat
    THEN Finish("failed", "noBooking") /\ UNCHANGED waitVars
    ELSE /\ Sleep(kind, RetryWait(kind, rapidWait))
         /\ IF kind = "rapid"
            THEN /\ rapidWait' = NextRapidBackoff(rapidWait)
                 /\ rapids' = smaller(rapids + 1, MaxRapids)
            ELSE rapidWait' = RapidBackoffInitial /\ rapids' = 0
         /\ UNCHANGED result

NextSlot(answer) ==
    /\ said' = [said EXCEPT ![i] = answer]
    /\ i' = i + 1
    /\ pc' = "slot"
    /\ UNCHANGED <<result, waitVars>>

Goto(label) == pc' = label /\ UNCHANGED <<result, waitVars>>

Answered == late' = IF ctx = "live" THEN late ELSE late + 1

-------------------------------------------------------------------------------
Init ==
    /\ mode \in Modes
    /\ ctx = "live"
    /\ tokenValid = TRUE
    /\ pc = "getSlots" /\ slots = 0
    /\ i = 1 /\ allSeenReserved = TRUE
    /\ waitKind = "retryOnly" /\ rapidWait = RapidBackoffInitial /\ wait = 0
    /\ result = [status |-> "running", why |-> "none"]
    /\ held = {} /\ confirmed = {}
    /\ said = NoAnswer /\ blocked = FALSE
    /\ rapids = 0 /\ owed = 0 /\ late = 0

(* GetTeeTimeSlots, called a second time after a refresh.                  *)

SlotsListed ==
    /\ pc \in {"getSlots", "getSlotsAgain"} /\ tokenValid
    /\ slots' \in 0 .. MaxSlots
    /\ \/ slots' = 0 /\ Finish("no_slots", "none") /\ UNCHANGED waitVars
       \/ slots' > 0 /\ Goto("pass")
    /\ Answered
    /\ UNCHANGED <<mode, ctx, clubVars, passVars, toldVars>>

SlotsFailed ==
    /\ pc \in {"getSlots", "getSlotsAgain"}
    /\ Finish("failed", "error")
    /\ Answered
    /\ UNCHANGED <<mode, ctx, clubVars, slots, passVars, waitVars, toldVars>>

SlotsInvalidToken ==
    /\ pc \in {"getSlots", "getSlotsAgain"} /\ ~tokenValid
    /\ \/ pc = "getSlots" /\ Goto("slotsRefresh")
       \/ pc = "getSlotsAgain" /\ Finish("failed", "session") /\ UNCHANGED waitVars
    /\ Answered
    /\ UNCHANGED <<mode, ctx, clubVars, slots, passVars, toldVars>>

(* The loop of Run: the context is looked at here only in repeat mode.     *)

\* Mutant of FreshPass: a new pass resumes at the slot the last one stopped at.
ResumedPass ==
    /\ i' = i /\ allSeenReserved' = TRUE
    /\ said' = NoAnswer /\ blocked' = FALSE

\* The locals of a new runOnePass.
FreshPass ==
    /\ i' = 1 /\ allSeenReserved' = TRUE
    /\ said' = NoAnswer /\ blocked' = FALSE

StartPass ==
    /\ pc = "pass"
    /\ ~mode.repeat \/ ctx = "live"
    /\ FreshPass
    /\ Goto("slot")
    /\ UNCHANGED <<mode, ctx, clubVars, slots, toldVars, late>>

StopBeforePass ==
    /\ pc = "pass" /\ mode.repeat
    /\ ResultForDeadline
    /\ UNCHANGED <<mode, ctx, clubVars, slots, passVars, toldVars, late>>

(* runOnePass: the head of its loop, and its normal end.                   *)

\* Mutant of StartSlot: one slot past the last.
StartSlotPastEnd ==
    /\ pc = "slot" /\ i <= slots + 1 /\ ctx = "live"
    /\ Goto("check")
    /\ UNCHANGED <<mode, ctx, clubVars, slots, passVars, toldVars, late>>

\* Mutant of StartSlot: no look at the context before a slot.
StartSlotBlindly ==
    /\ pc = "slot" /\ i <= slots
    /\ Goto("check")
    /\ UNCHANGED <<mode, ctx, clubVars, slots, passVars, toldVars, late>>

StartSlot ==
    /\ pc = "slot" /\ i <= slots /\ ctx = "live"
    /\ Goto("check")
    /\ UNCHANGED <<mode, ctx, clubVars, slots, passVars, toldVars, late>>

StopBeforeSlot ==
    /\ pc = "slot" /\ i <= slots
    /\ ResultForDeadline
    /\ UNCHANGED <<mode, ctx, clubVars, slots, passVars, toldVars, late>>

PassOver ==
    /\ pc = "slot" /\ i > slots
    /\ \/ allSeenReserved /\ Finish("failed", "allReserved") /\ UNCHANGED waitVars
       \/ ~allSeenReserved /\ EndPass("retryOnly")
    /\ UNCHANGED <<mode, ctx, clubVars, slots, passVars, toldVars, late>>

(* CheckTeeTimeStatus, one action per class of answer.                     *)

CheckFree ==
    /\ pc = "check" /\ tokenValid
    /\ IF CheckToBookDelay > 0
       THEN Goto("delay") /\ UNCHANGED allSeenReserved
       ELSE Goto("book") /\ allSeenReserved' = FALSE
    /\ Answered
    /\ UNCHANGED <<mode, ctx, clubVars, slots, i, said, blocked, toldVars>>

\* Status false for a reason the code does not know: it books all the same.
CheckUnavailable ==
    /\ pc = "check" /\ tokenValid
    /\ Goto("book") /\ allSeenReserved' = FALSE
    /\ Answered
    /\ UNCHANGED <<mode, ctx, clubVars, slots, i, said, blocked, toldVars>>

CheckReserved ==
    /\ pc = "check" /\ tokenValid
    /\ NextSlot("reserved")
    /\ Answered
    /\ UNCHANGED <<mode, ctx, clubVars, slots, allSeenReserved, blocked, toldVars>>

CheckBlocked ==
    /\ pc = "check" /\ tokenValid
    /\ \E kind \in {"accountWide", "rapid"} : EndPass(kind) /\ owed' = LeastWait(kind)
    /\ blocked' = TRUE
    /\ Answered
    /\ UNCHANGED <<mode, ctx, clubVars, slots, i, allSeenReserved, said, confirmed>>

CheckInvalidToken ==
    /\ pc = "check" /\ ~tokenValid
    /\ Goto("passRefresh")
    /\ Answered
    /\ UNCHANGED <<mode, ctx, clubVars, slots, passVars, toldVars>>

\* Mutant of CheckFails: forgets that the slot was not seen reserved.
CheckFailsUnnoticed ==
    /\ pc = "check"
    /\ Goto("blindBook")
    /\ Answered
    /\ UNCHANGED <<mode, ctx, clubVars, slots, passVars, toldVars>>

\* No answer to the check: the slot is booked without one, and at once.
CheckFails ==
    /\ pc = "check"
    /\ Goto("blindBook") /\ allSeenReserved' = FALSE
    /\ Answered
    /\ UNCHANGED <<mode, ctx, clubVars, slots, i, said, blocked, toldVars>>

DelayOver ==
    /\ pc = "delay"
    /\ Goto("book") /\ allSeenReserved' = FALSE
    /\ UNCHANGED <<mode, ctx, clubVars, slots, i, said, blocked, toldVars, late>>

StopInDelay ==
    /\ pc = "delay"
    /\ ResultForDeadline
    /\ UNCHANGED <<mode, ctx, clubVars, slots, passVars, toldVars, late>>

(* tryBookSlot and what runOnePass does with its answer.                   *)

\* Mutant of BookConfirmed: the booking is noted, the pass goes on.
BookConfirmedGoesOn ==
    /\ pc \in {"book", "blindBook"} /\ tokenValid
    /\ held' = held \union {i} /\ confirmed' = confirmed \union {i}
    /\ NextSlot("refused")
    /\ Answered
    /\ UNCHANGED <<mode, ctx, tokenValid, owed, slots, allSeenReserved, blocked>>

BookConfirmed ==
    /\ pc \in {"book", "blindBook"} /\ tokenValid
    /\ held' = held \union {i} /\ confirmed' = confirmed \union {i}
    /\ Finish("success", "none")
    /\ Answered
    /\ UNCHANGED <<mode, ctx, tokenValid, owed, slots, passVars, waitVars>>

BookRefused ==
    /\ pc \in {"book", "blindBook"}
    /\ NextSlot("refused")
    /\ Answered
    /\ UNCHANGED <<mode, ctx, clubVars, slots, allSeenReserved, blocked, toldVars>>

\* The club books the slot but its answer never arrives: an error to the run.
BookAnswerLost ==
    /\ pc \in {"book", "blindBook"} /\ tokenValid
    /\ held' = held \union {i}
    /\ NextSlot("lost")
    /\ Answered
    /\ UNCHANGED <<mode, ctx, tokenValid, slots, allSeenReserved, blocked, toldVars>>

BookBlocked ==
    /\ pc = "book" /\ tokenValid
    /\ \E kind \in {"accountWide", "rapid"} : EndPass(kind) /\ owed' = LeastWait(kind)
    /\ blocked' = TRUE
    /\ Answered
    /\ UNCHANGED <<mode, ctx, clubVars, slots, i, allSeenReserved, said, confirmed>>

\* After a failed check the same answer is only logged.
BlindBookBlocked ==
    /\ pc = "blindBook" /\ tokenValid
    /\ NextSlot("refused")
    /\ blocked' = TRUE
    /\ Answered
    /\ UNCHANGED <<mode, ctx, clubVars, slots, allSeenReserved, toldVars>>

BookInvalidToken ==
    /\ pc \in {"book", "blindBook"} /\ ~tokenValid
    /\ Goto("passRefresh")
    /\ Answered
    /\ UNCHANGED <<mode, ctx, clubVars, slots, passVars, toldVars>>

(* tryRefreshToken, and Run's two uses of it.                              *)

RefreshGivenUp ==
    /\ pc \in {"slotsRefresh", "passRefresh"}
    /\ ~mode.refresh \/ ctx # "live"
    /\ Finish("failed", "session")
    /\ UNCHANGED <<mode, ctx, clubVars, slots, passVars, waitVars, toldVars, late>>

RefreshBegins ==
    /\ pc \in {"slotsRefresh", "passRefresh"}
    /\ mode.refresh /\ ctx = "live"
    /\ Goto(IF pc = "slotsRefresh" THEN "slotsLogin" ELSE "passLogin")
    /\ UNCHANGED <<mode, ctx, clubVars, slots, passVars, toldVars, late>>

LoginRefused ==
    /\ pc \in {"slotsLogin", "passLogin"}
    /\ Finish("failed", "session")
    /\ Answered
    /\ UNCHANGED <<mode, ctx, clubVars, slots, passVars, waitVars, toldVars>>

LoginForSlots ==
    /\ pc = "slotsLogin"
    /\ tokenValid' = TRUE
    /\ Goto("getSlotsAgain")
    /\ Answered
    /\ UNCHANGED <<mode, ctx, held, slots, passVars, toldVars>>

\* The Rapid backoff is left as it stands: `continue` jumps over its reset.
LoginForPass ==
    /\ pc = "passLogin"
    /\ tokenValid' = TRUE
    /\ Sleep("retryOnly", RetryWait("retryOnly", 0))
    /\ Answered
    /\ UNCHANGED <<mode, ctx, held, slots, passVars, rapidWait, rapids, result, toldVars>>

\* The sleep has lasted its full time; only this pays off what is owed.
Wake ==
    /\ pc = "sleep"
    /\ Goto("pass")
    /\ owed' = larger(owed - wait, 0)
    /\ UNCHANGED <<mode, ctx, clubVars, slots, passVars, confirmed, late>>

StopInSleep ==
    /\ pc = "sleep"
    /\ ResultForDeadline
    /\ UNCHANGED <<mode, ctx, clubVars, slots, passVars, toldVars, late>>

(* The environment: the caller's context and the club's session.           *)

Deadline ==
    /\ pc # "done" /\ ctx = "live" /\ mode.repeat
    /\ ctx' = "deadline"
    /\ UNCHANGED <<mode, clubVars, pc, slots, passVars, waitVars, result,
                   toldVars, late>>

Cancel ==
    /\ pc # "done" /\ ctx = "live"
    /\ ctx' = "cancelled"
    /\ UNCHANGED <<mode, clubVars, pc, slots, passVars, waitVars, result,
                   toldVars, late>>

Expire ==
    /\ pc # "done" /\ tokenValid
    /\ tokenValid' = FALSE
    /\ UNCHANGED <<mode, ctx, held, pc, slots, passVars, waitVars, result,
                   toldVars, late>>

-------------------------------------------------------------------------------
Check == \/ CheckFree \/ CheckUnavailable \/ CheckReserved
         \/ CheckBlocked \/ CheckInvalidToken \/ CheckFails

Book  == \/ BookConfirmed \/ BookRefused \/ BookAnswerLost
         \/ BookBlocked \/ BlindBookBlocked \/ BookInvalidToken

Refresh == RefreshGivenUp \/ RefreshBegins \/ LoginRefused \/ LoginForSlots \/ LoginForPass

Step == \/ SlotsListed \/ SlotsFailed \/ SlotsInvalidToken
        \/ StartPass \/ StopBeforePass \/ StartSlot \/ StopBeforeSlot \/ PassOver
        \/ Check \/ DelayOver \/ StopInDelay \/ Book
        \/ Refresh \/ Wake \/ StopInSleep

Returned == pc = "done" /\ UNCHANGED vars

Next == Step \/ Deadline \/ Cancel \/ Expire \/ Returned

Spec == Init /\ [][Next]_vars

\* The goroutine runs, the HTTP client's timeout ends every call, every sleep
\* ends, and a run with a timeout has a context that reaches its deadline.
\* Nobody has to cancel, and the club does not have to drop the session; it may
\* also drop it for ever.
FairSpec == Spec /\ WF_vars(Step) /\ WF_vars(Deadline)

-------------------------------------------------------------------------------
(* Properties.                                                             *)

Kinds == {"retryOnly", "accountWide", "rapid"}
Answers == {"none", "reserved", "refused", "lost"}

ContextOK ==
    /\ mode \in Modes /\ ctx \in {"live", "deadline", "cancelled"}
    /\ tokenValid \in BOOLEAN

ControlOK ==
    /\ pc \in Calling \union {"slotsRefresh", "passRefresh", "pass", "slot",
                              "delay", "sleep", "done"}
    /\ slots \in 0 .. MaxSlots /\ i \in 1 .. MaxSlots + 1
    /\ allSeenReserved \in BOOLEAN

ResultOK ==
    result \in [status : {"running", "success", "failed", "no_slots", "cancelled"},
                why : {"none", "error", "session", "noBooking", "allReserved",
                       "deadline", "cancelled"}]

WaitsOK ==
    /\ waitKind \in Kinds /\ rapidWait \in Nat /\ wait \in Nat
    /\ rapids \in 0 .. MaxRapids

HistoryOK ==
    /\ held \subseteq Index /\ confirmed \subseteq Index
    /\ said \in [Index -> Answers] /\ blocked \in BOOLEAN
    /\ owed \in Nat /\ late \in Nat

\* Types of all variables.
TypeOK == ContextOK /\ ControlOK /\ ResultOK /\ WaitsOK /\ HistoryOK

\* The run ends at the first booking the club confirms to it: it reports
\* success exactly when there is such a booking, and never makes a second.
StopsAtFirstBooking ==
    /\ result.status = "success" <=> confirmed # {}
    /\ \A s, t \in confirmed : s = t
    /\ confirmed \subseteq held

\* Slots are taken in order: when the club confirms slot k, every earlier slot
\* of that same pass was found reserved or its booking failed.
EarlierSlotsTriedFirst ==
    \A k \in confirmed : \A j \in Index : j < k => said[j] # "none"

\* "All tee times already reserved" ends the run for good, so it must not be
\* said unless the check of every slot, in one pass, answered "reserved".
AllReservedIsTrue ==
    result.why = "allReserved" => \A k \in 1 .. slots : said[k] = "reserved"

\* Once the check or the booking of a checked slot has said that the window is
\* closed or the account is locked, the run makes no call before it has slept
\* through the wait that this answer demands: `owed` is set by the answer and
\* only a sleep that ran to its end (Wake) takes anything off it.
NoCallWhileBlocked == owed > 0 => pc \notin Calling \union {"pass", "slot", "delay"}

\* The Rapid wait after n consecutive Rapid passes is Initial * 2^(n-1), capped,
\* however many session refreshes came in between.
RapidWaitFollowsSchedule ==
    pc = "sleep" /\ waitKind = "rapid" =>
        wait = larger(RetryInterval,
                      smaller(RapidBackoffInitial * 2 ^ (rapids - 1), RapidBackoffMax))

\* A run whose context is done makes at most two more calls to the club.
FewCallsAfterStop == late <= 2

\* The status blames the user or the deadline only if the context was done so.
StopReasonIsTrue ==
    /\ result.status = "cancelled" => ctx = "cancelled"
    /\ result.why = "deadline" => ctx = "deadline" /\ result.status = "failed"

\* The result says what really stopped the run.
ResultIsTrue == AllReservedIsTrue /\ StopReasonIsTrue

\* The club drops the session only finitely often, or at last leaves it dropped.
SessionSettles == <>[]tokenValid \/ <>[]~tokenValid

\* A run with a timeout returns however often its session is dropped, because
\* of its deadline.  One without has no exit of its own from CODE103 after
\* CODE103, each with a refresh that works: it returns if the session settles.
Termination == mode.repeat \/ SessionSettles => <>(pc = "done")

\* Runner implements BookingRun.
Abstract == INSTANCE BookingRun
            WITH Slots <- Index, outcome <- result.status, booking <- confirmed,
                 stop <- ctx

ImplementsBookingRun == Abstract!AbstractSpec

(* What the documentation says and the code does not do.                   *)

\* README.md:70, "Check or book says ... That pass ends immediately (no more
\* slots, no book)": no call follows such an answer in its pass, whatever the
\* check before it said.
PassEndsWhenBlocked == blocked => pc \notin Calling
===============================================================================

------------------------------ MODULE SharedLogin ------------------------------
(***************************************************************************)
(* The club sessions of one account during a run: processPreset of         *)
(* src/cmd/scheduler/main.go logs in once and starts one worker per course *)
(* with that token; a worker whose token the club rejects (CODE103) logs   *)
(* in anew, through the RefreshToken callback and its mutex, and keeps the *)
(* new token to itself.  Meanwhile the user may open a page of the web app *)
(* that needs the club: TokenRefresh then logs in for that one request.    *)
(*                                                                         *)
(* Runner models one worker in full, for one session that may expire; here *)
(* a worker is what tokens depend on: when it calls the club, when it      *)
(* looks at the context, and how it refreshes.  The timeout is positive,   *)
(* so the context has a deadline.                                          *)
(*                                                                         *)
(* The club is external.  Whether a login ends the account's other         *)
(* sessions is not known from the code; both kinds of club are modelled.   *)
(***************************************************************************)
EXTENDS Integers, FiniteSets

CONSTANT Courses         \* one worker each

VARIABLES
    single,      \* does a login at the club end the account's other sessions?
    live,        \* the sessions the club accepts
    session,     \* session[c]: the session whose token is in the worker's cfg
    loginMu,     \* the workers that hold the mutex
    ctx,         \* runCtx.Err()
    pc,          \* where each worker is
    listing,     \* has the worker no slots yet?
    status,      \* the status it ended with; "session" is a failure, "session expired"
    \* history
    losses,      \* how often the club dropped the worker's session, up to 2
    refused      \* was a login of the worker refused?

clubVars == <<single, live, losses>>
workVars == <<listing, status>>
vars == <<clubVars, session, loginMu, ctx, pc, workVars, refused>>

\* The login of processPreset gives every worker the same session; a worker's
\* own login gives it one that no other worker uses.
Initial  == "initial"
Sessions == Courses \union {Initial}

ASSUME CoursesAssumption == Initial \notin Courses

Accepted(c) == session[c] \in live
atMost2(n)  == IF n > 2 THEN 2 ELSE n

Goto(c, label) == pc' = [pc EXCEPT ![c] = label]

Finish(c, s) ==
    /\ Goto(c, "done")
    /\ status' = [status EXCEPT ![c] = s]
    /\ UNCHANGED listing

GoOn(c, label) == Goto(c, label) /\ UNCHANGED workVars

\* The club accepts the sessions s from now on.
Keep(s) ==
    /\ live' = s
    /\ losses' = [c \in Courses |->
                     IF session[c] \in live \ s THEN atMost2(losses[c] + 1) ELSE losses[c]]
    /\ UNCHANGED single

\* No session changes hands.
NoLogin == UNCHANGED <<clubVars, session, loginMu, ctx, refused>>

-------------------------------------------------------------------------------
Init ==
    /\ single \in BOOLEAN
    /\ live = {Initial}
    /\ session = [c \in Courses |-> Initial]
    /\ loginMu = {}
    /\ ctx = "live"
    /\ pc = [c \in Courses |-> "list"]
    /\ listing = [c \in Courses |-> TRUE]
    /\ status = [c \in Courses |-> "running"]
    /\ losses = [c \in Courses |-> 0]
    /\ refused = [c \in Courses |-> FALSE]

(* GetTeeTimeSlots: once, and a second time after a refresh.               *)

SlotsListed(c) ==
    /\ pc[c] \in {"list", "listAgain"} /\ Accepted(c)
    /\ \/ Finish(c, "no_slots")
       \/ Goto(c, "pass") /\ listing' = [listing EXCEPT ![c] = FALSE] /\ UNCHANGED status
    /\ NoLogin

SlotsFailed(c) ==
    /\ pc[c] \in {"list", "listAgain"}
    /\ Finish(c, "failed")
    /\ NoLogin

\* Mutant of SlotsRejected: the first rejection is final.
SlotsRejectedAtOnce(c) ==
    /\ pc[c] \in {"list", "listAgain"} /\ ~Accepted(c)
    /\ Finish(c, "session")
    /\ NoLogin

SlotsRejected(c) ==
    /\ pc[c] \in {"list", "listAgain"} /\ ~Accepted(c)
    /\ IF pc[c] = "list" THEN GoOn(c, "refresh") ELSE Finish(c, "session")
    /\ NoLogin

(* The passes.  The context is looked at before a pass, before a slot, in  *)
(* the wait between check and book, and in every sleep.                    *)

StoppedStatus == IF ctx = "cancelled" THEN "cancelled" ELSE "failed"

Stop(c) ==
    /\ pc[c] \in {"pass", "slot", "delay", "sleep"} /\ ctx # "live"
    /\ Finish(c, StoppedStatus)
    /\ NoLogin

StartPass(c) ==
    /\ pc[c] = "pass" /\ ctx = "live"
    /\ GoOn(c, "slot")
    /\ NoLogin

StartSlot(c) ==
    /\ pc[c] = "slot" /\ ctx = "live"
    /\ GoOn(c, "check")
    /\ NoLogin

\* The last slot is done: sleep, or give up because all were reserved.
PassOver(c) ==
    /\ pc[c] = "slot"
    /\ GoOn(c, "sleep") \/ Finish(c, "failed")
    /\ NoLogin

\* Free: book after a delay.  Refused for an unknown reason: book at once.
\* Reserved: the next slot.  Blocked: the pass is over.
CheckAnswered(c) ==
    /\ pc[c] = "check" /\ Accepted(c)
    /\ \E next \in {"delay", "book", "slot", "sleep"} : GoOn(c, next)
    /\ NoLogin

CheckFails(c) ==
    /\ pc[c] = "check"
    /\ GoOn(c, "book")
    /\ NoLogin

BookConfirmed(c) ==
    /\ pc[c] = "book" /\ Accepted(c)
    /\ Finish(c, "success")
    /\ NoLogin

\* Refused, unanswered or blocked.  (A block after a failed check does not end the
\* pass, see Runner; for the sessions both ways out are the same.)
BookRefused(c) ==
    /\ pc[c] = "book"
    /\ \E next \in {"slot", "sleep"} : GoOn(c, next)
    /\ NoLogin

Rejected(c) ==
    /\ pc[c] \in {"check", "book"} /\ ~Accepted(c)
    /\ GoOn(c, "refresh")
    /\ NoLogin

WaitOver(c) ==
    /\ pc[c] \in {"delay", "sleep"}
    /\ GoOn(c, IF pc[c] = "delay" THEN "book" ELSE "pass")
    /\ NoLogin

(* tryRefreshToken and the RefreshToken callback.                          *)

Refresh(c) ==
    /\ pc[c] = "refresh" /\ ctx = "live"
    /\ GoOn(c, "lock")
    /\ NoLogin

RefreshGivenUp(c) ==
    /\ pc[c] = "refresh" /\ ctx # "live"
    /\ Finish(c, "session")
    /\ NoLogin

\* Mutant of Lock: there is no mutex.
LockNothing(c) ==
    /\ pc[c] = "lock"
    /\ loginMu' = loginMu \union {c}
    /\ GoOn(c, "login")
    /\ UNCHANGED <<clubVars, session, ctx, refused>>

\* Waiting for the mutex ends with nothing but the mutex: the context may be
\* done by then, and the worker logs in all the same.
Lock(c) ==
    /\ pc[c] = "lock" /\ loginMu = {}
    /\ loginMu' = {c}
    /\ GoOn(c, "login")
    /\ UNCHANGED <<clubVars, session, ctx, refused>>

\* Mutant of LoggedIn: an empty token is taken for a token.
LoggedInEmpty(c) ==
    /\ pc[c] = "login"
    /\ session' = [session EXCEPT ![c] = ""]
    /\ loginMu' = loginMu \ {c}
    /\ GoOn(c, IF listing[c] THEN "listAgain" ELSE "sleep")
    /\ UNCHANGED <<clubVars, ctx, refused>>

LoggedIn(c) ==
    /\ pc[c] = "login"
    /\ Keep(IF single THEN {c} ELSE live \union {c})
    /\ session' = [session EXCEPT ![c] = c]
    /\ loginMu' = loginMu \ {c}
    /\ GoOn(c, IF listing[c] THEN "listAgain" ELSE "sleep")
    /\ UNCHANGED <<ctx, refused>>

\* Mutant of LoginRefused: returns without the unlock.
LoginRefusedLocked(c) ==
    /\ pc[c] = "login"
    /\ refused' = [refused EXCEPT ![c] = TRUE]
    /\ Finish(c, "session")
    /\ UNCHANGED <<clubVars, session, loginMu, ctx>>

\* No token comes back.  The club may have logged the account in all the same.
LoginRefused(c) ==
    /\ pc[c] = "login"
    /\ \E kept \in {live, {}} : (kept = live \/ single) /\ Keep(kept)
    /\ refused' = [refused EXCEPT ![c] = TRUE]
    /\ loginMu' = loginMu \ {c}
    /\ Finish(c, "session")
    /\ UNCHANGED <<session, ctx>>

\* A worker panics, wherever it is; the deferred unlock runs, and recover() turns
\* the panic into a failure.
Panic(c) ==
    /\ pc[c] # "done"
    /\ loginMu' = loginMu \ {c}
    /\ Finish(c, "failed")
    /\ UNCHANGED <<clubVars, session, ctx, refused>>

(* The environment.                                                        *)

Deadline ==
    /\ ctx = "live" /\ ctx' = "deadline"
    /\ UNCHANGED <<clubVars, session, loginMu, pc, workVars, refused>>

Cancel ==
    /\ ctx = "live" /\ ctx' = "cancelled"
    /\ UNCHANGED <<clubVars, session, loginMu, pc, workVars, refused>>

Expire ==
    /\ \E s \in live : Keep(live \ {s})
    /\ UNCHANGED <<session, loginMu, ctx, pc, workVars, refused>>

\* A request of the web app; the session it gets is its own, and its call to the
\* club that follows touches none of the run's.
TokenRefresh ==
    /\ Keep(IF single THEN {} ELSE live)
    /\ UNCHANGED <<session, loginMu, ctx, pc, workVars, refused>>

-------------------------------------------------------------------------------
Step(c) ==
    \/ SlotsListed(c) \/ SlotsFailed(c) \/ SlotsRejected(c)
    \/ Stop(c) \/ StartPass(c) \/ StartSlot(c) \/ PassOver(c)
    \/ CheckAnswered(c) \/ CheckFails(c)
    \/ BookConfirmed(c) \/ BookRefused(c) \/ Rejected(c) \/ WaitOver(c)
    \/ Refresh(c) \/ RefreshGivenUp(c) \/ Lock(c) \/ LoggedIn(c) \/ LoginRefused(c)

Next ==
    \/ Deadline \/ Cancel \/ Expire \/ TokenRefresh
    \/ \E c \in Courses : Step(c) \/ Panic(c)

Spec == Init /\ [][Next]_vars

\* The goroutines run, every call to the club ends, and the timeout is positive.
\* Nothing is assumed of the order in which waiting workers get the mutex.
FairSpec == Spec /\ WF_vars(Deadline) /\ \A c \in Courses : WF_vars(Step(c))

-------------------------------------------------------------------------------
(* Properties.                                                             *)

Labels == {"list", "listAgain", "pass", "slot", "check", "delay", "book",
           "sleep", "refresh", "lock", "login", "done"}
Statuses == {"running", "success", "failed", "session", "no_slots", "cancelled"}

\* Types of all variables.
TypeOK ==
    /\ single \in BOOLEAN /\ live \subseteq Sessions
    /\ session \in [Courses -> Sessions] /\ loginMu \subseteq Courses
    /\ ctx \in {"live", "deadline", "cancelled"}
    /\ pc \in [Courses -> Labels] /\ listing \in [Courses -> BOOLEAN]
    /\ status \in [Courses -> Statuses]
    /\ losses \in [Courses -> 0 .. 2]
    /\ refused \in [Courses -> BOOLEAN]

\* Workers log in one at a time, and the mutex is held by the one that does and
\* by no one else: no way out of a refresh, a panic included, leaves it locked.
LoginsOneAtATime ==
    /\ \A c, d \in Courses : pc[c] = "login" /\ pc[d] = "login" => c = d
    /\ loginMu = {c \in Courses : pc[c] = "login"}

\* One lost session does not end a run.  A worker that gives up with "session
\* expired" while its context is live was refused a login, or it lost a second
\* session before it had its list of slots, to an expiry, to a page the user
\* opened, or to the other worker's login; later in the run it goes on however
\* often that happens.
OneLossIsSurvived ==
    \A c \in Courses : status[c] = "session" =>
        ctx # "live" \/ refused[c] \/ (listing[c] /\ losses[c] = 2)

\* A worker logs in only to replace a session the club has dropped: it never ends
\* a good one of its own, nor, in a club that keeps one session, starts a war
\* over one.
LoginsReplaceLostSessions ==
    [][\A c \in Courses : pc[c] # "login" /\ pc'[c] = "login" => ~Accepted(c)]_vars

\* Both workers return, whatever the club does with their sessions and in
\* whatever order they get the mutex.
EveryWorkerReturns == <>(\A c \in Courses : pc[c] = "done")
===============================================================================

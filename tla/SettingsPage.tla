----------------------------- MODULE SettingsPage -----------------------------
(***************************************************************************)
(* ui/src/app/settings/page.tsx: the settings page of a member, open in    *)
(* several tabs, on the preset row that the scheduler works on too.        *)
(*                                                                         *)
(* A tab loads the row into its form, polls it while the form is locked    *)
(* because the scheduler runs, and saves all columns of the form at once.  *)
(* Requests are asynchronous: each is sent, served and answered, or fails, *)
(* and those of one tab may overtake each other.  Of the form, the switch  *)
(* and the course override are modelled; the other fields are loaded and   *)
(* saved the same way.                                                     *)
(***************************************************************************)
EXTENDS Integers, FiniteSets, PresetStore

CONSTANTS
    Member,         \* the user whose preset it is
    Tabs,
    Choices,        \* bound: overrides that the member picks
    MaxCalls,       \* bound: requests of one tab under way
    MaxSaves,       \* bound: saves
    MaxRuns,        \* bound: runs of the scheduler
    MaxFailures     \* bound: requests that fail

ASSUME MemberAssumption == Member \in Users
ASSUME SettingsBounds ==
    /\ Choices \subseteq Overrides \union {"undated"}
    /\ MaxCalls \in Nat /\ MaxSaves \in Nat /\ MaxRuns \in Nat /\ MaxFailures \in Nat

VARIABLES
    dayOver,        \* the expiry of a "today" override has passed
    run, spends,    \* where processPreset is; will it clear the override?
    form, touched,  \* the form of a tab, and its fields edited since it was filled
    status,         \* lastRunStatus of a tab
    busy,           \* spinners of a tab
    calls,          \* requests of a tab under way
    saves, runs, failures,
    \* history
    version,        \* writes of the columns that the form shows
    written,        \* version that the last save of a tab made
    filled          \* version that the form of a tab was filled from, 0 if never

runVars   == <<dayOver, run, spends, runs>>
formVars  == <<form, touched, status, filled>>
vars      == <<presetVars, runVars, formVars, busy, calls, saves, failures, version, written>>

Fields    == {"enabled", "override"}
\* "undated": a date is still to be picked for the override.
Forms     == [enabled : BOOLEAN, override : Overrides \union {"undated"}]
BlankForm == [enabled |-> FALSE, override |-> "none"]

\* What a request carries: the row of an answer, or the columns of a save.
Contents  == [form : Forms, status : RunStatuses, version : Nat, touched : SUBSET Fields]
Kinds     == {"load", "poll", "refresh", "save", "cancel"}
Calls     == [kind : Kinds, stage : {"sent", "ok", "error"}, content : Contents]
Call(kind, form_, touched_, version_) ==
    [kind |-> kind, stage |-> "sent",
     content |-> [form |-> form_, status |-> "idle", version |-> version_, touched |-> touched_]]
Get(kind) == Call(kind, BlankForm, {}, 0)

Spinners == [loading : BOOLEAN, saving : BOOLEAN, cancelling : BOOLEAN]

Init ==
    /\ presets \in SUBSET {Member} /\ enabled = [u \in Users |-> FALSE]
    /\ lastRunStatus = [u \in Users |-> "idle"]
    /\ cancelRequested = [u \in Users |-> FALSE] /\ skipNextRun = [u \in Users |-> FALSE]
    /\ override = [u \in Users |-> "none"]
    /\ dayOver = FALSE /\ run = "off" /\ spends = FALSE
    /\ form = [t \in Tabs |-> BlankForm] /\ touched = [t \in Tabs |-> {}]
    /\ status = [t \in Tabs |-> "idle"]
    /\ busy = [t \in Tabs |-> [loading |-> TRUE, saving |-> FALSE, cancelling |-> FALSE]]
    /\ calls = [t \in Tabs |-> {Get("load")}]
    /\ saves = 0 /\ runs = 0 /\ failures = 0
    /\ version = 1 /\ written = [t \in Tabs |-> 0] /\ filled = [t \in Tabs |-> 0]

Send(t, call) == calls' = [calls EXCEPT ![t] = @ \union {call}]
MaySend(t) == Cardinality(calls[t]) < MaxCalls

-------------------------------------------------------------------------------
(* The member.                                                             *)

\* The fieldset is enabled, and shown.
Editable(t) == ~busy[t].loading /\ ~busy[t].saving /\ status[t] # "running"

Edit(t) ==
    /\ Editable(t)
    /\ \/ /\ form' = [form EXCEPT ![t].enabled = ~@]
          /\ touched' = [touched EXCEPT ![t] = @ \union {"enabled"}]
       \/ /\ \E o \in Choices :
                /\ o = "today" => ~dayOver
                /\ form' = [form EXCEPT ![t].override = o]
          /\ touched' = [touched EXCEPT ![t] = @ \union {"override"}]
    /\ UNCHANGED <<presetVars, runVars, status, filled, busy, calls, saves, failures, version, written>>

\* Mutant of Submit: an override without its date is sent.
SubmitUndated(t) ==
    /\ Editable(t) /\ saves < MaxSaves /\ MaySend(t)
    /\ saves' = saves + 1
    /\ busy' = [busy EXCEPT ![t].saving = TRUE]
    /\ Send(t, Call("save", form[t], touched[t], filled[t]))
    /\ UNCHANGED <<presetVars, runVars, formVars, failures, version, written>>

\* Mutant of Submit: the form is loaded again without awaiting the save.
SubmitAndLoad(t) ==
    /\ Editable(t) /\ form[t].override # "undated"
    /\ saves < MaxSaves /\ MaySend(t)
    /\ saves' = saves + 1
    /\ busy' = [busy EXCEPT ![t].saving = TRUE, ![t].loading = TRUE]
    /\ calls' = [calls EXCEPT ![t] = @ \union
                    {Call("save", form[t], touched[t], filled[t]), Get("load")}]
    /\ UNCHANGED <<presetVars, runVars, formVars, failures, version, written>>

\* handleSubmit; an override that lacks its date is not sent.
Submit(t) ==
    /\ Editable(t) /\ form[t].override # "undated"
    /\ saves < MaxSaves /\ MaySend(t)
    /\ saves' = saves + 1
    /\ busy' = [busy EXCEPT ![t].saving = TRUE]
    /\ Send(t, Call("save", form[t], touched[t], filled[t]))
    /\ UNCHANGED <<presetVars, runVars, formVars, failures, version, written>>

CancelRun(t) ==
    /\ status[t] = "running" /\ ~busy[t].loading /\ ~busy[t].cancelling /\ MaySend(t)
    /\ busy' = [busy EXCEPT ![t].cancelling = TRUE]
    /\ Send(t, Get("cancel"))
    /\ UNCHANGED <<presetVars, runVars, formVars, saves, failures, version, written>>

\* The interval that runs as long as the tab shows a run.
Poll(t) ==
    /\ status[t] = "running" /\ MaySend(t)
    /\ Send(t, Get("poll"))
    /\ UNCHANGED <<presetVars, runVars, formVars, busy, saves, failures, version, written>>

-------------------------------------------------------------------------------
(* The server.                                                             *)

Answered(t, c, stage, content) ==
    calls' = [calls EXCEPT ![t] = (@ \ {c}) \union
                 {[kind |-> c.kind, stage |-> stage, content |-> content]}]

\* Mutant of Row: only an override with an expiry is shown.
RowWithoutOnce ==
    [form |-> [enabled |-> enabled[Member],
               override |-> IF ResolveOverride(override[Member], dayOver) = "active"
                              THEN override[Member] ELSE "none"],
     status |-> lastRunStatus[Member], version |-> version, touched |-> {}]

\* GetPreset hides an expired override.
Row ==
    [form |-> [enabled |-> enabled[Member],
               override |-> IF ResolveOverride(override[Member], dayOver) = "expired"
                              THEN "none" ELSE override[Member]],
     status |-> lastRunStatus[Member], version |-> version, touched |-> {}]

ServeGet(t, c) ==
    /\ c.stage = "sent" /\ c.kind \in {"load", "poll", "refresh"}
    /\ Answered(t, c, "ok", Row)
    /\ UNCHANGED <<presetVars, runVars, formVars, busy, saves, failures, version, written>>

\* parseOverride refuses an expiry that has passed.
ServeSave(t, c) ==
    /\ c.stage = "sent" /\ c.kind = "save"
    /\ IF c.content.form.override = "today" /\ dayOver
         THEN /\ Answered(t, c, "error", c.content)
              /\ UNCHANGED <<presetVars, version, written>>
         ELSE /\ UpsertPreset(Member, c.content.form.enabled, c.content.form.override)
              /\ version' = version + 1 /\ written' = [written EXCEPT ![t] = version']
              /\ Answered(t, c, "ok", c.content)
    /\ UNCHANGED <<runVars, formVars, busy, saves, failures>>

ServeCancel(t, c) ==
    /\ c.stage = "sent" /\ c.kind = "cancel"
    /\ \/ RequestCancelRun(Member) /\ Answered(t, c, "ok", c.content)
       \/ /\ ~(Member \in presets /\ lastRunStatus[Member] = "running")
          /\ Answered(t, c, "error", c.content) /\ UNCHANGED presetVars
    /\ UNCHANGED <<runVars, formVars, busy, saves, failures, version, written>>

\* The request, or its answer, is lost.
Fail(t, c) ==
    /\ c.stage # "error" /\ failures < MaxFailures
    /\ failures' = failures + 1
    /\ Answered(t, c, "error", c.content)
    /\ UNCHANGED <<presetVars, runVars, formVars, busy, saves, version, written>>

-------------------------------------------------------------------------------
(* Answers at the tab.                                                     *)

Take(t, c) == calls' = [calls EXCEPT ![t] = @ \ {c}]

\* load fills the form from the row that was answered, or leaves it as it is.
Fill(t, c) ==
    IF c.stage = "ok"
      THEN /\ form' = [form EXCEPT ![t] = c.content.form]
           /\ touched' = [touched EXCEPT ![t] = {}]
           /\ status' = [status EXCEPT ![t] = c.content.status]
           /\ filled' = [filled EXCEPT ![t] = c.content.version]
      ELSE UNCHANGED formVars

\* load of a new tab, or the one at the end of handleSubmit.
Loaded(t, c) ==
    /\ c.stage # "sent" /\ c.kind = "load"
    /\ Fill(t, c) /\ Take(t, c)
    /\ busy' = [busy EXCEPT ![t].loading = FALSE, ![t].saving = FALSE]
    /\ UNCHANGED <<presetVars, runVars, saves, failures, version, written>>

Polled(t, c) ==
    /\ c.stage # "sent" /\ c.kind \in {"poll", "refresh"}
    /\ Fill(t, c) /\ Take(t, c)
    /\ busy' = [busy EXCEPT ![t].cancelling = @ /\ c.kind = "poll"]
    /\ UNCHANGED <<presetVars, runVars, saves, failures, version, written>>

Saved(t, c) ==
    /\ c.stage # "sent" /\ c.kind = "save"
    /\ IF c.stage = "ok"
         THEN /\ busy' = [busy EXCEPT ![t].loading = TRUE]
              /\ calls' = [calls EXCEPT ![t] = (@ \ {c}) \union {Get("load")}]
         ELSE /\ busy' = [busy EXCEPT ![t].saving = FALSE]
              /\ Take(t, c)
    /\ UNCHANGED <<presetVars, runVars, formVars, saves, failures, version, written>>

\* Mutant of Cancelled: cancelLoading is reset in try, not in finally.
CancelledNoFinally(t, c) ==
    /\ c.stage # "sent" /\ c.kind = "cancel"
    /\ IF c.stage = "ok"
         THEN calls' = [calls EXCEPT ![t] = (@ \ {c}) \union {Get("refresh")}]
         ELSE Take(t, c)
    /\ UNCHANGED <<presetVars, runVars, formVars, busy, saves, failures, version, written>>

Cancelled(t, c) ==
    /\ c.stage # "sent" /\ c.kind = "cancel"
    /\ IF c.stage = "ok"
         THEN /\ calls' = [calls EXCEPT ![t] = (@ \ {c}) \union {Get("refresh")}]
              /\ UNCHANGED busy
         ELSE /\ busy' = [busy EXCEPT ![t].cancelling = FALSE]
              /\ Take(t, c)
    /\ UNCHANGED <<presetVars, runVars, formVars, saves, failures, version, written>>

-------------------------------------------------------------------------------
(* The scheduler; its Runner and its failures are in modules of their own. *)

BeginRun ==
    /\ run = "off" /\ runs < MaxRuns /\ Member \in presets /\ enabled[Member]
    /\ runs' = runs + 1 /\ run' = "working"
    /\ spends' = (ResolveOverride(override[Member], dayOver) \in {"once", "expired"})
    /\ UpdatePresetRunStatus(Member, "running")
    /\ UNCHANGED <<dayOver, formVars, busy, calls, saves, failures, version, written>>

ReportRun ==
    /\ run = "working" /\ run' = "reported"
    /\ \E s \in {"success", "failed", "cancelled"} :
          /\ s = "cancelled" => cancelRequested[Member]
          /\ UpdatePresetRunStatus(Member, s)
    /\ UNCHANGED <<dayOver, spends, runs, formVars, busy, calls, saves, failures, version, written>>

\* The deferred statements, in the order of their defers reversed.
ClearOverride ==
    /\ run = "reported" /\ run' = "cleared"
    /\ IF spends THEN ClearCourseOverride(Member) /\ version' = version + 1
                 ELSE UNCHANGED <<presetVars, version>>
    /\ UNCHANGED <<dayOver, spends, runs, formVars, busy, calls, saves, failures, written>>

EndRun ==
    /\ run = "cleared" /\ run' = "off"
    /\ ClearCancelRequested(Member)
    /\ UNCHANGED <<dayOver, spends, runs, formVars, busy, calls, saves, failures, version, written>>

Midnight ==
    /\ ~dayOver /\ dayOver' = TRUE
    /\ UNCHANGED <<presetVars, run, spends, runs, formVars, busy, calls, saves, failures, version, written>>

-------------------------------------------------------------------------------
\* A request of one kind is served; the answer to one is taken.
Serve(t, kind) ==
    \E c \in {d \in calls[t] : d.kind = kind} :
        ServeGet(t, c) \/ ServeSave(t, c) \/ ServeCancel(t, c)

Deliver(t, kind) ==
    \E c \in {d \in calls[t] : d.kind = kind} :
        Loaded(t, c) \/ Polled(t, c) \/ Saved(t, c) \/ Cancelled(t, c)

Scheduled == BeginRun \/ ReportRun \/ ClearOverride \/ EndRun

Next ==
    \/ \E t \in Tabs :
          \/ Edit(t) \/ Submit(t) \/ CancelRun(t) \/ Poll(t)
          \/ \E kind \in Kinds : Serve(t, kind) \/ Deliver(t, kind)
          \/ \E c \in calls[t] : Fail(t, c)
    \/ Scheduled \/ Midnight

\* The interval goes on, requests end, and so do runs (Runner's Termination);
\* the member may do nothing.
Fairness ==
    /\ \A t \in Tabs :
          /\ WF_vars(Poll(t))
          /\ \A kind \in Kinds : WF_vars(Serve(t, kind)) /\ WF_vars(Deliver(t, kind))
    /\ WF_vars(ReportRun)

Spec == Init /\ [][Next]_vars /\ Fairness

-------------------------------------------------------------------------------
(* Properties.                                                             *)

\* Types of all variables.
TypeOK ==
    /\ PresetTypeOK
    /\ dayOver \in BOOLEAN /\ spends \in BOOLEAN
    /\ run \in {"off", "working", "reported", "cleared"}
    /\ form \in [Tabs -> Forms] /\ touched \in [Tabs -> SUBSET Fields]
    /\ status \in [Tabs -> RunStatuses] /\ busy \in [Tabs -> Spinners]
    /\ calls \in [Tabs -> SUBSET Calls]
    /\ saves \in 0..MaxSaves /\ runs \in 0..MaxRuns /\ failures \in 0..MaxFailures
    /\ version \in Nat /\ written \in [Tabs -> Nat] /\ filled \in [Tabs -> Nat]

\* The columns that the form stands for; an expired override is none.
InEffect ==
    [enabled  |-> enabled[Member],
     override |-> IF override[Member] = "today" /\ dayOver THEN "none" ELSE override[Member]]

\* A save writes every column of the form.  A column that the member has not
\* edited keeps its value, unless the row was written after the form was filled:
\* then the save undoes that write, and arms a spent override again.
OverwritesOnlyWhenStale ==
    [][\A t \in Tabs : written'[t] # written[t] =>
          \E c \in calls[t] :
              /\ c.kind = "save" /\ c \notin calls'[t]
              /\ \/ c.content.version < version
                 \/ \A f \in Fields \ c.content.touched : InEffect'[f] = InEffect[f]]_vars

\* When a save is over and the form has been filled again, it shows the row as
\* it was after that save, never one from before it.
ShownAfterSave ==
    [][\A t \in Tabs : busy[t].saving /\ ~busy'[t].saving /\ filled'[t] # filled[t]
          => filled'[t] >= written[t]]_vars

\* A tab never stays locked: again and again it neither waits for an answer nor
\* shows a run, whichever requests fail or overtake each other.
TabsUnlock ==
    \A t \in Tabs : []<>(status[t] # "running" /\ TRUE \notin {busy[t][k] : k \in DOMAIN busy[t]})
===============================================================================

----------------------------- MODULE PresetStore ------------------------------
(***************************************************************************)
(* src/internal/preset/preset.go: the booking_presets table, one row per   *)
(* user at most, and the statements the web app and the scheduler run on   *)
(* it.  Every statement is atomic; two statements of one handler are not.  *)
(*                                                                         *)
(* A missing row is a user outside `presets`, whose columns hold the       *)
(* defaults an INSERT would give them.  Of the columns, those the control  *)
(* flow of a run depends on are modelled.                                  *)
(***************************************************************************)
CONSTANT Users

VARIABLES
    presets,            \* users that have a row
    enabled,
    lastRunStatus,
    cancelRequested,
    skipNextRun,
    override            \* override_course and override_until, see Overrides

presetVars == <<presets, enabled, lastRunStatus, cancelRequested, skipNextRun, override>>

RunStatuses == {"idle", "running", "success", "failed", "cancelled"}

\* "once": a course without an expiry; "today" and "later": one with an expiry
\* that does, or does not, pass while we look.
Overrides == {"none", "once", "today", "later"}

PresetTypeOK ==
    /\ presets \subseteq Users
    /\ enabled \in [Users -> BOOLEAN]
    /\ lastRunStatus \in [Users -> RunStatuses]
    /\ cancelRequested \in [Users -> BOOLEAN]
    /\ skipNextRun \in [Users -> BOOLEAN]
    /\ override \in [Users -> Overrides]

\* A column written by UPDATE ... WHERE user_name = u: nothing if there is no row.
Updated(column, u, value) ==
    [column EXCEPT ![u] = IF u \in presets THEN value ELSE @]

UpsertPreset(u, e, o) ==
    /\ presets' = presets \union {u}
    /\ enabled' = [enabled EXCEPT ![u] = e]
    /\ override' = [override EXCEPT ![u] = o]
    /\ UNCHANGED <<lastRunStatus, cancelRequested, skipNextRun>>

UpdatePresetRunStatus(u, status) ==
    /\ lastRunStatus' = Updated(lastRunStatus, u, status)
    /\ UNCHANGED <<presets, enabled, cancelRequested, skipNextRun, override>>

\* Mutant of RequestCancelRun: accepted whatever the row's status.
RequestCancelAnytime(u) ==
    /\ u \in presets
    /\ cancelRequested' = [cancelRequested EXCEPT ![u] = TRUE]
    /\ UNCHANGED <<presets, enabled, lastRunStatus, skipNextRun, override>>

\* ErrCancelNotRunning otherwise, and nothing is written.
RequestCancelRun(u) ==
    /\ u \in presets /\ lastRunStatus[u] = "running"
    /\ cancelRequested' = [cancelRequested EXCEPT ![u] = TRUE]
    /\ UNCHANGED <<presets, enabled, lastRunStatus, skipNextRun, override>>

ClearCancelRequested(u) ==
    /\ cancelRequested' = Updated(cancelRequested, u, FALSE)
    /\ UNCHANGED <<presets, enabled, lastRunStatus, skipNextRun, override>>

\* Whatever override the row holds by now.
ClearCourseOverride(u) ==
    /\ override' = Updated(override, u, "none")
    /\ UNCHANGED <<presets, enabled, lastRunStatus, cancelRequested, skipNextRun>>

\* ErrSkipNotEnabled otherwise.
RequestSkipNextRun(u) ==
    /\ u \in presets /\ enabled[u]
    /\ skipNextRun' = [skipNextRun EXCEPT ![u] = TRUE]
    /\ UNCHANGED <<presets, enabled, lastRunStatus, cancelRequested, override>>

ClearSkipNextRun(u) ==
    /\ skipNextRun' = Updated(skipNextRun, u, FALSE)
    /\ UNCHANGED <<presets, enabled, lastRunStatus, cancelRequested, override>>

\* Mutant of ConsumeSkipNextRun: tells the caller but leaves the flag.
PeekSkipNextRun(u) ==
    u \in presets /\ skipNextRun[u] /\ UNCHANGED presetVars

\* The UPDATE that returns a row: the flag was set and is cleared, in one step.
ConsumeSkipNextRun(u) ==
    /\ u \in presets /\ skipNextRun[u]
    /\ ClearSkipNextRun(u)

DeleteByUserName(u) ==
    /\ presets' = presets \ {u}
    /\ enabled' = [enabled EXCEPT ![u] = FALSE]
    /\ lastRunStatus' = [lastRunStatus EXCEPT ![u] = "idle"]
    /\ cancelRequested' = [cancelRequested EXCEPT ![u] = FALSE]
    /\ skipNextRun' = [skipNextRun EXCEPT ![u] = FALSE]
    /\ override' = [override EXCEPT ![u] = "none"]

\* ResolveOverride: how an override applies at a time, given whether the expiry
\* of "today" has passed.
ResolveOverride(o, dayOver) ==
    CASE o = "none"              -> "none"
      [] o = "once"              -> "once"
      [] o = "today" /\ dayOver  -> "expired"
      [] OTHER                   -> "active"
===============================================================================

--------------------------- MODULE SettingsPageProofs ---------------------------
(***************************************************************************)
(* Proofs about SettingsPage, for any tabs and any bounds: however many    *)
(* tabs, requests, saves and runs there are, a save overwrites only what   *)
(* its form has shown, and a form filled after a save shows that save.     *)
(***************************************************************************)
EXTENDS SettingsPage, TLAPS

(* The parts of the invariant.                                             *)

\* No form and no request knows of a write that has not happened yet.
VersionsOK ==
    /\ version >= 1
    /\ \A t \in Tabs : filled[t] <= version /\ written[t] <= version
    /\ \A t \in Tabs : \A c \in calls[t] : c.content.version <= version

\* The fields of a form that were not edited are those of the row; only an
\* override that has expired since is still shown.
Agrees(g, edited) ==
    /\ "enabled" \notin edited => g.enabled = enabled[Member]
    /\ "override" \notin edited =>
          \/ g.override = InEffect.override
          \/ g.override = "today" /\ override[Member] = "today" /\ dayOver

\* What was read or sent agrees with the row, as long as nothing was written since;
\* only a save carries edited fields, and any override it carries has its date.
FormsOK ==
    \A t \in Tabs : filled[t] = version => Agrees(form[t], touched[t])
CallsOK ==
    \A t \in Tabs : \A c \in calls[t] :
        /\ c.content.version = version => Agrees(c.content.form, c.content.touched)
        /\ c.kind # "save" => c.content.touched = {}
        /\ c.kind = "save" => c.content.form.override # "undated"

\* A tab saves, or loads, one at a time, behind its spinner; and a load was served
\* after the save before it.
Exclusive == {"load", "save"}
LoadsOK ==
    \A t \in Tabs : \A c \in calls[t] :
        /\ c.kind \in Exclusive => \A d \in calls[t] : d.kind \in Exclusive => c = d
        /\ c.kind = "load" => busy[t].loading
        /\ c.kind = "save" => busy[t].saving
        /\ c.kind = "load" /\ c.stage = "ok" => c.content.version >= written[t]

\* The types of the requests.
CallsTypeOK == calls \in [Tabs -> SUBSET Calls]

\* The types of everything but the columns and the requests.
PageTypeOK ==
    /\ dayOver \in BOOLEAN /\ spends \in BOOLEAN
    /\ run \in {"off", "working", "reported", "cleared"}
    /\ form \in [Tabs -> Forms] /\ touched \in [Tabs -> SUBSET Fields]
    /\ status \in [Tabs -> RunStatuses] /\ busy \in [Tabs -> Spinners]
    /\ saves \in 0..MaxSaves /\ runs \in 0..MaxRuns /\ failures \in 0..MaxFailures
    /\ version \in Nat /\ written \in [Tabs -> Nat] /\ filled \in [Tabs -> Nat]

IInv == TypeOK /\ VersionsOK /\ FormsOK /\ CallsOK /\ LoadsOK
-------------------------------------------------------------------------------
(* Requests.                                                               *)

\* Of the requests of all tabs, c of tab t is replaced by d.
Becomes(t, c, d) ==
    \A v \in Tabs : calls'[v] = IF v = t THEN (calls[t] \ {c}) \union {d} ELSE calls[v]

\* An answer keeps the kind of its request.
LEMMA AnsweredCall ==
    ASSUME TypeOK, NEW t \in Tabs, NEW c \in calls[t], NEW stage, NEW content,
           Answered(t, c, stage, content)
    PROVE  \E d : Becomes(t, c, d) /\ d.kind = c.kind /\ d.stage = stage /\ d.content = content
<1> DEFINE d == [kind |-> c.kind, stage |-> stage, content |-> content]
<1>1. Becomes(t, c, d)
  BY DEF Answered, Becomes, TypeOK
<1> QED
  BY <1>1

\* A GET carries nothing, and is told from any row by its version.
LEMMA GetFields ==
    ASSUME NEW kind
    PROVE  /\ Get(kind).kind = kind /\ Get(kind).stage = "sent"
           /\ Get(kind).content.version = 0
BY DEF Get, Call


\* A column keeps its type when a statement writes it.
LEMMA UpdatedType ==
    ASSUME NEW S, NEW column \in [Users -> S], NEW u \in Users, NEW value \in S
    PROVE  Updated(column, u, value) \in [Users -> S]
BY DEF Updated

\* Versions only grow.
LEMMA VersionsStep ==
    ASSUME IInv, [Next]_vars
    PROVE  VersionsOK'
<1>t. TypeOK
  BY DEF IInv
<1>n. /\ version \in Nat /\ filled \in [Tabs -> Nat] /\ written \in [Tabs -> Nat]
      /\ \A v \in Tabs : \A e \in calls[v] : e.content.version \in Nat
  BY DEF IInv, TypeOK, Calls, Contents
<1> USE <1>t, <1>n DEF IInv, VersionsOK, presetVars, runVars, formVars
<1>1. ASSUME NEW t \in Tabs, Edit(t) PROVE VersionsOK'
  BY <1>1 DEF Edit, Editable, Forms
<1>2. ASSUME NEW t \in Tabs, Submit(t) PROVE VersionsOK'
  BY <1>2 DEF Submit, Editable, Send, Call
<1>3. ASSUME NEW t \in Tabs, CancelRun(t) PROVE VersionsOK'
  BY <1>3 DEF CancelRun, Send, Get, Call, BlankForm
<1>4. ASSUME NEW t \in Tabs, Poll(t) PROVE VersionsOK'
  BY <1>4 DEF Poll, Send, Get, Call, BlankForm
<1>5. ASSUME NEW t \in Tabs, NEW c \in calls[t], ServeGet(t, c) PROVE VersionsOK'
  BY <1>5 DEF ServeGet, Answered, Row, ResolveOverride
<1>6. ASSUME NEW t \in Tabs, NEW c \in calls[t], ServeSave(t, c) PROVE VersionsOK'
  <2>1. CASE c.content.form.override = "today" /\ dayOver
    <3>1. \E d : Becomes(t, c, d) /\ d.kind = c.kind /\ d.stage = "error" /\ d.content = c.content
      BY <1>6, <2>1, AnsweredCall DEF ServeSave
    <3> QED BY <1>6, <2>1, <3>1 DEF ServeSave, Becomes
  <2>2. CASE ~(c.content.form.override = "today" /\ dayOver)
    <3>1. \E d : Becomes(t, c, d) /\ d.kind = c.kind /\ d.stage = "ok" /\ d.content = c.content
      BY <1>6, <2>2, AnsweredCall DEF ServeSave
    <3> QED BY <1>6, <2>2, <3>1 DEF ServeSave, Becomes, UpsertPreset
  <2> QED BY <1>6, <2>1, <2>2 DEF ServeSave
<1>7. ASSUME NEW t \in Tabs, NEW c \in calls[t], ServeCancel(t, c) PROVE VersionsOK'
  <2>1. CASE RequestCancelRun(Member) /\ Answered(t, c, "ok", c.content)
    <3>1. \E d : Becomes(t, c, d) /\ d.kind = c.kind /\ d.stage = "ok" /\ d.content = c.content
      BY <1>7, <2>1, AnsweredCall DEF ServeCancel
    <3> QED BY <1>7, <2>1, <3>1 DEF ServeCancel, Becomes, RequestCancelRun
  <2>2. CASE Answered(t, c, "error", c.content) /\ UNCHANGED presetVars
    <3>1. \E d : Becomes(t, c, d) /\ d.kind = c.kind /\ d.stage = "error" /\ d.content = c.content
      BY <1>7, <2>2, AnsweredCall DEF ServeCancel
    <3> QED BY <1>7, <2>2, <3>1 DEF ServeCancel, Becomes
  <2> QED BY <1>7, <2>1, <2>2 DEF ServeCancel
<1>8. ASSUME NEW t \in Tabs, NEW c \in calls[t], Fail(t, c) PROVE VersionsOK'
  BY <1>8 DEF Fail, Answered
<1>9. ASSUME NEW t \in Tabs, NEW c \in calls[t], Loaded(t, c) PROVE VersionsOK'
  BY <1>9 DEF Loaded, Fill, Take
<1>10. ASSUME NEW t \in Tabs, NEW c \in calls[t], Polled(t, c) PROVE VersionsOK'
  BY <1>10 DEF Polled, Fill, Take
<1>11. ASSUME NEW t \in Tabs, NEW c \in calls[t], Saved(t, c) PROVE VersionsOK'
  <2>1. CASE c.stage = "ok"
    <3>1. Becomes(t, c, Get("load"))
      BY <1>11, <2>1, <1>t DEF Saved, Becomes, Take, TypeOK
    <3> QED BY <1>11, <2>1, <3>1 DEF Saved, Becomes, Get, Call, BlankForm
  <2>2. CASE c.stage # "ok"
    <3>1. \A v \in Tabs : calls'[v] = IF v = t THEN calls[t] \ {c} ELSE calls[v]
      BY <1>11, <2>2, <1>t DEF Saved, Becomes, Take, TypeOK
    <3> QED BY <1>11, <2>2, <3>1 DEF Saved, Becomes
  <2> QED BY <1>11, <2>1, <2>2 DEF Saved
<1>12. ASSUME NEW t \in Tabs, NEW c \in calls[t], Cancelled(t, c) PROVE VersionsOK'
  <2>1. CASE c.stage = "ok"
    <3>1. Becomes(t, c, Get("refresh"))
      BY <1>12, <2>1, <1>t DEF Cancelled, Becomes, Take, TypeOK
    <3> QED BY <1>12, <2>1, <3>1 DEF Cancelled, Becomes, Get, Call, BlankForm
  <2>2. CASE c.stage # "ok"
    <3>1. \A v \in Tabs : calls'[v] = IF v = t THEN calls[t] \ {c} ELSE calls[v]
      BY <1>12, <2>2, <1>t DEF Cancelled, Becomes, Take, TypeOK
    <3> QED BY <1>12, <2>2, <3>1 DEF Cancelled, Becomes
  <2> QED BY <1>12, <2>1, <2>2 DEF Cancelled
<1>13. CASE BeginRun
  BY <1>13 DEF BeginRun, UpdatePresetRunStatus, Updated
<1>14. CASE ReportRun
  BY <1>14 DEF ReportRun, UpdatePresetRunStatus, Updated
<1>15. CASE ClearOverride
  BY <1>15 DEF ClearOverride, ClearCourseOverride, Updated
<1>16. CASE EndRun
  BY <1>16 DEF EndRun, ClearCancelRequested, Updated
<1>17. CASE Midnight
  BY <1>17 DEF Midnight
<1>18. CASE UNCHANGED vars
  BY <1>18 DEF vars
<1> QED
  BY <1>1, <1>2, <1>3, <1>4, <1>5, <1>6, <1>7, <1>8, <1>9, <1>10, <1>11,
     <1>12, <1>13, <1>14, <1>15, <1>16, <1>17, <1>18 DEF Next, Serve,
     Deliver, Scheduled

\* A form agrees with the row as it was when the form was filled.
LEMMA FormsStep ==
    ASSUME IInv, [Next]_vars
    PROVE  FormsOK'
<1>t. TypeOK
  BY DEF IInv
<1>n. /\ version \in Nat /\ filled \in [Tabs -> Nat] /\ written \in [Tabs -> Nat]
      /\ \A v \in Tabs : \A e \in calls[v] : e.content.version \in Nat
  BY DEF IInv, TypeOK, Calls, Contents
<1>f. form \in [Tabs -> Forms] /\ touched \in [Tabs -> SUBSET Fields]
  BY DEF IInv, TypeOK
<1> USE MemberAssumption, <1>t, <1>n, <1>f DEF IInv, VersionsOK, FormsOK,
      CallsOK, Agrees, InEffect, PresetTypeOK, presetVars, runVars, formVars
<1>1. ASSUME NEW t \in Tabs, Edit(t) PROVE FormsOK'
  BY <1>1 DEF Edit, Editable, Forms
<1>2. ASSUME NEW t \in Tabs, Submit(t) PROVE FormsOK'
  BY <1>2 DEF Submit, Editable, Send, Call
<1>3. ASSUME NEW t \in Tabs, CancelRun(t) PROVE FormsOK'
  BY <1>3 DEF CancelRun, Send, Get, Call, BlankForm
<1>4. ASSUME NEW t \in Tabs, Poll(t) PROVE FormsOK'
  BY <1>4 DEF Poll, Send, Get, Call, BlankForm
<1>5. ASSUME NEW t \in Tabs, NEW c \in calls[t], ServeGet(t, c) PROVE FormsOK'
  BY <1>5 DEF ServeGet, Answered, Row, ResolveOverride
<1>6. ASSUME NEW t \in Tabs, NEW c \in calls[t], ServeSave(t, c) PROVE FormsOK'
  BY <1>6 DEF ServeSave, Answered, UpsertPreset
<1>7. ASSUME NEW t \in Tabs, NEW c \in calls[t], ServeCancel(t, c) PROVE FormsOK'
  BY <1>7 DEF ServeCancel, Answered, RequestCancelRun
<1>8. ASSUME NEW t \in Tabs, NEW c \in calls[t], Fail(t, c) PROVE FormsOK'
  BY <1>8 DEF Fail, Answered
<1>9. ASSUME NEW t \in Tabs, NEW c \in calls[t], Loaded(t, c) PROVE FormsOK'
  <2>1. CASE c.stage = "ok"
    <3>1. /\ form'[t] = c.content.form /\ touched'[t] = {} /\ filled'[t] = c.content.version
          /\ \A v \in Tabs \ {t} : form'[v] = form[v] /\ touched'[v] = touched[v]
                                   /\ filled'[v] = filled[v]
      BY <1>9, <2>1 DEF Loaded, Fill
    <3>2. c.content.touched = {}
      BY <1>9 DEF Loaded
    <3> QED BY <1>9, <3>1, <3>2 DEF Loaded
  <2>2. CASE c.stage # "ok"
    BY <1>9, <2>2 DEF Loaded, Fill
  <2> QED BY <2>1, <2>2
<1>10. ASSUME NEW t \in Tabs, NEW c \in calls[t], Polled(t, c) PROVE FormsOK'
  <2>1. CASE c.stage = "ok"
    <3>1. /\ form'[t] = c.content.form /\ touched'[t] = {} /\ filled'[t] = c.content.version
          /\ \A v \in Tabs \ {t} : form'[v] = form[v] /\ touched'[v] = touched[v]
                                   /\ filled'[v] = filled[v]
      BY <1>10, <2>1 DEF Polled, Fill
    <3>2. c.content.touched = {}
      BY <1>10 DEF Polled
    <3> QED BY <1>10, <3>1, <3>2 DEF Polled
  <2>2. CASE c.stage # "ok"
    BY <1>10, <2>2 DEF Polled, Fill
  <2> QED BY <2>1, <2>2
<1>11. ASSUME NEW t \in Tabs, NEW c \in calls[t], Saved(t, c) PROVE FormsOK'
  BY <1>11 DEF Saved, Take, Get, Call, BlankForm
<1>12. ASSUME NEW t \in Tabs, NEW c \in calls[t], Cancelled(t, c) PROVE FormsOK'
  BY <1>12 DEF Cancelled, Take, Get, Call, BlankForm
<1>13. CASE BeginRun
  BY <1>13 DEF BeginRun, UpdatePresetRunStatus, Updated
<1>14. CASE ReportRun
  BY <1>14 DEF ReportRun, UpdatePresetRunStatus, Updated
<1>15. CASE ClearOverride
  BY <1>15 DEF ClearOverride, ClearCourseOverride, Updated
<1>16. CASE EndRun
  BY <1>16 DEF EndRun, ClearCancelRequested, Updated
<1>17. CASE Midnight
  BY <1>17 DEF Midnight
<1>18. CASE UNCHANGED vars
  BY <1>18 DEF vars
<1> QED
  BY <1>1, <1>2, <1>3, <1>4, <1>5, <1>6, <1>7, <1>8, <1>9, <1>10, <1>11,
     <1>12, <1>13, <1>14, <1>15, <1>16, <1>17, <1>18 DEF Next, Serve,
     Deliver, Scheduled

\* So does what is under way.
LEMMA CallsStep ==
    ASSUME IInv, [Next]_vars
    PROVE  CallsOK'
<1>t. TypeOK
  BY DEF IInv
<1>n. /\ version \in Nat /\ filled \in [Tabs -> Nat] /\ written \in [Tabs -> Nat]
      /\ \A v \in Tabs : \A e \in calls[v] : e.content.version \in Nat
  BY DEF IInv, TypeOK, Calls, Contents
<1> USE MemberAssumption, <1>t, <1>n DEF IInv, VersionsOK, FormsOK, CallsOK,
      Agrees, InEffect, PresetTypeOK, presetVars, runVars, formVars
<1>1. ASSUME NEW t \in Tabs, Edit(t) PROVE CallsOK'
  BY <1>1 DEF Edit, Editable, Forms
<1>2. ASSUME NEW t \in Tabs, Submit(t) PROVE CallsOK'
  BY <1>2 DEF Submit, Editable, Send, Call
<1>3. ASSUME NEW t \in Tabs, CancelRun(t) PROVE CallsOK'
  BY <1>3 DEF CancelRun, Send, Get, Call, BlankForm
<1>4. ASSUME NEW t \in Tabs, Poll(t) PROVE CallsOK'
  BY <1>4 DEF Poll, Send, Get, Call, BlankForm
<1>5. ASSUME NEW t \in Tabs, NEW c \in calls[t], ServeGet(t, c) PROVE CallsOK'
  <2>1. \E d : Becomes(t, c, d) /\ d.kind = c.kind /\ d.stage = "ok" /\ d.content = Row
    BY <1>5, AnsweredCall DEF ServeGet
  <2>2. PICK d : Becomes(t, c, d) /\ d.kind = c.kind /\ d.stage = "ok" /\ d.content = Row
    BY <2>1
  <2>3. Row.version = version /\ Row.touched = {}
    BY DEF Row
  <2>4. Agrees(Row.form, {})
    BY DEF Row, Agrees, InEffect, ResolveOverride, Overrides, TypeOK, PresetTypeOK
  <2> QED BY <1>5, <2>2, <2>3, <2>4 DEF ServeGet, Becomes
<1>6. ASSUME NEW t \in Tabs, NEW c \in calls[t], ServeSave(t, c) PROVE CallsOK'
  <2>1. CASE c.content.form.override = "today" /\ dayOver
    <3>1. \E d : Becomes(t, c, d) /\ d.kind = c.kind /\ d.stage = "error" /\ d.content = c.content
      BY <1>6, <2>1, AnsweredCall DEF ServeSave
    <3> QED BY <1>6, <2>1, <3>1 DEF ServeSave, Becomes
  <2>2. CASE ~(c.content.form.override = "today" /\ dayOver)
    <3>1. \E d : Becomes(t, c, d) /\ d.kind = c.kind /\ d.stage = "ok" /\ d.content = c.content
      BY <1>6, <2>2, AnsweredCall DEF ServeSave
    <3> QED BY <1>6, <2>2, <3>1 DEF ServeSave, Becomes, UpsertPreset
  <2> QED BY <1>6, <2>1, <2>2 DEF ServeSave
<1>7. ASSUME NEW t \in Tabs, NEW c \in calls[t], ServeCancel(t, c) PROVE CallsOK'
  <2>1. CASE RequestCancelRun(Member) /\ Answered(t, c, "ok", c.content)
    <3>1. \E d : Becomes(t, c, d) /\ d.kind = c.kind /\ d.stage = "ok" /\ d.content = c.content
      BY <1>7, <2>1, AnsweredCall DEF ServeCancel
    <3> QED BY <1>7, <2>1, <3>1 DEF ServeCancel, Becomes, RequestCancelRun
  <2>2. CASE Answered(t, c, "error", c.content) /\ UNCHANGED presetVars
    <3>1. \E d : Becomes(t, c, d) /\ d.kind = c.kind /\ d.stage = "error" /\ d.content = c.content
      BY <1>7, <2>2, AnsweredCall DEF ServeCancel
    <3> QED BY <1>7, <2>2, <3>1 DEF ServeCancel, Becomes
  <2> QED BY <1>7, <2>1, <2>2 DEF ServeCancel
<1>8. ASSUME NEW t \in Tabs, NEW c \in calls[t], Fail(t, c) PROVE CallsOK'
  <2>1. \E d : Becomes(t, c, d) /\ d.kind = c.kind /\ d.stage = "error" /\ d.content = c.content
    BY <1>8, AnsweredCall DEF Fail
  <2> QED BY <1>8, <2>1 DEF Fail, Becomes
<1>9. ASSUME NEW t \in Tabs, NEW c \in calls[t], Loaded(t, c) PROVE CallsOK'
  BY <1>9 DEF Loaded, Fill, Take
<1>10. ASSUME NEW t \in Tabs, NEW c \in calls[t], Polled(t, c) PROVE CallsOK'
  BY <1>10 DEF Polled, Fill, Take
<1>11. ASSUME NEW t \in Tabs, NEW c \in calls[t], Saved(t, c) PROVE CallsOK'
  <2>1. CASE c.stage = "ok"
    <3>1. Becomes(t, c, Get("load"))
      BY <1>11, <2>1, <1>t DEF Saved, Becomes, Take, TypeOK
    <3> QED BY <1>11, <2>1, <3>1 DEF Saved, Becomes, Get, Call, BlankForm
  <2>2. CASE c.stage # "ok"
    <3>1. \A v \in Tabs : calls'[v] = IF v = t THEN calls[t] \ {c} ELSE calls[v]
      BY <1>11, <2>2, <1>t DEF Saved, Becomes, Take, TypeOK
    <3> QED BY <1>11, <2>2, <3>1 DEF Saved, Becomes
  <2> QED BY <1>11, <2>1, <2>2 DEF Saved
<1>12. ASSUME NEW t \in Tabs, NEW c \in calls[t], Cancelled(t, c) PROVE CallsOK'
  <2>1. CASE c.stage = "ok"
    <3>1. Becomes(t, c, Get("refresh"))
      BY <1>12, <2>1, <1>t DEF Cancelled, Becomes, Take, TypeOK
    <3> QED BY <1>12, <2>1, <3>1 DEF Cancelled, Becomes, Get, Call, BlankForm
  <2>2. CASE c.stage # "ok"
    <3>1. \A v \in Tabs : calls'[v] = IF v = t THEN calls[t] \ {c} ELSE calls[v]
      BY <1>12, <2>2, <1>t DEF Cancelled, Becomes, Take, TypeOK
    <3> QED BY <1>12, <2>2, <3>1 DEF Cancelled, Becomes
  <2> QED BY <1>12, <2>1, <2>2 DEF Cancelled
<1>13. CASE BeginRun
  BY <1>13 DEF BeginRun, UpdatePresetRunStatus, Updated
<1>14. CASE ReportRun
  BY <1>14 DEF ReportRun, UpdatePresetRunStatus, Updated
<1>15. CASE ClearOverride
  BY <1>15 DEF ClearOverride, ClearCourseOverride, Updated
<1>16. CASE EndRun
  BY <1>16 DEF EndRun, ClearCancelRequested, Updated
<1>17. CASE Midnight
  BY <1>17 DEF Midnight
<1>18. CASE UNCHANGED vars
  BY <1>18 DEF vars
<1> QED
  BY <1>1, <1>2, <1>3, <1>4, <1>5, <1>6, <1>7, <1>8, <1>9, <1>10, <1>11,
     <1>12, <1>13, <1>14, <1>15, <1>16, <1>17, <1>18 DEF Next, Serve,
     Deliver, Scheduled

\* One save or load of a tab at a time.
LEMMA LoadsStep ==
    ASSUME IInv, [Next]_vars
    PROVE  LoadsOK'
<1>t. TypeOK
  BY DEF IInv
<1>n. /\ version \in Nat /\ filled \in [Tabs -> Nat] /\ written \in [Tabs -> Nat]
      /\ \A v \in Tabs : \A e \in calls[v] : e.content.version \in Nat
  BY DEF IInv, TypeOK, Calls, Contents
<1>b. busy \in [Tabs -> Spinners]
  BY DEF IInv, TypeOK
<1> USE <1>t, <1>n, <1>b DEF IInv, VersionsOK, LoadsOK, Exclusive, Spinners,
      presetVars, runVars, formVars
<1>1. ASSUME NEW t \in Tabs, Edit(t) PROVE LoadsOK'
  BY <1>1 DEF Edit, Editable, Forms
<1>2. ASSUME NEW t \in Tabs, Submit(t) PROVE LoadsOK'
  BY <1>2 DEF Submit, Editable, Send, Call
<1>3. ASSUME NEW t \in Tabs, CancelRun(t) PROVE LoadsOK'
  BY <1>3 DEF CancelRun, Send, Get, Call, BlankForm
<1>4. ASSUME NEW t \in Tabs, Poll(t) PROVE LoadsOK'
  BY <1>4 DEF Poll, Send, Get, Call, BlankForm
<1>5. ASSUME NEW t \in Tabs, NEW c \in calls[t], ServeGet(t, c) PROVE LoadsOK'
  <2>1. \E d : Becomes(t, c, d) /\ d.kind = c.kind /\ d.stage = "ok" /\ d.content = Row
    BY <1>5, AnsweredCall DEF ServeGet
  <2>2. PICK d : Becomes(t, c, d) /\ d.kind = c.kind /\ d.stage = "ok" /\ d.content = Row
    BY <2>1
  <2>3. Row.version = version /\ Row.touched = {}
    BY DEF Row
  <2>4. Agrees(Row.form, {})
    BY DEF Row, Agrees, InEffect, ResolveOverride, Overrides, TypeOK, PresetTypeOK
  <2> QED BY <1>5, <2>2, <2>3, <2>4 DEF ServeGet, Becomes
<1>6. ASSUME NEW t \in Tabs, NEW c \in calls[t], ServeSave(t, c) PROVE LoadsOK'
  <2>1. CASE c.content.form.override = "today" /\ dayOver
    <3>1. \E d : Becomes(t, c, d) /\ d.kind = c.kind /\ d.stage = "error" /\ d.content = c.content
      BY <1>6, <2>1, AnsweredCall DEF ServeSave
    <3> QED BY <1>6, <2>1, <3>1 DEF ServeSave, Becomes
  <2>2. CASE ~(c.content.form.override = "today" /\ dayOver)
    <3>1. \E d : Becomes(t, c, d) /\ d.kind = c.kind /\ d.stage = "ok" /\ d.content = c.content
      BY <1>6, <2>2, AnsweredCall DEF ServeSave
    <3> QED BY <1>6, <2>2, <3>1 DEF ServeSave, Becomes, UpsertPreset
  <2> QED BY <1>6, <2>1, <2>2 DEF ServeSave
<1>7. ASSUME NEW t \in Tabs, NEW c \in calls[t], ServeCancel(t, c) PROVE LoadsOK'
  <2>1. CASE RequestCancelRun(Member) /\ Answered(t, c, "ok", c.content)
    <3>1. \E d : Becomes(t, c, d) /\ d.kind = c.kind /\ d.stage = "ok" /\ d.content = c.content
      BY <1>7, <2>1, AnsweredCall DEF ServeCancel
    <3> QED BY <1>7, <2>1, <3>1 DEF ServeCancel, Becomes, RequestCancelRun
  <2>2. CASE Answered(t, c, "error", c.content) /\ UNCHANGED presetVars
    <3>1. \E d : Becomes(t, c, d) /\ d.kind = c.kind /\ d.stage = "error" /\ d.content = c.content
      BY <1>7, <2>2, AnsweredCall DEF ServeCancel
    <3> QED BY <1>7, <2>2, <3>1 DEF ServeCancel, Becomes
  <2> QED BY <1>7, <2>1, <2>2 DEF ServeCancel
<1>8. ASSUME NEW t \in Tabs, NEW c \in calls[t], Fail(t, c) PROVE LoadsOK'
  <2>1. \E d : Becomes(t, c, d) /\ d.kind = c.kind /\ d.stage = "error" /\ d.content = c.content
    BY <1>8, AnsweredCall DEF Fail
  <2> QED BY <1>8, <2>1 DEF Fail, Becomes
<1>9. ASSUME NEW t \in Tabs, NEW c \in calls[t], Loaded(t, c) PROVE LoadsOK'
  <2>0. \A v \in Tabs : calls'[v] = IF v = t THEN calls[t] \ {c} ELSE calls[v]
    BY <1>9 DEF Loaded, Take, TypeOK
  <2>1. CASE c.stage = "ok"
    BY <1>9, <2>0, <2>1 DEF Loaded, Fill
  <2>2. CASE c.stage # "ok"
    BY <1>9, <2>0, <2>2 DEF Loaded, Fill
  <2> QED BY <1>9, <2>0, <2>1, <2>2 DEF Loaded
<1>10. ASSUME NEW t \in Tabs, NEW c \in calls[t], Polled(t, c) PROVE LoadsOK'
  BY <1>10 DEF Polled, Fill, Take
<1>11. ASSUME NEW t \in Tabs, NEW c \in calls[t], Saved(t, c) PROVE LoadsOK'
  <2>1. CASE c.stage = "ok"
    <3> DEFINE g == Get("load")
    <3>1. Becomes(t, c, g) /\ g.kind = "load" /\ g.stage = "sent"
      BY <1>11, <2>1, GetFields DEF Saved, Becomes, TypeOK
    <3>2. /\ busy'[t].loading /\ busy'[t].saving = busy[t].saving
          /\ \A v \in Tabs : v # t => busy'[v] = busy[v]
      BY <1>11, <2>1 DEF Saved
    <3> HIDE DEF g
    <3> QED BY <1>11, <3>1, <3>2 DEF Saved, Becomes
  <2>2. CASE c.stage # "ok"
    <3>1. \A v \in Tabs : calls'[v] = IF v = t THEN calls[t] \ {c} ELSE calls[v]
      BY <1>11, <2>2 DEF Saved, Take, TypeOK
    <3> QED BY <1>11, <2>2, <3>1 DEF Saved
  <2> QED BY <2>1, <2>2
<1>12. ASSUME NEW t \in Tabs, NEW c \in calls[t], Cancelled(t, c) PROVE LoadsOK'
  <2>1. CASE c.stage = "ok"
    <3>1. Becomes(t, c, Get("refresh"))
      BY <1>12, <2>1, <1>t DEF Cancelled, Becomes, Take, TypeOK
    <3> QED BY <1>12, <2>1, <3>1 DEF Cancelled, Becomes, Get, Call, BlankForm
  <2>2. CASE c.stage # "ok"
    <3>1. \A v \in Tabs : calls'[v] = IF v = t THEN calls[t] \ {c} ELSE calls[v]
      BY <1>12, <2>2, <1>t DEF Cancelled, Becomes, Take, TypeOK
    <3> QED BY <1>12, <2>2, <3>1 DEF Cancelled, Becomes
  <2> QED BY <1>12, <2>1, <2>2 DEF Cancelled
<1>13. CASE BeginRun
  BY <1>13 DEF BeginRun, UpdatePresetRunStatus, Updated
<1>14. CASE ReportRun
  BY <1>14 DEF ReportRun, UpdatePresetRunStatus, Updated
<1>15. CASE ClearOverride
  BY <1>15 DEF ClearOverride, ClearCourseOverride, Updated
<1>16. CASE EndRun
  BY <1>16 DEF EndRun, ClearCancelRequested, Updated
<1>17. CASE Midnight
  BY <1>17 DEF Midnight
<1>18. CASE UNCHANGED vars
  BY <1>18 DEF vars
<1> QED
  BY <1>1, <1>2, <1>3, <1>4, <1>5, <1>6, <1>7, <1>8, <1>9, <1>10, <1>11,
     <1>12, <1>13, <1>14, <1>15, <1>16, <1>17, <1>18 DEF Next, Serve,
     Deliver, Scheduled

\* The columns keep their types.
LEMMA RowTypeStep ==
    ASSUME IInv, [Next]_vars
    PROVE  PresetTypeOK'
<1>t. TypeOK /\ CallsOK /\ PresetTypeOK
  BY DEF IInv, TypeOK
<1> USE MemberAssumption, <1>t DEF PresetTypeOK, presetVars, runVars, formVars
<1>1. ASSUME NEW t \in Tabs, Edit(t) PROVE PresetTypeOK'
  BY <1>1 DEF Edit, Editable, Forms
<1>2. ASSUME NEW t \in Tabs, Submit(t) PROVE PresetTypeOK'
  BY <1>2 DEF Submit, Editable, Send, Call
<1>3. ASSUME NEW t \in Tabs, CancelRun(t) PROVE PresetTypeOK'
  BY <1>3 DEF CancelRun, Send, Get, Call, BlankForm
<1>4. ASSUME NEW t \in Tabs, Poll(t) PROVE PresetTypeOK'
  BY <1>4 DEF Poll, Send, Get, Call, BlankForm
<1>5. ASSUME NEW t \in Tabs, NEW c \in calls[t], ServeGet(t, c) PROVE PresetTypeOK'
  BY <1>5 DEF ServeGet, Answered, Row, ResolveOverride
<1>6. ASSUME NEW t \in Tabs, NEW c \in calls[t], ServeSave(t, c) PROVE PresetTypeOK'
  <2>1. /\ c.content.form.enabled \in BOOLEAN
        /\ c.content.form.override \in Overrides
    BY <1>6 DEF ServeSave, CallsOK, TypeOK, Calls, Contents, Forms
  <2>2. CASE c.content.form.override = "today" /\ dayOver
    BY <1>6, <2>2 DEF ServeSave
  <2>3. CASE ~(c.content.form.override = "today" /\ dayOver)
    BY <1>6, <2>1, <2>3 DEF ServeSave, UpsertPreset
  <2> QED BY <2>2, <2>3
<1>7. ASSUME NEW t \in Tabs, NEW c \in calls[t], ServeCancel(t, c) PROVE PresetTypeOK'
  BY <1>7 DEF ServeCancel, Answered, RequestCancelRun
<1>8. ASSUME NEW t \in Tabs, NEW c \in calls[t], Fail(t, c) PROVE PresetTypeOK'
  BY <1>8 DEF Fail, Answered
<1>9. ASSUME NEW t \in Tabs, NEW c \in calls[t], Loaded(t, c) PROVE PresetTypeOK'
  BY <1>9 DEF Loaded, Fill, Take
<1>10. ASSUME NEW t \in Tabs, NEW c \in calls[t], Polled(t, c) PROVE PresetTypeOK'
  BY <1>10 DEF Polled, Fill, Take
<1>11. ASSUME NEW t \in Tabs, NEW c \in calls[t], Saved(t, c) PROVE PresetTypeOK'
  BY <1>11 DEF Saved, Take, Get, Call, BlankForm
<1>12. ASSUME NEW t \in Tabs, NEW c \in calls[t], Cancelled(t, c) PROVE PresetTypeOK'
  BY <1>12 DEF Cancelled, Take, Get, Call, BlankForm
<1>13. CASE BeginRun
  <2>1. Updated(lastRunStatus, Member, "running") \in [Users -> RunStatuses]
    BY UpdatedType DEF RunStatuses
  <2> QED BY <1>13, <2>1 DEF BeginRun, UpdatePresetRunStatus
<1>14. CASE ReportRun
  <2>1. PICK s \in RunStatuses : UpdatePresetRunStatus(Member, s)
    BY <1>14 DEF ReportRun, RunStatuses
  <2>2. Updated(lastRunStatus, Member, s) \in [Users -> RunStatuses]
    BY UpdatedType
  <2> QED BY <2>1, <2>2 DEF UpdatePresetRunStatus
<1>15. CASE ClearOverride
  <2>1. Updated(override, Member, "none") \in [Users -> Overrides]
    BY UpdatedType DEF Overrides
  <2> QED BY <1>15, <2>1 DEF ClearOverride, ClearCourseOverride
<1>16. CASE EndRun
  <2>1. Updated(cancelRequested, Member, FALSE) \in [Users -> BOOLEAN]
    BY UpdatedType
  <2> QED BY <1>16, <2>1 DEF EndRun, ClearCancelRequested
<1>17. CASE Midnight
  BY <1>17 DEF Midnight
<1>18. CASE UNCHANGED vars
  BY <1>18 DEF vars
<1> QED
  BY <1>1, <1>2, <1>3, <1>4, <1>5, <1>6, <1>7, <1>8, <1>9, <1>10, <1>11,
     <1>12, <1>13, <1>14, <1>15, <1>16, <1>17, <1>18 DEF Next, Serve,
     Deliver, Scheduled

\* So do the requests.
LEMMA CallsTypeStep ==
    ASSUME IInv, [Next]_vars
    PROVE  CallsTypeOK'
<1>t. TypeOK
  BY DEF IInv
<1>c. calls \in [Tabs -> SUBSET Calls]
  BY <1>t DEF TypeOK
<1>g. \A kind \in Kinds : Get(kind) \in Calls
  BY DEF Get, Call, BlankForm, Calls, Contents, Forms, Overrides, RunStatuses, Fields
<1>s. \A t \in Tabs : Call("save", form[t], touched[t], filled[t]) \in Calls
  BY <1>t DEF TypeOK, Call, Calls, Contents, RunStatuses, Kinds
<1> USE <1>c, <1>g, <1>s DEF Kinds, CallsTypeOK
<1>1. ASSUME NEW t \in Tabs, Edit(t) PROVE CallsTypeOK'
  BY <1>1 DEF Edit
<1>2. ASSUME NEW t \in Tabs, Submit(t) PROVE CallsTypeOK'
  BY <1>2 DEF Submit, Send
<1>3. ASSUME NEW t \in Tabs, CancelRun(t) PROVE CallsTypeOK'
  BY <1>3 DEF CancelRun, Send
<1>4. ASSUME NEW t \in Tabs, Poll(t) PROVE CallsTypeOK'
  BY <1>4 DEF Poll, Send
<1>5. ASSUME NEW t \in Tabs, NEW c \in calls[t], ServeGet(t, c) PROVE CallsTypeOK'
  <2>1. Row \in Contents
    BY MemberAssumption, <1>t DEF Row, TypeOK, PresetTypeOK, Contents, Forms,
           Overrides, ResolveOverride, Fields
  <2> QED BY <1>5, <2>1 DEF ServeGet, Answered, Calls
<1>6. ASSUME NEW t \in Tabs, NEW c \in calls[t], ServeSave(t, c) PROVE CallsTypeOK'
  <2>1. c.content \in Contents /\ c.kind \in Kinds
    BY DEF Calls
  <2> QED BY <1>6, <2>1 DEF ServeSave, Answered, Calls
<1>7. ASSUME NEW t \in Tabs, NEW c \in calls[t], ServeCancel(t, c) PROVE CallsTypeOK'
  <2>1. c.content \in Contents /\ c.kind \in Kinds
    BY DEF Calls
  <2> QED BY <1>7, <2>1 DEF ServeCancel, Answered, Calls
<1>8. ASSUME NEW t \in Tabs, NEW c \in calls[t], Fail(t, c) PROVE CallsTypeOK'
  <2>1. c.content \in Contents /\ c.kind \in Kinds
    BY DEF Calls
  <2> QED BY <1>8, <2>1 DEF Fail, Answered, Calls
<1>9. ASSUME NEW t \in Tabs, NEW c \in calls[t], Loaded(t, c) PROVE CallsTypeOK'
  BY <1>9 DEF Loaded, Take
<1>10. ASSUME NEW t \in Tabs, NEW c \in calls[t], Polled(t, c) PROVE CallsTypeOK'
  BY <1>10 DEF Polled, Take
<1>11. ASSUME NEW t \in Tabs, NEW c \in calls[t], Saved(t, c) PROVE CallsTypeOK'
  BY <1>11 DEF Saved, Take
<1>12. ASSUME NEW t \in Tabs, NEW c \in calls[t], Cancelled(t, c) PROVE CallsTypeOK'
  BY <1>12 DEF Cancelled, Take
<1>13. CASE BeginRun
  BY <1>13 DEF BeginRun
<1>14. CASE ReportRun
  BY <1>14 DEF ReportRun
<1>15. CASE ClearOverride
  BY <1>15 DEF ClearOverride
<1>16. CASE EndRun
  BY <1>16 DEF EndRun
<1>17. CASE Midnight
  BY <1>17 DEF Midnight
<1>18. CASE UNCHANGED vars
  BY <1>18 DEF vars
<1> QED
  BY <1>1, <1>2, <1>3, <1>4, <1>5, <1>6, <1>7, <1>8, <1>9, <1>10, <1>11,
     <1>12, <1>13, <1>14, <1>15, <1>16, <1>17, <1>18 DEF Next, Serve,
     Deliver, Scheduled

\* And so does the rest.
LEMMA PageTypeStep ==
    ASSUME IInv, [Next]_vars
    PROVE  PageTypeOK'
<1>t. PageTypeOK /\ calls \in [Tabs -> SUBSET Calls]
  BY DEF IInv, TypeOK, PageTypeOK
<1> USE SettingsBounds, <1>t DEF PageTypeOK, Spinners, runVars, formVars
<1>1. ASSUME NEW t \in Tabs, Edit(t) PROVE PageTypeOK'
  <2>1. /\ form' = [form EXCEPT ![t].enabled = ~@]
        /\ touched' = [touched EXCEPT ![t] = @ \union {"enabled"}]
     => form' \in [Tabs -> Forms] /\ touched' \in [Tabs -> SUBSET Fields]
    <3> DEFINE e == ~form[t].enabled
    <3>1. e \in BOOLEAN
      OBVIOUS
    <3> HIDE DEF e
    <3>2. [form EXCEPT ![t].enabled = e] \in [Tabs -> Forms]
      BY <3>1 DEF Forms
    <3> USE DEF e
    <3>3. [form EXCEPT ![t].enabled = e] = [form EXCEPT ![t].enabled = ~@]
      OBVIOUS
    <3> QED BY <3>2, <3>3 DEF Fields
  <2>2. ASSUME NEW o \in Choices, form' = [form EXCEPT ![t].override = o]
        PROVE  form' \in [Tabs -> Forms]
    <3>1. o \in Overrides \union {"undated"}
      OBVIOUS
    <3> QED BY <2>2, <3>1 DEF Forms
  <2>3. touched' = [touched EXCEPT ![t] = @ \union {"override"}]
           => touched' \in [Tabs -> SUBSET Fields]
    BY DEF Fields
  <2> QED BY <1>1, <2>1, <2>2, <2>3 DEF Edit
<1>2. ASSUME NEW t \in Tabs, Submit(t) PROVE PageTypeOK'
  <2>1. busy' \in [Tabs -> Spinners]
    BY <1>2 DEF Submit
  <2>2. saves' \in 0..MaxSaves
    BY <1>2 DEF Submit
  <2> QED BY <1>2, <2>1, <2>2 DEF Submit
<1>3. ASSUME NEW t \in Tabs, CancelRun(t) PROVE PageTypeOK'
  BY <1>3 DEF CancelRun
<1>4. ASSUME NEW t \in Tabs, Poll(t) PROVE PageTypeOK'
  BY <1>4 DEF Poll
<1>5. ASSUME NEW t \in Tabs, NEW c \in calls[t], ServeGet(t, c) PROVE PageTypeOK'
  BY <1>5 DEF ServeGet
<1>6. ASSUME NEW t \in Tabs, NEW c \in calls[t], ServeSave(t, c) PROVE PageTypeOK'
  BY <1>6 DEF ServeSave, presetVars
<1>7. ASSUME NEW t \in Tabs, NEW c \in calls[t], ServeCancel(t, c) PROVE PageTypeOK'
  BY <1>7 DEF ServeCancel
<1>8. ASSUME NEW t \in Tabs, NEW c \in calls[t], Fail(t, c) PROVE PageTypeOK'
  BY <1>8 DEF Fail
<1>9. ASSUME NEW t \in Tabs, NEW c \in calls[t], Loaded(t, c) PROVE PageTypeOK'
  <2>1. c.content \in Contents
    BY DEF Calls
  <2> QED BY <1>9, <2>1 DEF Loaded, Fill, Contents
<1>10. ASSUME NEW t \in Tabs, NEW c \in calls[t], Polled(t, c) PROVE PageTypeOK'
  <2>1. c.content \in Contents
    BY DEF Calls
  <2> QED BY <1>10, <2>1 DEF Polled, Fill, Contents
<1>11. ASSUME NEW t \in Tabs, NEW c \in calls[t], Saved(t, c) PROVE PageTypeOK'
  <2>1. busy' \in [Tabs -> Spinners]
    <3>1. \/ busy' = [busy EXCEPT ![t].loading = TRUE]
          \/ busy' = [busy EXCEPT ![t].saving = FALSE]
      BY <1>11 DEF Saved
    <3>2. [busy EXCEPT ![t].loading = TRUE] \in [Tabs -> Spinners]
      OBVIOUS
    <3>3. [busy EXCEPT ![t].saving = FALSE] \in [Tabs -> Spinners]
      OBVIOUS
    <3> QED BY <3>1, <3>2, <3>3
  <2> QED BY <1>11, <2>1 DEF Saved
<1>12. ASSUME NEW t \in Tabs, NEW c \in calls[t], Cancelled(t, c) PROVE PageTypeOK'
  <2>1. busy' \in [Tabs -> Spinners]
    <3>1. busy' = [busy EXCEPT ![t].cancelling = FALSE] \/ busy' = busy
      BY <1>12 DEF Cancelled
    <3> QED BY <3>1
  <2> QED BY <1>12, <2>1 DEF Cancelled
<1>13. CASE BeginRun
  BY <1>13 DEF BeginRun
<1>14. CASE ReportRun
  BY <1>14 DEF ReportRun
<1>15. CASE ClearOverride
  BY <1>15 DEF ClearOverride, presetVars
<1>16. CASE EndRun
  BY <1>16 DEF EndRun
<1>17. CASE Midnight
  BY <1>17 DEF Midnight
<1>18. CASE UNCHANGED vars
  BY <1>18 DEF vars
<1> QED
  BY <1>1, <1>2, <1>3, <1>4, <1>5, <1>6, <1>7, <1>8, <1>9, <1>10, <1>11,
     <1>12, <1>13, <1>14, <1>15, <1>16, <1>17, <1>18 DEF Next, Serve,
     Deliver, Scheduled

-------------------------------------------------------------------------------
(* The invariant.                                                          *)

\* The page opens with one load under way in each tab, and an empty form.
LEMMA InitIInv ==
    ASSUME Init
    PROVE  IInv
<1> USE DEF Init
<1>g. /\ Get("load").kind = "load" /\ Get("load").stage = "sent"
      /\ Get("load").content.version = 0 /\ Get("load").content.touched = {}
      /\ Get("load") \in Calls
  BY DEF Get, Call, BlankForm, Calls, Kinds, Contents, Forms, Overrides, RunStatuses, Fields
<1> DEFINE g == Get("load")
<1>1. PresetTypeOK
  BY MemberAssumption DEF PresetTypeOK, RunStatuses, Overrides
<1>2. PageTypeOK
  <2>1. form \in [Tabs -> Forms] /\ touched \in [Tabs -> SUBSET Fields]
    BY DEF BlankForm, Forms, Overrides
  <2>2. status \in [Tabs -> RunStatuses] /\ busy \in [Tabs -> Spinners]
    BY DEF RunStatuses, Spinners
  <2>3. saves \in 0..MaxSaves /\ runs \in 0..MaxRuns /\ failures \in 0..MaxFailures
    BY SettingsBounds
  <2> QED
    BY <2>1, <2>2, <2>3 DEF PageTypeOK
<1>3. calls = [t \in Tabs |-> {g}]
  OBVIOUS
<1> HIDE DEF g
<1>4. calls \in [Tabs -> SUBSET Calls]
  BY <1>3, <1>g DEF g
<1>5. TypeOK
  BY <1>1, <1>2, <1>4 DEF TypeOK, PageTypeOK
<1>6. VersionsOK
  BY <1>3, <1>g DEF VersionsOK, g
<1>7. FormsOK
  BY DEF FormsOK
<1>8. CallsOK
  BY <1>3, <1>g DEF CallsOK, g
<1>9. LoadsOK
  BY <1>3, <1>g DEF LoadsOK, g, Exclusive
<1> QED
  BY <1>5, <1>6, <1>7, <1>8, <1>9 DEF IInv

\* Every step keeps it.
LEMMA NextIInv ==
    ASSUME IInv, [Next]_vars
    PROVE  IInv'
<1>1. TypeOK'
  BY RowTypeStep, CallsTypeStep, PageTypeStep DEF TypeOK, PageTypeOK, CallsTypeOK
<1> QED
  BY <1>1, VersionsStep, FormsStep, CallsStep, LoadsStep DEF IInv

\* IInv holds in every behaviour.
LEMMA Invariance == Spec => []IInv
<1>1. IInv /\ [Next]_vars => IInv'
  BY NextIInv
<1> QED
  BY <1>1, InitIInv, PTL DEF Spec
-------------------------------------------------------------------------------
(* The theorems.                                                           *)

\* TypeOK: forms, requests and rows keep their types, with any number of tabs.
THEOREM SettingsTypes == Spec => []TypeOK
<1>1. IInv => TypeOK
  BY DEF IInv
<1> QED
  BY <1>1, Invariance, PTL

\* Only the server writes on behalf of a tab.
LEMMA OnlySavesWrite ==
    ASSUME IInv, [Next]_vars, NEW t \in Tabs, written'[t] # written[t]
    PROVE  \E c \in calls[t] : ServeSave(t, c) /\ ~(c.content.form.override = "today" /\ dayOver)
<1>t. written \in [Tabs -> Nat]
  BY DEF IInv, TypeOK
<1>1. ~(UNCHANGED written)
  OBVIOUS
<1>2. \E v \in Tabs : \E c \in calls[v] : ServeSave(v, c)
  <2>1. ~(Scheduled \/ Midnight \/ UNCHANGED vars)
    BY <1>1 DEF Scheduled, BeginRun, ReportRun, ClearOverride, EndRun, Midnight, vars
  <2>2. ASSUME NEW v \in Tabs
        PROVE  /\ ~(Edit(v) \/ Submit(v) \/ CancelRun(v) \/ Poll(v))
               /\ \A kind \in Kinds : ~Deliver(v, kind)
               /\ \A c \in calls[v] : ~(ServeGet(v, c) \/ ServeCancel(v, c) \/ Fail(v, c))
    BY <1>1 DEF Edit, Submit, CancelRun, Poll, ServeGet, ServeCancel, Deliver, Fail, Loaded,
        Polled, Saved, Cancelled
  <2> QED
    BY <2>1, <2>2 DEF Next, Serve
<1>v. PICK v \in Tabs : \E c \in calls[v] : ServeSave(v, c)
  BY <1>2
<1>3. PICK c \in calls[v] : ServeSave(v, c)
  BY <1>v
<1>4. ~(c.content.form.override = "today" /\ dayOver)
  BY <1>1, <1>3 DEF ServeSave
<1>5. written' = [written EXCEPT ![v] = version']
  BY <1>3, <1>4 DEF ServeSave
<1>6. v = t
  BY <1>5, <1>t
<1> QED
  BY <1>3, <1>4, <1>6

\* OverwritesOnlyWhenStale: a save changes only the columns that the member
\* edited, unless the row was written after the form was filled.
THEOREM SavesOverwriteOnlyWhenStale == Spec => OverwritesOnlyWhenStale
<1> DEFINE Honest(t) ==
        written'[t] # written[t] =>
          \E c \in calls[t] :
              /\ c.kind = "save" /\ c \notin calls'[t]
              /\ \/ c.content.version < version
                 \/ \A f \in Fields \ c.content.touched : InEffect'[f] = InEffect[f]
<1>1. ASSUME IInv, [Next]_vars, NEW t \in Tabs PROVE Honest(t)
  <2>1. SUFFICES ASSUME written'[t] # written[t]
        PROVE \E c \in calls[t] :
                  /\ c.kind = "save" /\ c \notin calls'[t]
                  /\ \/ c.content.version < version
                     \/ \A f \in Fields \ c.content.touched : InEffect'[f] = InEffect[f]
    OBVIOUS
  <2>2. PICK c \in calls[t] :
            ServeSave(t, c) /\ ~(c.content.form.override = "today" /\ dayOver)
    BY <1>1, <2>1, OnlySavesWrite
  <2>3. /\ c.kind = "save" /\ c.stage = "sent" /\ Answered(t, c, "ok", c.content)
        /\ UpsertPreset(Member, c.content.form.enabled, c.content.form.override)
        /\ dayOver' = dayOver
    BY <2>2 DEF ServeSave, runVars
  <2>4. c \notin calls'[t]
    <3>1. TypeOK
      BY <1>1 DEF IInv
    <3>2. PICK d : Becomes(t, c, d) /\ d.stage = "ok"
      BY <2>3, <3>1, AnsweredCall
    <3> QED
      BY <2>3, <3>2 DEF Becomes
  <2>5. /\ enabled'[Member] = c.content.form.enabled
        /\ override'[Member] = c.content.form.override
    BY <1>1, <2>3, MemberAssumption DEF UpsertPreset, IInv, TypeOK, PresetTypeOK
  <2>6. c.content.version = version => Agrees(c.content.form, c.content.touched)
    BY <1>1 DEF IInv, CallsOK
  <2>7. c.content.version \in Nat /\ version \in Nat /\ c.content.version <= version
    BY <1>1 DEF IInv, VersionsOK, TypeOK, Calls, Contents
  <2>8. ASSUME Agrees(c.content.form, c.content.touched), NEW f \in Fields \ c.content.touched
        PROVE  InEffect'[f] = InEffect[f]
    <3>1. CASE f = "enabled"
      BY <2>5, <2>8, <3>1 DEF Agrees, InEffect
    <3>2. CASE f = "override"
      BY <2>2, <2>3, <2>5, <2>8, <3>2 DEF Agrees, InEffect
    <3> QED
      BY <3>1, <3>2 DEF Fields
  <2> QED
    BY <2>3, <2>4, <2>6, <2>7, <2>8
<1>2. IInv /\ [Next]_vars => \A t \in Tabs : Honest(t)
  BY <1>1
<1> QED
  BY <1>2, Invariance, PTL DEF Spec, OverwritesOnlyWhenStale

\* ShownAfterSave: once a save is over and the form is filled again, it shows
\* the row as it was after that save.
THEOREM SavesAreShown == Spec => ShownAfterSave
<1> DEFINE Shown(t) ==
        busy[t].saving /\ ~busy'[t].saving /\ filled'[t] # filled[t]
          => filled'[t] >= written[t]
<1>1. ASSUME IInv, [Next]_vars, NEW t \in Tabs PROVE Shown(t)
  <2>1. SUFFICES ASSUME busy[t].saving, ~busy'[t].saving, filled'[t] # filled[t]
        PROVE  filled'[t] >= written[t]
    OBVIOUS
  <2>t. busy \in [Tabs -> Spinners] /\ filled \in [Tabs -> Nat]
    BY <1>1 DEF IInv, TypeOK
  <2>2. ~(UNCHANGED busy) /\ ~(UNCHANGED filled)
    BY <2>1
  <2>3. \E v \in Tabs : \E c \in calls[v] : Loaded(v, c) \/ Polled(v, c)
    BY <1>1, <2>2 DEF Next, Edit, Submit, CancelRun, Poll, Serve, ServeGet, ServeSave,
        ServeCancel, Deliver, Fail, Saved, Cancelled, Scheduled, BeginRun, ReportRun,
        ClearOverride, EndRun, Midnight, vars, formVars
  <2>v. PICK v \in Tabs : \E c \in calls[v] : Loaded(v, c) \/ Polled(v, c)
    BY <2>3
  <2>4. PICK c \in calls[v] : Loaded(v, c) \/ Polled(v, c)
    BY <2>v
  <2>5. c.stage = "ok" /\ filled' = [filled EXCEPT ![v] = c.content.version]
    BY <2>2, <2>4 DEF Loaded, Polled, Fill, formVars
  <2>6. v = t
    BY <2>1, <2>5, <2>t
  <2>7. ~Polled(v, c)
    BY <2>1, <2>6, <2>t DEF Polled, Spinners
  <2>8. c.kind = "load"
    BY <2>4, <2>7 DEF Loaded
  <2>9. c.content.version >= written[t]
    BY <1>1, <2>5, <2>6, <2>8 DEF IInv, LoadsOK
  <2> QED
    BY <2>5, <2>6, <2>9, <2>t
<1>2. IInv /\ [Next]_vars => \A t \in Tabs : Shown(t)
  BY <1>1
<1> QED
  BY <1>2, Invariance, PTL DEF Spec, ShownAfterSave
===============================================================================

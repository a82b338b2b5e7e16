-------------------------------- MODULE NextRun -------------------------------
(***************************************************************************)
(* Which course and which date the next run books, decided in two places:  *)
(* by the scheduler when a preset's run starts (resolveCourseForRun and    *)
(* resolveCoursesForRun of src/cmd/scheduler/main.go, on slotutil.go), and *)
(* by the home page when it tells the user (HomeContent.tsx, on date.ts).  *)
(*                                                                         *)
(* Time is counted in ticks, DayTicks to a day of Malaysia.  The cron job  *)
(* fires at FireTick, takes its snapshot of the preset and waits; the run  *)
(* starts at OpenTick (booking_open) or, held up by the semaphore, later,  *)
(* perhaps past midnight.  What the run does then is the subject of        *)
(* Scheduler; here it is one step.  Settings are saved through the         *)
(* settings page, which makes overrides expire at the end of a day and     *)
(* leaves the preset's own course empty.                                   *)
(*                                                                         *)
(* The home page counts days of Malaysia, the scheduler the days of the    *)
(* server's zone, which no file of the repository sets.                    *)
(***************************************************************************)
EXTENDS Integers

CONSTANTS
    DayTicks,       \* the last tick of a day is 23:59:59
    FireTick,       \* 21:55, railway/scheduler.toml
    OpenTick,       \* booking_open
    Lags,           \* ticks that the server's zone may be behind Malaysia
    Days,           \* bound: days looked at, counted from 0
    Starts,         \* bound: weekdays that day 0 may be
    AltChoices      \* bound: the sets of alt course days that users choose

ASSUME TickAssumption ==
    /\ DayTicks \in Nat /\ FireTick \in Nat /\ OpenTick \in Nat
    /\ FireTick < OpenTick /\ OpenTick < DayTicks
    /\ Lags \subseteq 0 .. FireTick
ASSUME DaysAssumption == Days \in Nat \ {0} /\ AltChoices \subseteq SUBSET (0 .. 6) /\ Starts \subseteq 0 .. 6

VARIABLES
    start,          \* weekday of day 0; Sunday is 0
    lag,            \* of the server's zone
    now,            \* ticks since the start of day 0
    enabled, override, altDays, skip,      \* columns of the preset's row
    pc,             \* "idle", or "waiting" from the fire to the start of the run
    fired,          \* day of the last fire
    snapshot,       \* override and altDays as GetEnabledPresets returned them
    shown,          \* what the home page tells, and pc when it was loaded
    ran             \* what the last run tried

preset == <<enabled, override, altDays, skip>>
vars   == <<start, lag, now, preset, pc, fired, snapshot, shown, ran>>

Today == now \div DayTicks
ServerToday == (now - lag) \div DayTicks
Weekday(day) == (start + day) % 7
ClubCourses == {"BRC", "PLC"}
OtherCourse(course) == IF course = "BRC" THEN "PLC" ELSE "BRC"

NoExpiry   == 0 - 1
NoOverride == [course |-> "", until |-> NoExpiry]
EndOfDay(day) == day * DayTicks + DayTicks - 1
FireTime(day) == day * DayTicks + FireTick

\* buildOverridePayload; parseOverride refuses an expiry in the past.  "days7" is
\* "until" the last day looked at.
Overrides ==
    {NoOverride}
    \union [course : ClubCourses, until : {NoExpiry}]
    \union [course : ClubCourses, until : {EndOfDay(d) : d \in Today .. Days - 1} \ {now}]

-------------------------------------------------------------------------------
(* The scheduler's decision.                                               *)

\* ResolveOverride, at the time the run starts.
OverrideState(o) ==
    IF o.course = "" THEN "none"
    ELSE IF o.until = NoExpiry THEN "once"
    ELSE IF now > o.until THEN "expired" ELSE "active"

\* Mutant of CourseForDate: a day short.
CourseForDateShort(day) == IF Weekday(day) \in {0, 1} THEN "BRC" ELSE "PLC"

CourseForDate(day) == IF Weekday(day) \in {0, 1, 2} THEN "BRC" ELSE "PLC"

DateOneWeekAhead == ServerToday + 7

\* resolveCourseForRun and resolveCoursesForRun.
CoursesForRun(o, alt) ==
    IF OverrideState(o) \in {"once", "active"} THEN {o.course}
    ELSE LET primary == CourseForDate(DateOneWeekAhead) IN
         IF Weekday(DateOneWeekAhead) \in alt
         THEN {primary, OtherCourse(primary)} ELSE {primary}

-------------------------------------------------------------------------------
(* The home page's preview.                                                *)

Silent == [date |-> 0 - 1, courses |-> {}]

\* nextSchedulerRunMY.
NextFireDay == IF now % DayTicks < FireTick THEN Today ELSE Today + 1

\* GetPreset hides an override that has expired.
OverrideShown == IF OverrideState(override) \in {"once", "active"} THEN override ELSE NoOverride

CourseForYmd(day) == IF Weekday(day) \in {0, 1, 2} THEN "BRC" ELSE "PLC"

Upcoming ==
    LET fireDay == IF skip THEN NextFireDay + 1 ELSE NextFireDay
        bookingDay == fireDay + 7
        o == OverrideShown
        overridden == o.course # "" /\ (o.until = NoExpiry \/ o.until >= FireTime(fireDay))
        primary == CourseForYmd(bookingDay)
    IN  IF ~enabled THEN Silent
        ELSE [date |-> bookingDay,
              courses |-> IF overridden THEN {o.course}
                          ELSE IF Weekday(bookingDay) \in altDays
                          THEN {primary, OtherCourse(primary)} ELSE {primary}]

-------------------------------------------------------------------------------
NotShown == [upcoming |-> Silent, while |-> "idle"]

Init ==
    /\ start \in Starts /\ lag \in Lags /\ now = 0
    /\ enabled \in BOOLEAN /\ override = NoOverride /\ altDays \in AltChoices /\ skip = FALSE
    /\ pc = "idle" /\ fired = 0 - 1
    /\ snapshot = [override |-> NoOverride, altDays |-> {}]
    /\ shown = NotShown /\ ran = Silent

\* The cron job fires on the minute, before anything else happens in it.
FireIsDue == now % DayTicks = FireTick /\ fired < Today

\* Mutant of Tick: past the last day.
TickOn ==
    /\ now' = now + 1
    /\ UNCHANGED <<start, lag, preset, pc, fired, snapshot, shown, ran>>

\* Time does not pass over a fire.  Bound: a run is held up for less than a day.
Tick ==
    /\ now < EndOfDay(Days - 1)
    /\ ~FireIsDue
    /\ pc = "waiting" => now + 1 < FireTime(fired + 1)
    /\ now' = now + 1
    /\ UNCHANGED <<start, lag, preset, pc, fired, snapshot, shown, ran>>

\* run(): the snapshot is taken when the job fires.
Fire ==
    /\ FireIsDue
    /\ fired' = Today
    /\ IF enabled
       THEN pc' = "waiting" /\ snapshot' = [override |-> override, altDays |-> altDays]
       ELSE UNCHANGED <<pc, snapshot>>
    /\ UNCHANGED <<start, lag, now, preset, shown, ran>>

\* processPreset, skipped: ConsumeSkipNextRun reads the row, not the snapshot.
Skip ==
    /\ pc = "waiting" /\ now >= fired * DayTicks + OpenTick
    /\ skip /\ skip' = FALSE
    /\ pc' = "idle"
    /\ UNCHANGED <<start, lag, now, enabled, override, altDays, fired, snapshot, shown, ran>>

\* processPreset: the override is cleared if it is spent, whatever the row holds.
Run ==
    /\ pc = "waiting" /\ now >= fired * DayTicks + OpenTick
    /\ ~skip
    /\ ran' = [date |-> DateOneWeekAhead,
               courses |-> CoursesForRun(snapshot.override, snapshot.altDays)]
    /\ override' = IF OverrideState(snapshot.override) \in {"once", "expired"}
                   THEN NoOverride ELSE override
    /\ pc' = "idle" /\ shown' = NotShown
    /\ UNCHANGED <<start, lag, now, enabled, altDays, skip, fired, snapshot>>

(* The user.  An edit ends what the page has told.                         *)

SavePreset ==
    /\ ~FireIsDue
    /\ enabled' \in BOOLEAN /\ override' \in Overrides /\ altDays' \in AltChoices
    /\ shown' = NotShown
    /\ UNCHANGED <<start, lag, now, skip, pc, fired, snapshot, ran>>

ToggleSkip ==
    /\ ~FireIsDue
    /\ skip \/ enabled
    /\ skip' = ~skip
    /\ shown' = NotShown
    /\ UNCHANGED <<start, lag, now, enabled, override, altDays, pc, fired, snapshot, ran>>

\* The home page loads the preset and renders; it does so again only when asked.
Look ==
    /\ ~FireIsDue
    /\ shown' = [upcoming |-> Upcoming, while |-> pc]
    /\ UNCHANGED <<start, lag, now, preset, pc, fired, snapshot, ran>>

Next == Tick \/ Fire \/ Skip \/ Run \/ SavePreset \/ ToggleSkip \/ Look

Spec == Init /\ [][Next]_vars

-------------------------------------------------------------------------------
(* Properties.                                                             *)

Overridden == [course : ClubCourses \union {""},
               until : {NoExpiry} \union {EndOfDay(d) : d \in 0 .. Days - 1}]
Plans == [date : {0 - 1} \union 7 .. Days + 8, courses : SUBSET ClubCourses]

\* Types of all variables.
TypeOK ==
    /\ start \in Starts /\ lag \in Lags /\ now \in 0 .. EndOfDay(Days - 1)
    /\ enabled \in BOOLEAN /\ skip \in BOOLEAN
    /\ override \in Overridden /\ altDays \in AltChoices
    /\ pc \in {"idle", "waiting"} /\ fired \in {0 - 1} \union 0 .. Days - 1
    /\ snapshot \in [override : Overridden, altDays : AltChoices \union {{}}]
    /\ shown \in [upcoming : Plans, while : {"idle", "waiting"}]
    /\ ran \in Plans

\* A run held up past midnight finds an override expired that held at the fire.
LosesOverride == Today # fired /\ OverrideState(snapshot.override) = "expired"

Kept ==
    shown.upcoming # Silent /\ ServerToday = fired =>
        /\ ran'.date = shown.upcoming.date
        /\ ~LosesOverride => ran' = shown.upcoming

\* What the home page said of the next run, if it was loaded while no run was
\* waiting, is what that run does: the page's rules for overrides, alternate
\* courses and skipped days agree with the scheduler's.  A run held up past
\* midnight still keeps to it, but for an override that has expired meanwhile, as
\* long as it is not past midnight for the server.
PreviewIsKept ==
    [][pc = "waiting" /\ pc' = "idle" /\ ~skip /\ shown.while = "idle" => Kept]_vars
===============================================================================

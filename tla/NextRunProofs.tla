------------------------------ MODULE NextRunProofs -----------------------------
(***************************************************************************)
(* Proofs about NextRun, for a day of any length, any time of the cron job *)
(* and of the opening, any lag of the server's zone and any number of      *)
(* days: what the home page tells of the next run is what that run does.   *)
(***************************************************************************)
EXTENDS NextRun, TLAPS

TimeOfDay == now % DayTicks

\* The job has fired today once its time is past, and not before; a run that
\* waits has not seen the next fire.
FiresOnTime ==
    /\ \/ fired = Today /\ TimeOfDay >= FireTick
       \/ fired = Today - 1 /\ TimeOfDay <= FireTick
    /\ pc = "waiting" =>
          /\ fired >= 0
          /\ fired = Today \/ TimeOfDay < FireTick

\* The day whose fire the page announced, and what the page says a preset with
\* this override and these alt days books on it.
ShownFireDay == shown.upcoming.date - 7
Planned(day, o, alt) ==
    LET primary == CourseForYmd(day + 7) IN
    IF o.course # "" /\ (o.until = NoExpiry \/ o.until >= FireTime(day)) THEN {o.course}
    ELSE IF Weekday(day + 7) \in alt THEN {primary, OtherCourse(primary)} ELSE {primary}

\* As long as the page is not outdated by an edit, the run it announced is the
\* next to come or, skips apart, the one that waits; and the row, or its snapshot,
\* still says what was shown.
ShownIsPlanned ==
    shown.upcoming # Silent /\ shown.while = "idle" =>
        /\ enabled
        /\ ShownFireDay = fired + (IF skip THEN 1 ELSE 0) + (IF pc = "idle" THEN 1 ELSE 0)
        /\ shown.upcoming.courses = Planned(ShownFireDay, override, altDays)
        /\ pc = "waiting" => snapshot = [override |-> override, altDays |-> altDays]

IInv == TypeOK /\ FiresOnTime /\ ShownIsPlanned
-------------------------------------------------------------------------------
(* Days and ticks.                                                         *)

\* The first tick of a day.
Dawn(day) == DayTicks * day

\* The fire, the opening and the day are numbers, in this order.
LEMMA TickNumbers ==
    /\ DayTicks \in Nat /\ FireTick \in Nat /\ OpenTick \in Nat
    /\ FireTick < OpenTick /\ OpenTick < DayTicks /\ DayTicks > 0
BY TickAssumption

\* A time is a day and a tick of that day.
LEMMA DayAndTick ==
    ASSUME NEW n \in Nat
    PROVE  \E d \in Nat, k \in 0 .. DayTicks - 1 :
              n = Dawn(d) + k /\ n \div DayTicks = d /\ n % DayTicks = k
<1> DEFINE d == n \div DayTicks
           k == n % DayTicks
<1> USE TickNumbers
<1>1. d \in Nat
  OBVIOUS
<1>2. k \in 0 .. DayTicks - 1
  OBVIOUS
<1>3. n = DayTicks * d + k
  OBVIOUS
<1> HIDE DEF d, k
<1> QED
  BY <1>1, <1>2, <1>3 DEF Dawn, d, k

\* A tick of a day determines the day, and the tick of the day.
LEMMA DayOfTick ==
    ASSUME NEW d \in Nat, NEW k \in 0 .. DayTicks - 1
    PROVE  (Dawn(d) + k) \div DayTicks = d /\ (Dawn(d) + k) % DayTicks = k
BY TickNumbers DEF Dawn

\* Where days begin and end, and when their fires are.
LEMMA DayTimes ==
    ASSUME NEW d \in Nat
    PROVE  /\ Dawn(d) \in Nat /\ Dawn(d + 1) = Dawn(d) + DayTicks
           /\ EndOfDay(d) = Dawn(d) + DayTicks - 1
           /\ FireTime(d) = Dawn(d) + FireTick
BY TickNumbers DEF Dawn, EndOfDay, FireTime

\* Days follow one another.
LEMMA LaterDay ==
    ASSUME NEW d \in Nat, NEW e \in Nat, d < e
    PROVE  Dawn(d) + DayTicks <= Dawn(e)
<1> DEFINE k == e - (d + 1)
<1>1. k \in Nat /\ e = d + 1 + k
  OBVIOUS
<1> HIDE DEF k
<1>2. DayTicks * e = DayTicks * d + DayTicks + DayTicks * k
  BY <1>1, TickNumbers
<1>3. DayTicks * k >= 0
  BY <1>1, TickNumbers
<1>4. DayTicks * d \in Int /\ DayTicks * e \in Int /\ DayTicks * k \in Int
  BY <1>1, TickNumbers
<1> QED
  BY <1>1, <1>2, <1>3, <1>4, TickNumbers DEF Dawn

\* The next tick is one of the same day, or the first of the next day.
LEMMA NextTick ==
    ASSUME NEW n \in Nat
    PROVE  \/ /\ n % DayTicks < DayTicks - 1
              /\ (n + 1) \div DayTicks = n \div DayTicks
              /\ (n + 1) % DayTicks = (n % DayTicks) + 1
           \/ /\ n % DayTicks = DayTicks - 1
              /\ (n + 1) \div DayTicks = n \div DayTicks + 1
              /\ (n + 1) % DayTicks = 0
<1>1. PICK d \in Nat, k \in 0 .. DayTicks - 1 :
          n = Dawn(d) + k /\ n \div DayTicks = d /\ n % DayTicks = k
  BY DayAndTick
<1>2. CASE k < DayTicks - 1
  <2>1. n + 1 = Dawn(d) + (k + 1) /\ k + 1 \in 0 .. DayTicks - 1
    BY <1>1, <1>2, DayTimes, TickNumbers
  <2>2. (n + 1) \div DayTicks = d /\ (n + 1) % DayTicks = k + 1
    BY <1>1, <2>1, DayOfTick
  <2> QED
    BY <1>1, <1>2, <2>2
<1>3. CASE k = DayTicks - 1
  <2>1. n + 1 = Dawn(d + 1) + 0 /\ 0 \in 0 .. DayTicks - 1 /\ d + 1 \in Nat
    BY <1>1, <1>3, DayTimes, TickNumbers
  <2>2. (n + 1) \div DayTicks = d + 1 /\ (n + 1) % DayTicks = 0
    BY <2>1, DayOfTick
  <2> QED
    BY <1>1, <1>3, <2>2
<1> QED
  BY <1>1, <1>2, <1>3, TickNumbers

\* A time is past the end of a day exactly on later days.
LEMMA PastEndOfDay ==
    ASSUME NEW n \in Nat, NEW d \in Nat
    PROVE  n > EndOfDay(d) <=> n \div DayTicks > d
<1>1. PICK day \in Nat, k \in 0 .. DayTicks - 1 :
          n = Dawn(day) + k /\ n \div DayTicks = day /\ n % DayTicks = k
  BY DayAndTick
<1>2. Dawn(d) \in Nat /\ Dawn(day) \in Nat /\ EndOfDay(d) = Dawn(d) + DayTicks - 1
  BY <1>1, DayTimes
<1>3. day < d => Dawn(day) + DayTicks <= Dawn(d)
  BY <1>1, LaterDay
<1>4. d < day => Dawn(d) + DayTicks <= Dawn(day)
  BY <1>1, LaterDay
<1>5. n > EndOfDay(d) <=> day > d
  BY <1>1, <1>2, <1>3, <1>4, TickNumbers
<1> QED
  BY <1>1, <1>5

\* A day ends after the fires of that day and of the days before it, and before
\* those of the days after it.
LEMMA EndAndFire ==
    ASSUME NEW d \in Nat, NEW e \in Nat
    PROVE  EndOfDay(d) >= FireTime(e) <=> d >= e
<1>1. /\ Dawn(d) \in Nat /\ EndOfDay(d) = Dawn(d) + DayTicks - 1
      /\ Dawn(e) \in Nat /\ FireTime(e) = Dawn(e) + FireTick
  BY DayTimes
<1>2. e < d => Dawn(e) + DayTicks <= Dawn(d)
  BY LaterDay
<1>3. d < e => Dawn(d) + DayTicks <= Dawn(e)
  BY LaterDay
<1> QED
  BY <1>1, <1>2, <1>3, TickNumbers
-------------------------------------------------------------------------------
(* The clock.                                                              *)

\* The clock is within the days considered, at a tick of today.
LEMMA Clock ==
    ASSUME TypeOK
    PROVE  /\ now \in Nat /\ Today \in 0 .. Days - 1 /\ TimeOfDay \in 0 .. DayTicks - 1
           /\ now = Dawn(Today) + TimeOfDay
<1>1. PICK d \in Nat, k \in 0 .. DayTicks - 1 :
          now = Dawn(d) + k /\ now \div DayTicks = d /\ now % DayTicks = k
  <2>1. now \in Nat
    BY DEF TypeOK
  <2> QED
    BY <2>1, DayAndTick
<1>2. now \in Nat /\ ~(now > EndOfDay(Days - 1)) /\ Days - 1 \in Nat
  <2>1. Days - 1 \in Nat /\ EndOfDay(Days - 1) \in Int
    BY DaysAssumption, DayTimes, TickNumbers
  <2> QED
    BY <2>1 DEF TypeOK
<1>3. ~(now \div DayTicks > Days - 1)
  BY <1>2, PastEndOfDay
<1> QED
  BY <1>1, <1>2, <1>3, DaysAssumption DEF Today, TimeOfDay

\* While a run may start, the server's clock has not fallen below day 0.
LEMMA ServerClock ==
    ASSUME TypeOK, fired >= 0, now >= fired * DayTicks + OpenTick
    PROVE  ServerToday \in 0 .. Days - 1
<1>1. fired \in Nat /\ lag \in 0 .. FireTick /\ now \in Nat
  BY Clock, TickAssumption DEF TypeOK
<1>2. fired * DayTicks = Dawn(fired) /\ Dawn(fired) \in Nat
  BY <1>1, DayTimes, TickNumbers DEF Dawn
<1>3. now - lag \in Nat /\ now - lag <= now
  BY <1>1, <1>2, TickNumbers
<1>4. Days - 1 \in Nat /\ EndOfDay(Days - 1) \in Int
  BY DaysAssumption, DayTimes, TickNumbers
<1>5. ~(now - lag > EndOfDay(Days - 1))
  BY <1>3, <1>4 DEF TypeOK
<1>6. ~((now - lag) \div DayTicks > Days - 1)
  BY <1>3, <1>4, <1>5, PastEndOfDay
<1>7. PICK d \in Nat, k \in 0 .. DayTicks - 1 : (now - lag) \div DayTicks = d
  BY <1>3, DayAndTick
<1> QED
  BY <1>6, <1>7, DaysAssumption DEF ServerToday

(* Overrides and courses.                                                  *)

\* An override expires with a day, or never.
LEMMA Expiries ==
    ASSUME NEW o \in Overridden
    PROVE  o.until = NoExpiry \/ \E d \in Nat : o.until = EndOfDay(d)
<1>1. o.until \in {NoExpiry} \union {EndOfDay(d) : d \in 0 .. Days - 1}
  BY DEF Overridden
<1>2. 0 .. Days - 1 \subseteq Nat
  OBVIOUS
<1> QED
  BY <1>1, <1>2

\* The default of a day, and both courses on an alternate day, are club courses.
LEMMA DefaultCourses ==
    ASSUME NEW day
    PROVE  /\ CourseForYmd(day) = CourseForDate(day)
           /\ CourseForDate(day) \in ClubCourses
           /\ OtherCourse(CourseForDate(day)) \in ClubCourses
BY DEF CourseForYmd, CourseForDate, OtherCourse, ClubCourses
-------------------------------------------------------------------------------
(* Types.                                                                  *)

\* Whatever override the settings page may save has its type.
LEMMA ChoicesTyped ==
    ASSUME TypeOK
    PROVE  Overrides \subseteq Overridden /\ NoOverride \in Overridden
<1>1. \A d \in Today .. Days - 1 : d \in 0 .. Days - 1
  BY Clock
<1>2. NoOverride \in Overridden
  BY DEF NoOverride, Overridden
<1>3. ASSUME NEW o \in Overrides PROVE o \in Overridden
  <2>1. CASE o = NoOverride
    BY <1>2, <2>1
  <2>2. CASE o \in [course : ClubCourses, until : {NoExpiry}]
    BY <2>2 DEF Overridden
  <2>3. CASE o \in [course : ClubCourses,
                    until : {EndOfDay(d) : d \in Today .. Days - 1} \ {now}]
    BY <1>1, <2>3 DEF Overridden
  <2> QED
    BY <2>1, <2>2, <2>3 DEF Overrides
<1> QED
  BY <1>2, <1>3

\* A run that waits, and is due, has a date and courses of their types.
LEMMA RunTyped ==
    ASSUME TypeOK, fired >= 0, now >= fired * DayTicks + OpenTick
    PROVE  [date |-> DateOneWeekAhead,
            courses |-> CoursesForRun(snapshot.override, snapshot.altDays)] \in Plans
<1> DEFINE o == snapshot.override
           alt == snapshot.altDays
<1>1. DateOneWeekAhead \in 7 .. Days + 8
  BY ServerClock, DaysAssumption DEF DateOneWeekAhead
<1>2. o.course \in ClubCourses \union {""}
  BY DEF TypeOK, Overridden
<1> HIDE DEF o, alt
<1>3. OverrideState(o) \in {"once", "active"} => o.course \in ClubCourses
  BY <1>2 DEF OverrideState
<1>4. CoursesForRun(o, alt) \subseteq ClubCourses
  BY <1>3, DefaultCourses DEF CoursesForRun
<1> QED
  BY <1>1, <1>4 DEF Plans, o, alt

\* The day of the next fire, and what the page tells of it.
LEMMA UpcomingTyped ==
    ASSUME TypeOK
    PROVE  Upcoming \in Plans
<1> DEFINE fireDay == IF skip THEN NextFireDay + 1 ELSE NextFireDay
           o == OverrideShown
           overridden == o.course # "" /\ (o.until = NoExpiry \/ o.until >= FireTime(fireDay))
           primary == CourseForYmd(fireDay + 7)
           courses == IF overridden THEN {o.course}
                      ELSE IF Weekday(fireDay + 7) \in altDays
                      THEN {primary, OtherCourse(primary)} ELSE {primary}
<1>1. fireDay + 7 \in 7 .. Days + 8
  BY Clock, DaysAssumption DEF NextFireDay
<1>2. o.course \in ClubCourses \union {""}
  BY DEF TypeOK, OverrideShown, Overridden, NoOverride
<1>3. Upcoming = IF ~enabled THEN Silent ELSE [date |-> fireDay + 7, courses |-> courses]
  BY DEF Upcoming
<1> HIDE DEF o, fireDay
<1>4. courses \subseteq ClubCourses
  BY <1>2, DefaultCourses
<1> HIDE DEF courses
<1> QED
  BY <1>1, <1>3, <1>4 DEF Plans, Silent

\* Every step keeps the types.
LEMMA TypeStep ==
    ASSUME IInv, [Next]_vars
    PROVE  TypeOK'
<1>t. TypeOK
  BY DEF IInv
<1> USE DEF TypeOK, preset
<1>1. CASE Tick
  <2>1. EndOfDay(Days - 1) \in Int
    BY DaysAssumption, DayTimes, TickNumbers
  <2> QED
    BY <1>t, <1>1, <2>1 DEF Tick
<1>2. CASE Fire
  BY <1>t, <1>2, Clock DEF Fire
<1>3. CASE Skip
  BY <1>t, <1>3 DEF Skip
<1>4. CASE Run
  <2>1. ran' \in Plans
    BY <1>t, <1>4, RunTyped DEF Run, IInv, FiresOnTime
  <2>2. NotShown \in [upcoming : Plans, while : {"idle", "waiting"}]
    BY DEF NotShown, Silent, Plans
  <2> QED
    BY <1>t, <1>4, <2>1, <2>2, ChoicesTyped DEF Run
<1>5. CASE SavePreset
  <2>1. NotShown \in [upcoming : Plans, while : {"idle", "waiting"}]
    BY DEF NotShown, Silent, Plans
  <2> QED
    BY <1>t, <1>5, <2>1, ChoicesTyped DEF SavePreset
<1>6. CASE ToggleSkip
  <2>1. NotShown \in [upcoming : Plans, while : {"idle", "waiting"}]
    BY DEF NotShown, Silent, Plans
  <2>2. skip' \in BOOLEAN
    BY <1>6 DEF ToggleSkip
  <2> QED
    BY <1>t, <1>6, <2>1, <2>2 DEF ToggleSkip
<1>7. CASE Look
  BY <1>t, <1>7, UpcomingTyped DEF Look
<1>8. CASE UNCHANGED vars
  BY <1>t, <1>8 DEF vars
<1> QED
  BY <1>1, <1>2, <1>3, <1>4, <1>5, <1>6, <1>7, <1>8 DEF Next
-------------------------------------------------------------------------------
(* Fires.                                                                  *)

\* Every step keeps the fires on time: the job fires once a day.
LEMMA FiresStep ==
    ASSUME IInv, [Next]_vars
    PROVE  FiresOnTime'
<1>t. TypeOK /\ FiresOnTime
  BY DEF IInv
<1>c. /\ now \in Nat /\ Today \in 0 .. Days - 1 /\ TimeOfDay \in 0 .. DayTicks - 1
      /\ now = Dawn(Today) + TimeOfDay /\ fired \in Int
  BY <1>t, Clock, DaysAssumption DEF TypeOK
<1>1. CASE Tick
  <2>1. ~(TimeOfDay = FireTick /\ fired < Today) /\ now' = now + 1
    BY <1>1 DEF Tick, FireIsDue, TimeOfDay
  <2>2. pc = "waiting" => now + 1 < Dawn(fired + 1) + FireTick
    <3>1. pc = "waiting" => fired + 1 \in Nat
      BY <1>t, <1>c DEF FiresOnTime
    <3> QED
      BY <1>1, <3>1, DayTimes DEF Tick
  <2>3. \/ TimeOfDay < DayTicks - 1 /\ Today' = Today /\ TimeOfDay' = TimeOfDay + 1
        \/ TimeOfDay = DayTicks - 1 /\ Today' = Today + 1 /\ TimeOfDay' = 0
    BY <1>c, <2>1, NextTick DEF Today, TimeOfDay
  <2>4. pc' = pc /\ fired' = fired
    BY <1>1 DEF Tick
  <2>5. Dawn(Today) \in Nat /\ Dawn(Today + 1) = Dawn(Today) + DayTicks
    BY <1>c, DayTimes
  <2>6. CASE TimeOfDay < DayTicks - 1 /\ Today' = Today /\ TimeOfDay' = TimeOfDay + 1
    BY <1>t, <1>c, <2>1, <2>2, <2>4, <2>5, <2>6, TickNumbers DEF FiresOnTime
  <2>7. CASE TimeOfDay = DayTicks - 1 /\ Today' = Today + 1 /\ TimeOfDay' = 0
    BY <1>t, <1>c, <2>1, <2>2, <2>4, <2>5, <2>7, TickNumbers DEF FiresOnTime
  <2> QED
    BY <2>3, <2>6, <2>7
<1>2. CASE Fire
  BY <1>t, <1>c, <1>2 DEF Fire, FireIsDue, FiresOnTime, Today, TimeOfDay
<1>3. ASSUME pc' = pc \/ pc' = "idle", fired' = fired, now' = now PROVE FiresOnTime'
  BY <1>t, <1>3 DEF FiresOnTime, Today, TimeOfDay
<1> QED
  BY <1>1, <1>2, <1>3 DEF Next, Skip, Run, SavePreset, ToggleSkip, Look, vars
-------------------------------------------------------------------------------
(* What was shown.                                                         *)

\* The page plans as the row says, whether or not it hides an expired override,
\* which can no longer hold at the next fire.
LEMMA UpcomingPlanned ==
    ASSUME TypeOK, FiresOnTime, ~FireIsDue, pc = "idle", enabled
    PROVE  /\ Upcoming.date - 7 = fired + (IF skip THEN 1 ELSE 0) + 1
           /\ Upcoming.courses = Planned(Upcoming.date - 7, override, altDays)
<1> DEFINE fireDay == IF skip THEN NextFireDay + 1 ELSE NextFireDay
           o == OverrideShown
           Overriding(p) == p.course # "" /\ (p.until = NoExpiry \/ p.until >= FireTime(fireDay))
           primary == CourseForYmd(fireDay + 7)
           Courses(p) == IF Overriding(p) THEN {p.course}
                         ELSE IF Weekday(fireDay + 7) \in altDays
                         THEN {primary, OtherCourse(primary)} ELSE {primary}
<1>c. /\ now \in Nat /\ Today \in 0 .. Days - 1 /\ TimeOfDay \in 0 .. DayTicks - 1
      /\ now = Dawn(Today) + TimeOfDay /\ fired \in Int
  BY Clock, DaysAssumption DEF TypeOK
<1>1. NextFireDay = fired + 1
  BY <1>c, TickNumbers DEF NextFireDay, FireIsDue, FiresOnTime, TimeOfDay
<1>2. fireDay \in Nat /\ fireDay = fired + (IF skip THEN 1 ELSE 0) + 1 /\ fireDay >= Today
  BY <1>1, <1>c DEF NextFireDay
<1>3. Upcoming = [date |-> fireDay + 7, courses |-> Courses(o)]
  BY DEF Upcoming
<1>4. override.course # "" => override.until = NoExpiry \/ \E d \in Nat : override.until = EndOfDay(d)
  BY Expiries DEF TypeOK
<1>5. Overriding(o) <=> Overriding(override)
  <2>1. CASE OverrideState(override) = "expired"
    <3>1. PICK d \in Nat : override.until = EndOfDay(d) /\ now > EndOfDay(d)
      BY <1>4, <2>1 DEF OverrideState
    <3>2. Today > d
      BY <1>c, <3>1, PastEndOfDay DEF Today
    <3>3. ~(EndOfDay(d) >= FireTime(fireDay))
      BY <1>2, <1>c, <3>2, EndAndFire
    <3>4. ~Overriding(override)
      BY <2>1, <3>1, <3>3 DEF OverrideState
    <3> QED
      BY <2>1, <3>4 DEF OverrideShown, NoOverride
  <2>2. CASE OverrideState(override) = "none"
    BY <2>2 DEF OverrideState, OverrideShown, NoOverride
  <2>3. CASE OverrideState(override) \in {"once", "active"}
    BY <2>3 DEF OverrideShown
  <2> QED
    BY <2>1, <2>2, <2>3 DEF OverrideState
<1>6. Overriding(o) => o = override
  BY DEF OverrideShown, NoOverride
<1>7. Courses(o) = Courses(override)
  BY <1>5, <1>6
<1>8. Courses(override) = Planned(fireDay, override, altDays)
  BY DEF Planned
<1> HIDE DEF fireDay, o, Courses
<1> QED
  BY <1>2, <1>3, <1>7, <1>8

\* An edit, or a run, outdates what was shown; a fire or a skip keeps to it.
LEMMA PlanStep ==
    ASSUME IInv, [Next]_vars
    PROVE  ShownIsPlanned'
<1>t. TypeOK /\ FiresOnTime /\ ShownIsPlanned
  BY DEF IInv
<1>c. fired \in Int /\ Today \in Int /\ skip \in BOOLEAN
  BY <1>t, Clock DEF TypeOK
<1>p. ASSUME UNCHANGED <<start, override, altDays, shown>>
      PROVE  Planned(ShownFireDay, override, altDays)' = Planned(ShownFireDay, override, altDays)
  BY <1>p DEF Planned, CourseForYmd, Weekday, FireTime, ShownFireDay
<1>s. ASSUME shown' = NotShown PROVE ShownIsPlanned'
  BY <1>s DEF ShownIsPlanned, NotShown
<1>1. CASE Tick
  BY <1>t, <1>1, <1>p DEF Tick, preset, ShownIsPlanned, ShownFireDay
<1>2. CASE Fire
  <2>1. pc = "idle" /\ fired' = fired + 1
    <3>0. TimeOfDay = FireTick /\ fired < Today
      BY <1>2 DEF Fire, FireIsDue, TimeOfDay
    <3>1. fired = Today - 1 /\ TimeOfDay = FireTick
      BY <1>t, <1>c, <3>0 DEF FiresOnTime
    <3>2. pc # "waiting"
      BY <1>t, <1>c, <3>1, TickNumbers DEF FiresOnTime
    <3> QED
      BY <1>t, <1>2, <1>c, <3>1, <3>2 DEF Fire, TypeOK
  <2> QED
    BY <1>t, <1>c, <1>2, <1>p, <2>1 DEF Fire, preset, ShownIsPlanned, ShownFireDay
<1>3. CASE Skip
  BY <1>t, <1>c, <1>3, <1>p DEF Skip, ShownIsPlanned, ShownFireDay
<1>4. CASE Run
  BY <1>4, <1>s DEF Run
<1>5. CASE SavePreset
  BY <1>5, <1>s DEF SavePreset
<1>6. CASE ToggleSkip
  BY <1>6, <1>s DEF ToggleSkip
<1>7. CASE Look
  <2>1. SUFFICES ASSUME Upcoming # Silent, pc = "idle"
        PROVE  ShownIsPlanned'
    BY <1>7 DEF Look, ShownIsPlanned
  <2>2. enabled /\ ~FireIsDue
    BY <1>7, <2>1 DEF Look, Upcoming
  <2>3. /\ Upcoming.date - 7 = fired + (IF skip THEN 1 ELSE 0) + 1
        /\ Upcoming.courses = Planned(Upcoming.date - 7, override, altDays)
    BY <1>t, <2>1, <2>2, UpcomingPlanned
  <2>4. /\ shown' = [upcoming |-> Upcoming, while |-> pc]
        /\ UNCHANGED <<start, now, preset, pc, fired>>
    BY <1>7 DEF Look
  <2>5. Planned(ShownFireDay, override, altDays)' = Planned(Upcoming.date - 7, override, altDays)
    BY <2>4 DEF Planned, CourseForYmd, Weekday, FireTime, ShownFireDay, preset
  <2> QED
    BY <2>1, <2>2, <2>3, <2>4, <2>5 DEF ShownIsPlanned, ShownFireDay, preset
<1>8. CASE UNCHANGED vars
  BY <1>t, <1>8, <1>p DEF vars, preset, ShownIsPlanned, ShownFireDay
<1> QED
  BY <1>1, <1>2, <1>3, <1>4, <1>5, <1>6, <1>7, <1>8 DEF Next
-------------------------------------------------------------------------------
(* The invariant and the theorems.                                         *)

\* The invariant holds at first.
LEMMA InitIInv ==
    ASSUME Init
    PROVE  IInv
<1>n. Days - 1 \in Nat /\ EndOfDay(Days - 1) \in Nat
  BY DaysAssumption, DayTimes, TickNumbers
<1>0. 0 \div DayTicks = 0 /\ 0 % DayTicks = 0
  <2>1. PICK d \in Nat, k \in 0 .. DayTicks - 1 :
            0 = Dawn(d) + k /\ 0 \div DayTicks = d /\ 0 % DayTicks = k
    BY DayAndTick
  <2>2. Dawn(d) \in Nat /\ (0 < d => Dawn(0) + DayTicks <= Dawn(d)) /\ Dawn(0) \in Nat
    BY DayTimes, LaterDay
  <2> QED
    BY <2>1, <2>2, TickNumbers
<1>1. TypeOK
  <2>1. NotShown \in [upcoming : Plans, while : {"idle", "waiting"}] /\ Silent \in Plans
    BY DEF NotShown, Silent, Plans
  <2>2. NoOverride \in Overridden
    BY DEF NoOverride, Overridden
  <2>3. snapshot \in [override : Overridden, altDays : AltChoices \union {{}}]
    BY <2>2 DEF Init
  <2>4. now \in 0 .. EndOfDay(Days - 1)
    BY <1>n DEF Init
  <2> QED
    BY <2>1, <2>2, <2>3, <2>4 DEF Init, TypeOK
<1>2. FiresOnTime
  BY <1>0, TickNumbers DEF Init, FiresOnTime, Today, TimeOfDay
<1>3. ShownIsPlanned
  BY DEF Init, ShownIsPlanned, NotShown
<1> QED
  BY <1>1, <1>2, <1>3 DEF IInv

\* It holds in every behaviour.
LEMMA Invariance == Spec => []IInv
<1>1. IInv /\ [Next]_vars => IInv'
  BY TypeStep, FiresStep, PlanStep DEF IInv
<1> QED
  BY <1>1, InitIInv, PTL DEF Spec

\* TypeOK, for every length of the day and every number of days.
THEOREM NextRunTypes == Spec => []TypeOK
<1>1. IInv => TypeOK
  BY DEF IInv
<1> QED
  BY <1>1, Invariance, PTL

\* What a run resolves from an unedited snapshot is what was planned for its day,
\* unless the override has expired since the fire.
LEMMA RunAsPlanned ==
    ASSUME TypeOK, FiresOnTime, pc = "waiting", now >= fired * DayTicks + OpenTick,
           ServerToday = fired, ~LosesOverride
    PROVE  CoursesForRun(snapshot.override, snapshot.altDays)
             = Planned(fired, snapshot.override, snapshot.altDays)
<1> DEFINE o == snapshot.override
           Overriding == o.course # "" /\ (o.until = NoExpiry \/ o.until >= FireTime(fired))
<1>c. now \in Nat /\ Today \in Nat /\ fired \in Nat /\ fired * DayTicks = Dawn(fired)
  BY Clock, TickNumbers DEF TypeOK, FiresOnTime, Dawn
<1>f. FireTime(fired) = Dawn(fired) + FireTick /\ Dawn(fired) \in Nat
  BY <1>c, DayTimes
<1>o. now >= Dawn(fired) + OpenTick
  BY <1>c
<1>1. o \in Overridden
  BY DEF TypeOK
<1>2. Overriding <=> OverrideState(o) \in {"once", "active"}
  <2>1. CASE OverrideState(o) = "expired"
    <3>1. PICK d \in Nat : o.until = EndOfDay(d) /\ now > EndOfDay(d)
      BY <1>1, <2>1, Expiries DEF OverrideState
    <3>2. Today = fired /\ Today > d
      BY <1>c, <2>1, <3>1, PastEndOfDay DEF Today, LosesOverride
    <3>3. ~(EndOfDay(d) >= FireTime(fired))
      BY <1>c, <3>2, EndAndFire
    <3> QED
      BY <2>1, <3>1, <3>3 DEF OverrideState
  <2>2. CASE OverrideState(o) = "none"
    BY <2>2 DEF OverrideState
  <2>3. CASE OverrideState(o) = "once"
    BY <2>3 DEF OverrideState
  <2>4. CASE OverrideState(o) = "active"
    <3>1. o.until = NoExpiry \/ \E d \in Nat : o.until = EndOfDay(d)
      BY <1>1, Expiries
    <3>2. o.course # "" /\ o.until # NoExpiry /\ ~(now > o.until)
      BY <2>4 DEF OverrideState
    <3>3. PICK d \in Nat : o.until = EndOfDay(d)
      BY <3>1, <3>2
    <3>4. EndOfDay(d) \in Int /\ FireTime(fired) \in Int
      BY <1>c, DayTimes, TickNumbers
    <3>n. now \in Nat
      BY <1>c
    <3>u. ~(now > EndOfDay(d))
      BY <3>2, <3>3
    <3>5. now <= EndOfDay(d)
      BY <3>n, <3>u, <3>4
    <3>6. now >= FireTime(fired)
      BY <1>f, <1>o, <3>n, TickNumbers
    <3>7. o.until >= FireTime(fired)
      BY <3>n, <3>3, <3>4, <3>5, <3>6
    <3> QED
      BY <2>4, <3>2, <3>7
  <2> QED
    BY <2>1, <2>2, <2>3, <2>4 DEF OverrideState
<1>3. DateOneWeekAhead = fired + 7
  BY DEF DateOneWeekAhead
<1> QED
  BY <1>2, <1>3, DefaultCourses DEF CoursesForRun, Planned

\* PreviewIsKept: what the home page told before the fire is what the run does,
\* whenever in the day the job fires and however far the server's zone is behind.
THEOREM PreviewsAreKept == Spec => PreviewIsKept
<1> DEFINE Promise == pc = "waiting" /\ pc' = "idle" /\ ~skip /\ shown.while = "idle" => Kept
<1>1. IInv /\ [Next]_vars => Promise
  <2>1. SUFFICES ASSUME IInv, [Next]_vars, pc = "waiting", pc' = "idle", ~skip,
                        shown.while = "idle", shown.upcoming # Silent, ServerToday = fired
        PROVE  /\ ran'.date = shown.upcoming.date
               /\ ~LosesOverride => ran' = shown.upcoming
    BY DEF Kept
  <2>t. TypeOK /\ FiresOnTime /\ ShownIsPlanned
    BY <2>1 DEF IInv
  <2>2. Run
    <3>1. pc' # pc
      BY <2>1
    <3> QED
      BY <2>1, <3>1 DEF Next, Tick, Fire, Skip, SavePreset, ToggleSkip, Look, vars
  <2>3. /\ ran' = [date |-> fired + 7,
                   courses |-> CoursesForRun(snapshot.override, snapshot.altDays)]
        /\ now >= fired * DayTicks + OpenTick
    BY <2>1, <2>2 DEF Run, DateOneWeekAhead
  <2>4. fired \in Int /\ shown.upcoming \in Plans /\ shown.upcoming.date \in Int
    BY <2>t, DaysAssumption DEF TypeOK, Plans
  <2>5. /\ shown.upcoming.date - 7 = fired
        /\ shown.upcoming.courses = Planned(fired, override, altDays)
        /\ snapshot = [override |-> override, altDays |-> altDays]
    BY <2>1, <2>t, <2>4 DEF ShownIsPlanned, ShownFireDay
  <2>6. shown.upcoming.date = fired + 7
    BY <2>4, <2>5
  <2>7. ~LosesOverride => CoursesForRun(snapshot.override, snapshot.altDays)
                            = shown.upcoming.courses
    BY <2>1, <2>t, <2>3, <2>5, RunAsPlanned
  <2>8. shown.upcoming = [date |-> shown.upcoming.date, courses |-> shown.upcoming.courses]
    BY <2>4 DEF Plans
  <2> QED
    BY <2>3, <2>6, <2>7, <2>8
<1> QED
  BY <1>1, Invariance, PTL DEF Spec, PreviewIsKept
===============================================================================

------------------------------ MODULE PresetForm ------------------------------
(***************************************************************************)
(* What the texts of a preset mean on their way from the settings form     *)
(* (settings/page.tsx) through the handlers of preset.go into the row and  *)
(* on to the run (cmd/scheduler/main.go, slotutil.go).  The form, the      *)
(* handler and the scheduler each parse them by rules of their own.        *)
(*                                                                         *)
(* A text is a record: how it is spelled, and what it says to a reader     *)
(* that understands the spelling.  A list of weekdays is a record as well: *)
(* the codes in it and how many entries it has.  The switch and the override are the     *)
(* subject of SettingsPage and NextRun, the interleavings of several tabs  *)
(* of SettingsPage; here one page and one other client of the API save.    *)
(***************************************************************************)
EXTENDS Integers, Sequences, FiniteSets

CONSTANTS
    ClockTexts,     \* bound: clock texts that clients send
    DurationTexts,  \* bound: duration texts that clients send
    DayLists,       \* bound: lists of alt course days that clients send
    Listing,        \* tee times of the club, in the order of its answer
    MaxEdits,       \* bound: edits of the form before it is filled anew
    MaxSaves,       \* bound: saves
    MaxTopics       \* bound: topics generated; random, so never the same twice

ClockSpellings    == {"empty", "spaces", "junk", "short", "padded"}
DurationSpellings == {"empty", "spaces", "junk", "plain", "loose", "padded", "compound"}

\* Hour, minute and second.
Times == Nat \X Nat \X Nat

ASSUME PresetFormBounds == MaxEdits \in Nat /\ MaxSaves \in Nat /\ MaxTopics \in Nat

ASSUME PresetFormTexts ==
    /\ ClockTexts \subseteq [as : ClockSpellings, at : Times]
    /\ DurationTexts \subseteq [as : DurationSpellings, ms : Int]
    /\ DayLists \subseteq [codes : SUBSET STRING, entries : Nat]
    /\ Listing \in Seq(Times)

VARIABLES
    row,            \* columns of the preset, or NoRow
    form, edits,    \* the form of the page, edits since it was filled
    put,            \* put[c]: save of a client between its two statements
    saves, topics,
    \* history
    fresh           \* the form is as it was filled, and so is the row

vars == <<row, form, edits, put, saves, topics, fresh>>

Clients == {"page", "other"}

-------------------------------------------------------------------------------
(* Clock texts: "8:15" is short, "08:15" and "08:15:00" are padded, and    *)
(* mean the same to every reader.                                          *)

Bad == <<>>

Blank(text) == text.as \in {"empty", "spaces"}

\* parseClock, any of its layouts; no hour beyond 23 passes.
parseClock(text) ==
    IF text.as \in {"short", "padded"} /\ text.at[1] < 24 /\ \A i \in {2, 3} : text.at[i] < 60
    THEN text.at ELSE Bad

DefaultCutoff      == [as |-> "short", at |-> <<8, 15, 0>>]
DefaultBookingOpen == [as |-> "padded", at |-> <<21, 59, 0>>]

ParseCutoff(text)  == IF Blank(text) THEN DefaultCutoff.at ELSE parseClock(text)
ParseClockHM(text) == IF Blank(text) THEN Bad ELSE parseClock(text)
FormatClockHM(at)  == [as |-> "padded", at |-> at]

Before(a, b) ==
    \/ a[1] < b[1]
    \/ a[1] = b[1] /\ a[2] < b[2]
    \/ a[1] = b[1] /\ a[2] = b[2] /\ a[3] < b[3]

\* Mutant of SlotsBeforeCutoff: in the order of the club's answer.
SlotsAsListed(times, cutoff) == SelectSeq(times, LAMBDA t : Before(t, cutoff))

Kept(times, cutoff) == {k \in DOMAIN times : Before(times[k], cutoff)}

\* The places in set that sort before the place k; of slots at the same time, here
\* equal, either may be first.
Ahead(times, set, k) ==
    {j \in set : Before(times[j], times[k]) \/ (times[j] = times[k] /\ j < k)}

\* Sorted, the slot with n - 1 others ahead of it is the n-th.
SlotsBeforeCutoff(times, cutoff) ==
    LET kept == Kept(times, cutoff)
    IN  [n \in 1 .. Cardinality(kept) |->
            times[CHOOSE k \in kept : Cardinality(Ahead(times, kept, k)) = n - 1]]

(* Duration texts, with the milliseconds they stand for.  The page takes a *)
(* number and a unit, in any case and with spaces; Go takes no spaces and  *)
(* lower case only, but also signs and compounds such as "1h30m".          *)

GoReads(text)   == text.as \in {"plain", "compound"}
PageReads(text) == text.as \in {"plain", "loose", "padded"}

trim(text) ==
    IF text.as = "spaces" THEN [as |-> "empty", ms |-> 0]
    ELSE IF text.as = "padded" THEN [as |-> "plain", ms |-> text.ms]
    ELSE text

DefaultRetryInterval == [as |-> "plain", ms |-> 1000]
MinRetryInterval     == [as |-> "plain", ms |-> 0]
DefaultTimeout       == [as |-> "plain", ms |-> 600000]

(* Lists of weekdays.                                                      *)

WeekdayCodes == {"MON", "TUE", "WED", "THU", "FRI", "SAT", "SUN"}

\* Every weekday of the set once; they are written in the order of the week.
SerializeWeekdaySet(days) ==
    [codes |-> days \cap WeekdayCodes, entries |-> Cardinality(days \cap WeekdayCodes)]

\* Empty entries are dropped; any other unknown one is an error.
ParseWeekdayCodes(list) == list.codes \ {""}
KnownWeekdays(list)     == ParseWeekdayCodes(list) \subseteq WeekdayCodes
maxAltCourseDaysEntries == 32

-------------------------------------------------------------------------------
(* GET and PUT of /api/v1/preset.                                          *)

NoTopic == 0
NoRow   == [topic |-> NoTopic]

\* A row from before opening times, with the defaults of its columns.
Migrated ==
    [course |-> "", cutoff |-> DefaultCutoff, retry |-> DefaultRetryInterval,
     timeout |-> DefaultTimeout, open |-> DefaultBookingOpen,
     alt |-> SerializeWeekdaySet({}), topic |-> NoTopic]

\* Mutant of Shown: the days are not in the answer.
ShownWithoutDays(r) == [(IF r = NoRow THEN Migrated ELSE r) EXCEPT !.alt = SerializeWeekdaySet({})]

\* GetPreset; without a row, the defaults.
Shown(r) ==
    IF r = NoRow THEN Migrated
    ELSE [r EXCEPT !.alt = SerializeWeekdaySet(ParseWeekdayCodes(r.alt))]

savedRetry(text) ==
    IF ~GoReads(text) THEN DefaultRetryInterval
    ELSE IF text.ms < 0 THEN MinRetryInterval
    ELSE text

\* Mutant of savedOpen: stored as it was sent.
savedOpenRaw(text) == text

savedOpen(text) ==
    IF text.as = "empty" THEN DefaultBookingOpen ELSE FormatClockHM(ParseClockHM(text))

\* What SavePreset answers with 400, if the override is none.
Refused(req) ==
    \/ ~KnownWeekdays(req.alt) \/ req.alt.entries > maxAltCourseDaysEntries
    \/ req.open.as # "empty" /\ ParseClockHM(req.open) = Bad

\* Cutoff and timeout are stored as they are.
Columns(req, topic) ==
    [course  |-> req.course,
     cutoff  |-> IF req.cutoff.as = "empty" THEN DefaultCutoff ELSE req.cutoff,
     retry   |-> savedRetry(req.retry),
     timeout |-> IF req.timeout.as = "empty" THEN DefaultTimeout ELSE req.timeout,
     open    |-> savedOpen(req.open),
     alt     |-> SerializeWeekdaySet(ParseWeekdayCodes(req.alt)),
     topic   |-> topic]

\* Mutant of resolveNtfyTopic: a new topic whenever the flag is on.
resolveNewTopic(existing, enable) ==
    IF enable = "on" THEN topics + 1 ELSE existing

\* resolveNtfyTopic: "unset" when the client has not sent the flag.
resolveNtfyTopic(existing, enable) ==
    IF enable = "unset" THEN existing
    ELSE IF enable = "off" THEN NoTopic
    ELSE IF existing # NoTopic THEN existing
    ELSE topics + 1

-------------------------------------------------------------------------------
(* The run of a row, as processPreset sets it up.                          *)

\* When the run's first call to the club is, for a run fired at now: it waits in the
\* evening only, and not beyond midnight.
MinHour == 21
sleepUntilBookingOpen(now, open) ==
    IF now[1] < MinHour \/ ~Before(now, open) THEN now ELSE open

\* A timeout that is not positive is none.
NoDeadline == 0

Plan(r, now) ==
    [course   |-> r.course,
     startsAt |-> sleepUntilBookingOpen(now, ParseClockHM(r.open)),
     fails    |-> ParseCutoff(r.cutoff) = Bad,
     tries    |-> IF ParseCutoff(r.cutoff) = Bad THEN <<>>
                  ELSE SlotsBeforeCutoff(Listing, ParseCutoff(r.cutoff)),
     deadline |-> IF ~GoReads(r.timeout) THEN DefaultTimeout.ms
                  ELSE IF r.timeout.ms > 0 THEN r.timeout.ms
                  ELSE NoDeadline,
     retry    |-> IF ~GoReads(r.retry) THEN DefaultRetryInterval.ms
                  ELSE IF r.retry.ms < 0 THEN MinRetryInterval.ms
                  ELSE r.retry.ms,
     alt      |-> ParseWeekdayCodes(r.alt),
     topic    |-> r.topic]

-------------------------------------------------------------------------------
(* The form.                                                               *)

\* clockWithSeconds has nothing to add to a text with its seconds.
Filled(resp) ==
    [cutoff |-> resp.cutoff, retry |-> resp.retry, timeout |-> resp.timeout,
     open |-> resp.open, notify |-> resp.topic # NoTopic,
     alt |-> resp.alt.codes \cap WeekdayCodes]

Init ==
    /\ row \in {NoRow, Migrated}
    /\ form = Filled(Shown(row)) /\ edits = 0
    /\ put = [c \in Clients |-> {}]
    /\ saves = 0 /\ topics = 0
    /\ fresh = TRUE

\* An input of type "time" gives a valid time or none, whatever it was given.
InputTimes == {t \in ClockTexts : t.as = "empty" \/ (t.as = "padded" /\ parseClock(t) # Bad)}

Edit ==
    /\ edits < MaxEdits /\ put["page"] = {}
    /\ \/ \E t \in InputTimes : form' = [form EXCEPT !.cutoff = t]
       \/ \E t \in InputTimes : form' = [form EXCEPT !.open = t]
       \/ \E t \in DurationTexts : form' = [form EXCEPT !.retry = t]
       \/ \E t \in DurationTexts : form' = [form EXCEPT !.timeout = t]
       \/ form' = [form EXCEPT !.notify = ~form.notify]
       \/ \E d \in WeekdayCodes :
             form' = [form EXCEPT !.alt = IF d \in form.alt THEN form.alt \ {d}
                                          ELSE form.alt \union {d}]
    /\ edits' = edits + 1 /\ fresh' = FALSE
    /\ UNCHANGED <<row, put, saves, topics>>

\* The first statement of SavePreset reads the row; what follows it decides.
Read(c, req) ==
    /\ put[c] = {} /\ saves < MaxSaves /\ ~Refused(req)
    /\ \E topic \in {resolveNtfyTopic(row.topic, req.notify)} :
          /\ topic <= MaxTopics
          /\ topics' = IF topic > topics THEN topic ELSE topics
          /\ put' = [put EXCEPT ![c] = {[columns |-> Columns(req, topic),
                                         notify |-> req.notify, stale |-> FALSE]}]
    /\ saves' = saves + 1
    /\ UNCHANGED <<row, form, edits, fresh>>

\* The page sends its list of days, each of them once, and the timeout as it is.
Sent(f) ==
    [course |-> "", cutoff |-> f.cutoff, retry |-> trim(f.retry), timeout |-> f.timeout,
     open |-> f.open, alt |-> [codes |-> f.alt, entries |-> Cardinality(f.alt)],
     notify |-> IF f.notify THEN "on" ELSE "off"]

\* handleSubmit checks both durations trimmed.
Submit ==
    /\ \A text \in {trim(form.retry), trim(form.timeout)} :
          text.as = "empty" \/ PageReads(text)
    /\ Read("page", Sent(form))

\* Another client sends the defaults but for one field.
Plain ==
    [course |-> "", cutoff |-> DefaultCutoff, retry |-> DefaultRetryInterval,
     timeout |-> DefaultTimeout, open |-> DefaultBookingOpen,
     alt |-> [codes |-> {}, entries |-> 0], notify |-> "unset"]

Request ==
    \/ \E n \in {"unset", "on", "off"} : Read("other", [Plain EXCEPT !.notify = n])
    \/ Read("other", [Plain EXCEPT !.course = "BRC"])
    \/ \E t \in ClockTexts : Read("other", [Plain EXCEPT !.cutoff = t])
    \/ \E t \in ClockTexts : Read("other", [Plain EXCEPT !.open = t])
    \/ \E t \in DurationTexts : Read("other", [Plain EXCEPT !.retry = t])
    \/ \E t \in DurationTexts : Read("other", [Plain EXCEPT !.timeout = t])
    \/ \E l \in DayLists : Read("other", [Plain EXCEPT !.alt = l])

\* UpsertPreset; the page then loads what it has saved.
Write(c) ==
    \E w \in put[c] :
        /\ row' = w.columns
        /\ put' = [d \in Clients |-> IF d = c THEN {}
                                     ELSE {[v EXCEPT !.stale = TRUE] : v \in put[d]}]
        /\ fresh' = FALSE
        /\ UNCHANGED <<form, edits, saves, topics>>

\* load, of the page that is opened or has saved.
Load ==
    /\ put["page"] = {} /\ ~fresh
    /\ form' = Filled(Shown(row)) /\ edits' = 0 /\ fresh' = TRUE
    /\ UNCHANGED <<row, put, saves, topics>>

Next == Edit \/ Submit \/ Request \/ Load \/ \E c \in Clients : Write(c)

Spec == Init /\ [][Next]_vars

-------------------------------------------------------------------------------
(* Properties.                                                             *)

Clock    == [as : ClockSpellings, at : {t.at : t \in ClockTexts} \union
                                        {DefaultCutoff.at, DefaultBookingOpen.at}]
Duration == [as : DurationSpellings, ms : {t.ms : t \in DurationTexts} \union
                                          {0, 1000, 600000}]
Canonical == {SerializeWeekdaySet(s) : s \in SUBSET WeekdayCodes}

\* A row that SavePreset may write: its opening time and retry interval are read by
\* the scheduler without a fallback, and its days are weekdays, each of them once.
Rows ==
    {r \in [course : {"", "BRC"}, cutoff : Clock, retry : Duration, timeout : Duration,
            open : Clock, alt : Canonical, topic : 0 .. MaxTopics] :
        ParseClockHM(r.open) # Bad /\ GoReads(r.retry) /\ r.retry.ms >= 0}

Forms == [cutoff : Clock, retry : Duration, timeout : Duration, open : Clock,
          notify : BOOLEAN, alt : SUBSET WeekdayCodes]
Saves == [columns : Rows, notify : {"unset", "on", "off"}, stale : BOOLEAN]

\* Types of all variables; rows are canonical.
TypeOK ==
    /\ row = NoRow \/ row \in Rows
    /\ form \in Forms
    /\ put \in [Clients -> SUBSET Saves]
    /\ edits \in 0 .. MaxEdits /\ saves \in 0 .. MaxSaves /\ topics \in 0 .. MaxTopics
    /\ fresh \in BOOLEAN

\* When the cron job fires, and a start of the process in the morning.
CronFire == <<21, 55, 0>>
Fires    == {CronFire, <<9, 0, 0>>}

\* An input of type "time" stays blank if its value is not a padded time.
TimeShown(text) == text.as = "padded" /\ parseClock(text) # Bad

Count(seq, t) == Cardinality({k \in DOMAIN seq : seq[k] = t})

TriesBefore(tries, cutoff) ==
    /\ \A t \in {Listing[k] : k \in DOMAIN Listing} \union {tries[k] : k \in DOMAIN tries} :
          Count(tries, t) = IF Before(t, cutoff) THEN Count(Listing, t) ELSE 0
    /\ \A i, j \in DOMAIN tries : i < j => ~Before(tries[j], tries[i])

\* The run does what the page shows.  It tries every slot before the cutoff and no
\* other, earlier ones first; it waits for the time shown, if the job fires before
\* it in the evening; it pauses between passes, tries the other course and notifies
\* as shown.  There are two exceptions.  A cutoff that is not a padded time, the
\* default one included, shows as blank, and fails the run if it was junk.  A
\* timeout that the page accepts in a spelling of its own means ten minutes.
ShownIsDone ==
    fresh /\ row # NoRow => \A now \in Fires :
        LET plan == Plan(row, now) IN
        /\ TimeShown(form.cutoff) => ~plan.fails /\ TriesBefore(plan.tries, form.cutoff.at)
        /\ plan.fails => ~TimeShown(form.cutoff) /\ form.cutoff.as # "empty"
        /\ plan.startsAt \in {now, form.open.at} /\ ~Before(plan.startsAt, now)
        /\ now = CronFire /\ Before(now, form.open.at) => plan.startsAt = form.open.at
        /\ PageReads(form.retry) => plan.retry = form.retry.ms
        /\ plan.deadline = IF GoReads(form.timeout) /\ form.timeout.ms >= 0
                             THEN form.timeout.ms
                           ELSE IF GoReads(form.timeout) THEN NoDeadline ELSE 600000
        /\ plan.alt = form.alt
        /\ (plan.topic # NoTopic) = form.notify

\* Saving the form as it was filled changes nothing of what the run does, except
\* that the page clears a course that another client had fixed.
ResavingChangesNothing ==
    [][put["page"] # {} /\ put'["page"] = {} /\ fresh =>
          \A now \in Fires :
              Plan(row', now) =
                  [Plan(IF row = NoRow THEN Migrated ELSE row, now) EXCEPT !.course = ""]]_vars

\* Who has subscribed to the topic keeps getting the notifications, and who has
\* switched them off gets none, until a save says otherwise; only a save that had
\* read the row before the last one was written may replace a topic or revive one.
TopicsKept ==
    [][\A c \in Clients : \A w \in put[c] : put'[c] = {} =>
          \/ w.stale
          \/ row'.topic = row.topic
          \/ row'.topic = NoTopic /\ w.notify = "off"
          \/ row.topic = NoTopic /\ w.notify = "on"]_vars
===============================================================================

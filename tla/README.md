# Formal models of fore-cast

fore-cast books golf tee times. A web app keeps its users' presets; a cron job,
the scheduler, logs in at the golf club every evening for every enabled preset and
books the earliest free tee time one week ahead, on one or on both courses (BRC,
PLC). This directory holds TLA+ models of the program, TLC runs that check them,
and TLAPS proofs about them. Every definition is a translation of the source;
`PROJECT.json` names the lines of each (`map`), the hazards the properties are
for, and what every run shows.

Run `tlc -config X.cfg M` for a row of the table under *Runs*, and
`tlapm RunnerProofs.tla` (and the seven other modules named `...Proofs`) for the proofs.

## 1. Inventory

| Component | State | Operations | Meets |
|---|---|---|---|
| Booking runner, `internal/runner` | position in the slot list, `allSeenReserved`, Rapid backoff, token | `Run`, `runOnePass`, `tryBookSlot`, `tryRefreshToken`, waits | the club (calls), the scheduler (context, refresh callback, result) |
| Scheduler, `cmd/scheduler` | per preset: goroutine, snapshot, context, results; semaphore | `run`, `processPreset`, poller, deferred clean-ups | runner, preset store, history, notifications |
| Preset store, `internal/preset` | table `booking_presets` | one SQL statement per operation | scheduler and web app concurrently |
| Preset handlers, `internal/handlers/preset.go` | none | save, cancel, queue or undo a skip | preset store |
| Course, date and text rules, `internal/slotutil`, `ui/src/utils/date.ts` | none | course of a date, next fire, one week ahead; clocks, weekday lists, cutoff | scheduler, preset handlers, pages |
| Home page, `ui/src/components/HomeContent.tsx` | what was loaded | preview the next run, skip it | preset handlers |
| Settings page, `ui/src/app/settings` | form fields, spinners, a status | load, poll, save, cancel the run | preset handlers, the scheduler's writes |
| Accounts and roles, `internal/user`, `credentials`, `handlers/admin.go` | table `user_credentials` | register, set role, delete user or preset | sessions, presets |
| Sessions, `internal/session`, `handlers/auth.go`, `middlewares` | table `user_sessions` | login, logout, authenticate, reap | accounts, every request |
| Slots and booking pages, `ui/src/app/slots`, `booking`, with `handlers/booking.go`, `slots.go` | date picked, list, bookings, spinners, toast | list, check and book, cancel, reload, poll | the club, the scheduler's status |
| Login callback and token refresh, `cmd/scheduler`, `middlewares/tokenrefresh.go` | mutex `loginMu`; a token per worker and per request | log in at the club | runner, the club's sessions of the account |
| Create-user command, `cmd/createuser` | none | one upsert | accounts |
| Booker client, `internal/booker` | none (a token per call) | HTTP calls | the club |
| History, notifications | table `booking_attempts`; none | log, list, prune; send | scheduler |

They interact through four tables and the club's account. The scheduler is a
process of its own: it shares nothing with the web app but the database. What makes
the program hard:

- **Concurrency.** Up to `MAX_CONCURRENT_PRESETS` presets at once, one or two
  workers each, a poller per preset, and the web app's requests between any two
  statements. No statement is locked against another; only `DeleteUser` is a
  transaction.
- **Stopping.** A context may be done (deadline or user) during any call, and the
  run must then neither book on nor report the wrong reason.
- **Failure.** The club's session expires (CODE103), its account is locked
  ("Rapid"), a check fails, the answer to a booking is lost; a write to the
  database fails and is only logged; the process is killed and the row still says
  "running".
- **Asynchronous pages.** Requests of one page overtake each other or are lost, and
  spinners, forms and toasts have to come out right whatever the order.
- **Stale data.** The snapshot of the preset is taken at 21:55 and used at
  `booking_open`; roles are read once per request; the home page predicts what the
  scheduler will do with rules written a second time in TypeScript.
- **One club account.** Two workers and the user's pages log in at the club for the
  same member, and a login may end the sessions of the others.
- **Three readers of one text.** Page, handler and scheduler each parse clocks and
  durations by rules of their own, and some columns are stored unchecked.

What makes each component correct is listed with its module below.

## 2. Modules

    BookingRun     contract of one booking run
      ^ implemented by          ^ used as the worker of
    Runner                    Scheduler --extends--> PresetStore
                              SettingsPage --extends--> PresetStore
    NextRun    course and date, scheduler against home page
    Accounts   accounts, roles and sessions
    WebBooking slots page and booking page against the club
    SharedLogin  two workers and the web app on one club account
    PresetForm   texts of a preset: form, handler, row, run
    RunnerProofs, SchedulerProofs, AccountsProofs, NextRunProofs,
    SettingsPageProofs, WebBookingProofs, SharedLoginProofs, PresetFormProofs
               extend the module they name
    MCRunner, MCAccounts, MCNextRun, MCPresetForm
               instances for TLC

**BookingRun** says what a run promises its caller: it ends once, with "success"
exactly when the club confirmed one booking to it, and "cancelled" only if the
context was cancelled.

**Runner** is `runner.go`. One action is one call to the club with one of its
answers, or one early return. `pc` is the place in `Run` and `runOnePass`; `i`,
`slots`, `allSeenReserved`, `rapidWait` and `waitKind` are the variables of the
code; `ctx` the context, `tokenValid` the club's session. Slots are numbers: the
cutoff filter has run. Histories: `held` (bookings at the club, confirmed or not),
`said` (what each slot of the pass was answered), `blocked` (heard in this pass that
the account is), `owed` (seconds of sleep that such an answer demands and that have not
been slept), `rapids`, `late` (calls answered after the context was done). `owed` is the
property's own reckoning: it is set from the configured waits, not from the wait the
code computes, and only a sleep that runs to its end pays it. A booking whose answer is lost is held
but not confirmed. A zero delay does not look at the context (`sleepCtx`), which
the model keeps by testing the wait.

**PresetStore** is the row of a preset as its SQL statements change it, with their
WHERE clauses: a cancel is accepted while the row says running, a skip while the
preset is enabled, `ConsumeSkipNextRun` is one conditional UPDATE.

**Scheduler** is `main.go` and the handlers that write the same rows. Each SQL
statement of `processPreset` is an action; so are the poller's read, a worker's
return, the parent's receive, and the deferred clean-ups in their order. Workers
are instances of BookingRun (`Worker(u, c)!MayReport`), which is what Runner is
proved to implement. `Try` lets a write fail; `Crash` kills the process and keeps
the rows. Columns that no property tells apart are left out; an override is
"none", "once", "later" (stays valid) or "today" (expires at
`Midnight`).

**Accounts** is the tables `user_credentials`, `user_sessions` and the keys of
`booking_presets`, and every route that writes them. A request is a sequence of
statements (session, role, credentials for club calls, handler), interleaved with
those of other requests. `rolesSeen`, `loggedOut`, `racing` and `raced` are
histories. Passwords either match, and then the action happens, or do not. The
`createuser` command is an upsert that no request stands behind.

**NextRun** counts time in ticks and puts side by side what the scheduler decides
when a run starts (`CoursesForRun`, `DateOneWeekAhead`) and what the home page says
it will (`Upcoming`). The settings page leaves the preset's own course empty and
makes overrides expire at the end of a day, and so does the model. The snapshot of
21:55, the read of the skip at `booking_open`, and edits in between are there. A run
may be held up by the semaphore past midnight, and the server's zone, which takes
part in `DateOneWeekAhead` and which no file of the repository sets, may be behind
Malaysia's (`lag`).

**SettingsPage** is `settings/page.tsx` on the row of PresetStore, while a run of the
scheduler comes and goes. A request is a record in `calls`: it is sent, served (then
it carries a copy of the row) and delivered, in any order with the others of its
tab, or it fails. The switch and the override stand for all fields of the form.
`version` counts the writes of the row; `written` and `filled` say which of them a
tab has made and shows. They are histories, as is `touched`, the fields the member
has edited.

**WebBooking** has what a tap goes through (check, pause and book; or cancel and the
reload after it) as stages of one record `tap`, because the buttons are disabled
meanwhile; the list on its way is `listing`. Loads of the bookings and
polls of the status may overtake each other and are sets. `done` and `doubtful` are
histories: what the club has done for the last tap, and whether an answer was lost.
`ToastFor` has three texts, since a booking that the club made without a BookingID is
answered with 200 and announced as "Booking failed - no confirmation received".
A tab stays on one page, since leaving it drops its state.

**SharedLogin** is Runner seen from the club's sessions: where a worker calls the
club, looks at its context, waits for `loginMu` and logs in, for two workers that
start with the same token. `single` says whether the club keeps one session per
account; both kinds of club are checked. `live` is the sessions the club accepts,
`losses` how often a worker lost its own, `refused` whether a login of it was
refused. `TokenRefresh` is a page that logs in for itself; `Panic` is a worker that
panics, whose deferred unlock and `recover` run. What a call answers is free, and
`BookRefused` allows a little more than Runner does (a blocked booking may end the
pass or not): for the sessions both ways out are the same.

**PresetForm** follows the texts of a preset from the form through `SavePreset` into
the row, and from there into a run (`Plan`) and back into the form (`Shown`,
`Filled`). A text is a record: its spelling, and what it says to a reader that knows
the spelling. A list of weekdays is the codes in it and how many entries it has: only
the order in which they are written, which no reader looks at, is left out. The sorted
slots of the run are given by rank, the slot with n - 1 others ahead of it being the
n-th. The page sends what its inputs allow; a second client of the API sends
any text in any field. A save is two steps, the read that decides the topic and the
upsert, so saves interleave. The switch and the override are the subject of
SettingsPage and NextRun; a failed request leaves the row as it was and is left out.

## 3. Runs

| Run | Module, config | Instance and bounds | Shows |
|---|---|---|---|
| `runner` | `MCRunner`, `RunnerFull` | 3 slots, all four modes, any number of lost sessions, the waits of production | nine properties hold |
| `runner_blind_book` | `MCRunner`, `RunnerBlindBook` | the same, 2 slots | the README is contradicted |
| `scheduler_one` | `Scheduler`, `SchedulerOne` | 1 preset, 2 days, 2 requests, 1 kill, 1 failed write | six properties hold |
| `scheduler_two` | `Scheduler`, `SchedulerTwo` | 2 presets, 1 semaphore slot, 1 day, fair | bound and progress |
| `scheduler_stale_cancel`, `scheduler_override_lost` | `Scheduler`, ... | as `scheduler_one`, fewer faults | a comment is contradicted |
| `accounts` | `MCAccounts`, `Accounts` | 2 users in any roles, 2 requests at a time, 2 sessions | five properties hold |
| `next_run` | `MCNextRun`, `NextRun` | 3 days of 4 ticks from three weekdays, server in Malaysia's zone or a tick behind | page and scheduler agree |
| `settings_page` | `SettingsPage` | 1 tab, 2 requests at a time, 2 saves, 1 run, 1 failing request, fair | four properties hold |
| `web_booking` | `WebBooking` | 1 tab on either page, 2 dates, 1 time, 2 taps, 1 run, 1 lost answer, fair | four properties hold |
| `shared_login` | `SharedLogin` | 2 workers, both kinds of club, any number of expiries and page loads, fair | four properties hold |
| `preset_form` | `MCPresetForm`, `PresetForm` | 9 clock and 9 duration texts, 6 weekday lists, 5 listed slots, 3 saves of 2 clients, 1 edit per form, 2 topics | four properties hold |

Why the bounds are enough to be interesting:

- *Runner.* Three slots make "earlier" and "the rest of the pass" mean something in
  the middle of a pass. Sessions are lost and passes repeated without limit.
  `MaxRapids` only stops a history counter: with four Rapid answers the backoff
  reaches its cap (3, 6, 12, 24). The proofs below lift both.
- *Scheduler.* Two days are needed for whatever one run leaves to the next; one
  kill and one failed write are allowed together, so the second can strike during
  the repair of the first. Two requests allow cancel and save, or delete and save,
  in one run.
- *Accounts.* Two requests are the least that race, two users that can act on each
  other, two sessions that a user can have at a time. Users, requests and sessions
  are symmetric: every initial assignment of roles is tried.
- *NextRun.* Four ticks put one before the fire, one at it, one at `booking_open`,
  and one at the end of the day, where overrides expire; three days allow an
  override to end on the first, in between, or beyond, with a skip on the way. The
  days booked are a week ahead: beginning on Sunday, Tuesday and Friday they cross
  both changes of the default course, and every weekday is booked for. A run is held
  up for less than a day.
- *SettingsPage.* Two requests at a time is the least with which one overtakes
  another; two saves allow one to be under way, or to be stale, when the first is
  done; the run spends a one-shot override behind the page. Two tabs are beyond a
  run of minutes; what a second one would do to the first (write the row between its
  load and its save) the scheduler's run does.
- *WebBooking.* The account begins with any set of bookings; two taps allow booking
  again what was refused, or cancelling two flights with a reload in between; two dates allow the picker to be moved while a
  list or a tap is under way. The proofs lift the bounds for the safety properties,
  any number of tabs included.
- *SharedLogin.* Two courses are all there are. Nothing is bounded: `losses` counts
  to two because a third loss adds nothing to the property.
- *PresetForm.* A text of every spelling, with times before, at and after the
  defaults, midnight, and an hour that is none; slots in no order, two at the same
  time and one at the default cutoff. Three saves allow two to overlap after a first
  one has made the row; they never ask for a third topic.

Deadlock checking is off in all of them: a run returns, the last day ends, session
ids, taps and saves run out. Where nothing may stop, progress is stated
(`Termination`, `EveryPresetFinishes`, `TabsUnlock`, `TabsComeBack`,
`EveryWorkerReturns`).

### Fairness

`Runner!FairSpec` assumes that a goroutine runs, that calls end (the HTTP client
has a timeout), that sleeps end, and that a run with a timeout has a deadline that
comes. It does not assume that the club answers well, that a session lasts or that
anybody cancels. `Termination` is stated for the runs that have a deadline, and for the
others if the session settles (`SessionSettles`: it is good for ever or lost for ever
from some moment on). Without that they need not end: after every CODE103 with a good
refresh the loop begins another pass. `Scheduler!FairSpec` assumes that each preset's
goroutine runs and that a worker returns. The last is `Termination` of Runner, so that
`EveryPresetFinishes` is about presets with a timeout above 0, or a club that does not
go on dropping the session. Semaphore slots are taken
weakly fair: every holder releases, so a queued preset is enabled for good once the
others are done.

`SharedLogin!FairSpec` assumes that each worker runs and its calls end, and that the
deadline comes: the run has a timeout. It assumes nothing about the order in which
waiting workers get the mutex, nor that a login succeeds.

The two pages assume that a request is served or fails and its answer delivered
(`fetch` settles; the server and its client have timeouts), that the interval timer
of a locked page fires, and that a run of the scheduler ends and reports, which
`EveryPresetFinishes` and `NoRunLeftRunning` are about. They do not assume
that a request succeeds, nor in which order answers come.

### Properties

Runner: `StopsAtFirstBooking` (no second booking; success exactly when confirmed),
`EarlierSlotsTriedFirst`, `NoCallWhileBlocked` (after a closed window or a Rapid answer
no call until a sleep of at least the cooldown, or the first Rapid wait, has run to its
end), `RapidWaitFollowsSchedule` (2^n through
refreshes), `FewCallsAfterStop` (at most two), `ResultIsTrue` (the
run never gives up for good on a wrong count of reserved slots, and blames a
cancellation or the deadline only if it happened; one way only, for a cancelled run
may still say "session expired"), `ImplementsBookingRun`, `Termination` (with a
deadline, or a session that settles).

Scheduler: `NoLeftoverCancel`, `NoRunLeftRunning` (both also after a kill, once a
run has been completed), `CancelBelongsToRun`, `OneShotsServeOnce` (a skip and an
override for the next run serve one run each, also across kills),
`BookingsAreReported` (every course that was started is logged, and a cancellation
never hides a booking), `SemaphoreBound`, `EveryPresetFinishes`.

Accounts: `RoleHeldDuringRequest` (the role a handler relies on was held at some
moment of the request), `RoleChangesOnlyBySetRole`,
`NothingOutlivesAccount` (no preset, and no session except of a login racing the
deletion), `LogoutIsFinal`.

NextRun: `PreviewIsKept`. It is about pages loaded while no run is waiting: between
the fire and `booking_open` the page already shows tomorrow's run. Of a run held up
past midnight it excepts an override that has expired meanwhile, and says nothing if
midnight has passed for the server too: the run then books a day later than shown.

SettingsPage: `OverwritesOnlyWhenStale` (a save leaves alone what the member has not
edited, unless the row was written after the form was filled: then the save undoes
that write, and can arm a spent override again; nothing in the code stops it),
`ShownAfterSave` (the form shows the row as of its save or later), `TabsUnlock`.

WebBooking: `ToastIsTrue` (except that a failure may be said of a tap whose answer
was lost; the one failure text that is said of a booking the club has made is "no
confirmation received", and it is said of nothing else), `BooksWhatWasListed` (except after the picker was moved: the tap then
joins the new date with a time of the old list), `TabsComeBack` (except that the
spinner in place of the bookings stays if the status of the preset never became
known: the effect that loads them waits for it).

SharedLogin: `LoginsOneAtATime` (and the mutex is free whenever nobody logs in, also
after a refused login or a panic), `OneLossIsSurvived` (a worker gives up with
"session expired" only if its context is done, a login was refused, or it lost a
second session before it had its slots), `EveryWorkerReturns`. Proved only:
`LoginsReplaceLostSessions`.

PresetForm: `ShownIsDone` (every slot before the cutoff shown is tried, earlier ones
first; the wait, the pauses, the alternate days and the notifications are those
shown), except for a cutoff that the time input shows as blank and a timeout in a
spelling that only the page reads; `ResavingChangesNothing`; `TopicsKept`
(subscribers keep their topic, except for saves that had read the row before the
last one was written).

### Where the code and its documentation differ

Each is a run whose property is the quoted text (`findings` in `PROJECT.json`):

1. A closed window does not end the pass if it was the answer to a booking made
   without a successful check.
2. After a kill, a cancel requested next morning cancels the next evening's run.
3. The scheduler clears an override that was saved after its snapshot.

Others met on the way, without a run of their own:

- `runner.go:78` says that with a timeout of 0 "exactly one full pass is attempted";
  after CODE103 and a refresh there is another (`runner.go:176`), and so on without end
  if the club answers CODE103 for ever to sessions it grants. Presets may be stored
  with a timeout of 0.
- A booking whose result has no BookingID is passed on as a success (`booking.go:158`),
  and the page says "Booking failed - no confirmation received" (`slots/page.tsx:118`)
  of a flight that is booked.
- `runner.go:133` says that cancellation "yields StatusCancelled"; a cancelled run
  that meets CODE103 reports "session expired" (`runner.go:178`).
- `README.md:72` says that the workers "share one login" and go on "until the preset
  timeout". The mutex only makes them log in one after the other, each for itself;
  in a club that keeps one session a worker may so end the other's. And a worker
  whose first two listings of the slots are rejected gives up at once, which is the
  last case of `OneLossIsSurvived`.
- `createuser -role` on a user who exists keeps the old role: the conflict clause of
  `Upsert` leaves it alone, and the log line says otherwise.
- The default cutoff "8:15" is not a value of a time input: the page shows it as
  blank, and a cutoff blanked by the user becomes 8:15.
- The page accepts "1H" or "10 m" as durations, which `time.ParseDuration` does not:
  such a timeout runs as ten minutes, such a retry interval is stored as one second.
- A worker waiting for `loginMu` does not look at its context again before it logs in.

## 4. Proofs

`RunnerProofs` proves, for every number of slots, set of modes and bound (the
assumptions are those of `Runner`: the waits are naturals, modes are records of two
Booleans), that every behaviour of `Runner!Spec` satisfies `TypeOK`,
`StopsAtFirstBooking`, `EarlierSlotsTriedFirst`, `NoCallWhileBlocked`,
`FewCallsAfterStop`, `ResultIsTrue` (with its parts `AllReservedIsTrue` and
`StopReasonIsTrue`), and implements BookingRun. `RapidWaitFollowsSchedule` is proved for
every back-off that reaches its cap within `MaxRapids` doublings, at most eight
(`CappedBackoff`: the code has 3 s and 24 s, capped by the fourth). Without the first
condition the property would say less than the schedule, since `rapids` stops counting
at `MaxRapids`; the second is there because powers of an unknown exponent are beyond the
provers. Its invariant is `BackoffOK`: the next wait is the one of the schedule, whatever
refreshes, checks and interrupted sleeps there were since the last Rapid answer.

None of these is inductive alone. The inductive invariant is a conjunction of named
parts. It ties `pc` to what the pass has done so far: every slot before `i` has
been answered; while `allSeenReserved` is true those answers are all "reserved";
a run that owes a wait is in a sleep at least that long, or is over (`QuietWhileOwing`:
`WaitPaysOff` shows that the wait the code computes is never shorter than what the answer
demands, whatever passes came before); `confirmed` is empty until the run is over;
`late` is bounded by how many calls the present place still allows; and the result
is "running" exactly until `pc` is "done". Each action preserves each part (one
step per action), the properties follow from the parts, and the refinement maps
`Deadline` and `Cancel` to `StopRun`, the confirming booking to `Succeed`, each
other return to `GiveUp`, and all else to stuttering.

`AccountsProofs` proves, for every set of users, of concurrent requests and of session
ids, `TypeOK` and the four other properties of the run `accounts`. The assumptions
are those of `Accounts`: the marks "none", "unused" and "deleted" are not names of
users, nor "none" a session id. What a request knows makes them inductive: it works for a
user; `rolesSeen` holds the present role of that user, so that the role read by
`SessionAuth` and checked by `RequireAdmin` was held since; a login
that is about to insert a session for a user without an account is in `racing`,
because `DeleteUser` put it there; and the row of a session that was logged out is
gone for good.

`WebBookingProofs` proves, for every set of tabs, dates and times and every bound,
`TypeOK`, `ToastIsTrue` and `BooksWhatWasListed`. The invariant says of a tap under
way what the club has done about it at each stage (`TapsKnown`: nothing up to the
call that books or cancels, all of it from "ok" or a 200 without a BookingID on, and
after a failure nothing unless the answer was lost), and of a list, shown or under way, that it is the one
of the picker's date unless the picker was moved (`ListsMatch`).

`SharedLoginProofs` proves, for every set of courses, `TypeOK`, `LoginsOneAtATime`,
`OneLossIsSurvived` and `LoginsReplaceLostSessions`; the only assumption is that the
name of the first session is not that of a course. The invariant adds what a
worker's session tells of its losses (`SessionsOK`: a session of its own means one
loss, one the club has dropped means another) and what its label tells
(`ControlOK`: a worker that refreshes has lost its session, a worker that lists for
the second time has one of its own). Without the first, "a second session" in
`OneLossIsSurvived` could not be counted; without the second, a login could hit a
good session.

`SchedulerProofs` proves, for every finite set of users, every capacity of the
semaphore and every bound on days, requests, kills and failed writes, `TypeOK`,
`SemaphoreBound`, `NoLeftoverCancel`, `NoRunLeftRunning`, `OneShotsServeOnce`,
`BookingsAreReported` and `CancelBelongsToRun`. The assumptions are that the users
are finite, the capacity is positive and the bounds are naturals. The invariant ties
each row to its goroutine: a missing row holds the defaults of an INSERT (`RowOK`);
nothing is decided, told or received before its time (`OutcomeOK`); what was
received is in the history (`HistoryOK`); a cancel request in the row was made during
this run (`CancelOK`); the skips not served yet are those in the row (`SkipOK`); and
an override "once" in the row was saved and not used, unless the run that used it
has still to clear it (`OnceOK`), without which a run could spend one override
twice. The semaphore is the cardinality of the set of its holders, which a step
leaves, empties, or changes by one (`HoldersStep`).

`SettingsPageProofs` proves, for every set of tabs and every bound on requests, saves,
runs and failures, `TypeOK`, `OverwritesOnlyWhenStale` and `ShownAfterSave`. The run has
one tab; the theorems say the same of any number. The assumptions are that the member is
a user and the choices are overrides or "undated". The invariant says which forms,
requests and answers still agree with the row: those that carry its present version, in
every field that was not edited, except that an expired override is still shown
(`FormsOK`, `CallsOK`); nothing carries a version from the future (`VersionsOK`); a tab
has one load or save at a time, behind its spinner, and an answered load was served after
the tab's last save (`LoadsOK`), which is all of `ShownAfterSave`.

`NextRunProofs` proves, for every length of the day, every time of the fire and of the
opening in this order, every number of days, every first weekday and every lag of the
server's zone up to the fire, `TypeOK` and `PreviewIsKept`. The invariant has two parts:
`FiresOnTime` (the job has fired today once its time is past, and not before) and
`ShownIsPlanned` (as long as no edit has outdated the page, the run that it announced is
the next to come, or the one that waits, and the row or its snapshot still says what was
shown). The rest is arithmetic: the day and tick of a time, and the page's expiry rule
at the fire against the scheduler's at the opening. An override that is valid at the fire
and expires at the end of a day is valid for the rest of the run's own day.
`OverrideState` is an IF chain for the proof: as a CASE its arms overlapped, which leaves
open in TLA+ which of them counts.

`PresetFormProofs` proves, for every set of texts and of weekday lists that clients may
send, every listing of the club and every bound, `TypeOK` (rows are canonical, and their
opening time and retry interval can be read without a fallback), `ShownIsDone`,
`ResavingChangesNothing` and `TopicsKept`. The assumptions are the types of the texts.
Three arguments carry it. *Sorting*: a place is ahead of another by time, then by its
place in the listing; what is ahead of an earlier place is a proper part of what is ahead
of a later one, so the ranks are distinct, and by their number they are all of 1 to n;
hence each slot is tried as often as it was listed, earlier ones first (`SlotsAreTried`).
*Round trip*: `Shown` and `Filled` of a row lose nothing that `Plan` reads, and what
`SavePreset` makes of the form means the same again (`SentBack`). *State*: a save between
its two statements has the topic its row had, unless it was overtaken
(`TopicsResolved`); a form that nobody touched shows the row (`FormShowsRow`); and its
save is of that form and that row (`SaveIsOfForm`), because the page loads only when it
has no save under way.

In all eight modules the lemma for a part of the invariant has one step per action of
`Next`, or the lemma for an action one step per part; one lemma combines them, and the
theorems about single properties follow from it. Action properties follow from the
invariant and the few actions that can make such a step. Each invariant was checked by
TLC on the instance of the run before it was proved.

Only model-checked: the liveness properties (`Termination`, `EveryPresetFinishes`,
`TabsUnlock`, `TabsComeBack`, `EveryWorkerReturns`), for fairness is beyond the prover,
and the back-off beyond eight doublings. Every invariant and every action property of a
passing run is proved. The three properties that the code violates are not theorems.

## 5. Not modelled

- The club itself. Its answers are free choices in Runner, limited to those the
  client distinguishes; whether a login ends an earlier session of the same account
  is not known from this repository, and SharedLogin has both.
- HTTP, JSON, encryption, logging, display formats and wording, start-up
  and configuration. `MaxConcurrentPresets` is assumed positive: with 0 every
  goroutine would block.
- A booking whose answer was lost is not seen by the runner: it may then hold a
  second one. `StopsAtFirstBooking` is about confirmed bookings.
- `Store.Delete` ignores database errors, so a failed logout leaves its session.
- Whether a demoted or promoted user's preset should go on running: nothing in the
  code says so.
- Cleanup and dry-run: a single DELETE of old history, and a test double.
- Texts beyond a spelling and a meaning: fractions of seconds, layouts of Go that no
  client sends, weekday codes in other letter cases.
- Pages: rendering, routing, and the admin pages,
  which are forms over operations of Accounts. `CheckStatus` has no caller in `ui/`.
- A run under way goes on writing history rows for a user who is deleted meanwhile;
  the schema has no foreign key there and nothing is promised.
- Steps that are finer in the code, where no property of the module tells the difference:
  `SettingsPage!BeginRun` is the snapshot and the UPDATE to "running" (they are two
  actions in Scheduler); `Accounts!RemoveUser` is the four statements of `DeleteUser`'s
  transaction, which is READ COMMITTED, so that a statement of another request could see
  or write between them what the model orders before or after; `Scheduler!LoginFails`
  is `logAttempt` and the notification.
- `NextRun!Upcoming` is about a page that shows a next run; while a run is on
  the page shows none (`HomeContent.tsx:150`), and there a run is one step.
- The slots page when the club lists `null`: the handler passes `"slots": null` on
  (`slots.go:69`), and `res.slots.length` and the rendering then throw; the model has an
  empty list. `cancelRun` of the slots and booking pages is `EndRun`, which may come at
  any moment, and a poll. A poll refused with a 401, which ends the session in the app, is
  not in WebBooking; loads and taps refused so are.
- A skip queued between 21:55 and `booking_open` is consumed by the run already
  waiting, while the page shows the next one: `PreviewIsKept` leaves that window out.

## 6. Plan

Done, in this order: Runner with BookingRun and its proofs; PresetStore,
Scheduler and its proofs; Accounts and its proofs; NextRun; SettingsPage; WebBooking
and its proofs; SharedLogin and its proofs; PresetForm; the proofs of SettingsPage,
NextRun and PresetForm, and of the back-off of Runner.

Next:

1. More that theorems can say of what is modelled: that a killed run of Scheduler
   leaves nothing that the next one does not put right, with the parts of
   `NoLeftoverCancel` and `NoRunLeftRunning` that only hold while nothing fails stated
   apart; the safety half of each liveness property (who holds the mutex, the semaphore
   or a spinner has a step to take).
2. Freshness of the booking page's list: which load may be shown last after a
   cancellation, and how long a cancelled booking can stay on the page. The history
   page and the cleanup of old rows.

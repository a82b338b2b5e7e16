------------------------------ MODULE WebBooking ------------------------------
(***************************************************************************)
(* Booking and cancelling by hand: the slots page and the booking page of  *)
(* ui/, the handlers of slots.go and booking.go, and the answers of        *)
(* internal/booker.                                                        *)
(*                                                                         *)
(* A tab shows one of the two pages.  It has at most one list of slots on  *)
(* its way and one Book or Cancel tap (their buttons are disabled          *)
(* meanwhile), but its polls of the preset, which tell it whether the      *)
(* scheduler runs, and its loads of the bookings may overtake each other.  *)
(* TokenRefresh logs each request in at the club before its handler runs:  *)
(* that may fail as "unauthorized" at its first call.  The club (external) *)
(* answers as it likes, and an answer may be lost: that of the club to the *)
(* server, or that of the server to the page.                              *)
(***************************************************************************)
EXTENDS Integers

CONSTANTS
    Tabs, Dates, TeeTimes,
    MaxTaps,        \* bound: Book and Cancel taps
    MaxLost,        \* bound: lost answers
    MaxRuns         \* bound: runs of the scheduler

ASSUME BookingBounds == MaxTaps \in Nat /\ MaxLost \in Nat /\ MaxRuns \in Nat

VARIABLES
    bookings,       \* at the club: flights booked on the account
    running,        \* the preset's row says running
    page,           \* "slots" or "booking": where a tab is
    user,           \* tabs whose AuthContext holds a user
    date,           \* slots page: what the date picker shows
    list,           \* slots page: the slots shown, and the date they are for
    listing,        \* slots page: the request for slots
    mine,           \* booking page: the bookings shown
    loading,        \* booking page: the tabs with a spinner instead
    loads,          \* booking page: requests for the bookings
    tap,            \* the Book or Cancel request of a tab
    toast,          \* what a tab said of its last tap
    shown,          \* presetStatus of a tab
    polls,          \* the requests for the preset of a tab
    taps, lost, runs,
    \* history
    moved,          \* tabs with another date than their list was asked for
    done,           \* tabs whose last tap the club has done
    doubtful        \* tabs whose last tap lost an answer after the club's turn

clubVars   == <<bookings, running, runs, page>>
slotsVars  == <<date, list, listing, moved>>
mineVars   == <<mine, loading, loads>>
tapVars    == <<tap, toast, taps, done, doubtful>>
statusVars == <<shown, polls>>
vars == <<clubVars, user, slotsVars, mineVars, tapVars, statusVars, lost>>

Flights == [date : Dates, time : TeeTimes]
Answers == {"ok", "unauthorized", "refused", "error"}
TapAnswers == Answers \union {"noID"}    \* 200, with an empty bookingID
Stages  == {"none", "slots", "check", "book", "cancel", "reload"}

NoList  == [date |-> "none", times |-> {}]
NoQuery == [stage |-> "none", list |-> NoList]
NoTap   == [stage |-> "none", op |-> "none", asked |-> {}]

\* load of the booking page, begun by its effect or by cancelBooking.
Load(by, stage, result) == [by |-> by, stage |-> stage, mine |-> result]

Init ==
    /\ bookings \in SUBSET Flights /\ running = FALSE /\ runs = 0
    /\ page \in [Tabs -> {"slots", "booking"}]
    /\ user = Tabs
    /\ date = [t \in Tabs |-> "none"] /\ list = [t \in Tabs |-> NoList]
    /\ listing = [t \in Tabs |-> NoQuery] /\ moved = {}
    /\ mine = [t \in Tabs |-> {}] /\ loading = {t \in Tabs : page[t] = "booking"}
    /\ loads = [t \in Tabs |-> {}]
    /\ tap = [t \in Tabs |-> NoTap] /\ toast = [t \in Tabs |-> "none"]
    /\ taps = 0 /\ done = {} /\ doubtful = {}
    /\ shown = [t \in Tabs |-> "unknown"] /\ polls = [t \in Tabs |-> {"sent"}]
    /\ lost = 0

\* The tab shows p, without the banner that stands in for it during a run.
Usable(t, p) == page[t] = p /\ t \in user /\ shown[t] # "running"

\* api.request: a 401 empties the AuthContext, and the login form is shown.
Heed(t, answer) == user' = IF answer = "unauthorized" THEN user \ {t} ELSE user

-------------------------------------------------------------------------------
(* The slots page.                                                         *)

PickDate(t) ==
    /\ Usable(t, "slots")
    /\ \E d \in Dates \ {date[t]} : date' = [date EXCEPT ![t] = d]
    /\ moved' = moved \union {t}
    /\ UNCHANGED <<clubVars, user, list, listing, mineVars, tapVars, statusVars, lost>>

\* Mutant of LoadSlots: the old list stays until the new one comes.
LoadSlotsKeepList(t) ==
    /\ Usable(t, "slots") /\ date[t] # "none" /\ listing[t] = NoQuery
    /\ listing' = [listing EXCEPT ![t] =
                      [stage |-> "slots", list |-> [date |-> date[t], times |-> {}]]]
    /\ moved' = moved \ {t}
    /\ UNCHANGED <<clubVars, user, date, list, mineVars, tapVars, statusVars, lost>>

LoadSlots(t) ==
    /\ Usable(t, "slots") /\ date[t] # "none" /\ listing[t] = NoQuery
    /\ list' = [list EXCEPT ![t] = NoList]
    /\ listing' = [listing EXCEPT ![t] =
                      [stage |-> "slots", list |-> [date |-> date[t], times |-> {}]]]
    /\ moved' = moved \ {t}
    /\ UNCHANGED <<clubVars, user, date, mineVars, tapVars, statusVars, lost>>

AnswerSlots(t, answer, times) ==
    listing' = [listing EXCEPT ![t] =
                   [stage |-> answer, list |-> [date |-> listing[t].list.date, times |-> times]]]

\* SlotsHandler.Slots: CODE103 is unauthorized, everything else an error.
GetTeeTimeSlots(t) ==
    /\ listing[t].stage = "slots"
    /\ \/ \E times \in SUBSET TeeTimes : AnswerSlots(t, "ok", times)
       \/ \E answer \in {"unauthorized", "error"} : AnswerSlots(t, answer, {})
    /\ UNCHANGED <<clubVars, user, date, list, moved, mineVars, tapVars, statusVars, lost>>

\* Mutant of ShowSlots: data is set to whatever was answered.
ShowAnything(t) ==
    /\ listing[t].stage \in Answers
    /\ listing' = [listing EXCEPT ![t] = NoQuery]
    /\ list' = [list EXCEPT ![t] = [date |-> listing[t].list.date, times |-> {listing[t].stage}]]
    /\ UNCHANGED <<clubVars, user, date, moved, mineVars, tapVars, statusVars, lost>>

\* The answer reaches the page; one to a tab that shows the login form does not.
ShowSlots(t) ==
    /\ listing[t].stage \in Answers
    /\ listing' = [listing EXCEPT ![t] = NoQuery]
    /\ list' = IF listing[t].stage = "ok" /\ t \in user
                 THEN [list EXCEPT ![t] = listing[t].list] ELSE list
    /\ Heed(t, listing[t].stage)
    /\ UNCHANGED <<clubVars, date, moved, mineVars, tapVars, statusVars, lost>>

-------------------------------------------------------------------------------
(* The booking page: load, and its answer.                                 *)

\* Status false for another reason than CODE103 is a 200 without bookings.
GetBooking(t, l) ==
    /\ l.stage = "sent"
    /\ \E answer \in {Load(l.by, "ok", bookings), Load(l.by, "ok", {}),
                      Load(l.by, "unauthorized", {}), Load(l.by, "error", {})} :
          loads' = [loads EXCEPT ![t] = (@ \ {l}) \union {answer}]
    /\ UNCHANGED <<clubVars, user, slotsVars, mine, loading, tapVars, statusVars, lost>>

\* cancelBooking awaits its load, and is over with it.
ShowMine(t, l) ==
    /\ l.stage \in Answers
    /\ loads' = [loads EXCEPT ![t] = @ \ {l}]
    /\ mine' = IF l.stage = "ok" /\ t \in user THEN [mine EXCEPT ![t] = l.mine] ELSE mine
    /\ loading' = loading \ {t}
    /\ tap' = IF l.by = "cancel" THEN [tap EXCEPT ![t] = NoTap] ELSE tap
    /\ Heed(t, l.stage)
    /\ UNCHANGED <<clubVars, slotsVars, toast, taps, done, doubtful, statusVars, lost>>

-------------------------------------------------------------------------------
(* A tap on Book or Cancel booking.                                        *)

\* bookSlot: the time is that of the slot, the date that of the picker.
AskToBook(t) ==
    /\ Usable(t, "slots")
    /\ \E time \in list[t].times :
          tap' = [tap EXCEPT ![t] = [stage |-> "check", op |-> "book",
                                     asked |-> {[date |-> date[t], time |-> time]}]]

AskToCancel(t) ==
    /\ Usable(t, "booking") /\ t \notin loading
    /\ \E b \in mine[t] :
          tap' = [tap EXCEPT ![t] = [stage |-> "cancel", op |-> "cancel", asked |-> {b}]]

\* bookingSlotKey and deleteBookingId disable the buttons during a tap.
Tap(t) ==
    /\ tap[t] = NoTap /\ taps < MaxTaps
    /\ taps' = taps + 1
    /\ AskToBook(t) \/ AskToCancel(t)
    /\ toast' = [toast EXCEPT ![t] = "none"]
    /\ done' = done \ {t} /\ doubtful' = doubtful \ {t}
    /\ UNCHANGED <<clubVars, user, slotsVars, mineVars, statusVars, lost>>

AnswerTap(t, answer) == tap' = [tap EXCEPT ![t].stage = answer]

(* BookingHandler.Book: check, then, some time after the delay, book.      *)

CheckTeeTimeStatus(t) ==
    /\ tap[t].stage = "check"
    /\ \E answer \in {"book", "refused", "unauthorized", "error"} : AnswerTap(t, answer)
    /\ UNCHANGED <<clubVars, user, slotsVars, mineVars, toast, taps, done, doubtful, statusVars, lost>>

\* BookingResponse: item is the status of the first element of Result, id says
\* whether it has a BookingID.
Replies == [status : BOOLEAN, item : {"booked", "not", "none"}, id : BOOLEAN,
            code103 : BOOLEAN]

\* The club has booked.
IsBooked(reply) == reply.status /\ reply.item = "booked"

\* Mutant of Confirmed: the status of the result is not looked at.
ConfirmedByStatus(reply) == reply.status /\ reply.item # "none"

\* Status, and a first result with Status.
Confirmed(reply) == reply.status /\ reply.item = "booked"

\* The BookingID is passed on unchecked.
AnswerTo(reply) ==
    IF Confirmed(reply) THEN IF reply.id THEN "ok" ELSE "noID"
    ELSE IF reply.code103 THEN "unauthorized" ELSE "refused"

\* The club's side of a booking or a cancellation: it is done, or it is not.
ClubBooks(t) ==
    /\ tap[t].asked \intersect bookings = {}
    /\ bookings' = bookings \union tap[t].asked /\ done' = done \union {t}

ClubCancels(t) ==
    /\ tap[t].asked \subseteq bookings
    /\ bookings' = bookings \ tap[t].asked /\ done' = done \union {t}

BookTeeTime(t) ==
    /\ tap[t].stage = "book"
    /\ \E reply \in Replies :
          /\ IF IsBooked(reply) THEN ClubBooks(t) ELSE UNCHANGED <<bookings, done>>
          /\ AnswerTap(t, AnswerTo(reply))
    /\ UNCHANGED <<running, runs, page, user, slotsVars, mineVars, toast, taps, doubtful,
                   statusVars, lost>>

(* BookingHandler.Cancel.                                                  *)
CancelBooking(t) ==
    /\ tap[t].stage = "cancel"
    /\ \/ ClubCancels(t) /\ AnswerTap(t, "ok")
       \/ /\ \E answer \in {"refused", "unauthorized", "error"} : AnswerTap(t, answer)
          /\ UNCHANGED <<bookings, done>>
    /\ UNCHANGED <<running, runs, page, user, slotsVars, mineVars, toast, taps, doubtful,
                   statusVars, lost>>

\* No answer from the club to the booking or the cancellation, done or not.
ClubTimesOut(t) ==
    /\ lost < MaxLost
    /\ \/ tap[t].stage \in {"book", "cancel"} /\ UNCHANGED <<bookings, done>>
       \/ tap[t].stage = "book" /\ ClubBooks(t)
       \/ tap[t].stage = "cancel" /\ ClubCancels(t)
    /\ AnswerTap(t, "error")
    /\ lost' = lost + 1 /\ doubtful' = doubtful \union {t}
    /\ UNCHANGED <<running, runs, page, user, slotsVars, mineVars, toast, taps, statusVars>>

\* The answer of the server does not reach the page: fetch throws.
AnswerLost(t) ==
    /\ lost < MaxLost /\ lost' = lost + 1
    /\ tap[t].stage \in TapAnswers \ {"error"} /\ AnswerTap(t, "error")
    /\ doubtful' = doubtful \union {t}
    /\ UNCHANGED <<clubVars, user, slotsVars, mineVars, toast, taps, done, statusVars>>

\* Mutant of ShowOutcome: the key is cleared in try, not in finally.
ShowSuccessOnly(t) ==
    /\ tap[t].stage = "ok"
    /\ tap' = [tap EXCEPT ![t] = NoTap]
    /\ toast' = [toast EXCEPT ![t] = "success"]
    /\ UNCHANGED <<clubVars, user, slotsVars, mineVars, taps, done, doubtful, statusVars, lost>>

\* "Booking failed - no confirmation received" is what a missing bookingID gets.
ToastFor(answer) ==
    IF answer = "ok" THEN "success" ELSE IF answer = "noID" THEN "unconfirmed" ELSE "failure"

\* After a cancellation the bookings are loaded again before the tap is over.
ShowOutcome(t) ==
    /\ tap[t].stage \in TapAnswers
    /\ toast' = [toast EXCEPT ![t] = ToastFor(tap[t].stage)]
    /\ IF tap[t].stage = "ok" /\ tap[t].op = "cancel"
         THEN /\ AnswerTap(t, "reload")
              /\ loads' = [loads EXCEPT ![t] = @ \union {Load("cancel", "sent", {})}]
              /\ loading' = loading \union {t}
         ELSE /\ tap' = [tap EXCEPT ![t] = NoTap]
              /\ UNCHANGED <<loads, loading>>
    /\ Heed(t, tap[t].stage)
    /\ UNCHANGED <<clubVars, slotsVars, mine, taps, done, doubtful, statusVars, lost>>

-------------------------------------------------------------------------------
(* The preset's status: loadPreset when the page is mounted, then every 2s *)
(* while the status shown is running, answered or not.  cancelRun asks the *)
(* run to end, which it may do at any moment, and polls once more.         *)

Poll(t) ==
    /\ t \in user /\ shown[t] = "running"
    /\ polls' = [polls EXCEPT ![t] = @ \union {"sent"}]
    /\ UNCHANGED <<clubVars, user, slotsVars, mineVars, tapVars, shown, lost>>

Polled(t, answer) ==
    /\ "sent" \in polls[t]
    /\ polls' = [polls EXCEPT ![t] = (@ \ {"sent"}) \union {answer}]
    /\ UNCHANGED <<clubVars, user, slotsVars, mineVars, tapVars, shown>>

ServePreset(t) == Polled(t, IF running THEN "running" ELSE "idle") /\ UNCHANGED lost

\* loadPreset catches the error: the status is not known.
PresetLost(t) == lost < MaxLost /\ lost' = lost + 1 /\ Polled(t, "unknown")

\* setPresetStatus; the effect of the booking page loads when no run is shown.
ShowStatus(t, s) ==
    /\ polls' = [polls EXCEPT ![t] = @ \ {s}]
    /\ IF t \in user THEN shown' = [shown EXCEPT ![t] = s] ELSE UNCHANGED shown
    /\ IF t \in user /\ page[t] = "booking" /\ s # "unknown"
         THEN IF s = "running"
                THEN loading' = loading \ {t} /\ UNCHANGED loads
                ELSE /\ loading' = loading \union {t}
                     /\ loads' = [loads EXCEPT ![t] = @ \union {Load("effect", "sent", {})}]
         ELSE UNCHANGED <<loading, loads>>
    /\ UNCHANGED <<clubVars, user, slotsVars, mine, tapVars, lost>>

(* The scheduler: updates of last_run_status, and a worker's bookings.     *)

BeginRun ==
    /\ ~running /\ runs < MaxRuns
    /\ running' = TRUE /\ runs' = runs + 1
    /\ UNCHANGED <<bookings, page, user, slotsVars, mineVars, tapVars, statusVars, lost>>

RunBooks ==
    /\ running /\ \E f \in Flights \ bookings : bookings' = bookings \union {f}
    /\ UNCHANGED <<running, runs, page, user, slotsVars, mineVars, tapVars, statusVars, lost>>

EndRun ==
    /\ running /\ running' = FALSE
    /\ UNCHANGED <<bookings, runs, page, user, slotsVars, mineVars, tapVars, statusVars, lost>>

-------------------------------------------------------------------------------
\* What the browser and the server do of themselves.
Serve(t) ==
    \/ CheckTeeTimeStatus(t) \/ BookTeeTime(t) \/ CancelBooking(t) \/ ShowOutcome(t)

List(t) == GetTeeTimeSlots(t) \/ ShowSlots(t)

Reload(t) == \E l \in loads[t] : GetBooking(t, l) \/ ShowMine(t, l)

ShowPoll(t) == \E s \in polls[t] \ {"sent"} : ShowStatus(t, s)

Next ==
    \/ \E t \in Tabs :
          \/ PickDate(t) \/ LoadSlots(t) \/ Tap(t)
          \/ Serve(t) \/ List(t) \/ Reload(t)
          \/ Poll(t) \/ ServePreset(t) \/ ShowPoll(t)
          \/ ClubTimesOut(t) \/ AnswerLost(t) \/ PresetLost(t)
    \/ BeginRun \/ RunBooks \/ EndRun

\* net/http has a timeout for the club's answers, and the browser keeps its
\* interval; the runner's Termination ends a run.
Fairness ==
    /\ \A t \in Tabs :
          /\ WF_vars(Serve(t)) /\ WF_vars(List(t)) /\ WF_vars(Reload(t))
          /\ WF_vars(Poll(t)) /\ WF_vars(ServePreset(t)) /\ WF_vars(ShowPoll(t))
    /\ WF_vars(EndRun)

Spec == Init /\ [][Next]_vars /\ Fairness

-------------------------------------------------------------------------------
(* Properties.                                                             *)

Toasts   == {"none", "success", "failure", "unconfirmed"}
Lists    == [date : Dates \union {"none"}, times : SUBSET TeeTimes]
Requests == [stage : Stages \union TapAnswers, op : {"none", "book", "cancel"},
             asked : SUBSET Flights]

ClubOK ==
    /\ bookings \subseteq Flights /\ running \in BOOLEAN /\ runs \in 0..MaxRuns
    /\ page \in [Tabs -> {"slots", "booking"}] /\ user \subseteq Tabs
    /\ lost \in 0..MaxLost

SlotsOK ==
    /\ date \in [Tabs -> Dates \union {"none"}] /\ list \in [Tabs -> Lists]
    /\ listing \in [Tabs -> [stage : Stages \union Answers, list : Lists]]
    /\ moved \subseteq Tabs

MineOK ==
    /\ mine \in [Tabs -> SUBSET Flights] /\ loading \subseteq Tabs
    /\ loads \in [Tabs -> SUBSET [by : {"effect", "cancel"}, stage : {"sent"} \union Answers,
                                  mine : SUBSET Flights]]

TapsOK ==
    /\ tap \in [Tabs -> Requests] /\ toast \in [Tabs -> Toasts]
    /\ taps \in 0..MaxTaps /\ done \subseteq Tabs /\ doubtful \subseteq Tabs

StatusOK ==
    /\ shown \in [Tabs -> {"unknown", "idle", "running"}]
    /\ polls \in [Tabs -> SUBSET {"sent", "unknown", "idle", "running"}]

\* Types of all variables.
TypeOK == ClubOK /\ SlotsOK /\ MineOK /\ TapsOK /\ StatusOK

\* "Booked!" and "Booking cancelled" are said only of what the club has done.
\* A failure is said only of what it has not done, unless an answer was lost on
\* the way, but for one text: "Booking failed - no confirmation received" is
\* said when the club has booked and its result has no BookingID.
ToastIsTrue ==
    \A t \in Tabs :
        /\ toast[t] \in {"success", "unconfirmed"} => t \in done
        /\ toast[t] = "failure" => t \notin done \/ t \in doubtful

\* A Book tap sends the date of the picker with the time of the list: they
\* belong together as long as the member has not picked another date since.
BooksWhatWasListed ==
    [][\A t \in Tabs : tap[t] = NoTap /\ tap'[t].op = "book" =>
          \/ t \in moved
          \/ \A f \in tap'[t].asked : f.date = list[t].date /\ f.time \in list[t].times]_vars

\* No tap and no list under way and, if the member is logged in, neither a run
\* shown nor a spinner in place of the bookings; the latter stays if the status
\* of the preset never became known.
AtRest(t) ==
    /\ tap[t] = NoTap /\ listing[t] = NoQuery
    /\ t \in user => shown[t] # "running" /\ (t \in loading => shown[t] = "unknown")

\* A tab is never left waiting, whichever answers are lost or overtaken.
TabsComeBack == \A t \in Tabs : []<>AtRest(t)
===============================================================================

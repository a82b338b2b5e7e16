--------------------------- MODULE WebBookingProofs ---------------------------
(***************************************************************************)
(* Proofs about WebBooking for every set of tabs, of dates and of tee      *)
(* times, and every bound.  The inductive invariant IInv adds to the       *)
(* properties what a list and a tap stand for while they are under way.    *)
(***************************************************************************)
EXTENDS WebBooking, TLAPS

\* A list, shown or on its way, was asked for with a date picked.
DatesPicked ==
    \A t \in Tabs : listing[t].stage # "none" \/ list[t].times # {} => date[t] \in Dates

\* Unless the picker was moved since, it was asked for with the date it shows.
ListsMatch ==
    \A t \in Tabs \ moved :
        /\ listing[t].stage # "none" => listing[t].list.date = date[t]
        /\ list[t].times # {} => list[t].date = date[t]

\* What the club has done while a tap is under way.
TapsKnown ==
    \A t \in Tabs :
        /\ tap[t].stage \in {"check", "book", "cancel"} => t \notin done /\ toast[t] = "none"
        /\ tap[t].stage \in {"ok", "noID", "reload"} => t \in done
        /\ tap[t].stage \in {"unauthorized", "refused", "error"} => t \notin done \/ t \in doubtful

IInv == TypeOK /\ DatesPicked /\ ListsMatch /\ TapsKnown /\ ToastIsTrue
-------------------------------------------------------------------------------

(* AnswerTap changes the stage of one tap, and nothing else of the taps.    *)
LEMMA AnswersTap ==
    ASSUME TapsOK, NEW t \in Tabs, NEW answer \in Stages \union TapAnswers, AnswerTap(t, answer)
    PROVE  /\ tap' \in [Tabs -> Requests]
           /\ tap'[t].stage = answer /\ tap'[t].op = tap[t].op
           /\ \A u \in Tabs \ {t} : tap'[u] = tap[u]
  BY DEF TapsOK, Requests, AnswerTap

(* The club, the scheduler's row and the tabs that are logged in keep      *)
(* their types.                                                            *)
LEMMA ClubStep ==
    ASSUME IInv, [Next]_vars
    PROVE  ClubOK'
<1> USE BookingBounds DEF IInv, TypeOK, ClubOK, TapsOK, Requests
<1>1. ASSUME NEW t \in Tabs, PickDate(t) PROVE ClubOK'
  BY <1>1 DEF PickDate, clubVars
<1>2. ASSUME NEW t \in Tabs, LoadSlots(t) PROVE ClubOK'
  BY <1>2 DEF LoadSlots, clubVars
<1>3. ASSUME NEW t \in Tabs, GetTeeTimeSlots(t) PROVE ClubOK'
  BY <1>3 DEF GetTeeTimeSlots, AnswerSlots, clubVars
<1>4. ASSUME NEW t \in Tabs, ShowSlots(t) PROVE ClubOK'
  BY <1>4 DEF ShowSlots, Heed, clubVars
<1>5. ASSUME NEW t \in Tabs, NEW l \in loads[t], GetBooking(t, l) PROVE ClubOK'
  BY <1>5 DEF GetBooking, clubVars
<1>6. ASSUME NEW t \in Tabs, NEW l \in loads[t], ShowMine(t, l) PROVE ClubOK'
  BY <1>6 DEF ShowMine, Heed, clubVars
<1>7. ASSUME NEW t \in Tabs, Tap(t) PROVE ClubOK'
  BY <1>7 DEF Tap, AskToBook, AskToCancel, clubVars
<1>8. ASSUME NEW t \in Tabs, CheckTeeTimeStatus(t) PROVE ClubOK'
  BY <1>8 DEF CheckTeeTimeStatus, AnswerTap, clubVars
<1>9. ASSUME NEW t \in Tabs, BookTeeTime(t) PROVE ClubOK'
  BY <1>9 DEF BookTeeTime, AnswerTap, ClubBooks
<1>10. ASSUME NEW t \in Tabs, CancelBooking(t) PROVE ClubOK'
  BY <1>10 DEF CancelBooking, AnswerTap, ClubCancels
<1>11. ASSUME NEW t \in Tabs, ClubTimesOut(t) PROVE ClubOK'
  BY <1>11 DEF ClubTimesOut, AnswerTap, ClubBooks, ClubCancels
<1>12. ASSUME NEW t \in Tabs, AnswerLost(t) PROVE ClubOK'
  BY <1>12 DEF AnswerLost, AnswerTap, clubVars
<1>13. ASSUME NEW t \in Tabs, ShowOutcome(t) PROVE ClubOK'
  BY <1>13 DEF ShowOutcome, Heed, AnswerTap, clubVars
<1>14. ASSUME NEW t \in Tabs, Poll(t) PROVE ClubOK'
  BY <1>14 DEF Poll, clubVars
<1>15. ASSUME NEW t \in Tabs, ServePreset(t) PROVE ClubOK'
  BY <1>15 DEF ServePreset, Polled, clubVars
<1>16. ASSUME NEW t \in Tabs, PresetLost(t) PROVE ClubOK'
  BY <1>16 DEF PresetLost, Polled, clubVars
<1>17. ASSUME NEW t \in Tabs, NEW s \in polls[t] \ {"sent"}, ShowStatus(t, s) PROVE ClubOK'
  BY <1>17 DEF ShowStatus, clubVars
<1>18. CASE BeginRun
  BY <1>18 DEF BeginRun
<1>19. CASE RunBooks
  BY <1>19 DEF RunBooks
<1>20. CASE EndRun
  BY <1>20 DEF EndRun
<1>21. CASE UNCHANGED vars
  BY <1>21 DEF vars, clubVars
<1> QED
  BY <1>1, <1>2, <1>3, <1>4, <1>5, <1>6, <1>7, <1>8, <1>9, <1>10, <1>11, <1>12,
     <1>13, <1>14, <1>15, <1>16, <1>17, <1>18, <1>19, <1>20, <1>21
     DEF Next, Serve, List, Reload, ShowPoll

(* The slots page: types, and the list belongs to the date shown unless    *)
(* the picker was moved.                                                   *)
LEMMA SlotsStep ==
    ASSUME IInv, [Next]_vars
    PROVE  (SlotsOK /\ DatesPicked /\ ListsMatch)'
<1> USE DEF IInv, TypeOK, SlotsOK, Lists, DatesPicked, ListsMatch, NoList,
      NoQuery, Answers, Stages
<1>1. ASSUME NEW t \in Tabs, PickDate(t) PROVE (SlotsOK /\ DatesPicked /\ ListsMatch)'
  BY <1>1 DEF PickDate
<1>2. ASSUME NEW t \in Tabs, LoadSlots(t) PROVE (SlotsOK /\ DatesPicked /\ ListsMatch)'
  BY <1>2 DEF LoadSlots
<1>3. ASSUME NEW t \in Tabs, GetTeeTimeSlots(t)
      PROVE  (SlotsOK /\ DatesPicked /\ ListsMatch)'
  <2>1. PICK times \in SUBSET TeeTimes, answer \in Answers : AnswerSlots(t, answer, times)
    BY <1>3 DEF GetTeeTimeSlots
  <2>2. UNCHANGED <<date, list, moved>> /\ listing[t].stage = "slots"
    BY <1>3 DEF GetTeeTimeSlots
  <2>3. SlotsOK'
    BY <2>1, <2>2 DEF AnswerSlots
  <2> QED
    BY <2>1, <2>2, <2>3 DEF AnswerSlots
<1>4. ASSUME NEW t \in Tabs, ShowSlots(t) PROVE (SlotsOK /\ DatesPicked /\ ListsMatch)'
  BY <1>4 DEF ShowSlots, Heed
<1>5. ASSUME NEW t \in Tabs, NEW l \in loads[t], GetBooking(t, l)
      PROVE  (SlotsOK /\ DatesPicked /\ ListsMatch)'
  BY <1>5 DEF GetBooking, slotsVars
<1>6. ASSUME NEW t \in Tabs, NEW l \in loads[t], ShowMine(t, l)
      PROVE  (SlotsOK /\ DatesPicked /\ ListsMatch)'
  BY <1>6 DEF ShowMine, Heed, slotsVars
<1>7. ASSUME NEW t \in Tabs, Tap(t) PROVE (SlotsOK /\ DatesPicked /\ ListsMatch)'
  BY <1>7 DEF Tap, AskToBook, AskToCancel, slotsVars
<1>8. ASSUME NEW t \in Tabs, CheckTeeTimeStatus(t)
      PROVE  (SlotsOK /\ DatesPicked /\ ListsMatch)'
  BY <1>8 DEF CheckTeeTimeStatus, AnswerTap, slotsVars
<1>9. ASSUME NEW t \in Tabs, BookTeeTime(t) PROVE (SlotsOK /\ DatesPicked /\ ListsMatch)'
  BY <1>9 DEF BookTeeTime, AnswerTap, ClubBooks, slotsVars
<1>10. ASSUME NEW t \in Tabs, CancelBooking(t)
      PROVE  (SlotsOK /\ DatesPicked /\ ListsMatch)'
  BY <1>10 DEF CancelBooking, AnswerTap, ClubCancels, slotsVars
<1>11. ASSUME NEW t \in Tabs, ClubTimesOut(t) PROVE (SlotsOK /\ DatesPicked /\ ListsMatch)'
  BY <1>11 DEF ClubTimesOut, AnswerTap, ClubBooks, ClubCancels, slotsVars
<1>12. ASSUME NEW t \in Tabs, AnswerLost(t) PROVE (SlotsOK /\ DatesPicked /\ ListsMatch)'
  BY <1>12 DEF AnswerLost, AnswerTap, slotsVars
<1>13. ASSUME NEW t \in Tabs, ShowOutcome(t) PROVE (SlotsOK /\ DatesPicked /\ ListsMatch)'
  BY <1>13 DEF ShowOutcome, Heed, AnswerTap, slotsVars
<1>14. ASSUME NEW t \in Tabs, Poll(t) PROVE (SlotsOK /\ DatesPicked /\ ListsMatch)'
  BY <1>14 DEF Poll, slotsVars
<1>15. ASSUME NEW t \in Tabs, ServePreset(t) PROVE (SlotsOK /\ DatesPicked /\ ListsMatch)'
  BY <1>15 DEF ServePreset, Polled, slotsVars
<1>16. ASSUME NEW t \in Tabs, PresetLost(t) PROVE (SlotsOK /\ DatesPicked /\ ListsMatch)'
  BY <1>16 DEF PresetLost, Polled, slotsVars
<1>17. ASSUME NEW t \in Tabs, NEW s \in polls[t] \ {"sent"}, ShowStatus(t, s)
      PROVE  (SlotsOK /\ DatesPicked /\ ListsMatch)'
  BY <1>17 DEF ShowStatus, slotsVars
<1>18. CASE BeginRun
  BY <1>18 DEF BeginRun, slotsVars
<1>19. CASE RunBooks
  BY <1>19 DEF RunBooks, slotsVars
<1>20. CASE EndRun
  BY <1>20 DEF EndRun, slotsVars
<1>21. CASE UNCHANGED vars
  BY <1>21 DEF vars, slotsVars
<1> QED
  BY <1>1, <1>2, <1>3, <1>4, <1>5, <1>6, <1>7, <1>8, <1>9, <1>10, <1>11, <1>12,
     <1>13, <1>14, <1>15, <1>16, <1>17, <1>18, <1>19, <1>20, <1>21
     DEF Next, Serve, List, Reload, ShowPoll

(* The booking page keeps its types.                                       *)
LEMMA MineStep ==
    ASSUME IInv, [Next]_vars
    PROVE  MineOK'
<1> USE DEF IInv, TypeOK, ClubOK, MineOK, Load, Answers
<1>1. ASSUME NEW t \in Tabs, PickDate(t) PROVE MineOK'
  BY <1>1 DEF PickDate, mineVars
<1>2. ASSUME NEW t \in Tabs, LoadSlots(t) PROVE MineOK'
  BY <1>2 DEF LoadSlots, mineVars
<1>3. ASSUME NEW t \in Tabs, GetTeeTimeSlots(t) PROVE MineOK'
  BY <1>3 DEF GetTeeTimeSlots, AnswerSlots, mineVars
<1>4. ASSUME NEW t \in Tabs, ShowSlots(t) PROVE MineOK'
  BY <1>4 DEF ShowSlots, Heed, mineVars
<1>5. ASSUME NEW t \in Tabs, NEW l \in loads[t], GetBooking(t, l) PROVE MineOK'
  BY <1>5 DEF GetBooking
<1>6. ASSUME NEW t \in Tabs, NEW l \in loads[t], ShowMine(t, l) PROVE MineOK'
  BY <1>6 DEF ShowMine, Heed
<1>7. ASSUME NEW t \in Tabs, Tap(t) PROVE MineOK'
  BY <1>7 DEF Tap, AskToBook, AskToCancel, mineVars
<1>8. ASSUME NEW t \in Tabs, CheckTeeTimeStatus(t) PROVE MineOK'
  BY <1>8 DEF CheckTeeTimeStatus, AnswerTap, mineVars
<1>9. ASSUME NEW t \in Tabs, BookTeeTime(t) PROVE MineOK'
  BY <1>9 DEF BookTeeTime, AnswerTap, ClubBooks, mineVars
<1>10. ASSUME NEW t \in Tabs, CancelBooking(t) PROVE MineOK'
  BY <1>10 DEF CancelBooking, AnswerTap, ClubCancels, mineVars
<1>11. ASSUME NEW t \in Tabs, ClubTimesOut(t) PROVE MineOK'
  BY <1>11 DEF ClubTimesOut, AnswerTap, ClubBooks, ClubCancels, mineVars
<1>12. ASSUME NEW t \in Tabs, AnswerLost(t) PROVE MineOK'
  BY <1>12 DEF AnswerLost, AnswerTap, mineVars
<1>13. ASSUME NEW t \in Tabs, ShowOutcome(t) PROVE MineOK'
  BY <1>13 DEF ShowOutcome, Heed, AnswerTap
<1>14. ASSUME NEW t \in Tabs, Poll(t) PROVE MineOK'
  BY <1>14 DEF Poll, mineVars
<1>15. ASSUME NEW t \in Tabs, ServePreset(t) PROVE MineOK'
  BY <1>15 DEF ServePreset, Polled, mineVars
<1>16. ASSUME NEW t \in Tabs, PresetLost(t) PROVE MineOK'
  BY <1>16 DEF PresetLost, Polled, mineVars
<1>17. ASSUME NEW t \in Tabs, NEW s \in polls[t] \ {"sent"}, ShowStatus(t, s) PROVE MineOK'
  BY <1>17 DEF ShowStatus
<1>18. CASE BeginRun
  BY <1>18 DEF BeginRun, mineVars
<1>19. CASE RunBooks
  BY <1>19 DEF RunBooks, mineVars
<1>20. CASE EndRun
  BY <1>20 DEF EndRun, mineVars
<1>21. CASE UNCHANGED vars
  BY <1>21 DEF vars, mineVars
<1> QED
  BY <1>1, <1>2, <1>3, <1>4, <1>5, <1>6, <1>7, <1>8, <1>9, <1>10, <1>11, <1>12,
     <1>13, <1>14, <1>15, <1>16, <1>17, <1>18, <1>19, <1>20, <1>21
     DEF Next, Serve, List, Reload, ShowPoll

(* The statuses shown and on their way keep their types.                   *)
LEMMA StatusStep ==
    ASSUME IInv, [Next]_vars
    PROVE  StatusOK'
<1> USE DEF IInv, TypeOK, StatusOK
<1>1. ASSUME NEW t \in Tabs, PickDate(t) PROVE StatusOK'
  BY <1>1 DEF PickDate, statusVars
<1>2. ASSUME NEW t \in Tabs, LoadSlots(t) PROVE StatusOK'
  BY <1>2 DEF LoadSlots, statusVars
<1>3. ASSUME NEW t \in Tabs, GetTeeTimeSlots(t) PROVE StatusOK'
  BY <1>3 DEF GetTeeTimeSlots, AnswerSlots, statusVars
<1>4. ASSUME NEW t \in Tabs, ShowSlots(t) PROVE StatusOK'
  BY <1>4 DEF ShowSlots, Heed, statusVars
<1>5. ASSUME NEW t \in Tabs, NEW l \in loads[t], GetBooking(t, l) PROVE StatusOK'
  BY <1>5 DEF GetBooking, statusVars
<1>6. ASSUME NEW t \in Tabs, NEW l \in loads[t], ShowMine(t, l) PROVE StatusOK'
  BY <1>6 DEF ShowMine, Heed, statusVars
<1>7. ASSUME NEW t \in Tabs, Tap(t) PROVE StatusOK'
  BY <1>7 DEF Tap, AskToBook, AskToCancel, statusVars
<1>8. ASSUME NEW t \in Tabs, CheckTeeTimeStatus(t) PROVE StatusOK'
  BY <1>8 DEF CheckTeeTimeStatus, AnswerTap, statusVars
<1>9. ASSUME NEW t \in Tabs, BookTeeTime(t) PROVE StatusOK'
  BY <1>9 DEF BookTeeTime, AnswerTap, ClubBooks, statusVars
<1>10. ASSUME NEW t \in Tabs, CancelBooking(t) PROVE StatusOK'
  BY <1>10 DEF CancelBooking, AnswerTap, ClubCancels, statusVars
<1>11. ASSUME NEW t \in Tabs, ClubTimesOut(t) PROVE StatusOK'
  BY <1>11 DEF ClubTimesOut, AnswerTap, ClubBooks, ClubCancels, statusVars
<1>12. ASSUME NEW t \in Tabs, AnswerLost(t) PROVE StatusOK'
  BY <1>12 DEF AnswerLost, AnswerTap, statusVars
<1>13. ASSUME NEW t \in Tabs, ShowOutcome(t) PROVE StatusOK'
  BY <1>13 DEF ShowOutcome, Heed, AnswerTap, statusVars
<1>14. ASSUME NEW t \in Tabs, Poll(t) PROVE StatusOK'
  BY <1>14 DEF Poll
<1>15. ASSUME NEW t \in Tabs, ServePreset(t) PROVE StatusOK'
  BY <1>15 DEF ServePreset, Polled
<1>16. ASSUME NEW t \in Tabs, PresetLost(t) PROVE StatusOK'
  BY <1>16 DEF PresetLost, Polled
<1>17. ASSUME NEW t \in Tabs, NEW s \in polls[t] \ {"sent"}, ShowStatus(t, s)
      PROVE  StatusOK'
  BY <1>17 DEF ShowStatus
<1>18. CASE BeginRun
  BY <1>18 DEF BeginRun, statusVars
<1>19. CASE RunBooks
  BY <1>19 DEF RunBooks, statusVars
<1>20. CASE EndRun
  BY <1>20 DEF EndRun, statusVars
<1>21. CASE UNCHANGED vars
  BY <1>21 DEF vars, statusVars
<1> QED
  BY <1>1, <1>2, <1>3, <1>4, <1>5, <1>6, <1>7, <1>8, <1>9, <1>10, <1>11, <1>12,
     <1>13, <1>14, <1>15, <1>16, <1>17, <1>18, <1>19, <1>20, <1>21
     DEF Next, Serve, List, Reload, ShowPoll

(* Taps keep their types.                                                  *)
LEMMA TapsTypes ==
    ASSUME IInv, [Next]_vars
    PROVE  TapsOK'
<1> USE BookingBounds DEF IInv, TypeOK, ClubOK, SlotsOK, MineOK, TapsOK,
      DatesPicked, Lists, Flights, NoTap, Answers, TapAnswers, Stages
<1>1. ASSUME NEW t \in Tabs, PickDate(t) PROVE TapsOK'
  BY <1>1 DEF PickDate, tapVars
<1>2. ASSUME NEW t \in Tabs, LoadSlots(t) PROVE TapsOK'
  BY <1>2 DEF LoadSlots, tapVars
<1>3. ASSUME NEW t \in Tabs, GetTeeTimeSlots(t) PROVE TapsOK'
  BY <1>3 DEF GetTeeTimeSlots, AnswerSlots, tapVars
<1>4. ASSUME NEW t \in Tabs, ShowSlots(t) PROVE TapsOK'
  BY <1>4 DEF ShowSlots, Heed, tapVars
<1>5. ASSUME NEW t \in Tabs, NEW l \in loads[t], GetBooking(t, l) PROVE TapsOK'
  BY <1>5 DEF GetBooking, tapVars
<1>6. ASSUME NEW t \in Tabs, NEW l \in loads[t], ShowMine(t, l) PROVE TapsOK'
  BY <1>6 DEF ShowMine, Requests
<1>7. ASSUME NEW t \in Tabs, Tap(t) PROVE TapsOK'
  <2>1. taps' \in 0..MaxTaps /\ toast' \in [Tabs -> Toasts]
    BY <1>7 DEF Tap, Toasts
  <2>2. tap' \in [Tabs -> Requests]
    <3>1. CASE AskToBook(t)
      <4>1. PICK time \in list[t].times :
                tap' = [tap EXCEPT ![t] = [stage |-> "check", op |-> "book",
                                           asked |-> {[date |-> date[t], time |-> time]}]]
        BY <3>1 DEF AskToBook
      <4>2. [date |-> date[t], time |-> time] \in Flights
        BY <4>1
      <4> QED
        BY <4>1, <4>2 DEF Requests
    <3>2. CASE AskToCancel(t)
      BY <3>2 DEF AskToCancel, Requests
    <3> QED
      BY <1>7, <3>1, <3>2 DEF Tap
  <2> QED
    BY <1>7, <2>1, <2>2 DEF Tap
<1>8. ASSUME NEW t \in Tabs, CheckTeeTimeStatus(t) PROVE TapsOK'
  BY <1>8, AnswersTap DEF CheckTeeTimeStatus
<1>9. ASSUME NEW t \in Tabs, BookTeeTime(t) PROVE TapsOK'
  BY <1>9, AnswersTap DEF BookTeeTime, ClubBooks, AnswerTo
<1>10. ASSUME NEW t \in Tabs, CancelBooking(t) PROVE TapsOK'
  BY <1>10, AnswersTap DEF CancelBooking, ClubCancels
<1>11. ASSUME NEW t \in Tabs, ClubTimesOut(t) PROVE TapsOK'
  BY <1>11, AnswersTap DEF ClubTimesOut, ClubBooks, ClubCancels
<1>12. ASSUME NEW t \in Tabs, AnswerLost(t) PROVE TapsOK'
  BY <1>12, AnswersTap DEF AnswerLost
<1>13. ASSUME NEW t \in Tabs, ShowOutcome(t) PROVE TapsOK'
  <2>1. toast' \in [Tabs -> Toasts]
    BY <1>13 DEF ShowOutcome, ToastFor, Toasts
  <2>2. tap' \in [Tabs -> Requests]
    <3>1. CASE AnswerTap(t, "reload")
      BY <3>1, AnswersTap
    <3>2. CASE tap' = [tap EXCEPT ![t] = NoTap]
      BY <3>2 DEF Requests
    <3> QED
      BY <1>13, <3>1, <3>2 DEF ShowOutcome
  <2> QED
    BY <1>13, <2>1, <2>2 DEF ShowOutcome
<1>14. ASSUME NEW t \in Tabs, Poll(t) PROVE TapsOK'
  BY <1>14 DEF Poll, tapVars
<1>15. ASSUME NEW t \in Tabs, ServePreset(t) PROVE TapsOK'
  BY <1>15 DEF ServePreset, Polled, tapVars
<1>16. ASSUME NEW t \in Tabs, PresetLost(t) PROVE TapsOK'
  BY <1>16 DEF PresetLost, Polled, tapVars
<1>17. ASSUME NEW t \in Tabs, NEW s \in polls[t] \ {"sent"}, ShowStatus(t, s) PROVE TapsOK'
  BY <1>17 DEF ShowStatus, tapVars
<1>18. CASE BeginRun
  BY <1>18 DEF BeginRun, tapVars
<1>19. CASE RunBooks
  BY <1>19 DEF RunBooks, tapVars
<1>20. CASE EndRun
  BY <1>20 DEF EndRun, tapVars
<1>21. CASE UNCHANGED vars
  BY <1>21 DEF vars, tapVars
<1> QED
  BY <1>1, <1>2, <1>3, <1>4, <1>5, <1>6, <1>7, <1>8, <1>9, <1>10, <1>11, <1>12,
     <1>13, <1>14, <1>15, <1>16, <1>17, <1>18, <1>19, <1>20, <1>21
     DEF Next, Serve, List, Reload, ShowPoll

(* What a tap under way, and the toast of the last one, say of the club.   *)
LEMMA TapsTrue ==
    ASSUME IInv, [Next]_vars
    PROVE  (TapsKnown /\ ToastIsTrue)'
<1> USE DEF IInv, TypeOK, TapsOK, TapsKnown, ToastIsTrue, NoTap, Answers,
      TapAnswers, Stages
<1>1. ASSUME NEW t \in Tabs, PickDate(t) PROVE (TapsKnown /\ ToastIsTrue)'
  BY <1>1 DEF PickDate, tapVars
<1>2. ASSUME NEW t \in Tabs, LoadSlots(t) PROVE (TapsKnown /\ ToastIsTrue)'
  BY <1>2 DEF LoadSlots, tapVars
<1>3. ASSUME NEW t \in Tabs, GetTeeTimeSlots(t) PROVE (TapsKnown /\ ToastIsTrue)'
  BY <1>3 DEF GetTeeTimeSlots, AnswerSlots, tapVars
<1>4. ASSUME NEW t \in Tabs, ShowSlots(t) PROVE (TapsKnown /\ ToastIsTrue)'
  BY <1>4 DEF ShowSlots, Heed, tapVars
<1>5. ASSUME NEW t \in Tabs, NEW l \in loads[t], GetBooking(t, l)
      PROVE  (TapsKnown /\ ToastIsTrue)'
  BY <1>5 DEF GetBooking, tapVars
<1>6. ASSUME NEW t \in Tabs, NEW l \in loads[t], ShowMine(t, l)
      PROVE  (TapsKnown /\ ToastIsTrue)'
  BY <1>6 DEF ShowMine, Heed
<1>7. ASSUME NEW t \in Tabs, Tap(t) PROVE (TapsKnown /\ ToastIsTrue)'
  BY <1>7 DEF Tap, AskToBook, AskToCancel
<1>8. ASSUME NEW t \in Tabs, CheckTeeTimeStatus(t) PROVE (TapsKnown /\ ToastIsTrue)'
  BY <1>8, AnswersTap DEF CheckTeeTimeStatus
<1>9. ASSUME NEW t \in Tabs, BookTeeTime(t) PROVE (TapsKnown /\ ToastIsTrue)'
  BY <1>9, AnswersTap DEF BookTeeTime, ClubBooks, AnswerTo, Confirmed, IsBooked
<1>10. ASSUME NEW t \in Tabs, CancelBooking(t) PROVE (TapsKnown /\ ToastIsTrue)'
  BY <1>10, AnswersTap DEF CancelBooking, ClubCancels
<1>11. ASSUME NEW t \in Tabs, ClubTimesOut(t) PROVE (TapsKnown /\ ToastIsTrue)'
  BY <1>11, AnswersTap DEF ClubTimesOut, ClubBooks, ClubCancels
<1>12. ASSUME NEW t \in Tabs, AnswerLost(t) PROVE (TapsKnown /\ ToastIsTrue)'
  BY <1>12, AnswersTap DEF AnswerLost
<1>13. ASSUME NEW t \in Tabs, ShowOutcome(t) PROVE (TapsKnown /\ ToastIsTrue)'
  BY <1>13, AnswersTap DEF ShowOutcome, ToastFor, Heed
<1>14. ASSUME NEW t \in Tabs, Poll(t) PROVE (TapsKnown /\ ToastIsTrue)'
  BY <1>14 DEF Poll, tapVars
<1>15. ASSUME NEW t \in Tabs, ServePreset(t) PROVE (TapsKnown /\ ToastIsTrue)'
  BY <1>15 DEF ServePreset, Polled, tapVars
<1>16. ASSUME NEW t \in Tabs, PresetLost(t) PROVE (TapsKnown /\ ToastIsTrue)'
  BY <1>16 DEF PresetLost, Polled, tapVars
<1>17. ASSUME NEW t \in Tabs, NEW s \in polls[t] \ {"sent"}, ShowStatus(t, s)
      PROVE  (TapsKnown /\ ToastIsTrue)'
  BY <1>17 DEF ShowStatus, tapVars
<1>18. CASE BeginRun
  BY <1>18 DEF BeginRun, tapVars
<1>19. CASE RunBooks
  BY <1>19 DEF RunBooks, tapVars
<1>20. CASE EndRun
  BY <1>20 DEF EndRun, tapVars
<1>21. CASE UNCHANGED vars
  BY <1>21 DEF vars, tapVars
<1> QED
  BY <1>1, <1>2, <1>3, <1>4, <1>5, <1>6, <1>7, <1>8, <1>9, <1>10, <1>11, <1>12,
     <1>13, <1>14, <1>15, <1>16, <1>17, <1>18, <1>19, <1>20, <1>21
     DEF Next, Serve, List, Reload, ShowPoll

(* The initial states satisfy IInv.                                         *)
LEMMA InitIInv == Init => IInv
<1> SUFFICES ASSUME Init PROVE IInv
  OBVIOUS
<1>1. ClubOK
  <2>1. runs \in 0..MaxRuns /\ lost \in 0..MaxLost
    BY BookingBounds DEF Init
  <2>2. bookings \subseteq Flights /\ running \in BOOLEAN /\ user \subseteq Tabs
    BY DEF Init
  <2>3. page \in [Tabs -> {"slots", "booking"}]
    BY DEF Init
  <2> QED
    BY <2>1, <2>2, <2>3 DEF ClubOK
<1>7. StatusOK
  BY DEF Init, StatusOK
<1>2. SlotsOK
  BY DEF Init, SlotsOK, Lists, NoList, NoQuery, Stages
<1>3. MineOK
  BY DEF Init, MineOK
<1>4. TapsOK
  BY BookingBounds DEF Init, TapsOK, Requests, Toasts, NoTap, Stages
<1>5. DatesPicked /\ ListsMatch
  BY DEF Init, DatesPicked, ListsMatch, NoList, NoQuery
<1>6. TapsKnown /\ ToastIsTrue
  BY DEF Init, TapsKnown, ToastIsTrue, NoTap
<1> QED
  BY <1>1, <1>2, <1>3, <1>4, <1>5, <1>6, <1>7 DEF IInv, TypeOK

(* Every step preserves IInv.                                               *)
LEMMA NextIInv == IInv /\ [Next]_vars => IInv'
<1> SUFFICES ASSUME IInv, [Next]_vars PROVE IInv'
  OBVIOUS
<1>1. TypeOK'
  BY ClubStep, SlotsStep, MineStep, TapsTypes, StatusStep DEF TypeOK
<1>2. DatesPicked' /\ ListsMatch' /\ TapsKnown' /\ ToastIsTrue'
  BY SlotsStep, TapsTrue
<1> QED
  BY <1>1, <1>2 DEF IInv

(* IInv is an invariant of WebBooking.                                      *)
THEOREM Invariance == Spec => []IInv
  BY InitIInv, NextIInv, PTL DEF Spec

(* The pages, the requests and the club always have their types.            *)
THEOREM TypeCorrect == Spec => []TypeOK
<1>1. IInv => TypeOK BY DEF IInv
<1> QED BY <1>1, Invariance, PTL

(* bookSlot and cancelBooking announce a success only if the club has done  *)
(* what was asked, and a failure only if it has not or an answer was lost;  *)
(* "no confirmation received" is said of a booking that the club has made.  *)
THEOREM ToastsAreTrue == Spec => []ToastIsTrue
<1>1. IInv => ToastIsTrue BY DEF IInv
<1> QED BY <1>1, Invariance, PTL

(* bookSlot joins the date of the picker with the time of the list: they    *)
(* belong together unless the picker was moved after the list was asked for.*)
THEOREM BooksListedSlots == Spec => BooksWhatWasListed
<1> DEFINE AsListed ==
        \A t \in Tabs : tap[t] = NoTap /\ tap'[t].op = "book" =>
            \/ t \in moved
            \/ \A f \in tap'[t].asked : f.date = list[t].date /\ f.time \in list[t].times
<1>1. IInv /\ [Next]_vars => [AsListed]_vars
  <2> SUFFICES ASSUME IInv, Next, NEW t \in Tabs, tap[t] = NoTap, tap'[t].op = "book", t \notin moved,
                      NEW f \in tap'[t].asked
               PROVE  f.date = list[t].date /\ f.time \in list[t].times
    OBVIOUS
  <2> USE DEF IInv, TypeOK, TapsOK, Requests
  <2>1. ASSUME NEW u \in Tabs, PickDate(u) \/ LoadSlots(u) \/ List(u) \/ Poll(u) \/ ServePreset(u)
                               \/ PresetLost(u) \/ ShowPoll(u)
        PROVE  FALSE
    BY <2>1 DEF PickDate, LoadSlots, List, GetTeeTimeSlots, ShowSlots, Poll, ServePreset, PresetLost,
                Polled, ShowPoll, ShowStatus, tapVars, NoTap
  <2>2. ASSUME NEW u \in Tabs, Serve(u) \/ ClubTimesOut(u) \/ AnswerLost(u)
        PROVE  FALSE
    BY <2>2 DEF Serve, CheckTeeTimeStatus, BookTeeTime, CancelBooking, ShowOutcome, ClubTimesOut,
                AnswerLost, AnswerTap, NoTap
  <2>3. ASSUME NEW u \in Tabs, Reload(u)
        PROVE  FALSE
    BY <2>3 DEF Reload, GetBooking, ShowMine, tapVars, NoTap
  <2>4. ~(BeginRun \/ RunBooks \/ EndRun)
    BY DEF BeginRun, RunBooks, EndRun, tapVars, NoTap
  <2>5. PICK u \in Tabs : Tap(u)
    BY <2>1, <2>2, <2>3, <2>4 DEF Next
  <2>6. u = t /\ AskToBook(t)
    BY <2>5 DEF Tap, AskToBook, AskToCancel, NoTap
  <2>7. PICK time \in list[t].times : f = [date |-> date[t], time |-> time]
    BY <2>6 DEF AskToBook
  <2> QED
    BY <2>7 DEF ListsMatch
<1> QED
  BY <1>1, Invariance, PTL DEF Spec, BooksWhatWasListed
===============================================================================

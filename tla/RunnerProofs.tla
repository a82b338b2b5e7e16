----------------------------- MODULE RunnerProofs -----------------------------
(***************************************************************************)
(* Proofs about Runner for every number of slots, every length of the      *)
(* waits and every bound.  The inductive invariant IInv adds to the safety *)
(* properties what makes them inductive: what the program counter implies  *)
(* about the pass under way.                                               *)
(***************************************************************************)
EXTENDS Runner, TLAPS

\* Where runOnePass is at slot i.
Walking == {"slot", "check", "delay", "book", "blindBook"}

\* A slot that is being checked or booked is one of those listed.
SlotInRange == pc \in {"check", "delay", "book", "blindBook"} => i <= slots

\* Run has returned exactly when its result is set.
DoneIffReported ==
    /\ pc = "done" <=> result.status # "running"
    /\ result.why # "none" => pc = "done"

\* The pass under way has had an answer for every slot before i.
WalkedInOrder == pc \in Walking => \A j \in Index : j < i => said[j] # "none"

\* allSeenReserved is still set only if each of them was "reserved".
ReservedSoFar ==
    /\ pc \in Walking => i <= slots + 1
    /\ pc \in {"book", "blindBook"} => ~allSeenReserved
    /\ pc \in Walking /\ allSeenReserved =>
           \A j \in 1 .. slots : j < i => said[j] = "reserved"

\* A run that owes a wait is in a sleep that is long enough to pay it, or has
\* returned; and the back-off never falls below its first wait.
QuietWhileOwing ==
    /\ owed > 0 => pc \in {"sleep", "done"}
    /\ pc = "sleep" => owed <= wait
    /\ rapidWait >= LeastWait("rapid")

\* How many calls a run can have had answered since its context was done.
LateBudget ==
    /\ ctx = "live" => late = 0
    /\ late <= 2
    /\ pc \in {"getSlots", "slotsLogin", "passLogin", "check"} => late = 0
    /\ pc \in {"getSlotsAgain", "delay", "book", "blindBook"} => late <= 1

IInv ==
    /\ TypeOK /\ SlotInRange
    /\ DoneIffReported /\ StopsAtFirstBooking
    /\ WalkedInOrder /\ EarlierSlotsTriedFirst
    /\ ReservedSoFar /\ AllReservedIsTrue
    /\ QuietWhileOwing
    /\ LateBudget /\ StopReasonIsTrue

-------------------------------------------------------------------------------

(* The club's session and the context keep their types. *)
LEMMA ContextStep ==
    ASSUME ContextOK, [Next]_vars
    PROVE  ContextOK'
<1> USE BoundsAssumption DEF ContextOK,
    clubVars, passVars, waitVars, toldVars, vars, Finish, Goto, NextSlot, Answered,
    ResultForDeadline, StatusForDeadline, EndPass, Sleep, RetryWait,
    NextRapidBackoff, smaller, larger, NoAnswer, FreshPass
<1>1. CASE SlotsListed BY <1>1 DEF SlotsListed
<1>2. CASE SlotsFailed BY <1>2 DEF SlotsFailed
<1>3. CASE SlotsInvalidToken BY <1>3 DEF SlotsInvalidToken
<1>4. CASE StartPass BY <1>4 DEF StartPass
<1>5. CASE StopBeforePass BY <1>5 DEF StopBeforePass
<1>6. CASE StartSlot BY <1>6 DEF StartSlot
<1>7. CASE StopBeforeSlot BY <1>7 DEF StopBeforeSlot
<1>8. CASE PassOver BY <1>8 DEF PassOver
<1>9. CASE CheckFree BY <1>9 DEF CheckFree
<1>10. CASE CheckUnavailable BY <1>10 DEF CheckUnavailable
<1>11. CASE CheckReserved BY <1>11 DEF CheckReserved
<1>12. CASE CheckBlocked BY <1>12 DEF CheckBlocked
<1>13. CASE CheckInvalidToken BY <1>13 DEF CheckInvalidToken
<1>14. CASE CheckFails BY <1>14 DEF CheckFails
<1>15. CASE DelayOver BY <1>15 DEF DelayOver
<1>16. CASE StopInDelay BY <1>16 DEF StopInDelay
<1>17. CASE BookConfirmed BY <1>17 DEF BookConfirmed
<1>18. CASE BookRefused BY <1>18 DEF BookRefused
<1>19. CASE BookAnswerLost BY <1>19 DEF BookAnswerLost
<1>20. CASE BookBlocked BY <1>20 DEF BookBlocked
<1>21. CASE BlindBookBlocked BY <1>21 DEF BlindBookBlocked
<1>22. CASE BookInvalidToken BY <1>22 DEF BookInvalidToken
<1>23. CASE RefreshGivenUp BY <1>23 DEF RefreshGivenUp
<1>24. CASE RefreshBegins BY <1>24 DEF RefreshBegins
<1>25. CASE LoginRefused BY <1>25 DEF LoginRefused
<1>26. CASE LoginForSlots BY <1>26 DEF LoginForSlots
<1>27. CASE LoginForPass BY <1>27 DEF LoginForPass
<1>28. CASE Wake BY <1>28 DEF Wake
<1>29. CASE StopInSleep BY <1>29 DEF StopInSleep
<1>30. CASE Deadline BY <1>30 DEF Deadline
<1>31. CASE Cancel BY <1>31 DEF Cancel
<1>32. CASE Expire BY <1>32 DEF Expire
<1>33. CASE Returned BY <1>33 DEF Returned
<1>34. CASE UNCHANGED vars BY <1>34
<1> QED
  BY <1>1, <1>2, <1>3, <1>4, <1>5, <1>6, <1>7, <1>8, <1>9, <1>10,
     <1>11, <1>12, <1>13, <1>14, <1>15, <1>16, <1>17, <1>18, <1>19, <1>20,
     <1>21, <1>22, <1>23, <1>24, <1>25, <1>26, <1>27, <1>28, <1>29, <1>30,
     <1>31, <1>32, <1>33, <1>34
  DEF Next, Step, Check, Book, Refresh

(* The control state keeps its type; a slot that is being checked or booked exists. *)
LEMMA ControlStep ==
    ASSUME ControlOK, SlotInRange, [Next]_vars
    PROVE  ControlOK' /\ SlotInRange'
<1> USE MaxSlotsAssumption DEF ControlOK, SlotInRange, Calling,
    clubVars, passVars, waitVars, toldVars, vars, Finish, Goto, NextSlot, Answered,
    ResultForDeadline, StatusForDeadline, EndPass, Sleep, RetryWait,
    NextRapidBackoff, smaller, larger, NoAnswer, FreshPass
<1>1. CASE SlotsListed BY <1>1 DEF SlotsListed
<1>2. CASE SlotsFailed BY <1>2 DEF SlotsFailed
<1>3. CASE SlotsInvalidToken BY <1>3 DEF SlotsInvalidToken
<1>4. CASE StartPass BY <1>4 DEF StartPass
<1>5. CASE StopBeforePass BY <1>5 DEF StopBeforePass
<1>6. CASE StartSlot BY <1>6 DEF StartSlot
<1>7. CASE StopBeforeSlot BY <1>7 DEF StopBeforeSlot
<1>8. CASE PassOver BY <1>8 DEF PassOver
<1>9. CASE CheckFree BY <1>9 DEF CheckFree
<1>10. CASE CheckUnavailable BY <1>10 DEF CheckUnavailable
<1>11. CASE CheckReserved BY <1>11 DEF CheckReserved
<1>12. CASE CheckBlocked BY <1>12 DEF CheckBlocked
<1>13. CASE CheckInvalidToken BY <1>13 DEF CheckInvalidToken
<1>14. CASE CheckFails BY <1>14 DEF CheckFails
<1>15. CASE DelayOver BY <1>15 DEF DelayOver
<1>16. CASE StopInDelay BY <1>16 DEF StopInDelay
<1>17. CASE BookConfirmed BY <1>17 DEF BookConfirmed
<1>18. CASE BookRefused BY <1>18 DEF BookRefused
<1>19. CASE BookAnswerLost BY <1>19 DEF BookAnswerLost
<1>20. CASE BookBlocked BY <1>20 DEF BookBlocked
<1>21. CASE BlindBookBlocked BY <1>21 DEF BlindBookBlocked
<1>22. CASE BookInvalidToken BY <1>22 DEF BookInvalidToken
<1>23. CASE RefreshGivenUp BY <1>23 DEF RefreshGivenUp
<1>24. CASE RefreshBegins BY <1>24 DEF RefreshBegins
<1>25. CASE LoginRefused BY <1>25 DEF LoginRefused
<1>26. CASE LoginForSlots BY <1>26 DEF LoginForSlots
<1>27. CASE LoginForPass BY <1>27 DEF LoginForPass
<1>28. CASE Wake BY <1>28 DEF Wake
<1>29. CASE StopInSleep BY <1>29 DEF StopInSleep
<1>30. CASE Deadline BY <1>30 DEF Deadline
<1>31. CASE Cancel BY <1>31 DEF Cancel
<1>32. CASE Expire BY <1>32 DEF Expire
<1>33. CASE Returned BY <1>33 DEF Returned
<1>34. CASE UNCHANGED vars BY <1>34
<1> QED
  BY <1>1, <1>2, <1>3, <1>4, <1>5, <1>6, <1>7, <1>8, <1>9, <1>10,
     <1>11, <1>12, <1>13, <1>14, <1>15, <1>16, <1>17, <1>18, <1>19, <1>20,
     <1>21, <1>22, <1>23, <1>24, <1>25, <1>26, <1>27, <1>28, <1>29, <1>30,
     <1>31, <1>32, <1>33, <1>34
  DEF Next, Step, Check, Book, Refresh

(* The result keeps its type. *)
LEMMA ResultStep ==
    ASSUME ContextOK, ResultOK, [Next]_vars
    PROVE  ResultOK'
<1> USE DEF ContextOK, ResultOK,
    clubVars, passVars, waitVars, toldVars, vars, Finish, Goto, NextSlot, Answered,
    ResultForDeadline, StatusForDeadline, EndPass, Sleep, RetryWait,
    NextRapidBackoff, smaller, larger, NoAnswer, FreshPass
<1>1. CASE SlotsListed BY <1>1 DEF SlotsListed
<1>2. CASE SlotsFailed BY <1>2 DEF SlotsFailed
<1>3. CASE SlotsInvalidToken BY <1>3 DEF SlotsInvalidToken
<1>4. CASE StartPass BY <1>4 DEF StartPass
<1>5. CASE StopBeforePass BY <1>5 DEF StopBeforePass
<1>6. CASE StartSlot BY <1>6 DEF StartSlot
<1>7. CASE StopBeforeSlot BY <1>7 DEF StopBeforeSlot
<1>8. CASE PassOver BY <1>8 DEF PassOver
<1>9. CASE CheckFree BY <1>9 DEF CheckFree
<1>10. CASE CheckUnavailable BY <1>10 DEF CheckUnavailable
<1>11. CASE CheckReserved BY <1>11 DEF CheckReserved
<1>12. CASE CheckBlocked BY <1>12 DEF CheckBlocked
<1>13. CASE CheckInvalidToken BY <1>13 DEF CheckInvalidToken
<1>14. CASE CheckFails BY <1>14 DEF CheckFails
<1>15. CASE DelayOver BY <1>15 DEF DelayOver
<1>16. CASE StopInDelay BY <1>16 DEF StopInDelay
<1>17. CASE BookConfirmed BY <1>17 DEF BookConfirmed
<1>18. CASE BookRefused BY <1>18 DEF BookRefused
<1>19. CASE BookAnswerLost BY <1>19 DEF BookAnswerLost
<1>20. CASE BookBlocked BY <1>20 DEF BookBlocked
<1>21. CASE BlindBookBlocked BY <1>21 DEF BlindBookBlocked
<1>22. CASE BookInvalidToken BY <1>22 DEF BookInvalidToken
<1>23. CASE RefreshGivenUp BY <1>23 DEF RefreshGivenUp
<1>24. CASE RefreshBegins BY <1>24 DEF RefreshBegins
<1>25. CASE LoginRefused BY <1>25 DEF LoginRefused
<1>26. CASE LoginForSlots BY <1>26 DEF LoginForSlots
<1>27. CASE LoginForPass BY <1>27 DEF LoginForPass
<1>28. CASE Wake BY <1>28 DEF Wake
<1>29. CASE StopInSleep BY <1>29 DEF StopInSleep
<1>30. CASE Deadline BY <1>30 DEF Deadline
<1>31. CASE Cancel BY <1>31 DEF Cancel
<1>32. CASE Expire BY <1>32 DEF Expire
<1>33. CASE Returned BY <1>33 DEF Returned
<1>34. CASE UNCHANGED vars BY <1>34
<1> QED
  BY <1>1, <1>2, <1>3, <1>4, <1>5, <1>6, <1>7, <1>8, <1>9, <1>10,
     <1>11, <1>12, <1>13, <1>14, <1>15, <1>16, <1>17, <1>18, <1>19, <1>20,
     <1>21, <1>22, <1>23, <1>24, <1>25, <1>26, <1>27, <1>28, <1>29, <1>30,
     <1>31, <1>32, <1>33, <1>34
  DEF Next, Step, Check, Book, Refresh

(* The waits keep their types. *)
LEMMA WaitsStep ==
    ASSUME WaitsOK, [Next]_vars
    PROVE  WaitsOK'
<1> USE WaitsAssumption, BoundsAssumption DEF WaitsOK, Kinds,
    clubVars, passVars, waitVars, toldVars, vars, Finish, Goto, NextSlot, Answered,
    ResultForDeadline, StatusForDeadline, EndPass, Sleep, RetryWait,
    NextRapidBackoff, smaller, larger, NoAnswer, FreshPass
<1>1. CASE SlotsListed BY <1>1 DEF SlotsListed
<1>2. CASE SlotsFailed BY <1>2 DEF SlotsFailed
<1>3. CASE SlotsInvalidToken BY <1>3 DEF SlotsInvalidToken
<1>4. CASE StartPass BY <1>4 DEF StartPass
<1>5. CASE StopBeforePass BY <1>5 DEF StopBeforePass
<1>6. CASE StartSlot BY <1>6 DEF StartSlot
<1>7. CASE StopBeforeSlot BY <1>7 DEF StopBeforeSlot
<1>8. CASE PassOver BY <1>8 DEF PassOver
<1>9. CASE CheckFree BY <1>9 DEF CheckFree
<1>10. CASE CheckUnavailable BY <1>10 DEF CheckUnavailable
<1>11. CASE CheckReserved BY <1>11 DEF CheckReserved
<1>12. CASE CheckBlocked BY <1>12 DEF CheckBlocked
<1>13. CASE CheckInvalidToken BY <1>13 DEF CheckInvalidToken
<1>14. CASE CheckFails BY <1>14 DEF CheckFails
<1>15. CASE DelayOver BY <1>15 DEF DelayOver
<1>16. CASE StopInDelay BY <1>16 DEF StopInDelay
<1>17. CASE BookConfirmed BY <1>17 DEF BookConfirmed
<1>18. CASE BookRefused BY <1>18 DEF BookRefused
<1>19. CASE BookAnswerLost BY <1>19 DEF BookAnswerLost
<1>20. CASE BookBlocked BY <1>20 DEF BookBlocked
<1>21. CASE BlindBookBlocked BY <1>21 DEF BlindBookBlocked
<1>22. CASE BookInvalidToken BY <1>22 DEF BookInvalidToken
<1>23. CASE RefreshGivenUp BY <1>23 DEF RefreshGivenUp
<1>24. CASE RefreshBegins BY <1>24 DEF RefreshBegins
<1>25. CASE LoginRefused BY <1>25 DEF LoginRefused
<1>26. CASE LoginForSlots BY <1>26 DEF LoginForSlots
<1>27. CASE LoginForPass BY <1>27 DEF LoginForPass
<1>28. CASE Wake BY <1>28 DEF Wake
<1>29. CASE StopInSleep BY <1>29 DEF StopInSleep
<1>30. CASE Deadline BY <1>30 DEF Deadline
<1>31. CASE Cancel BY <1>31 DEF Cancel
<1>32. CASE Expire BY <1>32 DEF Expire
<1>33. CASE Returned BY <1>33 DEF Returned
<1>34. CASE UNCHANGED vars BY <1>34
<1> QED
  BY <1>1, <1>2, <1>3, <1>4, <1>5, <1>6, <1>7, <1>8, <1>9, <1>10,
     <1>11, <1>12, <1>13, <1>14, <1>15, <1>16, <1>17, <1>18, <1>19, <1>20,
     <1>21, <1>22, <1>23, <1>24, <1>25, <1>26, <1>27, <1>28, <1>29, <1>30,
     <1>31, <1>32, <1>33, <1>34
  DEF Next, Step, Check, Book, Refresh

(* The history variables keep their types. *)
LEMMA HistoryStep ==
    ASSUME ControlOK, SlotInRange, WaitsOK, HistoryOK, [Next]_vars
    PROVE  HistoryOK'
<1> USE MaxSlotsAssumption, WaitsAssumption, BoundsAssumption DEF ControlOK, SlotInRange, HistoryOK, Index, Answers,
    clubVars, passVars, waitVars, toldVars, vars, Finish, Goto, NextSlot, Answered,
    ResultForDeadline, StatusForDeadline, EndPass, Sleep, RetryWait,
    NextRapidBackoff, smaller, larger, LeastWait, NoAnswer, FreshPass
<1>1. CASE SlotsListed BY <1>1 DEF SlotsListed
<1>2. CASE SlotsFailed BY <1>2 DEF SlotsFailed
<1>3. CASE SlotsInvalidToken BY <1>3 DEF SlotsInvalidToken
<1>4. CASE StartPass BY <1>4 DEF StartPass
<1>5. CASE StopBeforePass BY <1>5 DEF StopBeforePass
<1>6. CASE StartSlot BY <1>6 DEF StartSlot
<1>7. CASE StopBeforeSlot BY <1>7 DEF StopBeforeSlot
<1>8. CASE PassOver BY <1>8 DEF PassOver
<1>9. CASE CheckFree BY <1>9 DEF CheckFree
<1>10. CASE CheckUnavailable BY <1>10 DEF CheckUnavailable
<1>11. CASE CheckReserved BY <1>11 DEF CheckReserved
<1>12. CASE CheckBlocked BY <1>12 DEF CheckBlocked
<1>13. CASE CheckInvalidToken BY <1>13 DEF CheckInvalidToken
<1>14. CASE CheckFails BY <1>14 DEF CheckFails
<1>15. CASE DelayOver BY <1>15 DEF DelayOver
<1>16. CASE StopInDelay BY <1>16 DEF StopInDelay
<1>17. CASE BookConfirmed BY <1>17 DEF BookConfirmed
<1>18. CASE BookRefused BY <1>18 DEF BookRefused
<1>19. CASE BookAnswerLost BY <1>19 DEF BookAnswerLost
<1>20. CASE BookBlocked BY <1>20 DEF BookBlocked
<1>21. CASE BlindBookBlocked BY <1>21 DEF BlindBookBlocked
<1>22. CASE BookInvalidToken BY <1>22 DEF BookInvalidToken
<1>23. CASE RefreshGivenUp BY <1>23 DEF RefreshGivenUp
<1>24. CASE RefreshBegins BY <1>24 DEF RefreshBegins
<1>25. CASE LoginRefused BY <1>25 DEF LoginRefused
<1>26. CASE LoginForSlots BY <1>26 DEF LoginForSlots
<1>27. CASE LoginForPass BY <1>27 DEF LoginForPass
<1>28. CASE Wake BY <1>28 DEF Wake
<1>29. CASE StopInSleep BY <1>29 DEF StopInSleep
<1>30. CASE Deadline BY <1>30 DEF Deadline
<1>31. CASE Cancel BY <1>31 DEF Cancel
<1>32. CASE Expire BY <1>32 DEF Expire
<1>33. CASE Returned BY <1>33 DEF Returned
<1>34. CASE UNCHANGED vars BY <1>34
<1> QED
  BY <1>1, <1>2, <1>3, <1>4, <1>5, <1>6, <1>7, <1>8, <1>9, <1>10,
     <1>11, <1>12, <1>13, <1>14, <1>15, <1>16, <1>17, <1>18, <1>19, <1>20,
     <1>21, <1>22, <1>23, <1>24, <1>25, <1>26, <1>27, <1>28, <1>29, <1>30,
     <1>31, <1>32, <1>33, <1>34
  DEF Next, Step, Check, Book, Refresh

(* A run reports exactly when it is done. *)
LEMMA DoneStep ==
    ASSUME ControlOK, ResultOK, DoneIffReported, [Next]_vars
    PROVE  DoneIffReported'
<1> USE DEF ControlOK, ResultOK, DoneIffReported,
    clubVars, passVars, waitVars, toldVars, vars, Finish, Goto, NextSlot, Answered,
    ResultForDeadline, StatusForDeadline, EndPass, Sleep, RetryWait,
    NextRapidBackoff, smaller, larger, NoAnswer, FreshPass
<1>1. CASE SlotsListed BY <1>1 DEF SlotsListed
<1>2. CASE SlotsFailed BY <1>2 DEF SlotsFailed
<1>3. CASE SlotsInvalidToken BY <1>3 DEF SlotsInvalidToken
<1>4. CASE StartPass BY <1>4 DEF StartPass
<1>5. CASE StopBeforePass BY <1>5 DEF StopBeforePass
<1>6. CASE StartSlot BY <1>6 DEF StartSlot
<1>7. CASE StopBeforeSlot BY <1>7 DEF StopBeforeSlot
<1>8. CASE PassOver BY <1>8 DEF PassOver
<1>9. CASE CheckFree BY <1>9 DEF CheckFree
<1>10. CASE CheckUnavailable BY <1>10 DEF CheckUnavailable
<1>11. CASE CheckReserved BY <1>11 DEF CheckReserved
<1>12. CASE CheckBlocked BY <1>12 DEF CheckBlocked
<1>13. CASE CheckInvalidToken BY <1>13 DEF CheckInvalidToken
<1>14. CASE CheckFails BY <1>14 DEF CheckFails
<1>15. CASE DelayOver BY <1>15 DEF DelayOver
<1>16. CASE StopInDelay BY <1>16 DEF StopInDelay
<1>17. CASE BookConfirmed BY <1>17 DEF BookConfirmed
<1>18. CASE BookRefused BY <1>18 DEF BookRefused
<1>19. CASE BookAnswerLost BY <1>19 DEF BookAnswerLost
<1>20. CASE BookBlocked BY <1>20 DEF BookBlocked
<1>21. CASE BlindBookBlocked BY <1>21 DEF BlindBookBlocked
<1>22. CASE BookInvalidToken BY <1>22 DEF BookInvalidToken
<1>23. CASE RefreshGivenUp BY <1>23 DEF RefreshGivenUp
<1>24. CASE RefreshBegins BY <1>24 DEF RefreshBegins
<1>25. CASE LoginRefused BY <1>25 DEF LoginRefused
<1>26. CASE LoginForSlots BY <1>26 DEF LoginForSlots
<1>27. CASE LoginForPass BY <1>27 DEF LoginForPass
<1>28. CASE Wake BY <1>28 DEF Wake
<1>29. CASE StopInSleep BY <1>29 DEF StopInSleep
<1>30. CASE Deadline BY <1>30 DEF Deadline
<1>31. CASE Cancel BY <1>31 DEF Cancel
<1>32. CASE Expire BY <1>32 DEF Expire
<1>33. CASE Returned BY <1>33 DEF Returned
<1>34. CASE UNCHANGED vars BY <1>34
<1> QED
  BY <1>1, <1>2, <1>3, <1>4, <1>5, <1>6, <1>7, <1>8, <1>9, <1>10,
     <1>11, <1>12, <1>13, <1>14, <1>15, <1>16, <1>17, <1>18, <1>19, <1>20,
     <1>21, <1>22, <1>23, <1>24, <1>25, <1>26, <1>27, <1>28, <1>29, <1>30,
     <1>31, <1>32, <1>33, <1>34
  DEF Next, Step, Check, Book, Refresh

(* The first confirmed booking is the last thing a run does. *)
LEMMA BookingStep ==
    ASSUME ResultOK, HistoryOK, DoneIffReported, StopsAtFirstBooking, [Next]_vars
    PROVE  StopsAtFirstBooking'
<1> USE DEF ResultOK, HistoryOK, DoneIffReported, StopsAtFirstBooking,
    clubVars, passVars, waitVars, toldVars, vars, Finish, Goto, NextSlot, Answered,
    ResultForDeadline, StatusForDeadline, EndPass, Sleep, RetryWait,
    NextRapidBackoff, smaller, larger, NoAnswer, FreshPass
<1>1. CASE SlotsListed BY <1>1 DEF SlotsListed
<1>2. CASE SlotsFailed BY <1>2 DEF SlotsFailed
<1>3. CASE SlotsInvalidToken BY <1>3 DEF SlotsInvalidToken
<1>4. CASE StartPass BY <1>4 DEF StartPass
<1>5. CASE StopBeforePass BY <1>5 DEF StopBeforePass
<1>6. CASE StartSlot BY <1>6 DEF StartSlot
<1>7. CASE StopBeforeSlot BY <1>7 DEF StopBeforeSlot
<1>8. CASE PassOver BY <1>8 DEF PassOver
<1>9. CASE CheckFree BY <1>9 DEF CheckFree
<1>10. CASE CheckUnavailable BY <1>10 DEF CheckUnavailable
<1>11. CASE CheckReserved BY <1>11 DEF CheckReserved
<1>12. CASE CheckBlocked BY <1>12 DEF CheckBlocked
<1>13. CASE CheckInvalidToken BY <1>13 DEF CheckInvalidToken
<1>14. CASE CheckFails BY <1>14 DEF CheckFails
<1>15. CASE DelayOver BY <1>15 DEF DelayOver
<1>16. CASE StopInDelay BY <1>16 DEF StopInDelay
<1>17. CASE BookConfirmed BY <1>17 DEF BookConfirmed
<1>18. CASE BookRefused BY <1>18 DEF BookRefused
<1>19. CASE BookAnswerLost BY <1>19 DEF BookAnswerLost
<1>20. CASE BookBlocked BY <1>20 DEF BookBlocked
<1>21. CASE BlindBookBlocked BY <1>21 DEF BlindBookBlocked
<1>22. CASE BookInvalidToken BY <1>22 DEF BookInvalidToken
<1>23. CASE RefreshGivenUp BY <1>23 DEF RefreshGivenUp
<1>24. CASE RefreshBegins BY <1>24 DEF RefreshBegins
<1>25. CASE LoginRefused BY <1>25 DEF LoginRefused
<1>26. CASE LoginForSlots BY <1>26 DEF LoginForSlots
<1>27. CASE LoginForPass BY <1>27 DEF LoginForPass
<1>28. CASE Wake BY <1>28 DEF Wake
<1>29. CASE StopInSleep BY <1>29 DEF StopInSleep
<1>30. CASE Deadline BY <1>30 DEF Deadline
<1>31. CASE Cancel BY <1>31 DEF Cancel
<1>32. CASE Expire BY <1>32 DEF Expire
<1>33. CASE Returned BY <1>33 DEF Returned
<1>34. CASE UNCHANGED vars BY <1>34
<1> QED
  BY <1>1, <1>2, <1>3, <1>4, <1>5, <1>6, <1>7, <1>8, <1>9, <1>10,
     <1>11, <1>12, <1>13, <1>14, <1>15, <1>16, <1>17, <1>18, <1>19, <1>20,
     <1>21, <1>22, <1>23, <1>24, <1>25, <1>26, <1>27, <1>28, <1>29, <1>30,
     <1>31, <1>32, <1>33, <1>34
  DEF Next, Step, Check, Book, Refresh

(* A pass leaves no slot behind it without an answer. *)
LEMMA OrderStep ==
    ASSUME ControlOK, SlotInRange, HistoryOK, WalkedInOrder, [Next]_vars
    PROVE  WalkedInOrder'
<1> USE MaxSlotsAssumption DEF ControlOK, SlotInRange, HistoryOK, WalkedInOrder, Walking, Index,
    clubVars, passVars, waitVars, toldVars, vars, Finish, Goto, NextSlot, Answered,
    ResultForDeadline, StatusForDeadline, EndPass, Sleep, RetryWait,
    NextRapidBackoff, smaller, larger, NoAnswer, FreshPass
<1>1. CASE SlotsListed BY <1>1 DEF SlotsListed
<1>2. CASE SlotsFailed BY <1>2 DEF SlotsFailed
<1>3. CASE SlotsInvalidToken BY <1>3 DEF SlotsInvalidToken
<1>4. CASE StartPass BY <1>4 DEF StartPass
<1>5. CASE StopBeforePass BY <1>5 DEF StopBeforePass
<1>6. CASE StartSlot BY <1>6 DEF StartSlot
<1>7. CASE StopBeforeSlot BY <1>7 DEF StopBeforeSlot
<1>8. CASE PassOver BY <1>8 DEF PassOver
<1>9. CASE CheckFree BY <1>9 DEF CheckFree
<1>10. CASE CheckUnavailable BY <1>10 DEF CheckUnavailable
<1>11. CASE CheckReserved BY <1>11 DEF CheckReserved
<1>12. CASE CheckBlocked BY <1>12 DEF CheckBlocked
<1>13. CASE CheckInvalidToken BY <1>13 DEF CheckInvalidToken
<1>14. CASE CheckFails BY <1>14 DEF CheckFails
<1>15. CASE DelayOver BY <1>15 DEF DelayOver
<1>16. CASE StopInDelay BY <1>16 DEF StopInDelay
<1>17. CASE BookConfirmed BY <1>17 DEF BookConfirmed
<1>18. CASE BookRefused BY <1>18 DEF BookRefused
<1>19. CASE BookAnswerLost BY <1>19 DEF BookAnswerLost
<1>20. CASE BookBlocked BY <1>20 DEF BookBlocked
<1>21. CASE BlindBookBlocked BY <1>21 DEF BlindBookBlocked
<1>22. CASE BookInvalidToken BY <1>22 DEF BookInvalidToken
<1>23. CASE RefreshGivenUp BY <1>23 DEF RefreshGivenUp
<1>24. CASE RefreshBegins BY <1>24 DEF RefreshBegins
<1>25. CASE LoginRefused BY <1>25 DEF LoginRefused
<1>26. CASE LoginForSlots BY <1>26 DEF LoginForSlots
<1>27. CASE LoginForPass BY <1>27 DEF LoginForPass
<1>28. CASE Wake BY <1>28 DEF Wake
<1>29. CASE StopInSleep BY <1>29 DEF StopInSleep
<1>30. CASE Deadline BY <1>30 DEF Deadline
<1>31. CASE Cancel BY <1>31 DEF Cancel
<1>32. CASE Expire BY <1>32 DEF Expire
<1>33. CASE Returned BY <1>33 DEF Returned
<1>34. CASE UNCHANGED vars BY <1>34
<1> QED
  BY <1>1, <1>2, <1>3, <1>4, <1>5, <1>6, <1>7, <1>8, <1>9, <1>10,
     <1>11, <1>12, <1>13, <1>14, <1>15, <1>16, <1>17, <1>18, <1>19, <1>20,
     <1>21, <1>22, <1>23, <1>24, <1>25, <1>26, <1>27, <1>28, <1>29, <1>30,
     <1>31, <1>32, <1>33, <1>34
  DEF Next, Step, Check, Book, Refresh

(* Hence the slot that gets booked comes after slots that were tried. *)
LEMMA EarlierStep ==
    ASSUME HistoryOK, DoneIffReported, StopsAtFirstBooking, WalkedInOrder, EarlierSlotsTriedFirst, [Next]_vars
    PROVE  EarlierSlotsTriedFirst'
<1> USE DEF HistoryOK, DoneIffReported, StopsAtFirstBooking,
    WalkedInOrder, EarlierSlotsTriedFirst, Walking,
    clubVars, passVars, waitVars, toldVars, vars, Finish, Goto, NextSlot, Answered,
    ResultForDeadline, StatusForDeadline, EndPass, Sleep, RetryWait,
    NextRapidBackoff, smaller, larger, NoAnswer, FreshPass
<1>1. CASE SlotsListed BY <1>1 DEF SlotsListed
<1>2. CASE SlotsFailed BY <1>2 DEF SlotsFailed
<1>3. CASE SlotsInvalidToken BY <1>3 DEF SlotsInvalidToken
<1>4. CASE StartPass BY <1>4 DEF StartPass
<1>5. CASE StopBeforePass BY <1>5 DEF StopBeforePass
<1>6. CASE StartSlot BY <1>6 DEF StartSlot
<1>7. CASE StopBeforeSlot BY <1>7 DEF StopBeforeSlot
<1>8. CASE PassOver BY <1>8 DEF PassOver
<1>9. CASE CheckFree BY <1>9 DEF CheckFree
<1>10. CASE CheckUnavailable BY <1>10 DEF CheckUnavailable
<1>11. CASE CheckReserved BY <1>11 DEF CheckReserved
<1>12. CASE CheckBlocked BY <1>12 DEF CheckBlocked
<1>13. CASE CheckInvalidToken BY <1>13 DEF CheckInvalidToken
<1>14. CASE CheckFails BY <1>14 DEF CheckFails
<1>15. CASE DelayOver BY <1>15 DEF DelayOver
<1>16. CASE StopInDelay BY <1>16 DEF StopInDelay
<1>17. CASE BookConfirmed BY <1>17 DEF BookConfirmed
<1>18. CASE BookRefused BY <1>18 DEF BookRefused
<1>19. CASE BookAnswerLost BY <1>19 DEF BookAnswerLost
<1>20. CASE BookBlocked BY <1>20 DEF BookBlocked
<1>21. CASE BlindBookBlocked BY <1>21 DEF BlindBookBlocked
<1>22. CASE BookInvalidToken BY <1>22 DEF BookInvalidToken
<1>23. CASE RefreshGivenUp BY <1>23 DEF RefreshGivenUp
<1>24. CASE RefreshBegins BY <1>24 DEF RefreshBegins
<1>25. CASE LoginRefused BY <1>25 DEF LoginRefused
<1>26. CASE LoginForSlots BY <1>26 DEF LoginForSlots
<1>27. CASE LoginForPass BY <1>27 DEF LoginForPass
<1>28. CASE Wake BY <1>28 DEF Wake
<1>29. CASE StopInSleep BY <1>29 DEF StopInSleep
<1>30. CASE Deadline BY <1>30 DEF Deadline
<1>31. CASE Cancel BY <1>31 DEF Cancel
<1>32. CASE Expire BY <1>32 DEF Expire
<1>33. CASE Returned BY <1>33 DEF Returned
<1>34. CASE UNCHANGED vars BY <1>34
<1> QED
  BY <1>1, <1>2, <1>3, <1>4, <1>5, <1>6, <1>7, <1>8, <1>9, <1>10,
     <1>11, <1>12, <1>13, <1>14, <1>15, <1>16, <1>17, <1>18, <1>19, <1>20,
     <1>21, <1>22, <1>23, <1>24, <1>25, <1>26, <1>27, <1>28, <1>29, <1>30,
     <1>31, <1>32, <1>33, <1>34
  DEF Next, Step, Check, Book, Refresh

(* allSeenReserved tells the truth about the slots passed so far. *)
LEMMA ReservedStep ==
    ASSUME ControlOK, SlotInRange, HistoryOK, ReservedSoFar, [Next]_vars
    PROVE  ReservedSoFar'
<1> USE MaxSlotsAssumption DEF ControlOK, SlotInRange, HistoryOK, ReservedSoFar, Walking, Index,
    clubVars, passVars, waitVars, toldVars, vars, Finish, Goto, NextSlot, Answered,
    ResultForDeadline, StatusForDeadline, EndPass, Sleep, RetryWait,
    NextRapidBackoff, smaller, larger, NoAnswer, FreshPass
<1>1. CASE SlotsListed BY <1>1 DEF SlotsListed
<1>2. CASE SlotsFailed BY <1>2 DEF SlotsFailed
<1>3. CASE SlotsInvalidToken BY <1>3 DEF SlotsInvalidToken
<1>4. CASE StartPass BY <1>4 DEF StartPass
<1>5. CASE StopBeforePass BY <1>5 DEF StopBeforePass
<1>6. CASE StartSlot BY <1>6 DEF StartSlot
<1>7. CASE StopBeforeSlot BY <1>7 DEF StopBeforeSlot
<1>8. CASE PassOver BY <1>8 DEF PassOver
<1>9. CASE CheckFree BY <1>9 DEF CheckFree
<1>10. CASE CheckUnavailable BY <1>10 DEF CheckUnavailable
<1>11. CASE CheckReserved BY <1>11 DEF CheckReserved
<1>12. CASE CheckBlocked BY <1>12 DEF CheckBlocked
<1>13. CASE CheckInvalidToken BY <1>13 DEF CheckInvalidToken
<1>14. CASE CheckFails BY <1>14 DEF CheckFails
<1>15. CASE DelayOver BY <1>15 DEF DelayOver
<1>16. CASE StopInDelay BY <1>16 DEF StopInDelay
<1>17. CASE BookConfirmed BY <1>17 DEF BookConfirmed
<1>18. CASE BookRefused BY <1>18 DEF BookRefused
<1>19. CASE BookAnswerLost BY <1>19 DEF BookAnswerLost
<1>20. CASE BookBlocked BY <1>20 DEF BookBlocked
<1>21. CASE BlindBookBlocked BY <1>21 DEF BlindBookBlocked
<1>22. CASE BookInvalidToken BY <1>22 DEF BookInvalidToken
<1>23. CASE RefreshGivenUp BY <1>23 DEF RefreshGivenUp
<1>24. CASE RefreshBegins BY <1>24 DEF RefreshBegins
<1>25. CASE LoginRefused BY <1>25 DEF LoginRefused
<1>26. CASE LoginForSlots BY <1>26 DEF LoginForSlots
<1>27. CASE LoginForPass BY <1>27 DEF LoginForPass
<1>28. CASE Wake BY <1>28 DEF Wake
<1>29. CASE StopInSleep BY <1>29 DEF StopInSleep
<1>30. CASE Deadline BY <1>30 DEF Deadline
<1>31. CASE Cancel BY <1>31 DEF Cancel
<1>32. CASE Expire BY <1>32 DEF Expire
<1>33. CASE Returned BY <1>33 DEF Returned
<1>34. CASE UNCHANGED vars BY <1>34
<1> QED
  BY <1>1, <1>2, <1>3, <1>4, <1>5, <1>6, <1>7, <1>8, <1>9, <1>10,
     <1>11, <1>12, <1>13, <1>14, <1>15, <1>16, <1>17, <1>18, <1>19, <1>20,
     <1>21, <1>22, <1>23, <1>24, <1>25, <1>26, <1>27, <1>28, <1>29, <1>30,
     <1>31, <1>32, <1>33, <1>34
  DEF Next, Step, Check, Book, Refresh

(* Hence so does the result that is read off it. *)
LEMMA AllReservedStep ==
    ASSUME ContextOK, ControlOK, DoneIffReported, ReservedSoFar, AllReservedIsTrue, [Next]_vars
    PROVE  AllReservedIsTrue'
<1> USE DEF ContextOK, ControlOK, DoneIffReported, ReservedSoFar,
    AllReservedIsTrue, Walking,
    clubVars, passVars, waitVars, toldVars, vars, Finish, Goto, NextSlot, Answered,
    ResultForDeadline, StatusForDeadline, EndPass, Sleep, RetryWait,
    NextRapidBackoff, smaller, larger, NoAnswer, FreshPass
<1>1. CASE SlotsListed BY <1>1 DEF SlotsListed
<1>2. CASE SlotsFailed BY <1>2 DEF SlotsFailed
<1>3. CASE SlotsInvalidToken BY <1>3 DEF SlotsInvalidToken
<1>4. CASE StartPass BY <1>4 DEF StartPass
<1>5. CASE StopBeforePass BY <1>5 DEF StopBeforePass
<1>6. CASE StartSlot BY <1>6 DEF StartSlot
<1>7. CASE StopBeforeSlot BY <1>7 DEF StopBeforeSlot
<1>8. CASE PassOver BY <1>8 DEF PassOver
<1>9. CASE CheckFree BY <1>9 DEF CheckFree
<1>10. CASE CheckUnavailable BY <1>10 DEF CheckUnavailable
<1>11. CASE CheckReserved BY <1>11 DEF CheckReserved
<1>12. CASE CheckBlocked BY <1>12 DEF CheckBlocked
<1>13. CASE CheckInvalidToken BY <1>13 DEF CheckInvalidToken
<1>14. CASE CheckFails BY <1>14 DEF CheckFails
<1>15. CASE DelayOver BY <1>15 DEF DelayOver
<1>16. CASE StopInDelay BY <1>16 DEF StopInDelay
<1>17. CASE BookConfirmed BY <1>17 DEF BookConfirmed
<1>18. CASE BookRefused BY <1>18 DEF BookRefused
<1>19. CASE BookAnswerLost BY <1>19 DEF BookAnswerLost
<1>20. CASE BookBlocked BY <1>20 DEF BookBlocked
<1>21. CASE BlindBookBlocked BY <1>21 DEF BlindBookBlocked
<1>22. CASE BookInvalidToken BY <1>22 DEF BookInvalidToken
<1>23. CASE RefreshGivenUp BY <1>23 DEF RefreshGivenUp
<1>24. CASE RefreshBegins BY <1>24 DEF RefreshBegins
<1>25. CASE LoginRefused BY <1>25 DEF LoginRefused
<1>26. CASE LoginForSlots BY <1>26 DEF LoginForSlots
<1>27. CASE LoginForPass BY <1>27 DEF LoginForPass
<1>28. CASE Wake BY <1>28 DEF Wake
<1>29. CASE StopInSleep BY <1>29 DEF StopInSleep
<1>30. CASE Deadline BY <1>30 DEF Deadline
<1>31. CASE Cancel BY <1>31 DEF Cancel
<1>32. CASE Expire BY <1>32 DEF Expire
<1>33. CASE Returned BY <1>33 DEF Returned
<1>34. CASE UNCHANGED vars BY <1>34
<1> QED
  BY <1>1, <1>2, <1>3, <1>4, <1>5, <1>6, <1>7, <1>8, <1>9, <1>10,
     <1>11, <1>12, <1>13, <1>14, <1>15, <1>16, <1>17, <1>18, <1>19, <1>20,
     <1>21, <1>22, <1>23, <1>24, <1>25, <1>26, <1>27, <1>28, <1>29, <1>30,
     <1>31, <1>32, <1>33, <1>34
  DEF Next, Step, Check, Book, Refresh

(* After a blocking answer the wait before the next pass is long enough.   *)
LEMMA WaitPaysOff ==
    ASSUME WaitsOK, NEW kind \in {"accountWide", "rapid"},
           rapidWait >= LeastWait("rapid")
    PROVE  /\ LeastWait(kind) \in Nat
           /\ RetryWait(kind, rapidWait) \in Nat
           /\ RetryWait(kind, rapidWait) >= LeastWait(kind)
<1> USE WaitsAssumption DEF WaitsOK, LeastWait, RetryWait, larger, smaller
<1>1. CASE kind = "accountWide" BY <1>1
<1>2. CASE kind = "rapid" BY <1>2
<1> QED BY <1>1, <1>2

(* Doubling up to the cap never leads below the first wait.                *)
LEMMA BackoffKeepsFloor ==
    ASSUME WaitsOK, rapidWait >= LeastWait("rapid")
    PROVE  /\ NextRapidBackoff(rapidWait) >= LeastWait("rapid")
           /\ RapidBackoffInitial >= LeastWait("rapid")
BY WaitsAssumption DEF WaitsOK, LeastWait, NextRapidBackoff, smaller

(* The end of a pass: the run returns, or sleeps for the wait, and the     *)
(* back-off stays above its floor.                                         *)
LEMMA PassEndsAsleep ==
    ASSUME WaitsOK, QuietWhileOwing, NEW kind \in Kinds, EndPass(kind)
    PROVE  /\ rapidWait' >= LeastWait("rapid")
           /\ \/ pc' = "done"
              \/ wait' = RetryWait(kind, rapidWait) /\ pc' = "sleep"
              \/ wait' = RetryWait(kind, rapidWait) /\ ~(wait' > 0) /\ pc' = "pass"
<1>1. rapidWait' \in {rapidWait, NextRapidBackoff(rapidWait), RapidBackoffInitial}
  BY DEF EndPass, waitVars
<1>2. rapidWait' >= LeastWait("rapid")
  BY <1>1, BackoffKeepsFloor DEF QuietWhileOwing
<1>3. \/ pc' = "done"
      \/ wait' = RetryWait(kind, rapidWait) /\ pc' = "sleep"
      \/ wait' = RetryWait(kind, rapidWait) /\ ~(wait' > 0) /\ pc' = "pass"
  BY DEF EndPass, Sleep, Finish
<1> QED BY <1>2, <1>3

(* A run that owes a wait makes no call, and sleeps long enough.           *)
LEMMA OwedStep ==
    ASSUME WaitsOK, HistoryOK, QuietWhileOwing, [Next]_vars
    PROVE  QuietWhileOwing'
<1>a. ASSUME NEW kind \in {"accountWide", "rapid"}, EndPass(kind), owed' = LeastWait(kind)
      PROVE  QuietWhileOwing'
  <2>1. /\ LeastWait(kind) \in Nat /\ RetryWait(kind, rapidWait) \in Nat
        /\ RetryWait(kind, rapidWait) >= LeastWait(kind)
    BY <1>a, WaitPaysOff DEF QuietWhileOwing
  <2>2. /\ rapidWait' >= LeastWait("rapid")
        /\ \/ pc' = "done"
           \/ wait' = RetryWait(kind, rapidWait) /\ pc' = "sleep"
           \/ wait' = RetryWait(kind, rapidWait) /\ ~(wait' > 0) /\ pc' = "pass"
    BY <1>a, PassEndsAsleep DEF Kinds
  <2> QED BY <1>a, <2>1, <2>2 DEF QuietWhileOwing
<1>b. ASSUME pc = "slot", owed' = owed, EndPass("retryOnly") PROVE QuietWhileOwing'
  <2>1. owed = 0 BY <1>b DEF QuietWhileOwing, HistoryOK
  <2>2. wait' \in Nat \/ pc' = "done"
    BY <1>b, WaitsAssumption DEF EndPass, Sleep, RetryWait, Finish
  <2>3. rapidWait' >= LeastWait("rapid") BY PassEndsAsleep, <1>b DEF Kinds
  <2> QED BY <1>b, <2>1, <2>2, <2>3 DEF QuietWhileOwing
<1> USE DEF QuietWhileOwing, WaitsOK, HistoryOK,
    clubVars, passVars, waitVars, toldVars, vars, Finish, Goto, NextSlot, Answered,
    ResultForDeadline, StatusForDeadline
<1>1. CASE SlotsListed BY <1>1 DEF SlotsListed
<1>2. CASE SlotsFailed BY <1>2 DEF SlotsFailed
<1>3. CASE SlotsInvalidToken BY <1>3 DEF SlotsInvalidToken
<1>4. CASE StartPass BY <1>4 DEF StartPass, FreshPass
<1>5. CASE StopBeforePass BY <1>5 DEF StopBeforePass
<1>6. CASE StartSlot BY <1>6 DEF StartSlot
<1>7. CASE StopBeforeSlot BY <1>7 DEF StopBeforeSlot
<1>8. CASE PassOver BY <1>8, <1>b DEF PassOver
<1>9. CASE CheckFree BY <1>9 DEF CheckFree
<1>10. CASE CheckUnavailable BY <1>10 DEF CheckUnavailable
<1>11. CASE CheckReserved BY <1>11 DEF CheckReserved
<1>12. CASE CheckBlocked BY <1>12, <1>a DEF CheckBlocked
<1>13. CASE CheckInvalidToken BY <1>13 DEF CheckInvalidToken
<1>14. CASE CheckFails BY <1>14 DEF CheckFails
<1>15. CASE DelayOver BY <1>15 DEF DelayOver
<1>16. CASE StopInDelay BY <1>16 DEF StopInDelay
<1>17. CASE BookConfirmed BY <1>17 DEF BookConfirmed
<1>18. CASE BookRefused BY <1>18 DEF BookRefused
<1>19. CASE BookAnswerLost BY <1>19 DEF BookAnswerLost
<1>20. CASE BookBlocked BY <1>20, <1>a DEF BookBlocked
<1>21. CASE BlindBookBlocked BY <1>21 DEF BlindBookBlocked
<1>22. CASE BookInvalidToken BY <1>22 DEF BookInvalidToken
<1>23. CASE RefreshGivenUp BY <1>23 DEF RefreshGivenUp
<1>24. CASE RefreshBegins BY <1>24 DEF RefreshBegins
<1>25. CASE LoginRefused BY <1>25 DEF LoginRefused
<1>26. CASE LoginForSlots BY <1>26 DEF LoginForSlots
<1>27. CASE LoginForPass
  BY <1>27, WaitsAssumption DEF LoginForPass, Sleep, RetryWait
<1>28. CASE Wake BY <1>28 DEF Wake, larger
<1>29. CASE StopInSleep BY <1>29 DEF StopInSleep
<1>30. CASE Deadline BY <1>30 DEF Deadline
<1>31. CASE Cancel BY <1>31 DEF Cancel
<1>32. CASE Expire BY <1>32 DEF Expire
<1>33. CASE Returned BY <1>33 DEF Returned
<1>34. CASE UNCHANGED vars BY <1>34
<1> QED
  BY <1>1, <1>2, <1>3, <1>4, <1>5, <1>6, <1>7, <1>8, <1>9, <1>10,
     <1>11, <1>12, <1>13, <1>14, <1>15, <1>16, <1>17, <1>18, <1>19, <1>20,
     <1>21, <1>22, <1>23, <1>24, <1>25, <1>26, <1>27, <1>28, <1>29, <1>30,
     <1>31, <1>32, <1>33, <1>34
  DEF Next, Step, Check, Book, Refresh

(* The calls that can still follow once the context is done. *)
LEMMA LateStep ==
    ASSUME ContextOK, HistoryOK, LateBudget, [Next]_vars
    PROVE  LateBudget'
<1> USE DEF ContextOK, HistoryOK, LateBudget,
    clubVars, passVars, waitVars, toldVars, vars, Finish, Goto, NextSlot, Answered,
    ResultForDeadline, StatusForDeadline, EndPass, Sleep, RetryWait,
    NextRapidBackoff, smaller, larger, NoAnswer, FreshPass
<1>1. CASE SlotsListed BY <1>1 DEF SlotsListed
<1>2. CASE SlotsFailed BY <1>2 DEF SlotsFailed
<1>3. CASE SlotsInvalidToken BY <1>3 DEF SlotsInvalidToken
<1>4. CASE StartPass BY <1>4 DEF StartPass
<1>5. CASE StopBeforePass BY <1>5 DEF StopBeforePass
<1>6. CASE StartSlot BY <1>6 DEF StartSlot
<1>7. CASE StopBeforeSlot BY <1>7 DEF StopBeforeSlot
<1>8. CASE PassOver BY <1>8 DEF PassOver
<1>9. CASE CheckFree BY <1>9 DEF CheckFree
<1>10. CASE CheckUnavailable BY <1>10 DEF CheckUnavailable
<1>11. CASE CheckReserved BY <1>11 DEF CheckReserved
<1>12. CASE CheckBlocked BY <1>12 DEF CheckBlocked
<1>13. CASE CheckInvalidToken BY <1>13 DEF CheckInvalidToken
<1>14. CASE CheckFails BY <1>14 DEF CheckFails
<1>15. CASE DelayOver BY <1>15 DEF DelayOver
<1>16. CASE StopInDelay BY <1>16 DEF StopInDelay
<1>17. CASE BookConfirmed BY <1>17 DEF BookConfirmed
<1>18. CASE BookRefused BY <1>18 DEF BookRefused
<1>19. CASE BookAnswerLost BY <1>19 DEF BookAnswerLost
<1>20. CASE BookBlocked BY <1>20 DEF BookBlocked
<1>21. CASE BlindBookBlocked BY <1>21 DEF BlindBookBlocked
<1>22. CASE BookInvalidToken BY <1>22 DEF BookInvalidToken
<1>23. CASE RefreshGivenUp BY <1>23 DEF RefreshGivenUp
<1>24. CASE RefreshBegins BY <1>24 DEF RefreshBegins
<1>25. CASE LoginRefused BY <1>25 DEF LoginRefused
<1>26. CASE LoginForSlots BY <1>26 DEF LoginForSlots
<1>27. CASE LoginForPass BY <1>27 DEF LoginForPass
<1>28. CASE Wake BY <1>28 DEF Wake
<1>29. CASE StopInSleep BY <1>29 DEF StopInSleep
<1>30. CASE Deadline BY <1>30 DEF Deadline
<1>31. CASE Cancel BY <1>31 DEF Cancel
<1>32. CASE Expire BY <1>32 DEF Expire
<1>33. CASE Returned BY <1>33 DEF Returned
<1>34. CASE UNCHANGED vars BY <1>34
<1> QED
  BY <1>1, <1>2, <1>3, <1>4, <1>5, <1>6, <1>7, <1>8, <1>9, <1>10,
     <1>11, <1>12, <1>13, <1>14, <1>15, <1>16, <1>17, <1>18, <1>19, <1>20,
     <1>21, <1>22, <1>23, <1>24, <1>25, <1>26, <1>27, <1>28, <1>29, <1>30,
     <1>31, <1>32, <1>33, <1>34
  DEF Next, Step, Check, Book, Refresh

(* The blame put on the user or the deadline is true. *)
LEMMA ReasonStep ==
    ASSUME ContextOK, DoneIffReported, StopReasonIsTrue, [Next]_vars
    PROVE  StopReasonIsTrue'
<1> USE DEF ContextOK, DoneIffReported, StopReasonIsTrue,
    clubVars, passVars, waitVars, toldVars, vars, Finish, Goto, NextSlot, Answered,
    ResultForDeadline, StatusForDeadline, EndPass, Sleep, RetryWait,
    NextRapidBackoff, smaller, larger, NoAnswer, FreshPass
<1>1. CASE SlotsListed BY <1>1 DEF SlotsListed
<1>2. CASE SlotsFailed BY <1>2 DEF SlotsFailed
<1>3. CASE SlotsInvalidToken BY <1>3 DEF SlotsInvalidToken
<1>4. CASE StartPass BY <1>4 DEF StartPass
<1>5. CASE StopBeforePass BY <1>5 DEF StopBeforePass
<1>6. CASE StartSlot BY <1>6 DEF StartSlot
<1>7. CASE StopBeforeSlot BY <1>7 DEF StopBeforeSlot
<1>8. CASE PassOver BY <1>8 DEF PassOver
<1>9. CASE CheckFree BY <1>9 DEF CheckFree
<1>10. CASE CheckUnavailable BY <1>10 DEF CheckUnavailable
<1>11. CASE CheckReserved BY <1>11 DEF CheckReserved
<1>12. CASE CheckBlocked BY <1>12 DEF CheckBlocked
<1>13. CASE CheckInvalidToken BY <1>13 DEF CheckInvalidToken
<1>14. CASE CheckFails BY <1>14 DEF CheckFails
<1>15. CASE DelayOver BY <1>15 DEF DelayOver
<1>16. CASE StopInDelay BY <1>16 DEF StopInDelay
<1>17. CASE BookConfirmed BY <1>17 DEF BookConfirmed
<1>18. CASE BookRefused BY <1>18 DEF BookRefused
<1>19. CASE BookAnswerLost BY <1>19 DEF BookAnswerLost
<1>20. CASE BookBlocked BY <1>20 DEF BookBlocked
<1>21. CASE BlindBookBlocked BY <1>21 DEF BlindBookBlocked
<1>22. CASE BookInvalidToken BY <1>22 DEF BookInvalidToken
<1>23. CASE RefreshGivenUp BY <1>23 DEF RefreshGivenUp
<1>24. CASE RefreshBegins BY <1>24 DEF RefreshBegins
<1>25. CASE LoginRefused BY <1>25 DEF LoginRefused
<1>26. CASE LoginForSlots BY <1>26 DEF LoginForSlots
<1>27. CASE LoginForPass BY <1>27 DEF LoginForPass
<1>28. CASE Wake BY <1>28 DEF Wake
<1>29. CASE StopInSleep BY <1>29 DEF StopInSleep
<1>30. CASE Deadline BY <1>30 DEF Deadline
<1>31. CASE Cancel BY <1>31 DEF Cancel
<1>32. CASE Expire BY <1>32 DEF Expire
<1>33. CASE Returned BY <1>33 DEF Returned
<1>34. CASE UNCHANGED vars BY <1>34
<1> QED
  BY <1>1, <1>2, <1>3, <1>4, <1>5, <1>6, <1>7, <1>8, <1>9, <1>10,
     <1>11, <1>12, <1>13, <1>14, <1>15, <1>16, <1>17, <1>18, <1>19, <1>20,
     <1>21, <1>22, <1>23, <1>24, <1>25, <1>26, <1>27, <1>28, <1>29, <1>30,
     <1>31, <1>32, <1>33, <1>34
  DEF Next, Step, Check, Book, Refresh

(* Every step of the run is a step of BookingRun, or none of its business. *)
LEMMA AbstractStep ==
    ASSUME ContextOK, ControlOK, SlotInRange, DoneIffReported, StopsAtFirstBooking, ResultOK, [Next]_vars
    PROVE  [Abstract!AbstractNext]_(Abstract!abstractVars)
<1> USE DEF ContextOK, ControlOK, SlotInRange, DoneIffReported,
    StopsAtFirstBooking, ResultOK, Index,
    Abstract!AbstractNext, Abstract!abstractVars, Abstract!StopRun, Abstract!Stops,
    Abstract!Succeed, Abstract!GiveUp, Abstract!MayReport,
    clubVars, passVars, waitVars, toldVars, vars, Finish, Goto, NextSlot, Answered,
    ResultForDeadline, StatusForDeadline, EndPass, Sleep, RetryWait,
    NextRapidBackoff, smaller, larger, NoAnswer, FreshPass
<1>1. CASE SlotsListed BY <1>1 DEF SlotsListed
<1>2. CASE SlotsFailed BY <1>2 DEF SlotsFailed
<1>3. CASE SlotsInvalidToken BY <1>3 DEF SlotsInvalidToken
<1>4. CASE StartPass BY <1>4 DEF StartPass
<1>5. CASE StopBeforePass BY <1>5 DEF StopBeforePass
<1>6. CASE StartSlot BY <1>6 DEF StartSlot
<1>7. CASE StopBeforeSlot BY <1>7 DEF StopBeforeSlot
<1>8. CASE PassOver BY <1>8 DEF PassOver
<1>9. CASE CheckFree BY <1>9 DEF CheckFree
<1>10. CASE CheckUnavailable BY <1>10 DEF CheckUnavailable
<1>11. CASE CheckReserved BY <1>11 DEF CheckReserved
<1>12. CASE CheckBlocked BY <1>12 DEF CheckBlocked
<1>13. CASE CheckInvalidToken BY <1>13 DEF CheckInvalidToken
<1>14. CASE CheckFails BY <1>14 DEF CheckFails
<1>15. CASE DelayOver BY <1>15 DEF DelayOver
<1>16. CASE StopInDelay BY <1>16 DEF StopInDelay
<1>17. CASE BookConfirmed
  <2>1. result.status = "running" /\ confirmed = {}
    BY <1>17 DEF BookConfirmed
  <2>2. i \in 1 .. MaxSlots /\ confirmed' = {i}
    BY <1>17, <2>1, MaxSlotsAssumption DEF BookConfirmed
  <2>3. result'.status = "success" /\ ctx' = ctx
    BY <1>17 DEF BookConfirmed
  <2> QED BY <2>1, <2>2, <2>3
<1>18. CASE BookRefused BY <1>18 DEF BookRefused
<1>19. CASE BookAnswerLost BY <1>19 DEF BookAnswerLost
<1>20. CASE BookBlocked BY <1>20 DEF BookBlocked
<1>21. CASE BlindBookBlocked BY <1>21 DEF BlindBookBlocked
<1>22. CASE BookInvalidToken BY <1>22 DEF BookInvalidToken
<1>23. CASE RefreshGivenUp BY <1>23 DEF RefreshGivenUp
<1>24. CASE RefreshBegins BY <1>24 DEF RefreshBegins
<1>25. CASE LoginRefused BY <1>25 DEF LoginRefused
<1>26. CASE LoginForSlots BY <1>26 DEF LoginForSlots
<1>27. CASE LoginForPass BY <1>27 DEF LoginForPass
<1>28. CASE Wake BY <1>28 DEF Wake
<1>29. CASE StopInSleep BY <1>29 DEF StopInSleep
<1>30. CASE Deadline BY <1>30 DEF Deadline
<1>31. CASE Cancel BY <1>31 DEF Cancel
<1>32. CASE Expire BY <1>32 DEF Expire
<1>33. CASE Returned BY <1>33 DEF Returned
<1>34. CASE UNCHANGED vars BY <1>34
<1> QED
  BY <1>1, <1>2, <1>3, <1>4, <1>5, <1>6, <1>7, <1>8, <1>9, <1>10,
     <1>11, <1>12, <1>13, <1>14, <1>15, <1>16, <1>17, <1>18, <1>19, <1>20,
     <1>21, <1>22, <1>23, <1>24, <1>25, <1>26, <1>27, <1>28, <1>29, <1>30,
     <1>31, <1>32, <1>33, <1>34
  DEF Next, Step, Check, Book, Refresh

-------------------------------------------------------------------------------
(* The Rapid backoff.                                                      *)

(* The cap is positive, and `rapids` counts far enough to reach it.  The   *)
(* scheduler's 3 s and 24 s reach it with the fourth pass; up to eight     *)
(* are considered, for powers of an unknown exponent are beyond the        *)
(* provers.                                                                *)
CappedBackoff ==
    /\ MaxRapids <= 8
    /\ RapidBackoffInitial <= RapidBackoffMax /\ RapidBackoffMax > 0
    /\ RapidBackoffMax <= RapidBackoffInitial * 2 ^ (MaxRapids - 1)

(* The wait that follows n consecutive Rapid passes if another one comes.  *)
Backoff(n) == smaller(RapidBackoffInitial * 2 ^ n, RapidBackoffMax)

(* What the next Rapid pass will wait is what the schedule says of it.     *)
BackoffOK ==
    /\ rapidWait = Backoff(rapids)
    /\ RapidWaitFollowsSchedule

(* The powers of two that the schedule goes through.                       *)
LEMMA Doubling ==
    ASSUME NEW n \in 0 .. 7
    PROVE  2 ^ n \in Nat /\ 2 ^ (n + 1) = 2 * 2 ^ n
<1>1. 2 ^ 0 = 1
  OBVIOUS
<1>2. 2 ^ 1 = 2 /\ 2 ^ 2 = 4 /\ 2 ^ 3 = 8 /\ 2 ^ 4 = 16
  OBVIOUS
<1>3. 2 ^ 5 = 32 /\ 2 ^ 6 = 64 /\ 2 ^ 7 = 128 /\ 2 ^ 8 = 256
  OBVIOUS
<1>4. CASE n = 0
  <2>1. n + 1 = 1
    BY <1>4
  <2> QED
    BY <1>1, <1>2, <1>3, <1>4, <2>1
<1>5. CASE n = 1
  <2>1. n + 1 = 2
    BY <1>5
  <2> QED
    BY <1>1, <1>2, <1>3, <1>5, <2>1
<1>6. CASE n = 2
  <2>1. n + 1 = 3
    BY <1>6
  <2> QED
    BY <1>1, <1>2, <1>3, <1>6, <2>1
<1>7. CASE n = 3
  <2>1. n + 1 = 4
    BY <1>7
  <2> QED
    BY <1>1, <1>2, <1>3, <1>7, <2>1
<1>8. CASE n = 4
  <2>1. n + 1 = 5
    BY <1>8
  <2> QED
    BY <1>1, <1>2, <1>3, <1>8, <2>1
<1>9. CASE n = 5
  <2>1. n + 1 = 6
    BY <1>9
  <2> QED
    BY <1>1, <1>2, <1>3, <1>9, <2>1
<1>10. CASE n = 6
  <2>1. n + 1 = 7
    BY <1>10
  <2> QED
    BY <1>1, <1>2, <1>3, <1>10, <2>1
<1>11. CASE n = 7
  <2>1. n + 1 = 8
    BY <1>11
  <2> QED
    BY <1>1, <1>2, <1>3, <1>11, <2>1
<1> QED
  BY <1>4, <1>5, <1>6, <1>7, <1>8, <1>9, <1>10, <1>11

(* Doubling with a cap is the schedule, also where the counter saturates.  *)
LEMMA BackoffSchedule ==
    ASSUME CappedBackoff, NEW n \in 0 .. MaxRapids, NEW r, r = smaller(n + 1, MaxRapids)
    PROVE  /\ NextRapidBackoff(Backoff(n)) = Backoff(r)
           /\ Backoff(r - 1) = Backoff(n)
<1> DEFINE P(k) == RapidBackoffInitial * 2 ^ k
<1>t. /\ RapidBackoffInitial \in Nat /\ RapidBackoffMax \in Nat /\ RapidBackoffMax > 0
      /\ MaxRapids \in 1 .. 8
  BY WaitsAssumption, BoundsAssumption DEF CappedBackoff
<1>1. ASSUME NEW k \in 0 .. 7 PROVE P(k) \in Nat /\ P(k + 1) = 2 * P(k)
  <2>1. PICK a \in Nat : 2 ^ k = a /\ 2 ^ (k + 1) = 2 * a
    BY Doubling
  <2> QED
    BY <1>t, <2>1
<1>2. RapidBackoffMax <= P(MaxRapids - 1)
  BY DEF CappedBackoff
<1>3. \A k : Backoff(k) = smaller(P(k), RapidBackoffMax)
  BY DEF Backoff
<1> HIDE DEF P
<1>4. P(MaxRapids) = 2 * P(MaxRapids - 1) /\ P(MaxRapids - 1) \in Nat
  <2>1. MaxRapids - 1 \in 0 .. 7 /\ (MaxRapids - 1) + 1 = MaxRapids
    BY <1>t
  <2> QED
    BY <1>1, <2>1
<1>5. CASE n < MaxRapids
  <2>1. r = n + 1 /\ n \in 0 .. 7 /\ r - 1 = n
    BY <1>t, <1>5 DEF smaller
  <2>2. P(n) \in Nat /\ P(r) = 2 * P(n)
    BY <1>1, <2>1
  <2> QED
    BY <1>t, <1>3, <2>1, <2>2 DEF NextRapidBackoff, smaller
<1>6. CASE n = MaxRapids
  <2>1. r = MaxRapids
    BY <1>t, <1>6 DEF smaller
  <2>2. Backoff(MaxRapids - 1) = RapidBackoffMax /\ Backoff(MaxRapids) = RapidBackoffMax
    BY <1>t, <1>2, <1>3, <1>4 DEF smaller
  <2> QED
    BY <1>t, <1>6, <2>1, <2>2 DEF NextRapidBackoff
<1> QED
  BY <1>t, <1>5, <1>6

(* A pass ends with the wait of the schedule, or resets it.                *)
LEMMA BackoffAfterPass ==
    ASSUME CappedBackoff, WaitsOK, BackoffOK, NEW kind \in Kinds, EndPass(kind)
    PROVE  BackoffOK'
<1>t. rapids \in 0 .. MaxRapids /\ rapidWait = Backoff(rapids)
  BY DEF WaitsOK, BackoffOK
<1>1. CASE ~mode.repeat
  BY <1>1 DEF EndPass, Finish, waitVars, BackoffOK, RapidWaitFollowsSchedule, Backoff
<1>2. CASE mode.repeat /\ kind = "rapid"
  <2>1. /\ wait' = larger(RetryInterval, rapidWait)
        /\ rapidWait' = NextRapidBackoff(rapidWait)
        /\ rapids' = smaller(rapids + 1, MaxRapids)
    BY <1>2 DEF EndPass, Sleep, RetryWait
  <2>2. rapidWait' = Backoff(rapids') /\ rapidWait = Backoff(rapids' - 1)
    BY <1>t, <2>1, BackoffSchedule
  <2> QED
    BY <2>1, <2>2 DEF BackoffOK, RapidWaitFollowsSchedule, Backoff
<1>3. CASE mode.repeat /\ kind # "rapid"
  <2>1. waitKind' # "rapid" /\ rapidWait' = RapidBackoffInitial /\ rapids' = 0
    BY <1>3 DEF EndPass, Sleep
  <2>2. Backoff(0) = RapidBackoffInitial
    <3>1. 2 ^ 0 = 1
      OBVIOUS
    <3> QED
      BY <3>1, WaitsAssumption DEF Backoff, smaller, CappedBackoff
  <2> QED
    BY <2>1, <2>2 DEF BackoffOK, RapidWaitFollowsSchedule, Backoff
<1> QED
  BY <1>1, <1>2, <1>3

\* Every step keeps the schedule: only a Rapid pass advances the wait, and only a pass
\* without one resets it.
LEMMA BackoffStep ==
    ASSUME CappedBackoff, IInv, BackoffOK, [Next]_vars
    PROVE  BackoffOK'
<1>f. UNCHANGED waitVars /\ (pc' = "sleep" => pc = "sleep") => BackoffOK'
  BY DEF waitVars, BackoffOK, RapidWaitFollowsSchedule, Backoff
<1> USE DEF vars, Finish, Goto, NextSlot, ResultForDeadline
<1>1. CASE SlotsListed
  BY <1>1, <1>f DEF SlotsListed
<1>2. CASE SlotsFailed
  BY <1>2, <1>f DEF SlotsFailed
<1>3. CASE SlotsInvalidToken
  BY <1>3, <1>f DEF SlotsInvalidToken
<1>4. CASE StartPass
  BY <1>4, <1>f DEF StartPass
<1>5. CASE StopBeforePass
  BY <1>5, <1>f DEF StopBeforePass
<1>6. CASE StartSlot
  BY <1>6, <1>f DEF StartSlot
<1>7. CASE StopBeforeSlot
  BY <1>7, <1>f DEF StopBeforeSlot
<1>8. CASE PassOver
  BY <1>8, BackoffAfterPass, <1>f DEF PassOver, IInv, TypeOK, Kinds, Finish
<1>9. CASE CheckFree
  BY <1>9, <1>f DEF CheckFree
<1>10. CASE CheckUnavailable
  BY <1>10, <1>f DEF CheckUnavailable
<1>11. CASE CheckReserved
  BY <1>11, <1>f DEF CheckReserved
<1>12. CASE CheckBlocked
  BY <1>12, BackoffAfterPass, <1>f DEF CheckBlocked, IInv, TypeOK, Kinds, Finish
<1>13. CASE CheckInvalidToken
  BY <1>13, <1>f DEF CheckInvalidToken
<1>14. CASE CheckFails
  BY <1>14, <1>f DEF CheckFails
<1>15. CASE DelayOver
  BY <1>15, <1>f DEF DelayOver
<1>16. CASE StopInDelay
  BY <1>16, <1>f DEF StopInDelay
<1>17. CASE BookConfirmed
  BY <1>17, <1>f DEF BookConfirmed
<1>18. CASE BookRefused
  BY <1>18, <1>f DEF BookRefused
<1>19. CASE BookAnswerLost
  BY <1>19, <1>f DEF BookAnswerLost
<1>20. CASE BookBlocked
  BY <1>20, BackoffAfterPass, <1>f DEF BookBlocked, IInv, TypeOK, Kinds, Finish
<1>21. CASE BlindBookBlocked
  BY <1>21, <1>f DEF BlindBookBlocked
<1>22. CASE BookInvalidToken
  BY <1>22, <1>f DEF BookInvalidToken
<1>23. CASE RefreshGivenUp
  BY <1>23, <1>f DEF RefreshGivenUp
<1>24. CASE RefreshBegins
  BY <1>24, <1>f DEF RefreshBegins
<1>25. CASE LoginRefused
  BY <1>25, <1>f DEF LoginRefused
<1>26. CASE LoginForSlots
  BY <1>26, <1>f DEF LoginForSlots
<1>27. CASE LoginForPass
  BY <1>27 DEF LoginForPass, Sleep, BackoffOK, RapidWaitFollowsSchedule
<1>28. CASE Wake
  BY <1>28, <1>f DEF Wake
<1>29. CASE StopInSleep
  BY <1>29, <1>f DEF StopInSleep
<1>30. CASE Deadline
  BY <1>30, <1>f DEF Deadline
<1>31. CASE Cancel
  BY <1>31, <1>f DEF Cancel
<1>32. CASE Expire
  BY <1>32, <1>f DEF Expire
<1>33. CASE Returned
  BY <1>33, <1>f DEF Returned
<1>34. CASE UNCHANGED vars
  BY <1>34, <1>f DEF waitVars
<1> QED
  BY <1>1, <1>2, <1>3, <1>4, <1>5, <1>6, <1>7, <1>8, <1>9, <1>10, <1>11,
     <1>12, <1>13, <1>14, <1>15, <1>16, <1>17, <1>18, <1>19, <1>20, <1>21,
     <1>22, <1>23, <1>24, <1>25, <1>26, <1>27, <1>28, <1>29, <1>30, <1>31,
     <1>32, <1>33, <1>34
     DEF Next, Step, Check, Book, Refresh

-------------------------------------------------------------------------------
(* The initial states satisfy the invariant.                               *)
LEMMA InitIInv == Init => IInv
<1> SUFFICES ASSUME Init PROVE IInv
  OBVIOUS
<1> USE MaxSlotsAssumption, WaitsAssumption, BoundsAssumption DEF Init
<1>1. ContextOK BY DEF ContextOK
<1>2. ControlOK BY DEF ControlOK, Calling
<1>3. ResultOK BY DEF ResultOK
<1>4. WaitsOK BY DEF WaitsOK, Kinds
<1>5. HistoryOK BY DEF HistoryOK, Index, Answers, NoAnswer
<1>6. SlotInRange /\ DoneIffReported /\ StopsAtFirstBooking
  BY DEF SlotInRange, DoneIffReported, StopsAtFirstBooking
<1>7. WalkedInOrder /\ EarlierSlotsTriedFirst /\ ReservedSoFar /\ AllReservedIsTrue
  BY DEF WalkedInOrder, EarlierSlotsTriedFirst, ReservedSoFar, AllReservedIsTrue, Walking
<1>8. QuietWhileOwing /\ LateBudget /\ StopReasonIsTrue
  BY DEF QuietWhileOwing, LeastWait, smaller, LateBudget, StopReasonIsTrue
<1> QED BY <1>1, <1>2, <1>3, <1>4, <1>5, <1>6, <1>7, <1>8 DEF IInv, TypeOK

(* Every step preserves it.                                                *)
LEMMA NextIInv == IInv /\ [Next]_vars => IInv'
<1> SUFFICES ASSUME IInv, [Next]_vars PROVE IInv'
  OBVIOUS
<1> USE DEF IInv, TypeOK
<1>1. TypeOK' /\ SlotInRange'
  BY ContextStep, ControlStep, ResultStep, WaitsStep, HistoryStep
<1>2. DoneIffReported' /\ StopsAtFirstBooking'
  BY DoneStep, BookingStep
<1>3. WalkedInOrder' /\ EarlierSlotsTriedFirst'
  BY OrderStep, EarlierStep
<1>4. ReservedSoFar' /\ AllReservedIsTrue'
  BY ReservedStep, AllReservedStep
<1>5. QuietWhileOwing' /\ LateBudget' /\ StopReasonIsTrue'
  BY OwedStep, LateStep, ReasonStep
<1> QED BY <1>1, <1>2, <1>3, <1>4, <1>5

(* IInv is an invariant of Runner.                                         *)
THEOREM Invariance == Spec => []IInv
  BY InitIInv, NextIInv, PTL DEF Spec

(* The variables of a run always have their types.                         *)
THEOREM TypeCorrect == Spec => []TypeOK
<1>1. IInv => TypeOK BY DEF IInv
<1> QED BY <1>1, Invariance, PTL

(* A run ends at the first booking the club confirms: it never makes a     *)
(* second one, and reports success exactly when there is one.              *)
THEOREM AtMostOneBooking == Spec => []StopsAtFirstBooking
<1>1. IInv => StopsAtFirstBooking BY DEF IInv
<1> QED BY <1>1, Invariance, PTL

(* The booked slot is the earliest the pass could get: every earlier slot  *)
(* had its answer in the same pass.                                        *)
THEOREM EarliestFirst == Spec => []EarlierSlotsTriedFirst
<1>1. IInv => EarlierSlotsTriedFirst BY DEF IInv
<1> QED BY <1>1, Invariance, PTL

(* "All tee times already reserved" is said only after a pass in which     *)
(* every slot was reported reserved.                                       *)
THEOREM AllReservedSound == Spec => []AllReservedIsTrue
<1>1. IInv => AllReservedIsTrue BY DEF IInv
<1> QED BY <1>1, Invariance, PTL

(* After a closed-window or Rapid answer to a checked slot there is no call *)
(* before a sleep, at least as long as the answer demands, has run its full *)
(* time.                                                                    *)
THEOREM BlockedMeansQuiet == Spec => []NoCallWhileBlocked
<1>1. IInv => NoCallWhileBlocked
  BY DEF IInv, QuietWhileOwing, NoCallWhileBlocked, Calling
<1> QED BY <1>1, Invariance, PTL

(* Once the context is done at most two more calls are answered.           *)
THEOREM PromptStop == Spec => []FewCallsAfterStop
<1>1. IInv => FewCallsAfterStop BY DEF IInv, LateBudget, FewCallsAfterStop
<1> QED BY <1>1, Invariance, PTL

(* "Cancelled" is reported only of a cancelled context, "no slot booked"   *)
(* for the deadline only of one past its deadline.                         *)
THEOREM TrueReason == Spec => []StopReasonIsTrue
<1>1. IInv => StopReasonIsTrue BY DEF IInv
<1> QED BY <1>1, Invariance, PTL

(* Both of these.                                                          *)
THEOREM ResultSound == Spec => []ResultIsTrue
<1>1. AllReservedIsTrue /\ StopReasonIsTrue => ResultIsTrue
  BY DEF ResultIsTrue
<1> QED BY <1>1, AllReservedSound, TrueReason, PTL

(* RapidWaitFollowsSchedule: the n-th Rapid pass in a row is followed by a  *)
(* wait of Initial * 2^(n-1), capped, however many refreshes, checks and    *)
(* interrupted waits come in between.                                       *)
THEOREM RapidSchedule ==
    ASSUME CappedBackoff
    PROVE  Spec => []RapidWaitFollowsSchedule
<1>1. Init => BackoffOK
  <2>1. Init => Backoff(rapids) = RapidBackoffInitial
    <3>1. 2 ^ 0 = 1
      OBVIOUS
    <3> QED
      BY <3>1, WaitsAssumption DEF Init, Backoff, smaller, CappedBackoff
  <2> QED
    BY <2>1 DEF Init, BackoffOK, RapidWaitFollowsSchedule
<1>2. IInv /\ BackoffOK /\ [Next]_vars => BackoffOK'
  BY BackoffStep
<1>3. BackoffOK => RapidWaitFollowsSchedule
  BY DEF BackoffOK
<1> QED
  BY <1>1, <1>2, <1>3, Invariance, PTL DEF Spec

(* Runner implements BookingRun: every run of the code is a run the        *)
(* scheduler's contract allows.                                            *)
THEOREM Refinement == Spec => ImplementsBookingRun
<1>1. Init => Abstract!AbstractInit
  BY DEF Init, Abstract!AbstractInit
<1>2. IInv /\ [Next]_vars => [Abstract!AbstractNext]_(Abstract!abstractVars)
  BY AbstractStep DEF IInv, TypeOK
<1> QED
  BY <1>1, <1>2, Invariance, PTL DEF Spec, ImplementsBookingRun, Abstract!AbstractSpec
===============================================================================

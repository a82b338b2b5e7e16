------------------------------ MODULE BookingRun ------------------------------
(***************************************************************************)
(* What one booking run on one course promises to its caller, the          *)
(* scheduler: it ends with exactly one status, it ends with "success"      *)
(* exactly when the club confirmed one booking to it, and it blames the    *)
(* deadline or the user only when the context really was done that way.    *)
(* Runner implements this specification; Scheduler relies on it.           *)
(***************************************************************************)
EXTENDS Naturals

CONSTANT Slots           \* the tee times of the course, earliest first

VARIABLES outcome,       \* "running", or the status the run ended with
          booking,       \* the slots the club confirmed to the run
          stop           \* why the context is done, or "live"

abstractVars == <<outcome, booking, stop>>

Stops == {"live", "deadline", "cancelled"}

\* Statuses a run may report without a booking, given how its context stands.
\* "cancelled" needs a cancellation; the others can be reported at any time
\* (a run whose context is done may still fail for a reason of its own).
MayReport(s) ==
    {"failed", "no_slots"} \union (IF s = "cancelled" THEN {"cancelled"} ELSE {})

AbstractInit ==
    /\ outcome = "running"
    /\ booking = {}
    /\ stop = "live"

\* The deadline passes or the user cancels; only the first one counts.
StopRun ==
    /\ outcome = "running" /\ stop = "live"
    /\ stop' \in Stops \ {"live"}
    /\ UNCHANGED <<outcome, booking>>

\* The club confirms a slot; the run ends with it.
Succeed ==
    /\ outcome = "running"
    /\ outcome' = "success"
    /\ \E s \in Slots : booking' = {s}
    /\ UNCHANGED stop

\* The run ends without a booking.
GiveUp ==
    /\ outcome = "running"
    /\ outcome' \in MayReport(stop)
    /\ UNCHANGED <<booking, stop>>

AbstractNext == StopRun \/ Succeed \/ GiveUp

AbstractSpec == AbstractInit /\ [][AbstractNext]_abstractVars
===============================================================================

------------------------------- MODULE MCNextRun -------------------------------
(* An instance of NextRun for TLC.                                         *)
EXTENDS NextRun

\* Weekdays on which the default course is BRC, and one on which it is PLC.
AltDays == {{}, {1, 2, 3}}
===============================================================================

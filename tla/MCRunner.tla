------------------------------- MODULE MCRunner -------------------------------
(***************************************************************************)
(* An instance of Runner for TLC: runs with and without a timeout, with   *)
(* and without the refresh callback.                                      *)
(***************************************************************************)
EXTENDS Runner

MCModes == [repeat : BOOLEAN, refresh : BOOLEAN]
===============================================================================

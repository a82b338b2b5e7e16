------------------------------- MODULE MCAccounts ------------------------------
(* An instance of Accounts for TLC: requests and session ids are           *)
(* interchangeable, and so are users, as every initial role is tried.      *)
EXTENDS Accounts, TLC

Symmetry == Permutations(Users) \union Permutations(Requests) \union Permutations(Sids)
===============================================================================

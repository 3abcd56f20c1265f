----------------------------- MODULE MCAccounts -----------------------------
(***************************************************************************)
(* Accounts for TLC.                                                       *)
(***************************************************************************)
EXTENDS Accounts, TLC

\* Neither the accounts nor the slots of requests are told apart.
Symmetry == Permutations(Users) \cup Permutations(Requests)
=============================================================================

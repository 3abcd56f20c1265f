-------------------------- MODULE MCRecurringRuns ---------------------------
(***************************************************************************)
(* RecurringRuns for TLC: a key KeeperHub recognises and one it rejects.   *)
(***************************************************************************)
EXTENDS RecurringRuns, TLC

CONSTANTS k1, k2, w1, a1, a2

MCWalletOf == k1 :> w1 @@ k2 :> "none"
MCRank == [a \in Approvals |-> IF a = a1 THEN 1 ELSE 2]
=============================================================================

---------------------------- MODULE MCScheduler -----------------------------
(***************************************************************************)
(* Scheduler for TLC, with the invariant of its proofs.                    *)
(***************************************************************************)
EXTENDS SchedulerInvariant, TLC

Symmetry == Permutations(Searches) \cup Permutations(Replicas) \cup Permutations(Requests)
=============================================================================

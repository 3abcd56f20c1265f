--------------------------- MODULE MCJobLifecycle ---------------------------
(***************************************************************************)
(* JobLifecycle for TLC, with the invariant of its proofs.                 *)
(***************************************************************************)
EXTENDS JobInvariant

CONSTANTS j1, j2
=============================================================================

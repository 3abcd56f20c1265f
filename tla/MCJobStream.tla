---------------------------- MODULE MCJobStream -----------------------------
(***************************************************************************)
(* JobStream for TLC.                                                      *)
(***************************************************************************)
EXTENDS JobStream

CONSTANT j1
=============================================================================

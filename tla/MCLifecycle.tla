---------------------------- MODULE MCLifecycle -----------------------------
(***************************************************************************)
(* Lifecycle on a small instance: two commands at a time, alike up to      *)
(* their names.                                                            *)
(***************************************************************************)
EXTENDS Lifecycle, TLC

Symmetry == Permutations(Clients)
=============================================================================

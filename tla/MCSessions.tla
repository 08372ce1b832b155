----------------------------- MODULE MCSessions -----------------------------
(***************************************************************************)
(* Sessions on a small instance: two networks and two requests at a time,  *)
(* alike up to their names.                                                *)
(***************************************************************************)
EXTENDS Sessions, TLC

Symmetry == Permutations(Nets) \cup Permutations(Requests)
=============================================================================

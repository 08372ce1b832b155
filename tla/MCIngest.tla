------------------------------ MODULE MCIngest ------------------------------
(***************************************************************************)
(* The instance of Ingest that TLC checks: events weigh as they do in      *)
(* reputation.ts, with limits that a few of them reach.                    *)
(***************************************************************************)
EXTENDS Ingest, TLC

Deltas == [e \in Events |-> CASE e = "VALID" -> 1 [] e = "INVALID" -> -3 [] OTHER -> -2]

TempLimitValue == -4
PermLimitValue == -7

Symmetry == Permutations(Posts)
=============================================================================

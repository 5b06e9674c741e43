---------------------------- MODULE MCHedgeBudget ----------------------------
(* Small instances of HedgeBudget for TLC.                                  *)
EXTENDS HedgeBudget, TLC

CallersAlike == Permutations(Callers)

=============================================================================

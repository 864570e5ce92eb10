-------------------------- MODULE MCHedgeExecutor --------------------------
(* Small instances of HedgeExecutor for TLC. *)
EXTENDS HedgeExecutor, TLC

CONSTANTS LONG, SHORT

SideSymmetry == Permutations({LONG, SHORT})

=============================================================================

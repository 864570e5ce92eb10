---------------------------- MODULE MCPairTrader ----------------------------
(* Small instances of PairTrader for TLC. *)
EXTENDS PairTraderInv, TLC

CONSTANTS long, short

MCSide == {long, short}
SideSymmetry == Permutations(MCSide)

=============================================================================

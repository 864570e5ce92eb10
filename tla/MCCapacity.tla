----------------------------- MODULE MCCapacity ------------------------------
(* Small instances of RateBudget and CapacityRelay for TLC: the capacity    *)
(* this host reads within its own budget, and the capacity another host     *)
(* reads for it.  The two share nothing, so a behaviour moves one of them.  *)
EXTENDS RateBudget, CapacityRelay, TLC

VARIABLE way

MCOffsets == {-2, 0}
Symmetry  == Permutations(Request)

MCInit ==
    /\ way \in {"budget", "relay"}
    /\ BudgetInit /\ (way = "relay" => time = 0)
    /\ RelayInit

MCNext ==
    \/ way = "budget" /\ BudgetNext /\ UNCHANGED <<way, relayVars>>
    \/ way = "relay" /\ RelayNext /\ UNCHANGED <<way, budgetVars>>

MCSpec == MCInit /\ [][MCNext]_<<way, budgetVars, relayVars>>

=============================================================================

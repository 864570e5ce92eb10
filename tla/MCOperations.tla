---------------------------- MODULE MCOperations -----------------------------
\* Three machines that share no state, checked in one run: `part` says which of
\* them moves.
EXTENDS GroupRegistry, GroupRecovery, ImbalanceAlert, TLC

VARIABLE part

vars == <<part, registryVars, recoveryVars, imbalanceVars>>

\* Two groups over the same two accounts, in opposite directions.
MCLong  == [g \in Group |-> IF g = CHOOSE h \in Group : TRUE THEN 1 ELSE 2]
MCShort == [g \in Group |-> 3 - MCLong[g]]

\* Neither two workers nor the two legs are told apart by any action.
MCSymmetry == Permutations(Worker) \cup Permutations(Leg)

MCInit ==
    /\ part \in {"registry", "recovery", "imbalance"}
    /\ RegistryInit /\ RecoveryInit /\ ImbalanceInit

MCNext ==
    /\ \/ part = "registry"  /\ RegistryNext  /\ UNCHANGED <<recoveryVars, imbalanceVars>>
       \/ part = "recovery"  /\ RecoveryNext  /\ UNCHANGED <<registryVars, imbalanceVars>>
       \/ part = "imbalance" /\ ImbalanceNext /\ UNCHANGED <<registryVars, recoveryVars>>
    /\ UNCHANGED part

MCSpec == MCInit /\ [][MCNext]_vars

=============================================================================

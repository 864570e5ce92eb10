----------------------------- MODULE PairLedger -----------------------------
(***************************************************************************)
(* What a paired account group promises its operator (abstract).           *)
(*                                                                         *)
(* A group keeps two subaccounts, one long and one short.  Its ledger says *)
(* how much of each account's position is the base position (basis) and    *)
(* how much belongs to the running cycle (quantities).  A batch trades the *)
(* same quantity on every side.  While it is open the sides move one by    *)
(* one, each within the batch's own quantity; a batch ends only when every *)
(* side stands exactly on the batch's target (Commit) or every side is     *)
(* back on the baseline (Rollback), when the ledger takes over the         *)
(* positions that are really there (TakeOver), or when the operator ends   *)
(* it undecided (Disown).                                                  *)
(***************************************************************************)
EXTENDS Integers

CONSTANTS Side      \* the two directions of a group, one subaccount each

VARIABLES
    basis,          \* base position per side
    quantities,     \* position of the running cycle per side
    batch,          \* the open batch, or kind "none"
    net             \* what each account holds by the program's own doing

lvars == <<basis, quantities, batch, net>>

Kinds  == {"none", "ordinary", "cycle"}
Phases == {"open", "close"}

NoBatch == [kind |-> "none", phase |-> "open", qty |-> 0, before |-> [s \in Side |-> 0]]

LTypeOK ==
    /\ basis \in [Side -> Nat]
    /\ quantities \in [Side -> Nat]
    /\ batch \in [kind : Kinds, phase : Phases, qty : Nat, before : [Side -> Nat]]
    /\ net \in [Side -> Int]

Book(s) == basis[s] + quantities[s]

\* The position of side s once the open batch has traded its whole quantity.
Target(s) == IF batch.phase = "open" THEN batch.before[s] + batch.qty
                                     ELSE batch.before[s] - batch.qty

LInit ==
    /\ basis \in [Side -> Nat]
    /\ quantities = [s \in Side |-> 0]
    /\ batch = NoBatch
    /\ net = basis

\* A batch opens on a ledger that agrees with both accounts.  A close takes
\* back the whole cycle quantity and nothing of the base position.
StartBatch ==
    /\ batch.kind = "none"
    /\ batch' \in [kind : Kinds \ {"none"}, phase : Phases, qty : Nat \ {0}, before : [Side -> Nat]]
    /\ batch'.before = [s \in Side |-> Book(s)]
    /\ IF batch'.phase = "open" THEN \A s \in Side : quantities[s] = 0
       ELSE batch'.kind = "cycle" /\ \A s \in Side : quantities[s] = batch'.qty
    /\ UNCHANGED <<basis, quantities, net>>

\* One side trades, between the baseline and the target and never beyond.
Within(s, n) == IF batch.phase = "open" THEN batch.before[s] <= n /\ n <= Target(s)
                                        ELSE Target(s) <= n /\ n <= batch.before[s]

Trade(s) ==
    /\ batch.kind # "none"
    /\ net' \in [Side -> Int]
    /\ Within(s, net'[s])
    /\ \A t \in Side \ {s} : net'[t] = net[t]
    /\ UNCHANGED <<basis, quantities, batch>>

Commit ==
    /\ batch.kind # "none"
    /\ \A s \in Side : net[s] = Target(s)
    /\ basis' = IF batch.kind = "ordinary" THEN [s \in Side |-> Target(s)] ELSE basis
    /\ quantities' = IF batch.kind = "cycle" /\ batch.phase = "open"
                     THEN [s \in Side |-> batch.qty] ELSE [s \in Side |-> 0]
    /\ batch' = NoBatch
    /\ UNCHANGED net

Rollback ==
    /\ batch.kind # "none"
    /\ batch.phase = "open"
    /\ \A s \in Side : net[s] = batch.before[s]
    /\ batch' = NoBatch
    /\ UNCHANGED <<basis, quantities, net>>

\* The ledger takes over real positions: at activation and when the operator
\* reconciles, or at the end of an ordinary open batch whose accounts are
\* balanced but not as the ledger says.
TakeOver ==
    /\ batch.kind = "none" \/ (batch.kind = "ordinary" /\ batch.phase = "open")
    /\ \A s \in Side : quantities[s] = 0
    /\ basis' \in [Side -> Nat]
    /\ net' = basis'
    /\ batch' = NoBatch
    /\ UNCHANGED quantities

\* The operator ends an opening batch without a position check, or with both
\* its orders unknown: the ledger keeps its base and disowns the difference.
Disown ==
    /\ batch.kind # "none" /\ batch.phase = "open"
    /\ \A s \in Side : quantities[s] = 0
    /\ net' = basis
    /\ batch' = NoBatch
    /\ UNCHANGED <<basis, quantities>>

LNext ==
    \/ StartBatch
    \/ \E s \in Side : Trade(s)
    \/ Commit
    \/ Rollback
    \/ TakeOver
    \/ Disown

LSpec == LInit /\ [][LNext]_lvars

\* With no batch open, both accounts stand on the ledger and the cycle holds
\* the same quantity on every side: the group is never left one-legged.
LHedged ==
    batch.kind = "none" =>
        /\ \A s \in Side : net[s] = Book(s)
        /\ \A s, t \in Side : quantities[s] = quantities[t]

\* The base position is never sold.
LBaseKept == \A s \in Side : net[s] >= basis[s]

=============================================================================

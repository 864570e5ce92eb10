-------------------------- MODULE HedgeExecutorInv --------------------------
(***************************************************************************)
(* The inductive invariant of HedgeExecutor: the intent row, the receipts, *)
(* the turn and the exchange's records in every state, also between the    *)
(* save and the POST, with answers lost and after a crash.                 *)
(***************************************************************************)
EXTENDS HedgeExecutor

\* Without an intent nothing is left of the last batch but finished orders.
QuietWhenIdle ==
    ~Active => /\ intent = NoIntent /\ leg = NoLegs
               /\ posts = NoPosts /\ rounds = 0
               /\ pc = "idle"
               /\ \A k \in Slot, s \in Side : exch[k][s].state \in {"none", "void", "final"}

\* The open batch: an opening cycle has no quantities yet, a close takes back
\* exactly the running cycle from positions that were as expected; a batch
\* that never repaired has no repair orders, and one that repairs knows what
\* became of its original orders.
BatchShape ==
    Active =>
        /\ \A s \in Side : leg["leg"][s].qty = intent.qty
        /\ intent.kind = "cycle" /\ intent.phase = "open" => \A s \in Side : quantities[s] = 0
        /\ intent.phase = "close" => /\ intent.kind = "cycle" /\ intent.before = Expected
                                     /\ \A s \in Side : quantities[s] = intent.qty
        /\ ~intent.repairing => \A s \in Side : /\ intent.repaired[s] = 0
                                                /\ leg["repair"][s] = NoLeg
        /\ intent.repairing => \A s \in Side : leg["leg"][s].receipt = "final"

\* The receipt of an order against the exchange's record of it.
OrderOK(l, x) ==
    /\ l.receipt = "unknown" => l.exec = 0
    /\ l.receipt = "open" => x.state \in {"live", "final"}
    /\ l.receipt = "final" => x.state \in {"none", "void", "final"} /\ x.exec = l.exec
    /\ x.state \in {"none", "flight", "void"} => x.exec = 0
    /\ l.exec <= x.exec /\ x.exec <= l.qty

Journal == Active => \A k \in Slot, s \in Side : OrderOK(leg[k][s], exch[k][s])

\* Where the turn is: only a turn that has just saved its orders may post them.
Control ==
    /\ pc = "armed" => \A s \in Side :
          /\ exch[Round][s] = NoExch
          /\ leg[Round][s].qty > 0 => leg[Round][s].receipt = "unknown"
    /\ pc = "judge" => AllFinal(leg)

\* A repair takes at most what the batch and the cycle hold by the receipts.
RepairBound ==
    Active /\ intent.repairing => \A s \in Side :
        (IF intent.phase = "close" THEN quantities[s] ELSE 0)
            + Signed(leg["leg"][s].exec) - intent.repaired[s] >= leg["repair"][s].qty

\* Submissions against attempts: saved orders have not been posted yet, and a
\* repair that waits to be posted has its attempt in hand.
Attempts ==
    /\ \A k \in Slot, s \in Side : posts[k][s] <= 1
    /\ intent.attempts <= MaxRepairs
    /\ rounds <= intent.attempts
    /\ pc = "armed" => \A s \in Side : posts[Round][s] = 0
    /\ pc = "armed" /\ intent.repairing => rounds < intent.attempts

IInv ==
    /\ TypeOK
    /\ QuietWhenIdle
    /\ BatchShape
    /\ Journal
    /\ Control
    /\ RepairBound
    /\ Attempts
    /\ Books

=============================================================================

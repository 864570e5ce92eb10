--------------------------- MODULE PairTraderInv ---------------------------
(***************************************************************************)
(* The inductive invariant of PairTrader: what holds in every state, in    *)
(* the middle of a turn, with requests under way and after a crash, and is *)
(* strong enough to be preserved by each action on its own.                *)
(***************************************************************************)
EXTENDS PairTrader

\* Between batches the runtime row carries no trace of the last one.
QuietWhenIdle ==
    ~Active => /\ pending = NoPending
               /\ leg = NoLegs
               /\ pc = "idle"
               /\ sends = [k \in Slot |-> Zero]
               /\ Even(quantities)

\* The open batch: its baseline is the ledger it started from; a close takes
\* back exactly the running cycle; a batch that never repaired has no repair.
BatchShape ==
    Active =>
        /\ pending.qty > 0
        /\ pending.before = Expected
        /\ pending.phase = "open" => \A s \in Side : quantities[s] = 0
        /\ pending.phase = "close" => pending.kind = "cycle" /\ \A s \in Side : quantities[s] = pending.qty
        /\ pending.attempts <= MaxRepairs
        /\ ~pending.repairing => /\ pending.attempts = 0
                                 /\ \A s \in Side : /\ pending.repaired[s] = 0
                                                    /\ leg["repair"][s] = NoLeg
        /\ pending.repairing => \A s \in Side : leg["leg"][s].receipt = "final"
        /\ \A s \in Side : /\ leg["leg"][s].qty = pending.qty
                           /\ leg["leg"][s].dispatch # "none"

\* The journal of an order against the exchange's record of it.
OrderOK(l, x) ==
    /\ l.dispatch = "none" => l = NoLeg /\ x = NoExch
    /\ l.dispatch = "prepared" => x = NoExch /\ l.exec = 0 /\ l.receipt # "open"
    /\ l.receipt = "unknown" => l.exec = 0
    /\ l.receipt = "open" => x.state \in {"live", "final"}
    /\ l.receipt = "final" => x.state \in {"none", "void", "final"} /\ x.exec = l.exec
    /\ l.local => l.receipt = "final" /\ x.state = "none"
    /\ x.state \in {"none", "flight", "void"} => x.exec = 0
    /\ l.exec <= x.exec /\ x.exec <= l.qty

Journal ==
    /\ Active => \A k \in Slot, s \in Side : OrderOK(leg[k][s], exch[k][s])
    /\ ~Active => \A k \in Slot, s \in Side : exch[k][s].state \in {"none", "void", "final"}

\* Where the turn is, and what its threads may still do.
Control ==
    /\ pc \in {"armed", "sending"} => ~pending.repairing
    /\ pc \in {"repairArmed", "repairing"} => pending.repairing /\ pending.attempts > 0
    /\ pc = "armed" => \A s \in Side : leg["leg"][s].dispatch = "prepared" /\ leg["leg"][s].receipt = "unknown"
    /\ pc = "sending" => \A s \in Side : leg["leg"][s].dispatch = "sending"
    /\ pc = "repairArmed" =>
          \A s \in Side : leg["repair"][s].dispatch = "prepared" => leg["repair"][s].receipt = "unknown"
    /\ pc = "repairArmed" => \A s \in Side : exch["repair"][s].state = "none"
    /\ pc = "repairing" => \A s \in Side : leg["repair"][s].dispatch # "prepared"
    /\ ~Dispatching => call = AllIdle
    /\ pc \in {"read", "review"} => AllFinal
    /\ pc = "review" => OrdinaryOpen
    /\ pc = "archive" => pending.phase = "open" /\ ~pending.repairing
    /\ Dispatching => \A s \in Side :
          /\ call[s] # "idle" => leg[Round][s].dispatch = "sending" /\ leg[Round][s].receipt = "unknown"
          /\ call[s] = "ready" => exch[Round][s].state = "none"
          /\ call[s] = "waiting" => exch[Round][s].state # "none"

\* What the open batch must still leave on side s.
Floor(s) == IF pending.phase = "close" THEN Target[s] ELSE pending.before[s]

\* A repair sells at most what stands beyond the goal by the receipts.
RepairBound ==
    Active /\ pending.repairing =>
        \A s \in Side :
            pending.before[s] + Signed(leg["leg"][s].exec) - pending.repaired[s]
                - leg["repair"][s].qty >= Floor(s)

\* Submissions against attempts: a round that has not left yet has its
\* attempt in hand.
Attempts ==
    Active => \A s \in Side :
        /\ sends["leg"][s] <= 1
        /\ exch["leg"][s].state = "none" => sends["leg"][s] = 0
        /\ sends["repair"][s] <= pending.attempts
        /\ pc \in {"repairArmed", "repairing"} /\ exch["repair"][s].state = "none"
               => sends["repair"][s] <= pending.attempts - 1

\* The inductive invariant: the runtime row and the turn always agree with what
\* the exchange may still do to the orders of the batch.
IInv ==
    /\ TypeOK
    /\ QuietWhenIdle
    /\ BatchShape
    /\ Journal
    /\ Control
    /\ RepairBound
    /\ Attempts
    /\ Books

=============================================================================

----------------------------- MODULE PairTrader -----------------------------
(***************************************************************************)
(* Durable two-subaccount execution (src/trading/pair_execution.py).       *)
(*                                                                         *)
(* One scheduler turn (PairTrader.tick, under the pair's lock) plans a     *)
(* batch, saves its intent, sends one market order per subaccount from two *)
(* threads, and then settles: query every order by its client id, read     *)
(* both positions, and finish, repair by reducing, or ask for attention.   *)
(* The runtime row (owned, quantities, attention, pending, leg) is durable *)
(* and survives a crash anywhere; pc, call and seen are the process's own. *)
(* exch and pos are the exchange's.  Requests travel: one that was sent    *)
(* may arrive late, be refused, or be lost, whatever the sender saw.  When *)
(* nobody can say what became of both orders of an opening batch, the      *)
(* operator may archive it: its orders are then watched, for ever.         *)
(*                                                                         *)
(* Quantities count exchange steps.  Not here: leverage batches            *)
(* (PairLeverage), transfers, budget waits, timers and planning figures:   *)
(* whether a plan exists is a free choice of the environment.              *)
(***************************************************************************)
EXTENDS Integers, Sequences, FiniteSets

CONSTANTS
    Side,           \* SIDES: one subaccount per direction
    MinQty,         \* rule.min_qty: the smallest market order
    MaxQty,         \* rule.max_qty: the largest; also the bound on a batch
    MaxRepairs,     \* repair attempts before giving up (the code's is 3)
    MaxWatch,       \* MAX_WATCH_BATCHES: archived batches (the code's is 8)
    MaxBase,        \* bound: largest base position at the first activation
    MaxBatches,     \* bound: opening batches, an archived one not counted
    MaxMishaps      \* bound: trades made by hand, process crashes inside a turn

ASSUME BoundsAssumption ==
    /\ MinQty \in Nat \ {0}
    /\ MaxQty \in Nat /\ MinQty <= MaxQty
    /\ MaxRepairs \in Nat
    /\ MaxWatch \in Nat
    /\ MaxBase \in Nat
    /\ MaxBatches \in Nat
    /\ MaxMishaps \in Nat

VARIABLES
    strategy,       \* configured opening mode: ordinary adds or the cycle
    enabled,        \* the pair row's enabled flag
    owned,          \* runtime.owned: base position per side
    quantities,     \* runtime.progress.quantities: the running cycle
    attention,      \* runtime.attention is set
    pending,        \* runtime.pending: the open batch, kind "none" if absent
    leg,            \* pending.legs and the last round of pending.repairs
    pc,             \* where the turn is
    call,           \* the sending thread of each side
    seen,           \* positions read in this turn
    exch,           \* the exchange's record of each client order id
    pos,            \* the accounts' real positions
    watched,        \* runtime.recovery_watch: archived batches, each with what
                    \* the exchange knows of its orders
    outside,        \* ghost: real position the ledger does not account for
    sends,          \* ghost: HTTP submissions of the open batch
    started, mishaps    \* counters for the bounds

durable  == <<strategy, enabled, owned, quantities, attention, pending, leg>>
process  == <<pc, call, seen>>
exchange == <<exch, pos, watched>>
ghosts   == <<outside, sends, started, mishaps>>
vars     == <<durable, process, exchange, ghosts>>

-----------------------------------------------------------------------------
(* Data *)

Slot     == {"leg", "repair"}      \* the original order, the current repair
Strategy == {"ordinary", "cycle"}
Phase    == {"open", "close"}
Unread   == -1

Pc == {"idle", "armed", "sending", "query", "read", "review", "repairArmed", "repairing", "archive"}
Call == {"idle", "ready", "waiting"}

Leg == [dispatch : {"none", "prepared", "sending"},
        receipt : {"unknown", "open", "final"},
        qty : Nat, exec : Nat, local : BOOLEAN]

NoLeg == [dispatch |-> "none", receipt |-> "final", qty |-> 0, exec |-> 0, local |-> FALSE]

Prepared(q) == [dispatch |-> "prepared", receipt |-> "unknown", qty |-> q, exec |-> 0, local |-> FALSE]

\* _absent: a receipt the program writes itself, with nothing executed.
Absent(l, isLocal) == [l EXCEPT !.receipt = "final", !.exec = 0, !.local = isLocal]

\* What the exchange knows of a client order id.  A request that was refused
\* or lost on the way is "void": it leaves no order behind, and a query cannot
\* tell it from one still in "flight".
ExchState == {"none", "flight", "live", "final", "void"}
Exch      == [state : ExchState, exec : Nat]
NoExch    == [state |-> "none", exec |-> 0]
\* An archived batch: its quantity and its two orders.
Archived == [qty : Nat, orders : [Side -> Exch]]

Pending == [kind : {"none"} \cup Strategy, phase : Phase, qty : Nat,
            before : [Side -> Nat], attempts : Nat, repaired : [Side -> Nat],
            repairing : BOOLEAN]

Zero == [s \in Side |-> 0]

NoPending == [kind |-> "none", phase |-> "open", qty |-> 0, before |-> Zero,
              attempts |-> 0, repaired |-> Zero, repairing |-> FALSE]

NoLegs == [k \in Slot |-> [s \in Side |-> NoLeg]]

-----------------------------------------------------------------------------
(* Derived from the runtime *)

Active  == pending.kind # "none"
Holding == \E s \in Side : quantities[s] # 0

\* _expected: base position plus the running cycle.
Expected == [s \in Side |-> owned[s] + quantities[s]]

Target == [s \in Side |-> IF pending.phase = "open" THEN pending.before[s] + pending.qty
                                                    ELSE pending.before[s] - pending.qty]

Signed(n) == IF pending.phase = "open" THEN n ELSE 0 - n

\* Positions that follow from the receipts of the open batch.
ByReceipts == [s \in Side |-> pending.before[s] + Signed(leg["leg"][s].exec)
                              - pending.repaired[s] - leg["repair"][s].exec]

AllFinal == \A k \in Slot, s \in Side : leg[k][s].receipt = "final"

\* original_full: every original order is FILLED.
Full == \A s \in Side : leg["leg"][s].exec = pending.qty

Even(q) == \A s, t \in Side : q[s] = q[t]

AllIdle == [s \in Side |-> "idle"]
NotRead == [s \in Side |-> Unread]
AllRead == \A s \in Side : seen[s] # Unread

\* The slot whose orders the sending threads are working on.
Round == IF pc = "repairing" THEN "repair" ELSE "leg"

-----------------------------------------------------------------------------
Init ==
    /\ strategy \in Strategy
    /\ enabled = FALSE
    /\ owned = Zero
    /\ quantities = Zero
    /\ attention = FALSE
    /\ pending = NoPending
    /\ leg = NoLegs
    /\ pc = "idle"
    /\ call = AllIdle
    /\ seen = NotRead
    /\ exch = [k \in Slot |-> [s \in Side |-> NoExch]]
    /\ pos \in [Side -> 0 .. MaxBase]
    /\ watched = <<>>
    /\ outside = pos
    /\ sends = [k \in Slot |-> Zero]
    /\ started = 0 /\ mishaps = 0

-----------------------------------------------------------------------------
(* A turn with nothing pending *)

Ready == pc = "idle" /\ ~Active

\* Bound: the batch that follows an archived one is an ordinary one, takes the
\* place of a mishap, and the two of them are within MaxQty.
Room == started + mishaps < MaxBatches + MaxMishaps

\* require_archived_orders_clear: as far as the exchange can tell, no archived
\* order is active or has executed.
WatchClear == \A i \in DOMAIN watched, s \in Side :
    watched[i].orders[s].state # "live" /\ watched[i].orders[s].exec = 0

\* The reads of tick and of activation are atomic here: trades on different
\* accounts commute, and a lease checked at the commit refuses a read that a
\* known account event has overtaken.

\* tick: the accounts differ from the ledger, or an ordinary pair is uneven;
\* PairPositionError is stored as attention.
TickMismatch ==
    /\ Ready
    /\ enabled \/ Holding
    /\ \/ pos # Expected
       \/ strategy = "ordinary" /\ ~Holding /\ ~attention /\ ~Even(Expected)
    /\ attention' = TRUE
    /\ UNCHANGED <<strategy, enabled, owned, quantities, pending, leg, process, exchange, ghosts>>

\* _start up to the save of the intent: both orders prepared, nothing sent.
SaveIntent(kind, phase, q) ==
    /\ pos = Expected
    /\ pending' = [NoPending EXCEPT !.kind = kind, !.phase = phase, !.qty = q, !.before = Expected]
    /\ leg' = [NoLegs EXCEPT !["leg"] = [s \in Side |-> Prepared(q)]]
    /\ exch' = [k \in Slot |-> [s \in Side |-> NoExch]]
    /\ pc' = "armed"
    /\ UNCHANGED <<strategy, enabled, owned, quantities, attention, call, seen, pos, watched,
                   outside, sends, mishaps>>

StartOpen(q) ==
    /\ Ready
    /\ enabled /\ ~attention /\ ~Holding
    /\ WatchClear
    /\ strategy = "ordinary" => Even(Expected)
    /\ started < MaxBatches + Len(watched) /\ Room
    /\ watched # <<>> => strategy = "ordinary"
    /\ \A i \in DOMAIN watched : q + watched[i].qty <= MaxQty
    /\ started' = started + 1
    /\ SaveIntent(strategy, "open", q)

\* Mutant: a paused group no longer closes its cycle.
StartCloseEnabled ==
    /\ Ready
    /\ enabled /\ Holding
    /\ \E q \in MinQty .. MaxQty :
          /\ \A s \in Side : quantities[s] = q
          /\ SaveIntent("cycle", "close", q)
    /\ UNCHANGED started

\* A due or paused cycle closes its whole quantity, attention or not.
StartClose ==
    /\ Ready
    /\ Holding
    /\ \E q \in MinQty .. MaxQty :
          /\ \A s \in Side : quantities[s] = q
          /\ SaveIntent("cycle", "close", q)
    /\ UNCHANGED started

\* Mutant: the orders go out without the "sending" mark having been saved.
DispatchUnsaved ==
    /\ pc = "armed"
    /\ call' = [s \in Side |-> "ready"]
    /\ pc' = "sending"
    /\ UNCHANGED <<durable, seen, exchange, ghosts>>

\* The last checks before HTTP pass, for an opening batch that no archived order
\* has executed: both legs are marked "sending" and saved.
Dispatch ==
    /\ pc = "armed"
    /\ pending.phase = "open" => WatchClear
    /\ leg' = [leg EXCEPT !["leg"] = [s \in Side |-> [leg["leg"][s] EXCEPT !.dispatch = "sending"]]]
    /\ call' = [s \in Side |-> "ready"]
    /\ pc' = "sending"
    /\ UNCHANGED <<strategy, enabled, owned, quantities, attention, pending, seen, exchange, ghosts>>

\* They fail: nothing was sent, both receipts are local absences.
Withdraw ==
    /\ pc = "armed"
    /\ leg' = [leg EXCEPT !["leg"] = [s \in Side |-> Absent(leg["leg"][s], TRUE)]]
    /\ pc' = "query"
    /\ UNCHANGED <<strategy, enabled, owned, quantities, attention, pending, call, seen, exchange, ghosts>>

-----------------------------------------------------------------------------
(* The sending threads.  Each receipt is saved when its thread reports.     *)

Dispatching == pc \in {"sending", "repairing"}

SetLeg(k, s, l) == leg' = [leg EXCEPT ![k] = [leg[k] EXCEPT ![s] = l]]
SetExch(k, s, e) == exch' = [exch EXCEPT ![k] = [exch[k] EXCEPT ![s] = e]]

Answered(s) ==
    /\ call' = [call EXCEPT ![s] = "idle"]
    /\ UNCHANGED <<strategy, enabled, owned, quantities, attention, pending, pc, seen, pos, watched,
                   ghosts>>

\* RequestNotSent: a guard or the request budget stops the thread before HTTP.
NotSent(s) ==
    /\ Dispatching
    /\ call[s] = "ready"
    /\ SetLeg(Round, s, Absent(leg[Round][s], TRUE))
    /\ Answered(s)
    /\ UNCHANGED exch

\* The POST leaves the process.
Send(s) ==
    /\ Dispatching
    /\ call[s] = "ready"
    /\ SetExch(Round, s, [state |-> "flight", exec |-> 0])
    /\ sends' = [sends EXCEPT ![Round] = [sends[Round] EXCEPT ![s] = @ + 1]]
    /\ call' = [call EXCEPT ![s] = "waiting"]
    /\ UNCHANGED <<durable, pc, seen, pos, watched, outside, started, mishaps>>

\* The exchange's order row at state st, as a validated receipt.
Receipt(l, st, e) == [l EXCEPT !.receipt = IF st = "final" THEN "final" ELSE "open", !.exec = e]

\* The answer carries the order as it stands.
AnswerReceipt(s) ==
    /\ Dispatching
    /\ call[s] = "waiting"
    /\ exch[Round][s].state \in {"live", "final"}
    /\ SetLeg(Round, s, Receipt(leg[Round][s], exch[Round][s].state, exch[Round][s].exec))
    /\ Answered(s)
    /\ UNCHANGED exch

\* The answer is an explicit rejection code, not from a gateway.
AnswerRejected(s) ==
    /\ Dispatching
    /\ call[s] = "waiting"
    /\ exch[Round][s].state = "void"
    /\ SetLeg(Round, s, Absent(leg[Round][s], FALSE))
    /\ Answered(s)
    /\ UNCHANGED exch

\* Mutant: a lost answer is taken for a rejection.
AnswerUnknownRejects(s) ==
    /\ Dispatching
    /\ call[s] = "waiting"
    /\ SetLeg(Round, s, Absent(leg[Round][s], FALSE))
    /\ Answered(s)
    /\ UNCHANGED exch

\* Timeout, 408 or 5xx, an unlisted code, an invalid body: nothing is proved,
\* whatever became of the request; the receipt stays unknown.
AnswerUnknown(s) ==
    /\ Dispatching
    /\ call[s] = "waiting"
    /\ Answered(s)
    /\ UNCHANGED <<leg, exch>>

\* Mutant: one order that was not sent refunds the attempt of both.
RefundAttemptAny ==
    IF \E s \in Side : leg["repair"][s].receipt = "final" /\ leg["repair"][s].local
    THEN pending' = [pending EXCEPT !.attempts = @ - 1]
    ELSE UNCHANGED pending

\* Both threads joined.  A repair round of which nothing was sent gives its
\* attempt back.
RefundAttempt ==
    IF \A s \in Side : leg["repair"][s].dispatch = "sending" =>
            leg["repair"][s].receipt = "final" /\ leg["repair"][s].local
    THEN pending' = [pending EXCEPT !.attempts = @ - 1]
    ELSE UNCHANGED pending

EndSending ==
    /\ pc = "sending"
    /\ call = AllIdle
    /\ pc' = "query"
    /\ UNCHANGED <<durable, call, seen, exchange, ghosts>>

EndRepairing ==
    /\ pc = "repairing"
    /\ call = AllIdle
    /\ RefundAttempt
    /\ pc' = "idle"
    /\ UNCHANGED <<strategy, enabled, owned, quantities, attention, leg, call, seen, exchange, ghosts>>

-----------------------------------------------------------------------------
(* Recovery: _query, then _recover *)

\* Mutant: a paused group leaves its open batch alone.
TickPendingEnabled ==
    /\ pc = "idle" /\ Active /\ enabled
    /\ pc' = "query"
    /\ UNCHANGED <<durable, call, seen, exchange, ghosts>>

TickPending ==
    /\ pc = "idle" /\ Active
    /\ pc' = "query"
    /\ UNCHANGED <<durable, call, seen, exchange, ghosts>>

\* Mutant: an order marked "sending" without a receipt counts as unsent.
QueryUnsentAny(k, s) ==
    /\ pc = "query"
    /\ leg[k][s].dispatch \in {"prepared", "sending"} /\ leg[k][s].receipt = "unknown"
    /\ SetLeg(k, s, Absent(leg[k][s], TRUE))
    /\ UNCHANGED <<strategy, enabled, owned, quantities, attention, pending, process, exchange, ghosts>>

QueryUnsent(k, s) ==
    /\ pc = "query"
    /\ leg[k][s].dispatch = "prepared" /\ leg[k][s].receipt # "final"
    /\ SetLeg(k, s, Absent(leg[k][s], TRUE))
    /\ UNCHANGED <<strategy, enabled, owned, quantities, attention, pending, process, exchange, ghosts>>

\* A row comes back for the client id: the order as it stands, or an older
\* view of it from the event cache.  A row whose executed quantity runs
\* backwards is refused, like a failed query: the receipt stays as it is.
QueryRow(k, s, st, e) ==
    /\ pc = "query"
    /\ leg[k][s].dispatch = "sending" /\ leg[k][s].receipt # "final"
    /\ exch[k][s].state \in {"live", "final"}
    /\ \/ st = exch[k][s].state /\ e = exch[k][s].exec
       \/ st = "live" /\ e <= exch[k][s].exec
    /\ leg[k][s].exec <= e
    /\ SetLeg(k, s, Receipt(leg[k][s], st, e))
    /\ UNCHANGED <<strategy, enabled, owned, quantities, attention, pending, process, exchange, ghosts>>

\* An order without a terminal receipt leaves the batch reconciling.
QueryIncomplete ==
    /\ pc = "query"
    /\ ~AllFinal
    /\ pc' = "idle"
    /\ UNCHANGED <<durable, call, seen, exchange, ghosts>>

\* Mutant: positions are judged before every order has a final receipt.
QueryCompleteEarly ==
    /\ pc = "query"
    /\ \E k \in Slot, s \in Side : leg[k][s].receipt = "final"
    /\ pc' = "read"
    /\ seen' = NotRead
    /\ UNCHANGED <<durable, call, exchange, ghosts>>

QueryComplete ==
    /\ pc = "query"
    /\ AllFinal
    /\ pc' = "read"
    /\ seen' = NotRead
    /\ UNCHANGED <<durable, call, exchange, ghosts>>

\* The two accounts are read in parallel, each at its own moment.
ReadPosition(s) ==
    /\ pc \in {"read", "review", "archive"}
    /\ seen[s] = Unread
    /\ seen' = [seen EXCEPT ![s] = pos[s]]
    /\ UNCHANGED <<durable, pc, call, exchange, ghosts>>

OrdinaryOpen == pending.kind = "ordinary" /\ pending.phase = "open"

\* reconcile_positions.acceptable: balanced, or back on the baseline though
\* the receipts say that something was added.
Acceptable(p) ==
    \/ Even(p)
    \/ /\ p = pending.before /\ ByReceipts # pending.before
       /\ \A s \in Side : ByReceipts[s] >= pending.before[s]

\* An ordinary open whose positions are not the receipts', or are balanced
\* away from the baseline without a clean full fill.
Reviewable ==
    /\ OrdinaryOpen
    /\ \/ seen # ByReceipts
       \/ Even(seen) /\ seen # pending.before /\ (~Full \/ pending.repairing)
    /\ Acceptable(seen)

Judging == pc = "read" /\ AllRead

\* The batch commits when its orders filled and the margin allows, or when it
\* closes; otherwise it rolls back to the baseline.
MayCommit == pending.phase = "close" \/ (Full /\ ~pending.repairing)
MayRollBack == pending.phase = "open"
Goal(commit) == IF commit THEN Target ELSE pending.before

\* Mutant: the receipts are not compared with the positions.
VerdictByPosition(commit) ==
    /\ Judging
    /\ IF commit THEN MayCommit ELSE MayRollBack

Verdict(commit) ==
    /\ Judging
    /\ seen = ByReceipts
    /\ IF commit THEN MayCommit ELSE MayRollBack

\* Mutant: one account on the goal is enough.
ReachedByOne(commit) == \E s \in Side : seen[s] = Goal(commit)[s]

Reached(commit) == \A s \in Side : seen[s] = Goal(commit)[s]

\* A full ordinary batch beyond its margin limit is reviewed too, when the
\* positions are even.  A margin transfer under way switches every review off:
\* whether there is one is left open, so the verdicts below need no ~Reviewable.
GoReview ==
    /\ Judging
    /\ Reviewable \/ (OrdinaryOpen /\ Full /\ ~pending.repairing /\ seen = ByReceipts /\ Even(seen))
    /\ pc' = "review"
    /\ seen' = NotRead
    /\ UNCHANGED <<durable, call, exchange, ghosts>>

Attend ==
    /\ attention' = TRUE
    /\ pc' = "idle"
    /\ seen' = NotRead
    /\ UNCHANGED <<strategy, enabled, owned, quantities, pending, leg, call, exchange, ghosts>>

\* Positions and receipts disagree.
JudgeMismatch == Judging /\ seen # ByReceipts /\ Attend

\* A side stands short of the goal, the repair limit is reached, or a residue
\* is too small for a market order: only the operator can go on.
Repairable(commit) ==
    /\ \A s \in Side : seen[s] >= Goal(commit)[s]
    /\ pending.attempts < MaxRepairs
    /\ \A s \in Side : seen[s] # Goal(commit)[s] => seen[s] - Goal(commit)[s] \in MinQty .. MaxQty

JudgeUnrepairable(commit) ==
    /\ Verdict(commit)
    /\ ~Reached(commit)
    /\ ~Repairable(commit)
    /\ Attend

\* An account event, a stale snapshot or a stopped request ends the turn.
TurnFails ==
    /\ pc \in {"read", "review", "repairArmed"}
    /\ pc' = "idle"
    /\ seen' = NotRead
    /\ UNCHANGED <<durable, call, exchange, ghosts>>

\* The batch leaves the runtime row, and its attention with it.
CloseBatch ==
    /\ attention' = FALSE
    /\ pending' = NoPending
    /\ leg' = NoLegs
    /\ pc' = "idle"
    /\ seen' = NotRead
    /\ sends' = [k \in Slot |-> Zero]
    /\ UNCHANGED <<strategy, enabled, call, pos, started, mishaps>>

EndBatch == CloseBatch /\ UNCHANGED <<exch, watched>>

\* _finish: ledger, history and pending in one transaction.
Finish(commit) ==
    /\ Verdict(commit)
    /\ Reached(commit)
    /\ owned' = IF commit /\ pending.kind = "ordinary" THEN Target ELSE owned
    /\ quantities' =
          IF commit /\ pending.kind = "cycle" /\ pending.phase = "open"
          THEN [s \in Side |-> pending.qty]
          ELSE IF commit THEN Zero ELSE quantities
    /\ EndBatch
    /\ UNCHANGED outside

\* reconcile_positions: the fresh read becomes the base position.  With archived
\* orders around it may only be the old one, and they are asked for first.  (One
\* of them that has executed ends the turn without attention: TurnFails.)
AdoptReviewed ==
    /\ pc = "review" /\ AllRead
    /\ Acceptable(seen)
    /\ watched # <<>> => WatchClear /\ seen = pending.before
    /\ owned' = seen
    /\ quantities' = Zero
    /\ outside' = [s \in Side |-> pos[s] - seen[s]]
    /\ EndBatch

ReviewFails ==
    /\ pc = "review" /\ AllRead
    /\ ~Acceptable(seen) \/ (watched # <<>> /\ WatchClear /\ seen # pending.before)
    /\ Attend

NextRound ==
    [pending EXCEPT !.attempts = @ + 1,
                    !.repairing = TRUE,
                    !.repaired = [s \in Side |-> @[s] + leg["repair"][s].exec]]

\* A new round of reducing orders for what stands beyond the goal.
SaveRepairs(commit) ==
    /\ Verdict(commit)
    /\ ~Reached(commit)
    /\ Repairable(commit)
    /\ pending' = NextRound
    /\ leg' = [leg EXCEPT !["repair"] =
                  [s \in Side |-> IF seen[s] = Goal(commit)[s] THEN NoLeg
                                  ELSE Prepared(seen[s] - Goal(commit)[s])]]
    /\ exch' = [exch EXCEPT !["repair"] = [s \in Side |-> NoExch]]
    /\ pc' = "repairArmed"
    /\ seen' = NotRead
    /\ UNCHANGED <<strategy, enabled, owned, quantities, attention, call, pos, watched, ghosts>>

DispatchRepairs ==
    /\ pc = "repairArmed"
    /\ leg' = [leg EXCEPT !["repair"] =
                  [s \in Side |-> IF leg["repair"][s].dispatch = "prepared"
                                  THEN [leg["repair"][s] EXCEPT !.dispatch = "sending"]
                                  ELSE leg["repair"][s]]]
    /\ call' = [s \in Side |-> IF leg["repair"][s].dispatch = "prepared" THEN "ready" ELSE "idle"]
    /\ pc' = "repairing"
    /\ UNCHANGED <<strategy, enabled, owned, quantities, attention, pending, seen, exchange, ghosts>>

-----------------------------------------------------------------------------
(* The operator (pairing.py, pair_recovery.py), under the same pair lock *)

Pause ==
    /\ pc = "idle" /\ enabled
    /\ enabled' = FALSE
    /\ UNCHANGED <<strategy, owned, quantities, attention, pending, leg, process, exchange, ghosts>>

Configure ==
    /\ Ready /\ ~enabled /\ ~Holding
    /\ strategy' \in Strategy
    /\ UNCHANGED <<enabled, owned, quantities, attention, pending, leg, process, exchange, ghosts>>

\* Activation takes the real positions as the base position; with archived
\* orders around they must be the base position already.
Activate ==
    /\ Ready /\ ~enabled /\ ~Holding
    /\ watched # <<>> => WatchClear /\ pos = owned
    /\ \A k \in Slot, s \in Side : exch[k][s].state # "live"
    /\ enabled' = TRUE
    /\ owned' = pos
    /\ quantities' = Zero
    /\ attention' = FALSE
    /\ outside' = Zero
    /\ UNCHANGED <<strategy, pending, leg, process, exchange, sends, started, mishaps>>

\* reconcile_flat: a read proves both accounts flat; the base position is zero.
ReconcileFlat ==
    /\ Ready /\ ~enabled /\ ~Holding
    /\ \A i \in DOMAIN watched, s \in Side : watched[i].orders[s].state # "live"
    /\ pos = Zero
    /\ owned' = Zero
    /\ quantities' = Zero
    /\ attention' = FALSE
    /\ outside' = Zero
    /\ UNCHANGED <<strategy, enabled, pending, leg, process, exchange, sends, started, mishaps>>

\* skip_positions: end a batch whose orders are all final, without reading.
SkipPositions ==
    /\ pc = "idle" /\ ~enabled
    /\ OrdinaryOpen
    /\ AllFinal
    /\ outside' = [s \in Side |-> pos[s] - owned[s]]
    /\ UNCHANGED <<owned, quantities>>
    /\ EndBatch

\* confirm: the operator reviews an opening batch whose two orders were both
\* marked "sending" and never answered, and neither the order query nor the order
\* history knows of them.  (An order that is found has its receipt restored,
\* which TickPending and QueryRow do too.)
BeginArchive ==
    /\ pc = "idle" /\ ~enabled
    /\ Active /\ pending.phase = "open" /\ ~Holding
    /\ ~pending.repairing /\ pending.attempts = 0
    /\ \A s \in Side : /\ leg["leg"][s].dispatch = "sending" /\ leg["leg"][s].receipt = "unknown"
                       /\ exch["leg"][s].state \notin {"live", "final"}
    /\ pc' = "archive"
    /\ seen' = NotRead
    /\ UNCHANGED <<durable, call, exchange, ghosts>>

\* Mutant: the archived orders are not put under watch.
ArchiveUnwatched ==
    /\ pc = "archive" /\ AllRead
    /\ seen = pending.before
    /\ WatchClear /\ Len(watched) < MaxWatch
    /\ outside' = [s \in Side |-> pos[s] - owned[s]]
    /\ quantities' = Zero
    /\ UNCHANGED owned
    /\ EndBatch

\* Both accounts were read at the baseline and the older archived orders are
\* quiet: the batch ends, undecided.  Its orders may still execute, and what they
\* do is not the program's; from now on they are watched.
Archive ==
    /\ pc = "archive" /\ AllRead
    /\ seen = pending.before
    /\ WatchClear /\ Len(watched) < MaxWatch
    /\ watched' = Append(watched, [qty |-> pending.qty, orders |-> exch["leg"]])
    /\ exch' = [exch EXCEPT !["leg"] = [s \in Side |-> NoExch]]
    /\ outside' = [s \in Side |-> pos[s] - owned[s]]
    /\ quantities' = Zero
    /\ UNCHANGED owned
    /\ CloseBatch

\* The review ends in a refusal: positions away from the baseline, an account
\* event, an expired preview.  Nothing changes.
ArchiveFails ==
    /\ pc = "archive"
    /\ pc' = "idle"
    /\ seen' = NotRead
    /\ UNCHANGED <<durable, call, exchange, ghosts>>

\* confirm_baseline: while archived orders are watched and quiet, the operator
\* takes the real positions for the base; the group stays paused.
Rebase ==
    /\ Ready /\ ~enabled /\ ~Holding
    /\ watched # <<>> /\ WatchClear
    /\ owned' = pos
    /\ quantities' = Zero
    /\ attention' = FALSE
    /\ outside' = Zero
    /\ UNCHANGED <<strategy, enabled, pending, leg, process, exchange, sends, started, mishaps>>

-----------------------------------------------------------------------------
(* The exchange, the accounts' other users, and crashes *)

Adding(k) == k = "leg" /\ pending.phase = "open"

\* Position of side s after e in all was executed on its k order.
Moved(k, s, e) == IF Adding(k) THEN pos[s] + (e - exch[k][s].exec)
                               ELSE pos[s] - (e - exch[k][s].exec)

\* The request arrives, or the order makes progress; a reduction never
\* exceeds the position.
Execute(k, s, st, e) ==
    /\ exch[k][s].state \in {"flight", "live"}
    /\ st \in {"live", "final"}
    /\ exch[k][s].exec <= e /\ e <= leg[k][s].qty
    /\ e = leg[k][s].qty => st = "final"
    /\ Moved(k, s, e) >= 0
    /\ SetExch(k, s, [state |-> st, exec |-> e])
    /\ pos' = [pos EXCEPT ![s] = Moved(k, s, e)]
    /\ UNCHANGED <<durable, process, watched, ghosts>>

Void(k, s) ==
    /\ exch[k][s].state = "flight"
    /\ SetExch(k, s, [state |-> "void", exec |-> 0])
    /\ UNCHANGED <<durable, process, pos, watched, ghosts>>

\* An archived order arrives after all, or makes progress; the ledger has
\* disowned it.
WatchedExecutes(i, s, st, e) ==
    LET o == watched[i].orders[s] IN
    /\ o.state \in {"flight", "live"}
    /\ st \in {"live", "final"}
    /\ o.exec <= e /\ e <= watched[i].qty
    /\ e = watched[i].qty => st = "final"
    /\ watched' = [watched EXCEPT ![i].orders[s] = [state |-> st, exec |-> e]]
    /\ pos' = [pos EXCEPT ![s] = @ + e - o.exec]
    /\ outside' = [outside EXCEPT ![s] = @ + e - o.exec]
    /\ UNCHANGED <<durable, process, exch, sends, started, mishaps>>

WatchedVoid(i, s) ==
    /\ watched[i].orders[s].state = "flight"
    /\ watched' = [watched EXCEPT ![i].orders[s] = [state |-> "void", exec |-> 0]]
    /\ UNCHANGED <<durable, process, exch, pos, ghosts>>

\* Somebody trades on an account by hand.
Manual(s, p) ==
    /\ mishaps < MaxMishaps /\ Room
    /\ p # pos[s]
    /\ pos' = [pos EXCEPT ![s] = p]
    /\ outside' = [outside EXCEPT ![s] = @ + p - pos[s]]
    /\ mishaps' = mishaps + 1
    /\ UNCHANGED <<durable, process, exch, watched, sends, started>>

\* The process dies inside a turn and starts again; requests already sent
\* travel on.
Crash ==
    /\ pc # "idle"
    /\ mishaps < MaxMishaps /\ Room
    /\ pc' = "idle"
    /\ call' = AllIdle
    /\ seen' = NotRead
    /\ mishaps' = mishaps + 1
    /\ UNCHANGED <<durable, exchange, outside, sends, started>>

-----------------------------------------------------------------------------
Turn ==
    \/ TickMismatch
    \/ \E q \in MinQty .. MaxQty : StartOpen(q)
    \/ StartClose
    \/ Dispatch \/ Withdraw
    \/ \E s \in Side : \/ NotSent(s) \/ Send(s) \/ AnswerReceipt(s)
                       \/ AnswerRejected(s) \/ AnswerUnknown(s)
    \/ EndSending \/ EndRepairing
    \/ TickPending
    \/ \E k \in Slot, s \in Side : QueryUnsent(k, s)
    \/ \E k \in Slot, s \in Side, st \in {"live", "final"}, e \in 0 .. MaxQty : QueryRow(k, s, st, e)
    \/ QueryIncomplete \/ QueryComplete
    \/ \E s \in Side : ReadPosition(s)
    \/ GoReview \/ JudgeMismatch \/ TurnFails \/ AdoptReviewed \/ ReviewFails
    \/ \E commit \in BOOLEAN : Finish(commit) \/ SaveRepairs(commit) \/ JudgeUnrepairable(commit)
    \/ DispatchRepairs

Operator ==
    \/ Pause \/ Configure \/ Activate \/ ReconcileFlat \/ SkipPositions
    \/ BeginArchive \/ Archive \/ ArchiveFails \/ Rebase

World ==
    \/ \E k \in Slot, s \in Side, st \in {"live", "final"}, e \in 0 .. MaxQty : Execute(k, s, st, e)
    \/ \E k \in Slot, s \in Side : Void(k, s)
    \/ \E i \in DOMAIN watched, s \in Side :
          \/ WatchedVoid(i, s)
          \/ \E st \in {"live", "final"}, e \in 0 .. MaxQty : WatchedExecutes(i, s, st, e)
    \/ \E s \in Side, p \in 0 .. MaxBase + MaxQty : Manual(s, p)

Next == Turn \/ Operator \/ World \/ Crash

Spec == Init /\ [][Next]_vars

-----------------------------------------------------------------------------
(* Properties *)

\* The runtime row, the turn and the exchange keep their types: positions and
\* quantities never turn negative, every receipt has one of the known states.
TypeOK ==
    /\ strategy \in Strategy /\ enabled \in BOOLEAN /\ attention \in BOOLEAN
    /\ owned \in [Side -> Nat] /\ quantities \in [Side -> Nat]
    /\ pending \in Pending
    /\ leg \in [Slot -> [Side -> Leg]]
    /\ pc \in Pc /\ call \in [Side -> Call]
    /\ seen \in [Side -> Nat \cup {Unread}]
    /\ exch \in [Slot -> [Side -> Exch]]
    /\ pos \in [Side -> Nat] /\ outside \in [Side -> Int]
    /\ watched \in Seq(Archived) /\ Len(watched) <= MaxWatch
    /\ sends \in [Slot -> [Side -> Nat]]
    /\ started \in Nat /\ mishaps \in Nat

\* What the accounts hold by the program's own doing.
Net == [s \in Side |-> pos[s] - outside[s]]

\* Every position is explained: the ledger (or the open batch's baseline and
\* what the exchange really executed of its orders), plus what the program
\* never claimed.  No fill is lost or counted twice, over late executions,
\* lost answers, repairs and crashes.
Truth(s) == IF Active
            THEN pending.before[s] + Signed(exch["leg"][s].exec)
                 - pending.repaired[s] - exch["repair"][s].exec
            ELSE Expected[s]

Books == \A s \in Side : Net[s] = Truth(s)

\* A client order is submitted at most once, across restarts; repairs leave
\* at most once per consumed attempt, so at most three times per batch.
SubmitOnce ==
    \A s \in Side : /\ sends["leg"][s] <= 1
                    /\ sends["repair"][s] <= pending.attempts
                    /\ pending.attempts <= MaxRepairs

Settled(k) == \A s \in Side : exch[k][s].state \notin {"flight", "live"}

\* Nothing can still execute once a batch has ended, with one exception that the
\* program keeps a record of: the orders of a batch the operator archived with
\* both outcomes unknown are in "watched", at most MaxWatch batches of them.  And
\* a repair never overlaps the orders it repairs.
NoStrayOrder ==
    /\ ~Active => Settled("leg") /\ Settled("repair")
    /\ pending.repairing => Settled("leg")
    /\ Len(watched) <= MaxWatch

\* The base position is never sold by the program, even while orders with
\* unknown outcome are still under way.
AtRisk(s) == IF Active /\ pending.phase = "close" /\ leg["leg"][s].receipt # "final"
             THEN leg["leg"][s].qty - exch["leg"][s].exec
             ELSE IF Active /\ leg["repair"][s].receipt # "final"
                  THEN leg["repair"][s].qty - exch["repair"][s].exec
                  ELSE 0

BaseKept == \A s \in Side : Net[s] - AtRisk(s) >= owned[s]

\* The abstract ledger of the group.
Ledger == INSTANCE PairLedger WITH
              basis <- owned,
              net <- Net,
              batch <- [kind |-> pending.kind, phase |-> pending.phase, qty |-> pending.qty,
                        before |-> pending.before]

\* PairTrader implements the abstract ledger: a batch commits on both
\* accounts or is taken back on both.
LedgerSpec == Ledger!LSpec

\* With no batch open, each account stands exactly on the ledger and the cycle
\* holds the same quantity on every side: no path of failures, repairs and
\* crashes ends with the group one-legged.
Hedged == Ledger!LHedged

-----------------------------------------------------------------------------
(* Liveness.  The scheduler keeps calling tick, and a turn runs on; the       *)
(* exchange resolves every request; the request budget and the order query  *)
(* are available again and again; account events and stale reads (TurnFails) *)
(* do not interrupt every turn for ever; a due close finds its market.       *)

Proceed ==
    \/ Dispatch \/ Withdraw \/ EndSending \/ EndRepairing
    \/ TickPending \/ StartClose \/ QueryComplete \/ DispatchRepairs
    \/ \E s \in Side : AnswerReceipt(s) \/ AnswerRejected(s) \/ AnswerUnknown(s) \/ ReadPosition(s)
    \/ GoReview \/ JudgeMismatch \/ AdoptReviewed \/ ReviewFails \/ Archive \/ ArchiveFails
    \/ \E commit \in BOOLEAN : Finish(commit) \/ SaveRepairs(commit) \/ JudgeUnrepairable(commit)

SomeRowFound   == \E k \in Slot, s \in Side : QueryRow(k, s, "final", exch[k][s].exec)
SomeResolution == \E k \in Slot, s \in Side :
                     Void(k, s) \/ \E e \in 0 .. MaxQty : Execute(k, s, "final", e)

Fairness ==
    /\ WF_vars(Proceed)
    /\ SF_vars(\E s \in Side : Send(s))
    /\ SF_vars(\E k \in Slot, s \in Side : QueryUnsent(k, s))
    /\ SF_vars(SomeRowFound)
    /\ WF_vars(SomeResolution)
    /\ <>[][~TurnFails]_vars

FairSpec == Spec /\ Fairness

\* An order marked as sending of which the exchange has no record: nothing
\* that can be queried will ever decide it.
Undecidable == \E k \in Slot, s \in Side :
    /\ leg[k][s].dispatch = "sending" /\ leg[k][s].receipt # "final"
    /\ exch[k][s].state \in {"none", "void"}

\* Every batch ends, or waits for the operator with a reason: attention, an order
\* nobody can decide, or an archived order that executed after all.
BatchSettles == Active ~> (~Active \/ attention \/ Undecidable \/ ~WatchClear)

\* A paused group takes back its running cycle.
PausedCycleCloses == (Holding /\ ~enabled) ~> (~Holding \/ enabled \/ attention \/ Undecidable)

=============================================================================

--------------------------- MODULE HedgeExecutor ---------------------------
(***************************************************************************)
(* One account that holds both directions of a symbol                      *)
(* (src/trading/execution.py Executor, cycle_execution.py CycleExecutor),  *)
(* with the engine's turn and operator around them.                        *)
(*                                                                         *)
(* A batch is one intent row, saved before one HTTP request that carries   *)
(* both orders.  Nothing marks the moment between the save and the POST:   *)
(* an order without a receipt is queried by its client id until a final    *)
(* row is found, for two minutes without complaint and afterwards as a     *)
(* matter for the operator.  Then the positions are compared with the      *)
(* receipts, and the batch ends, is repaired by reducing, or needs         *)
(* attention.  An ordinary pair ends when the two totals are within the    *)
(* tolerance; a cycle only with the full quantity on both sides, or none.  *)
(*                                                                         *)
(* Live account, one symbol.  Here not: leverage intents, migration, paper *)
(* ledger, volume accounting, planning figures; whether a plan exists and  *)
(* what the book offers are free choices.                                  *)
(***************************************************************************)
EXTENDS Integers

CONSTANTS
    Side,           \* SIDES: the two directions
    Scale,          \* 1 / HEDGE_TOLERANCE (the code's is 1000)
    Step,           \* rule.step: orders are multiples of it
    MinQty, MaxQty, \* rule.min_qty and rule.max_qty of a market order
    MaxRepairs,     \* repair attempts before attention (the code's is 3)
    MaxChecks,      \* POSITION_SYNC_CHECKS (the code's is 3)
    MaxBase,        \* bound: positions at the start
    MaxBatches,     \* bound: batches that add
    Mishaps,        \* bound: which of "manual" trades, operator's "retry", "crash" occur
    MaxMishaps      \* bound: and how often together

ASSUME HedgeAssumption ==
    /\ Scale \in Nat \ {0} /\ Step \in Nat \ {0}
    /\ MinQty \in Nat \ {0} /\ MaxQty \in Nat
    /\ MaxRepairs \in Nat /\ MaxChecks \in Nat \ {0}
    /\ MaxBase \in Nat /\ MaxBatches \in Nat /\ MaxMishaps \in Nat

VARIABLES
    mode,           \* the symbol belongs to the cycle, or to ordinary adds
    enabled,        \* the account's enabled flag
    mismatch,       \* its pause_reason is CYCLE_POSITION_MISMATCH
    campaign,       \* sum of the completed pairs reported so far
    base,           \* cycle progress: baseline
    quantities,     \* cycle progress: quantities (zero: waiting_open)
    intent,         \* the open intent, kind "none" if absent
    leg,            \* its orders with their receipts, and the last repair
    pc,             \* where the turn is
    exch,           \* the exchange's record of each client order id
    pos,            \* the real positions
    shown,          \* what the account endpoint answers, possibly behind
    outside,        \* ghost: real position the program does not account for
    posts,          \* ghost: HTTP submissions of each order
    rounds,         \* ghost: repair rounds posted since the attempts were reset
    started, mishaps  \* counters for the bounds

ledger   == <<campaign, base, quantities>>
account  == <<mode, enabled, mismatch>>
batch    == <<intent, leg>>
world    == <<exch, pos, shown>>
ghosts   == <<outside, posts, rounds>>
counters == <<started, mishaps>>
vars     == <<ledger, account, batch, pc, world, ghosts, counters>>

-----------------------------------------------------------------------------
Slot  == {"leg", "repair"}
Pc    == {"idle", "armed", "waiting", "query", "judge", "pausing"}
Lots  == {q \in MinQty .. MaxQty : q % Step = 0}
Fills == {e \in 0 .. MaxQty : e % Step = 0}

Leg       == [receipt : {"unknown", "open", "final"}, qty : Nat, exec : Nat]
NoLeg     == [receipt |-> "final", qty |-> 0, exec |-> 0]
Order(q)  == [receipt |-> "unknown", qty |-> q, exec |-> 0]

\* A refused or lost request is "void"; until then it is in "flight".
Exch   == [state : {"none", "flight", "live", "final", "void"}, exec : Nat]
NoExch == [state |-> "none", exec |-> 0]

Intent == [kind : {"none", "pair", "cycle"}, phase : {"open", "close"},
           status : {"pending", "repair", "attention"}, qty : Nat, before : [Side -> Nat],
           attempts : Nat, repaired : [Side -> Nat], repairing : BOOLEAN,
           checks : 0 .. MaxChecks, late : BOOLEAN]

Zero == [s \in Side |-> 0]

NoIntent == [kind |-> "none", phase |-> "open", status |-> "pending", qty |-> 0,
             before |-> Zero, attempts |-> 0, repaired |-> Zero, repairing |-> FALSE,
             checks |-> 0, late |-> FALSE]

NoLegs  == [k \in Slot |-> [s \in Side |-> NoLeg]]
NoPosts == [k \in Slot |-> Zero]

Active   == intent.kind # "none"
Holding  == \E s \in Side : quantities[s] # 0
Expected == [s \in Side |-> base[s] + quantities[s]]

\* hedge_balanced: the difference is at most the tolerance of the larger side.
Balanced(p) == \A s, t \in Side : Scale * (p[s] - p[t]) <= p[s]

Signed(n) == IF intent.phase = "open" THEN n ELSE 0 - n

\* net: what the receipts of the batch leave on side s.
NetOf(s) == Signed(leg["leg"][s].exec) - intent.repaired[s] - leg["repair"][s].exec

ByReceipts == [s \in Side |-> intent.before[s] + NetOf(s)]

\* floor: the original position a cycle must not touch.
Floor == IF intent.phase = "open" THEN intent.before ELSE base

AllFinal(l) == \A k \in Slot, s \in Side : l[k][s].receipt = "final"

\* full_open: every original order executed completely.
Full == ~intent.repairing /\ \A s \in Side : leg["leg"][s].exec = intent.qty

\* The orders of the request under way.
Round   == IF intent.repairing THEN "repair" ELSE "leg"
InRound == {s \in Side : leg[Round][s].qty > 0}

Init ==
    /\ mode \in {"pair", "cycle"} /\ enabled = FALSE /\ mismatch = FALSE
    /\ campaign = Zero /\ base = Zero /\ quantities = Zero
    /\ intent = NoIntent /\ leg = NoLegs
    /\ pc = "idle"
    /\ exch = [k \in Slot |-> [s \in Side |-> NoExch]]
    /\ pos \in [Side -> 0 .. MaxBase] /\ shown = pos
    /\ outside = pos /\ posts = NoPosts /\ rounds = 0
    /\ started = 0 /\ mishaps = 0

-----------------------------------------------------------------------------
(* A turn without an intent *)

Ready == pc = "idle" /\ ~Active

\* The intent is committed with both orders before any request.
SaveIntent(kind, phase, q) ==
    /\ intent' = [NoIntent EXCEPT !.kind = kind, !.phase = phase, !.qty = q, !.before = shown]
    /\ leg' = [NoLegs EXCEPT !["leg"] = [s \in Side |-> Order(q)]]
    /\ exch' = [k \in Slot |-> [s \in Side |-> NoExch]]
    /\ pc' = "armed"
    /\ UNCHANGED <<ledger, account, pos, shown, ghosts, mishaps>>

\* open_pair: only on positions that are balanced already.
StartPair(q) ==
    /\ Ready /\ enabled /\ mode = "pair"
    /\ Balanced(shown)
    /\ started < MaxBatches /\ started' = started + 1
    /\ SaveIntent("pair", "open", q)

StartOpen(q) ==
    /\ Ready /\ enabled /\ mode = "cycle" /\ ~Holding
    /\ started < MaxBatches /\ started' = started + 1
    /\ SaveIntent("cycle", "open", q)

\* A due cycle closes its whole quantity, if the account shows exactly that.
StartClose ==
    /\ Ready /\ enabled /\ mode = "cycle" /\ Holding
    /\ shown = Expected
    /\ \E q \in Lots : /\ \A s \in Side : quantities[s] = q
                       /\ SaveIntent("cycle", "close", q)
    /\ UNCHANGED started

\* validate_cycle_positions fails in a turn or when the account is enabled.
CycleMismatch ==
    /\ Ready /\ mode = "cycle" /\ Holding
    /\ shown # Expected
    /\ enabled' = FALSE /\ mismatch' = TRUE
    /\ UNCHANGED <<ledger, mode, batch, pc, world, ghosts, counters>>

\* AccountModeError before anything else: the account is paused, then an open
\* intent waits for the operator (unless a crash comes between the two saves).
ModesChanged ==
    /\ pc = "idle"
    /\ enabled \/ Active
    /\ enabled' = FALSE /\ mismatch' = FALSE
    /\ \/ Active /\ intent' = [intent EXCEPT !.status = "attention"]
       \/ UNCHANGED intent
    /\ UNCHANGED <<ledger, mode, leg, pc, world, ghosts, counters>>

-----------------------------------------------------------------------------
(* Executor.send *)

\* One request with every order of the round leaves the process.
Post ==
    /\ pc = "armed"
    /\ exch' = [exch EXCEPT ![Round] = [s \in Side |->
                  IF s \in InRound THEN [NoExch EXCEPT !.state = "flight"] ELSE NoExch]]
    /\ posts' = [posts EXCEPT ![Round] = [s \in Side |->
                  IF s \in InRound THEN posts[Round][s] + 1 ELSE posts[Round][s]]]
    /\ rounds' = IF intent.repairing THEN rounds + 1 ELSE rounds
    /\ pc' = "waiting"
    /\ UNCHANGED <<ledger, account, batch, pos, shown, outside, counters>>

\* Mutant: the attempt of an original order is given back too.
NotSentRefunds ==
    /\ pc = "armed"
    /\ leg' = [leg EXCEPT ![Round] = [s \in Side |-> [leg[Round][s] EXCEPT !.receipt = "final"]]]
    /\ intent' = [intent EXCEPT !.attempts = @ - 1]
    /\ pc' = IF intent.repairing THEN "idle" ELSE "query"
    /\ UNCHANGED <<ledger, account, world, ghosts, counters>>

\* RequestNotSent: the orders are known to be absent.  A repair gives its
\* attempt back in the same save and ends the turn.
NotSent ==
    /\ pc = "armed"
    /\ leg' = [leg EXCEPT ![Round] = [s \in Side |-> [leg[Round][s] EXCEPT !.receipt = "final"]]]
    /\ intent' = IF intent.repairing THEN [intent EXCEPT !.attempts = @ - 1] ELSE intent
    /\ pc' = IF intent.repairing THEN "idle" ELSE "query"
    /\ UNCHANGED <<ledger, account, world, ghosts, counters>>

\* The exchange's row of an order; a void order executed nothing.
Row(l, x) == [l EXCEPT !.receipt = IF x.state = "live" THEN "open" ELSE "final", !.exec = x.exec]

\* Mutant: any error row is a rejection, also one that proves nothing.
DecidedAny(s) == exch[Round][s].state \in {"flight", "live", "final", "void"}

\* A row of the answer decides its order: a receipt, or in the answer to both
\* orders an explicit rejection.  The error of a single order is an error of
\* the whole request, which proves nothing, like -1006 and -1007 in a row.
Decided(s) ==
    \/ exch[Round][s].state \in {"live", "final"}
    \/ exch[Round][s].state = "void" /\ InRound = Side

\* The answer tells of some orders, of none when it is lost or invalid.
Answer(told) ==
    /\ pc = "waiting"
    /\ \A s \in told : s \in InRound /\ Decided(s)
    /\ leg' = [leg EXCEPT ![Round] = [s \in Side |->
                  IF s \in told THEN Row(leg[Round][s], exch[Round][s]) ELSE leg[Round][s]]]
    /\ pc' = "query"
    /\ UNCHANGED <<ledger, account, intent, world, ghosts, counters>>

-----------------------------------------------------------------------------
(* Executor.reconcile, CycleExecutor._reconcile_cycle: the receipts *)

\* Mutant: a paused account leaves its batch alone.
TickPendingEnabled ==
    /\ pc = "idle" /\ Active /\ enabled
    /\ pc' = "query"
    /\ UNCHANGED <<ledger, account, batch, world, ghosts, counters>>

\* Mutant: what the operator must decide is left alone.
TickPendingUnlessAttention ==
    /\ pc = "idle" /\ Active /\ intent.status # "attention"
    /\ pc' = "query"
    /\ UNCHANGED <<ledger, account, batch, world, ghosts, counters>>

\* Paused or waiting for attention, the batch is looked at every time.
TickPending ==
    /\ pc = "idle" /\ Active
    /\ pc' = "query"
    /\ UNCHANGED <<ledger, account, batch, world, ghosts, counters>>

OrderId == Slot \X Side

Known(o)   == exch[o[1]][o[2]].state \in {"live", "final"}
Unfinal(o) == leg[o[1]][o[2]].receipt # "final"

AfterRows(found) == [k \in Slot |-> [s \in Side |->
    IF <<k, s>> \in found THEN Row(leg[k][s], exch[k][s]) ELSE leg[k][s]]]

\* attention: first the intent is saved, then the account (PauseAccount).
Attention(i) == intent' = [i EXCEPT !.status = "attention"] /\ pc' = "pausing"

\* Mutant: an order the exchange does not show counts as rejected.
QueryAbsent(found) ==
    /\ pc = "query"
    /\ \A o \in found : Unfinal(o)
    /\ leg' = AfterRows(found)
    /\ IF AllFinal(leg') THEN pc' = "judge" /\ UNCHANGED intent
       ELSE IF intent.late THEN Attention(intent)
       ELSE pc' = "idle" /\ UNCHANGED intent
    /\ UNCHANGED <<ledger, account, world, ghosts, counters>>

\* Every order without a final receipt is asked for; some queries fail, and
\* one for an order the exchange does not know always does.  The rows are
\* saved together.  After two minutes an open question is for the operator.
Query(found) ==
    /\ pc = "query"
    /\ \A o \in found : Unfinal(o) /\ Known(o)
    /\ leg' = AfterRows(found)
    /\ IF AllFinal(leg') THEN pc' = "judge" /\ UNCHANGED intent
       ELSE IF intent.late THEN Attention(intent)
       ELSE pc' = "idle" /\ UNCHANGED intent
    /\ UNCHANGED <<ledger, account, world, ghosts, counters>>

\* A row that does not match its order ends the loop with what was found.
QueryInvalid(found) ==
    /\ pc = "query" /\ ~AllFinal(leg)
    /\ \A o \in found : Unfinal(o) /\ Known(o)
    /\ leg' = AfterRows(found) /\ ~AllFinal(leg')
    /\ Attention(intent)
    /\ UNCHANGED <<ledger, account, world, ghosts, counters>>

PauseAccount ==
    /\ pc = "pausing"
    /\ enabled' = FALSE /\ mismatch' = FALSE
    /\ pc' = "idle"
    /\ UNCHANGED <<ledger, mode, batch, world, ghosts, counters>>

-----------------------------------------------------------------------------
(* The positions against the receipts *)

Judging(kind) == pc = "judge" /\ intent.kind = kind
Agrees == shown = ByReceipts

Attend ==
    /\ Attention(intent)
    /\ UNCHANGED <<ledger, account, leg, world, ghosts, counters>>

\* A cycle's next difference has a synchronisation window of its own.
Synced == [intent EXCEPT !.checks = IF intent.kind = "cycle" /\ Agrees THEN 0 ELSE @]

\* Reading the account, the book or the modes fails: the turn ends.
TurnFails ==
    /\ pc = "judge"
    /\ pc' = "idle"
    /\ intent' \in {intent, Synced}
    /\ UNCHANGED <<ledger, account, leg, world, ghosts, counters>>

\* The account's mode, leverage or permission is not what it was.
JudgeRefused == pc = "judge" /\ Attend

EndBatch ==
    /\ intent' = NoIntent /\ leg' = NoLegs
    /\ posts' = NoPosts /\ rounds' = 0
    /\ pc' = "idle"
    /\ UNCHANGED <<account, world, outside, counters>>

\* A repair round: the reducing orders q are saved with the attempt.
SaveRepairs(q) ==
    /\ intent.attempts < MaxRepairs
    /\ intent' = [intent EXCEPT !.attempts = @ + 1, !.repairing = TRUE, !.status = "repair",
                                !.checks = 0,
                                !.repaired = [s \in Side |-> @[s] + leg["repair"][s].exec]]
    /\ leg' = [leg EXCEPT !["repair"] =
                  [s \in Side |-> IF q[s] = 0 THEN NoLeg ELSE Order(q[s])]]
    /\ exch' = [exch EXCEPT !["repair"] = [s \in Side |-> NoExch]]
    /\ posts' = [posts EXCEPT !["repair"] = Zero]
    /\ pc' = "armed"
    /\ UNCHANGED <<ledger, account, pos, shown, outside, rounds, counters>>

(* Judging an ordinary pair *)

PairMismatch == Judging("pair") /\ ~Agrees /\ Attend

\* Mutant: final receipts end the batch, whatever stands on each side.
PairEndsUneven ==
    /\ Judging("pair") /\ Agrees
    /\ campaign' = [s \in Side |-> campaign[s] + NetOf(s)]
    /\ EndBatch
    /\ UNCHANGED <<base, quantities>>

\* complete_pair adds what was kept to the campaign; abort_pair has nothing.
PairEnds ==
    /\ Judging("pair") /\ Agrees
    /\ Balanced(shown)
    /\ campaign' = [s \in Side |-> campaign[s] + NetOf(s)]
    /\ EndBatch
    /\ UNCHANGED <<base, quantities>>

\* Open orders, three attempts, a thin book, less than the smallest order.
PairStuck == Judging("pair") /\ Agrees /\ ~Balanced(shown) /\ Attend

Less(s, q) == [shown EXCEPT ![s] = @ - q]

\* Up to the difference in whole steps; one step more when only that restores
\* the tolerance.  Never more than this batch added to the larger side.
RepairQty(s, t, q) ==
    /\ q <= NetOf(s)
    /\ q <= NetOf(s) - NetOf(t) \/ q <= NetOf(t) - NetOf(s)
    /\ \/ q <= shown[s] - shown[t]
       \/ /\ q - Step <= shown[s] - shown[t]
          /\ ~Balanced(Less(s, q - Step)) /\ Balanced(Less(s, q))

PairRepair ==
    /\ Judging("pair") /\ Agrees
    /\ ~Balanced(shown)
    /\ \E s, t \in Side, q \in Lots :
          /\ shown[s] > shown[t]
          /\ RepairQty(s, t, q)
          /\ SaveRepairs([Zero EXCEPT ![s] = q])

(* Judging a cycle batch *)

\* The positions may lag: two more checks, then attention.
CycleLag ==
    /\ Judging("cycle") /\ ~Agrees
    /\ IF intent.checks + 1 < MaxChecks
       THEN pc' = "idle" /\ intent' = [intent EXCEPT !.checks = @ + 1]
       ELSE Attention([intent EXCEPT !.checks = MaxChecks])
    /\ UNCHANGED <<ledger, account, leg, world, ghosts, counters>>

\* Everything executed, and the margin allows it: the cycle holds.
CycleHolds ==
    /\ Judging("cycle") /\ Agrees
    /\ intent.phase = "open" /\ Full
    /\ base' = Floor
    /\ quantities' = [s \in Side |-> shown[s] - Floor[s]]
    /\ EndBatch
    /\ UNCHANGED campaign

\* Nothing is left of the batch: rolled back, or the cycle is complete.
CycleEnds ==
    /\ Judging("cycle") /\ Agrees
    /\ shown = Floor
    /\ base' = Floor
    /\ quantities' = Zero
    /\ EndBatch
    /\ UNCHANGED campaign

\* Mutant: the original position is reduced as well.
RemainingAll(s) == shown[s]

Remaining(s) == shown[s] - Floor[s]

\* No permission, three attempts, or a residue no order can take.
CycleStuck ==
    /\ Judging("cycle") /\ Agrees /\ shown # Floor
    /\ Attention(Synced)
    /\ UNCHANGED <<ledger, account, leg, world, ghosts, counters>>

\* Both sides are reduced towards the original position, each as far as the
\* book allows; also a full opening that the margin does not allow.
CycleRepair ==
    /\ Judging("cycle") /\ Agrees
    /\ \E q \in [Side -> Lots \cup {0}] :
          /\ \E s \in Side : q[s] > 0
          /\ \A s \in Side : q[s] <= Remaining(s) /\ (q[s] = 0 <=> Remaining(s) = 0)
          /\ SaveRepairs(q)

-----------------------------------------------------------------------------
(* The operator; the account lock keeps all of it outside a turn *)

Enable ==
    /\ Ready /\ ~enabled
    /\ mode = "cycle" /\ Holding => shown = Expected
    /\ enabled' = TRUE /\ mismatch' = FALSE
    /\ UNCHANGED <<ledger, mode, batch, pc, world, ghosts, counters>>

Pause ==
    /\ pc = "idle" /\ enabled
    /\ enabled' = FALSE
    /\ UNCHANGED <<ledger, mode, mismatch, batch, pc, world, ghosts, counters>>

Configure ==
    /\ Ready /\ ~enabled /\ ~Holding
    /\ mode' \in {"pair", "cycle"}
    /\ UNCHANGED <<ledger, enabled, mismatch, batch, pc, world, ghosts, counters>>

\* retry: the batch is pending again with all its attempts; nothing is resent.
Retry ==
    /\ pc = "idle" /\ Active
    /\ "retry" \in Mishaps /\ mishaps < MaxMishaps
    /\ mishaps' = mishaps + 1
    /\ intent' = [intent EXCEPT !.status = "pending", !.attempts = 0]
    /\ rounds' = 0
    /\ UNCHANGED <<ledger, account, leg, pc, world, outside, posts, started>>

\* confirm_cycle_recovery: what is shown becomes the original position.
ConfirmRecovery ==
    /\ Ready /\ ~enabled /\ mode = "cycle" /\ Holding /\ mismatch
    /\ base' = shown /\ quantities' = Zero
    /\ outside' = [s \in Side |-> outside[s] + quantities[s]]
    /\ mismatch' = FALSE
    /\ UNCHANGED <<campaign, mode, enabled, batch, pc, world, posts, rounds, counters>>

\* finish_campaign: the additions are reported and no longer counted.
FinishCampaign ==
    /\ Ready /\ campaign # Zero
    /\ campaign' = Zero
    /\ outside' = [s \in Side |-> outside[s] + campaign[s]]
    /\ UNCHANGED <<base, quantities, account, batch, pc, world, posts, rounds, counters>>

-----------------------------------------------------------------------------
(* The exchange, trades by hand, time, and crashes *)

Adding(k) == k = "leg" /\ intent.phase = "open"

Moved(k, s, e) == IF Adding(k) THEN pos[s] + (e - exch[k][s].exec)
                               ELSE pos[s] - (e - exch[k][s].exec)

\* The request arrives, the order makes progress or is cancelled; a reduction
\* never exceeds the position.
Execute(k, s, st, e) ==
    /\ exch[k][s].state \in {"flight", "live"}
    /\ exch[k][s].exec <= e /\ e <= leg[k][s].qty
    /\ e = leg[k][s].qty => st = "final"
    /\ Moved(k, s, e) >= 0
    /\ exch' = [exch EXCEPT ![k] = [exch[k] EXCEPT ![s] = [state |-> st, exec |-> e]]]
    /\ pos' = [pos EXCEPT ![s] = Moved(k, s, e)]
    /\ UNCHANGED <<ledger, account, batch, pc, shown, ghosts, counters>>

Void(k, s) ==
    /\ exch[k][s].state = "flight"
    /\ exch' = [exch EXCEPT ![k] = [exch[k] EXCEPT ![s] = [state |-> "void", exec |-> 0]]]
    /\ UNCHANGED <<ledger, account, batch, pc, pos, shown, ghosts, counters>>

\* The account endpoint catches up.
ShowsUp(s) ==
    /\ shown[s] # pos[s]
    /\ shown' = [shown EXCEPT ![s] = pos[s]]
    /\ UNCHANGED <<ledger, account, batch, pc, exch, pos, ghosts, counters>>

\* Somebody else trades one lot, or the exchange reduces the position (ADL).
Manual(s, d) ==
    /\ "manual" \in Mishaps /\ mishaps < MaxMishaps
    /\ mishaps' = mishaps + 1
    /\ pos[s] + d >= 0
    /\ pos' = [pos EXCEPT ![s] = @ + d]
    /\ outside' = [outside EXCEPT ![s] = @ + d]
    /\ UNCHANGED <<ledger, account, batch, pc, exch, shown, posts, rounds, started>>

\* Two minutes have passed since the intent was created.
GrowLate ==
    /\ Active /\ ~intent.late
    /\ intent' = [intent EXCEPT !.late = TRUE]
    /\ UNCHANGED <<ledger, account, leg, pc, world, ghosts, counters>>

Crash ==
    /\ pc # "idle"
    /\ "crash" \in Mishaps /\ mishaps < MaxMishaps
    /\ pc' = "idle" /\ mishaps' = mishaps + 1
    /\ UNCHANGED <<ledger, account, batch, world, ghosts, started>>

-----------------------------------------------------------------------------
Turn ==
    \/ \E q \in Lots : StartPair(q) \/ StartOpen(q)
    \/ StartClose \/ CycleMismatch \/ ModesChanged
    \/ Post \/ NotSent
    \/ \E told \in SUBSET Side : Answer(told)
    \/ TickPending \/ PauseAccount
    \/ \E found \in SUBSET OrderId : Query(found) \/ QueryInvalid(found)
    \/ TurnFails
    \/ PairMismatch \/ PairEnds \/ PairStuck \/ PairRepair
    \/ CycleLag \/ CycleHolds \/ CycleEnds \/ CycleStuck \/ CycleRepair
    \/ JudgeRefused \/ FinishCampaign

Operator == Enable \/ Pause \/ Configure \/ Retry \/ ConfirmRecovery

World ==
    \/ \E k \in Slot, s \in Side, st \in {"live", "final"}, e \in Fills : Execute(k, s, st, e)
    \/ \E k \in Slot, s \in Side : Void(k, s)
    \/ \E s \in Side : ShowsUp(s)
    \/ \E s \in Side, d \in {Step, 0 - Step} : Manual(s, d)
    \/ GrowLate

Next == Turn \/ Operator \/ World \/ Crash

Spec == Init /\ [][Next]_vars

-----------------------------------------------------------------------------
(* Properties *)

\* The durable rows, the turn and the exchange keep their types: attempts and
\* positions are never negative, checks never exceed their limit.
TypeOK ==
    /\ mode \in {"pair", "cycle"} /\ enabled \in BOOLEAN /\ mismatch \in BOOLEAN
    /\ campaign \in [Side -> Nat] /\ base \in [Side -> Nat] /\ quantities \in [Side -> Nat]
    /\ intent \in Intent /\ leg \in [Slot -> [Side -> Leg]] /\ pc \in Pc
    /\ exch \in [Slot -> [Side -> Exch]]
    /\ pos \in [Side -> Nat] /\ shown \in [Side -> Nat] /\ outside \in [Side -> Int]
    /\ posts \in [Slot -> [Side -> Nat]] /\ rounds \in Nat
    /\ started \in Nat /\ mishaps \in Nat

\* What the open batch has really done to side s.
Effect(s) == IF Active THEN Signed(exch["leg"][s].exec) - intent.repaired[s] - exch["repair"][s].exec
                       ELSE 0

Net(s) == pos[s] - outside[s]

\* Every position is explained: the campaign, the running cycle, the open
\* batch, and what the program does not claim.  A fill is neither lost nor
\* counted twice over lost answers, repairs, retries and crashes.
Books == \A s \in Side : Net(s) = campaign[s] + quantities[s] + Effect(s)

\* What orders of unknown outcome may still take from side s.
AtRisk(s) == IF ~Active THEN 0
             ELSE IF intent.phase = "close" /\ leg["leg"][s].receipt # "final"
             THEN leg["leg"][s].qty - exch["leg"][s].exec
             ELSE IF leg["repair"][s].receipt # "final"
             THEN leg["repair"][s].qty - exch["repair"][s].exec
             ELSE 0

\* Positions that were there before are never sold, and of the cycle's own
\* never more than it holds: not by a repair, not by a close, not by what is
\* still under way.
BaseKept == \A s \in Side : Net(s) - AtRisk(s) >= campaign[s]

\* No order is posted twice, and since the last retry no more repair rounds
\* were posted than attempts were counted, three at most.
SubmitOnce ==
    /\ \A k \in Slot, s \in Side : posts[k][s] <= 1
    /\ rounds <= intent.attempts /\ intent.attempts <= MaxRepairs

Settled(k) == \A s \in Side : exch[k][s].state \notin {"flight", "live"}

\* Nothing can execute after its batch has ended, and no repair overlaps the
\* orders it repairs.
NoStrayOrder ==
    /\ ~Active => Settled("leg") /\ Settled("repair")
    /\ intent.repairing => Settled("leg")

After == [s \in Side |-> intent.before[s] + Effect(s)]

\* A batch ends hedged by what was really executed, not by what was shown: a
\* pair within the tolerance, a cycle with its whole quantity on both sides or
\* with nothing on either.
EndsHedged ==
    [][Active /\ intent'.kind = "none" =>
         IF intent.kind = "pair" THEN Balanced(After)
         ELSE \/ After = Floor
              \/ /\ intent.phase = "open"
                 /\ \A s \in Side : After[s] = intent.before[s] + intent.qty]_vars

-----------------------------------------------------------------------------
(* Liveness.  The scheduler calls the account again and again and a turn runs *)
(* on; time passes; the request budget is free again and again; reads do not  *)
(* fail for ever.  Nothing is assumed of the exchange: an order nobody can     *)
(* find becomes late.                                                          *)

Proceed ==
    \/ TickPending \/ PauseAccount
    \/ \E told \in SUBSET Side : Answer(told)
    \/ \E found \in SUBSET OrderId : Query(found)
    \/ JudgeRefused \/ PairMismatch \/ PairEnds \/ PairStuck \/ PairRepair
    \/ CycleLag \/ CycleHolds \/ CycleEnds \/ CycleStuck \/ CycleRepair

FairSpec ==
    /\ Spec
    /\ WF_vars(Proceed) /\ WF_vars(GrowLate)
    /\ SF_vars(Post)
    /\ <>[][~TurnFails]_vars

\* Every batch ends or is handed to the operator.
IntentSettles == Active ~> (~Active \/ intent.status = "attention")

\* An account whose batch needs attention is paused, even when the process
\* dies between the two saves, unless the batch was decided in the meantime.
AttentionPauses == (intent.status = "attention") ~> (~enabled \/ intent.status # "attention")

=============================================================================

----------------------------- MODULE Migration -----------------------------
(***************************************************************************)
(* Migration of a hedged position from XAU to another symbol               *)
(* (migration_execution.py MigrationExecutor, Engine.tick_migration,       *)
(* Store.complete_migration).                                              *)
(*                                                                         *)
(* A batch opens both directions of the target first, reduces what did not *)
(* fill on both, then closes no more of the source than the target now     *)
(* replaces, evens the source, and trims the target until the two amounts  *)
(* agree within the tolerance.  Every request is saved with the intent     *)
(* before it is sent; after a crash or a lost answer the orders are only   *)
(* queried.  After the opening there are only reductions, in rounds.       *)
(*                                                                         *)
(* Live account.  One price per symbol, steps and smallest orders of one   *)
(* lot; which plan exists and how deep the book is are free choices.       *)
(***************************************************************************)
EXTENDS Integers, FiniteSets, FiniteSetsExt

CONSTANTS
    Side,                      \* SIDES: the two directions
    SourcePrice, TargetPrice,  \* value of a lot
    Tol, TolScale,             \* notional_tolerance = Tol / TolScale
    HedgeScale,                \* 1 / HEDGE_TOLERANCE (the code's is 1000)
    MaxAttempts,               \* MAX_REDUCTION_ATTEMPTS (the code's is 3)
    \* bounds
    Bases,                     \* source positions to begin with
    MaxLots, MaxPast, MaxBatches, MaxMishaps  \* crashes, trades by hand and retries, in all

ASSUME MigrationConstants ==
    /\ Side # {} /\ IsFiniteSet(Side)
    /\ {SourcePrice, TargetPrice, TolScale, HedgeScale, MaxAttempts} \subseteq Nat \ {0}
    /\ Tol \in 0 .. (TolScale - 1)
    /\ Bases \subseteq [Side -> Nat \ {0}]
    /\ {MaxLots, MaxPast, MaxBatches, MaxMishaps} \subseteq Nat

VARIABLES
    enabled,    \* the account and its migration are switched on
    progress,   \* durable totals of the run
    intent,     \* the durable batch; role = the purpose of its last round
    leg,        \* the orders of the last round with their receipts
    pc,         \* where the turn is
    exch,       \* the exchange's record of those orders
    pos,        \* the real positions
    outside,    \* ghost: what trades by hand did to them
    posted,     \* ghost: rounds really posted since the attempts were reset
    counters

vars == <<enabled, progress, intent, leg, pc, exch, pos, outside, posted, counters>>

Symbol    == {"source", "target"}
Reduction == {"balance_target", "close_source", "balance_source", "trim_target"}
Phase     == Reduction \cup {"open_target"}
Pc        == {"idle", "armed", "waiting", "refund", "query", "judge", "reduce", "pausing"}
Zero      == [s \in Side |-> 0]
Lots      == [Side -> Nat]

NoIntent == [active |-> FALSE, phase |-> "open_target", role |-> "open_target", attention |-> FALSE,
             late |-> FALSE, counted |-> FALSE, budget |-> Zero, opening |-> 0, planned |-> Zero,
             base |-> [y \in Symbol |-> Zero], attempts |-> [r \in Reduction |-> 0],
             opened |-> Zero, reduced |-> Zero, closed |-> Zero]
NoLeg  == [receipt |-> "final", qty |-> 0, exec |-> 0]
NoExch == [state |-> "none", exec |-> 0]
NoLegs == [s \in Side |-> NoLeg]

TypeOK ==
    /\ enabled \in BOOLEAN /\ pc \in Pc
    /\ progress \in [initial : Lots, remaining : Lots, moved : Lots, delta : [Side -> Int]]
    /\ intent \in [active : BOOLEAN, phase : Phase, role : Phase, attention : BOOLEAN, late : BOOLEAN,
                   counted : BOOLEAN, budget : Lots, opening : Nat, planned : Lots, base : [Symbol -> Lots],
                   attempts : [Reduction -> 0 .. MaxAttempts], opened : Lots, reduced : Lots, closed : Lots]
    /\ leg \in [Side -> [receipt : {"unknown", "open", "final", "absent"}, qty : Nat, exec : Nat]]
    /\ exch \in [Side -> [state : {"none", "flight", "live", "final", "void"}, exec : Nat]]
    /\ pos \in [Symbol -> Lots] /\ outside \in [Symbol -> [Side -> Int]]
    /\ posted \in [Reduction -> Nat]
    /\ counters \in [batches : 0 .. MaxBatches, retries : Nat, manuals : Nat, crashes : Nat]

Mishap(k) == /\ counters.retries + counters.manuals + counters.crashes < MaxMishaps
             /\ counters' = [counters EXCEPT ![k] = @ + 1]

\* hedge_balanced
Balanced(p) == \A s, t \in Side : HedgeScale * (p[s] - p[t]) <= p[s]

\* No batch starts from a position that is not hedged (tick_migration).
ASSUME HedgedToBegin == \A p \in Bases : Balanced(p)

Within(error, amount) == error * TolScale <= amount * Tol /\ 0 - error * TolScale <= amount * Tol

\* migration_progress of a new run.
NewRun(p) == [initial |-> p, remaining |-> p, moved |-> Zero, delta |-> Zero]

\* Bound: a run that has a past has moved MaxPast per side, and is at its last
\* lot; its totals agree within the tolerance.
Past(p) == {[initial |-> [s \in Side |-> p[s] + MaxPast], remaining |-> p,
             moved |-> [s \in Side |-> MaxPast * SourcePrice], delta |-> d] :
            d \in {d \in [Side -> -MaxPast .. MaxPast] : \A s \in Side : /\ p[s] = 1
                       /\ Within(d[s], MaxPast * SourcePrice)}}

Init ==
    /\ enabled = FALSE /\ intent = NoIntent /\ leg = NoLegs /\ pc = "idle"
    /\ exch = [s \in Side |-> NoExch]
    /\ pos \in {[y \in Symbol |-> IF y = "source" THEN p ELSE Zero] : p \in Bases}
    /\ progress \in {NewRun(pos["source"])} \cup Past(pos["source"])
    /\ outside = [y \in Symbol |-> Zero] /\ posted = [r \in Reduction |-> 0]
    /\ counters = [batches |-> 0, retries |-> 0, manuals |-> 0, crashes |-> 0]

-----------------------------------------------------------------------------
(* _ledger: what the receipts say, over all rounds *)

SymbolOf(role) == IF role \in {"close_source", "balance_source"} THEN "source" ELSE "target"

\* The totals if the orders of the last round executed e.
Opened(e)  == [s \in Side |-> intent.opened[s]  + IF intent.role = "open_target" THEN e[s] ELSE 0]
Reduced(e) == [s \in Side |-> intent.reduced[s] +
                  IF intent.role \in {"balance_target", "trim_target"} THEN e[s] ELSE 0]
Closed(e)  == [s \in Side |-> intent.closed[s]  + IF SymbolOf(intent.role) = "source" THEN e[s] ELSE 0]
Kept(e)    == [s \in Side |-> Opened(e)[s] - Reduced(e)[s]]

Receipts == [s \in Side |-> leg[s].exec]
closed   == Closed(Receipts)
kept     == Kept(Receipts)

\* _snapshot: the positions are exactly what the receipts explain.
Agrees == \A s \in Side : /\ pos["target"][s] = intent.base["target"][s] + kept[s]
                          /\ pos["source"][s] = intent.base["source"][s] - closed[s]

\* The amounts, in units of 1 / TolScale.
SourceAmount(s) == closed[s] * SourcePrice
TargetAmount(s) == kept[s] * TargetPrice

\* _acceptable: this batch, and the run as a whole.
Acceptable == \A s \in Side :
    /\ Within(TargetAmount(s) - SourceAmount(s), SourceAmount(s))
    /\ Within(progress.delta[s] + TargetAmount(s) - SourceAmount(s), progress.moved[s] + SourceAmount(s))

\* _source_plan: the whole position when it is the tail, otherwise the same
\* quantity on both sides, no more than the target is worth.
Tail == \A s \in Side :
    /\ intent.budget[s] = intent.base["source"][s]
    /\ Within(TargetAmount(s) - intent.budget[s] * SourcePrice, intent.budget[s] * SourcePrice)

\* Mutant: the frozen budget is closed whatever was opened.
SourcePlanBudget == [s \in Side |-> intent.budget[s]]

SourcePlan ==
    IF Tail THEN intent.budget
    ELSE [s \in Side |-> Min(UNION {{intent.budget[t], TargetAmount(t) \div SourcePrice} : t \in Side})]

\* _trim_quantities: the largest retained quantity, not above the preferred
\* one, that meets both error bounds; none if there is none.
Floor(n)   == IF n < 0 THEN 0 ELSE n \div (TargetPrice * TolScale)
LowOf(s)   == Max({0, SourceAmount(s) * (TolScale - Tol),
                   (SourceAmount(s) - progress.delta[s]) * TolScale
                       - (progress.moved[s] + SourceAmount(s)) * Tol})
HighOf(s)  == Min({SourceAmount(s) * (TolScale + Tol),
                   (SourceAmount(s) - progress.delta[s]) * TolScale
                       + (progress.moved[s] + SourceAmount(s)) * Tol})
Attainable == 0 .. Min({IF Opened(Receipts)[s] = 0 THEN 0 ELSE kept[s] : s \in Side}
                       \cup {Floor(HighOf(s)) : s \in Side})
Retainable == {n \in Attainable : \A s \in Side :
                  IF Opened(Receipts)[s] = 0 THEN closed[s] = 0
                  ELSE n * TargetPrice * TolScale >= LowOf(s)}
Preferred  == Min({Floor((SourceAmount(s) - progress.delta[s]) * TolScale) : s \in Side})
Retained   == IF \E n \in Retainable : n <= Preferred
              THEN Max({n \in Retainable : n <= Preferred}) ELSE Max(Retainable)

-----------------------------------------------------------------------------
(* The engine's turn *)

\* start: the plan replaces what it closes within the tolerance and leaves a
\* balanced rest.
Plannable(n, b) == \A s \in Side :
    /\ b[s] \in 1 .. pos["source"][s]
    /\ Within(n * TargetPrice - b[s] * SourcePrice, b[s] * SourcePrice)

\* tick_migration: a plan for the source as booked, and both checks before the
\* send (source_unchanged and the plan made again) find it still.
Planned(n, b) ==
    /\ pos["source"] = progress.remaining
    /\ Balanced(pos["source"]) /\ Balanced(pos["target"])
    /\ n > 0 /\ Plannable(n, b)

Start(n, b) ==
    /\ pc = "idle" /\ ~intent.active /\ enabled
    /\ Planned(n, b)
    /\ Balanced([s \in Side |-> pos["source"][s] - b[s]])
    /\ counters.batches < MaxBatches /\ counters' = [counters EXCEPT !.batches = @ + 1]
    /\ intent' = [NoIntent EXCEPT !.active = TRUE, !.budget = b, !.opening = n, !.base = pos]
    /\ leg' = [s \in Side |-> [receipt |-> "unknown", qty |-> n, exec |-> 0]]
    /\ exch' = [s \in Side |-> NoExch]
    /\ posted' = [r \in Reduction |-> 0]
    /\ pc' = "armed"
    /\ UNCHANGED <<enabled, progress, pos, outside>>

\* tick_migration: somebody else traded the source.
SourceMismatch ==
    /\ pc = "idle" /\ ~intent.active /\ enabled
    /\ pos["source"] # progress.remaining
    /\ enabled' = FALSE
    /\ UNCHANGED <<progress, intent, leg, pc, exch, pos, outside, posted, counters>>

\* Mutant: the batch of a paused account is left alone.
TickPendingEnabled ==
    /\ pc = "idle" /\ intent.active /\ enabled /\ pc' = "query"
    /\ UNCHANGED <<enabled, progress, intent, leg, exch, pos, outside, posted, counters>>

\* Enabled or not, an open batch is reconciled in every turn.
TickPending ==
    /\ pc = "idle" /\ intent.active /\ pc' = "query"
    /\ UNCHANGED <<enabled, progress, intent, leg, exch, pos, outside, posted, counters>>

-----------------------------------------------------------------------------
(* Executor.send *)

InRound == {s \in Side : leg[s].qty > 0}

Post ==
    /\ pc = "armed" /\ pc' = "waiting"
    /\ exch' = [s \in Side |-> IF s \in InRound THEN [NoExch EXCEPT !.state = "flight"] ELSE NoExch]
    /\ posted' = IF intent.role \in Reduction THEN [posted EXCEPT ![intent.role] = @ + 1] ELSE posted
    /\ UNCHANGED <<enabled, progress, intent, leg, pos, outside, counters>>

\* RequestNotSent: the receipts say so before _reduce gives the attempt back.
NotSent ==
    /\ pc = "armed"
    /\ leg' = [s \in Side |-> IF s \in InRound THEN [leg[s] EXCEPT !.receipt = "absent"] ELSE leg[s]]
    /\ pc' = IF intent.role = "open_target" THEN "query" ELSE "refund"
    /\ UNCHANGED <<enabled, progress, intent, exch, pos, outside, posted, counters>>

GiveBack(i) == [i EXCEPT !.attempts[i.role] = Max({0, @ - 1}), !.counted = FALSE]

Refund ==
    /\ pc = "refund" /\ pc' = "idle"
    /\ intent' = GiveBack(intent)
    /\ UNCHANGED <<enabled, progress, leg, exch, pos, outside, posted, counters>>

Row(l, x) == [l EXCEPT !.receipt = IF x.state = "live" THEN "open" ELSE "final", !.exec = x.exec]

\* A rejection counts in the answer to both orders only (see HedgeExecutor).
Decided(s) == exch[s].state \in {"live", "final"} \/ (exch[s].state = "void" /\ InRound = Side)

Answer(told) ==
    /\ pc = "waiting" /\ pc' = "query"
    /\ \A s \in told : s \in InRound /\ Decided(s)
    /\ leg' = [s \in Side |-> IF s \in told THEN Row(leg[s], exch[s]) ELSE leg[s]]
    /\ UNCHANGED <<enabled, progress, intent, exch, pos, outside, posted, counters>>

-----------------------------------------------------------------------------
(* _resolve *)

Final(l)  == \A s \in Side : l[s].receipt \in {"final", "absent"}

\* Mutant: a round that executed nothing counts as one that was not sent.
AbsentIdle(l) == \A s \in InRound : l[s].receipt \in {"final", "absent"} /\ l[s].exec = 0

Absent(l) == \A s \in InRound : l[s].receipt = "absent"

\* attention, in two saves: the intent, then the account.
Attend(i) == intent' = [i EXCEPT !.attention = TRUE] /\ pc' = "pausing"

\* A round that was never sent gives its attempt back here after a crash.
Query(found) ==
    /\ pc = "query"
    /\ \A s \in found : leg[s].receipt \in {"unknown", "open"} /\ exch[s].state \in {"live", "final"}
    /\ leg' = [s \in Side |-> IF s \in found THEN Row(leg[s], exch[s]) ELSE leg[s]]
    /\ LET i == IF intent.counted /\ Absent(leg') THEN GiveBack(intent) ELSE intent IN
       IF Final(leg') THEN pc' = "judge" /\ intent' = i
       ELSE IF intent.late THEN Attend(i)
       ELSE pc' = "idle" /\ intent' = i
    /\ UNCHANGED <<enabled, progress, exch, pos, outside, posted, counters>>

PauseAccount ==
    /\ pc = "pausing" /\ pc' = "idle" /\ enabled' = FALSE
    /\ UNCHANGED <<progress, intent, leg, exch, pos, outside, posted, counters>>

-----------------------------------------------------------------------------
(* _reconcile: one pass of the loop *)

Unjudged == UNCHANGED <<enabled, progress, leg, exch, pos, outside, posted, counters>>

\* The account or the book cannot be read, or shows something unexpected; no
\* budget for it ends the turn without attention.
ReadFails ==
    /\ pc \in {"judge", "reduce"}
    /\ \/ Attend(intent)
       \/ pc' = "idle" /\ UNCHANGED intent
    /\ Unjudged

Mismatch == pc = "judge" /\ ~Agrees /\ Attend(intent) /\ Unjudged

\* _advance, before the reduction it is for is saved.
Advance(phase, next) ==
    /\ intent' = [intent EXCEPT !.phase = phase] /\ pc' = next
    /\ Unjudged

Judging(phases) == pc = "judge" /\ Agrees /\ intent.phase \in phases

Even(q) == \A s, t \in Side : q[s] = q[t]

EvenTarget ==
    /\ Judging({"open_target", "balance_target"}) /\ ~Even(kept)
    /\ Advance("balance_target", "reduce")

PlanSource ==
    /\ Judging({"open_target", "balance_target"}) /\ Even(kept) /\ kept # Zero
    /\ LET nothing == SourcePlan = Zero IN
       /\ intent' = [intent EXCEPT !.planned = SourcePlan,
                                   !.phase = IF nothing THEN "trim_target" ELSE "close_source"]
       /\ pc' = IF nothing THEN "query" ELSE "reduce"
    /\ Unjudged

\* What is still to be closed: the rest of a tail, the smaller side up to the
\* larger one, or the larger rest down to the smaller one.
FullTail == intent.planned = intent.base["source"]

SourceRest ==
    IF FullTail /\ closed # Zero
    THEN [s \in Side |-> intent.planned[s] - closed[s]]
    ELSE [s \in Side |-> Min({Max({closed[t] : t \in Side}), intent.planned[s]}) - closed[s]]

Excess == [s \in Side |-> LET over == pos["source"][s] - Min({pos["source"][t] : t \in Side}) IN
                          Min({over, intent.planned[s] - closed[s]})]

SourceWanted ==
    IF SourceRest # Zero THEN SourceRest
    ELSE IF Balanced(pos["source"]) THEN Zero ELSE Excess

EvenSource ==
    /\ Judging({"close_source", "balance_source"})
    /\ SourceWanted # Zero
    /\ Advance("balance_source", "reduce")

SourceDone ==
    /\ Judging({"close_source", "balance_source"})
    /\ SourceRest = Zero
    /\ IF Balanced(pos["source"]) THEN Advance("trim_target", "query")
       ELSE Excess = Zero /\ Attend(intent) /\ Unjudged

Finished == Acceptable /\ Balanced(pos["target"]) /\ Balanced(pos["source"])

TrimTarget ==
    /\ Judging({"trim_target"})
    /\ ~(Acceptable /\ Balanced(pos["target"]))
    /\ IF Retainable = {} THEN Attend(intent) ELSE pc' = "reduce" /\ UNCHANGED intent
    /\ Unjudged

\* Mutant: the batch ends when the source is done, whatever the target holds.
FinishUntrimmed ==
    /\ \/ Judging({"trim_target"})
       \/ Judging({"open_target", "balance_target"}) /\ kept = Zero
    /\ progress' = [progress EXCEPT !.remaining = pos["source"],
                      !.moved = [s \in Side |-> @[s] + SourceAmount(s)],
                      !.delta = [s \in Side |-> @[s] + TargetAmount(s) - SourceAmount(s)]]
    /\ intent' = NoIntent /\ leg' = NoLegs /\ pc' = "idle"
    /\ UNCHANGED <<enabled, exch, pos, outside, posted, counters>>

\* _finish and complete_migration, one transaction.
Finish ==
    /\ \/ Judging({"trim_target"}) /\ Acceptable /\ Balanced(pos["target"])
       \/ Judging({"open_target", "balance_target"}) /\ kept = Zero
    /\ IF Finished
       THEN /\ progress' = [progress EXCEPT !.remaining = pos["source"],
                              !.moved = [s \in Side |-> @[s] + SourceAmount(s)],
                              !.delta = [s \in Side |-> @[s] + TargetAmount(s) - SourceAmount(s)]]
            /\ intent' = NoIntent /\ leg' = NoLegs /\ pc' = "idle"
       ELSE Attend(intent) /\ UNCHANGED <<progress, leg>>
    /\ UNCHANGED <<enabled, exch, pos, outside, posted, counters>>

-----------------------------------------------------------------------------
(* _reduce *)

Wanted ==
    CASE intent.phase = "balance_target" -> [s \in Side |-> kept[s] - Min({kept[t] : t \in Side})]
      [] intent.phase = "close_source"   -> intent.planned
      [] intent.phase = "balance_source" -> SourceWanted
      [] intent.phase = "trim_target"    -> [s \in Side |-> kept[s] - Retained]
      [] OTHER                           -> Zero

Room(s) == IF SymbolOf(intent.phase) = "source" THEN intent.budget[s] - closed[s] ELSE kept[s]

\* The new round takes the totals of the one before along.
SaveRound(q) ==
    /\ intent' = [intent EXCEPT !.role = intent.phase, !.counted = TRUE, !.attention = FALSE,
                    !.late = FALSE, !.attempts[intent.phase] = @ + 1,
                    !.opened = Opened(Receipts), !.reduced = Reduced(Receipts), !.closed = closed]
    /\ leg' = [s \in Side |-> IF q[s] = 0 THEN NoLeg ELSE [receipt |-> "unknown", qty |-> q[s], exec |-> 0]]
    /\ exch' = [s \in Side |-> NoExch]
    /\ pc' = "armed"
    /\ UNCHANGED <<enabled, progress, pos, outside, posted, counters>>

Reduce(depth) ==
    /\ pc = "reduce"
    /\ LET q == [s \in Side |-> IF Wanted[s] <= 0 THEN 0
                                ELSE Min({Wanted[s], Room(s), pos[SymbolOf(intent.phase)][s], depth})] IN
       IF \/ intent.attempts[intent.phase] >= MaxAttempts
          \/ q = Zero
          \/ \E s \in Side : Wanted[s] > 0 /\ q[s] < 1
       THEN Attend(intent) /\ Unjudged
       ELSE SaveRound(q)

-----------------------------------------------------------------------------
(* The operator, the exchange, time and crashes *)

Enable ==
    /\ pc = "idle" /\ ~intent.active /\ ~enabled /\ enabled' = TRUE
    /\ UNCHANGED <<progress, intent, leg, pc, exch, pos, outside, posted, counters>>

\* update_account with migration off, also while a batch is open.
Stop ==
    /\ pc = "idle" /\ enabled /\ enabled' = FALSE
    /\ UNCHANGED <<progress, intent, leg, pc, exch, pos, outside, posted, counters>>

\* Switched on again, a paused account's migration is a new run.
Restart ==
    /\ pc = "idle" /\ ~intent.active /\ ~enabled
    /\ progress' = NewRun(pos["source"])
    /\ UNCHANGED <<enabled, intent, leg, pc, exch, pos, outside, posted, counters>>

Retry ==
    /\ pc = "idle" /\ intent.active /\ Mishap("retries")
    /\ intent' = [intent EXCEPT !.attention = FALSE, !.attempts = [r \in Reduction |-> 0]]
    /\ posted' = [r \in Reduction |-> 0]
    /\ UNCHANGED <<enabled, progress, leg, pc, exch, pos, outside>>

Change(s, e) == IF intent.role = "open_target" THEN e - exch[s].exec ELSE exch[s].exec - e

\* The order arrives, fills, or is cancelled (by _resolve after ten seconds).
Execute(s, state, e) ==
    /\ exch[s].state \in {"flight", "live"}
    /\ e \in exch[s].exec .. leg[s].qty /\ (e = leg[s].qty => state = "final")
    /\ LET y == SymbolOf(intent.role) IN
       /\ pos[y][s] + Change(s, e) >= 0
       /\ pos' = [pos EXCEPT ![y][s] = @ + Change(s, e)]
    /\ exch' = [exch EXCEPT ![s] = [state |-> state, exec |-> e]]
    /\ UNCHANGED <<enabled, progress, intent, leg, pc, outside, posted, counters>>

Void(s) ==
    /\ exch[s].state = "flight"
    /\ exch' = [exch EXCEPT ![s].state = "void"]
    /\ UNCHANGED <<enabled, progress, intent, leg, pc, pos, outside, posted, counters>>

Manual(y, s, d) ==
    /\ Mishap("manuals") /\ pos[y][s] + d >= 0
    /\ pos' = [pos EXCEPT ![y][s] = @ + d]
    /\ outside' = [outside EXCEPT ![y][s] = @ + d]
    /\ UNCHANGED <<enabled, progress, intent, leg, pc, exch, posted>>

\* Two minutes since the orders of the round were made.
GrowLate ==
    /\ intent.active /\ ~intent.late /\ ~Final(leg)
    /\ intent' = [intent EXCEPT !.late = TRUE]
    /\ UNCHANGED <<enabled, progress, leg, pc, exch, pos, outside, posted, counters>>

Crash ==
    /\ pc # "idle" /\ pc' = "idle" /\ Mishap("crashes")
    /\ UNCHANGED <<enabled, progress, intent, leg, exch, pos, outside, posted>>

-----------------------------------------------------------------------------
Judge ==
    \/ Mismatch \/ EvenTarget \/ PlanSource \/ EvenSource \/ SourceDone \/ TrimTarget \/ Finish
    \/ \E d \in {1, MaxLots} : Reduce(d)

Next ==
    \/ \E n \in 1 .. MaxLots, b \in [Side -> 1 .. MaxLots + 1] : Start(n, b)
    \/ SourceMismatch \/ TickPending \/ Post \/ NotSent \/ Refund
    \/ \E told \in SUBSET Side : Answer(told) \/ Query(told)
    \/ PauseAccount \/ ReadFails \/ Judge
    \/ Enable \/ Stop \/ Restart \/ Retry
    \/ \E s \in Side, st \in {"live", "final"}, e \in 0 .. MaxLots + 1 : Execute(s, st, e)
    \/ \E s \in Side : Void(s)
    \/ \E y \in Symbol, s \in Side, d \in {1, -1} : Manual(y, s, d)
    \/ GrowLate \/ Crash

Spec == Init /\ [][Next]_vars

-----------------------------------------------------------------------------
(* Properties *)

Executed == [s \in Side |-> exch[s].exec]

\* Whatever orders were lost, filled in part or are still under way, the
\* account has never given up more of the source than the target it really
\* holds replaces, within the tolerance.
OpenedFirst ==
    intent.active => \A s \in Side :
        Closed(Executed)[s] * SourcePrice * (TolScale - Tol) <= Kept(Executed)[s] * TargetPrice * TolScale

Own(y) == [s \in Side |-> pos[y][s] - outside[y][s]]

\* A batch ends with nothing alive at the exchange, both symbols hedged by
\* what was really executed, and the run's totals equal to what really
\* happened, within the tolerance.
EndsMatched ==
    ~intent.active =>
        /\ \A s \in Side : exch[s].state \notin {"flight", "live"}
        /\ counters.manuals = 0 =>
              /\ Balanced(pos["source"]) /\ Balanced(pos["target"])
              /\ pos["source"] = progress.remaining
              /\ \A s \in Side :
                    /\ progress.moved[s] = (progress.initial[s] - pos["source"][s]) * SourcePrice
                    /\ Within(progress.delta[s], progress.moved[s])

\* No purpose is given more rounds of orders than the limit, across refunds,
\* crashes and lost answers, until the operator grants new ones.
RoundsBounded == \A r \in Reduction : posted[r] <= MaxAttempts

-----------------------------------------------------------------------------
(* Liveness: the scheduler calls the account again and again, the turn runs   *)
(* on, the request budget is free again and again, reads do not fail for ever *)
(* and time passes.  Nothing is assumed of the exchange.                      *)

Proceed ==
    \/ TickPending \/ Refund \/ PauseAccount \/ Judge
    \/ \E told \in SUBSET Side : Answer(told) \/ Query(told)

FairSpec ==
    /\ Spec
    /\ WF_vars(Proceed) /\ WF_vars(GrowLate) /\ SF_vars(Post)
    /\ <>[][~ReadFails]_vars

\* Every batch ends or is handed to the operator.
BatchSettles == intent.active ~> (~intent.active \/ intent.attention)

=============================================================================

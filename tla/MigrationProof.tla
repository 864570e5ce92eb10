--------------------------- MODULE MigrationProof ---------------------------
(***************************************************************************)
(* Proofs about Migration, for any sides, prices, tolerances, limits,      *)
(* positions, trades by hand and crashes.                                  *)
(***************************************************************************)
EXTENDS Migration, FiniteSetTheorems, WellFoundedInduction, TLAPS

-----------------------------------------------------------------------------
(* The inductive invariant *)

\* So much of the target is worth so much of the source.
Covers(c, k) == c * SourcePrice * (TolScale - Tol) <= k * TargetPrice * TolScale

OfTarget == {"balance_target", "trim_target"}
OfSource == {"close_source", "balance_source"}

\* The purposes that come before a phase, and its own.
Upto(phase) ==
    CASE phase = "open_target"    -> {"open_target"}
      [] phase = "balance_target" -> {"open_target", "balance_target"}
      [] phase = "close_source"   -> {"open_target", "balance_target", "close_source"}
      [] phase = "balance_source" -> {"open_target", "balance_target", "close_source", "balance_source"}
      [] OTHER                    -> Phase

\* Without a batch nothing is left of the last one but finished orders.
Quiet ==
    ~intent.active =>
        /\ intent = NoIntent /\ leg = NoLegs /\ pc = "idle"
        /\ \A s \in Side : exch[s].state \notin {"flight", "live"}

\* The receipt of an order against the exchange's record of it.
OrderOK(l, x) ==
    /\ l.receipt = "unknown" => l.exec = 0 /\ l.qty > 0
    /\ l.receipt = "open" => x.state \in {"live", "final"} /\ l.qty > 0
    /\ l.receipt = "absent" => x.state = "none" /\ l.qty > 0
    /\ l.receipt = "final" => x.state \notin {"flight", "live"} /\ x.exec = l.exec
    /\ x.state \in {"none", "flight", "void"} => x.exec = 0
    /\ l.qty = 0 => x.state = "none"
    /\ l.exec <= x.exec /\ x.exec <= l.qty

Journal ==
    intent.active => /\ \A s \in Side : OrderOK(leg[s], exch[s])
                     /\ \E s \in Side : leg[s].qty > 0

\* Where the turn is: only a turn that has just saved a round posts it, and
\* what it judges is decided.
Control ==
    /\ pc = "armed" => \A s \in Side : /\ exch[s] = NoExch
                                       /\ leg[s].qty > 0 => leg[s].receipt = "unknown"
    /\ pc \in {"judge", "reduce"} => Final(leg)
    /\ pc = "reduce" => intent.phase \in Reduction
    /\ pc = "reduce" /\ intent.phase = "close_source" => intent.role \in {"open_target", "balance_target"}
    /\ pc = "reduce" /\ intent.phase = "trim_target" => Retainable # {}
    /\ pc = "refund" => intent.role \in Reduction

\* The phases in their order; the next one begins when the round is decided.
Stages ==
    intent.active =>
        /\ intent.role \in Upto(intent.phase)
        /\ intent.phase # intent.role => Final(leg)
        /\ intent.role = "open_target" => intent.opened = Zero /\ intent.reduced = Zero /\ ~intent.counted
        /\ intent.role \in {"open_target", "balance_target"} => intent.closed = Zero

\* A round never asks for more than is there, nor for more than the target,
\* whatever becomes of its orders, still covers.
Worth ==
    intent.active => \A s \in Side :
        /\ intent.reduced[s] <= intent.opened[s]
        /\ intent.role \in OfTarget =>
              /\ leg[s].qty <= intent.opened[s] - intent.reduced[s]
              /\ Covers(intent.closed[s], intent.opened[s] - intent.reduced[s] - leg[s].qty)
        /\ intent.role \in OfSource =>
              /\ intent.closed[s] + leg[s].qty <= intent.planned[s]
              /\ Covers(intent.planned[s], intent.opened[s] - intent.reduced[s])
        /\ intent.phase \in OfSource /\ intent.role \notin OfSource => Covers(intent.planned[s], kept[s])

\* Rounds posted against attempts: a saved round that was not posted has its
\* attempt in hand, unless the operator took all of them away.
Attempts ==
    /\ \A r \in Reduction : posted[r] <= MaxAttempts /\ (intent.active => posted[r] <= intent.attempts[r])
    /\ pc \in {"armed", "refund"} /\ intent.role \in Reduction
          => posted[intent.role] < intent.attempts[intent.role]
    /\ intent.active /\ intent.counted /\ Absent(leg)
          => posted[intent.role] = 0 \/ posted[intent.role] < intent.attempts[intent.role]

\* The totals of the run, until somebody trades by hand.
Totals ==
    counters.manuals = 0 =>
        /\ ~intent.active => /\ Balanced(pos["source"]) /\ Balanced(pos["target"])
                             /\ pos["source"] = progress.remaining
        /\ \A s \in Side :
              /\ progress.moved[s] = SourcePrice *
                    (progress.initial[s] - IF intent.active THEN intent.base["source"][s] ELSE pos["source"][s])
              /\ Within(progress.delta[s], progress.moved[s])

MigInv ==
    /\ TypeOK
    /\ Quiet
    /\ Journal
    /\ Control
    /\ Stages
    /\ Worth
    /\ Attempts
    /\ Totals

-----------------------------------------------------------------------------
(* Numbers and types *)

LEMMA Constants ==
  /\ SourcePrice \in Nat \ {0} /\ TargetPrice \in Nat \ {0} /\ TolScale \in Nat \ {0}
  /\ HedgeScale \in Nat \ {0} /\ MaxAttempts \in Nat \ {0} /\ Tol \in Nat /\ TolScale - Tol \in Nat
  /\ MaxLots \in Nat /\ MaxPast \in Nat /\ MaxBatches \in Nat /\ MaxMishaps \in Nat
  BY MigrationConstants

LEMMA Times ==
  ASSUME NEW a \in Int, NEW b \in Int, NEW n \in Nat, a <= b
  PROVE  a * n <= b * n /\ a * n \in Int /\ b * n \in Int
<1>1. (b - a) * n >= 0
  OBVIOUS
<1>2. (b - a) * n = b * n - a * n
  OBVIOUS
<1> QED BY <1>1, <1>2

\* What covers something covers less of it, and more of it covers the same.
LEMMA CoversLess ==
  ASSUME NEW c \in Int, NEW k \in Int, NEW d \in Int, NEW m \in Int,
         Covers(c, k), d <= c, k <= m
  PROVE  Covers(d, m)
<1>1. d * SourcePrice <= c * SourcePrice /\ d * SourcePrice \in Int /\ c * SourcePrice \in Int
  BY Constants, Times
<1>2. d * SourcePrice * (TolScale - Tol) <= c * SourcePrice * (TolScale - Tol)
  BY <1>1, Constants, Times
<1>3. k * TargetPrice <= m * TargetPrice /\ k * TargetPrice \in Int /\ m * TargetPrice \in Int
  BY Constants, Times
<1>4. k * TargetPrice * TolScale <= m * TargetPrice * TolScale
  BY <1>3, Constants, Times
<1>5. /\ d * SourcePrice * (TolScale - Tol) \in Int /\ c * SourcePrice * (TolScale - Tol) \in Int
      /\ k * TargetPrice * TolScale \in Int /\ m * TargetPrice * TolScale \in Int
  BY <1>1, <1>3, Constants
<1> QED BY <1>2, <1>4, <1>5 DEF Covers

LEMMA CoversNothing == \A k \in Nat : Covers(0, k)
<1> SUFFICES ASSUME NEW k \in Nat PROVE Covers(0, k)
  OBVIOUS
<1>1. 0 * SourcePrice = 0 /\ 0 * (TolScale - Tol) = 0
  BY Constants
<1>2. k * TargetPrice \in Nat
  BY Constants
<1>3. k * TargetPrice * TolScale \in Nat
  BY <1>2, Constants
<1> QED BY <1>1, <1>3 DEF Covers

Intents == [active : BOOLEAN, phase : Phase, role : Phase, attention : BOOLEAN, late : BOOLEAN,
            counted : BOOLEAN, budget : Lots, opening : Nat, planned : Lots, base : [Symbol -> Lots],
            attempts : [Reduction -> 0 .. MaxAttempts], opened : Lots, reduced : Lots, closed : Lots]
Legs    == [receipt : {"unknown", "open", "final", "absent"}, qty : Nat, exec : Nat]
Records == [state : {"none", "flight", "live", "final", "void"}, exec : Nat]

LEMMA Typed ==
  ASSUME TypeOK
  PROVE  /\ enabled \in BOOLEAN /\ pc \in Pc /\ intent \in Intents /\ leg \in [Side -> Legs]
         /\ exch \in [Side -> Records] /\ pos \in [Symbol -> Lots] /\ outside \in [Symbol -> [Side -> Int]]
         /\ posted \in [Reduction -> Nat]
         /\ progress \in [initial : Lots, remaining : Lots, moved : Lots, delta : [Side -> Int]]
         /\ counters \in [batches : 0 .. MaxBatches, retries : Nat, manuals : Nat, crashes : Nat]
  BY DEF TypeOK, Intents, Legs, Records

LEMMA Fields ==
  ASSUME TypeOK
  PROVE  /\ intent.active \in BOOLEAN /\ intent.phase \in Phase /\ intent.role \in Phase
         /\ intent.budget \in Lots /\ intent.planned \in Lots /\ intent.opened \in Lots
         /\ intent.reduced \in Lots /\ intent.closed \in Lots /\ intent.counted \in BOOLEAN
         /\ intent.attempts \in [Reduction -> 0 .. MaxAttempts]
         /\ \A s \in Side : /\ leg[s].qty \in Nat /\ leg[s].exec \in Nat /\ exch[s].exec \in Nat
                            /\ leg[s] \in Legs /\ exch[s] \in Records
                            /\ intent.opened[s] \in Nat /\ intent.reduced[s] \in Nat /\ intent.closed[s] \in Nat
                            /\ intent.planned[s] \in Nat /\ intent.budget[s] \in Nat
                            /\ intent.base["source"][s] \in Nat /\ intent.base["target"][s] \in Nat
                            /\ pos["source"][s] \in Nat /\ pos["target"][s] \in Nat
         /\ \A r \in Reduction : posted[r] \in Nat /\ intent.attempts[r] \in Nat
         /\ \A s \in Side : /\ progress.moved[s] \in Nat /\ progress.delta[s] \in Int
                            /\ progress.initial[s] \in Nat /\ progress.remaining[s] \in Nat
         /\ counters.manuals \in Nat
<1> USE Typed DEF Lots, Symbol
<1>1. intent \in Intents /\ posted \in [Reduction -> Nat] /\ MaxAttempts \in Nat
  BY Constants
<1>2. /\ intent.active \in BOOLEAN /\ intent.phase \in Phase /\ intent.role \in Phase
      /\ intent.budget \in Lots /\ intent.planned \in Lots /\ intent.opened \in Lots
      /\ intent.reduced \in Lots /\ intent.closed \in Lots /\ intent.counted \in BOOLEAN
      /\ intent.attempts \in [Reduction -> 0 .. MaxAttempts] /\ intent.base \in [Symbol -> Lots]
  BY <1>1 DEF Intents
<1>3. \A s \in Side : /\ leg[s] \in Legs /\ exch[s] \in Records
  OBVIOUS
<1>4. \A s \in Side : /\ leg[s].qty \in Nat /\ leg[s].exec \in Nat /\ exch[s].exec \in Nat
  BY <1>3 DEF Legs, Records
<1>5. \A r \in Reduction : posted[r] \in Nat /\ intent.attempts[r] \in Nat
  BY <1>1, <1>2
<1>6. \A s \in Side : /\ intent.opened[s] \in Nat /\ intent.reduced[s] \in Nat /\ intent.closed[s] \in Nat
                      /\ intent.planned[s] \in Nat /\ intent.budget[s] \in Nat
                      /\ intent.base["source"][s] \in Nat /\ intent.base["target"][s] \in Nat
                      /\ pos["source"][s] \in Nat /\ pos["target"][s] \in Nat
  BY <1>2
<1>7. \A s \in Side : /\ progress.moved[s] \in Nat /\ progress.delta[s] \in Int
                      /\ progress.initial[s] \in Nat /\ progress.remaining[s] \in Nat
  OBVIOUS
<1>8. counters.manuals \in Nat
  OBVIOUS
<1> QED BY <1>2, <1>3, <1>4, <1>5, <1>6, <1>7, <1>8

\* The totals, by the purpose of the last round.
LEMMA KeptNow ==
  ASSUME NEW s \in Side
  PROVE  /\ closed[s] = intent.closed[s] + (IF intent.role \in OfSource THEN leg[s].exec ELSE 0)
         /\ kept[s] = (intent.opened[s] + (IF intent.role = "open_target" THEN leg[s].exec ELSE 0))
                      - (intent.reduced[s] + (IF intent.role \in OfTarget THEN leg[s].exec ELSE 0))
         /\ Opened(Receipts)[s] = intent.opened[s] + (IF intent.role = "open_target" THEN leg[s].exec ELSE 0)
         /\ Reduced(Receipts)[s] = intent.reduced[s] + (IF intent.role \in OfTarget THEN leg[s].exec ELSE 0)
<1>1. Receipts[s] = leg[s].exec
  BY DEF Receipts
<1>2. Opened(Receipts)[s] = intent.opened[s] + (IF intent.role = "open_target" THEN leg[s].exec ELSE 0)
  BY <1>1 DEF Opened
<1>3. Reduced(Receipts)[s] = intent.reduced[s] + (IF intent.role \in OfTarget THEN leg[s].exec ELSE 0)
  BY <1>1 DEF Reduced, OfTarget
<1>4. closed[s] = intent.closed[s] + (IF SymbolOf(intent.role) = "source" THEN leg[s].exec ELSE 0)
  BY <1>1 DEF closed, Closed
<1>5. SymbolOf(intent.role) = "source" <=> intent.role \in OfSource
  BY DEF SymbolOf, OfSource
<1>6. kept[s] = Opened(Receipts)[s] - Reduced(Receipts)[s]
  BY DEF kept, Kept
<1> QED BY <1>2, <1>3, <1>4, <1>5, <1>6

LEMMA KeptThen ==
  ASSUME NEW s \in Side
  PROVE  kept'[s] = (intent'.opened[s] + (IF intent'.role = "open_target" THEN leg'[s].exec ELSE 0))
                      - (intent'.reduced[s] + (IF intent'.role \in OfTarget THEN leg'[s].exec ELSE 0))
<1>1. Receipts'[s] = leg'[s].exec
  BY DEF Receipts
<1>2. Opened(Receipts)'[s] = intent'.opened[s] + (IF intent'.role = "open_target" THEN leg'[s].exec ELSE 0)
  BY <1>1 DEF Opened
<1>3. Reduced(Receipts)'[s] = intent'.reduced[s] + (IF intent'.role \in OfTarget THEN leg'[s].exec ELSE 0)
  BY <1>1 DEF Reduced, OfTarget
<1>4. kept'[s] = Opened(Receipts)'[s] - Reduced(Receipts)'[s]
  BY DEF kept, Kept
<1> QED BY <1>2, <1>3, <1>4

LEMMA SameBooks ==
  ASSUME UNCHANGED <<intent, leg, progress>>
  PROVE  Retainable' = Retainable
<1>1. closed' = closed /\ kept' = kept /\ Opened(Receipts)' = Opened(Receipts)
  BY DEF closed, kept, Kept, Opened, Reduced, Closed, Receipts
<1>2. \A s \in Side : SourceAmount(s)' = SourceAmount(s)
  BY <1>1 DEF SourceAmount
<1>3. \A s \in Side : LowOf(s)' = LowOf(s) /\ HighOf(s)' = HighOf(s)
  BY <1>2 DEF LowOf, HighOf
<1>4. Attainable' = Attainable
  BY <1>1, <1>3 DEF Attainable, Floor
<1> QED BY <1>1, <1>3, <1>4 DEF Retainable

LEMMA PhaseFacts ==
  /\ Phase = {"open_target", "balance_target", "close_source", "balance_source", "trim_target"}
  /\ Reduction = {"balance_target", "close_source", "balance_source", "trim_target"}
  BY DEF Phase, Reduction

LEMMA KeptTyped ==
  ASSUME TypeOK, NEW s \in Side
  PROVE  kept[s] \in Int /\ closed[s] \in Nat /\ Opened(Receipts)[s] \in Nat /\ Reduced(Receipts)[s] \in Nat
<1>1. /\ intent.opened[s] \in Nat /\ intent.reduced[s] \in Nat /\ intent.closed[s] \in Nat /\ leg[s].exec \in Nat
  BY Fields
<1> QED BY <1>1, KeptNow

\* With its orders decided or not, a batch holds what it kept and no more was
\* closed than was planned.
LEMMA KeptBounds ==
  ASSUME MigInv, intent.active, NEW s \in Side
  PROVE  /\ kept[s] \in Nat /\ closed[s] \in Nat
         /\ kept[s] = Opened(Receipts)[s] - Reduced(Receipts)[s]
         /\ intent.role \in {"open_target", "balance_target"} => closed[s] = 0
         /\ intent.role \in OfSource => closed[s] <= intent.planned[s] /\ Covers(intent.planned[s], kept[s])
         /\ intent.role \notin OfSource => closed[s] = intent.closed[s]
         /\ intent.role \in Phase
<1>1. /\ intent.opened[s] \in Nat /\ intent.reduced[s] \in Nat /\ intent.closed[s] \in Nat
      /\ leg[s].exec \in Nat /\ leg[s].qty \in Nat /\ exch[s].exec \in Nat /\ intent.planned[s] \in Nat
      /\ intent.role \in Phase
  BY Fields DEF MigInv
<1>2. leg[s].exec <= leg[s].qty
  <2>1. OrderOK(leg[s], exch[s])
    BY DEF MigInv, Journal
  <2> QED BY <1>1, <2>1 DEF OrderOK
<1>3. /\ intent.reduced[s] <= intent.opened[s]
      /\ intent.role \in OfTarget => leg[s].qty <= intent.opened[s] - intent.reduced[s]
      /\ intent.role \in OfSource => /\ intent.closed[s] + leg[s].qty <= intent.planned[s]
                                     /\ Covers(intent.planned[s], intent.opened[s] - intent.reduced[s])
      /\ intent.role \in {"open_target", "balance_target"} => intent.closed[s] = 0
  BY DEF MigInv, Worth, Stages, Zero
<1>4. /\ OfSource = {"close_source", "balance_source"} /\ OfTarget = {"balance_target", "trim_target"}
  BY DEF OfSource, OfTarget
<1>5. kept[s] \in Nat
  <2>1. CASE intent.role \in OfTarget
    <3>1. kept[s] = intent.opened[s] - (intent.reduced[s] + leg[s].exec)
      BY <1>1, <1>4, <2>1, KeptNow
    <3> QED BY <1>1, <1>2, <1>3, <2>1, <3>1
  <2>2. CASE intent.role \notin OfTarget
    <3>1. kept[s] \in {intent.opened[s] - intent.reduced[s], (intent.opened[s] + leg[s].exec) - intent.reduced[s]}
      BY <1>1, <2>2, KeptNow
    <3> QED BY <1>1, <1>3, <3>1
  <2> QED BY <2>1, <2>2
<1>6. kept[s] = Opened(Receipts)[s] - Reduced(Receipts)[s] /\ closed[s] \in Nat
  BY <1>1, KeptNow
<1>7. intent.role \in OfSource => closed[s] <= intent.planned[s] /\ Covers(intent.planned[s], kept[s])
  <2> SUFFICES ASSUME intent.role \in OfSource
               PROVE  closed[s] <= intent.planned[s] /\ Covers(intent.planned[s], kept[s])
    OBVIOUS
  <2>1. closed[s] = intent.closed[s] + leg[s].exec
    BY KeptNow
  <2>2. kept[s] = intent.opened[s] - intent.reduced[s]
    BY <1>1, <1>4, KeptNow
  <2> QED BY <1>1, <1>2, <1>3, <2>1, <2>2
<1>8. intent.role \notin OfSource => closed[s] = intent.closed[s]
  BY <1>1, KeptNow
<1>9. intent.role \in {"open_target", "balance_target"} => closed[s] = 0
  BY <1>3, <1>4, <1>8
<1> QED BY <1>1, <1>5, <1>6, <1>7, <1>8, <1>9

-----------------------------------------------------------------------------
(* Steps that leave the orders of the batch alone *)

\* The same batch, up to its attempts, its age and whether it is attended to.
SameBatch ==
    /\ intent' \in Intents
    /\ intent'.active = intent.active /\ intent'.phase = intent.phase /\ intent'.role = intent.role
    /\ intent'.planned = intent.planned /\ intent'.base = intent.base
    /\ intent'.opened = intent.opened /\ intent'.reduced = intent.reduced /\ intent'.closed = intent.closed

LEMMA TotalsStay ==
  ASSUME MigInv, UNCHANGED <<progress, pos>>, counters'.manuals = counters.manuals,
         intent'.active = intent.active, intent'.base = intent.base
  PROVE  Totals'
  BY DEF MigInv, Totals, Balanced, Within

LEMMA FlagInv ==
  ASSUME MigInv, SameBatch, intent'.counted = intent.counted, intent'.attempts = intent.attempts,
         ~intent.active => pc' = pc /\ intent' = intent,
         pc' = pc \/ pc' \in {"idle", "query", "pausing"},
         pc' = "reduce" => intent' = intent /\ UNCHANGED progress,
         enabled' \in BOOLEAN, pos' \in [Symbol -> Lots], outside' \in [Symbol -> [Side -> Int]],
         progress' \in [initial : Lots, remaining : Lots, moved : Lots, delta : [Side -> Int]],
         counters' \in [batches : 0 .. MaxBatches, retries : Nat, manuals : Nat, crashes : Nat],
         UNCHANGED <<leg, exch, posted>>, Totals'
  PROVE  MigInv'
<1> USE DEF SameBatch
<1>1. TypeOK'
  BY Typed DEF MigInv, TypeOK, Intents, Legs, Records, Pc
<1>2. Quiet' /\ Journal'
  BY DEF MigInv, Quiet, Journal
<1>3. Control'
  <2>1. CASE pc' = "reduce"
    <3>1. Retainable' = Retainable /\ pc = "reduce" /\ intent' = intent /\ leg' = leg
      BY <2>1, SameBooks
    <3> QED BY <2>1, <3>1 DEF MigInv, Control, Final
  <2>2. CASE pc' # "reduce"
    BY <2>2 DEF MigInv, Control, Final
  <2> QED BY <2>1, <2>2
<1>4. Stages'
  BY DEF MigInv, Stages, Final
<1>5. Worth'
  <2> SUFFICES ASSUME intent.active, NEW s \in Side
               PROVE  /\ intent.reduced[s] <= intent.opened[s]
                      /\ intent.role \in OfTarget =>
                            /\ leg[s].qty <= intent.opened[s] - intent.reduced[s]
                            /\ Covers(intent.closed[s], intent.opened[s] - intent.reduced[s] - leg[s].qty)
                      /\ intent.role \in OfSource =>
                            /\ intent.closed[s] + leg[s].qty <= intent.planned[s]
                            /\ Covers(intent.planned[s], intent.opened[s] - intent.reduced[s])
                      /\ intent.phase \in OfSource /\ intent.role \notin OfSource => Covers(intent.planned[s], kept'[s])
    BY DEF Worth, Covers
  <2>1. kept'[s] = kept[s]
    BY KeptNow, KeptThen
  <2> QED BY <2>1 DEF MigInv, Worth
<1>6. Attempts'
  BY DEF MigInv, Attempts, Absent, InRound
<1> QED BY <1>1, <1>2, <1>3, <1>4, <1>5, <1>6 DEF MigInv

LEMMA SameFlags ==
  ASSUME MigInv
  PROVE  /\ intent' = intent => SameBatch /\ intent'.counted = intent.counted /\ intent'.attempts = intent.attempts
         /\ \A a, l \in BOOLEAN :
               intent' \in {[intent EXCEPT !.attention = a], [intent EXCEPT !.late = l]}
                 => SameBatch /\ intent'.counted = intent.counted /\ intent'.attempts = intent.attempts
<1>1. intent \in Intents
  BY Typed DEF MigInv
<1> QED BY <1>1 DEF SameBatch, Intents

\* The turn looks at nothing, or hands the batch to the operator.
LEMMA AttendInv ==
  ASSUME MigInv, pc \in {"judge", "reduce"},
         \/ Attend(intent) /\ Unjudged
         \/ pc' = "idle" /\ UNCHANGED intent /\ Unjudged
  PROVE  MigInv'
<1>1. UNCHANGED <<enabled, progress, leg, exch, pos, outside, posted, counters>> /\ pc' \in {"idle", "pausing"}
  BY DEF Attend, Unjudged
<1>2. SameBatch /\ intent'.counted = intent.counted /\ intent'.attempts = intent.attempts
  BY SameFlags DEF Attend
<1>3. intent.active
  BY DEF MigInv, Quiet
<1>4. Totals'
  BY <1>1, <1>2, TotalsStay DEF SameBatch
<1> QED BY <1>1, <1>2, <1>3, <1>4, Typed, FlagInv DEF MigInv

LEMMA QuietStepsInv ==
  ASSUME MigInv,
         \/ SourceMismatch \/ TickPending \/ PauseAccount \/ ReadFails \/ Mismatch
         \/ Enable \/ Stop \/ GrowLate \/ Crash
  PROVE  MigInv'
<1>1. /\ enabled \in BOOLEAN /\ pos \in [Symbol -> Lots] /\ outside \in [Symbol -> [Side -> Int]]
      /\ progress \in [initial : Lots, remaining : Lots, moved : Lots, delta : [Side -> Int]]
      /\ counters \in [batches : 0 .. MaxBatches, retries : Nat, manuals : Nat, crashes : Nat]
  BY Typed DEF MigInv
<1>2. pc # "idle" => intent.active
  BY DEF MigInv, Quiet
<1>3. CASE SourceMismatch \/ TickPending \/ PauseAccount \/ Enable \/ Stop
  <2>1. /\ UNCHANGED <<intent, progress, leg, exch, pos, outside, posted, counters>>
        /\ enabled' \in BOOLEAN /\ (pc' = pc \/ pc' \in {"idle", "query", "pausing"})
        /\ (pc' = "reduce" => pc = "reduce") /\ (~intent.active => pc' = pc)
    BY <1>1, <1>2, <1>3 DEF SourceMismatch, TickPending, PauseAccount, Enable, Stop
  <2>2. SameBatch /\ intent'.counted = intent.counted /\ intent'.attempts = intent.attempts
    BY <2>1, SameFlags
  <2>3. Totals'
    BY <2>1, TotalsStay
  <2> QED BY <1>1, <2>1, <2>2, <2>3, FlagInv
<1>4. CASE ReadFails \/ Mismatch
  BY <1>4, AttendInv DEF ReadFails, Mismatch
<1>5. CASE GrowLate
  <2>1. /\ UNCHANGED <<enabled, progress, leg, pc, exch, pos, outside, posted, counters>>
        /\ intent.active /\ ~Final(leg) /\ intent' = [intent EXCEPT !.late = TRUE]
    BY <1>5 DEF GrowLate
  <2>2. SameBatch /\ intent'.counted = intent.counted /\ intent'.attempts = intent.attempts
    BY <2>1, SameFlags
  <2>3. Totals'
    BY <2>1, <2>2, TotalsStay DEF SameBatch
  <2>4. pc' # "reduce"
    BY <2>1 DEF MigInv, Control
  <2> QED BY <1>1, <2>1, <2>2, <2>3, <2>4, FlagInv
<1>6. CASE Crash
  <2>1. /\ UNCHANGED <<enabled, progress, intent, leg, exch, pos, outside, posted>>
        /\ pc # "idle" /\ pc' = "idle" /\ counters' = [counters EXCEPT !.crashes = @ + 1]
    BY <1>6 DEF Crash, Mishap
  <2>2. SameBatch /\ intent'.counted = intent.counted /\ intent'.attempts = intent.attempts
    BY <2>1, SameFlags
  <2>3. /\ counters' \in [batches : 0 .. MaxBatches, retries : Nat, manuals : Nat, crashes : Nat]
        /\ counters'.manuals = counters.manuals
    BY <1>1, <2>1
  <2>4. Totals'
    BY <2>1, <2>3, TotalsStay
  <2> QED BY <1>1, <1>2, <2>1, <2>2, <2>3, <2>4, FlagInv
<1> QED BY <1>3, <1>4, <1>5, <1>6

\* Without a batch the positions and totals may change by other hands.
LEMMA OutsideInv ==
  ASSUME MigInv, Restart \/ (\E y \in Symbol, s \in Side, d \in {1, -1} : Manual(y, s, d))
  PROVE  MigInv'
<1>1. /\ enabled \in BOOLEAN /\ pos \in [Symbol -> Lots] /\ outside \in [Symbol -> [Side -> Int]]
      /\ progress \in [initial : Lots, remaining : Lots, moved : Lots, delta : [Side -> Int]]
      /\ counters \in [batches : 0 .. MaxBatches, retries : Nat, manuals : Nat, crashes : Nat]
  BY Typed DEF MigInv
<1>2. CASE Restart
  <2>1. /\ UNCHANGED <<enabled, intent, leg, pc, exch, pos, outside, posted, counters>>
        /\ pc = "idle" /\ ~intent.active /\ progress' = NewRun(pos["source"])
    BY <1>2 DEF Restart
  <2>2. SameBatch /\ intent'.counted = intent.counted /\ intent'.attempts = intent.attempts
    BY <2>1, SameFlags
  <2>3. progress' \in [initial : Lots, remaining : Lots, moved : Lots, delta : [Side -> Int]]
    <3>1. pos["source"] \in Lots /\ Zero \in Lots /\ Zero \in [Side -> Int]
      BY <1>1 DEF Symbol, Zero, Lots
    <3> QED BY <2>1, <3>1 DEF NewRun
  <2>4. Totals'
    <3>1. counters.manuals = 0 => Balanced(pos["source"]) /\ Balanced(pos["target"])
      BY <2>1 DEF MigInv, Totals
    <3>2. pos["source"] \in Lots
      BY <1>1 DEF Symbol
    <3>3. progress'.remaining = pos["source"]
      BY <2>1 DEF NewRun
    <3>4. ASSUME NEW s \in Side
          PROVE  /\ progress'.moved[s] = SourcePrice * (progress'.initial[s] - pos["source"][s])
                 /\ Within(progress'.delta[s], progress'.moved[s])
      <4>1. /\ progress'.initial = pos["source"]
            /\ progress'.moved[s] = 0 /\ progress'.delta[s] = 0 /\ pos["source"][s] \in Nat
        BY <2>1, <3>2 DEF NewRun, Zero, Lots
      <4>2. SourcePrice * (pos["source"][s] - pos["source"][s]) = 0 /\ Within(0, 0)
        BY <4>1, Constants DEF Within
      <4> QED BY <4>1, <4>2
    <3> QED BY <2>1, <3>1, <3>3, <3>4 DEF Totals
  <2> QED BY <1>1, <2>1, <2>2, <2>3, <2>4, FlagInv
<1>3. ASSUME NEW y \in Symbol, NEW s \in Side, NEW d \in {1, -1}, Manual(y, s, d)
      PROVE  MigInv'
  <2>1. /\ UNCHANGED <<enabled, progress, intent, leg, pc, exch, posted>>
        /\ counters' = [counters EXCEPT !.manuals = @ + 1] /\ pos[y][s] + d >= 0
        /\ pos' = [pos EXCEPT ![y][s] = @ + d] /\ outside' = [outside EXCEPT ![y][s] = @ + d]
    BY <1>3 DEF Manual, Mishap
  <2>2. SameBatch /\ intent'.counted = intent.counted /\ intent'.attempts = intent.attempts
    BY <2>1, SameFlags
  <2>3. /\ counters' \in [batches : 0 .. MaxBatches, retries : Nat, manuals : Nat, crashes : Nat]
        /\ counters'.manuals # 0
    BY <1>1, <2>1
  <2>4. pos' \in [Symbol -> Lots] /\ outside' \in [Symbol -> [Side -> Int]]
    BY <1>1, <2>1 DEF Lots
  <2>5. Totals'
    BY <2>3 DEF Totals
  <2> QED BY <1>1, <2>1, <2>2, <2>3, <2>4, <2>5, FlagInv
<1> QED BY <1>2, <1>3

-----------------------------------------------------------------------------
(* The smallest and the largest *)

LEMMA LeastNatural ==
  ASSUME NEW T, T \subseteq Nat, T # {}
  PROVE  \E x \in T : \A y \in T : x <= y
<1> DEFINE R == OpToRel(<, Nat)
<1>1. IsWellFoundedOn(R, Nat)
  BY NatLessThanWellFounded
<1>2. \A x, y \in Nat : y < x => <<y, x>> \in R
  BY DEF OpToRel
<1> HIDE DEF R
<1>3. PICK x \in T : \A y \in T : ~(<<y, x>> \in R)
  BY <1>1, WFMin
<1>4. \A y \in T : ~(y < x)
  BY <1>2, <1>3
<1> QED BY <1>4

LEMMA Largest ==
  ASSUME NEW S, S \subseteq Int, S # {}, IsFiniteSet(S)
  PROVE  Max(S) \in S /\ \A y \in S : y <= Max(S)
<1> DEFINE HasMax(X) == \E x \in X : \A y \in X : x >= y
           Bad == {n \in Nat : \E X \in SUBSET S : X # {} /\ Cardinality(X) = n /\ ~HasMax(X)}
<1>1. Bad = {}
  <2> SUFFICES ASSUME Bad # {} PROVE FALSE
    OBVIOUS
  <2>1. PICK n \in Bad : \A m \in Bad : n <= m
    BY LeastNatural
  <2>2. PICK X \in SUBSET S : X # {} /\ Cardinality(X) = n /\ ~HasMax(X)
    BY <2>1
  <2>3. PICK x \in X : TRUE
    BY <2>2
  <2> DEFINE Y == X \ {x}
  <2>4. IsFiniteSet(X) /\ IsFiniteSet(Y) /\ Cardinality(Y) = n - 1 /\ Cardinality(Y) \in Nat /\ n \in Nat
    <3>1. IsFiniteSet(X)
      BY <2>2, FS_Subset
    <3>2. IsFiniteSet(Y) /\ Cardinality(Y) = Cardinality(X) - 1
      BY <2>3, <3>1, FS_RemoveElement
    <3> QED BY <2>1, <2>2, <3>1, <3>2, FS_CardinalityType
  <2>5. CASE Y = {}
    <3>1. \A y \in X : x >= y
      BY <2>2, <2>3, <2>5
    <3> QED BY <2>2, <2>3, <3>1
  <2>6. CASE Y # {}
    <3>1. n - 1 \notin Bad
      BY <2>1, <2>4
    <3>2. HasMax(Y)
      BY <2>2, <2>4, <2>6, <3>1
    <3>3. PICK z \in Y : \A y \in Y : z >= y
      BY <3>2
    <3>4. x \in Int /\ z \in Int /\ z \in X /\ \A y \in X : y \in Int /\ (y = x \/ y \in Y)
      BY <2>2, <2>3, <3>3
    <3>5. CASE x >= z
      <4>1. \A y \in X : x >= y
        BY <3>3, <3>4, <3>5
      <4> QED BY <2>2, <2>3, <4>1
    <3>6. CASE z >= x
      <4>1. \A y \in X : z >= y
        BY <3>3, <3>4, <3>6
      <4> QED BY <2>2, <3>4, <4>1
    <3> QED BY <3>4, <3>5, <3>6
  <2> QED BY <2>5, <2>6
<1>2. Cardinality(S) \in Nat
  BY FS_CardinalityType
<1>3. HasMax(S)
  BY <1>1, <1>2
<1>4. Max(S) \in S /\ \A y \in S : Max(S) >= y
  BY <1>3 DEF Max
<1> QED BY <1>4

LEMMA LargestOfThree ==
  ASSUME NEW a \in Int, NEW b \in Int, NEW c \in Int
  PROVE  Max({a, b, c}) \in Int /\ a <= Max({a, b, c}) /\ b <= Max({a, b, c}) /\ c <= Max({a, b, c})
<1> DEFINE S == {a, b, c}
<1>1. \E x \in S : \A y \in S : x >= y
  <2>1. CASE a >= b /\ a >= c
    BY <2>1
  <2>2. CASE b >= a /\ b >= c
    BY <2>2
  <2>3. CASE c >= a /\ c >= b
    BY <2>3
  <2> QED BY <2>1, <2>2, <2>3
<1>2. Max(S) \in S /\ \A y \in S : Max(S) >= y
  BY <1>1 DEF Max
<1> HIDE DEF S
<1>3. Max(S) \in Int
  BY <1>2 DEF S
<1> QED BY <1>2, <1>3 DEF S


LEMMA Smallest ==
  ASSUME NEW S, S \subseteq Nat, S # {}
  PROVE  Min(S) \in S /\ \A y \in S : Min(S) <= y
  BY LeastNatural DEF Min

LEMMA SmallestOfTwo ==
  ASSUME NEW a \in Int, NEW b \in Int
  PROVE  Min({a, b}) \in {a, b} /\ Min({a, b}) <= a /\ Min({a, b}) <= b
<1>1. \E x \in {a, b} : \A y \in {a, b} : x <= y
  BY a <= b \/ b <= a
<1> QED BY <1>1 DEF Min

-----------------------------------------------------------------------------
(* The batch is judged *)

LEMMA UptoFacts ==
  /\ Upto("open_target") = {"open_target"}
  /\ Upto("balance_target") = {"open_target", "balance_target"}
  /\ Upto("close_source") = {"open_target", "balance_target", "close_source"}
  /\ Upto("balance_source") = {"open_target", "balance_target", "close_source", "balance_source"}
  /\ Upto("trim_target") = Phase
  BY DEF Upto

\* The batch goes on to a phase, perhaps with a new plan for the source.
LEMMA AdvanceInv ==
  ASSUME MigInv, pc = "judge", NEW f \in Phase, NEW p \in Lots,
         intent' = [intent EXCEPT !.phase = f, !.planned = p],
         intent.role \in Upto(f),
         p = intent.planned \/ intent.role \notin OfSource,
         f \in OfSource /\ intent.role \notin OfSource => \A s \in Side : Covers(p[s], kept[s]),
         pc' \in {"reduce", "query"},
         pc' = "reduce" => f \in Reduction /\ f # "trim_target",
         pc' = "reduce" /\ f = "close_source" => intent.role \in {"open_target", "balance_target"},
         Unjudged
  PROVE  MigInv'
<1> USE DEF Unjudged
<1>1. intent \in Intents /\ intent.active
  BY Typed DEF MigInv, Quiet
<1>2. /\ intent' \in Intents /\ intent'.phase = f /\ intent'.planned = p
      /\ intent'.active = intent.active /\ intent'.role = intent.role /\ intent'.base = intent.base
      /\ intent'.opened = intent.opened /\ intent'.reduced = intent.reduced /\ intent'.closed = intent.closed
      /\ intent'.counted = intent.counted /\ intent'.attempts = intent.attempts
  BY <1>1 DEF Intents
<1>3. TypeOK'
  BY <1>2, Typed DEF MigInv, TypeOK, Intents, Legs, Records, Pc
<1>4. Quiet' /\ Journal'
  BY <1>1, <1>2 DEF MigInv, Quiet, Journal
<1>5. Final(leg) /\ leg' = leg
  BY DEF MigInv, Control
<1>6. Control'
  BY <1>2, <1>5 DEF Control, Final
<1>7. Stages'
  BY <1>1, <1>2, <1>5 DEF MigInv, Stages, Final, Upto
<1>8. Worth'
  <2> SUFFICES ASSUME NEW s \in Side
               PROVE  /\ intent.reduced[s] <= intent.opened[s]
                      /\ intent.role \in OfTarget =>
                            /\ leg[s].qty <= intent.opened[s] - intent.reduced[s]
                            /\ Covers(intent.closed[s], intent.opened[s] - intent.reduced[s] - leg[s].qty)
                      /\ intent.role \in OfSource =>
                            /\ intent.closed[s] + leg[s].qty <= p[s]
                            /\ Covers(p[s], intent.opened[s] - intent.reduced[s])
                      /\ f \in OfSource /\ intent.role \notin OfSource => Covers(p[s], kept'[s])
    BY <1>2, <1>5 DEF Worth, Covers
  <2>1. kept'[s] = kept[s]
    BY <1>2, <1>5, KeptNow, KeptThen
  <2> QED BY <1>1, <2>1 DEF MigInv, Worth
<1>9. Attempts'
  BY <1>1, <1>2, <1>5 DEF MigInv, Attempts, Absent, InRound
<1>10. Totals'
  BY <1>2, TotalsStay
<1> QED BY <1>3, <1>4, <1>6, <1>7, <1>8, <1>9, <1>10 DEF MigInv

\* What is within the tolerance of an amount covers it.
LEMMA WithinCovers ==
  ASSUME NEW c \in Nat, NEW k \in Nat, Within(k * TargetPrice - c * SourcePrice, c * SourcePrice)
  PROVE  Covers(c, k)
<1> DEFINE a == c * SourcePrice
           b == k * TargetPrice
<1>1. a \in Nat /\ b \in Nat
  BY Constants
<1>2. 0 - (b - a) * TolScale <= a * Tol
  BY DEF Within
<1> HIDE DEF a, b
<1>3. /\ (b - a) * TolScale = b * TolScale - a * TolScale
      /\ a * (TolScale - Tol) = a * TolScale - a * Tol
      /\ a * TolScale \in Int /\ b * TolScale \in Int /\ a * Tol \in Int
  BY <1>1, Constants
<1>4. a * (TolScale - Tol) <= b * TolScale
  BY <1>2, <1>3
<1> QED BY <1>4 DEF Covers, a, b

\* So is what a price divides.
LEMMA ShareCovers ==
  ASSUME NEW c \in Nat, NEW k \in Nat, c <= (k * TargetPrice) \div SourcePrice
  PROVE  Covers(c, k)
<1> DEFINE b == k * TargetPrice
           n == b \div SourcePrice
<1>1. b \in Nat
  BY Constants
<1> HIDE DEF b
<1>2. n \in Nat /\ n * SourcePrice <= b
  BY <1>1, Constants
<1>3. c <= n
  BY DEF b
<1> HIDE DEF n
<1>4. c * SourcePrice <= b /\ c * SourcePrice \in Nat
  <2>1. c * SourcePrice <= n * SourcePrice /\ n * SourcePrice \in Int /\ c * SourcePrice \in Int
    BY <1>2, <1>3, Constants, Times
  <2>2. c * SourcePrice \in Nat
    BY Constants
  <2> QED BY <1>1, <1>2, <2>1, <2>2
<1>5. c * SourcePrice * (TolScale - Tol) <= b * (TolScale - Tol)
  BY <1>1, <1>4, Constants, Times
<1>6. b * (TolScale - Tol) = b * TolScale - b * Tol /\ b * Tol \in Nat /\ b * TolScale \in Nat
  BY <1>1, Constants
<1>7. c * SourcePrice * (TolScale - Tol) \in Int
  BY <1>4, Constants
<1>8. c * SourcePrice * (TolScale - Tol) <= b * TolScale
  BY <1>5, <1>6, <1>7
<1> QED BY <1>8 DEF Covers, b

\* The plan for the source is covered by what the target kept.
LEMMA PlanCovered ==
  ASSUME MigInv, intent.active
  PROVE  SourcePlan \in Lots /\ \A s \in Side : Covers(SourcePlan[s], kept[s])
<1>1. \A s \in Side : kept[s] \in Nat /\ intent.budget[s] \in Nat
  BY KeptBounds, Fields DEF MigInv
<1>2. \A s \in Side : TargetAmount(s) = kept[s] * TargetPrice
  BY DEF TargetAmount
<1>3. CASE Tail
  <2>1. SourcePlan = intent.budget /\ intent.budget \in Lots
    BY <1>3, Fields DEF SourcePlan, MigInv
  <2>2. ASSUME NEW s \in Side PROVE Covers(intent.budget[s], kept[s])
    <3>1. Within(kept[s] * TargetPrice - intent.budget[s] * SourcePrice, intent.budget[s] * SourcePrice)
      BY <1>2, <1>3 DEF Tail
    <3> QED BY <1>1, <3>1, WithinCovers
  <2> QED BY <2>1, <2>2
<1>4. CASE ~Tail
  <2> DEFINE share(t) == TargetAmount(t) \div SourcePrice
             S == UNION {{intent.budget[t], share(t)} : t \in Side}
  <2>1. \A t \in Side : share(t) \in Nat
    <3> SUFFICES ASSUME NEW t \in Side PROVE TargetAmount(t) \div SourcePrice \in Nat
      OBVIOUS
    <3>1. TargetAmount(t) \in Nat
      BY <1>1, <1>2, Constants
    <3> QED BY <3>1, Constants
  <2>2. S \subseteq Nat /\ S # {} /\ \A t \in Side : share(t) \in S
    BY <1>1, <2>1, MigrationConstants
  <2>3. SourcePlan = [s \in Side |-> Min(S)]
    BY <1>4 DEF SourcePlan
  <2> HIDE DEF S
  <2>4. Min(S) \in Nat /\ \A t \in Side : Min(S) <= share(t)
    BY <2>2, Smallest
  <2>5. ASSUME NEW s \in Side PROVE Covers(Min(S), kept[s])
    <3>1. Min(S) <= (kept[s] * TargetPrice) \div SourcePrice
      BY <1>2, <2>4
    <3> QED BY <1>1, <2>4, <3>1, ShareCovers
  <2> QED BY <2>3, <2>4, <2>5 DEF Lots
<1> QED BY <1>3, <1>4

LEMMA AdvancesInv ==
  ASSUME MigInv, EvenTarget \/ PlanSource \/ EvenSource \/ SourceDone \/ TrimTarget
  PROVE  MigInv'
<1>1. /\ intent \in Intents /\ intent.planned \in Lots /\ intent.role \in Phase /\ intent.phase \in Phase
  BY Typed, Fields DEF MigInv
<1>2. pc = "judge" /\ intent.active
  BY DEF MigInv, Quiet, EvenTarget, PlanSource, EvenSource, SourceDone, TrimTarget, Judging
<1>3. /\ intent.role \in Upto(intent.phase)
      /\ \A s \in Side : intent.phase \in OfSource /\ intent.role \notin OfSource => Covers(intent.planned[s], kept[s])
  BY <1>2 DEF MigInv, Stages, Worth
<1>4. \A f \in Phase : [intent EXCEPT !.phase = f] = [intent EXCEPT !.phase = f, !.planned = intent.planned]
  BY <1>1 DEF Intents
<1>5. CASE EvenTarget
  <2>1. /\ intent' = [intent EXCEPT !.phase = "balance_target"] /\ pc' = "reduce" /\ Unjudged
        /\ intent.phase \in {"open_target", "balance_target"}
    BY <1>5 DEF EvenTarget, Advance, Judging
  <2>2. intent.role \in Upto("balance_target")
    BY <1>3, <2>1, UptoFacts
  <2> QED BY <1>1, <1>2, <1>4, <2>1, <2>2, AdvanceInv, PhaseFacts DEF OfSource
<1>6. CASE PlanSource
  <2>1. /\ intent.phase \in {"open_target", "balance_target"} /\ Unjudged
        /\ \/ intent' = [intent EXCEPT !.planned = SourcePlan, !.phase = "trim_target"] /\ pc' = "query"
           \/ intent' = [intent EXCEPT !.planned = SourcePlan, !.phase = "close_source"] /\ pc' = "reduce"
    BY <1>6 DEF PlanSource, Judging
  <2>2. intent.role \in {"open_target", "balance_target"}
    BY <1>3, <2>1, UptoFacts
  <2>3. SourcePlan \in Lots /\ \A s \in Side : Covers(SourcePlan[s], kept[s])
    BY <1>2, PlanCovered
  <2>4. \A f \in Phase : [intent EXCEPT !.planned = SourcePlan, !.phase = f]
                           = [intent EXCEPT !.phase = f, !.planned = SourcePlan]
    BY <1>1 DEF Intents
  <2>5. CASE intent' = [intent EXCEPT !.planned = SourcePlan, !.phase = "trim_target"] /\ pc' = "query"
    BY <1>2, <2>1, <2>2, <2>3, <2>4, <2>5, AdvanceInv, PhaseFacts, UptoFacts DEF OfSource
  <2>6. CASE intent' = [intent EXCEPT !.planned = SourcePlan, !.phase = "close_source"] /\ pc' = "reduce"
    <3>1. "close_source" \in Phase /\ "close_source" \in Reduction /\ intent.role \in Upto("close_source")
      BY <2>2, PhaseFacts, UptoFacts
    <3>2. intent.role \notin OfSource /\ "close_source" # "trim_target"
      BY <2>2 DEF OfSource
    <3>3. intent' = [intent EXCEPT !.phase = "close_source", !.planned = SourcePlan]
      BY <2>4, <2>6, <3>1
    <3> QED BY <1>2, <2>1, <2>2, <2>3, <2>6, <3>1, <3>2, <3>3, AdvanceInv
  <2> QED BY <2>1, <2>5, <2>6
<1>7. CASE EvenSource
  <2>1. /\ intent' = [intent EXCEPT !.phase = "balance_source"] /\ pc' = "reduce" /\ Unjudged
        /\ intent.phase \in {"close_source", "balance_source"}
    BY <1>7 DEF EvenSource, Advance, Judging
  <2>2. intent.role \in Upto("balance_source") /\ intent.phase \in OfSource
    BY <1>3, <2>1, UptoFacts DEF OfSource
  <2> QED BY <1>1, <1>2, <1>3, <1>4, <2>1, <2>2, AdvanceInv, PhaseFacts
<1>8. CASE SourceDone
  <2>1. CASE Advance("trim_target", "query")
    <3>1. intent' = [intent EXCEPT !.phase = "trim_target"] /\ pc' = "query" /\ Unjudged
      BY <2>1 DEF Advance
    <3>2. "trim_target" \in Phase /\ "trim_target" \notin OfSource /\ intent.role \in Upto("trim_target")
      BY <1>1, PhaseFacts, UptoFacts DEF OfSource
    <3>3. intent' = [intent EXCEPT !.phase = "trim_target", !.planned = intent.planned]
      BY <1>4, <3>1, <3>2
    <3> QED BY <1>1, <1>2, <3>1, <3>2, <3>3, AdvanceInv
  <2>2. CASE Attend(intent) /\ Unjudged
    BY <1>2, <2>2, AttendInv
  <2> QED BY <1>8, <2>1, <2>2 DEF SourceDone
<1>9. CASE TrimTarget
  <2>1. Unjudged /\ intent.phase = "trim_target"
    BY <1>9 DEF TrimTarget, Judging
  <2>2. CASE Attend(intent)
    BY <1>2, <2>1, <2>2, AttendInv
  <2>3. CASE Retainable # {} /\ pc' = "reduce" /\ UNCHANGED intent
    <3>1. UNCHANGED <<enabled, progress, leg, exch, pos, outside, posted, counters, intent>>
      BY <2>1, <2>3 DEF Unjudged
    <3>2. TypeOK'
      BY <2>3, <3>1 DEF MigInv, TypeOK, Pc
    <3>3. Quiet' /\ Journal' /\ Stages'
      BY <1>2, <3>1 DEF MigInv, Quiet, Journal, Stages, Final
    <3>4. Control'
      <4>1. Retainable' # {} /\ Final(leg)
        BY <1>2, <2>3, <3>1, SameBooks DEF MigInv, Control
      <4> QED BY <2>1, <2>3, <3>1, <4>1, PhaseFacts DEF Control, Final
    <3>5. Worth'
      BY <3>1 DEF MigInv, Worth, Covers, kept, Kept, Opened, Reduced, Receipts
    <3>6. Attempts'
      BY <2>3, <3>1 DEF MigInv, Attempts, Absent, InRound
    <3>7. Totals'
      BY <3>1, TotalsStay
    <3> QED BY <3>2, <3>3, <3>4, <3>5, <3>6, <3>7 DEF MigInv
  <2> QED BY <1>9, <2>2, <2>3 DEF TrimTarget
<1> QED BY <1>5, <1>6, <1>7, <1>8, <1>9

-----------------------------------------------------------------------------
(* Receipts *)

\* A row of the exchange makes a receipt that agrees with it.
LEMMA RowOK ==
  ASSUME NEW l \in Legs, NEW x \in Records, OrderOK(l, x), x.state \in {"live", "final", "void"}
  PROVE  /\ Row(l, x) \in Legs /\ Row(l, x).qty = l.qty /\ OrderOK(Row(l, x), x)
         /\ Row(l, x).receipt \in {"open", "final"}
         /\ l.receipt \in {"final", "absent"} => Row(l, x) = l
<1> DEFINE rcpt == IF x.state = "live" THEN "open" ELSE "final"
<1>1. /\ x.exec \in Nat /\ l.qty \in Nat /\ l.exec \in Nat /\ rcpt \in {"open", "final"}
  BY DEF Legs, Records
<1>2. /\ Row(l, x) \in Legs
      /\ Row(l, x).receipt = rcpt /\ Row(l, x).qty = l.qty /\ Row(l, x).exec = x.exec
  BY <1>1 DEF Row, Legs
<1>3. OrderOK(Row(l, x), x)
  BY <1>1, <1>2 DEF OrderOK
<1>4. ASSUME l.receipt \in {"final", "absent"} PROVE Row(l, x) = l
  <2>1. l.receipt = "final" /\ rcpt = "final" /\ l.exec = x.exec
    BY <1>4 DEF OrderOK
  <2>2. [l EXCEPT !.receipt = "final", !.exec = x.exec] = l
    BY <2>1 DEF Legs
  <2> QED BY <2>1, <2>2 DEF Row
<1> QED BY <1>1, <1>2, <1>3, <1>4

\* New receipts that agree with the exchange, for orders that had no final one.
LEMMA ReceiptsInv ==
  ASSUME MigInv, intent.active, SameBatch, intent'.counted => intent.counted,
         leg' \in [Side -> Legs],
         \A s \in Side : /\ leg'[s].qty = leg[s].qty /\ OrderOK(leg'[s], exch[s])
                         /\ leg[s].receipt \in {"final", "absent"} => leg'[s] = leg[s],
         pc' \in {"idle", "query", "judge", "refund", "pausing"},
         pc' = "judge" => Final(leg'), pc' = "refund" => intent.role \in Reduction,
         posted' \in [Reduction -> Nat], Attempts',
         counters' \in [batches : 0 .. MaxBatches, retries : Nat, manuals : Nat, crashes : Nat],
         counters'.manuals = counters.manuals,
         UNCHANGED <<enabled, progress, exch, pos, outside>>
  PROVE  MigInv'
<1> USE DEF SameBatch
<1>1. TypeOK'
  BY Typed DEF MigInv, TypeOK, Intents, Legs, Records, Pc
<1>2. Quiet' /\ Journal'
  BY DEF MigInv, Quiet, Journal
<1>3. Control'
  BY DEF Control, Final
<1>4. Final(leg) => leg' = leg
  <2>1. leg \in [Side -> Legs]
    BY Typed DEF MigInv
  <2> QED BY <2>1 DEF Final
<1>5. Stages'
  BY <1>4 DEF MigInv, Stages, Final
<1>6. Worth'
  <2> SUFFICES ASSUME NEW s \in Side
               PROVE  /\ intent.reduced[s] <= intent.opened[s]
                      /\ intent.role \in OfTarget =>
                            /\ leg[s].qty <= intent.opened[s] - intent.reduced[s]
                            /\ Covers(intent.closed[s], intent.opened[s] - intent.reduced[s] - leg[s].qty)
                      /\ intent.role \in OfSource =>
                            /\ intent.closed[s] + leg[s].qty <= intent.planned[s]
                            /\ Covers(intent.planned[s], intent.opened[s] - intent.reduced[s])
                      /\ intent.phase \in OfSource /\ intent.role \notin OfSource => Covers(intent.planned[s], kept'[s])
    BY DEF Worth, Covers
  <2>1. intent.phase \in OfSource /\ intent.role \notin OfSource => kept'[s] = kept[s]
    BY <1>4, KeptNow, KeptThen DEF MigInv, Stages
  <2> QED BY <2>1 DEF MigInv, Worth
<1>7. Totals'
  BY TotalsStay
<1> QED BY <1>1, <1>2, <1>3, <1>5, <1>6, <1>7 DEF MigInv

\* Attempts that are given back, for a round that was never sent.
LEMMA GivenBack ==
  ASSUME MigInv, intent.role \in Reduction,
         posted[intent.role] = 0 \/ posted[intent.role] < intent.attempts[intent.role]
  PROVE  /\ GiveBack(intent) \in Intents /\ ~GiveBack(intent).counted
         /\ GiveBack(intent).active = intent.active /\ GiveBack(intent).phase = intent.phase
         /\ GiveBack(intent).role = intent.role
         /\ GiveBack(intent).planned = intent.planned /\ GiveBack(intent).base = intent.base
         /\ GiveBack(intent).opened = intent.opened /\ GiveBack(intent).reduced = intent.reduced
         /\ GiveBack(intent).closed = intent.closed
         /\ intent.active => \A r \in Reduction : posted[r] <= GiveBack(intent).attempts[r]
<1> DEFINE a == intent.attempts[intent.role]
           b == Max({0, a - 1})
<1>1. /\ intent \in Intents /\ intent.attempts \in [Reduction -> 0 .. MaxAttempts]
      /\ posted \in [Reduction -> Nat] /\ MaxAttempts \in Nat
  BY Typed, Fields, Constants DEF MigInv
<1>2. a \in 0 .. MaxAttempts /\ posted[intent.role] \in Nat
  BY <1>1
<1>3. \E x \in {0, a - 1} : \A y \in {0, a - 1} : x >= y
  BY <1>2, 0 >= a - 1 \/ a - 1 >= 0
<1>4. b \in {0, a - 1} /\ b >= 0 /\ b >= a - 1
  BY <1>3 DEF Max
<1>5. b \in 0 .. MaxAttempts /\ posted[intent.role] <= b
  BY <1>1, <1>2, <1>4
<1>6. GiveBack(intent) = [intent EXCEPT !.attempts[intent.role] = b, !.counted = FALSE]
  BY DEF GiveBack
<1> HIDE DEF b
<1>7. [intent.attempts EXCEPT ![intent.role] = b] \in [Reduction -> 0 .. MaxAttempts]
  BY <1>1, <1>5
<1>8. /\ GiveBack(intent).attempts = [intent.attempts EXCEPT ![intent.role] = b]
      /\ GiveBack(intent) \in Intents /\ ~GiveBack(intent).counted
      /\ GiveBack(intent).active = intent.active /\ GiveBack(intent).phase = intent.phase
      /\ GiveBack(intent).role = intent.role
      /\ GiveBack(intent).planned = intent.planned /\ GiveBack(intent).base = intent.base
      /\ GiveBack(intent).opened = intent.opened /\ GiveBack(intent).reduced = intent.reduced
      /\ GiveBack(intent).closed = intent.closed
  BY <1>1, <1>6, <1>7 DEF Intents
<1>9. ASSUME intent.active, NEW r \in Reduction PROVE posted[r] <= GiveBack(intent).attempts[r]
  <2>1. posted[r] <= intent.attempts[r]
    BY <1>9 DEF MigInv, Attempts
  <2> QED BY <1>1, <1>5, <1>8, <2>1
<1> QED BY <1>8, <1>9

LEMMA RefundInv == ASSUME MigInv, Refund PROVE MigInv'
<1>1. /\ pc = "refund" /\ pc' = "idle" /\ intent' = GiveBack(intent)
      /\ UNCHANGED <<enabled, progress, leg, exch, pos, outside, posted, counters>>
  BY DEF Refund
<1>2. intent.active /\ intent.role \in Reduction /\ posted[intent.role] < intent.attempts[intent.role]
  BY <1>1 DEF MigInv, Quiet, Control, Attempts
<1>3. /\ SameBatch /\ ~intent'.counted /\ \A r \in Reduction : posted[r] <= intent'.attempts[r]
  BY <1>1, <1>2, GivenBack DEF SameBatch
<1>4. Attempts'
  BY <1>1, <1>3 DEF MigInv, Attempts
<1>5. \A s \in Side : OrderOK(leg[s], exch[s])
  BY <1>2 DEF MigInv, Journal
<1> QED BY <1>1, <1>2, <1>3, <1>4, <1>5, Typed, ReceiptsInv DEF MigInv

LEMMA RetryInv == ASSUME MigInv, Retry PROVE MigInv'
<1> DEFINE none == [r \in Reduction |-> 0]
<1>1. /\ pc = "idle" /\ pc' = "idle" /\ intent.active
      /\ intent' = [intent EXCEPT !.attention = FALSE, !.attempts = none]
      /\ posted' = none /\ counters' = [counters EXCEPT !.retries = @ + 1]
      /\ UNCHANGED <<enabled, progress, leg, exch, pos, outside>>
  BY DEF Retry, Mishap
<1>2. none \in [Reduction -> 0 .. MaxAttempts] /\ none \in [Reduction -> Nat] /\ intent \in Intents
  BY Constants, Typed DEF MigInv
<1>3. \A r \in Reduction : none[r] = 0
  OBVIOUS
<1> HIDE DEF none
<1>4. SameBatch /\ intent'.counted = intent.counted /\ intent'.attempts = none
  BY <1>1, <1>2 DEF SameBatch, Intents
<1>5. Attempts'
  <2>1. intent.active /\ intent.counted => intent.role \in Reduction
    BY PhaseFacts, Fields DEF MigInv, Stages
  <2> QED BY <1>1, <1>2, <1>3, <1>4, <2>1, Constants DEF Attempts, SameBatch
<1>6. \A s \in Side : OrderOK(leg[s], exch[s])
  BY <1>1 DEF MigInv, Journal
<1>7. /\ counters' \in [batches : 0 .. MaxBatches, retries : Nat, manuals : Nat, crashes : Nat]
      /\ counters'.manuals = counters.manuals
  BY <1>1, Typed DEF MigInv
<1> QED BY <1>1, <1>2, <1>4, <1>5, <1>6, <1>7, Typed, ReceiptsInv DEF MigInv

LEMMA NotSentInv == ASSUME MigInv, NotSent PROVE MigInv'
<1> DEFINE Absented(l) == [l EXCEPT !.receipt = "absent"]
<1>1. /\ pc = "armed" /\ pc' = (IF intent.role = "open_target" THEN "query" ELSE "refund")
      /\ leg' = [s \in Side |-> IF s \in InRound THEN Absented(leg[s]) ELSE leg[s]]
      /\ UNCHANGED <<enabled, progress, intent, exch, pos, outside, posted, counters>>
  BY DEF NotSent
<1>2. /\ intent.active /\ intent.role \in Phase
      /\ \A s \in Side : exch[s] = NoExch /\ (leg[s].qty > 0 => leg[s].receipt = "unknown")
  BY <1>1, Fields DEF MigInv, Quiet, Control
<1>3. \A s \in Side : leg[s] \in Legs /\ leg[s].qty \in Nat /\ OrderOK(leg[s], exch[s])
  BY <1>2, Fields DEF MigInv, Journal
<1>4. \A l \in Legs : /\ Absented(l) \in Legs /\ Absented(l).qty = l.qty /\ Absented(l).exec = l.exec
                      /\ Absented(l).receipt = "absent"
  BY DEF Legs
<1> HIDE DEF Absented
<1>5. NoExch.state = "none" /\ NoExch.exec = 0
  BY DEF NoExch
<1>6. ASSUME NEW s \in Side
      PROVE  /\ leg'[s] \in Legs /\ leg'[s].qty = leg[s].qty /\ OrderOK(leg'[s], exch[s])
             /\ leg[s].receipt \in {"final", "absent"} => leg'[s] = leg[s]
  <2>1. CASE s \in InRound
    <3>1. leg[s].qty > 0 /\ leg[s].receipt = "unknown" /\ leg'[s] = Absented(leg[s]) /\ exch[s] = NoExch
      BY <1>1, <1>2, <2>1 DEF InRound
    <3> QED BY <1>3, <1>4, <1>5, <3>1 DEF OrderOK
  <2>2. CASE s \notin InRound
    BY <1>1, <1>3, <2>2
  <2> QED BY <2>1, <2>2
<1>7. leg' \in [Side -> Legs]
  BY <1>1, <1>6
<1>8. SameBatch /\ intent' = intent
  BY <1>1, SameFlags
<1>9. intent.role # "open_target" => intent.role \in Reduction
  BY <1>2, PhaseFacts
<1>10. Attempts'
  <2>1. intent.counted => intent.role \in Reduction
    BY <1>2, <1>9 DEF MigInv, Stages
  <2>2. intent.role \in Reduction => posted[intent.role] < intent.attempts[intent.role]
    BY <1>1 DEF MigInv, Attempts
  <2>3. \A r \in Reduction : posted[r] <= MaxAttempts /\ (intent.active => posted[r] <= intent.attempts[r])
    BY DEF MigInv, Attempts
  <2> QED BY <1>1, <2>1, <2>2, <2>3 DEF Attempts
<1> QED BY <1>1, <1>2, <1>6, <1>7, <1>8, <1>9, <1>10, Typed, ReceiptsInv DEF MigInv

LEMMA AnswerInv == ASSUME MigInv, NEW told \in SUBSET Side, Answer(told) PROVE MigInv'
<1>1. /\ pc = "waiting" /\ pc' = "query" /\ \A s \in told : s \in InRound /\ Decided(s)
      /\ leg' = [s \in Side |-> IF s \in told THEN Row(leg[s], exch[s]) ELSE leg[s]]
      /\ UNCHANGED <<enabled, progress, intent, exch, pos, outside, posted, counters>>
  BY DEF Answer
<1>2. intent.active
  BY <1>1 DEF MigInv, Quiet
<1>3. \A s \in Side : leg[s] \in Legs /\ exch[s] \in Records /\ OrderOK(leg[s], exch[s])
  BY <1>2, Fields DEF MigInv, Journal
<1>4. ASSUME NEW s \in Side
      PROVE  /\ leg'[s] \in Legs /\ leg'[s].qty = leg[s].qty /\ OrderOK(leg'[s], exch[s])
             /\ leg[s].receipt \in {"final", "absent"} => leg'[s] = leg[s]
             /\ leg'[s].receipt = "absent" => leg[s].receipt = "absent"
  <2>1. CASE s \in told
    <3>1. exch[s].state \in {"live", "final", "void"} /\ leg'[s] = Row(leg[s], exch[s])
      BY <1>1, <2>1 DEF Decided
    <3> QED BY <1>3, <3>1, RowOK
  <2>2. CASE s \notin told
    BY <1>1, <1>3, <2>2
  <2> QED BY <2>1, <2>2
<1>5. leg' \in [Side -> Legs]
  BY <1>1, <1>4
<1>6. SameBatch /\ intent' = intent
  BY <1>1, SameFlags
<1>7. Absent(leg)' => Absent(leg)
  BY <1>4 DEF Absent, InRound
<1>8. Attempts'
  BY <1>1, <1>7 DEF MigInv, Attempts
<1> QED BY <1>1, <1>2, <1>4, <1>5, <1>6, <1>8, Typed, ReceiptsInv DEF MigInv

LEMMA QueryInv == ASSUME MigInv, NEW found \in SUBSET Side, Query(found) PROVE MigInv'
<1> DEFINE i == IF intent.counted /\ Absent(leg') THEN GiveBack(intent) ELSE intent
<1>1. /\ pc = "query"
      /\ \A s \in found : leg[s].receipt \in {"unknown", "open"} /\ exch[s].state \in {"live", "final"}
      /\ leg' = [s \in Side |-> IF s \in found THEN Row(leg[s], exch[s]) ELSE leg[s]]
      /\ \/ Final(leg') /\ pc' = "judge" /\ intent' = i
         \/ pc' = "pausing" /\ intent' = [i EXCEPT !.attention = TRUE]
         \/ pc' = "idle" /\ intent' = i
      /\ UNCHANGED <<enabled, progress, exch, pos, outside, posted, counters>>
  BY DEF Query, Attend
<1>2. intent.active /\ intent \in Intents
  BY <1>1, Typed DEF MigInv, Quiet
<1>3. \A s \in Side : leg[s] \in Legs /\ exch[s] \in Records /\ OrderOK(leg[s], exch[s])
  BY <1>2, Fields DEF MigInv, Journal
<1>4. ASSUME NEW s \in Side
      PROVE  /\ leg'[s] \in Legs /\ leg'[s].qty = leg[s].qty /\ OrderOK(leg'[s], exch[s])
             /\ leg[s].receipt \in {"final", "absent"} => leg'[s] = leg[s]
             /\ leg'[s].receipt = "absent" => leg[s].receipt = "absent"
  <2>1. CASE s \in found
    <3>1. exch[s].state \in {"live", "final", "void"} /\ leg'[s] = Row(leg[s], exch[s])
      BY <1>1, <2>1
    <3> QED BY <1>3, <3>1, RowOK
  <2>2. CASE s \notin found
    BY <1>1, <1>3, <2>2
  <2> QED BY <2>1, <2>2
<1>5. leg' \in [Side -> Legs]
  BY <1>1, <1>4
<1>6. Absent(leg') => Absent(leg)
  BY <1>4 DEF Absent, InRound
<1>7. InRound' = InRound
  BY <1>4 DEF InRound
<1>8. intent.counted => intent.role \in Reduction
  BY <1>2, PhaseFacts, Fields DEF MigInv, Stages
<1>9. /\ i \in Intents /\ i.active = intent.active /\ i.phase = intent.phase /\ i.role = intent.role
      /\ i.planned = intent.planned /\ i.base = intent.base /\ i.opened = intent.opened
      /\ i.reduced = intent.reduced /\ i.closed = intent.closed
      /\ i.counted => intent.counted /\ ~Absent(leg')
      /\ \A r \in Reduction : posted[r] <= i.attempts[r]
  <2>1. CASE intent.counted /\ Absent(leg')
    <3>1. posted[intent.role] = 0 \/ posted[intent.role] < intent.attempts[intent.role]
      BY <1>2, <1>6, <2>1 DEF MigInv, Attempts
    <3> QED BY <1>2, <1>8, <2>1, <3>1, GivenBack
  <2>2. CASE ~(intent.counted /\ Absent(leg'))
    BY <1>2, <2>2 DEF MigInv, Attempts
  <2> QED BY <2>1, <2>2
<1> HIDE DEF i
<1>10. /\ SameBatch /\ (intent'.counted => intent.counted /\ ~Absent(leg'))
       /\ \A r \in Reduction : posted[r] <= intent'.attempts[r]
  BY <1>1, <1>9 DEF SameBatch, Intents
<1>11. Absent(leg)' <=> Absent(leg')
  BY <1>7 DEF Absent
<1>12. Attempts'
  BY <1>1, <1>10, <1>11 DEF MigInv, Attempts
<1> QED BY <1>1, <1>2, <1>4, <1>5, <1>10, <1>12, Typed, ReceiptsInv DEF MigInv

-----------------------------------------------------------------------------
(* The exchange *)

\* A round that was saved is posted.
LEMMA PostInv == ASSUME MigInv, Post PROVE MigInv'
<1>1. /\ pc = "armed" /\ pc' = "waiting"
      /\ exch' = [s \in Side |-> IF s \in InRound THEN [NoExch EXCEPT !.state = "flight"] ELSE NoExch]
      /\ posted' = IF intent.role \in Reduction THEN [posted EXCEPT ![intent.role] = @ + 1] ELSE posted
      /\ UNCHANGED <<enabled, progress, intent, leg, pos, outside, counters>>
  BY DEF Post
<1>2. /\ intent.active
      /\ \A s \in Side : exch[s] = NoExch /\ (leg[s].qty > 0 => leg[s].receipt = "unknown")
  BY <1>1 DEF MigInv, Quiet, Control
<1>3. \A s \in Side : leg[s] \in Legs /\ leg[s].qty \in Nat /\ OrderOK(leg[s], exch[s])
  BY <1>2, Fields DEF MigInv, Journal
<1>4. /\ NoExch \in Records /\ [NoExch EXCEPT !.state = "flight"] \in Records
      /\ [NoExch EXCEPT !.state = "flight"].state = "flight" /\ [NoExch EXCEPT !.state = "flight"].exec = 0
      /\ NoExch.state = "none" /\ NoExch.exec = 0
  BY DEF NoExch, Records
<1>5. exch' \in [Side -> Records]
  BY <1>1, <1>4
<1>6. ASSUME NEW s \in Side PROVE OrderOK(leg[s], exch'[s])
  <2>1. CASE s \in InRound
    <3>1. exch'[s] = [NoExch EXCEPT !.state = "flight"] /\ leg[s].qty > 0 /\ leg[s].receipt = "unknown"
      BY <1>1, <1>2, <2>1 DEF InRound
    <3> QED BY <1>3, <1>4, <3>1 DEF OrderOK
  <2>2. CASE s \notin InRound
    BY <1>1, <1>2, <1>3, <2>2
  <2> QED BY <2>1, <2>2
<1>7. posted \in [Reduction -> Nat] /\ posted' \in [Reduction -> Nat]
  BY <1>1, Typed DEF MigInv
<1>8. TypeOK'
  BY <1>1, <1>5, <1>7, Typed DEF MigInv, TypeOK, Legs, Records, Pc
<1>9. Quiet' /\ Journal' /\ Control' /\ Stages'
  BY <1>1, <1>2, <1>6 DEF MigInv, Quiet, Journal, Control, Stages, Final
<1>10. Worth'
  BY <1>1 DEF MigInv, Worth, Covers, kept, Kept, Opened, Reduced, Receipts
<1>11. Attempts'
  <2>1. PICK s \in Side : leg[s].qty > 0 /\ leg[s].receipt = "unknown"
    BY <1>2 DEF MigInv, Journal
  <2>2. ~Absent(leg)'
    BY <1>1, <2>1 DEF Absent, InRound
  <2>3. ASSUME NEW r \in Reduction PROVE posted'[r] <= MaxAttempts /\ posted'[r] <= intent.attempts[r]
    <3>1. /\ posted[r] <= MaxAttempts /\ posted[r] <= intent.attempts[r]
          /\ posted[r] \in Nat /\ intent.attempts[r] \in 0 .. MaxAttempts /\ MaxAttempts \in Nat
      BY <1>2, Fields, Constants DEF MigInv, Attempts
    <3>2. CASE r = intent.role
      <4>1. posted[r] < intent.attempts[r] /\ posted'[r] = posted[r] + 1
        BY <1>1, <1>7, <3>2 DEF MigInv, Attempts
      <4> QED BY <3>1, <4>1
    <3>3. CASE r # intent.role
      BY <1>1, <1>7, <3>1, <3>3
    <3> QED BY <3>2, <3>3
  <2> QED BY <1>1, <2>2, <2>3 DEF Attempts
<1>12. Totals'
  BY <1>1, TotalsStay
<1> QED BY <1>8, <1>9, <1>10, <1>11, <1>12 DEF MigInv

\* The record of an order that is alive changes.
LEMMA RecordInv ==
  ASSUME MigInv, NEW s \in Side, NEW x \in Records, exch[s].state \in {"flight", "live"},
         exch' = [exch EXCEPT ![s] = x], OrderOK(leg[s], x),
         pos' \in [Symbol -> Lots],
         UNCHANGED <<enabled, progress, intent, leg, pc, outside, posted, counters>>
  PROVE  MigInv'
<1>1. intent.active
  BY DEF MigInv, Quiet
<1>2. pc # "armed"
  BY DEF MigInv, Control, NoExch
<1>3. exch' \in [Side -> Records] /\ exch \in [Side -> Records]
  BY Typed DEF MigInv
<1>4. TypeOK'
  BY <1>3, Typed DEF MigInv, TypeOK, Legs, Records
<1>5. Quiet' /\ Stages'
  BY <1>1 DEF MigInv, Quiet, Stages, Final
<1>6. Journal'
  <2>1. \A t \in Side : OrderOK(leg[t], exch'[t])
    BY <1>1, <1>3 DEF MigInv, Journal
  <2> QED BY <1>1, <2>1 DEF MigInv, Journal
<1>7. Control'
  <2>1. Retainable' = Retainable
    BY SameBooks
  <2> QED BY <1>2, <2>1 DEF MigInv, Control, Final
<1>8. Worth'
  BY DEF MigInv, Worth, Covers, kept, Kept, Opened, Reduced, Receipts
<1>9. Attempts'
  BY DEF MigInv, Attempts, Absent, InRound
<1>10. Totals'
  BY <1>1 DEF MigInv, Totals, Within
<1> QED BY <1>4, <1>5, <1>6, <1>7, <1>8, <1>9, <1>10 DEF MigInv

LEMMA ExecuteInv ==
  ASSUME MigInv, NEW s \in Side, NEW st \in {"live", "final"}, NEW e \in 0 .. MaxLots + 1, Execute(s, st, e)
  PROVE  MigInv'
<1> DEFINE x == [state |-> st, exec |-> e]
           y == SymbolOf(intent.role)
           p == pos[y][s] + Change(s, e)
<1>1. /\ exch[s].state \in {"flight", "live"} /\ e \in exch[s].exec .. leg[s].qty
      /\ p >= 0 /\ pos' = [pos EXCEPT ![y][s] = p] /\ exch' = [exch EXCEPT ![s] = x]
      /\ UNCHANGED <<enabled, progress, intent, leg, pc, outside, posted, counters>>
  BY DEF Execute
<1>2. /\ leg[s] \in Legs /\ exch[s] \in Records /\ leg[s].qty \in Nat /\ leg[s].exec \in Nat
      /\ exch[s].exec \in Nat /\ pos \in [Symbol -> Lots] /\ pos["source"][s] \in Nat /\ pos["target"][s] \in Nat
  BY Fields, Typed DEF MigInv
<1>3. OrderOK(leg[s], exch[s])
  BY <1>1 DEF MigInv, Quiet, Journal
<1>4. e \in Nat /\ x \in Records /\ x.state = st /\ x.exec = e
  BY Constants DEF Records
<1>5. y \in Symbol /\ Change(s, e) \in Int /\ p \in Nat
  BY <1>1, <1>2, <1>4 DEF Symbol, SymbolOf, Change
<1> HIDE DEF x, y, p
<1>6. OrderOK(leg[s], x)
  BY <1>1, <1>2, <1>3, <1>4 DEF OrderOK, Legs
<1>7. pos' \in [Symbol -> Lots]
  BY <1>1, <1>2, <1>5 DEF Lots
<1> QED BY <1>1, <1>4, <1>6, <1>7, RecordInv

LEMMA VoidInv == ASSUME MigInv, NEW s \in Side, Void(s) PROVE MigInv'
<1> DEFINE x == [exch[s] EXCEPT !.state = "void"]
<1>1. /\ exch[s].state = "flight" /\ exch' = [exch EXCEPT ![s] = x]
      /\ UNCHANGED <<enabled, progress, intent, leg, pc, pos, outside, posted, counters>>
  BY DEF Void
<1>2. leg[s] \in Legs /\ exch[s] \in Records /\ pos \in [Symbol -> Lots]
  BY Fields, Typed DEF MigInv
<1>3. OrderOK(leg[s], exch[s])
  BY <1>1 DEF MigInv, Quiet, Journal
<1>4. x \in Records /\ x.state = "void" /\ x.exec = exch[s].exec
  BY <1>2 DEF Records
<1> HIDE DEF x
<1>5. OrderOK(leg[s], x)
  BY <1>1, <1>2, <1>3, <1>4 DEF OrderOK, Legs
<1> QED BY <1>1, <1>2, <1>4, <1>5, RecordInv

-----------------------------------------------------------------------------
(* A batch begins and ends *)

LEMMA Blank ==
  /\ NoIntent \in Intents /\ ~NoIntent.active /\ NoIntent.role = "open_target" /\ NoIntent.phase = "open_target"
  /\ ~NoIntent.counted /\ NoIntent.closed = Zero /\ NoIntent.opened = Zero /\ NoIntent.reduced = Zero
  /\ NoIntent.attempts = [r \in Reduction |-> 0]
  /\ NoLegs \in [Side -> Legs] /\ Zero \in Lots /\ NoExch \in Records /\ NoExch.state = "none" /\ NoExch.exec = 0
  /\ \A n \in Nat : [receipt |-> "unknown", qty |-> n, exec |-> 0] \in Legs
<1>1. Zero \in Lots
  BY DEF Zero, Lots
<1>2. [r \in Reduction |-> 0] \in [Reduction -> 0 .. MaxAttempts]
  BY Constants
<1>3. [y \in Symbol |-> Zero] \in [Symbol -> Lots] /\ "open_target" \in Phase
  BY <1>1, PhaseFacts
<1>4. NoIntent \in Intents
  BY <1>1, <1>2, <1>3 DEF NoIntent, Intents
<1>5. NoLegs \in [Side -> Legs] /\ NoExch \in Records
  BY DEF NoLegs, NoLeg, Legs, NoExch, Records
<1>6. /\ ~NoIntent.active /\ NoIntent.role = "open_target" /\ NoIntent.phase = "open_target"
      /\ ~NoIntent.counted /\ NoIntent.closed = Zero /\ NoIntent.opened = Zero /\ NoIntent.reduced = Zero
      /\ NoIntent.attempts = [r \in Reduction |-> 0]
  BY DEF NoIntent
<1>7. NoExch.state = "none" /\ NoExch.exec = 0 /\ \A n \in Nat : [receipt |-> "unknown", qty |-> n, exec |-> 0] \in Legs
  BY DEF NoExch, Legs
<1> QED BY <1>1, <1>4, <1>5, <1>6, <1>7

LEMMA StartInv ==
  ASSUME MigInv, NEW n \in 1 .. MaxLots, NEW b \in [Side -> 1 .. MaxLots + 1], Start(n, b)
  PROVE  MigInv'
<1> DEFINE order == [receipt |-> "unknown", qty |-> n, exec |-> 0]
<1>1. /\ pc = "idle" /\ pc' = "armed" /\ ~intent.active
      /\ intent' = [NoIntent EXCEPT !.active = TRUE, !.budget = b, !.opening = n, !.base = pos]
      /\ leg' = [s \in Side |-> order] /\ exch' = [s \in Side |-> NoExch]
      /\ posted' = [r \in Reduction |-> 0]
      /\ counters' = [counters EXCEPT !.batches = @ + 1] /\ counters.batches < MaxBatches
      /\ UNCHANGED <<enabled, progress, pos, outside>>
  BY DEF Start
<1>2. n \in Nat /\ n > 0 /\ b \in Lots
  BY Constants DEF Lots
<1>3. order \in Legs /\ order.receipt = "unknown" /\ order.qty = n /\ order.exec = 0
  BY <1>2, Blank
<1>4. /\ pos \in [Symbol -> Lots] /\ enabled \in BOOLEAN /\ outside \in [Symbol -> [Side -> Int]]
      /\ progress \in [initial : Lots, remaining : Lots, moved : Lots, delta : [Side -> Int]]
      /\ counters \in [batches : 0 .. MaxBatches, retries : Nat, manuals : Nat, crashes : Nat]
  BY Typed DEF MigInv
<1>5. /\ intent' \in Intents /\ intent'.active /\ intent'.base = pos
      /\ intent'.role = "open_target" /\ intent'.phase = "open_target" /\ ~intent'.counted
      /\ intent'.opened = Zero /\ intent'.reduced = Zero /\ intent'.closed = Zero
      /\ intent'.attempts = [r \in Reduction |-> 0]
  BY <1>1, <1>2, <1>4, Blank DEF Intents
<1> HIDE DEF order
<1>6. leg' \in [Side -> Legs] /\ exch' \in [Side -> Records] /\ posted' \in [Reduction -> Nat]
  BY <1>1, <1>3, Blank
<1>7. /\ counters' \in [batches : 0 .. MaxBatches, retries : Nat, manuals : Nat, crashes : Nat]
      /\ counters'.manuals = counters.manuals
  BY <1>1, <1>4, Constants
<1>8. TypeOK'
  BY <1>1, <1>4, <1>5, <1>6, <1>7 DEF TypeOK, Intents, Legs, Records, Pc
<1>9. Quiet' /\ Journal'
  <2>1. \A s \in Side : OrderOK(leg'[s], exch'[s]) /\ leg'[s].qty > 0
    BY <1>1, <1>2, <1>3, Blank DEF OrderOK
  <2> QED BY <1>5, <2>1, MigrationConstants DEF Quiet, Journal
<1>10. Control'
  BY <1>1, <1>3 DEF Control
<1>11. Stages'
  BY <1>5, UptoFacts DEF Stages
<1>12. Worth'
  <2>1. \A s \in Side : Zero[s] = 0
    BY DEF Zero
  <2>2. "open_target" \notin OfTarget /\ "open_target" \notin OfSource
    BY DEF OfTarget, OfSource
  <2> QED BY <1>5, <2>1, <2>2 DEF Worth
<1>13. Attempts'
  BY <1>1, <1>5, Constants, PhaseFacts DEF Attempts
<1>14. Totals'
  <2>1. counters.manuals = 0 => \A s \in Side :
           /\ progress.moved[s] = SourcePrice * (progress.initial[s] - pos["source"][s])
           /\ Within(progress.delta[s], progress.moved[s])
    BY <1>1 DEF MigInv, Totals
  <2> QED BY <1>1, <1>5, <1>7, <2>1 DEF Totals
<1> QED BY <1>8, <1>9, <1>10, <1>11, <1>12, <1>13, <1>14 DEF MigInv

LEMMA FinishInv == ASSUME MigInv, Finish PROVE MigInv'
<1>1. /\ pc = "judge" /\ Agrees
      /\ UNCHANGED <<enabled, exch, pos, outside, posted, counters>>
  BY DEF Finish, Judging
<1>2. intent.active /\ Final(leg)
  BY <1>1 DEF MigInv, Quiet, Control
<1>3. CASE ~Finished
  BY <1>1, <1>3, AttendInv DEF Finish, Unjudged
<1>4. CASE Finished
  <2> DEFINE m == [s \in Side |-> progress.moved[s] + SourceAmount(s)]
             d == [s \in Side |-> progress.delta[s] + TargetAmount(s) - SourceAmount(s)]
  <2>1. /\ progress' = [progress EXCEPT !.remaining = pos["source"], !.moved = m, !.delta = d]
        /\ intent' = NoIntent /\ leg' = NoLegs /\ pc' = "idle"
    BY <1>4 DEF Finish
  <2>2. /\ enabled \in BOOLEAN /\ exch \in [Side -> Records] /\ pos \in [Symbol -> Lots]
        /\ outside \in [Symbol -> [Side -> Int]] /\ posted \in [Reduction -> Nat]
        /\ progress \in [initial : Lots, remaining : Lots, moved : Lots, delta : [Side -> Int]]
        /\ counters \in [batches : 0 .. MaxBatches, retries : Nat, manuals : Nat, crashes : Nat]
    BY Typed DEF MigInv
  <2>3. ASSUME NEW s \in Side
        PROVE  /\ SourceAmount(s) = closed[s] * SourcePrice /\ closed[s] \in Nat
               /\ SourceAmount(s) \in Nat /\ TargetAmount(s) \in Int
               /\ progress.moved[s] \in Nat /\ progress.delta[s] \in Int /\ progress.initial[s] \in Nat
               /\ intent.base["source"][s] \in Nat /\ pos["source"][s] \in Nat
    <3>1. kept[s] \in Nat /\ closed[s] \in Nat
      BY <1>2, KeptBounds
    <3>2. closed[s] * SourcePrice \in Nat /\ kept[s] * TargetPrice \in Int
      BY <3>1, Constants
    <3> QED BY <3>1, <3>2, Fields DEF MigInv, SourceAmount, TargetAmount
  <2>4. /\ m \in Lots /\ d \in [Side -> Int]
        /\ \A s \in Side : /\ m[s] = progress.moved[s] + SourceAmount(s)
                           /\ d[s] = progress.delta[s] + TargetAmount(s) - SourceAmount(s)
    BY <2>3 DEF Lots
  <2> HIDE DEF m, d
  <2>5. /\ progress' \in [initial : Lots, remaining : Lots, moved : Lots, delta : [Side -> Int]]
        /\ progress'.initial = progress.initial /\ progress'.remaining = pos["source"]
        /\ progress'.moved = m /\ progress'.delta = d
    BY <2>1, <2>2, <2>4 DEF Symbol
  <2>6. TypeOK'
    BY <1>1, <2>1, <2>2, <2>5, Blank DEF TypeOK, Intents, Legs, Records, Pc
  <2>7. Quiet'
    <3>1. ASSUME NEW s \in Side PROVE exch[s].state \notin {"flight", "live"}
      <4>1. leg[s].receipt \in {"final", "absent"} /\ OrderOK(leg[s], exch[s])
        BY <1>2 DEF MigInv, Journal, Final
      <4> QED BY <4>1 DEF OrderOK
    <3> QED BY <1>1, <2>1, <3>1 DEF Quiet
  <2>8. Journal' /\ Stages' /\ Worth'
    BY <2>1, Blank DEF Journal, Stages, Worth
  <2>9. Control'
    BY <2>1 DEF Control
  <2>10. Attempts'
    BY <1>1, <2>1, Blank DEF MigInv, Attempts
  <2>11. Totals'
    <3>1. Balanced(pos["source"]) /\ Balanced(pos["target"])
      BY <1>4 DEF Finished
    <3>2. ASSUME counters.manuals = 0, NEW s \in Side
          PROVE  /\ m[s] = SourcePrice * (progress.initial[s] - pos["source"][s])
                 /\ Within(d[s], m[s])
      <4>1. progress.moved[s] = SourcePrice * (progress.initial[s] - intent.base["source"][s])
        BY <1>2, <3>2 DEF MigInv, Totals
      <4>2. pos["source"][s] = intent.base["source"][s] - closed[s]
        BY <1>1 DEF Agrees
      <4>3. SourcePrice * (progress.initial[s] - intent.base["source"][s]) + closed[s] * SourcePrice
              = SourcePrice * (progress.initial[s] - (intent.base["source"][s] - closed[s]))
        BY <2>3, Constants
      <4>4. m[s] = SourcePrice * (progress.initial[s] - pos["source"][s])
        BY <2>3, <2>4, <4>1, <4>2, <4>3
      <4>5. Within(progress.delta[s] + TargetAmount(s) - SourceAmount(s), progress.moved[s] + SourceAmount(s))
        BY <1>4 DEF Finished, Acceptable
      <4> QED BY <2>4, <4>4, <4>5
    <3> QED BY <1>1, <2>1, <2>5, <3>1, <3>2, Blank DEF Totals
  <2> QED BY <2>6, <2>7, <2>8, <2>9, <2>10, <2>11 DEF MigInv
<1> QED BY <1>3, <1>4

-----------------------------------------------------------------------------
(* A reduction is saved *)

LEMMA SmallestOfFour ==
  ASSUME NEW a \in Int, NEW b \in Int, NEW c \in Int, NEW d \in Int
  PROVE  LET m == Min({a, b, c, d}) IN m \in Int /\ m <= a /\ m <= b /\ m <= c /\ m <= d
<1> DEFINE S == {a, b, c, d}
<1>1. \E x \in S : \A y \in S : x <= y
  <2>1. CASE a <= b /\ a <= c /\ a <= d
    BY <2>1
  <2>2. CASE b <= a /\ b <= c /\ b <= d
    BY <2>2
  <2>3. CASE c <= a /\ c <= b /\ c <= d
    BY <2>3
  <2>4. CASE d <= a /\ d <= b /\ d <= c
    BY <2>4
  <2> QED BY <2>1, <2>2, <2>3, <2>4
<1>2. Min(S) \in S /\ \A y \in S : Min(S) <= y
  BY <1>1 DEF Min
<1>3. S \subseteq Int /\ a \in S /\ b \in S /\ c \in S /\ d \in S
  OBVIOUS
<1> HIDE DEF S
<1>4. Min(S) \in Int /\ Min(S) <= a /\ Min(S) <= b /\ Min(S) <= c /\ Min(S) <= d
  BY <1>2, <1>3
<1> QED BY <1>4 DEF S

\* No more of the source is asked for than the plan leaves.
LEMMA SourceAsked ==
  ASSUME MigInv, intent.active, intent.role \in Upto("balance_source"), NEW s \in Side
  PROVE  /\ closed[s] <= intent.planned[s]
         /\ SourceWanted[s] \in Int /\ SourceWanted[s] <= intent.planned[s] - closed[s]
<1>1. \A t \in Side : /\ closed[t] \in Nat /\ intent.planned[t] \in Nat /\ closed[t] <= intent.planned[t]
                      /\ pos["source"][t] \in Nat
  <2> SUFFICES ASSUME NEW t \in Side
               PROVE  /\ closed[t] \in Nat /\ intent.planned[t] \in Nat /\ closed[t] <= intent.planned[t]
                      /\ pos["source"][t] \in Nat
    OBVIOUS
  <2>1. intent.role \in {"open_target", "balance_target"} \/ intent.role \in OfSource
    BY UptoFacts DEF OfSource
  <2>2. intent.planned[t] \in Nat /\ pos["source"][t] \in Nat
    BY Fields DEF MigInv
  <2> QED BY <2>1, <2>2, KeptBounds
<1>2. SourceRest[s] \in Int /\ SourceRest[s] <= intent.planned[s] - closed[s]
  <2>1. CASE FullTail /\ closed # Zero
    BY <1>1, <2>1 DEF SourceRest
  <2>2. CASE ~(FullTail /\ closed # Zero)
    <3> DEFINE S == {closed[t] : t \in Side}
               m == Max(S)
               n == Min({m, intent.planned[s]})
    <3>1. S \subseteq Int /\ S # {} /\ IsFiniteSet(S)
      <4>1. [t \in Side |-> closed[t]] \in Surjection(Side, S)
        BY DEF Surjection
      <4> QED BY <1>1, <4>1, MigrationConstants, FS_Surjection
    <3>2. SourceRest[s] = n - closed[s]
      BY <2>2 DEF SourceRest
    <3> HIDE DEF S
    <3>3. m \in Int
      BY <3>1, Largest
    <3> HIDE DEF m
    <3>4. n \in Int /\ n <= intent.planned[s]
      BY <1>1, <3>3, SmallestOfTwo
    <3> QED BY <1>1, <3>2, <3>4
  <2> QED BY <2>1, <2>2
<1>3. Excess[s] \in Int /\ Excess[s] <= intent.planned[s] - closed[s]
  <2> DEFINE P == {pos["source"][t] : t \in Side}
             over == pos["source"][s] - Min(P)
             n == Min({over, intent.planned[s] - closed[s]})
  <2>1. P \subseteq Nat /\ P # {}
    BY <1>1
  <2>2. Excess[s] = n
    BY DEF Excess
  <2> HIDE DEF P
  <2>3. Min(P) \in Nat
    BY <2>1, Smallest
  <2>4. over \in Int /\ intent.planned[s] - closed[s] \in Int
    BY <1>1, <2>3
  <2> HIDE DEF over
  <2>5. n \in {over, intent.planned[s] - closed[s]} /\ n <= intent.planned[s] - closed[s]
    BY <2>4, SmallestOfTwo
  <2> QED BY <2>2, <2>4, <2>5
<1>4. Zero[s] = 0
  BY DEF Zero
<1>5. SourceWanted \in {SourceRest, Zero, Excess}
  BY DEF SourceWanted
<1> QED BY <1>1, <1>2, <1>3, <1>4, <1>5

\* What is retained is there on every side, and covers what was closed.
LEMMA RetainedCovers ==
  ASSUME MigInv, intent.active, Retainable # {}, NEW s \in Side
  PROVE  Retained \in Nat /\ Retained <= kept[s] /\ Covers(closed[s], Retained)
<1> DEFINE S == {IF Opened(Receipts)[t] = 0 THEN 0 ELSE kept[t] : t \in Side} \cup {Floor(HighOf(t)) : t \in Side}
<1>1. \A t \in Side : /\ kept[t] \in Nat /\ closed[t] \in Nat /\ Opened(Receipts)[t] \in Nat
                      /\ progress.moved[t] \in Nat /\ progress.delta[t] \in Int
  BY KeptBounds, KeptTyped, Fields DEF MigInv
<1>2. S \subseteq Nat /\ S # {} /\ Min(S) \in S /\ \A x \in S : Min(S) <= x
  <2>1. ASSUME NEW t \in Side PROVE Floor(HighOf(t)) \in Nat
    <3>1. /\ SourceAmount(t) \in Nat /\ Tol \in Nat /\ TolScale \in Nat /\ TargetPrice * TolScale \in Nat \ {0}
      BY <1>1, Constants DEF SourceAmount
    <3>2. /\ SourceAmount(t) * (TolScale + Tol) \in Int
          /\ (SourceAmount(t) - progress.delta[t]) * TolScale + (progress.moved[t] + SourceAmount(t)) * Tol \in Int
      BY <1>1, <3>1
    <3>3. HighOf(t) \in Int
      BY <3>2, SmallestOfTwo DEF HighOf
    <3> QED BY <3>1, <3>3 DEF Floor
  <2>2. S \subseteq Nat /\ S # {}
    BY <1>1, <2>1
  <2> HIDE DEF S
  <2> QED BY <2>2, Smallest
<1>3. Retained \in Retainable
  <2>1. Retainable \subseteq Int /\ IsFiniteSet(Retainable)
    <3>1. Attainable = 0 .. Min(S) /\ Min(S) \in Int
      BY <1>2 DEF Attainable
    <3>2. Attainable \subseteq Int /\ IsFiniteSet(Attainable)
      BY <3>1, FS_Interval
    <3>3. Retainable \subseteq Attainable
      BY DEF Retainable
    <3> QED BY <3>2, <3>3, FS_Subset
  <2>2. CASE \E n \in Retainable : n <= Preferred
    <3> DEFINE T == {n \in Retainable : n <= Preferred}
    <3>1. T # {} /\ T \subseteq Retainable /\ Retained = Max(T)
      BY <2>2 DEF Retained
    <3> HIDE DEF T
    <3>2. T \subseteq Int /\ IsFiniteSet(T)
      BY <2>1, <3>1, FS_Subset
    <3>3. Max(T) \in T
      BY <3>1, <3>2, Largest
    <3> QED BY <3>1, <3>3
  <2>3. CASE ~\E n \in Retainable : n <= Preferred
    BY <2>1, <2>3, Largest DEF Retained
  <2> QED BY <2>2, <2>3
<1>4. Retained \in 0 .. Min(S) /\ Retained \in Nat /\ Retained <= Min(S)
  <2>1. Retained \in 0 .. Min(S)
    BY <1>3 DEF Retainable, Attainable
  <2> HIDE DEF S
  <2> QED BY <1>2, <2>1
<1>5. Retained <= IF Opened(Receipts)[s] = 0 THEN 0 ELSE kept[s]
  <2> DEFINE x == IF Opened(Receipts)[s] = 0 THEN 0 ELSE kept[s]
  <2>1. x \in S
    OBVIOUS
  <2> HIDE DEF S, x
  <2>2. x \in Nat /\ Min(S) \in Nat /\ Min(S) <= x
    BY <1>2, <2>1
  <2>3. Retained <= x
    BY <1>4, <2>2
  <2> QED BY <2>3 DEF x
<1>6. Retained <= kept[s]
  BY <1>1, <1>4, <1>5
<1>7. CASE Opened(Receipts)[s] = 0
  <2>1. closed[s] = 0
    BY <1>3, <1>7 DEF Retainable
  <2> QED BY <1>4, <1>6, <2>1, CoversNothing
<1>8. CASE Opened(Receipts)[s] # 0
  <2>1. Retained * TargetPrice * TolScale >= LowOf(s)
    BY <1>3, <1>8 DEF Retainable
  <2>2. SourceAmount(s) \in Nat /\ SourceAmount(s) = closed[s] * SourcePrice
    BY <1>1, Constants DEF SourceAmount
  <2>3. /\ SourceAmount(s) * (TolScale - Tol) \in Int
        /\ (SourceAmount(s) - progress.delta[s]) * TolScale - (progress.moved[s] + SourceAmount(s)) * Tol \in Int
    BY <1>1, <2>2, Constants
  <2>4. LowOf(s) \in Int /\ SourceAmount(s) * (TolScale - Tol) <= LowOf(s)
    <3> DEFINE z == 0
               a == SourceAmount(s) * (TolScale - Tol)
               b == (SourceAmount(s) - progress.delta[s]) * TolScale - (progress.moved[s] + SourceAmount(s)) * Tol
    <3>1. LowOf(s) = Max({z, a, b}) /\ z \in Int /\ a \in Int /\ b \in Int
      BY <2>3 DEF LowOf
    <3> HIDE DEF z, a, b
    <3>2. Max({z, a, b}) \in Int /\ a <= Max({z, a, b})
      BY <3>1, LargestOfThree
    <3> QED BY <3>1, <3>2 DEF a
  <2>5. Retained * TargetPrice * TolScale \in Int
    <3>1. Retained * TargetPrice \in Int
      BY <1>4, Constants
    <3> QED BY <3>1, Constants
  <2>6. SourceAmount(s) * (TolScale - Tol) <= Retained * TargetPrice * TolScale
    BY <2>1, <2>3, <2>4, <2>5
  <2> QED BY <1>4, <1>6, <2>2, <2>6 DEF Covers
<1> QED BY <1>4, <1>6, <1>7, <1>8


LEMMA WantedTyped ==
  ASSUME MigInv, pc = "reduce", NEW s \in Side
  PROVE  Wanted[s] \in Int
<1>1. intent.active /\ intent.phase \in Reduction /\ intent.role \in Upto(intent.phase)
  <2>1. intent.active
    BY DEF MigInv, Quiet
  <2> QED BY <2>1 DEF MigInv, Control, Stages
<1>2. \A t \in Side : kept[t] \in Nat /\ intent.planned[t] \in Nat
  BY <1>1, KeptBounds, Fields DEF MigInv
<1>3. CASE intent.phase = "balance_target"
  <2> DEFINE S == {kept[t] : t \in Side}
  <2>1. S \subseteq Nat /\ S # {} /\ Wanted[s] = kept[s] - Min(S)
    BY <1>2, <1>3 DEF Wanted
  <2> HIDE DEF S
  <2>2. Min(S) \in Nat
    BY <2>1, Smallest
  <2> QED BY <1>2, <2>1, <2>2
<1>4. CASE intent.phase = "trim_target"
  <2>1. Retained \in Nat
    BY <1>1, <1>4, RetainedCovers DEF MigInv, Control
  <2>2. Wanted[s] = kept[s] - Retained
    BY <1>4 DEF Wanted
  <2> QED BY <1>2, <2>1, <2>2
<1>5. CASE intent.phase = "close_source"
  BY <1>2, <1>5 DEF Wanted
<1>6. CASE intent.phase = "balance_source"
  <2>1. Wanted[s] = SourceWanted[s]
    BY <1>6 DEF Wanted
  <2> QED BY <1>1, <1>6, <2>1, SourceAsked
<1> QED BY <1>1, <1>3, <1>4, <1>5, <1>6, PhaseFacts

\* What a reduction asks for, and what it may be cut down to.
LEMMA AskedCovers ==
  ASSUME MigInv, pc = "reduce", NEW s \in Side, NEW q \in Nat, q = 0 \/ q <= Wanted[s]
  PROVE  /\ intent.phase \in OfTarget /\ q <= kept[s] => Covers(closed[s], kept[s] - q)
         /\ intent.phase \in OfSource => closed[s] + q <= intent.planned[s]
<1>1. /\ intent.active /\ intent.role \in Upto(intent.phase)
      /\ kept[s] \in Nat /\ closed[s] \in Nat /\ intent.planned[s] \in Nat
      /\ intent.role \in {"open_target", "balance_target"} => closed[s] = 0
  <2>1. intent.active
    BY DEF MigInv, Quiet
  <2> QED BY <2>1, KeptBounds, Fields DEF MigInv, Stages
<1>2. CASE intent.phase = "balance_target"
  <2>1. closed[s] = 0
    BY <1>1, <1>2, UptoFacts
  <2>2. q <= kept[s] => kept[s] - q \in Nat
    BY <1>1
  <2> QED BY <1>2, <2>1, <2>2, CoversNothing DEF OfSource
<1>3. CASE intent.phase = "trim_target"
  <2>1. Retained \in Nat /\ Retained <= kept[s] /\ Covers(closed[s], Retained)
    BY <1>1, <1>3, RetainedCovers DEF MigInv, Control
  <2>2. Wanted[s] = kept[s] - Retained
    BY <1>3 DEF Wanted
  <2>3. Retained <= kept[s] - q /\ kept[s] - q \in Int
    BY <1>1, <2>1, <2>2
  <2>4. Covers(closed[s], kept[s] - q)
    BY <1>1, <2>1, <2>3, CoversLess
  <2> QED BY <1>3, <2>4 DEF OfSource
<1>4. CASE intent.phase = "close_source"
  <2>1. closed[s] = 0 /\ Wanted[s] = intent.planned[s]
    BY <1>1, <1>4 DEF MigInv, Control, Wanted
  <2> QED BY <1>1, <1>4, <2>1 DEF OfTarget
<1>5. CASE intent.phase = "balance_source"
  <2>1. Wanted[s] = SourceWanted[s]
    BY <1>5 DEF Wanted
  <2>2. closed[s] <= intent.planned[s] /\ SourceWanted[s] \in Int /\ SourceWanted[s] <= intent.planned[s] - closed[s]
    BY <1>1, <1>5, SourceAsked
  <2> QED BY <1>1, <1>5, <2>1, <2>2 DEF OfTarget
<1> QED BY <1>2, <1>3, <1>4, <1>5 DEF OfTarget, OfSource

LEMMA SaveRoundInv ==
  ASSUME MigInv, pc = "reduce", intent.attempts[intent.phase] < MaxAttempts, NEW q \in Lots, q # Zero,
         \A s \in Side : /\ q[s] = 0 \/ q[s] <= Wanted[s]
                         /\ intent.phase \in OfTarget => q[s] <= kept[s],
         SaveRound(q)
  PROVE  MigInv'
<1> DEFINE f == intent.phase
<1>1. /\ intent.active /\ f \in Reduction /\ intent \in Intents /\ Final(leg)
      /\ intent.role \in Upto(f) /\ intent.role \in Phase
  <2>1. intent.active
    BY DEF MigInv, Quiet
  <2> QED BY <2>1, Typed, Fields DEF MigInv, Control, Stages
<1>2. \A s \in Side : /\ kept[s] \in Nat /\ closed[s] \in Nat /\ q[s] \in Nat
                      /\ Opened(Receipts)[s] \in Nat /\ Reduced(Receipts)[s] \in Nat
                      /\ kept[s] = Opened(Receipts)[s] - Reduced(Receipts)[s]
  <2>1. \A s \in Side : q[s] \in Nat
    BY DEF Lots
  <2> QED BY <1>1, <2>1, KeptBounds, KeptTyped DEF MigInv
<1>3. Opened(Receipts) \in Lots /\ Reduced(Receipts) \in Lots /\ closed \in Lots
  <2>1. /\ Opened(Receipts) = [s \in Side |-> Opened(Receipts)[s]]
        /\ Reduced(Receipts) = [s \in Side |-> Reduced(Receipts)[s]]
        /\ closed = [s \in Side |-> closed[s]]
    BY DEF Opened, Reduced, Closed, closed
  <2> QED BY <1>2, <2>1 DEF Lots
<1>4. /\ intent' = [intent EXCEPT !.role = f, !.counted = TRUE, !.attention = FALSE,
                    !.late = FALSE, !.attempts[f] = @ + 1,
                    !.opened = Opened(Receipts), !.reduced = Reduced(Receipts), !.closed = closed]
      /\ leg' = [s \in Side |-> IF q[s] = 0 THEN NoLeg ELSE [receipt |-> "unknown", qty |-> q[s], exec |-> 0]]
      /\ exch' = [s \in Side |-> NoExch] /\ pc' = "armed"
      /\ UNCHANGED <<enabled, progress, pos, outside, posted, counters>>
  BY DEF SaveRound
<1>5. /\ intent.attempts \in [Reduction -> 0 .. MaxAttempts] /\ MaxAttempts \in Nat
      /\ intent.attempts[f] + 1 \in 0 .. MaxAttempts
  <2>1. intent.attempts \in [Reduction -> 0 .. MaxAttempts] /\ MaxAttempts \in Nat
    BY Fields, Constants DEF MigInv
  <2>2. intent.attempts[f] \in 0 .. MaxAttempts
    BY <1>1, <2>1
  <2> QED BY <2>1, <2>2
<1>6. [intent.attempts EXCEPT ![f] = @ + 1] \in [Reduction -> 0 .. MaxAttempts]
  BY <1>5
<1>7. /\ intent' \in Intents /\ intent'.active /\ intent'.phase = f /\ intent'.role = f /\ intent'.counted
      /\ intent'.planned = intent.planned /\ intent'.base = intent.base
      /\ intent'.opened = Opened(Receipts) /\ intent'.reduced = Reduced(Receipts) /\ intent'.closed = closed
      /\ intent'.attempts = [intent.attempts EXCEPT ![f] = @ + 1]
  <2>1. f \in Phase
    BY <1>1, PhaseFacts
  <2> DEFINE a == [intent.attempts EXCEPT ![f] = @ + 1]
             o == Opened(Receipts)
             d == Reduced(Receipts)
  <2>2. intent' = [intent EXCEPT !.role = f, !.counted = TRUE, !.attention = FALSE, !.late = FALSE,
                                 !.attempts = a, !.opened = o, !.reduced = d, !.closed = closed]
    BY <1>1, <1>4 DEF Intents
  <2>3. a \in [Reduction -> 0 .. MaxAttempts] /\ o \in Lots /\ d \in Lots
    BY <1>3, <1>6
  <2>4. intent.phase = f /\ intent.active
    BY <1>1
  <2> HIDE DEF f, a, o, d
  <2>5. /\ intent' \in Intents /\ intent'.active /\ intent'.phase = f /\ intent'.role = f /\ intent'.counted
        /\ intent'.planned = intent.planned /\ intent'.base = intent.base
        /\ intent'.opened = o /\ intent'.reduced = d /\ intent'.closed = closed /\ intent'.attempts = a
    BY <1>1, <1>3, <2>1, <2>2, <2>3, <2>4 DEF Intents
  <2> QED BY <2>5 DEF a, o, d
<1> HIDE DEF f
<1>8. ASSUME NEW s \in Side
      PROVE  /\ leg'[s] \in Legs /\ leg'[s].qty = q[s] /\ (q[s] > 0 => leg'[s].receipt = "unknown")
             /\ leg'[s].exec = 0 /\ (q[s] = 0 => leg'[s].receipt = "final")
             /\ exch'[s] = NoExch
  BY <1>2, <1>4 DEF NoLeg, Legs
<1>9. leg' \in [Side -> Legs] /\ exch' \in [Side -> Records]
  BY <1>4, <1>8, Blank
<1>10. TypeOK'
  BY <1>4, <1>7, <1>9, Typed DEF MigInv, TypeOK, Intents, Legs, Records, Pc
<1>11. PICK t \in Side : q[t] > 0
  <2>1. \E t \in Side : q[t] # 0
    BY DEF Lots, Zero
  <2> QED BY <1>2, <2>1
<1>12. Quiet' /\ Journal'
  <2>1. \A s \in Side : OrderOK(leg'[s], exch'[s])
    BY <1>2, <1>8, Blank DEF OrderOK
  <2>2. leg'[t].qty > 0
    BY <1>8, <1>11
  <2> QED BY <1>7, <2>1, <2>2 DEF Quiet, Journal
<1>13. Control'
  BY <1>4, <1>8 DEF Control
<1>14. Stages'
  <2>1. f \in Upto(f) /\ f # "open_target"
    BY <1>1, PhaseFacts, UptoFacts
  <2>2. ASSUME f = "balance_target" PROVE closed = Zero
    <3>1. \A s \in Side : closed[s] = 0
      BY <1>1, <2>2, UptoFacts, KeptBounds
    <3> QED BY <1>3, <3>1 DEF Zero, Lots
  <2> QED BY <1>7, <2>1, <2>2 DEF Stages
<1>15. Worth'
  <2> SUFFICES ASSUME NEW s \in Side
               PROVE  /\ Reduced(Receipts)[s] <= Opened(Receipts)[s]
                      /\ f \in OfTarget =>
                            /\ q[s] <= Opened(Receipts)[s] - Reduced(Receipts)[s]
                            /\ Covers(closed[s], Opened(Receipts)[s] - Reduced(Receipts)[s] - q[s])
                      /\ f \in OfSource =>
                            /\ closed[s] + q[s] <= intent.planned[s]
                            /\ Covers(intent.planned[s], Opened(Receipts)[s] - Reduced(Receipts)[s])
    BY <1>7, <1>8 DEF Worth, Covers
  <2>1. /\ f \in OfTarget => Covers(closed[s], kept[s] - q[s])
        /\ f \in OfSource => closed[s] + q[s] <= intent.planned[s]
    BY <1>2, AskedCovers DEF f
  <2>2. f \in OfSource => Covers(intent.planned[s], kept[s])
    <3>1. CASE intent.role \in OfSource
      BY <1>1, <3>1, KeptBounds
    <3>2. CASE intent.role \notin OfSource
      BY <1>1, <3>2 DEF MigInv, Worth, f
    <3> QED BY <3>1, <3>2
  <2>3. f \in OfTarget => q[s] <= kept[s]
    BY DEF f
  <2> QED BY <1>2, <2>1, <2>2, <2>3
<1>16. Attempts'
  <2>1. \A r \in Reduction : /\ posted[r] <= MaxAttempts /\ posted[r] <= intent.attempts[r]
                             /\ posted[r] \in Nat /\ intent.attempts[r] \in Nat
    BY <1>1, Fields DEF MigInv, Attempts
  <2>2. \A r \in Reduction : intent'.attempts[r] = IF r = f THEN intent.attempts[r] + 1 ELSE intent.attempts[r]
    BY <1>1, <1>5, <1>7
  <2>3. \A r \in Reduction : posted[r] <= intent'.attempts[r] /\ (r = f => posted[r] < intent'.attempts[r])
    BY <2>1, <2>2
  <2> QED BY <1>1, <1>4, <1>7, <2>1, <2>3 DEF Attempts, f
<1>17. Totals'
  BY <1>1, <1>4, <1>7, TotalsStay
<1> QED BY <1>10, <1>12, <1>13, <1>14, <1>15, <1>16, <1>17 DEF MigInv

LEMMA ReduceInv == ASSUME MigInv, NEW depth \in {1, MaxLots}, Reduce(depth) PROVE MigInv'
<1> DEFINE y == SymbolOf(intent.phase)
           q == [s \in Side |-> IF Wanted[s] <= 0 THEN 0 ELSE Min({Wanted[s], Room(s), pos[y][s], depth})]
<1>1. /\ pc = "reduce"
      /\ \/ Attend(intent) /\ Unjudged
         \/ /\ ~(intent.attempts[intent.phase] >= MaxAttempts) /\ q # Zero
            /\ \A s \in Side : ~(Wanted[s] > 0 /\ q[s] < 1)
            /\ SaveRound(q)
  BY DEF Reduce
<1>2. CASE Attend(intent) /\ Unjudged
  BY <1>1, <1>2, AttendInv
<1>3. CASE SaveRound(q) /\ ~(intent.attempts[intent.phase] >= MaxAttempts) /\ q # Zero
           /\ \A s \in Side : ~(Wanted[s] > 0 /\ q[s] < 1)
  <2>1. intent.active /\ intent.phase \in Reduction
    BY <1>1 DEF MigInv, Quiet, Control
  <2>2. intent.attempts[intent.phase] < MaxAttempts
    BY <1>3, <2>1, Fields, Constants DEF MigInv
  <2>3. ASSUME NEW s \in Side
        PROVE  /\ q[s] \in Nat /\ (q[s] = 0 \/ q[s] <= Wanted[s])
               /\ intent.phase \in OfTarget => q[s] <= kept[s]
    <3>1. /\ kept[s] \in Nat /\ closed[s] \in Nat /\ intent.budget[s] \in Nat /\ intent.planned[s] \in Nat
          /\ pos["source"][s] \in Nat /\ pos["target"][s] \in Nat /\ depth \in Nat
      BY <2>1, KeptBounds, Fields, Constants DEF MigInv
    <3>2. Room(s) \in Int /\ pos[y][s] \in Nat /\ (intent.phase \in OfTarget => Room(s) = kept[s])
      BY <3>1 DEF Room, SymbolOf, OfTarget
    <3>3. Wanted[s] \in Int
      BY <1>1, <2>1, <3>1, WantedTyped
    <3> DEFINE m == Min({Wanted[s], Room(s), pos[y][s], depth})
    <3>4. m \in Int /\ m <= Wanted[s] /\ m <= Room(s)
      <4>1. pos[y][s] \in Int /\ depth \in Int
        BY <3>1, <3>2
      <4> HIDE DEF y
      <4> QED BY <3>2, <3>3, <4>1, SmallestOfFour
    <3>5. q[s] = IF Wanted[s] <= 0 THEN 0 ELSE m
      OBVIOUS
    <3>6. ~(Wanted[s] > 0 /\ q[s] < 1)
      BY <1>3
    <3> HIDE DEF m, q, y
    <3> QED BY <3>1, <3>2, <3>3, <3>4, <3>5, <3>6
  <2>4. q \in Lots
    BY <2>3 DEF Lots
  <2> HIDE DEF q
  <2> QED BY <1>1, <1>3, <2>2, <2>3, <2>4, SaveRoundInv
<1> QED BY <1>1, <1>2, <1>3

-----------------------------------------------------------------------------
(* The theorems *)

LEMMA InitInv == ASSUME Init PROVE MigInv
<1>1. PICK p \in Bases : pos = [y \in Symbol |-> IF y = "source" THEN p ELSE Zero]
  BY DEF Init
<1>2. /\ p \in [Side -> Nat \ {0}] /\ p \in Lots /\ Balanced(p)
      /\ "source" \in Symbol /\ "target" \in Symbol
  BY MigrationConstants, HedgedToBegin DEF Lots, Symbol
<1>3. pos["source"] = p /\ pos["target"] = Zero /\ pos \in [Symbol -> Lots]
  BY <1>1, <1>2, Blank DEF Symbol
<1>4. Balanced(pos["source"]) /\ Balanced(pos["target"])
  <2>1. \A s \in Side : Zero[s] = 0
    BY DEF Zero
  <2>2. Balanced(Zero)
    BY <2>1, Constants DEF Balanced
  <2> QED BY <1>2, <1>3, <2>2
<1>5. /\ progress \in [initial : Lots, remaining : Lots, moved : Lots, delta : [Side -> Int]]
      /\ progress.remaining = p
      /\ \A s \in Side : /\ progress.moved[s] = SourcePrice * (progress.initial[s] - p[s])
                         /\ Within(progress.delta[s], progress.moved[s])
  <2>1. CASE progress = NewRun(p)
    <3>1. Zero \in Lots /\ Zero \in [Side -> Int] /\ \A s \in Side : Zero[s] = 0
      BY DEF Zero, Lots
    <3>2. /\ progress.initial = p /\ progress.remaining = p /\ progress.moved = Zero /\ progress.delta = Zero
          /\ progress \in [initial : Lots, remaining : Lots, moved : Lots, delta : [Side -> Int]]
      BY <1>2, <2>1, <3>1 DEF NewRun
    <3>3. ASSUME NEW s \in Side PROVE 0 = SourcePrice * (p[s] - p[s]) /\ Within(0, 0)
      BY <1>2, Constants DEF Within
    <3> QED BY <3>1, <3>2, <3>3
  <2>2. CASE progress \in Past(p)
    <3> DEFINE i == [s \in Side |-> p[s] + MaxPast]
               m == [s \in Side |-> MaxPast * SourcePrice]
    <3>1. PICK d \in [Side -> -MaxPast .. MaxPast] :
             /\ progress = [initial |-> i, remaining |-> p, moved |-> m, delta |-> d]
             /\ \A s \in Side : Within(d[s], MaxPast * SourcePrice)
      BY <2>2 DEF Past
    <3>2. i \in Lots /\ m \in Lots /\ d \in [Side -> Int]
      BY <1>2, Constants DEF Lots
    <3>3. \A s \in Side : m[s] = MaxPast * SourcePrice /\ i[s] = p[s] + MaxPast
      OBVIOUS
    <3> HIDE DEF i, m
    <3>4. /\ progress.initial = i /\ progress.remaining = p /\ progress.moved = m /\ progress.delta = d
          /\ progress \in [initial : Lots, remaining : Lots, moved : Lots, delta : [Side -> Int]]
      BY <1>2, <3>1, <3>2
    <3>5. ASSUME NEW s \in Side PROVE MaxPast * SourcePrice = SourcePrice * ((p[s] + MaxPast) - p[s])
      <4>1. (p[s] + MaxPast) - p[s] = MaxPast
        BY <1>2, Constants
      <4> QED BY <4>1, Constants
    <3> QED BY <3>1, <3>3, <3>4, <3>5
  <2> QED BY <1>3, <2>1, <2>2 DEF Init
<1>6. /\ enabled = FALSE /\ intent = NoIntent /\ leg = NoLegs /\ pc = "idle"
      /\ exch = [s \in Side |-> NoExch]
      /\ outside = [y \in Symbol |-> Zero] /\ posted = [r \in Reduction |-> 0]
      /\ counters = [batches |-> 0, retries |-> 0, manuals |-> 0, crashes |-> 0]
  BY DEF Init
<1>7. TypeOK
  <2>1. Zero \in [Side -> Int]
    BY DEF Zero
  <2>2. /\ exch \in [Side -> Records] /\ outside \in [Symbol -> [Side -> Int]] /\ posted \in [Reduction -> Nat]
        /\ counters \in [batches : 0 .. MaxBatches, retries : Nat, manuals : Nat, crashes : Nat]
    BY <1>6, <2>1, Blank, Constants
  <2> QED BY <1>3, <1>5, <1>6, <2>2, Blank DEF TypeOK, Intents, Legs, Records, Pc
<1>8. Quiet /\ Journal /\ Control /\ Stages /\ Worth
  BY <1>6, Blank DEF Quiet, Journal, Control, Stages, Worth
<1>9. Attempts
  BY <1>6, Blank, Constants DEF Attempts
<1>10. Totals
  BY <1>3, <1>4, <1>5, <1>6, Blank DEF Totals
<1> QED BY <1>7, <1>8, <1>9, <1>10 DEF MigInv

LEMMA StepInv == ASSUME MigInv, [Next]_vars PROVE MigInv'
<1>1. CASE UNCHANGED vars
  <2>1. UNCHANGED <<enabled, progress, intent, leg, pc, exch, pos, outside, posted, counters>>
    BY <1>1 DEF vars
  <2>2. Totals'
    BY <2>1, TotalsStay
  <2> QED BY <2>1, <2>2, SameFlags, FlagInv, Typed DEF MigInv
<1>2. CASE \E n \in 1 .. MaxLots, b \in [Side -> 1 .. MaxLots + 1] : Start(n, b)
  BY <1>2, StartInv
<1>3. CASE SourceMismatch \/ TickPending \/ PauseAccount \/ ReadFails \/ Enable \/ Stop \/ GrowLate \/ Crash
  BY <1>3, QuietStepsInv
<1>4. CASE Post \/ NotSent \/ Refund \/ Retry
  BY <1>4, PostInv, NotSentInv, RefundInv, RetryInv
<1>5. CASE \E told \in SUBSET Side : Answer(told) \/ Query(told)
  BY <1>5, AnswerInv, QueryInv
<1>6. CASE Judge
  <2>1. CASE Mismatch
    BY <2>1, QuietStepsInv
  <2>2. CASE EvenTarget \/ PlanSource \/ EvenSource \/ SourceDone \/ TrimTarget
    BY <2>2, AdvancesInv
  <2>3. CASE Finish
    BY <2>3, FinishInv
  <2>4. CASE \E d \in {1, MaxLots} : Reduce(d)
    BY <2>4, ReduceInv
  <2> QED BY <1>6, <2>1, <2>2, <2>3, <2>4 DEF Judge
<1>7. CASE Restart \/ \E y \in Symbol, s \in Side, d \in {1, -1} : Manual(y, s, d)
  BY <1>7, OutsideInv
<1>8. CASE \E s \in Side, st \in {"live", "final"}, e \in 0 .. MaxLots + 1 : Execute(s, st, e)
  BY <1>8, ExecuteInv
<1>9. CASE \E s \in Side : Void(s)
  BY <1>9, VoidInv
<1> QED BY <1>1, <1>2, <1>3, <1>4, <1>5, <1>6, <1>7, <1>8, <1>9 DEF Next

\* The inductive invariant holds in every reachable state.
THEOREM MigrationInvariance == Spec => []MigInv
<1>1. Init => MigInv
  BY InitInv
<1>2. MigInv /\ [Next]_vars => MigInv'
  BY StepInv
<1> QED BY <1>1, <1>2, PTL DEF Spec

\* What is executed, told or not, is still covered.
LEMMA CoveredNow == ASSUME MigInv PROVE OpenedFirst
<1> SUFFICES ASSUME intent.active, NEW s \in Side
             PROVE  Covers(Closed(Executed)[s], Kept(Executed)[s])
  BY DEF OpenedFirst, Covers
<1>1. /\ intent.opened[s] \in Nat /\ intent.reduced[s] \in Nat /\ intent.closed[s] \in Nat
      /\ intent.planned[s] \in Nat /\ leg[s].qty \in Nat /\ exch[s].exec \in Nat /\ intent.role \in Phase
  BY Fields DEF MigInv
<1>2. exch[s].exec <= leg[s].qty
  <2>1. OrderOK(leg[s], exch[s])
    BY DEF MigInv, Journal
  <2> QED BY <2>1 DEF OrderOK
<1>3. /\ Closed(Executed)[s] = intent.closed[s] + (IF intent.role \in OfSource THEN exch[s].exec ELSE 0)
      /\ Kept(Executed)[s] = (intent.opened[s] + (IF intent.role = "open_target" THEN exch[s].exec ELSE 0))
                             - (intent.reduced[s] + (IF intent.role \in OfTarget THEN exch[s].exec ELSE 0))
  <2>1. SymbolOf(intent.role) = "source" <=> intent.role \in OfSource
    BY DEF SymbolOf, OfSource
  <2>2. Executed[s] = exch[s].exec
    BY DEF Executed
  <2>3. Closed(Executed)[s] = intent.closed[s] + (IF intent.role \in OfSource THEN exch[s].exec ELSE 0)
    BY <2>1, <2>2 DEF Closed
  <2>4. /\ Opened(Executed)[s] = intent.opened[s] + (IF intent.role = "open_target" THEN exch[s].exec ELSE 0)
        /\ Reduced(Executed)[s] = intent.reduced[s] + (IF intent.role \in OfTarget THEN exch[s].exec ELSE 0)
    BY <2>2 DEF Opened, Reduced, OfTarget
  <2>5. Kept(Executed)[s] = Opened(Executed)[s] - Reduced(Executed)[s]
    BY DEF Kept
  <2> QED BY <2>3, <2>4, <2>5
<1>4. /\ intent.reduced[s] <= intent.opened[s]
      /\ intent.role \in OfTarget =>
            /\ leg[s].qty <= intent.opened[s] - intent.reduced[s]
            /\ Covers(intent.closed[s], intent.opened[s] - intent.reduced[s] - leg[s].qty)
      /\ intent.role \in OfSource =>
            /\ intent.closed[s] + leg[s].qty <= intent.planned[s]
            /\ Covers(intent.planned[s], intent.opened[s] - intent.reduced[s])
  BY DEF MigInv, Worth
<1>5. CASE intent.role = "open_target"
  <2>1. intent.role \notin OfTarget /\ intent.role \notin OfSource /\ intent.closed[s] = 0
    BY <1>5 DEF OfTarget, OfSource, MigInv, Stages, Zero
  <2>2. Closed(Executed)[s] = 0 /\ Kept(Executed)[s] \in Nat
    BY <1>1, <1>3, <1>4, <1>5, <2>1
  <2> QED BY <2>2, CoversNothing
<1>6. CASE intent.role \in OfTarget
  <2>1. intent.role # "open_target" /\ intent.role \notin OfSource
    BY <1>6 DEF OfTarget, OfSource
  <2>2. Closed(Executed)[s] = intent.closed[s] /\ Kept(Executed)[s] = intent.opened[s] - (intent.reduced[s] + exch[s].exec)
    BY <1>1, <1>3, <1>6, <2>1
  <2>3. /\ intent.opened[s] - intent.reduced[s] - leg[s].qty <= Kept(Executed)[s]
        /\ Kept(Executed)[s] \in Int /\ intent.opened[s] - intent.reduced[s] - leg[s].qty \in Int
        /\ Closed(Executed)[s] \in Int /\ Closed(Executed)[s] <= intent.closed[s]
    BY <1>1, <1>2, <2>2
  <2> QED BY <1>1, <1>4, <1>6, <2>3, CoversLess
<1>7. CASE intent.role \in OfSource
  <2>1. intent.role # "open_target" /\ intent.role \notin OfTarget
    BY <1>7 DEF OfTarget, OfSource
  <2>2. /\ Closed(Executed)[s] = intent.closed[s] + exch[s].exec
        /\ Kept(Executed)[s] = intent.opened[s] - intent.reduced[s]
    BY <1>1, <1>3, <1>7, <2>1
  <2>3. /\ Closed(Executed)[s] \in Int /\ Closed(Executed)[s] <= intent.planned[s]
        /\ Kept(Executed)[s] \in Int /\ intent.opened[s] - intent.reduced[s] <= Kept(Executed)[s]
        /\ intent.opened[s] - intent.reduced[s] \in Int
    BY <1>1, <1>2, <1>4, <1>7, <2>2
  <2> QED BY <1>1, <1>4, <1>7, <2>3, CoversLess
<1> QED BY <1>1, <1>5, <1>6, <1>7, PhaseFacts DEF OfTarget, OfSource

\* The account never gives up more of the source than the target it really
\* holds replaces, within the tolerance, whatever becomes of the orders.
THEOREM NeverShort == Spec => []OpenedFirst
<1>1. MigInv => OpenedFirst
  BY CoveredNow
<1> QED BY <1>1, MigrationInvariance, PTL

\* A batch ends with no order alive, both symbols hedged, and the run's totals
\* equal to what was really moved, within the tolerance.
THEOREM BatchesEndMatched == Spec => []EndsMatched
<1>1. ASSUME MigInv PROVE EndsMatched
  <2> SUFFICES ASSUME ~intent.active
               PROVE  /\ \A s \in Side : exch[s].state \notin {"flight", "live"}
                      /\ counters.manuals = 0 =>
                            /\ Balanced(pos["source"]) /\ Balanced(pos["target"])
                            /\ pos["source"] = progress.remaining
                            /\ \A s \in Side :
                                  /\ progress.moved[s] = (progress.initial[s] - pos["source"][s]) * SourcePrice
                                  /\ Within(progress.delta[s], progress.moved[s])
    BY DEF EndsMatched
  <2>1. \A s \in Side : exch[s].state \notin {"flight", "live"}
    BY <1>1 DEF MigInv, Quiet
  <2>2. ASSUME counters.manuals = 0, NEW s \in Side
        PROVE  /\ progress.moved[s] = (progress.initial[s] - pos["source"][s]) * SourcePrice
               /\ Within(progress.delta[s], progress.moved[s])
    <3>1. /\ progress.moved[s] = SourcePrice * (progress.initial[s] - pos["source"][s])
          /\ Within(progress.delta[s], progress.moved[s])
      BY <1>1, <2>2 DEF MigInv, Totals
    <3>2. progress.initial[s] \in Nat /\ pos["source"][s] \in Nat
      BY <1>1, Fields DEF MigInv
    <3> QED BY <3>1, <3>2, Constants
  <2>3. counters.manuals = 0 => /\ Balanced(pos["source"]) /\ Balanced(pos["target"])
                                /\ pos["source"] = progress.remaining
    BY <1>1 DEF MigInv, Totals
  <2> QED BY <2>1, <2>2, <2>3
<1>2. MigInv => EndsMatched
  BY <1>1
<1> QED BY <1>2, MigrationInvariance, PTL

\* No purpose gets more rounds of orders than the limit until the operator
\* grants new ones, across refunds, crashes and lost answers.
THEOREM RoundsStayBounded == Spec => []RoundsBounded
<1>1. MigInv => RoundsBounded
  BY DEF MigInv, Attempts, RoundsBounded
<1> QED BY <1>1, MigrationInvariance, PTL

\* The state of a migration is always of its type.
THEOREM MigrationTyped == Spec => []TypeOK
<1>1. MigInv => TypeOK
  BY DEF MigInv
<1> QED BY <1>1, MigrationInvariance, PTL

=============================================================================

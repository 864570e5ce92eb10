------------------------- MODULE HedgeExecutorProof -------------------------
(***************************************************************************)
(* Proofs about HedgeExecutor, for any set of sides and all bounds.        *)
(***************************************************************************)
EXTENDS HedgeExecutorInv, TLAPS

USE DEF Slot, Pc

-----------------------------------------------------------------------------
(* Types and fields *)

LEMMA Types ==
  /\ NoLeg \in Leg /\ NoExch \in Exch /\ Zero \in [Side -> Nat]
  /\ NoIntent \in Intent /\ NoLegs \in [Slot -> [Side -> Leg]] /\ NoPosts \in [Slot -> [Side -> Nat]]
  /\ \A q \in Nat : Order(q) \in Leg
  /\ Lots \subseteq Nat \ {0} /\ Fills \subseteq Nat
<1> USE HedgeAssumption
<1>1. NoLeg \in Leg /\ NoExch \in Exch /\ Zero \in [Side -> Nat]
  BY DEF NoLeg, NoExch, Zero, Leg, Exch
<1>2. NoIntent \in Intent
  BY <1>1 DEF NoIntent, Intent
<1>3. NoLegs \in [Slot -> [Side -> Leg]] /\ NoPosts \in [Slot -> [Side -> Nat]]
  BY <1>1 DEF NoLegs, NoPosts
<1>4. \A q \in Nat : Order(q) \in Leg
  BY DEF Order, Leg
<1>5. Lots \subseteq Nat \ {0} /\ Fills \subseteq Nat
  BY DEF Lots, Fills
<1> QED BY <1>1, <1>2, <1>3, <1>4, <1>5

\* A row of the exchange makes a receipt that agrees with it.
LEMMA RowOK ==
  ASSUME NEW l \in Leg, NEW x \in Exch, OrderOK(l, x), x.state \in {"live", "final", "void"}
  PROVE  /\ Row(l, x) \in Leg /\ Row(l, x).qty = l.qty /\ OrderOK(Row(l, x), x)
<1> DEFINE rcpt == IF x.state = "live" THEN "open" ELSE "final"
<1>1. x.exec \in Nat /\ l.qty \in Nat /\ rcpt \in {"unknown", "open", "final"}
  BY DEF Leg, Exch
<1>2. /\ Row(l, x) \in Leg
      /\ Row(l, x).receipt = rcpt /\ Row(l, x).qty = l.qty /\ Row(l, x).exec = x.exec
  BY <1>1 DEF Row, Leg
<1> QED BY <1>1, <1>2 DEF OrderOK

\* New orders agree with an exchange that has never heard of them.
LEMMA NewOrders ==
  /\ NoLeg.qty = 0 /\ NoLeg.receipt = "final" /\ NoLeg.exec = 0 /\ OrderOK(NoLeg, NoExch)
  /\ NoExch.state = "none" /\ NoExch.exec = 0
  /\ \A q \in Nat : /\ Order(q).qty = q /\ Order(q).receipt = "unknown" /\ Order(q).exec = 0
                    /\ OrderOK(Order(q), NoExch)
  BY DEF NoLeg, NoExch, Order, OrderOK

-----------------------------------------------------------------------------
(* The inductive invariant *)

LEMMA InitInv == Init => IInv
<1> SUFFICES ASSUME Init PROVE IInv
  OBVIOUS
<1> USE HedgeAssumption DEF Active
<1>1. intent.kind = "none" /\ pc = "idle" /\ ~intent.repairing /\ intent.attempts = 0
  BY DEF NoIntent, Init
<1>2. TypeOK
  <2>1. exch \in [Slot -> [Side -> Exch]] /\ posts \in [Slot -> [Side -> Nat]]
    BY Types DEF Init
  <2>2. pos \in [Side -> Nat] /\ outside \in [Side -> Int]
    BY DEF Init
  <2> QED BY <2>1, <2>2, Types DEF TypeOK, Init
<1>3. QuietWhenIdle
  BY DEF QuietWhenIdle, NoExch, Init
<1>4. BatchShape /\ Journal /\ Control /\ RepairBound
  BY <1>1 DEF BatchShape, Journal, Control, RepairBound
<1>5. Attempts
  BY <1>1 DEF Attempts, NoPosts, Zero, Init
<1>6. Books
  <2>1. outside = pos /\ pos \in [Side -> Nat]
    BY <1>2 DEF TypeOK, Init
  <2>2. \A s \in Side : campaign[s] = 0 /\ quantities[s] = 0
    BY DEF Zero, Init
  <2>3. \A s \in Side : pos[s] - outside[s] = 0 + 0 + 0
    BY <2>1
  <2> QED BY <1>1, <2>2, <2>3 DEF Books, Net, Effect
<1> QED BY <1>2, <1>3, <1>4, <1>5, <1>6 DEF IInv

\* What an open batch says of its orders; the turn is only busy with a batch.
LEMMA ActiveFacts ==
  ASSUME IInv
  PROVE  /\ pc # "idle" => Active
         /\ Active => \A k \in Slot, s \in Side : OrderOK(leg[k][s], exch[k][s])
         /\ \A k \in Slot, s \in Side : /\ leg[k][s] \in Leg /\ exch[k][s] \in Exch
                                        /\ leg[k][s].qty \in Nat /\ leg[k][s].exec \in Nat
                                        /\ exch[k][s].exec \in Nat
         /\ intent \in Intent /\ intent.attempts \in Nat
         /\ \A s \in Side : intent.before[s] \in Nat /\ intent.repaired[s] \in Nat
         /\ Round \in Slot
  BY DEF IInv, TypeOK, QuietWhenIdle, Journal, Leg, Exch, Intent, Round

\* The same intent, up to its status, its checks and its age.
SameBatch ==
  /\ intent' \in Intent
  /\ intent'.kind = intent.kind /\ intent'.phase = intent.phase /\ intent'.qty = intent.qty
  /\ intent'.before = intent.before /\ intent'.repaired = intent.repaired
  /\ intent'.repairing = intent.repairing

\* A step that leaves the orders, the exchange and the books alone.
LEMMA QuietStepInv ==
  ASSUME IInv, SameBatch, intent'.attempts = intent.attempts,
         mode' \in {"pair", "cycle"}, enabled' \in BOOLEAN, mismatch' \in BOOLEAN,
         shown' \in [Side -> Nat], mishaps' \in Nat,
         pc' \in Pc, pc' = pc \/ pc' # "armed", pc' = pc \/ pc' # "judge",
         ~Active => pc' = pc /\ intent' = intent,
         UNCHANGED <<ledger, leg, exch, pos, ghosts, started>>
  PROVE  IInv'
<1> USE DEF ledger, ghosts, SameBatch
<1>1. TypeOK'
  BY DEF IInv, TypeOK
<1>2. QuietWhenIdle' /\ BatchShape' /\ Journal'
  BY DEF IInv, QuietWhenIdle, BatchShape, Journal, Active, Expected
<1>3. Control'
  BY DEF IInv, Control, Round, AllFinal
<1>4. RepairBound'
  BY DEF IInv, RepairBound, Active, Signed
<1>5. Attempts'
  BY DEF IInv, Attempts, Round
<1>6. Books'
  BY DEF IInv, Books, Net, Effect, Signed, Active
<1> QED BY <1>1, <1>2, <1>3, <1>4, <1>5, <1>6 DEF IInv

\* Nothing but the intent's status changes, or one of its other marks.
LEMMA SameIntent ==
  ASSUME IInv
  PROVE  /\ intent' = intent => SameBatch /\ intent'.attempts = intent.attempts
         /\ \A c \in 0 .. MaxChecks, st \in {"pending", "repair", "attention"} :
              intent' = [intent EXCEPT !.checks = c, !.status = st]
                => SameBatch /\ intent'.attempts = intent.attempts
  BY ActiveFacts DEF SameBatch, Intent

-----------------------------------------------------------------------------
(* Steps that move the turn on, the operator's switches, time and crashes *)

LEMMA TurnStepsInv ==
  ASSUME IInv, CycleMismatch \/ ModesChanged \/ TickPending \/ PauseAccount \/ TurnFails
  PROVE  IInv'
<1> USE DEF batch, world, counters
<1>1. /\ mode \in {"pair", "cycle"} /\ enabled \in BOOLEAN /\ mismatch \in BOOLEAN
      /\ shown \in [Side -> Nat] /\ mishaps \in Nat /\ pc \in Pc
  BY DEF IInv, TypeOK
<1>2. /\ intent \in Intent /\ intent = [intent EXCEPT !.checks = intent.checks, !.status = intent.status]
  BY ActiveFacts DEF Intent
<1>3. CASE CycleMismatch
  BY <1>1, <1>3, SameIntent, QuietStepInv DEF CycleMismatch
<1>4. CASE ModesChanged
  <2>1. SameBatch /\ intent'.attempts = intent.attempts
    BY <1>2, <1>4 DEF ModesChanged, SameBatch, Intent
  <2>2. ~Active => intent' = intent
    BY <1>4 DEF ModesChanged
  <2> QED BY <1>1, <1>4, <2>1, <2>2, QuietStepInv DEF ModesChanged
<1>5. CASE TickPending
  BY <1>1, <1>5, SameIntent, QuietStepInv DEF TickPending, account
<1>6. CASE PauseAccount
  BY <1>1, <1>6, SameIntent, ActiveFacts, QuietStepInv DEF PauseAccount
<1>7. CASE TurnFails
  <2>1. SameBatch /\ intent'.attempts = intent.attempts
    BY <1>2, <1>7, HedgeAssumption DEF TurnFails, Synced, SameBatch, Intent
  <2> QED BY <1>1, <1>7, <2>1, ActiveFacts, QuietStepInv DEF TurnFails, account
<1> QED BY <1>3, <1>4, <1>5, <1>6, <1>7

\* The batch is handed to the operator.
LEMMA AttentionInv ==
  ASSUME IInv, pc = "judge", NEW c \in 0 .. MaxChecks,
         Attention([intent EXCEPT !.checks = c]),
         UNCHANGED <<ledger, account, leg, world, ghosts, counters>>
  PROVE  IInv'
<1>1. /\ mode \in {"pair", "cycle"} /\ enabled \in BOOLEAN /\ mismatch \in BOOLEAN
      /\ shown \in [Side -> Nat] /\ mishaps \in Nat
  BY DEF IInv, TypeOK
<1>2. SameBatch /\ intent'.attempts = intent.attempts /\ pc' = "pausing"
  BY ActiveFacts DEF Attention, SameBatch, Intent
<1>3. Active
  BY ActiveFacts
<1> QED BY <1>1, <1>2, <1>3, QuietStepInv DEF account, world, counters

LEMMA JudgeQuietInv ==
  ASSUME IInv, PairMismatch \/ PairStuck \/ CycleLag \/ CycleStuck \/ JudgeRefused
  PROVE  IInv'
<1>1. /\ intent \in Intent /\ intent.checks \in 0 .. MaxChecks /\ 0 \in 0 .. MaxChecks
      /\ MaxChecks \in 0 .. MaxChecks /\ intent = [intent EXCEPT !.checks = intent.checks]
  BY ActiveFacts, HedgeAssumption DEF Intent
<1>2. CASE PairMismatch \/ PairStuck \/ JudgeRefused
  BY <1>1, <1>2, AttentionInv DEF PairMismatch, PairStuck, JudgeRefused, Judging, Attend
<1>3. CASE CycleLag
  <2>1. CASE intent.checks + 1 < MaxChecks
    <3>1. /\ SameBatch /\ intent'.attempts = intent.attempts /\ pc' = "idle"
          /\ UNCHANGED <<ledger, account, leg, world, ghosts, counters>>
      BY <1>1, <1>3, <2>1, HedgeAssumption DEF CycleLag, SameBatch, Intent
    <3>2. /\ mode \in {"pair", "cycle"} /\ enabled \in BOOLEAN /\ mismatch \in BOOLEAN
          /\ shown \in [Side -> Nat] /\ mishaps \in Nat /\ Active
      BY <1>3, ActiveFacts DEF IInv, TypeOK, CycleLag, Judging
    <3> QED BY <3>1, <3>2, QuietStepInv DEF account, world, counters
  <2>2. CASE ~(intent.checks + 1 < MaxChecks)
    BY <1>1, <1>3, <2>2, AttentionInv DEF CycleLag, Judging
  <2> QED BY <2>1, <2>2
<1>4. CASE CycleStuck
  <2>1. PICK c \in 0 .. MaxChecks : Synced = [intent EXCEPT !.checks = c]
    BY <1>1 DEF Synced
  <2> QED BY <1>4, <2>1, AttentionInv DEF CycleStuck, Judging
<1> QED BY <1>2, <1>3, <1>4

LEMMA OperatorQuietInv ==
  ASSUME IInv, Enable \/ Pause \/ Configure \/ GrowLate \/ Crash \/ (\E s \in Side : ShowsUp(s))
  PROVE  IInv'
<1> USE DEF ledger, account, batch, world, ghosts, counters
<1>1. /\ mode \in {"pair", "cycle"} /\ enabled \in BOOLEAN /\ mismatch \in BOOLEAN
      /\ shown \in [Side -> Nat] /\ pos \in [Side -> Nat] /\ mishaps \in Nat /\ pc \in Pc
  BY DEF IInv, TypeOK
<1>2. CASE Enable
  BY <1>1, <1>2, SameIntent, QuietStepInv DEF Enable
<1>3. CASE Pause
  BY <1>1, <1>3, SameIntent, QuietStepInv DEF Pause
<1>4. CASE Configure
  BY <1>1, <1>4, SameIntent, QuietStepInv DEF Configure
<1>5. CASE GrowLate
  <2>1. SameBatch /\ intent'.attempts = intent.attempts
    BY <1>5, ActiveFacts DEF GrowLate, SameBatch, Intent
  <2> QED BY <1>1, <1>5, <2>1, QuietStepInv DEF GrowLate
<1>6. CASE Crash
  BY <1>1, <1>6, SameIntent, ActiveFacts, QuietStepInv DEF Crash
<1>7. CASE \E s \in Side : ShowsUp(s)
  BY <1>1, <1>7, SameIntent, QuietStepInv DEF ShowsUp
<1> QED BY <1>2, <1>3, <1>4, <1>5, <1>6, <1>7

-----------------------------------------------------------------------------
(* Receipts *)

\* New receipts that agree with the exchange, for orders that had no final one;
\* the intent keeps what it knows of the orders, the turn does not post again.
LEMMA ReceiptsInv ==
  ASSUME IInv, Active, SameBatch,
         rounds <= intent'.attempts, intent'.attempts <= intent.attempts,
         leg' \in [Slot -> [Side -> Leg]],
         \A k \in Slot, s \in Side :
            /\ leg'[k][s].qty = leg[k][s].qty
            /\ OrderOK(leg'[k][s], exch[k][s])
            /\ leg[k][s].receipt = "final" => leg'[k][s] = leg[k][s],
         pc' \in Pc, pc' # "armed", pc' = "judge" => AllFinal(leg'),
         UNCHANGED <<ledger, account, world, ghosts, counters>>
  PROVE  IInv'
<1> USE DEF ledger, account, world, ghosts, counters, SameBatch
<1>1. TypeOK'
  BY DEF IInv, TypeOK
<1>2. QuietWhenIdle' /\ Journal'
  BY DEF QuietWhenIdle, Journal, Active
<1>3. \A s \in Side : ~intent.repairing => leg'["repair"][s] = NoLeg
  BY NewOrders DEF IInv, BatchShape
<1>4. \A s \in Side : intent.repairing => leg'["leg"][s] = leg["leg"][s]
  BY DEF IInv, BatchShape
<1>5. BatchShape'
  BY <1>3, <1>4 DEF IInv, BatchShape, Active, Expected
<1>6. Control'
  BY DEF Control, AllFinal
<1>7. RepairBound'
  BY <1>4 DEF IInv, RepairBound, Active, Signed
<1>8. Attempts'
  <2>1. intent.attempts \in Nat /\ intent'.attempts \in Nat /\ MaxRepairs \in Nat
    BY ActiveFacts, HedgeAssumption DEF Intent
  <2> QED BY <2>1 DEF IInv, Attempts
<1>9. Books'
  BY DEF IInv, Books, Net, Effect, Signed, Active
<1> QED BY <1>1, <1>2, <1>5, <1>6, <1>7, <1>8, <1>9 DEF IInv

LEMMA NotSentInv == ASSUME IInv, NotSent PROVE IInv'
<1>1. /\ pc = "armed" /\ Active /\ Round \in Slot
      /\ leg' = [leg EXCEPT ![Round] = [s \in Side |-> [leg[Round][s] EXCEPT !.receipt = "final"]]]
      /\ pc' \in {"idle", "query"}
      /\ UNCHANGED <<ledger, account, world, ghosts, counters>>
  BY ActiveFacts DEF NotSent
<1>2. leg \in [Slot -> [Side -> Leg]] /\ \A s \in Side : exch[Round][s] = NoExch
  BY <1>1 DEF IInv, TypeOK, Control
<1> DEFINE Absent(l) == [l EXCEPT !.receipt = "final"]
           absents == [s \in Side |-> Absent(leg[Round][s])]
<1>3. \A l \in Leg : /\ Absent(l) \in Leg /\ Absent(l).qty = l.qty /\ Absent(l).exec = l.exec
                      /\ Absent(l).receipt = "final" /\ (l.receipt = "final" => Absent(l) = l)
  BY DEF Leg
<1>4. /\ leg' = [leg EXCEPT ![Round] = absents]
      /\ leg \in [Slot -> [Side -> Leg]]
      /\ \A s \in Side : leg[Round][s] \in Leg
  BY <1>1, <1>2, ActiveFacts
<1> HIDE DEF Absent
<1>5. absents \in [Side -> Leg]
  BY <1>3, <1>4
<1>6. /\ leg' \in [Slot -> [Side -> Leg]]
      /\ \A s \in Side : leg'[Round][s] = Absent(leg[Round][s])
      /\ \A k \in Slot, s \in Side : k # Round => leg'[k][s] = leg[k][s]
  BY <1>1, <1>4, <1>5
<1>7. ASSUME NEW k \in Slot, NEW s \in Side
      PROVE  /\ leg'[k][s].qty = leg[k][s].qty
             /\ OrderOK(leg'[k][s], exch[k][s])
             /\ leg[k][s].receipt = "final" => leg'[k][s] = leg[k][s]
  <2>1. leg[k][s] \in Leg /\ OrderOK(leg[k][s], exch[k][s])
    BY <1>1, ActiveFacts
  <2>2. CASE k = Round
    <3>1. leg'[k][s] = Absent(leg[k][s])
      BY <1>6, <2>2
    <3>2. OrderOK(leg'[k][s], exch[k][s])
      BY <1>2, <1>3, <2>1, <2>2, <3>1, NewOrders, ActiveFacts DEF OrderOK
    <3> QED BY <1>3, <2>1, <3>1, <3>2
  <2>3. CASE k # Round
    BY <1>6, <2>1, <2>3
  <2> QED BY <2>2, <2>3
<1>8. /\ SameBatch /\ rounds <= intent'.attempts /\ intent'.attempts <= intent.attempts
  <2>1. CASE intent.repairing
    <3>1. intent' = [intent EXCEPT !.attempts = intent.attempts - 1]
      BY <2>1 DEF NotSent
    <3>2. rounds \in Nat /\ rounds < intent.attempts /\ intent.attempts \in Nat /\ intent \in Intent
      BY <1>1, <2>1, ActiveFacts DEF IInv, Attempts, TypeOK
    <3> QED BY <3>1, <3>2 DEF SameBatch, Intent
  <2>2. CASE ~intent.repairing
    <3>1. intent' = intent
      BY <2>2 DEF NotSent
    <3> QED BY <3>1, ActiveFacts DEF IInv, Attempts, SameBatch
  <2> QED BY <2>1, <2>2
<1> QED BY <1>1, <1>6, <1>7, <1>8, ReceiptsInv

\* Rows of the exchange for some orders, in an answer or found by a query.
LEMMA RowsInv ==
  ASSUME IInv, Active, SameBatch, intent'.attempts = intent.attempts,
         NEW found \in SUBSET OrderId,
         \A o \in found : /\ exch[o[1]][o[2]].state \in {"live", "final", "void"}
                          /\ leg[o[1]][o[2]].receipt = "final" =>
                                Row(leg[o[1]][o[2]], exch[o[1]][o[2]]) = leg[o[1]][o[2]],
         leg' = AfterRows(found),
         pc' \in Pc, pc' # "armed", pc' = "judge" => AllFinal(leg'),
         UNCHANGED <<ledger, account, world, ghosts, counters>>
  PROVE  IInv'
<1>1. \A k \in Slot, s \in Side :
         leg'[k][s] = IF <<k, s>> \in found THEN Row(leg[k][s], exch[k][s]) ELSE leg[k][s]
  BY DEF AfterRows
<1>2. ASSUME NEW k \in Slot, NEW s \in Side
      PROVE  /\ leg'[k][s] \in Leg
             /\ leg'[k][s].qty = leg[k][s].qty
             /\ OrderOK(leg'[k][s], exch[k][s])
             /\ leg[k][s].receipt = "final" => leg'[k][s] = leg[k][s]
  <2>1. leg[k][s] \in Leg /\ exch[k][s] \in Exch /\ OrderOK(leg[k][s], exch[k][s])
    BY ActiveFacts
  <2>2. CASE <<k, s>> \in found
    BY <1>1, <2>1, <2>2, RowOK
  <2>3. CASE <<k, s>> \notin found
    BY <1>1, <2>1, <2>3
  <2> QED BY <2>2, <2>3
<1>3. leg' \in [Slot -> [Side -> Leg]]
  BY <1>2 DEF AfterRows
<1>4. rounds <= intent'.attempts /\ intent'.attempts <= intent.attempts
  BY ActiveFacts DEF IInv, Attempts
<1> QED BY <1>2, <1>3, <1>4, ReceiptsInv

LEMMA QueryInv ==
  ASSUME IInv, NEW found \in SUBSET OrderId, Query(found) \/ QueryInvalid(found)
  PROVE  IInv'
<1>1. /\ Active /\ leg' = AfterRows(found) /\ UNCHANGED <<ledger, account, world, ghosts, counters>>
      /\ \A o \in found : Unfinal(o) /\ Known(o)
  BY ActiveFacts DEF Query, QueryInvalid
<1>2. \A o \in found : /\ exch[o[1]][o[2]].state \in {"live", "final", "void"}
                        /\ leg[o[1]][o[2]].receipt # "final"
  BY <1>1 DEF Unfinal, Known
<1>3. intent' = intent \/ intent' = [intent EXCEPT !.status = "attention"]
  BY DEF Query, QueryInvalid, Attention
<1>4. SameBatch /\ intent'.attempts = intent.attempts
  BY <1>3, ActiveFacts DEF SameBatch, Intent
<1>5. pc' \in Pc /\ pc' # "armed" /\ (pc' = "judge" => AllFinal(leg'))
  BY DEF Query, QueryInvalid, Attention
<1> QED BY <1>1, <1>2, <1>4, <1>5, RowsInv

LEMMA AnswerInv == ASSUME IInv, NEW told \in SUBSET Side, Answer(told) PROVE IInv'
<1>1. /\ Active /\ Round \in Slot /\ pc' = "query" /\ intent' = intent
      /\ \A s \in told : exch[Round][s].state \in {"live", "final", "void"}
      /\ UNCHANGED <<ledger, account, world, ghosts, counters>>
  BY ActiveFacts DEF Answer, Decided
<1> DEFINE found == {Round} \X told
           f == [s \in Side |-> IF s \in told THEN Row(leg[Round][s], exch[Round][s]) ELSE leg[Round][s]]
<1>2. found \in SUBSET OrderId /\ \A k \in Slot, s \in Side : <<k, s>> \in found <=> k = Round /\ s \in told
  BY <1>1 DEF OrderId
<1>3. leg \in [Slot -> [Side -> Leg]] /\ leg' = [leg EXCEPT ![Round] = f]
  BY DEF IInv, TypeOK, Answer
<1>4. leg' = AfterRows(found)
  <2>1. leg' = [k \in Slot |-> IF k = Round THEN f ELSE leg[k]]
    BY <1>3
  <2>2. \A k \in Slot : AfterRows(found)[k] = IF k = Round THEN f ELSE leg[k]
    BY <1>2, <1>3 DEF AfterRows
  <2> QED BY <2>1, <2>2 DEF AfterRows
<1>5. ASSUME NEW o \in found
      PROVE  /\ exch[o[1]][o[2]].state \in {"live", "final", "void"}
             /\ leg[o[1]][o[2]].receipt = "final" =>
                   Row(leg[o[1]][o[2]], exch[o[1]][o[2]]) = leg[o[1]][o[2]]
  <2>1. o[1] = Round /\ o[2] \in told
    OBVIOUS
  <2>2. exch[Round][o[2]].state \in {"live", "final", "void"}
    BY <1>1, <2>1
  <2>3. ASSUME NEW l \in Leg, NEW x \in Exch, OrderOK(l, x), l.receipt = "final"
        PROVE  Row(l, x) = l
    BY <2>3 DEF Row, OrderOK, Leg, Exch
  <2> QED BY <1>1, <2>1, <2>2, <2>3, ActiveFacts
<1> QED BY <1>1, <1>2, <1>4, <1>5, SameIntent, RowsInv

-----------------------------------------------------------------------------
(* Submissions *)

LEMMA PostInv == ASSUME IInv, Post PROVE IInv'
<1> USE DEF ledger, account, batch, counters
<1>1. /\ pc = "armed" /\ pc' = "waiting" /\ Active /\ Round \in Slot
      /\ UNCHANGED <<ledger, account, batch, pos, shown, outside, counters>>
  BY ActiveFacts DEF Post
<1> DEFINE flights == [s \in Side |-> IF s \in InRound THEN [NoExch EXCEPT !.state = "flight"] ELSE NoExch]
           counts  == [s \in Side |-> IF s \in InRound THEN posts[Round][s] + 1 ELSE posts[Round][s]]
<1>2. /\ exch' = [exch EXCEPT ![Round] = flights] /\ posts' = [posts EXCEPT ![Round] = counts]
      /\ exch \in [Slot -> [Side -> Exch]] /\ posts \in [Slot -> [Side -> Nat]]
  BY DEF Post, IInv, TypeOK
<1>3. /\ flights \in [Side -> Exch] /\ counts \in [Side -> Nat]
      /\ \A s \in Side : flights[s].exec = 0 /\ flights[s].state \in {"none", "flight"}
  BY <1>1, <1>2 DEF NoExch, Exch
<1>4. /\ exch' \in [Slot -> [Side -> Exch]] /\ posts' \in [Slot -> [Side -> Nat]]
      /\ \A s \in Side : exch'[Round][s] = flights[s] /\ posts'[Round][s] = counts[s]
      /\ \A k \in Slot, s \in Side : k # Round => exch'[k][s] = exch[k][s] /\ posts'[k][s] = posts[k][s]
  BY <1>1, <1>2, <1>3
<1>5. \A s \in Side : exch[Round][s] = NoExch /\ posts[Round][s] = 0
  BY <1>1 DEF IInv, Control, Attempts
<1>6. ASSUME NEW k \in Slot, NEW s \in Side PROVE exch'[k][s].exec = exch[k][s].exec
  <2>1. CASE k = Round
    BY <1>3, <1>4, <1>5, <2>1, NewOrders
  <2>2. CASE k # Round
    BY <1>4, <2>2
  <2> QED BY <2>1, <2>2
<1>7. rounds \in Nat /\ rounds' \in Nat /\ rounds' <= intent.attempts
  BY <1>1, ActiveFacts DEF Post, IInv, TypeOK, Attempts
<1>8. TypeOK'
  BY <1>1, <1>4, <1>7 DEF IInv, TypeOK
<1>9. QuietWhenIdle' /\ BatchShape'
  BY <1>1 DEF IInv, QuietWhenIdle, BatchShape, Active, Expected
<1>10. Journal'
  <2>1. ASSUME NEW k \in Slot, NEW s \in Side PROVE OrderOK(leg[k][s], exch'[k][s])
    <3>1. OrderOK(leg[k][s], exch[k][s]) /\ leg[k][s] \in Leg
      BY <1>1, ActiveFacts
    <3>2. CASE k = Round /\ s \in InRound
      <4>1. leg[k][s].receipt = "unknown" /\ exch'[k][s].state = "flight" /\ exch'[k][s].exec = 0
        BY <1>1, <1>3, <1>4, <3>2 DEF IInv, Control, InRound, NoExch
      <4> QED BY <1>5, <3>1, <3>2, <4>1, NewOrders DEF OrderOK
    <3>3. CASE ~(k = Round /\ s \in InRound)
      BY <1>4, <1>5, <3>1, <3>3
    <3> QED BY <3>2, <3>3
  <2> QED BY <1>1, <2>1 DEF Journal
<1>11. Control'
  BY <1>1 DEF Control
<1>12. RepairBound'
  BY <1>1 DEF IInv, RepairBound, Active, Signed
<1>13. Attempts'
  <2>1. \A k \in Slot, s \in Side : posts'[k][s] <= 1
    BY <1>1, <1>4, <1>5 DEF IInv, Attempts
  <2> QED BY <1>1, <1>7, <2>1 DEF IInv, Attempts
<1>14. Books'
  BY <1>1, <1>6 DEF IInv, Books, Net, Effect, Signed, Active
<1> QED BY <1>8, <1>9, <1>10, <1>11, <1>12, <1>13, <1>14 DEF IInv

-----------------------------------------------------------------------------
(* Saved intents *)

LEMMA SaveIntentInv ==
  ASSUME IInv, Ready, started' \in Nat,
         NEW kind \in {"pair", "cycle"}, NEW phase \in {"open", "close"}, NEW q \in Nat,
         kind = "cycle" /\ phase = "open" => \A s \in Side : quantities[s] = 0,
         phase = "close" => kind = "cycle" /\ shown = Expected /\ \A s \in Side : quantities[s] = q,
         SaveIntent(kind, phase, q)
  PROVE  IInv'
<1> USE HedgeAssumption DEF ledger, account, ghosts
<1>1. /\ ~Active /\ posts = NoPosts /\ rounds = 0
      /\ pc' = "armed" /\ UNCHANGED <<ledger, account, pos, shown, ghosts, mishaps>>
  BY DEF Ready, IInv, QuietWhenIdle, SaveIntent
<1>2. shown \in [Side -> Nat]
  BY DEF IInv, TypeOK
<1>3. /\ intent' \in Intent /\ intent'.kind = kind /\ intent'.phase = phase /\ intent'.qty = q
      /\ intent'.before = shown /\ intent'.attempts = 0 /\ ~intent'.repairing
      /\ \A s \in Side : intent'.repaired[s] = 0
  BY <1>2, Types DEF SaveIntent, NoIntent, Intent, Zero
<1>4. /\ leg' \in [Slot -> [Side -> Leg]]
      /\ \A s \in Side : leg'["leg"][s] = Order(q) /\ leg'["repair"][s] = NoLeg
  BY Types DEF SaveIntent, NoLegs
<1>5. /\ exch' \in [Slot -> [Side -> Exch]]
      /\ \A k \in Slot, s \in Side : exch'[k][s] = NoExch
  BY Types DEF SaveIntent
<1>6. Active' /\ Round' = "leg"
  BY <1>3 DEF Active, Round
<1>7. TypeOK'
  BY <1>1, <1>3, <1>4, <1>5 DEF IInv, TypeOK
<1>8. QuietWhenIdle'
  BY <1>6 DEF QuietWhenIdle
<1>9. BatchShape'
  <2>1. intent'.phase = "close" => intent'.before = Expected'
    BY <1>1, <1>3 DEF Expected
  <2> QED BY <1>1, <1>3, <1>4, <2>1, NewOrders DEF BatchShape
<1>10. Journal'
  BY <1>4, <1>5, NewOrders DEF Journal
<1>11. Control'
  BY <1>1, <1>4, <1>5, <1>6, NewOrders DEF Control
<1>12. RepairBound'
  BY <1>3 DEF RepairBound
<1>13. Attempts'
  BY <1>1, <1>3, <1>6 DEF Attempts, NoPosts, Zero
<1>14. Books'
  <2>1. \A s \in Side : pos[s] - outside[s] = campaign[s] + quantities[s] + 0
    BY <1>1 DEF IInv, Books, Net, Effect
  <2>2. ASSUME NEW s \in Side
        PROVE  (IF intent'.phase = "open" THEN 0 ELSE 0 - 0) - 0 - 0 = 0
    OBVIOUS
  <2> QED BY <1>1, <1>3, <1>5, <1>6, <2>1, <2>2, NewOrders DEF Books, Net, Effect, Signed
<1> QED BY <1>7, <1>8, <1>9, <1>10, <1>11, <1>12, <1>13, <1>14 DEF IInv

LEMMA StartInv ==
  ASSUME IInv, (\E q \in Lots : StartPair(q) \/ StartOpen(q)) \/ StartClose
  PROVE  IInv'
<1> USE DEF ledger
<1>1. started \in Nat
  BY DEF IInv, TypeOK
<1>2. ASSUME NEW q \in Lots, StartPair(q) PROVE IInv'
  BY <1>1, <1>2, SaveIntentInv, Types DEF StartPair
<1>3. ASSUME NEW q \in Lots, StartOpen(q) PROVE IInv'
  BY <1>1, <1>3, SaveIntentInv, Types DEF StartOpen, Holding
<1>4. ASSUME StartClose PROVE IInv'
  BY <1>1, <1>4, SaveIntentInv, Types DEF StartClose
<1> QED BY <1>2, <1>3, <1>4

-----------------------------------------------------------------------------
(* The judgement *)

\* With every receipt final and shown by the account, the receipts say what
\* the orders really did.
LEMMA JudgeFacts ==
  ASSUME IInv, pc = "judge"
  PROVE  /\ Active /\ AllFinal(leg)
         /\ \A s \in Side : /\ NetOf(s) = Effect(s) /\ NetOf(s) \in Int
                            /\ ByReceipts[s] = intent.before[s] + NetOf(s)
                            /\ intent.phase = "open" => NetOf(s) >= 0
                            /\ intent.phase = "close" => quantities[s] + NetOf(s) >= 0
         /\ ~intent.repairing => \A s \in Side : NetOf(s) = Signed(leg["leg"][s].exec)
         /\ \A k \in Slot, s \in Side : exch[k][s].state \in {"none", "void", "final"}
<1>1. Active /\ AllFinal(leg)
  BY ActiveFacts DEF IInv, Control
<1>2. \A k \in Slot, s \in Side : /\ exch[k][s].exec = leg[k][s].exec /\ leg[k][s].exec <= leg[k][s].qty
                                   /\ exch[k][s].state \in {"none", "void", "final"}
  BY <1>1, ActiveFacts DEF OrderOK, AllFinal
<1>3. ASSUME NEW s \in Side
      PROVE  /\ NetOf(s) = Effect(s) /\ NetOf(s) \in Int
             /\ ByReceipts[s] = intent.before[s] + NetOf(s)
             /\ intent.phase = "open" => NetOf(s) >= 0
             /\ intent.phase = "close" => quantities[s] + NetOf(s) >= 0
             /\ ~intent.repairing => NetOf(s) = Signed(leg["leg"][s].exec)
  <2>1. /\ leg["leg"][s].exec \in Nat /\ leg["repair"][s].exec \in Nat /\ intent.repaired[s] \in Nat
        /\ leg["leg"][s].qty \in Nat /\ leg["repair"][s].qty \in Nat /\ quantities[s] \in Nat
        /\ leg["leg"][s].exec <= leg["leg"][s].qty /\ leg["repair"][s].exec <= leg["repair"][s].qty
    BY <1>2, ActiveFacts DEF IInv, TypeOK
  <2>2. NetOf(s) = Effect(s) /\ NetOf(s) \in Int /\ ByReceipts[s] = intent.before[s] + NetOf(s)
    BY <1>1, <1>2, <2>1 DEF NetOf, Effect, Signed, ByReceipts
  <2>3. CASE intent.repairing
    <3>1. (IF intent.phase = "close" THEN quantities[s] ELSE 0)
            + Signed(leg["leg"][s].exec) - intent.repaired[s] >= leg["repair"][s].qty
      BY <1>1, <2>3 DEF IInv, RepairBound
    <3> QED BY <2>1, <2>2, <2>3, <3>1 DEF NetOf, Signed
  <2>4. CASE ~intent.repairing
    <3>1. intent.repaired[s] = 0 /\ leg["repair"][s].exec = 0
      BY <1>1, <2>4, NewOrders DEF IInv, BatchShape
    <3>2. NetOf(s) = Signed(leg["leg"][s].exec)
      BY <2>1, <3>1 DEF NetOf, Signed
    <3>3. intent.phase = "close" => quantities[s] = leg["leg"][s].qty
      BY <1>1 DEF IInv, BatchShape
    <3> QED BY <2>1, <2>2, <3>2, <3>3 DEF Signed
  <2> QED BY <2>2, <2>3, <2>4
<1> QED BY <1>1, <1>2, <1>3

\* What the batch, and a closing cycle, hold of side s by the receipts.
Held(s) == (IF intent.phase = "close" THEN quantities[s] ELSE 0) + NetOf(s)

\* Repair orders within what is held preserve the invariant.
LEMMA SaveRepairsInv ==
  ASSUME IInv, pc = "judge", NEW q \in [Side -> Nat], \A s \in Side : q[s] <= Held(s), SaveRepairs(q)
  PROVE  IInv'
<1> USE HedgeAssumption DEF ledger, account, counters
<1>1. /\ intent.attempts < MaxRepairs /\ pc' = "armed"
      /\ UNCHANGED <<ledger, account, pos, shown, outside, rounds, counters>>
  BY DEF SaveRepairs
<1>2. /\ Active /\ AllFinal(leg) /\ intent \in Intent /\ intent.attempts \in Nat /\ rounds \in Nat
      /\ leg \in [Slot -> [Side -> Leg]] /\ exch \in [Slot -> [Side -> Exch]]
      /\ posts \in [Slot -> [Side -> Nat]]
  BY JudgeFacts, ActiveFacts DEF IInv, TypeOK
<1>3. /\ intent' \in Intent
      /\ intent'.kind = intent.kind /\ intent'.phase = intent.phase /\ intent'.qty = intent.qty
      /\ intent'.before = intent.before /\ intent'.attempts = intent.attempts + 1 /\ intent'.repairing
      /\ \A s \in Side : intent'.repaired[s] = intent.repaired[s] + leg["repair"][s].exec
  <2> DEFINE r == [s \in Side |-> intent.repaired[s] + leg["repair"][s].exec]
  <2>1. r \in [Side -> Nat]
    BY ActiveFacts
  <2>2. intent' = [intent EXCEPT !.attempts = intent.attempts + 1, !.repairing = TRUE, !.status = "repair",
                                 !.checks = 0, !.repaired = r]
    BY DEF SaveRepairs
  <2> HIDE DEF r
  <2>3. intent.attempts + 1 \in Nat /\ 0 \in 0 .. MaxChecks
    BY <1>2
  <2>4. /\ intent' \in Intent
        /\ intent'.kind = intent.kind /\ intent'.phase = intent.phase /\ intent'.qty = intent.qty
        /\ intent'.before = intent.before /\ intent'.attempts = intent.attempts + 1 /\ intent'.repairing
        /\ intent'.repaired = r
    BY <1>2, <2>1, <2>2, <2>3 DEF Intent
  <2> QED BY <2>4 DEF r
<1>4. Active' /\ Round' = "repair"
  BY <1>2, <1>3 DEF Active, Round
<1>5. /\ leg' \in [Slot -> [Side -> Leg]]
      /\ \A s \in Side : /\ leg'["leg"][s] = leg["leg"][s]
                         /\ leg'["repair"][s] = IF q[s] = 0 THEN NoLeg ELSE Order(q[s])
  <2>1. [s \in Side |-> IF q[s] = 0 THEN NoLeg ELSE Order(q[s])] \in [Side -> Leg]
    BY Types
  <2> QED BY <1>2, <2>1 DEF SaveRepairs
<1>6. \A s \in Side : /\ leg'["repair"][s].qty = q[s] /\ OrderOK(leg'["repair"][s], NoExch)
                      /\ q[s] > 0 => leg'["repair"][s].receipt = "unknown"
  BY <1>5, NewOrders
<1>7. /\ exch' \in [Slot -> [Side -> Exch]]
      /\ \A s \in Side : exch'["leg"][s] = exch["leg"][s] /\ exch'["repair"][s] = NoExch
  <2>1. [s \in Side |-> NoExch] \in [Side -> Exch]
    BY Types
  <2> QED BY <1>2, <2>1 DEF SaveRepairs
<1>8. /\ posts' \in [Slot -> [Side -> Nat]]
      /\ \A s \in Side : posts'["leg"][s] = posts["leg"][s] /\ posts'["repair"][s] = 0
  BY <1>2, Types DEF SaveRepairs, Zero
<1>9. TypeOK'
  BY <1>1, <1>3, <1>5, <1>7, <1>8 DEF IInv, TypeOK
<1>10. QuietWhenIdle'
  BY <1>4 DEF QuietWhenIdle
<1>11. BatchShape'
  <2>1. intent'.phase = "close" => intent'.before = Expected'
    BY <1>1, <1>2, <1>3 DEF IInv, BatchShape, Expected
  <2> QED BY <1>1, <1>2, <1>3, <1>5, <2>1 DEF IInv, BatchShape, AllFinal
<1>12. Journal'
  <2>1. \A s \in Side : OrderOK(leg'["leg"][s], exch'["leg"][s])
    BY <1>2, <1>5, <1>7, ActiveFacts
  <2>2. \A s \in Side : OrderOK(leg'["repair"][s], exch'["repair"][s])
    BY <1>6, <1>7
  <2> QED BY <2>1, <2>2 DEF Journal
<1>13. Control'
  BY <1>1, <1>4, <1>6, <1>7 DEF Control
<1>14. \A s \in Side : /\ NetOf(s) \in Int /\ Signed(leg["leg"][s].exec) \in Int
                       /\ NetOf(s) = Signed(leg["leg"][s].exec) - intent'.repaired[s]
                       /\ NetOf(s) = Effect(s) /\ intent'.repaired[s] \in Nat /\ quantities[s] \in Nat
  <2>1. \A s \in Side : /\ leg["leg"][s].exec \in Nat /\ leg["repair"][s].exec \in Nat
                        /\ intent.repaired[s] \in Nat /\ quantities[s] \in Nat
    BY ActiveFacts DEF IInv, TypeOK
  <2> QED BY <1>3, <2>1, JudgeFacts DEF NetOf, Signed
<1>15. RepairBound'
  BY <1>1, <1>3, <1>5, <1>6, <1>14 DEF RepairBound, Held, Signed
<1>16. Attempts'
  BY <1>1, <1>2, <1>3, <1>4, <1>8 DEF IInv, Attempts
<1>17. Books'
  <2>1. ASSUME NEW s \in Side PROVE Effect(s)' = Effect(s)
    <3>1. exch["leg"][s].exec = leg["leg"][s].exec
      BY <1>2, ActiveFacts DEF OrderOK, AllFinal
    <3>2. Effect(s)' = Signed(leg["leg"][s].exec) - intent'.repaired[s] - 0
      BY <1>3, <1>4, <1>7, <3>1, NewOrders DEF Effect, Signed
    <3> QED BY <1>14, <3>2
  <2> QED BY <1>1, <2>1 DEF IInv, Books, Net
<1> QED BY <1>9, <1>10, <1>11, <1>12, <1>13, <1>15, <1>16, <1>17 DEF IInv

LEMMA PairRepairInv == ASSUME IInv, PairRepair PROVE IInv'
<1>1. pc = "judge" /\ intent.kind = "pair"
  BY DEF PairRepair, Judging
<1>2. PICK s \in Side, t \in Side, q \in Lots : RepairQty(s, t, q) /\ SaveRepairs([Zero EXCEPT ![s] = q])
  BY DEF PairRepair
<1> DEFINE r == [Zero EXCEPT ![s] = q]
<1>3. r \in [Side -> Nat] /\ r[s] = q /\ (\A u \in Side : u # s => r[u] = 0) /\ q \in Nat
  BY Types DEF Zero
<1>4. intent.phase = "open"
  BY <1>1, JudgeFacts DEF IInv, BatchShape, TypeOK, Intent
<1>5. ASSUME NEW u \in Side PROVE r[u] <= Held(u)
  <2>1. NetOf(u) \in Int /\ NetOf(u) >= 0 /\ Held(u) = 0 + NetOf(u)
    BY <1>1, <1>4, JudgeFacts DEF Held
  <2>2. u = s => q <= NetOf(u)
    BY <1>2 DEF RepairQty
  <2> QED BY <1>3, <2>1, <2>2
<1> QED BY <1>1, <1>2, <1>3, <1>5, SaveRepairsInv

LEMMA CycleRepairInv == ASSUME IInv, CycleRepair PROVE IInv'
<1>1. pc = "judge" /\ intent.kind = "cycle" /\ shown = ByReceipts /\ Active
  BY JudgeFacts DEF CycleRepair, Judging, Agrees
<1>2. PICK q \in [Side -> Lots \cup {0}] : (\A s \in Side : q[s] <= Remaining(s)) /\ SaveRepairs(q)
  BY DEF CycleRepair
<1>3. q \in [Side -> Nat]
  <2>1. Lots \cup {0} \subseteq Nat
    BY Types
  <2> QED BY <2>1
<1>4. ASSUME NEW s \in Side PROVE Remaining(s) = Held(s)
  <2>1. /\ intent.before[s] \in Nat /\ base[s] \in Nat /\ quantities[s] \in Nat /\ NetOf(s) \in Int
        /\ shown[s] = intent.before[s] + NetOf(s)
    BY <1>1, JudgeFacts, ActiveFacts DEF IInv, TypeOK
  <2>2. CASE intent.phase = "open"
    BY <2>1, <2>2 DEF Remaining, Floor, Held
  <2>3. CASE intent.phase = "close"
    <3>1. intent.before[s] = base[s] + quantities[s]
      BY <1>1, <2>3 DEF IInv, BatchShape, Expected
    <3> QED BY <2>1, <2>3, <3>1 DEF Remaining, Floor, Held
  <2> QED BY <2>2, <2>3, ActiveFacts DEF Intent
<1> QED BY <1>1, <1>2, <1>3, <1>4, SaveRepairsInv

-----------------------------------------------------------------------------
(* The end of a batch *)

\* A batch that ends leaves its effect in the books.
LEMMA EndBatchInv ==
  ASSUME IInv, pc = "judge", EndBatch,
         campaign' \in [Side -> Nat], base' \in [Side -> Nat], quantities' \in [Side -> Nat],
         \A s \in Side : campaign'[s] + quantities'[s] = campaign[s] + quantities[s] + NetOf(s)
  PROVE  IInv'
<1> USE DEF account, world, counters
<1>1. /\ intent' = NoIntent /\ leg' = NoLegs /\ posts' = NoPosts /\ rounds' = 0 /\ pc' = "idle"
      /\ UNCHANGED <<account, world, outside, counters>>
  BY DEF EndBatch
<1>2. ~Active' /\ intent'.attempts = 0
  BY <1>1 DEF Active, NoIntent
<1>3. TypeOK'
  BY <1>1, Types DEF IInv, TypeOK
<1>4. QuietWhenIdle'
  BY <1>1, JudgeFacts DEF QuietWhenIdle
<1>5. BatchShape' /\ Journal' /\ RepairBound' /\ Control'
  BY <1>1, <1>2 DEF BatchShape, Journal, RepairBound, Control
<1>6. Attempts'
  BY <1>1, <1>2, HedgeAssumption DEF Attempts, NoPosts, Zero
<1>7. Books'
  <2>1. ASSUME NEW s \in Side PROVE pos[s] - outside[s] = campaign'[s] + quantities'[s] + 0
    <3>1. pos[s] - outside[s] = campaign[s] + quantities[s] + NetOf(s) /\ campaign'[s] + quantities'[s] \in Int
      BY JudgeFacts DEF IInv, Books, Net
    <3> QED BY <3>1
  <2> QED BY <1>1, <1>2, <2>1 DEF Books, Net, Effect
<1> QED BY <1>3, <1>4, <1>5, <1>6, <1>7 DEF IInv

LEMMA PairEndsInv == ASSUME IInv, PairEnds PROVE IInv'
<1>1. /\ pc = "judge" /\ intent.kind = "pair" /\ EndBatch /\ UNCHANGED <<base, quantities>>
      /\ campaign' = [s \in Side |-> campaign[s] + NetOf(s)]
  BY DEF PairEnds, Judging
<1>2. intent.phase = "open"
  BY <1>1, JudgeFacts DEF IInv, BatchShape, TypeOK, Intent
<1>3. \A s \in Side : campaign[s] \in Nat /\ NetOf(s) \in Int /\ NetOf(s) >= 0 /\ quantities[s] \in Nat
  BY <1>1, <1>2, JudgeFacts DEF IInv, TypeOK
<1>4. campaign' \in [Side -> Nat] /\ base' \in [Side -> Nat] /\ quantities' \in [Side -> Nat]
  BY <1>1, <1>3 DEF IInv, TypeOK
<1>5. \A s \in Side : campaign'[s] + quantities'[s] = campaign[s] + quantities[s] + NetOf(s)
  BY <1>1, <1>3
<1> QED BY <1>1, <1>4, <1>5, EndBatchInv

LEMMA CycleHoldsInv == ASSUME IInv, CycleHolds PROVE IInv'
<1>1. /\ pc = "judge" /\ intent.kind = "cycle" /\ shown = ByReceipts /\ intent.phase = "open" /\ Full
      /\ base' = intent.before /\ quantities' = [s \in Side |-> shown[s] - intent.before[s]]
      /\ EndBatch /\ campaign' = campaign /\ Active
  BY JudgeFacts DEF CycleHolds, Judging, Agrees, Floor
<1>2. \A s \in Side : /\ shown[s] = intent.before[s] + NetOf(s) /\ intent.before[s] \in Nat
                      /\ NetOf(s) \in Int /\ NetOf(s) >= 0 /\ quantities[s] = 0 /\ campaign[s] \in Nat
  BY <1>1, JudgeFacts, ActiveFacts DEF IInv, BatchShape, TypeOK
<1>3. campaign' \in [Side -> Nat] /\ base' \in [Side -> Nat] /\ quantities' \in [Side -> Nat]
  BY <1>1, <1>2, ActiveFacts DEF IInv, TypeOK, Intent
<1>4. \A s \in Side : campaign'[s] + quantities'[s] = campaign[s] + quantities[s] + NetOf(s)
  BY <1>1, <1>2
<1> QED BY <1>1, <1>3, <1>4, EndBatchInv

LEMMA CycleEndsInv == ASSUME IInv, CycleEnds PROVE IInv'
<1>1. /\ pc = "judge" /\ intent.kind = "cycle" /\ shown = ByReceipts /\ shown = Floor
      /\ base' = Floor /\ quantities' = Zero /\ EndBatch /\ campaign' = campaign /\ Active
  BY JudgeFacts DEF CycleEnds, Judging, Agrees
<1>2. ASSUME NEW s \in Side PROVE quantities[s] + NetOf(s) = 0 /\ quantities[s] \in Nat /\ NetOf(s) \in Int
  <2>1. /\ intent.before[s] \in Nat /\ base[s] \in Nat /\ quantities[s] \in Nat /\ NetOf(s) \in Int
        /\ Floor[s] = intent.before[s] + NetOf(s)
    BY <1>1, JudgeFacts, ActiveFacts DEF IInv, TypeOK
  <2>2. CASE intent.phase = "open"
    <3>1. quantities[s] = 0
      BY <1>1, <2>2 DEF IInv, BatchShape
    <3> QED BY <2>1, <2>2, <3>1 DEF Floor
  <2>3. CASE intent.phase = "close"
    <3>1. intent.before[s] = base[s] + quantities[s]
      BY <1>1, <2>3 DEF IInv, BatchShape, Expected
    <3> QED BY <2>1, <2>3, <3>1 DEF Floor
  <2> QED BY <2>2, <2>3, ActiveFacts DEF Intent
<1>3. campaign' \in [Side -> Nat] /\ base' \in [Side -> Nat] /\ quantities' \in [Side -> Nat]
  BY <1>1, ActiveFacts, Types DEF IInv, TypeOK, Floor, Intent
<1>4. \A s \in Side : campaign'[s] + quantities'[s] = campaign[s] + quantities[s] + NetOf(s)
  <2>1. \A s \in Side : quantities'[s] = 0 /\ campaign[s] \in Nat
    BY <1>1 DEF Zero, IInv, TypeOK
  <2> QED BY <1>1, <1>2, <2>1
<1> QED BY <1>1, <1>3, <1>4, EndBatchInv

-----------------------------------------------------------------------------
(* The operator's decisions *)

LEMMA RetryInv == ASSUME IInv, Retry PROVE IInv'
<1> USE DEF ledger, account, world
<1>1. /\ Active /\ pc = "idle" /\ mishaps' = mishaps + 1 /\ rounds' = 0
      /\ UNCHANGED <<ledger, account, leg, pc, world, outside, posts, started>>
  BY DEF Retry
<1>2. SameBatch /\ intent'.attempts = 0
  BY ActiveFacts DEF Retry, SameBatch, Intent
<1> USE DEF SameBatch
<1>3. TypeOK'
  BY <1>1, <1>2 DEF IInv, TypeOK
<1>4. QuietWhenIdle' /\ BatchShape' /\ Journal' /\ Control'
  BY <1>1, <1>2 DEF IInv, QuietWhenIdle, BatchShape, Journal, Control, Active, Expected
<1>5. RepairBound'
  BY <1>1, <1>2 DEF IInv, RepairBound, Active, Signed
<1>6. Attempts'
  BY <1>1, <1>2, HedgeAssumption DEF IInv, Attempts
<1>7. Books'
  BY <1>1, <1>2 DEF IInv, Books, Net, Effect, Signed, Active
<1> QED BY <1>3, <1>4, <1>5, <1>6, <1>7 DEF IInv

\* A decision about the books, without a batch.
LEMMA BooksOnlyInv ==
  ASSUME IInv, ~Active, mode' = mode, enabled' = enabled, mismatch' \in BOOLEAN,
         campaign' \in [Side -> Nat], base' \in [Side -> Nat], quantities' \in [Side -> Nat],
         outside' \in [Side -> Int],
         \A s \in Side : campaign'[s] + quantities'[s] + outside'[s] = campaign[s] + quantities[s] + outside[s],
         UNCHANGED <<batch, pc, world, posts, rounds, counters>>
  PROVE  IInv'
<1> USE DEF batch, world, counters
<1>1. TypeOK'
  BY DEF IInv, TypeOK
<1>2. ~Active' /\ QuietWhenIdle' /\ BatchShape' /\ Journal' /\ RepairBound'
  BY DEF IInv, QuietWhenIdle, BatchShape, Journal, RepairBound, Active
<1>3. Control' /\ Attempts'
  BY DEF IInv, Control, Attempts, Round
<1>4. Books'
  <2>1. ASSUME NEW s \in Side PROVE pos[s] - outside'[s] = campaign'[s] + quantities'[s] + 0
    <3>1. pos[s] - outside[s] = campaign[s] + quantities[s] + 0
      BY DEF IInv, Books, Net, Effect
    <3>2. /\ pos[s] \in Int /\ outside[s] \in Int /\ outside'[s] \in Int /\ campaign[s] \in Int
          /\ quantities[s] \in Int /\ campaign'[s] \in Int /\ quantities'[s] \in Int
      BY DEF IInv, TypeOK
    <3> QED BY <3>1, <3>2
  <2> QED BY <1>2, <2>1 DEF Books, Net, Effect
<1> QED BY <1>1, <1>2, <1>3, <1>4 DEF IInv

LEMMA DecisionsInv == ASSUME IInv, ConfirmRecovery \/ FinishCampaign PROVE IInv'
<1> USE DEF account
<1>1. /\ campaign \in [Side -> Nat] /\ base \in [Side -> Nat] /\ quantities \in [Side -> Nat]
      /\ shown \in [Side -> Nat] /\ outside \in [Side -> Int] /\ mismatch \in BOOLEAN
  BY DEF IInv, TypeOK
<1>2. Zero \in [Side -> Nat] /\ \A s \in Side : Zero[s] = 0
  BY DEF Zero
<1>3. CASE ConfirmRecovery
  <2>1. /\ ~Active /\ base' = shown /\ quantities' = Zero /\ campaign' = campaign
        /\ outside' = [s \in Side |-> outside[s] + quantities[s]]
        /\ mode' = mode /\ enabled' = enabled /\ mismatch' = FALSE
        /\ UNCHANGED <<batch, pc, world, posts, rounds, counters>>
    BY <1>3 DEF ConfirmRecovery, Ready
  <2>2. outside' \in [Side -> Int]
    BY <1>1, <2>1
  <2>3. \A s \in Side : campaign'[s] + quantities'[s] + outside'[s] = campaign[s] + quantities[s] + outside[s]
    BY <1>1, <1>2, <2>1
  <2> QED BY <1>1, <1>2, <2>1, <2>2, <2>3, BooksOnlyInv
<1>4. CASE FinishCampaign
  <2>1. /\ ~Active /\ campaign' = Zero /\ base' = base /\ quantities' = quantities
        /\ outside' = [s \in Side |-> outside[s] + campaign[s]]
        /\ mode' = mode /\ enabled' = enabled /\ mismatch' = mismatch
        /\ UNCHANGED <<batch, pc, world, posts, rounds, counters>>
    BY <1>4 DEF FinishCampaign, Ready
  <2>2. outside' \in [Side -> Int]
    BY <1>1, <2>1
  <2>3. \A s \in Side : campaign'[s] + quantities'[s] + outside'[s] = campaign[s] + quantities[s] + outside[s]
    BY <1>1, <1>2, <2>1
  <2> QED BY <1>1, <1>2, <2>1, <2>2, <2>3, BooksOnlyInv
<1> QED BY <1>3, <1>4

-----------------------------------------------------------------------------
(* The exchange *)

\* A new record x of one order that can still change, with the position moved
\* by what the batch's effect moves.
LEMMA RecordInv ==
  ASSUME IInv, Active, NEW k \in Slot, NEW s \in Side, NEW x \in Exch,
         exch[k][s].state \in {"flight", "live"}, OrderOK(leg[k][s], x),
         exch' = [exch EXCEPT ![k] = [exch[k] EXCEPT ![s] = x]],
         Moved(k, s, x.exec) >= 0, pos' = [pos EXCEPT ![s] = Moved(k, s, x.exec)],
         UNCHANGED <<ledger, account, batch, pc, shown, ghosts, counters>>
  PROVE  IInv'
<1> USE DEF ledger, account, batch, ghosts, counters
<1>1. exch \in [Slot -> [Side -> Exch]] /\ pos \in [Side -> Nat]
  BY DEF IInv, TypeOK
<1>2. /\ exch' \in [Slot -> [Side -> Exch]] /\ exch'[k][s] = x
      /\ \A j \in Slot, t \in Side : j # k \/ t # s => exch'[j][t] = exch[j][t]
  BY <1>1
<1>3. x.exec \in Nat /\ exch[k][s].exec \in Nat /\ pos[s] \in Nat
  BY <1>1, ActiveFacts DEF Exch
<1>4. pos' \in [Side -> Nat]
  BY <1>1, <1>3 DEF Moved
<1>5. TypeOK'
  BY <1>2, <1>4 DEF IInv, TypeOK
<1>6. QuietWhenIdle' /\ BatchShape'
  BY DEF IInv, QuietWhenIdle, BatchShape, Active, Expected
<1>7. Journal'
  BY <1>2, ActiveFacts DEF Journal
<1>8. Control'
  BY <1>2, NewOrders DEF IInv, Control, Round, AllFinal
<1>9. RepairBound' /\ Attempts'
  BY DEF IInv, RepairBound, Attempts, Active, Signed, Round
<1>10. Books'
  <2>1. ASSUME NEW t \in Side, t # s PROVE Net(t)' = campaign'[t] + quantities'[t] + Effect(t)'
    BY <1>1, <1>2, <2>1 DEF IInv, Books, Net, Effect, Signed, Active
  <2>2. Net(s)' = campaign'[s] + quantities'[s] + Effect(s)'
    <3>1. /\ exch["leg"][s].exec \in Nat /\ exch["repair"][s].exec \in Nat /\ intent.repaired[s] \in Nat
          /\ outside[s] \in Int /\ campaign[s] \in Nat /\ quantities[s] \in Nat
      BY ActiveFacts DEF IInv, TypeOK
    <3>2. pos[s] - outside[s] = campaign[s] + quantities[s] +
             (Signed(exch["leg"][s].exec) - intent.repaired[s] - exch["repair"][s].exec)
      BY DEF IInv, Books, Net, Effect
    <3>3. pos'[s] = Moved(k, s, x.exec)
      BY <1>1
    <3>4. CASE k = "leg"
      <4>1. exch'["leg"][s].exec = x.exec /\ exch'["repair"][s].exec = exch["repair"][s].exec
        BY <1>2, <3>4
      <4>2. Moved(k, s, x.exec) = pos[s] + (Signed(x.exec) - Signed(exch["leg"][s].exec))
        BY <1>3, <3>1, <3>4 DEF Moved, Adding, Signed
      <4> QED BY <1>3, <3>1, <3>2, <3>3, <4>1, <4>2 DEF Net, Effect, Signed, Active
    <3>5. CASE k = "repair"
      <4>1. exch'["leg"][s].exec = exch["leg"][s].exec /\ exch'["repair"][s].exec = x.exec
        BY <1>2, <3>5
      <4>2. Moved(k, s, x.exec) = pos[s] - (x.exec - exch["repair"][s].exec)
        BY <3>5 DEF Moved, Adding
      <4> QED BY <1>3, <3>1, <3>2, <3>3, <4>1, <4>2 DEF Net, Effect, Signed, Active
    <3> QED BY <3>4, <3>5
  <2> QED BY <2>1, <2>2 DEF Books
<1> QED BY <1>5, <1>6, <1>7, <1>8, <1>9, <1>10 DEF IInv

LEMMA ExecuteInv ==
  ASSUME IInv, NEW k \in Slot, NEW s \in Side, NEW st \in {"live", "final"}, NEW e \in Fills, Execute(k, s, st, e)
  PROVE  IInv'
<1> DEFINE x == [state |-> st, exec |-> e]
<1>1. e \in Nat /\ x \in Exch /\ x.exec = e /\ x.state = st
  BY Types DEF Exch
<1>2. exch[k][s].state \in {"flight", "live"} /\ exch[k][s].exec <= e /\ e <= leg[k][s].qty
  BY DEF Execute
<1>3. Active
  BY <1>2 DEF IInv, QuietWhenIdle
<1>4. OrderOK(leg[k][s], x)
  BY <1>1, <1>2, <1>3, ActiveFacts DEF OrderOK
<1> QED BY <1>1, <1>2, <1>3, <1>4, RecordInv DEF Execute

LEMMA VoidInv == ASSUME IInv, NEW k \in Slot, NEW s \in Side, Void(k, s) PROVE IInv'
<1> DEFINE x == [state |-> "void", exec |-> 0]
<1>1. x \in Exch /\ x.exec = 0 /\ x.state = "void"
  BY DEF Exch
<1>2. exch[k][s].state = "flight" /\ pos' = pos
  BY DEF Void
<1>3. Active
  BY <1>2 DEF IInv, QuietWhenIdle
<1>4. OrderOK(leg[k][s], x) /\ exch[k][s].exec = 0
  BY <1>1, <1>2, <1>3, ActiveFacts DEF OrderOK
<1>5. pos \in [Side -> Nat]
  BY DEF IInv, TypeOK
<1>6. Moved(k, s, x.exec) = pos[s]
  BY <1>1, <1>4, <1>5 DEF Moved
<1>7. Moved(k, s, x.exec) >= 0 /\ pos' = [pos EXCEPT ![s] = Moved(k, s, x.exec)]
  BY <1>2, <1>5, <1>6
<1> QED BY <1>1, <1>2, <1>3, <1>4, <1>7, RecordInv DEF Void

LEMMA ManualInv == ASSUME IInv, NEW s \in Side, NEW d \in {Step, 0 - Step}, Manual(s, d) PROVE IInv'
<1> USE DEF ledger, account, batch
<1>1. /\ pos[s] + d >= 0 /\ pos' = [pos EXCEPT ![s] = pos[s] + d]
      /\ outside' = [outside EXCEPT ![s] = outside[s] + d] /\ mishaps' = mishaps + 1
      /\ UNCHANGED <<ledger, account, batch, pc, exch, shown, posts, rounds, started>>
  BY DEF Manual
<1>2. d \in Int /\ pos \in [Side -> Nat] /\ outside \in [Side -> Int]
  BY HedgeAssumption DEF IInv, TypeOK
<1>3. pos' \in [Side -> Nat] /\ outside' \in [Side -> Int]
  BY <1>1, <1>2
<1>4. \A t \in Side : pos'[t] - outside'[t] = pos[t] - outside[t]
  BY <1>1, <1>2
<1>5. TypeOK'
  BY <1>1, <1>3 DEF IInv, TypeOK
<1>6. QuietWhenIdle' /\ BatchShape' /\ Journal' /\ Control'
  BY <1>1 DEF IInv, QuietWhenIdle, BatchShape, Journal, Control, Active, Expected, Round, AllFinal
<1>7. RepairBound' /\ Attempts'
  BY <1>1 DEF IInv, RepairBound, Attempts, Active, Signed, Round
<1>8. Books'
  BY <1>1, <1>4 DEF IInv, Books, Net, Effect, Signed, Active
<1> QED BY <1>5, <1>6, <1>7, <1>8 DEF IInv

-----------------------------------------------------------------------------
(* The theorems *)

LEMMA NextInv == IInv /\ [Next]_vars => IInv'
<1> SUFFICES ASSUME IInv, [Next]_vars PROVE IInv'
  OBVIOUS
<1>1. CASE Turn
  <2>1. CASE (\E q \in Lots : StartPair(q) \/ StartOpen(q)) \/ StartClose
    BY <2>1, StartInv
  <2>2. CASE CycleMismatch \/ ModesChanged \/ TickPending \/ PauseAccount \/ TurnFails
    BY <2>2, TurnStepsInv
  <2>3. CASE Post
    BY <2>3, PostInv
  <2>4. CASE NotSent
    BY <2>4, NotSentInv
  <2>5. CASE \E told \in SUBSET Side : Answer(told)
    BY <2>5, AnswerInv
  <2>6. CASE \E found \in SUBSET OrderId : Query(found) \/ QueryInvalid(found)
    BY <2>6, QueryInv
  <2>7. CASE PairMismatch \/ PairStuck \/ CycleLag \/ CycleStuck \/ JudgeRefused
    BY <2>7, JudgeQuietInv
  <2>8. CASE PairRepair \/ CycleRepair
    BY <2>8, PairRepairInv, CycleRepairInv
  <2>9. CASE PairEnds \/ CycleHolds \/ CycleEnds
    BY <2>9, PairEndsInv, CycleHoldsInv, CycleEndsInv
  <2>10. CASE FinishCampaign
    BY <2>10, DecisionsInv
  <2> QED BY <1>1, <2>1, <2>2, <2>3, <2>4, <2>5, <2>6, <2>7, <2>8, <2>9, <2>10 DEF Turn
<1>2. CASE Operator
  <2>1. CASE Enable \/ Pause \/ Configure
    BY <2>1, OperatorQuietInv
  <2>2. CASE Retry
    BY <2>2, RetryInv
  <2>3. CASE ConfirmRecovery
    BY <2>3, DecisionsInv
  <2> QED BY <1>2, <2>1, <2>2, <2>3 DEF Operator
<1>3. CASE World
  <2>1. CASE \E k \in Slot, s \in Side, st \in {"live", "final"}, e \in Fills : Execute(k, s, st, e)
    BY <2>1, ExecuteInv
  <2>2. CASE \E k \in Slot, s \in Side : Void(k, s)
    BY <2>2, VoidInv
  <2>3. CASE GrowLate \/ \E s \in Side : ShowsUp(s)
    BY <2>3, OperatorQuietInv
  <2>4. CASE \E s \in Side, d \in {Step, 0 - Step} : Manual(s, d)
    BY <2>4, ManualInv
  <2> QED BY <1>3, <2>1, <2>2, <2>3, <2>4 DEF World
<1>4. CASE Crash
  BY <1>4, OperatorQuietInv
<1>5. CASE UNCHANGED vars
  <2>1. /\ mode \in {"pair", "cycle"} /\ enabled \in BOOLEAN /\ mismatch \in BOOLEAN
        /\ shown \in [Side -> Nat] /\ mishaps \in Nat /\ pc \in Pc
    BY DEF IInv, TypeOK
  <2> QED BY <1>5, <2>1, SameIntent, QuietStepInv DEF vars, account, batch, world, counters
<1> QED BY <1>1, <1>2, <1>3, <1>4, <1>5 DEF Next

\* In every state of every execution the intent row, the receipts, the turn
\* and the exchange's records agree, whatever is lost, repeated or interrupted.
THEOREM Invariance == Spec => []IInv
<1>1. Init => IInv
  BY InitInv
<1>2. IInv /\ [Next]_vars => IInv'
  BY NextInv
<1> QED BY <1>1, <1>2, PTL DEF Spec

\* Attempts and positions are never negative, checks keep their limit.
THEOREM Typed == Spec => []TypeOK
<1>1. IInv => TypeOK
  BY DEF IInv
<1> QED BY <1>1, Invariance, PTL

\* Every position is the campaign, the running cycle, the open batch and what
\* the program does not claim: no fill is lost or counted twice over lost
\* answers, repairs, retries and crashes.
THEOREM BooksKept == Spec => []Books
<1>1. IInv => Books
  BY DEF IInv
<1> QED BY <1>1, Invariance, PTL

\* No order is posted twice, and since the last retry no more repair rounds
\* were posted than attempts were counted, within the limit.
THEOREM SubmittedOnce == Spec => []SubmitOnce
<1>1. IInv => SubmitOnce
  BY DEF IInv, Attempts, SubmitOnce
<1> QED BY <1>1, Invariance, PTL

\* Nothing can execute after its batch has ended, and no repair overlaps the
\* orders it repairs.
THEOREM NothingStray == Spec => []NoStrayOrder
<1>1. ASSUME IInv PROVE NoStrayOrder
  <2>1. ~Active => Settled("leg") /\ Settled("repair")
    BY <1>1 DEF IInv, QuietWhenIdle, Settled
  <2>2. ASSUME intent.repairing PROVE Settled("leg")
    <3>1. Active
      BY <1>1, <2>2 DEF IInv, QuietWhenIdle, NoIntent
    <3>2. \A s \in Side : leg["leg"][s].receipt = "final" /\ OrderOK(leg["leg"][s], exch["leg"][s])
      BY <1>1, <2>2, <3>1, ActiveFacts DEF IInv, BatchShape
    <3> QED BY <3>2 DEF OrderOK, Settled
  <2> QED BY <2>1, <2>2 DEF NoStrayOrder
<1> QED BY <1>1, Invariance, PTL

\* What was there before is never sold, and of the cycle's own never more than
\* it holds, not even by orders whose outcome nobody knows yet.
THEOREM BaseUntouched == Spec => []BaseKept
<1>1. ASSUME IInv PROVE BaseKept
  <2> SUFFICES ASSUME NEW s \in Side PROVE Net(s) - AtRisk(s) >= campaign[s]
    BY DEF BaseKept
  <2>1. /\ Net(s) = campaign[s] + quantities[s] + Effect(s) /\ campaign[s] \in Nat /\ quantities[s] \in Nat
        /\ leg["leg"][s].qty \in Nat /\ leg["repair"][s].qty \in Nat /\ leg["leg"][s].exec \in Nat
        /\ exch["leg"][s].exec \in Nat /\ exch["repair"][s].exec \in Nat /\ intent.repaired[s] \in Nat
    BY <1>1, ActiveFacts DEF IInv, Books, TypeOK
  <2>2. CASE ~Active
    BY <2>1, <2>2 DEF Effect, AtRisk
  <2>3. CASE Active
    <3>1. /\ exch["leg"][s].exec <= leg["leg"][s].qty /\ exch["repair"][s].exec <= leg["repair"][s].qty
          /\ leg["leg"][s].receipt = "final" => exch["leg"][s].exec = leg["leg"][s].exec
          /\ intent.phase = "close" => quantities[s] = leg["leg"][s].qty
      BY <1>1, <2>3, ActiveFacts DEF OrderOK, IInv, BatchShape
    <3>2. Effect(s) = Signed(exch["leg"][s].exec) - intent.repaired[s] - exch["repair"][s].exec
      BY <2>3 DEF Effect
    <3>3. CASE intent.repairing
      <4>1. leg["leg"][s].receipt = "final"
        BY <1>1, <2>3, <3>3 DEF IInv, BatchShape
      <4>2. (IF intent.phase = "close" THEN quantities[s] ELSE 0)
              + Signed(exch["leg"][s].exec) - intent.repaired[s] >= leg["repair"][s].qty
        BY <1>1, <2>3, <3>1, <3>3, <4>1 DEF IInv, RepairBound
      <4>3. AtRisk(s) = IF leg["repair"][s].receipt # "final"
                        THEN leg["repair"][s].qty - exch["repair"][s].exec ELSE 0
        BY <2>3, <4>1 DEF AtRisk
      <4> QED BY <2>1, <3>1, <3>2, <4>2, <4>3 DEF Signed
    <3>4. CASE ~intent.repairing
      <4>1. /\ intent.repaired[s] = 0 /\ leg["repair"][s] = NoLeg
            /\ exch["repair"][s].exec = 0
        <5>1. intent.repaired[s] = 0 /\ leg["repair"][s] = NoLeg
          BY <1>1, <2>3, <3>4 DEF IInv, BatchShape
        <5> QED BY <2>1, <3>1, <5>1, NewOrders
      <4>2. AtRisk(s) = IF intent.phase = "close" /\ leg["leg"][s].receipt # "final"
                        THEN leg["leg"][s].qty - exch["leg"][s].exec ELSE 0
        BY <2>3, <4>1, NewOrders DEF AtRisk
      <4>3. intent.phase \in {"open", "close"}
        BY <1>1, ActiveFacts DEF Intent
      <4> QED BY <2>1, <3>1, <3>2, <4>1, <4>2, <4>3 DEF Signed
    <3> QED BY <3>3, <3>4
  <2> QED BY <2>2, <2>3
<1> QED BY <1>1, Invariance, PTL

\* A step that ends a batch is one of three.
LEMMA EndingSteps ==
  ASSUME IInv, Active, [Next]_vars, intent'.kind = "none"
  PROVE  PairEnds \/ CycleHolds \/ CycleEnds
<1>1. intent'.kind = intent.kind \/ PairEnds \/ CycleHolds \/ CycleEnds
  <2> USE ActiveFacts DEF Intent, batch
  <2>1. CASE Turn
    <3>1. CASE \/ (\E q \in Lots : StartPair(q) \/ StartOpen(q)) \/ StartClose
               \/ CycleMismatch \/ FinishCampaign
      BY <3>1 DEF StartPair, StartOpen, StartClose, CycleMismatch, FinishCampaign, Ready
    <3>2. CASE ModesChanged \/ Post \/ NotSent \/ TickPending \/ PauseAccount \/ TurnFails
      BY <3>2 DEF ModesChanged, Post, NotSent, TickPending, PauseAccount, TurnFails, Synced
    <3>3. CASE \/ \E told \in SUBSET Side : Answer(told)
               \/ \E found \in SUBSET OrderId : Query(found) \/ QueryInvalid(found)
      BY <3>3 DEF Answer, Query, QueryInvalid, Attention
    <3>4. CASE PairMismatch \/ PairStuck \/ CycleLag \/ CycleStuck \/ JudgeRefused
      BY <3>4 DEF PairMismatch, PairStuck, CycleLag, CycleStuck, JudgeRefused, Attend, Attention, Synced
    <3>5. CASE PairRepair \/ CycleRepair
      BY <3>5 DEF PairRepair, CycleRepair, SaveRepairs
    <3> QED BY <2>1, <3>1, <3>2, <3>3, <3>4, <3>5 DEF Turn
  <2>2. CASE Operator
    BY <2>2 DEF Operator, Enable, Pause, Configure, Retry, ConfirmRecovery
  <2>3. CASE World
    BY <2>3 DEF World, Execute, Void, ShowsUp, Manual, GrowLate
  <2>4. CASE Crash \/ UNCHANGED vars
    BY <2>4 DEF Crash, vars
  <2> QED BY <2>1, <2>2, <2>3, <2>4 DEF Next
<1> QED BY <1>1 DEF Active

\* A batch ends hedged by what was really executed: a pair within the
\* tolerance, a cycle with its whole quantity on both sides or with nothing.
THEOREM BatchesEndHedged == Spec => EndsHedged
<1>1. ASSUME IInv, [Next]_vars, Active, intent'.kind = "none"
      PROVE  IF intent.kind = "pair" THEN Balanced(After)
             ELSE \/ After = Floor
                  \/ /\ intent.phase = "open"
                     /\ \A s \in Side : After[s] = intent.before[s] + intent.qty
  <2>1. PairEnds \/ CycleHolds \/ CycleEnds
    BY <1>1, EndingSteps
  <2>2. pc = "judge" /\ shown = ByReceipts
    BY <2>1 DEF PairEnds, CycleHolds, CycleEnds, Judging, Agrees
  <2>3. After = shown
    BY <1>1, <2>2, JudgeFacts DEF After, ByReceipts
  <2>4. CASE PairEnds
    BY <2>3, <2>4 DEF PairEnds, Judging
  <2>5. CASE CycleEnds
    BY <2>3, <2>5 DEF CycleEnds, Judging
  <2>6. CASE CycleHolds
    <3>1. intent.phase = "open" /\ intent.kind = "cycle" /\ ~intent.repairing
      BY <2>6 DEF CycleHolds, Judging, Full
    <3>2. \A s \in Side : leg["leg"][s].exec = intent.qty
      BY <2>6 DEF CycleHolds, Full
    <3>3. \A s \in Side : NetOf(s) = intent.qty
      BY <1>1, <2>2, <3>1, <3>2, JudgeFacts DEF Signed
    <3>4. \A s \in Side : After[s] = intent.before[s] + intent.qty
      BY <1>1, <2>2, <2>3, <3>3, JudgeFacts
    <3> QED BY <3>1, <3>4
  <2> QED BY <2>1, <2>4, <2>5, <2>6
<1>2. IInv /\ [Next]_vars =>
        [Active /\ intent'.kind = "none" =>
           IF intent.kind = "pair" THEN Balanced(After)
           ELSE \/ After = Floor
                \/ /\ intent.phase = "open"
                   /\ \A s \in Side : After[s] = intent.before[s] + intent.qty]_vars
  BY <1>1
<1> QED BY <1>2, Invariance, PTL DEF Spec, EndsHedged

=============================================================================

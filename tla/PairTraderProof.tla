-------------------------- MODULE PairTraderProof --------------------------
(***************************************************************************)
(* Proofs about PairTrader, for any set of sides and all bounds: the       *)
(* invariants, and, at the end, that what the trader does to positions and *)
(* ledger is a step of the abstract PairLedger or none.                    *)
(***************************************************************************)
EXTENDS PairTraderInv, SequenceTheorems, TLAPS

USE DEF Slot, Strategy, Phase, Pc, Call, ExchState, Unread

-----------------------------------------------------------------------------
(* Types and effects of the helpers *)

\* A journal entry stays a journal entry through every helper.
LEMMA LegTypes ==
  /\ NoLeg \in Leg /\ NoExch \in Exch /\ Zero \in [Side -> Nat]
  /\ NoPending \in Pending /\ NoLegs \in [Slot -> [Side -> Leg]]
  /\ \A q \in Nat : Prepared(q) \in Leg
  /\ \A l \in Leg : [l EXCEPT !.dispatch = "sending"] \in Leg
  /\ \A l \in Leg, b \in BOOLEAN : Absent(l, b) \in Leg
  /\ \A l \in Leg, st \in {"live", "final"}, e \in Nat : Receipt(l, st, e) \in Leg
<1>1. NoLeg \in Leg /\ NoExch \in Exch /\ Zero \in [Side -> Nat]
  BY DEF NoLeg, NoExch, Zero, Leg, Exch
<1>2. NoPending \in Pending /\ NoLegs \in [Slot -> [Side -> Leg]]
  BY <1>1 DEF NoPending, NoLegs, Pending
<1>3. \A q \in Nat : Prepared(q) \in Leg
  BY DEF Prepared, Leg
<1>4. \A l \in Leg : [l EXCEPT !.dispatch = "sending"] \in Leg
  BY DEF Leg
<1>5. \A l \in Leg, b \in BOOLEAN : Absent(l, b) \in Leg
  BY DEF Absent, Leg
<1>6. \A l \in Leg, st \in {"live", "final"}, e \in Nat : Receipt(l, st, e) \in Leg
  BY DEF Receipt, Leg
<1> QED BY <1>1, <1>2, <1>3, <1>4, <1>5, <1>6

\* The fields of the entries the helpers build.
LEMMA LegFields ==
  ASSUME NEW l \in Leg
  PROVE  /\ \A b \in BOOLEAN :
              /\ Absent(l, b).dispatch = l.dispatch /\ Absent(l, b).receipt = "final"
              /\ Absent(l, b).qty = l.qty /\ Absent(l, b).exec = 0 /\ Absent(l, b).local = b
         /\ \A st \in {"live", "final"}, e \in Nat :
              /\ Receipt(l, st, e).dispatch = l.dispatch
              /\ Receipt(l, st, e).receipt = IF st = "final" THEN "final" ELSE "open"
              /\ Receipt(l, st, e).qty = l.qty /\ Receipt(l, st, e).exec = e
              /\ Receipt(l, st, e).local = l.local
  BY DEF Leg, Absent, Receipt

\* Writing one entry leaves every other entry alone.
LEMMA SetLegEffect ==
  ASSUME leg \in [Slot -> [Side -> Leg]], NEW k \in Slot, NEW s \in Side, NEW l \in Leg, SetLeg(k, s, l)
  PROVE  /\ leg' \in [Slot -> [Side -> Leg]]
         /\ leg'[k][s] = l
         /\ \A j \in Slot, t \in Side : j # k \/ t # s => leg'[j][t] = leg[j][t]
  BY DEF SetLeg

-----------------------------------------------------------------------------
(* The inductive invariant *)

LEMMA InitInv == Init => IInv
<1> SUFFICES ASSUME Init PROVE IInv
  OBVIOUS
<1> USE BoundsAssumption DEF Init, Zero, NoPending, NoLegs, NoLeg, NoExch, AllIdle, NotRead, Active
<1>1. TypeOK
  <2>1. NoLeg \in Leg /\ NoExch \in Exch /\ Zero \in [Side -> Nat]
    BY DEF Leg, Exch
  <2>2. NoPending \in Pending
    BY <2>1 DEF Pending
  <2>3. leg \in [Slot -> [Side -> Leg]] /\ exch \in [Slot -> [Side -> Exch]]
    BY <2>1
  <2>4. pos \in [Side -> Nat] /\ outside \in [Side -> Int]
    OBVIOUS
  <2>5. sends \in [Slot -> [Side -> Nat]]
    OBVIOUS
  <2>6. watched \in Seq(Archived) /\ Len(watched) <= MaxWatch
    BY EmptySeq
  <2> QED BY <2>1, <2>2, <2>3, <2>4, <2>5, <2>6 DEF TypeOK
<1>2. QuietWhenIdle /\ BatchShape /\ RepairBound /\ Attempts
  BY DEF QuietWhenIdle, BatchShape, RepairBound, Attempts, Even
<1>3. Journal
  BY DEF Journal
<1>4. Control
  BY DEF Control, Dispatching
<1>5. Books
  BY DEF Books, Net, Truth, Expected
<1> QED BY <1>1, <1>2, <1>3, <1>4, <1>5 DEF IInv

\* A step that leaves the batch, the exchange and the accounts alone preserves
\* every part of the invariant but Control.
LEMMA TurnOnlyInv ==
  ASSUME IInv, strategy' \in Strategy, enabled' \in BOOLEAN, attention' \in BOOLEAN, mishaps' \in Nat,
         pc' \in Pc, call' \in [Side -> Call], seen' \in [Side -> Nat \cup {Unread}],
         pc' = pc \/ pc' \notin {"repairArmed", "repairing"},
         ~Active => pc' = "idle",
         UNCHANGED <<owned, quantities, pending, leg, exch, pos, outside, watched, sends, started>>
  PROVE  Control' => IInv'
<1>1. TypeOK'
  BY DEF IInv, TypeOK
<1>2. QuietWhenIdle' /\ BatchShape' /\ RepairBound' /\ Attempts'
  BY DEF IInv, QuietWhenIdle, BatchShape, RepairBound, Attempts, Active, Expected, Signed, Floor, Target
<1>3. Journal'
  BY DEF IInv, Journal, Active
<1>4. Books'
  BY DEF IInv, Books, Net, Truth, Expected, Signed, Active
<1> QED BY <1>1, <1>2, <1>3, <1>4 DEF IInv

\* What Control says while the pair rests or queries: no thread is running.
LEMMA RestControl ==
  ASSUME call' = AllIdle, pc' \in {"idle", "query"} \/ (pc' = "read" /\ AllFinal')
  PROVE  Control'
  BY DEF Control, Dispatching, AllIdle

\* Steps of a turn that only move it on, and the operator's switches.
LEMMA TurnStepsInv ==
  ASSUME IInv,
         \/ TickMismatch \/ EndSending \/ TickPending \/ QueryIncomplete \/ QueryComplete
         \/ JudgeMismatch \/ (\E commit \in BOOLEAN : JudgeUnrepairable(commit))
         \/ TurnFails \/ ReviewFails \/ Pause \/ Configure \/ ArchiveFails \/ Crash
  PROVE  IInv'
<1> USE DEF durable, process, exchange, ghosts
<1>1. /\ strategy \in Strategy /\ enabled \in BOOLEAN /\ attention \in BOOLEAN /\ mishaps \in Nat
      /\ call \in [Side -> Call] /\ seen \in [Side -> Nat \cup {Unread}]
      /\ NotRead \in [Side -> Nat \cup {Unread}] /\ AllIdle \in [Side -> Call]
  BY DEF IInv, TypeOK, NotRead, AllIdle
<1>2. ~Dispatching => call = AllIdle
  BY DEF IInv, Control
<1>3. pc # "idle" => Active
  BY DEF IInv, QuietWhenIdle
<1>4. CASE TickMismatch
  BY <1>1, <1>2, <1>4, TurnOnlyInv, RestControl DEF TickMismatch, Ready, Dispatching
<1>5. CASE EndSending
  BY <1>1, <1>3, <1>5, TurnOnlyInv, RestControl DEF EndSending
<1>6. CASE TickPending
  BY <1>1, <1>2, <1>6, TurnOnlyInv, RestControl DEF TickPending, Dispatching
<1>7. CASE QueryIncomplete
  BY <1>1, <1>2, <1>7, TurnOnlyInv, RestControl DEF QueryIncomplete, Dispatching
<1>8. CASE QueryComplete
  <2>1. AllFinal'
    BY <1>8 DEF QueryComplete, AllFinal
  <2> QED BY <1>1, <1>2, <1>3, <1>8, <2>1, TurnOnlyInv, RestControl DEF QueryComplete, Dispatching
<1>9. CASE JudgeMismatch
  BY <1>1, <1>2, <1>9, TurnOnlyInv, RestControl DEF JudgeMismatch, Judging, Attend, Dispatching
<1>10. CASE \E commit \in BOOLEAN : JudgeUnrepairable(commit)
  BY <1>1, <1>2, <1>10, TurnOnlyInv, RestControl DEF JudgeUnrepairable, Verdict, Judging, Attend, Dispatching
<1>11. CASE TurnFails
  BY <1>1, <1>2, <1>11, TurnOnlyInv, RestControl DEF TurnFails, Dispatching
<1>12. CASE ReviewFails
  BY <1>1, <1>2, <1>12, TurnOnlyInv, RestControl DEF ReviewFails, Attend, Dispatching
<1>13. CASE Pause
  BY <1>1, <1>2, <1>13, TurnOnlyInv, RestControl DEF Pause, Dispatching
<1>14. CASE Configure
  BY <1>1, <1>2, <1>14, TurnOnlyInv, RestControl DEF Configure, Ready, Dispatching
<1>15. CASE ArchiveFails
  BY <1>1, <1>2, <1>15, TurnOnlyInv, RestControl DEF ArchiveFails, Dispatching
<1>16. CASE Crash
  BY <1>1, <1>16, TurnOnlyInv, RestControl DEF Crash
<1> QED BY <1>4, <1>5, <1>6, <1>7, <1>8, <1>9, <1>10, <1>11, <1>12, <1>13, <1>14, <1>15, <1>16

\* Reading the accounts, for the verdict, the review or the archive.
LEMMA ReadPositionInv == ASSUME IInv, NEW s \in Side, ReadPosition(s) PROVE IInv'
<1>1. /\ pc \in {"read", "review", "archive"} /\ pc' = pc /\ call' = call /\ seen' = [seen EXCEPT ![s] = pos[s]]
      /\ UNCHANGED <<strategy, enabled, owned, quantities, attention, pending, leg, exch, pos,
                     outside, watched, sends, started, mishaps>>
  BY DEF ReadPosition, durable, exchange, ghosts
<1>2. Control'
  BY <1>1 DEF IInv, Control, Dispatching, AllFinal, OrdinaryOpen, AllIdle
<1>3. /\ strategy' \in Strategy /\ enabled' \in BOOLEAN /\ attention' \in BOOLEAN /\ mishaps' \in Nat
      /\ pc' \in Pc /\ call' \in [Side -> Call] /\ seen' \in [Side -> Nat \cup {Unread}]
  BY <1>1 DEF IInv, TypeOK
<1>4. Active
  BY <1>1 DEF IInv, QuietWhenIdle
<1> QED BY <1>1, <1>2, <1>3, <1>4, TurnOnlyInv

LEMMA GoReviewInv == ASSUME IInv, GoReview PROVE IInv'
<1>1. /\ pc = "read" /\ pc' = "review" /\ OrdinaryOpen /\ Active /\ call' = call /\ seen' = NotRead
      /\ UNCHANGED <<strategy, enabled, owned, quantities, attention, pending, leg, exch, pos,
                     outside, watched, sends, started, mishaps>>
  BY DEF GoReview, Judging, Reviewable, OrdinaryOpen, Active, durable, exchange, ghosts
<1>2. Control'
  BY <1>1 DEF IInv, Control, Dispatching, AllFinal, OrdinaryOpen, AllIdle
<1>3. /\ strategy' \in Strategy /\ enabled' \in BOOLEAN /\ attention' \in BOOLEAN /\ mishaps' \in Nat
      /\ pc' \in Pc /\ call' \in [Side -> Call] /\ seen' \in [Side -> Nat \cup {Unread}]
  BY <1>1 DEF IInv, TypeOK, NotRead
<1> QED BY <1>1, <1>2, <1>3, TurnOnlyInv

LEMMA BeginArchiveInv == ASSUME IInv, BeginArchive PROVE IInv'
<1>1. /\ pc = "idle" /\ pc' = "archive" /\ Active /\ call' = call /\ seen' = NotRead
      /\ pending.phase = "open" /\ ~pending.repairing
      /\ UNCHANGED <<strategy, enabled, owned, quantities, attention, pending, leg, exch, pos,
                     outside, watched, sends, started, mishaps>>
  BY DEF BeginArchive, durable, exchange, ghosts
<1>2. Control'
  BY <1>1 DEF IInv, Control, Dispatching, AllIdle
<1>3. /\ strategy' \in Strategy /\ enabled' \in BOOLEAN /\ attention' \in BOOLEAN /\ mishaps' \in Nat
      /\ pc' \in Pc /\ call' \in [Side -> Call] /\ seen' \in [Side -> Nat \cup {Unread}]
  BY <1>1 DEF IInv, TypeOK, NotRead
<1> QED BY <1>1, <1>2, <1>3, TurnOnlyInv

\* The answer is lost: the receipt stays unknown.
LEMMA AnswerUnknownInv == ASSUME IInv, NEW s \in Side, AnswerUnknown(s) PROVE IInv'
<1>1. /\ pc \in {"sending", "repairing"} /\ pc' = pc /\ Dispatching' /\ Round' = Round
      /\ call' = [call EXCEPT ![s] = "idle"]
      /\ UNCHANGED <<strategy, enabled, owned, quantities, attention, pending, leg, seen, exch, pos,
                     outside, watched, sends, started, mishaps>>
  BY DEF AnswerUnknown, Answered, Dispatching, Round, ghosts
<1>2. call'[s] = "idle" /\ \A t \in Side : t # s => call'[t] = call[t]
  BY <1>1 DEF IInv, TypeOK
<1>3. Control'
  BY <1>1, <1>2 DEF IInv, Control, Dispatching
<1>4. /\ strategy' \in Strategy /\ enabled' \in BOOLEAN /\ attention' \in BOOLEAN /\ mishaps' \in Nat
      /\ pc' \in Pc /\ call' \in [Side -> Call] /\ seen' \in [Side -> Nat \cup {Unread}]
  BY <1>1 DEF IInv, TypeOK
<1>5. Active
  BY <1>1 DEF IInv, QuietWhenIdle
<1> QED BY <1>1, <1>3, <1>4, <1>5, TurnOnlyInv

\* A new receipt for one open entry, consistent with the exchange, preserves
\* every part of the invariant but Control, which each action settles itself.
LEMMA EntryInv ==
  ASSUME IInv, Active, NEW k \in Slot, NEW s \in Side, NEW l \in Leg,
         leg[k][s].receipt # "final",
         l.dispatch = leg[k][s].dispatch, l.qty = leg[k][s].qty, OrderOK(l, exch[k][s]),
         SetLeg(k, s, l), call' \in [Side -> Call],
         UNCHANGED <<strategy, enabled, owned, quantities, attention, pending, pc, seen, exch, pos,
                     outside, watched, sends, started, mishaps>>
  PROVE  Control' => IInv'
<1>1. leg' \in [Slot -> [Side -> Leg]]
  BY SetLegEffect DEF IInv, TypeOK
<1>2. leg'[k][s] = l
  BY SetLegEffect DEF IInv, TypeOK
<1>3. \A j \in Slot, t \in Side : j # k \/ t # s => leg'[j][t] = leg[j][t]
  BY SetLegEffect DEF IInv, TypeOK
<1>4. \A j \in Slot, t \in Side : /\ leg'[j][t].dispatch = leg[j][t].dispatch
                                  /\ leg'[j][t].qty = leg[j][t].qty
  BY <1>2, <1>3
<1>5. pending.repairing => k = "repair"
  BY DEF IInv, BatchShape
<1>6. ~pending.repairing => k = "leg"
  BY DEF IInv, BatchShape, NoLeg
<1>7. TypeOK'
  BY <1>1 DEF IInv, TypeOK
<1>8. QuietWhenIdle'
  BY DEF QuietWhenIdle, Active
<1>9. BatchShape'
  BY <1>2, <1>3, <1>4, <1>5, <1>6 DEF IInv, BatchShape, Active, Expected
<1>10. Journal'
  BY <1>2, <1>3 DEF IInv, Journal, Active
<1>11. RepairBound'
  BY <1>3, <1>4, <1>5 DEF IInv, RepairBound, Active, Signed, Floor, Target
<1>12. Attempts'
  BY DEF IInv, Attempts, Active
<1>13. Books'
  BY DEF IInv, Books, Net, Truth, Expected, Signed, Active
<1> QED BY <1>7, <1>8, <1>9, <1>10, <1>11, <1>12, <1>13 DEF IInv

\* Control after one thread has reported.
LEMMA AnsweredControl ==
  ASSUME IInv, Dispatching, NEW s \in Side, NEW l \in Leg,
         l.dispatch = leg[Round][s].dispatch, SetLeg(Round, s, l), exch' = exch,
         Answered(s)
  PROVE  /\ Active /\ Round \in Slot /\ call' \in [Side -> Call]
         /\ UNCHANGED <<strategy, enabled, owned, quantities, attention, pending, pc, seen, pos,
                        outside, watched, sends, started, mishaps>>
         /\ Control'
<1>1. Active /\ Round \in Slot
  BY DEF IInv, QuietWhenIdle, Dispatching, Round
<1>2. /\ call' = [call EXCEPT ![s] = "idle"] /\ call' \in [Side -> Call]
      /\ UNCHANGED <<strategy, enabled, owned, quantities, attention, pending, pc, seen, pos,
                     outside, watched, sends, started, mishaps>>
  BY DEF Answered, ghosts, IInv, TypeOK
<1>3. \A j \in Slot, t \in Side : j # Round \/ t # s => leg'[j][t] = leg[j][t]
  BY <1>1, SetLegEffect DEF IInv, TypeOK
<1>4. leg'[Round][s] = l
  BY <1>1, SetLegEffect DEF IInv, TypeOK
<1>5. \A j \in Slot, t \in Side : leg'[j][t].dispatch = leg[j][t].dispatch
  BY <1>3, <1>4
<1>6. Dispatching' /\ Round' = Round /\ pc' \in {"sending", "repairing"}
  BY <1>2 DEF Dispatching, Round
<1>7. call'[s] = "idle" /\ \A t \in Side : t # s => call'[t] = call[t]
  BY <1>2 DEF IInv, TypeOK
<1>8. Control'
  BY <1>1, <1>2, <1>3, <1>5, <1>6, <1>7 DEF IInv, Control
<1> QED BY <1>1, <1>2, <1>8

\* A new order agrees with an exchange that has never heard of it.
LEMMA NewOrders ==
  /\ NoLeg.dispatch = "none" /\ NoLeg.qty = 0 /\ OrderOK(NoLeg, NoExch)
  /\ \A q \in Nat : /\ Prepared(q).dispatch = "prepared" /\ Prepared(q).receipt = "unknown"
                     /\ Prepared(q).qty = q /\ OrderOK(Prepared(q), NoExch)
<1>1. NoLeg.dispatch = "none" /\ NoLeg.qty = 0 /\ OrderOK(NoLeg, NoExch)
  BY DEF NoLeg, NoExch, OrderOK
<1>2. \A q \in Nat : /\ Prepared(q).dispatch = "prepared" /\ Prepared(q).receipt = "unknown"
                     /\ Prepared(q).qty = q /\ OrderOK(Prepared(q), NoExch)
  BY DEF Prepared, NoExch, OrderOK
<1> QED BY <1>1, <1>2

\* A saved intent: every order prepared, nothing known to the exchange.
LEMMA SaveIntentInv ==
  ASSUME IInv, Ready, started' \in Nat,
         NEW kind \in Strategy, NEW phase \in Phase, NEW q \in Nat \ {0},
         phase = "open" => \A s \in Side : quantities[s] = 0,
         phase = "close" => kind = "cycle" /\ \A s \in Side : quantities[s] = q,
         SaveIntent(kind, phase, q)
  PROVE  IInv'
<1> USE BoundsAssumption
<1>1. /\ pending = NoPending /\ leg = NoLegs /\ call = AllIdle
      /\ sends = [k \in Slot |-> Zero]
  BY DEF IInv, QuietWhenIdle, Ready, Control, Dispatching
<1>2. Expected \in [Side -> Nat] /\ \A s \in Side : Expected[s] = owned[s] + quantities[s]
  BY DEF IInv, TypeOK, Expected
<1>3. /\ pending' \in Pending /\ pending'.kind = kind /\ pending'.phase = phase /\ pending'.qty = q
      /\ pending'.before = Expected /\ pending'.attempts = 0 /\ ~pending'.repairing
      /\ \A s \in Side : pending'.repaired[s] = 0
  BY <1>2, LegTypes DEF SaveIntent, NoPending, Pending, Zero
<1>4. /\ leg' \in [Slot -> [Side -> Leg]]
      /\ \A s \in Side : leg'["leg"][s] = Prepared(q) /\ leg'["repair"][s] = NoLeg
  BY LegTypes DEF SaveIntent, NoLegs
<1>5. /\ exch' \in [Slot -> [Side -> Exch]]
      /\ \A k \in Slot, s \in Side : exch'[k][s] = NoExch
  BY LegTypes DEF SaveIntent
<1>6. /\ pc' = "armed" /\ Active' /\ ~Dispatching'
      /\ UNCHANGED <<strategy, enabled, owned, quantities, attention, call, seen, pos, outside, watched, sends, mishaps>>
  BY <1>3 DEF SaveIntent, Active, Dispatching
<1>7. TypeOK'
  BY <1>3, <1>4, <1>5, <1>6 DEF IInv, TypeOK
<1>8. QuietWhenIdle'
  BY <1>6 DEF QuietWhenIdle
<1>9. BatchShape'
  BY <1>2, <1>3, <1>4, <1>6 DEF BatchShape, Prepared, Expected
<1>10. Journal'
  BY <1>4, <1>5, <1>6 DEF Journal, OrderOK, Prepared, NoLeg, NoExch
<1>11. Control'
  BY <1>1, <1>3, <1>4, <1>6 DEF Control, Prepared, AllIdle
<1>12. RepairBound'
  BY <1>3 DEF RepairBound
<1>13. Attempts'
  BY <1>1, <1>3, <1>6 DEF Attempts, Zero
<1>14. Books'
  <2>1. \A s \in Side : Net[s] = Expected[s]
    BY DEF IInv, Books, Truth, Ready
  <2>2. \A s \in Side : Net'[s] = Net[s]
    BY <1>6 DEF Net
  <2>3. \A s \in Side : Truth(s)' = Expected[s]
    BY <1>2, <1>3, <1>5, <1>6 DEF Truth, Signed, NoExch
  <2> QED BY <2>1, <2>2, <2>3 DEF Books
<1> QED BY <1>7, <1>8, <1>9, <1>10, <1>11, <1>12, <1>13, <1>14 DEF IInv

LEMMA StartOpenInv ==
  ASSUME IInv, NEW q \in MinQty .. MaxQty, StartOpen(q)
  PROVE  IInv'
<1>1. started' \in Nat /\ q \in Nat \ {0} /\ strategy \in Strategy
  BY BoundsAssumption DEF StartOpen, IInv, TypeOK
<1>2. \A s \in Side : quantities[s] = 0
  BY DEF StartOpen, Holding
<1> QED BY <1>1, <1>2, SaveIntentInv DEF StartOpen

LEMMA StartCloseInv == ASSUME IInv, StartClose PROVE IInv'
<1>1. PICK q \in MinQty .. MaxQty : (\A s \in Side : quantities[s] = q) /\ SaveIntent("cycle", "close", q)
  BY DEF StartClose
<1>2. started' \in Nat /\ q \in Nat \ {0}
  BY BoundsAssumption DEF StartClose, IInv, TypeOK
<1> QED BY <1>1, <1>2, SaveIntentInv DEF StartClose

LEMMA DispatchInv == ASSUME IInv, Dispatch PROVE IInv'
<1>1. /\ pc = "armed" /\ Active /\ ~pending.repairing /\ call' = [s \in Side |-> "ready"] /\ pc' = "sending"
      /\ UNCHANGED <<strategy, enabled, owned, quantities, attention, pending, seen, exch, pos,
                     outside, watched, sends, started, mishaps>>
  BY DEF Dispatch, IInv, QuietWhenIdle, Control, exchange, ghosts
<1>2. \A s \in Side : /\ leg["leg"][s] \in Leg /\ leg["leg"][s].dispatch = "prepared"
                      /\ leg["leg"][s].receipt = "unknown"
  BY <1>1 DEF IInv, TypeOK, Control
<1>3. \A s \in Side : leg'["leg"][s] = [leg["leg"][s] EXCEPT !.dispatch = "sending"]
  BY DEF Dispatch, IInv, TypeOK
<1>4. leg' \in [Slot -> [Side -> Leg]] /\ leg'["repair"] = leg["repair"]
  BY <1>2, LegTypes DEF Dispatch, IInv, TypeOK
<1>5. \A s \in Side : /\ leg'["leg"][s].dispatch = "sending"
                      /\ leg'["leg"][s].receipt = leg["leg"][s].receipt
                      /\ leg'["leg"][s].qty = leg["leg"][s].qty
                      /\ leg'["leg"][s].exec = leg["leg"][s].exec
                      /\ leg'["leg"][s].local = leg["leg"][s].local
  BY <1>2, <1>3 DEF Leg
<1>6. Active' /\ Dispatching' /\ Round' = "leg"
  BY <1>1 DEF Active, Dispatching, Round
<1>7. TypeOK'
  BY <1>1, <1>4 DEF IInv, TypeOK
<1>8. QuietWhenIdle' /\ BatchShape'
  BY <1>1, <1>4, <1>5, <1>6 DEF IInv, QuietWhenIdle, BatchShape, Expected
<1>9. Journal'
  BY <1>1, <1>2, <1>4, <1>5, <1>6 DEF IInv, Journal, OrderOK, NoLeg, NoExch
<1>10. Control'
  BY <1>1, <1>2, <1>5, <1>6 DEF IInv, Control, Journal, OrderOK, NoExch, AllIdle
<1>11. RepairBound' /\ Attempts'
  BY <1>1, <1>4, <1>5 DEF IInv, RepairBound, Attempts, Floor, Target, Signed
<1>12. Books'
  BY <1>1 DEF IInv, Books, Net, Truth, Expected, Signed, Active
<1> QED BY <1>7, <1>8, <1>9, <1>10, <1>11, <1>12 DEF IInv

LEMMA WithdrawInv == ASSUME IInv, Withdraw PROVE IInv'
<1>1. /\ pc = "armed" /\ Active /\ ~pending.repairing /\ pc' = "query"
      /\ UNCHANGED <<strategy, enabled, owned, quantities, attention, pending, call, seen, exch, pos,
                     outside, watched, sends, started, mishaps>>
  BY DEF Withdraw, IInv, QuietWhenIdle, Control, exchange, ghosts
<1>2. \A s \in Side : /\ leg["leg"][s] \in Leg /\ leg["leg"][s].dispatch = "prepared"
                      /\ leg["leg"][s].receipt = "unknown"
  BY <1>1 DEF IInv, TypeOK, Control
<1>3. \A s \in Side : leg'["leg"][s] = Absent(leg["leg"][s], TRUE)
  BY DEF Withdraw, IInv, TypeOK
<1>4. leg' \in [Slot -> [Side -> Leg]] /\ leg'["repair"] = leg["repair"]
  BY <1>2, LegTypes DEF Withdraw, IInv, TypeOK
<1>5. \A s \in Side : /\ leg'["leg"][s].dispatch = "prepared" /\ leg'["leg"][s].receipt = "final"
                      /\ leg'["leg"][s].qty = leg["leg"][s].qty
                      /\ leg'["leg"][s].exec = 0 /\ leg'["leg"][s].local = TRUE
  <2> TAKE s \in Side
  <2>1. leg'["leg"][s] = [leg["leg"][s] EXCEPT !.receipt = "final", !.exec = 0, !.local = TRUE]
    BY <1>3 DEF Absent
  <2> QED BY <2>1, <1>2 DEF Leg
<1>6. Active' /\ ~Dispatching' /\ ~Dispatching
  BY <1>1 DEF Active, Dispatching
<1>7. TypeOK'
  BY <1>1, <1>4 DEF IInv, TypeOK
<1>8. QuietWhenIdle' /\ BatchShape'
  BY <1>1, <1>4, <1>5, <1>6 DEF IInv, QuietWhenIdle, BatchShape, Expected
<1>9. Journal'
  BY <1>1, <1>2, <1>4, <1>5, <1>6 DEF IInv, Journal, OrderOK, NoLeg, NoExch
<1>10. Control'
  BY <1>1, <1>6 DEF IInv, Control, AllIdle
<1>11. RepairBound' /\ Attempts'
  BY <1>1, <1>4, <1>5 DEF IInv, RepairBound, Attempts, Floor, Target, Signed
<1>12. Books'
  BY <1>1 DEF IInv, Books, Net, Truth, Expected, Signed, Active
<1> QED BY <1>7, <1>8, <1>9, <1>10, <1>11, <1>12 DEF IInv

LEMMA NotSentInv == ASSUME IInv, NEW s \in Side, NotSent(s) PROVE IInv'
<1> DEFINE l == Absent(leg[Round][s], TRUE)
<1>1. Round \in Slot /\ leg[Round][s] \in Leg /\ l \in Leg
  BY LegTypes DEF IInv, TypeOK, Round
<1>2. /\ l.dispatch = leg[Round][s].dispatch /\ l.receipt = "final" /\ l.qty = leg[Round][s].qty
      /\ l.exec = 0 /\ l.local = TRUE
  BY <1>1, LegFields
<1> HIDE DEF l
<1>3. /\ leg[Round][s].dispatch = "sending" /\ leg[Round][s].receipt = "unknown"
      /\ exch[Round][s].state = "none" /\ exch[Round][s].exec = 0
  BY <1>1 DEF NotSent, IInv, Control, QuietWhenIdle, Dispatching, Journal, OrderOK
<1>4. OrderOK(l, exch[Round][s])
  BY <1>1, <1>2, <1>3 DEF OrderOK, Leg
<1>5. SetLeg(Round, s, l) /\ Answered(s) /\ Dispatching /\ exch' = exch
  BY DEF NotSent, l
<1>6. /\ Active /\ call' \in [Side -> Call] /\ Control'
      /\ UNCHANGED <<strategy, enabled, owned, quantities, attention, pending, pc, seen, pos,
                     outside, watched, sends, started, mishaps>>
  BY <1>1, <1>2, <1>5, AnsweredControl
<1> QED BY <1>1, <1>2, <1>3, <1>4, <1>5, <1>6, EntryInv

LEMMA AnswerReceiptInv == ASSUME IInv, NEW s \in Side, AnswerReceipt(s) PROVE IInv'
<1> DEFINE x == exch[Round][s]
           l == Receipt(leg[Round][s], x.state, x.exec)
<1>1. /\ Round \in Slot /\ leg[Round][s] \in Leg
      /\ x.state \in {"live", "final"} /\ x.exec \in Nat
  BY DEF IInv, TypeOK, Round, Exch, AnswerReceipt
<1>0. l \in Leg
  BY <1>1, LegTypes
<1>2. /\ l.dispatch = leg[Round][s].dispatch /\ l.qty = leg[Round][s].qty /\ l.exec = x.exec
      /\ l.receipt = (IF x.state = "final" THEN "final" ELSE "open") /\ l.local = leg[Round][s].local
  BY <1>1, LegFields
<1>3. SetLeg(Round, s, l) /\ Answered(s) /\ Dispatching /\ exch' = exch
  BY DEF AnswerReceipt
<1> HIDE DEF l
<1>4. /\ leg[Round][s].dispatch = "sending" /\ leg[Round][s].receipt = "unknown"
      /\ OrderOK(leg[Round][s], x)
  BY <1>1 DEF AnswerReceipt, IInv, Control, QuietWhenIdle, Dispatching, Journal
<1>5. OrderOK(l, x)
  BY <1>0, <1>1, <1>2, <1>4 DEF OrderOK, Leg
<1>6. /\ Active /\ call' \in [Side -> Call] /\ Control'
      /\ UNCHANGED <<strategy, enabled, owned, quantities, attention, pending, pc, seen, pos,
                     outside, watched, sends, started, mishaps>>
  BY <1>0, <1>1, <1>2, <1>3, AnsweredControl
<1> QED BY <1>0, <1>1, <1>2, <1>3, <1>4, <1>5, <1>6, EntryInv

LEMMA AnswerRejectedInv == ASSUME IInv, NEW s \in Side, AnswerRejected(s) PROVE IInv'
<1> DEFINE l == Absent(leg[Round][s], FALSE)
<1>1. Round \in Slot /\ leg[Round][s] \in Leg /\ l \in Leg
  BY LegTypes DEF IInv, TypeOK, Round
<1>2. /\ l.dispatch = leg[Round][s].dispatch /\ l.receipt = "final" /\ l.qty = leg[Round][s].qty
      /\ l.exec = 0 /\ l.local = FALSE
  BY <1>1, LegFields
<1> HIDE DEF l
<1>3. /\ leg[Round][s].dispatch = "sending" /\ leg[Round][s].receipt = "unknown"
      /\ exch[Round][s].state = "void" /\ exch[Round][s].exec = 0
  BY <1>1 DEF AnswerRejected, IInv, Control, QuietWhenIdle, Dispatching, Journal, OrderOK
<1>4. OrderOK(l, exch[Round][s])
  BY <1>1, <1>2, <1>3 DEF OrderOK, Leg
<1>5. SetLeg(Round, s, l) /\ Answered(s) /\ Dispatching /\ exch' = exch
  BY DEF AnswerRejected, l
<1>6. /\ Active /\ call' \in [Side -> Call] /\ Control'
      /\ UNCHANGED <<strategy, enabled, owned, quantities, attention, pending, pc, seen, pos,
                     outside, watched, sends, started, mishaps>>
  BY <1>1, <1>2, <1>5, AnsweredControl
<1> QED BY <1>1, <1>2, <1>3, <1>4, <1>5, <1>6, EntryInv

LEMMA QueryUnsentInv == ASSUME IInv, NEW k \in Slot, NEW s \in Side, QueryUnsent(k, s) PROVE IInv'
<1> DEFINE l == Absent(leg[k][s], TRUE)
<1>1. leg[k][s] \in Leg /\ l \in Leg
  BY LegTypes DEF IInv, TypeOK
<1>2. /\ l.dispatch = leg[k][s].dispatch /\ l.receipt = "final" /\ l.qty = leg[k][s].qty
      /\ l.exec = 0 /\ l.local = TRUE
  BY <1>1, LegFields
<1>3. /\ pc = "query" /\ Active /\ SetLeg(k, s, l)
      /\ UNCHANGED <<strategy, enabled, owned, quantities, attention, pending, pc, call, seen, exch, pos,
                     outside, watched, sends, started, mishaps>>
  BY DEF QueryUnsent, IInv, QuietWhenIdle, process, exchange, ghosts
<1> HIDE DEF l
<1>4. leg[k][s].dispatch = "prepared" /\ leg[k][s].receipt # "final" /\ exch[k][s] = NoExch
  BY <1>3 DEF QueryUnsent, IInv, Journal, OrderOK
<1>5. OrderOK(l, exch[k][s])
  BY <1>1, <1>2, <1>4 DEF OrderOK, NoExch, Leg
<1>6. call' \in [Side -> Call] /\ Control'
  BY <1>3 DEF IInv, TypeOK, Control, Dispatching, AllIdle
<1> QED BY <1>1, <1>2, <1>3, <1>4, <1>5, <1>6, EntryInv

LEMMA QueryRowInv ==
  ASSUME IInv, NEW k \in Slot, NEW s \in Side, NEW st \in {"live", "final"}, NEW e \in 0 .. MaxQty,
         QueryRow(k, s, st, e)
  PROVE  IInv'
<1> USE BoundsAssumption
<1> DEFINE l == Receipt(leg[k][s], st, e)
<1>0. leg[k][s] \in Leg /\ e \in Nat
  BY DEF IInv, TypeOK
<1>1. l \in Leg
  BY <1>0, LegTypes
<1>2. /\ l.dispatch = leg[k][s].dispatch /\ l.qty = leg[k][s].qty /\ l.exec = e
      /\ l.receipt = (IF st = "final" THEN "final" ELSE "open") /\ l.local = leg[k][s].local
  BY <1>0, LegFields
<1>3. /\ pc = "query" /\ Active /\ SetLeg(k, s, l)
      /\ UNCHANGED <<strategy, enabled, owned, quantities, attention, pending, pc, call, seen, exch, pos,
                     outside, watched, sends, started, mishaps>>
  BY DEF QueryRow, IInv, QuietWhenIdle, process, exchange, ghosts
<1> HIDE DEF l
<1>4. /\ leg[k][s].dispatch = "sending" /\ leg[k][s].receipt # "final"
      /\ exch[k][s].state \in {"live", "final"}
      /\ e <= exch[k][s].exec
      /\ st = "final" => exch[k][s].state = "final" /\ e = exch[k][s].exec
      /\ OrderOK(leg[k][s], exch[k][s]) /\ exch[k][s] \in Exch
  BY <1>3 DEF QueryRow, IInv, TypeOK, Journal, Exch
<1>5. OrderOK(l, exch[k][s])
  BY <1>0, <1>1, <1>2, <1>4 DEF OrderOK, Leg, Exch
<1>6. call' \in [Side -> Call] /\ Control'
  BY <1>3 DEF IInv, TypeOK, Control, Dispatching, AllIdle
<1> QED BY <1>0, <1>1, <1>2, <1>3, <1>4, <1>5, <1>6, EntryInv

LEMMA EndRepairingInv == ASSUME IInv, EndRepairing PROVE IInv'
<1>1. /\ pc = "repairing" /\ Active /\ pending \in Pending /\ pending.repairing /\ pending.attempts > 0
      /\ call = AllIdle /\ pc' = "idle"
      /\ UNCHANGED <<strategy, enabled, owned, quantities, attention, leg, call, seen, exch, pos,
                     outside, watched, sends, started, mishaps>>
  BY DEF EndRepairing, IInv, TypeOK, QuietWhenIdle, Control, exchange, ghosts
<1>2. CASE UNCHANGED pending
  <2>1. TypeOK'
    BY <1>1, <1>2 DEF IInv, TypeOK
  <2>2. QuietWhenIdle' /\ BatchShape' /\ RepairBound' /\ Attempts'
    BY <1>1, <1>2 DEF IInv, QuietWhenIdle, BatchShape, RepairBound, Attempts, Active, Expected, Signed,
                      Floor, Target
  <2>3. Journal'
    BY <1>1, <1>2 DEF IInv, Journal, Active
  <2>4. Control' /\ Books'
    BY <1>1, <1>2 DEF IInv, Control, Dispatching, Books, Net, Truth, Expected, Signed, Active, AllIdle
  <2> QED BY <2>1, <2>2, <2>3, <2>4 DEF IInv
<1>3. CASE /\ \A s \in Side : leg["repair"][s].dispatch = "sending" =>
                  leg["repair"][s].receipt = "final" /\ leg["repair"][s].local
           /\ pending' = [pending EXCEPT !.attempts = @ - 1]
  <2>0. pending.attempts - 1 \in Nat /\ pending.attempts \in Nat
    BY <1>1 DEF Pending
  <2>1. /\ pending' \in Pending /\ pending'.attempts = pending.attempts - 1
        /\ pending'.kind = pending.kind /\ pending'.phase = pending.phase /\ pending'.qty = pending.qty
        /\ pending'.before = pending.before /\ pending'.repaired = pending.repaired
        /\ pending'.repairing
    BY <1>1, <1>3, <2>0 DEF Pending
  <2>2. \A s \in Side : exch["repair"][s].state = "none"
    BY <1>1, <1>3 DEF IInv, TypeOK, Control, Journal, OrderOK, NoExch, Leg
  <2>3. \A s \in Side : sends["repair"][s] <= pending.attempts - 1
    BY <1>1, <2>2 DEF IInv, Attempts
  <2>4. Active' /\ ~Dispatching'
    BY <1>1, <2>1 DEF Active, Dispatching
  <2>5. TypeOK'
    BY <1>1, <2>1 DEF IInv, TypeOK
  <2>6. QuietWhenIdle' /\ BatchShape'
    BY BoundsAssumption, <1>1, <2>0, <2>1, <2>4 DEF IInv, QuietWhenIdle, BatchShape, Expected
  <2>7. Journal'
    BY <1>1, <2>4 DEF IInv, Journal
  <2>8. Control'
    BY <1>1, <2>4 DEF IInv, Control, AllIdle
  <2>9. RepairBound' /\ Attempts'
    BY <1>1, <2>1, <2>3, <2>4 DEF IInv, RepairBound, Attempts, Signed, Floor, Target
  <2>10. Books'
    BY <1>1, <2>1, <2>4 DEF IInv, Books, Net, Truth, Signed
  <2> QED BY <2>5, <2>6, <2>7, <2>8, <2>9, <2>10 DEF IInv
<1> QED BY <1>2, <1>3 DEF EndRepairing, RefundAttempt

\* Closing a batch whose orders are all final leaves no order behind.
LEMMA EndBatchInv ==
  ASSUME IInv, Active, AllFinal, pc \notin {"sending", "repairing"}, EndBatch,
         owned' \in [Side -> Nat], quantities' \in [Side -> Nat], Even(quantities)',
         outside' \in [Side -> Int],
         \A s \in Side : pos[s] - outside'[s] = owned'[s] + quantities'[s]
  PROVE  IInv'
<1>1. /\ attention' = FALSE /\ pending' = NoPending /\ leg' = NoLegs /\ pc' = "idle" /\ seen' = NotRead
      /\ sends' = [k \in Slot |-> Zero]
      /\ UNCHANGED <<strategy, enabled, call, exch, pos, watched, started, mishaps>>
  BY DEF EndBatch, CloseBatch
<1>2. ~Active' /\ ~Dispatching'
  BY <1>1 DEF Active, Dispatching, NoPending
<1>3. TypeOK'
  BY <1>1, LegTypes DEF IInv, TypeOK, NotRead
<1>4. QuietWhenIdle'
  BY <1>1, <1>2 DEF QuietWhenIdle
<1>5. BatchShape' /\ RepairBound' /\ Attempts'
  BY <1>2 DEF BatchShape, RepairBound, Attempts
<1>6. \A k \in Slot, s \in Side : exch[k][s].state \in {"none", "void", "final"}
  BY DEF IInv, Journal, OrderOK, AllFinal
<1>7. Journal'
  BY <1>1, <1>2, <1>6 DEF Journal
<1>8. Control'
  BY <1>1, <1>2 DEF IInv, Control, Dispatching, AllIdle
<1>9. Books'
  BY <1>1, <1>2 DEF Books, Net, Truth, Expected
<1> QED BY <1>3, <1>4, <1>5, <1>7, <1>8, <1>9 DEF IInv

\* When every receipt is final, the receipts tell the positions.
LEMMA ReceiptsTell ==
  ASSUME IInv, Active, AllFinal, NEW s \in Side
  PROVE  ByReceipts[s] = Net[s] /\ Net[s] = pos[s] - outside[s]
<1>1. \A k \in Slot : exch[k][s].exec = leg[k][s].exec
  BY DEF IInv, Journal, OrderOK, AllFinal
<1>2. Net[s] = Truth(s)
  BY DEF IInv, Books
<1> QED BY <1>1, <1>2 DEF Truth, ByReceipts, Signed, Net

LEMMA FinishInv == ASSUME IInv, NEW commit \in BOOLEAN, Finish(commit) PROVE IInv'
<1>1. /\ pc = "read" /\ Active /\ AllFinal /\ EndBatch /\ outside' = outside
      /\ seen = ByReceipts /\ \A s \in Side : seen[s] = Goal(commit)[s]
      /\ commit \/ pending.phase = "open"
  BY DEF Finish, Reached, Verdict, Judging, MayRollBack, IInv, QuietWhenIdle, Control
<1>2. /\ pending \in Pending /\ owned \in [Side -> Nat] /\ quantities \in [Side -> Nat]
      /\ outside \in [Side -> Int] /\ pending.qty \in Nat /\ pending.before = Expected
      /\ pending.phase \in Phase /\ pending.kind \in {"ordinary", "cycle"}
  BY <1>1 DEF IInv, TypeOK, Pending, BatchShape, Active
<1>3. \A s \in Side : pos[s] - outside[s] = Goal(commit)[s]
  BY <1>1, ReceiptsTell
<1>4. \A s \in Side : pending.before[s] = owned[s] + quantities[s]
  BY <1>2 DEF Expected
<1>5. /\ pending.phase = "open" => \A s \in Side : quantities[s] = 0
      /\ pending.phase = "close" => pending.kind = "cycle" /\ \A s \in Side : quantities[s] = pending.qty
  BY <1>1 DEF IInv, BatchShape
<1>6. CASE ~commit
  <2>1. owned' = owned /\ quantities' = quantities /\ pending.phase = "open"
    BY <1>1, <1>6 DEF Finish
  <2>2. \A s \in Side : Goal(commit)[s] = owned[s] + quantities[s]
    BY <1>4, <1>6 DEF Goal
  <2>3. Even(quantities)'
    BY <1>5, <2>1 DEF Even
  <2> QED BY <1>1, <1>2, <1>3, <2>1, <2>2, <2>3, EndBatchInv
<1>7. CASE commit /\ pending.kind = "ordinary"
  <2>1. owned' = Target /\ quantities' = Zero /\ pending.phase = "open"
    BY <1>2, <1>5, <1>7 DEF Finish
  <2>2. \A s \in Side : Target[s] = owned[s] + pending.qty /\ Goal(commit)[s] = Target[s]
    BY <1>2, <1>4, <1>5, <1>7, <2>1 DEF Target, Goal
  <2>3. owned' \in [Side -> Nat]
    BY <1>2, <2>1, <2>2 DEF Target
  <2>4. quantities' \in [Side -> Nat] /\ Even(quantities)' /\ \A s \in Side : quantities'[s] = 0
    BY <2>1 DEF Even, Zero
  <2>5. \A s \in Side : pos[s] - outside'[s] = owned'[s] + quantities'[s]
    BY <1>1, <1>2, <1>3, <2>1, <2>2, <2>4
  <2> QED BY <1>1, <1>2, <2>3, <2>4, <2>5, EndBatchInv
<1>8. CASE commit /\ pending.kind = "cycle" /\ pending.phase = "open"
  <2>1. owned' = owned /\ quantities' = [s \in Side |-> pending.qty]
    BY <1>8 DEF Finish
  <2>2. \A s \in Side : Goal(commit)[s] = owned[s] + pending.qty
    BY <1>2, <1>4, <1>5, <1>8 DEF Target, Goal
  <2>3. quantities' \in [Side -> Nat] /\ Even(quantities)'
    BY <1>2, <2>1 DEF Even
  <2> QED BY <1>1, <1>2, <1>3, <2>1, <2>2, <2>3, EndBatchInv
<1>9. CASE commit /\ pending.kind = "cycle" /\ pending.phase = "close"
  <2>1. owned' = owned /\ quantities' = Zero
    BY <1>9 DEF Finish
  <2>2. \A s \in Side : Goal(commit)[s] = owned[s]
    BY <1>2, <1>4, <1>5, <1>9 DEF Target, Goal
  <2>3. quantities' \in [Side -> Nat] /\ Even(quantities)' /\ \A s \in Side : quantities'[s] = 0
    BY <2>1 DEF Even, Zero
  <2> QED BY <1>1, <1>2, <1>3, <2>1, <2>2, <2>3, EndBatchInv
<1> QED BY <1>2, <1>6, <1>7, <1>8, <1>9

LEMMA AdoptReviewedInv == ASSUME IInv, AdoptReviewed PROVE IInv'
<1>1. /\ pc = "review" /\ Active /\ AllFinal /\ EndBatch
      /\ owned' = seen /\ quantities' = Zero /\ outside' = [s \in Side |-> pos[s] - seen[s]]
  BY DEF AdoptReviewed, IInv, QuietWhenIdle, Control
<1>2. seen \in [Side -> Nat] /\ pos \in [Side -> Nat]
  BY DEF AdoptReviewed, AllRead, IInv, TypeOK
<1>3. quantities' \in [Side -> Nat] /\ Even(quantities)' /\ \A s \in Side : quantities'[s] = 0
  BY <1>1 DEF Even, Zero
<1>4. outside' \in [Side -> Int] /\ \A s \in Side : pos[s] - outside'[s] = owned'[s] + quantities'[s]
  BY <1>1, <1>2, <1>3
<1> QED BY <1>1, <1>2, <1>3, <1>4, EndBatchInv

LEMMA SkipPositionsInv == ASSUME IInv, SkipPositions PROVE IInv'
<1>1. /\ pc = "idle" /\ Active /\ AllFinal /\ EndBatch /\ pending.phase = "open"
      /\ owned' = owned /\ quantities' = quantities /\ outside' = [s \in Side |-> pos[s] - owned[s]]
  BY DEF SkipPositions, OrdinaryOpen, Active
<1>2. /\ owned \in [Side -> Nat] /\ pos \in [Side -> Nat] /\ quantities \in [Side -> Nat]
      /\ \A s \in Side : quantities[s] = 0
  BY <1>1 DEF IInv, TypeOK, BatchShape
<1>3. Even(quantities)'
  BY <1>1, <1>2 DEF Even
<1>4. outside' \in [Side -> Int] /\ \A s \in Side : pos[s] - outside'[s] = owned'[s] + quantities'[s]
  BY <1>1, <1>2
<1> QED BY <1>1, <1>2, <1>3, <1>4, EndBatchInv

\* An order put under watch, or moved by the exchange, leaves the list a list.
LEMMA WatchTypes ==
  ASSUME IInv, NEW i \in DOMAIN watched, NEW s \in Side, NEW x \in Exch,
         watched' = [watched EXCEPT ![i].orders[s] = x]
  PROVE  watched' \in Seq(Archived) /\ Len(watched') = Len(watched)
<1>1. watched \in Seq(Archived) /\ i \in 1 .. Len(watched) /\ watched[i] \in Archived
  BY ElementOfSeq DEF IInv, TypeOK
<1> DEFINE a == [watched[i] EXCEPT !.orders = [watched[i].orders EXCEPT ![s] = x]]
<1>2. a \in Archived
  BY <1>1 DEF Archived
<1>3. watched' = [watched EXCEPT ![i] = a]
  BY <1>1 DEF Archived
<1> HIDE DEF a
<1> QED BY <1>1, <1>2, <1>3, ExceptSeq

\* The archive ends a batch whose orders nobody can decide, and the record keeps
\* no open order: both of them are in the watch list.
LEMMA ArchiveInv == ASSUME IInv, Archive PROVE IInv'
<1>1. /\ pc = "archive" /\ Active /\ pending.phase = "open" /\ ~pending.repairing /\ call = AllIdle
      /\ owned' = owned /\ quantities' = Zero /\ outside' = [s \in Side |-> pos[s] - owned[s]]
      /\ attention' = FALSE /\ pending' = NoPending /\ leg' = NoLegs /\ pc' = "idle" /\ seen' = NotRead
      /\ sends' = [k \in Slot |-> Zero]
      /\ UNCHANGED <<strategy, enabled, call, pos, started, mishaps>>
  BY DEF Archive, CloseBatch, IInv, QuietWhenIdle, Control, Dispatching
<1>2. ~Active' /\ ~Dispatching'
  BY <1>1 DEF Active, Dispatching, NoPending
<1>3. /\ exch' \in [Slot -> [Side -> Exch]] /\ exch'["repair"] = exch["repair"]
      /\ \A s \in Side : exch'["leg"][s] = NoExch
  BY LegTypes DEF Archive, IInv, TypeOK
<1>4. \A s \in Side : exch["repair"][s] = NoExch
  BY <1>1 DEF IInv, BatchShape, Journal, OrderOK, NoLeg
<1>5. watched' \in Seq(Archived) /\ Len(watched') <= MaxWatch
  <2> DEFINE a == [qty |-> pending.qty, orders |-> exch["leg"]]
  <2>1. a \in Archived
    BY DEF IInv, TypeOK, Pending, Archived
  <2>2. watched \in Seq(Archived) /\ Len(watched) < MaxWatch /\ watched' = Append(watched, a)
    BY DEF Archive, IInv, TypeOK
  <2> HIDE DEF a
  <2>3. watched' \in Seq(Archived) /\ Len(watched') = Len(watched) + 1
    BY <2>1, <2>2, AppendProperties
  <2> QED BY <2>2, <2>3, LenProperties, BoundsAssumption
<1>6. \A s \in Side : quantities'[s] = 0
  BY <1>1 DEF Zero
<1>7. TypeOK'
  <2>1. TypeOK
    BY DEF IInv
  <2>2. /\ quantities' \in [Side -> Nat] /\ outside' \in [Side -> Int]
        /\ seen' \in [Side -> Nat \cup {Unread}] /\ sends' \in [Slot -> [Side -> Nat]]
    BY <1>1, <2>1 DEF TypeOK, NotRead, Zero
  <2>3. pending' \in Pending /\ leg' \in [Slot -> [Side -> Leg]]
    BY <1>1, LegTypes
  <2> QED BY <1>1, <1>3, <1>5, <2>1, <2>2, <2>3 DEF TypeOK
<1>8. QuietWhenIdle'
  BY <1>1, <1>6 DEF QuietWhenIdle, Even
<1>9. BatchShape' /\ RepairBound' /\ Attempts'
  BY <1>2 DEF BatchShape, RepairBound, Attempts
<1>10. Journal'
  BY <1>2, <1>3, <1>4 DEF Journal, NoExch
<1>11. Control'
  BY <1>1, <1>2 DEF Control, Dispatching, AllIdle
<1>12. Books'
  <2> SUFFICES ASSUME NEW s \in Side PROVE Net'[s] = Truth(s)'
    BY DEF Books
  <2>1. pos[s] \in Nat /\ owned[s] \in Nat
    BY DEF IInv, TypeOK
  <2>2. Net'[s] = pos[s] - (pos[s] - owned[s]) /\ Truth(s)' = owned[s] + 0
    BY <1>1, <1>2, <1>6 DEF Net, Truth, Expected
  <2> QED BY <2>1, <2>2
<1> QED BY <1>7, <1>8, <1>9, <1>10, <1>11, <1>12 DEF IInv

\* With nothing pending, the operator may set the ledger to the real positions.
LEMMA AdoptInv ==
  ASSUME IInv, Ready, enabled' \in BOOLEAN, attention' \in BOOLEAN,
         owned' \in [Side -> Nat], quantities' = Zero, outside' = Zero,
         \A s \in Side : owned'[s] = pos[s],
         UNCHANGED <<strategy, pending, leg, pc, call, seen, exch, pos, watched, sends, started, mishaps>>
  PROVE  IInv'
<1>1. \A s \in Side : quantities'[s] = 0 /\ outside'[s] = 0
  BY DEF Zero
<1>2. quantities' \in [Side -> Nat] /\ outside' \in [Side -> Int]
  BY DEF Zero
<1>3. ~Active /\ ~Active'
  BY DEF Ready, Active
<1>4. TypeOK'
  BY <1>2 DEF IInv, TypeOK
<1>5. QuietWhenIdle'
  BY <1>1, <1>3 DEF IInv, QuietWhenIdle, Even
<1>6. BatchShape' /\ RepairBound' /\ Attempts'
  BY <1>3 DEF BatchShape, RepairBound, Attempts
<1>7. Journal'
  BY <1>3 DEF IInv, Journal
<1>8. Control'
  BY DEF Ready, IInv, Control, Dispatching, AllIdle
<1>9. Books'
  <2> SUFFICES ASSUME NEW s \in Side PROVE Net'[s] = Truth(s)'
    BY DEF Books
  <2>1. pos[s] \in Nat /\ owned'[s] = pos[s] /\ Net'[s] = pos[s] - 0
    BY <1>1 DEF Net, IInv, TypeOK
  <2>2. Truth(s)' = owned'[s] + 0
    BY <1>1, <1>3 DEF Truth, Expected
  <2> QED BY <2>1, <2>2
<1> QED BY <1>4, <1>5, <1>6, <1>7, <1>8, <1>9 DEF IInv

LEMMA ActivateInv == ASSUME IInv, Activate PROVE IInv'
<1>1. pos \in [Side -> Nat]
  BY DEF IInv, TypeOK
<1> QED BY <1>1, AdoptInv DEF Activate, process, exchange

LEMMA ReconcileFlatInv == ASSUME IInv, ReconcileFlat PROVE IInv'
<1>1. pos \in [Side -> Nat] /\ enabled \in BOOLEAN
  BY DEF IInv, TypeOK
<1> QED BY <1>1, AdoptInv DEF ReconcileFlat, process, exchange

LEMMA RebaseInv == ASSUME IInv, Rebase PROVE IInv'
<1>1. pos \in [Side -> Nat] /\ enabled \in BOOLEAN
  BY DEF IInv, TypeOK
<1> QED BY <1>1, AdoptInv DEF Rebase, process, exchange

\* A repair round is planned only from positions that every receipt explains,
\* and sells no more than what stands beyond the goal.
LEMMA SaveRepairsInv ==
  ASSUME IInv, NEW commit \in BOOLEAN, SaveRepairs(commit)
  PROVE  IInv'
<1> USE BoundsAssumption
<1>1. /\ pc = "read" /\ Active /\ AllFinal /\ seen = ByReceipts /\ Repairable(commit)
      /\ commit => pending.phase = "close" \/ (Full /\ ~pending.repairing)
      /\ ~commit => pending.phase = "open"
      /\ pc' = "repairArmed" /\ seen' = NotRead
      /\ UNCHANGED <<strategy, enabled, owned, quantities, attention, call, pos,
                     outside, watched, sends, started, mishaps>>
  BY DEF SaveRepairs, Verdict, Judging, MayCommit, MayRollBack, IInv, QuietWhenIdle, Control, ghosts
<1>2. /\ pending \in Pending /\ pending.before \in [Side -> Nat] /\ pending.repaired \in [Side -> Nat]
      /\ pending.qty \in Nat /\ pending.attempts \in Nat
      /\ \A k \in Slot, s \in Side : leg[k][s] \in Leg /\ leg[k][s].exec \in Nat
      /\ call = AllIdle
  BY <1>1 DEF IInv, TypeOK, Pending, Leg, Control, Dispatching
<1>3. \A s \in Side : Goal(commit)[s] \in Int
  BY <1>2 DEF Goal, Target
<1>4. \A s \in Side : /\ seen[s] \in Int
                      /\ seen[s] = pending.before[s] + Signed(leg["leg"][s].exec)
                                   - pending.repaired[s] - leg["repair"][s].exec
                      /\ seen[s] >= Goal(commit)[s]
                      /\ seen[s] # Goal(commit)[s] => seen[s] - Goal(commit)[s] \in Nat \ {0}
  BY <1>1, <1>2, <1>3 DEF ByReceipts, Signed, Repairable
<1>5. /\ pending' \in Pending /\ pending'.kind = pending.kind /\ pending'.phase = pending.phase
      /\ pending'.qty = pending.qty /\ pending'.before = pending.before
      /\ pending'.attempts = pending.attempts + 1 /\ pending'.repairing
      /\ \A s \in Side : pending'.repaired[s] = pending.repaired[s] + leg["repair"][s].exec
  <2> DEFINE sold == [s \in Side |-> pending.repaired[s] + leg["repair"][s].exec]
  <2>1. sold \in [Side -> Nat] /\ pending.attempts + 1 \in Nat
    BY <1>2
  <2>2. pending' = [pending EXCEPT !.attempts = pending.attempts + 1, !.repairing = TRUE, !.repaired = sold]
    BY DEF SaveRepairs, NextRound
  <2>3. \A s \in Side : sold[s] = pending.repaired[s] + leg["repair"][s].exec
    OBVIOUS
  <2> HIDE DEF sold
  <2> QED BY <1>2, <2>1, <2>2, <2>3 DEF Pending
<1>6. /\ leg' = [leg EXCEPT !["repair"] = leg'["repair"]]
      /\ leg'["leg"] = leg["leg"]
      /\ leg'["repair"] =
            [s \in Side |-> IF seen[s] = Goal(commit)[s] THEN NoLeg ELSE Prepared(seen[s] - Goal(commit)[s])]
  BY DEF SaveRepairs, IInv, TypeOK
<1>7. \A s \in Side : \/ seen[s] = Goal(commit)[s] /\ leg'["repair"][s] = NoLeg
                      \/ /\ seen[s] - Goal(commit)[s] \in Nat \ {0}
                         /\ leg'["repair"][s] = Prepared(seen[s] - Goal(commit)[s])
  BY <1>4, <1>6
<1>8. leg' \in [Slot -> [Side -> Leg]]
  <2>1. \A s \in Side : leg'["repair"][s] \in Leg
    BY <1>7, LegTypes
  <2>2. leg \in [Slot -> [Side -> Leg]]
    BY DEF IInv, TypeOK
  <2> QED BY <1>6, <2>1, <2>2
<1>9. /\ exch' \in [Slot -> [Side -> Exch]] /\ exch'["leg"] = exch["leg"]
      /\ \A s \in Side : exch'["repair"][s] = NoExch
  BY LegTypes DEF SaveRepairs, IInv, TypeOK
<1>10. Active' /\ ~Dispatching'
  BY <1>1, <1>5 DEF Active, Dispatching
<1>11. TypeOK'
  BY <1>1, <1>5, <1>8, <1>9 DEF IInv, TypeOK, NotRead
<1>12. QuietWhenIdle'
  BY <1>10 DEF QuietWhenIdle
<1>13. BatchShape'
  <2>1. /\ pending'.qty > 0 /\ pending'.before = Expected'
        /\ pending'.phase = "open" => \A s \in Side : quantities'[s] = 0
        /\ pending'.phase = "close" => pending'.kind = "cycle" /\ \A s \in Side : quantities'[s] = pending'.qty
    BY <1>1, <1>5 DEF IInv, BatchShape, Expected
  <2>2. pending'.attempts <= MaxRepairs
    BY <1>1, <1>2, <1>5 DEF Repairable
  <2>3. \A s \in Side : leg'["leg"][s].receipt = "final"
    BY <1>1, <1>6 DEF AllFinal
  <2>4. \A s \in Side : leg'["leg"][s].qty = pending'.qty /\ leg'["leg"][s].dispatch # "none"
    BY <1>1, <1>5, <1>6 DEF IInv, BatchShape
  <2> QED BY <1>5, <2>1, <2>2, <2>3, <2>4 DEF BatchShape
<1>14. Journal'
  <2>1. \A s \in Side : OrderOK(leg'["leg"][s], exch'["leg"][s])
    BY <1>1, <1>6, <1>9 DEF IInv, Journal
  <2>2. \A s \in Side : OrderOK(leg'["repair"][s], exch'["repair"][s])
    BY <1>7, <1>9, NewOrders
  <2> QED BY <1>10, <2>1, <2>2 DEF Journal
<1>15. Control'
  <2>1. \A s \in Side : leg'["repair"][s].dispatch = "prepared" => leg'["repair"][s].receipt = "unknown"
    BY <1>7, NewOrders
  <2>2. \A s \in Side : exch'["repair"][s].state = "none"
    BY <1>9 DEF NoExch
  <2>3. pc' = "repairArmed" /\ call' = AllIdle /\ pending'.attempts > 0 /\ pending'.repairing
    BY <1>1, <1>2, <1>5
  <2> QED BY <2>1, <2>2, <2>3, <1>10 DEF Control, AllIdle
<1>16. RepairBound'
  <2> SUFFICES ASSUME NEW s \in Side
               PROVE  pending'.before[s] + Signed(leg["leg"][s].exec)' - pending'.repaired[s]
                        - leg'["repair"][s].qty >= Floor(s)'
    BY <1>6 DEF RepairBound
  <2>1. leg'["repair"][s].qty = seen[s] - Goal(commit)[s]
    BY <1>3, <1>4, <1>7, NewOrders
  <2>2. Goal(commit)[s] >= Floor(s) /\ Floor(s) \in Int
    <3>1. pending.phase \in {"open", "close"}
      BY <1>2 DEF Pending
    <3>2. CASE pending.phase = "close"
      <4>1. Goal(commit)[s] = Target[s] /\ Floor(s) = Target[s]
        BY <1>1, <3>2 DEF Goal, Floor
      <4> QED BY <1>3, <4>1
    <3>3. CASE pending.phase = "open"
      <4>1. Floor(s) = pending.before[s] /\ Target[s] = pending.before[s] + pending.qty
        BY <3>3 DEF Floor, Target
      <4>2. Goal(commit)[s] = Target[s] \/ Goal(commit)[s] = pending.before[s]
        BY DEF Goal
      <4> QED BY <1>2, <4>1, <4>2
    <3> QED BY <3>1, <3>2, <3>3
  <2>6. Floor(s)' = Floor(s)
    BY <1>5 DEF Floor, Target
  <2>3. Signed(leg["leg"][s].exec)' = Signed(leg["leg"][s].exec) /\ Signed(leg["leg"][s].exec) \in Int
    BY <1>2, <1>5, <1>6 DEF Signed
  <2>4. pending.repaired[s] \in Nat /\ leg["repair"][s].exec \in Nat /\ pending.before[s] \in Nat
    BY <1>2
  <2> QED BY <1>3, <1>4, <1>5, <2>1, <2>2, <2>3, <2>4, <2>6
<1>17. Attempts'
  BY <1>1, <1>2, <1>5, <1>9 DEF IInv, TypeOK, Attempts
<1>18. Books'
  <2> SUFFICES ASSUME NEW s \in Side PROVE Net'[s] = Truth(s)'
    BY DEF Books
  <2>1. exch["repair"][s].exec = leg["repair"][s].exec /\ exch["leg"][s].exec \in Nat
    BY <1>1 DEF IInv, TypeOK, Exch, Journal, OrderOK, AllFinal
  <2>2. Net[s] = pending.before[s] + Signed(exch["leg"][s].exec) - pending.repaired[s] - exch["repair"][s].exec
    BY <1>1 DEF IInv, Books, Truth
  <2>3. Net'[s] = Net[s]
    BY <1>1 DEF Net
  <2>4. Truth(s)' = pending.before[s] + Signed(exch["leg"][s].exec)
                    - (pending.repaired[s] + leg["repair"][s].exec) - 0
    BY <1>5, <1>9, <1>10 DEF Truth, Signed, NoExch
  <2>5. Signed(exch["leg"][s].exec) \in Int /\ pending.before[s] \in Nat /\ pending.repaired[s] \in Nat
        /\ leg["repair"][s].exec \in Nat
    BY <1>2, <2>1 DEF Signed
  <2> QED BY <2>1, <2>2, <2>3, <2>4, <2>5
<1> QED BY <1>11, <1>12, <1>13, <1>14, <1>15, <1>16, <1>17, <1>18 DEF IInv

LEMMA DispatchRepairsInv == ASSUME IInv, DispatchRepairs PROVE IInv'
<1>1. /\ pc = "repairArmed" /\ Active /\ pending.repairing /\ pending.attempts > 0 /\ pc' = "repairing"
      /\ call' = [s \in Side |-> IF leg["repair"][s].dispatch = "prepared" THEN "ready" ELSE "idle"]
      /\ UNCHANGED <<strategy, enabled, owned, quantities, attention, pending, seen, exch, pos,
                     outside, watched, sends, started, mishaps>>
  BY DEF DispatchRepairs, IInv, QuietWhenIdle, Control, exchange, ghosts
<1>2. \A s \in Side : /\ leg["repair"][s] \in Leg
                      /\ leg["repair"][s].dispatch = "prepared" => leg["repair"][s].receipt = "unknown"
                      /\ exch["repair"][s].state = "none"
  BY <1>1 DEF IInv, TypeOK, Control
<1>3. /\ leg'["leg"] = leg["leg"]
      /\ \A s \in Side : leg'["repair"][s] = IF leg["repair"][s].dispatch = "prepared"
                                             THEN [leg["repair"][s] EXCEPT !.dispatch = "sending"]
                                             ELSE leg["repair"][s]
      /\ leg' = [leg EXCEPT !["repair"] = leg'["repair"]]
      /\ leg'["repair"] = [s \in Side |-> leg'["repair"][s]]
  BY DEF DispatchRepairs, IInv, TypeOK
<1>4. leg' \in [Slot -> [Side -> Leg]]
  <2>1. \A s \in Side : leg'["repair"][s] \in Leg
    BY <1>2, <1>3, LegTypes
  <2> QED BY <1>3, <2>1 DEF IInv, TypeOK
<1>5. \A s \in Side : /\ leg'["repair"][s].dispatch = IF leg["repair"][s].dispatch = "prepared"
                                                      THEN "sending" ELSE leg["repair"][s].dispatch
                      /\ leg'["repair"][s].receipt = leg["repair"][s].receipt
                      /\ leg'["repair"][s].qty = leg["repair"][s].qty
                      /\ leg'["repair"][s].exec = leg["repair"][s].exec
                      /\ leg'["repair"][s].local = leg["repair"][s].local
  BY <1>2, <1>3 DEF Leg
<1>6. Active' /\ Dispatching' /\ Round' = "repair"
  BY <1>1 DEF Active, Dispatching, Round
<1>7. TypeOK'
  BY <1>1, <1>4 DEF IInv, TypeOK
<1>8. QuietWhenIdle' /\ BatchShape'
  BY <1>1, <1>3, <1>6 DEF IInv, QuietWhenIdle, BatchShape, Expected
<1>9. Journal'
  <2>1. \A s \in Side : OrderOK(leg'["leg"][s], exch'["leg"][s])
    BY <1>1, <1>3 DEF IInv, Journal
  <2>2. ASSUME NEW s \in Side PROVE OrderOK(leg'["repair"][s], exch'["repair"][s])
    <3>1. OrderOK(leg["repair"][s], exch["repair"][s])
      BY <1>1 DEF IInv, Journal
    <3>2. CASE leg["repair"][s].dispatch = "prepared"
      BY <1>1, <1>2, <1>5, <3>1, <3>2 DEF OrderOK, NoExch
    <3>3. CASE leg["repair"][s].dispatch # "prepared"
      BY <1>1, <1>3, <3>1, <3>3
    <3> QED BY <3>2, <3>3
  <2> QED BY <1>6, <2>1, <2>2 DEF Journal
<1>10. Control'
  BY <1>1, <1>2, <1>5, <1>6 DEF IInv, Control
<1>11. RepairBound' /\ Attempts'
  BY <1>1, <1>3, <1>5 DEF IInv, RepairBound, Attempts, Active, Floor, Target, Signed
<1>12. Books'
  BY <1>1 DEF IInv, Books, Net, Truth, Expected, Signed, Active
<1> QED BY <1>7, <1>8, <1>9, <1>10, <1>11, <1>12 DEF IInv

\* A request leaves: it is under way, and its order is counted once.
LEMMA SendInv == ASSUME IInv, NEW s \in Side, Send(s) PROVE IInv'
<1>1. /\ pc \in {"sending", "repairing"} /\ Active /\ Round \in Slot /\ call[s] = "ready"
      /\ UNCHANGED <<strategy, enabled, owned, quantities, attention, pending, leg, pc, seen, pos,
                     outside, started, mishaps>>
  BY DEF Send, Dispatching, Round, IInv, QuietWhenIdle, durable
<1>2. /\ exch' \in [Slot -> [Side -> Exch]] /\ exch'[Round][s] = [state |-> "flight", exec |-> 0]
      /\ \A k \in Slot, t \in Side : k # Round \/ t # s => exch'[k][t] = exch[k][t]
  BY <1>1 DEF Send, SetExch, IInv, TypeOK, Exch
<1>3. /\ sends' \in [Slot -> [Side -> Nat]] /\ sends'[Round][s] = sends[Round][s] + 1
      /\ \A k \in Slot, t \in Side : k # Round \/ t # s => sends'[k][t] = sends[k][t]
  BY <1>1 DEF Send, IInv, TypeOK
<1>4. /\ call' \in [Side -> Call] /\ call'[s] = "waiting" /\ \A t \in Side : t # s => call'[t] = call[t]
  BY DEF Send, IInv, TypeOK
<1>5. Active' /\ Dispatching' /\ Dispatching /\ Round' = Round
  BY <1>1 DEF Active, Dispatching, Round
<1>6. /\ leg[Round][s].dispatch = "sending" /\ leg[Round][s].receipt = "unknown"
      /\ exch[Round][s].state = "none" /\ OrderOK(leg[Round][s], exch[Round][s])
      /\ leg[Round][s] \in Leg /\ exch[Round][s].exec = 0
  BY <1>1, <1>5 DEF IInv, TypeOK, Control, Journal, OrderOK
<1>7. TypeOK'
  <2>1. TypeOK /\ watched' = watched
    BY DEF IInv, Send
  <2>2. sends' \in [Slot -> [Side -> Nat]] /\ call' \in [Side -> Call] /\ exch' \in [Slot -> [Side -> Exch]]
    BY <1>2, <1>3, <1>4
  <2> QED BY <1>1, <2>1, <2>2 DEF TypeOK
<1>8. QuietWhenIdle' /\ BatchShape' /\ RepairBound'
  BY <1>1, <1>5 DEF IInv, QuietWhenIdle, BatchShape, RepairBound, Expected, Signed, Floor, Target
<1>9. Journal'
  <2>1. OrderOK(leg'[Round][s], exch'[Round][s])
    BY <1>1, <1>2, <1>6 DEF OrderOK, NoLeg, Leg
  <2> QED BY <1>1, <1>2, <1>5, <2>1 DEF IInv, Journal
<1>10. Control'
  BY <1>1, <1>2, <1>4, <1>5, <1>6 DEF IInv, Control
<1>11. Attempts'
  <2> SUFFICES ASSUME NEW t \in Side
               PROVE  /\ sends'["leg"][t] <= 1
                      /\ exch'["leg"][t].state = "none" => sends'["leg"][t] = 0
                      /\ sends'["repair"][t] <= pending.attempts
                      /\ pc \in {"repairArmed", "repairing"} /\ exch'["repair"][t].state = "none"
                             => sends'["repair"][t] <= pending.attempts - 1
    BY <1>1 DEF Attempts
  <2>1. pending.attempts \in Nat /\ \A k \in Slot : sends[k][t] \in Nat
    BY DEF IInv, TypeOK, Pending
  <2>2. CASE Round = "leg"
    BY <1>1, <1>2, <1>3, <1>6, <2>1, <2>2 DEF IInv, Attempts
  <2>3. CASE Round = "repair"
    <3>1. pc = "repairing"
      BY <2>3 DEF Round
    <3> QED BY <1>1, <1>2, <1>3, <1>6, <2>1, <2>3, <3>1 DEF IInv, Attempts
  <2> QED BY <1>1, <2>2, <2>3
<1>12. Books'
  <2>1. \A k \in Slot, t \in Side : exch'[k][t].exec = exch[k][t].exec
    BY <1>2, <1>6
  <2> QED BY <1>1, <1>5, <2>1 DEF IInv, Books, Net, Truth, Signed
<1> QED BY <1>7, <1>8, <1>9, <1>10, <1>11, <1>12 DEF IInv

\* The exchange changes its record of one order, consistently with the journal.
LEMMA ExchangeInv ==
  ASSUME IInv, NEW k \in Slot, NEW s \in Side, NEW x \in Exch, SetExch(k, s, x),
         exch[k][s].state \in {"flight", "live"}, x.state # "none",
         OrderOK(leg[k][s], x), pos' \in [Side -> Nat],
         UNCHANGED <<strategy, enabled, owned, quantities, attention, pending, leg, pc, call, seen,
                     outside, watched, sends, started, mishaps>>
  PROVE  Books' => IInv'
<1>1. /\ exch' \in [Slot -> [Side -> Exch]] /\ exch'[k][s] = x
      /\ \A j \in Slot, t \in Side : j # k \/ t # s => exch'[j][t] = exch[j][t]
  BY DEF SetExch, IInv, TypeOK
<1>2. Active /\ Active' /\ (Dispatching' <=> Dispatching) /\ Round' = Round /\ Round \in Slot
  BY DEF IInv, Journal, Active, Dispatching, Round
<1>3. \A j \in Slot, t \in Side : exch'[j][t].state = "none" <=> exch[j][t].state = "none"
  BY <1>1
<1>4. TypeOK'
  BY <1>1 DEF IInv, TypeOK
<1>5. QuietWhenIdle' /\ BatchShape' /\ RepairBound'
  BY <1>2 DEF IInv, QuietWhenIdle, BatchShape, RepairBound, Expected, Signed, Floor, Target
<1>6. Journal'
  BY <1>1, <1>2 DEF IInv, Journal
<1>7. Control'
  BY <1>2, <1>3 DEF IInv, Control, AllFinal, OrdinaryOpen, AllIdle
<1>8. Attempts'
  BY <1>2, <1>3 DEF IInv, Attempts
<1> QED BY <1>4, <1>5, <1>6, <1>7, <1>8 DEF IInv

LEMMA ExecuteInv ==
  ASSUME IInv, NEW k \in Slot, NEW s \in Side, NEW st \in {"live", "final"}, NEW e \in 0 .. MaxQty,
         Execute(k, s, st, e)
  PROVE  IInv'
<1> USE BoundsAssumption
<1> DEFINE x == [state |-> st, exec |-> e]
<1>1. /\ x \in Exch /\ x.state = st /\ x.exec = e /\ e \in Nat
  BY DEF Exch
<1> HIDE DEF x
<1>2. /\ SetExch(k, s, x) /\ exch[k][s].state \in {"flight", "live"} /\ exch[k][s] \in Exch
      /\ exch[k][s].exec \in Nat /\ exch[k][s].exec <= e /\ e <= leg[k][s].qty
      /\ pos' = [pos EXCEPT ![s] = Moved(k, s, e)] /\ Moved(k, s, e) >= 0
      /\ UNCHANGED <<strategy, enabled, owned, quantities, attention, pending, leg, pc, call, seen,
                     outside, watched, sends, started, mishaps>>
  BY DEF Execute, x, durable, process, ghosts, IInv, TypeOK, Exch
<1>3. Active /\ Active'
  BY <1>2 DEF IInv, Journal, Active
<1>4. leg[k][s] \in Leg /\ OrderOK(leg[k][s], exch[k][s]) /\ pos[s] \in Nat
  BY <1>3 DEF IInv, TypeOK, Journal
<1>5. OrderOK(leg[k][s], x)
  BY <1>1, <1>2, <1>4 DEF OrderOK, Leg, NoExch
<1>6. Moved(k, s, e) \in Nat
  BY <1>1, <1>2, <1>4 DEF Moved
<1>7. pos' \in [Side -> Nat] /\ pos'[s] = Moved(k, s, e) /\ \A t \in Side : t # s => pos'[t] = pos[t]
  BY <1>2, <1>6 DEF IInv, TypeOK
<1>8. /\ exch'[k][s].exec = e
      /\ \A j \in Slot, t \in Side : j # k \/ t # s => exch'[j][t] = exch[j][t]
  BY <1>1, <1>2 DEF SetExch, IInv, TypeOK
<1>9. Books'
  <2> SUFFICES ASSUME NEW t \in Side PROVE Net'[t] = Truth(t)'
    BY DEF Books
  <2>1. /\ Net[t] = pos[t] - outside[t] /\ Net'[t] = pos'[t] - outside[t]
        /\ Net[t] = pending.before[t] + Signed(exch["leg"][t].exec) - pending.repaired[t] - exch["repair"][t].exec
        /\ Truth(t)' = pending.before[t] + Signed(exch'["leg"][t].exec) - pending.repaired[t] - exch'["repair"][t].exec
    BY <1>2, <1>3 DEF IInv, Books, Truth, Net, Signed
  <2>2. /\ pos[t] \in Nat /\ outside[t] \in Int /\ pending.before[t] \in Nat /\ pending.repaired[t] \in Nat
        /\ exch["leg"][t].exec \in Nat /\ exch["repair"][t].exec \in Nat
    BY DEF IInv, TypeOK, Pending, Exch
  <2>3. CASE t # s
    BY <1>7, <1>8, <2>1, <2>3
  <2>4. CASE t = s /\ k = "leg"
    <3>1. exch'["repair"][t].exec = exch["repair"][t].exec /\ exch'["leg"][t].exec = e
      BY <1>8, <2>4
    <3>2. pos'[t] = IF pending.phase = "open" THEN pos[t] + (e - exch["leg"][t].exec)
                                              ELSE pos[t] - (e - exch["leg"][t].exec)
      BY <1>7, <2>4 DEF Moved, Adding
    <3>3. CASE pending.phase = "open"
      <4>1. /\ Signed(exch["leg"][t].exec) = exch["leg"][t].exec
            /\ Signed(exch'["leg"][t].exec) = e
        BY <3>1, <3>3 DEF Signed
      <4>2. Net'[t] = pos[t] + (e - exch["leg"][t].exec) - outside[t] /\ e \in Nat
        BY <1>1, <2>1, <2>2, <3>2, <3>3
      <4> HIDE DEF Signed
      <4> QED BY <2>1, <2>2, <3>1, <4>1, <4>2, SMTT(30)
    <3>4. CASE pending.phase # "open"
      <4>1. /\ Signed(exch["leg"][t].exec) = 0 - exch["leg"][t].exec
            /\ Signed(exch'["leg"][t].exec) = 0 - e
        BY <3>1, <3>4 DEF Signed
      <4>2. Net'[t] = pos[t] - (e - exch["leg"][t].exec) - outside[t] /\ e \in Nat
        BY <1>1, <2>1, <2>2, <3>2, <3>4
      <4> HIDE DEF Signed
      <4> QED BY <2>1, <2>2, <3>1, <4>1, <4>2, SMTT(30)
    <3> QED BY <3>3, <3>4
  <2>5. CASE t = s /\ k = "repair"
    <3>1. exch'["leg"][t].exec = exch["leg"][t].exec /\ exch'["repair"][t].exec = e
      BY <1>8, <2>5
    <3>2. pos'[t] = pos[t] - (e - exch["repair"][t].exec)
      BY <1>7, <2>5 DEF Moved, Adding
    <3>3. Signed(exch["leg"][t].exec) \in Int
      BY <2>2 DEF Signed
    <3>4. Net'[t] = pos[t] - (e - exch["repair"][t].exec) - outside[t]
      BY <2>1, <3>2
    <3>5. Truth(t)' = pending.before[t] + Signed(exch["leg"][t].exec) - pending.repaired[t] - e
      BY <2>1, <3>1
    <3>6. pos[t] - outside[t] = pending.before[t] + Signed(exch["leg"][t].exec)
                                - pending.repaired[t] - exch["repair"][t].exec
      BY <2>1
    <3>7. e \in Nat
      BY <1>1
    <3> QED BY <2>2, <3>3, <3>4, <3>5, <3>6, <3>7
  <2> QED BY <2>3, <2>4, <2>5
<1>10. x.state # "none"
  BY <1>1
<1> QED BY <1>1, <1>2, <1>5, <1>7, <1>9, <1>10, ExchangeInv

LEMMA VoidInv == ASSUME IInv, NEW k \in Slot, NEW s \in Side, Void(k, s) PROVE IInv'
<1> DEFINE x == [state |-> "void", exec |-> 0]
<1>1. x \in Exch /\ x.state = "void" /\ x.exec = 0
  BY DEF Exch
<1> HIDE DEF x
<1>2. /\ SetExch(k, s, x) /\ exch[k][s].state = "flight"
      /\ UNCHANGED <<strategy, enabled, owned, quantities, attention, pending, leg, pc, call, seen, pos,
                     outside, watched, sends, started, mishaps>>
  BY DEF Void, x, durable, process, ghosts
<1>3. Active /\ Active'
  BY <1>2 DEF IInv, Journal, Active
<1>4. leg[k][s] \in Leg /\ OrderOK(leg[k][s], exch[k][s]) /\ exch[k][s].exec = 0 /\ pos' \in [Side -> Nat]
  BY <1>2, <1>3 DEF IInv, TypeOK, Journal, OrderOK
<1>5. OrderOK(leg[k][s], x)
  BY <1>1, <1>2, <1>4 DEF OrderOK, Leg, NoExch
<1>6. \A j \in Slot, t \in Side : exch'[j][t].exec = exch[j][t].exec
  BY <1>1, <1>2, <1>4 DEF SetExch, IInv, TypeOK
<1>7. Books'
  BY <1>2, <1>3, <1>6 DEF IInv, Books, Net, Truth, Signed
<1> QED BY <1>1, <1>2, <1>4, <1>5, <1>7, ExchangeInv

\* What happens outside the ledger: positions and the disowned part move alike,
\* and so may the record of an archived order.
LEMMA OutsideInv ==
  ASSUME IInv, pos' \in [Side -> Nat], outside' \in [Side -> Int],
         \A t \in Side : pos'[t] - outside'[t] = pos[t] - outside[t],
         watched' \in Seq(Archived), Len(watched') <= MaxWatch, mishaps' \in Nat,
         UNCHANGED <<strategy, enabled, owned, quantities, attention, pending, leg, pc, call, seen, exch,
                     sends, started>>
  PROVE  IInv'
<1>1. TypeOK'
  BY DEF IInv, TypeOK
<1>2. /\ QuietWhenIdle' /\ BatchShape' /\ RepairBound' /\ Attempts'
  BY DEF IInv, QuietWhenIdle, BatchShape, RepairBound, Attempts, Active, Expected, Signed, Floor, Target
<1>3. Journal'
  BY DEF IInv, Journal, Active
<1>4. Control'
  BY DEF IInv, Control, Dispatching, Round, AllFinal, OrdinaryOpen, AllIdle
<1>5. Books'
  <2>1. \A t \in Side : Truth(t)' = Truth(t)
    BY DEF Truth, Active, Expected, Signed
  <2> QED BY <2>1 DEF IInv, Books, Net
<1> QED BY <1>1, <1>2, <1>3, <1>4, <1>5 DEF IInv

LEMMA ManualInv == ASSUME IInv, NEW s \in Side, NEW p \in 0 .. MaxBase + MaxQty, Manual(s, p) PROVE IInv'
<1>1. /\ p \in Nat /\ mishaps' \in Nat /\ pos' = [pos EXCEPT ![s] = p]
      /\ outside' = [outside EXCEPT ![s] = @ + p - pos[s]]
      /\ UNCHANGED <<strategy, enabled, owned, quantities, attention, pending, leg, pc, call, seen, exch,
                     watched, sends, started>>
  BY BoundsAssumption DEF Manual, durable, process, IInv, TypeOK
<1>2. pos \in [Side -> Nat] /\ outside \in [Side -> Int]
      /\ watched \in Seq(Archived) /\ Len(watched) <= MaxWatch
  BY DEF IInv, TypeOK
<1>3. /\ pos' \in [Side -> Nat] /\ outside' \in [Side -> Int]
      /\ \A t \in Side : pos'[t] - outside'[t] = pos[t] - outside[t]
  BY <1>1, <1>2
<1> QED BY <1>1, <1>2, <1>3, OutsideInv

\* The order of a disowned batch executes: positions and disowned part alike.
LEMMA WatchedExecutesInv ==
  ASSUME IInv, NEW i \in DOMAIN watched, NEW s \in Side, NEW st \in {"live", "final"},
         NEW e \in 0 .. MaxQty, WatchedExecutes(i, s, st, e)
  PROVE  IInv' /\ UNCHANGED Ledger!lvars
<1> DEFINE x == [state |-> st, exec |-> e]
           d == e - watched[i].orders[s].exec
<1>1. x \in Exch /\ e \in Nat
  BY BoundsAssumption DEF Exch
<1>2. watched \in Seq(Archived) /\ watched[i] \in Archived /\ Len(watched) <= MaxWatch
  BY ElementOfSeq DEF IInv, TypeOK
<1>3. d \in Nat
  BY <1>1, <1>2 DEF WatchedExecutes, Archived, Exch
<1>4. /\ watched' = [watched EXCEPT ![i].orders[s] = x]
      /\ UNCHANGED <<strategy, enabled, owned, quantities, attention, pending, leg, pc, call, seen, exch,
                     sends, started, mishaps>>
  BY DEF WatchedExecutes, durable, process
<1>5. /\ pos' = [pos EXCEPT ![s] = pos[s] + e - watched[i].orders[s].exec]
      /\ outside' = [outside EXCEPT ![s] = outside[s] + e - watched[i].orders[s].exec]
      /\ watched[i].orders[s].exec \in Nat
  BY <1>2 DEF WatchedExecutes, Archived, Exch
<1>6. pos \in [Side -> Nat] /\ outside \in [Side -> Int] /\ mishaps \in Nat
  BY DEF IInv, TypeOK
<1>7. pos[s] + e - watched[i].orders[s].exec = pos[s] + d /\ outside[s] + e - watched[i].orders[s].exec = outside[s] + d
  BY <1>1, <1>5, <1>6
<1>8. watched' \in Seq(Archived) /\ Len(watched') <= MaxWatch
  BY <1>1, <1>2, <1>4, WatchTypes
<1> HIDE DEF d, x
<1>9. /\ pos' \in [Side -> Nat] /\ outside' \in [Side -> Int]
      /\ \A t \in Side : pos'[t] - outside'[t] = pos[t] - outside[t]
  BY <1>3, <1>5, <1>6, <1>7
<1>10. IInv'
  BY <1>4, <1>6, <1>8, <1>9, OutsideInv
<1>11. Net' = Net
  BY <1>9 DEF Net
<1> QED BY <1>4, <1>10, <1>11 DEF Ledger!lvars

LEMMA WatchedVoidInv ==
  ASSUME IInv, NEW i \in DOMAIN watched, NEW s \in Side, WatchedVoid(i, s)
  PROVE  IInv' /\ UNCHANGED Ledger!lvars
<1> DEFINE x == [state |-> "void", exec |-> 0]
<1>1. x \in Exch
  BY DEF Exch
<1>2. /\ watched' = [watched EXCEPT ![i].orders[s] = x]
      /\ UNCHANGED <<strategy, enabled, owned, quantities, attention, pending, leg, pc, call, seen, exch, pos,
                     outside, sends, started, mishaps>>
  BY DEF WatchedVoid, durable, process, ghosts
<1> HIDE DEF x
<1>3. watched' \in Seq(Archived) /\ Len(watched') <= MaxWatch
  BY <1>1, <1>2, WatchTypes DEF IInv, TypeOK
<1>4. pos \in [Side -> Nat] /\ outside \in [Side -> Int] /\ mishaps \in Nat
  BY DEF IInv, TypeOK
<1>5. IInv'
  BY <1>2, <1>3, <1>4, OutsideInv
<1> QED BY <1>2, <1>5 DEF Ledger!lvars, Net

LEMMA NextInv == IInv /\ [Next]_vars => IInv'
<1> SUFFICES ASSUME IInv, [Next]_vars PROVE IInv'
  OBVIOUS
<1>1. CASE Turn
  <2>1. ASSUME NEW q \in MinQty .. MaxQty, StartOpen(q) PROVE IInv'
    BY <2>1, StartOpenInv
  <2>2. CASE StartClose
    BY <2>2, StartCloseInv
  <2>3. CASE Dispatch \/ Withdraw
    BY <2>3, DispatchInv, WithdrawInv
  <2>4. ASSUME NEW s \in Side,
               NotSent(s) \/ Send(s) \/ AnswerReceipt(s) \/ AnswerRejected(s) \/ AnswerUnknown(s)
        PROVE  IInv'
    BY <2>4, NotSentInv, SendInv, AnswerReceiptInv, AnswerRejectedInv, AnswerUnknownInv
  <2>5. CASE EndRepairing
    BY <2>5, EndRepairingInv
  <2>6. ASSUME NEW k \in Slot, NEW s \in Side, QueryUnsent(k, s) PROVE IInv'
    BY <2>6, QueryUnsentInv
  <2>7. ASSUME NEW k \in Slot, NEW s \in Side, NEW st \in {"live", "final"}, NEW e \in 0 .. MaxQty,
               QueryRow(k, s, st, e)
        PROVE  IInv'
    BY <2>7, QueryRowInv
  <2>8. ASSUME NEW s \in Side, ReadPosition(s) PROVE IInv'
    BY <2>8, ReadPositionInv
  <2>9. CASE GoReview \/ AdoptReviewed
    BY <2>9, GoReviewInv, AdoptReviewedInv
  <2>10. ASSUME NEW commit \in BOOLEAN, Finish(commit) \/ SaveRepairs(commit) PROVE IInv'
    BY <2>10, FinishInv, SaveRepairsInv
  <2>11. CASE DispatchRepairs
    BY <2>11, DispatchRepairsInv
  <2>12. CASE \/ TickMismatch \/ EndSending \/ TickPending \/ QueryIncomplete \/ QueryComplete
              \/ JudgeMismatch \/ (\E commit \in BOOLEAN : JudgeUnrepairable(commit))
              \/ TurnFails \/ ReviewFails
    BY <2>12, TurnStepsInv
  <2> QED BY <1>1, <2>1, <2>2, <2>3, <2>4, <2>5, <2>6, <2>7, <2>8, <2>9, <2>10, <2>11, <2>12 DEF Turn
<1>2. CASE Operator
  BY <1>2, TurnStepsInv, ActivateInv, ReconcileFlatInv, SkipPositionsInv, BeginArchiveInv, ArchiveInv,
     RebaseInv DEF Operator
<1>3. CASE World
  <2>1. ASSUME NEW k \in Slot, NEW s \in Side, NEW st \in {"live", "final"}, NEW e \in 0 .. MaxQty,
               Execute(k, s, st, e)
        PROVE  IInv'
    BY <2>1, ExecuteInv
  <2>2. ASSUME NEW k \in Slot, NEW s \in Side, Void(k, s) PROVE IInv'
    BY <2>2, VoidInv
  <2>3. ASSUME NEW s \in Side, NEW p \in 0 .. MaxBase + MaxQty, Manual(s, p) PROVE IInv'
    BY <2>3, ManualInv
  <2>4. ASSUME NEW i \in DOMAIN watched, NEW s \in Side,
               \/ WatchedVoid(i, s)
               \/ \E st \in {"live", "final"}, e \in 0 .. MaxQty : WatchedExecutes(i, s, st, e)
        PROVE  IInv'
    BY <2>4, WatchedVoidInv, WatchedExecutesInv
  <2> QED BY <1>3, <2>1, <2>2, <2>3, <2>4 DEF World
<1>4. CASE Crash
  BY <1>4, TurnStepsInv
<1>5. CASE UNCHANGED vars
  <2>1. UNCHANGED <<strategy, enabled, owned, quantities, attention, pending, leg, pc, call, seen, exch, pos,
                    outside, watched, sends, started, mishaps>>
    BY <1>5 DEF vars, durable, process, exchange, ghosts
  <2>2. TypeOK'
    BY <2>1 DEF IInv, TypeOK
  <2>3. QuietWhenIdle' /\ BatchShape' /\ RepairBound' /\ Attempts'
    BY <2>1 DEF IInv, QuietWhenIdle, BatchShape, RepairBound, Attempts, Active, Expected, Signed, Floor, Target
  <2>4. Journal' /\ Control'
    BY <2>1 DEF IInv, Journal, Control, Dispatching, Round, AllFinal, OrdinaryOpen, AllIdle, Active
  <2>5. Books'
    BY <2>1 DEF IInv, Books, Net, Truth, Expected, Signed, Active
  <2> QED BY <2>2, <2>3, <2>4, <2>5 DEF IInv
<1> QED BY <1>1, <1>2, <1>3, <1>4, <1>5 DEF Next

-----------------------------------------------------------------------------
(* The theorems *)

\* In every reachable state of the trader, in the middle of a turn and after a
\* crash too, the inductive invariant holds.
THEOREM InductiveInvariant == Spec => []IInv
BY InitInv, NextInv, PTL DEF Spec

\* Every variable keeps its type: no balance, attempt count or executed
\* quantity of the runtime row leaves its range.
THEOREM TypeCorrect == Spec => []TypeOK
<1>1. IInv => TypeOK
  BY DEF IInv
<1> QED BY <1>1, InductiveInvariant, PTL

\* Over any number of batches, repairs, crashes and late executions, each
\* account's position is what the ledger (or the open batch) says it is.
THEOREM BooksBalance == Spec => []Books
<1>1. IInv => Books
  BY DEF IInv
<1> QED BY <1>1, InductiveInvariant, PTL

\* No client order is submitted twice, and repairs are limited by attempts.
THEOREM NoDuplicateSubmission == Spec => []SubmitOnce
<1>1. IInv => SubmitOnce
  <2> SUFFICES ASSUME IInv, NEW s \in Side
               PROVE  /\ sends["leg"][s] <= 1
                      /\ sends["repair"][s] <= pending.attempts
                      /\ pending.attempts <= MaxRepairs
    BY DEF SubmitOnce
  <2>1. CASE Active
    BY <2>1 DEF IInv, Attempts, BatchShape
  <2>2. CASE ~Active
    BY <2>2, BoundsAssumption DEF IInv, QuietWhenIdle, NoPending, Zero
  <2> QED BY <2>1, <2>2
<1> QED BY <1>1, InductiveInvariant, PTL

\* When a batch has ended nothing can still execute but the orders the operator
\* archived, all of them under watch and in at most MaxWatch batches; and a repair
\* is planned only when the original orders have settled.
THEOREM NothingLeftBehind == Spec => []NoStrayOrder
<1>1. IInv => NoStrayOrder
  <2> SUFFICES ASSUME IInv PROVE NoStrayOrder
    OBVIOUS
  <2>1. ~Active => Settled("leg") /\ Settled("repair")
    BY DEF IInv, Journal, Settled
  <2>2. ASSUME pending.repairing PROVE Settled("leg")
    <3>1. Active
      BY <2>2 DEF IInv, QuietWhenIdle, NoPending
    <3>2. \A s \in Side : leg["leg"][s].receipt = "final" /\ OrderOK(leg["leg"][s], exch["leg"][s])
      BY <2>2, <3>1 DEF IInv, BatchShape, Journal
    <3> QED BY <3>2 DEF OrderOK, Settled
  <2>3. Len(watched) <= MaxWatch
    BY DEF IInv, TypeOK
  <2> QED BY <2>1, <2>2, <2>3 DEF NoStrayOrder
<1> QED BY <1>1, InductiveInvariant, PTL

\* Between batches the group is hedged: no account stands off its ledger.
THEOREM NeverOneLegged == Spec => []Hedged
<1>1. IInv => Hedged
  <2> SUFFICES ASSUME IInv, ~Active
               PROVE  (\A s \in Side : Net[s] = owned[s] + quantities[s]) /\ Even(quantities)
    BY DEF Hedged, Ledger!LHedged, Ledger!Book, Active, Even
  <2>1. \A s \in Side : Net[s] = owned[s] + quantities[s]
    BY DEF IInv, Books, Truth, Expected
  <2> QED BY <2>1 DEF IInv, QuietWhenIdle
<1> QED BY <1>1, InductiveInvariant, PTL

\* Whatever the orders still under way do, the base position stays.
THEOREM BaseIsKept == Spec => []BaseKept
<1>1. IInv => BaseKept
  <2> SUFFICES ASSUME IInv, NEW s \in Side PROVE Net[s] - AtRisk(s) >= owned[s]
    BY DEF BaseKept
  <2> DEFINE x == exch["leg"][s].exec
             y == exch["repair"][s].exec
  <2>1. /\ owned[s] \in Nat /\ quantities[s] \in Nat /\ x \in Nat /\ y \in Nat
        /\ leg["leg"][s].qty \in Nat /\ leg["repair"][s].qty \in Nat /\ leg["leg"][s].exec \in Nat
        /\ pending.qty \in Nat /\ pending.before[s] \in Nat /\ pending.repaired[s] \in Nat
        /\ pending.phase \in {"open", "close"}
    BY DEF IInv, TypeOK, Leg, Exch, Pending
  <2>2. CASE ~Active
    <3>1. Net[s] = owned[s] + quantities[s]
      BY <2>2 DEF IInv, Books, Truth, Expected
    <3> QED BY <2>1, <2>2, <3>1 DEF AtRisk
  <2>3. CASE Active
    <3>1. Net[s] = pending.before[s] + Signed(x) - pending.repaired[s] - y
      BY <2>3 DEF IInv, Books, Truth
    <3>2. /\ pending.before[s] = owned[s] + quantities[s]
          /\ leg["leg"][s].qty = pending.qty
          /\ pending.phase = "open" => quantities[s] = 0
          /\ pending.phase = "close" => quantities[s] = pending.qty
          /\ ~pending.repairing => pending.repaired[s] = 0 /\ leg["repair"][s] = NoLeg
          /\ pending.repairing => leg["leg"][s].receipt = "final"
      BY <2>3 DEF IInv, BatchShape, Expected
    <3>3. /\ x <= leg["leg"][s].qty /\ y <= leg["repair"][s].qty
          /\ leg["leg"][s].receipt = "final" => x = leg["leg"][s].exec
          /\ leg["repair"][s].receipt = "final" => y = leg["repair"][s].exec
      BY <2>3 DEF IInv, Journal, OrderOK
    <3>4. CASE ~pending.repairing
      <4>1. /\ leg["repair"][s].qty = 0 /\ leg["repair"][s].receipt = "final" /\ y = 0
            /\ pending.repaired[s] = 0
        BY <2>1, <3>2, <3>3, <3>4 DEF NoLeg
      <4>2. CASE pending.phase = "open"
        BY <2>1, <3>1, <3>2, <4>1, <4>2 DEF Signed, AtRisk
      <4>3. CASE pending.phase = "close"
        <5>1. Net[s] = owned[s] + pending.qty - x
          BY <2>1, <3>1, <3>2, <4>1, <4>3 DEF Signed
        <5>2. AtRisk(s) = 0 \/ AtRisk(s) = pending.qty - x
          BY <3>2, <4>1 DEF AtRisk
        <5> QED BY <2>1, <3>2, <3>3, <5>1, <5>2
      <4> QED BY <2>1, <4>2, <4>3
    <3>5. CASE pending.repairing
      <4>1. pending.before[s] + Signed(x) - pending.repaired[s] - leg["repair"][s].qty >= Floor(s)
        BY <2>3, <3>2, <3>3, <3>5 DEF IInv, RepairBound
      <4>2. Floor(s) >= owned[s] /\ Floor(s) \in Int
        BY <2>1, <3>2 DEF Floor, Target
      <4>3. AtRisk(s) = 0 \/ AtRisk(s) = leg["repair"][s].qty - y
        BY <3>2, <3>5 DEF AtRisk
      <4>4. Signed(x) \in Int
        BY <2>1 DEF Signed
      <4> QED BY <2>1, <3>1, <3>3, <4>1, <4>2, <4>3, <4>4
    <3> QED BY <3>4, <3>5
  <2> QED BY <2>2, <2>3
<1> QED BY <1>1, InductiveInvariant, PTL

-----------------------------------------------------------------------------
(* Steps the abstract ledger does not see *)

LEMMA Unseen ==
  ASSUME UNCHANGED <<owned, quantities, pos, outside>>,
         pending'.kind = pending.kind, pending'.phase = pending.phase,
         pending'.qty = pending.qty, pending'.before = pending.before
  PROVE  UNCHANGED Ledger!lvars
  BY DEF Ledger!lvars, Net

LEMMA UnseenSteps ==
  ASSUME IInv,
         \/ TickMismatch \/ Dispatch \/ Withdraw
         \/ (\E s \in Side : \/ NotSent(s) \/ Send(s) \/ AnswerReceipt(s)
                             \/ AnswerRejected(s) \/ AnswerUnknown(s) \/ ReadPosition(s))
         \/ EndSending \/ EndRepairing \/ TickPending
         \/ (\E k \in Slot, s \in Side : QueryUnsent(k, s))
         \/ (\E k \in Slot, s \in Side, st \in {"live", "final"}, e \in 0 .. MaxQty : QueryRow(k, s, st, e))
         \/ QueryIncomplete \/ QueryComplete \/ GoReview \/ JudgeMismatch \/ TurnFails \/ ReviewFails
         \/ (\E commit \in BOOLEAN : SaveRepairs(commit) \/ JudgeUnrepairable(commit))
         \/ DispatchRepairs \/ Pause \/ Configure \/ BeginArchive \/ ArchiveFails \/ Crash
         \/ UNCHANGED vars
         \/ (\E k \in Slot, s \in Side : Void(k, s))
  PROVE  UNCHANGED Ledger!lvars
<1> USE DEF vars, durable, process, exchange, ghosts
<1>1. pending \in Pending
  BY DEF IInv, TypeOK
<1>2. UNCHANGED <<owned, quantities, pos, outside>>
  BY ZenonT(60)
     DEF TickMismatch, Dispatch, Withdraw, NotSent, Send, AnswerReceipt, AnswerRejected, AnswerUnknown,
         Answered, ReadPosition, EndSending, EndRepairing, TickPending, QueryUnsent, QueryRow,
         QueryIncomplete, QueryComplete, GoReview, JudgeMismatch, TurnFails, ReviewFails, SaveRepairs,
         JudgeUnrepairable, Attend, DispatchRepairs, Pause, Configure, BeginArchive, ArchiveFails, Crash, Void
<1>3. CASE pending' = pending
  BY <1>2, <1>3, Unseen
<1>4. CASE EndRepairing
  <2>1. \/ pending' = pending
        \/ pending' = [pending EXCEPT !.attempts = @ - 1]
    BY <1>4 DEF EndRepairing, RefundAttempt
  <2> QED BY <1>1, <1>2, <2>1, Unseen DEF Pending
<1>5. CASE \E commit \in BOOLEAN : SaveRepairs(commit)
  BY <1>1, <1>2, <1>5, Unseen DEF SaveRepairs, NextRound, Pending
<1>6. pending' = pending \/ EndRepairing \/ \E commit \in BOOLEAN : SaveRepairs(commit)
  BY ZenonT(60)
     DEF TickMismatch, Dispatch, Withdraw, NotSent, Send, AnswerReceipt, AnswerRejected, AnswerUnknown,
         Answered, ReadPosition, EndSending, TickPending, QueryUnsent, QueryRow,
         QueryIncomplete, QueryComplete, GoReview, JudgeMismatch, TurnFails, ReviewFails,
         JudgeUnrepairable, Attend, DispatchRepairs, Pause, Configure, BeginArchive, ArchiveFails, Crash, Void
<1> QED BY <1>3, <1>4, <1>5, <1>6

\* A trade by hand moves the position and the disowned part alike.
LEMMA ManualUnseen ==
  ASSUME IInv, NEW s \in Side, NEW p \in 0 .. MaxBase + MaxQty, Manual(s, p)
  PROVE  UNCHANGED Ledger!lvars
<1>1. /\ p \in Int /\ pos' = [pos EXCEPT ![s] = p] /\ outside' = [outside EXCEPT ![s] = @ + p - pos[s]]
      /\ UNCHANGED <<owned, quantities, pending>>
  BY BoundsAssumption DEF Manual, durable
<1>2. pos \in [Side -> Nat] /\ outside \in [Side -> Int]
  BY DEF IInv, TypeOK
<1>3. \A t \in Side : pos'[t] - outside'[t] = pos[t] - outside[t]
  BY <1>1, <1>2
<1>4. Net' = Net
  BY <1>3 DEF Net
<1> QED BY <1>1, <1>4 DEF Ledger!lvars

-----------------------------------------------------------------------------
(* Steps of the ledger *)

LEMMA BeginStep ==
  ASSUME IInv, Ready, NEW kind \in Strategy, NEW phase \in Phase, NEW q \in Nat \ {0},
         phase = "open" => \A s \in Side : quantities[s] = 0,
         phase = "close" => kind = "cycle" /\ \A s \in Side : quantities[s] = q,
         SaveIntent(kind, phase, q)
  PROVE  Ledger!StartBatch
<1>1. Expected \in [Side -> Nat] /\ Expected = [s \in Side |-> owned[s] + quantities[s]]
  BY DEF IInv, TypeOK, Expected
<1>2. /\ pending'.kind = kind /\ pending'.phase = phase /\ pending'.qty = q /\ pending'.before = Expected
  BY DEF SaveIntent, NoPending
<1>3. pending.kind = "none" /\ UNCHANGED <<owned, quantities, pos, outside>>
  BY DEF Ready, Active, SaveIntent
<1>4. Net' = Net
  BY <1>3 DEF Net
<1> QED BY <1>1, <1>2, <1>3, <1>4 DEF Ledger!StartBatch, Ledger!Kinds, Ledger!Phases, Ledger!Book

\* Between baseline and target: what the open batch may do to the accounts.
InBatch == Active => \A s \in Side : Ledger!Within(s, Net[s])

LEMMA WithinBatch == IInv => InBatch
<1> SUFFICES ASSUME IInv, Active, NEW s \in Side PROVE Ledger!Within(s, Net[s])
  BY DEF InBatch
<1> DEFINE x == exch["leg"][s].exec
           y == exch["repair"][s].exec
<1>1. /\ x \in Nat /\ y \in Nat /\ leg["leg"][s].qty \in Nat /\ leg["repair"][s].qty \in Nat
      /\ leg["leg"][s].exec \in Nat
      /\ pending.qty \in Nat /\ pending.before[s] \in Nat /\ pending.repaired[s] \in Nat
      /\ pending.phase \in {"open", "close"}
  BY DEF IInv, TypeOK, Leg, Exch, Pending
<1>2. Net[s] = pending.before[s] + Signed(x) - pending.repaired[s] - y
  BY DEF IInv, Books, Truth
<1>3. /\ leg["leg"][s].qty = pending.qty
      /\ ~pending.repairing => pending.repaired[s] = 0 /\ leg["repair"][s] = NoLeg
      /\ pending.repairing => leg["leg"][s].receipt = "final"
  BY DEF IInv, BatchShape
<1>4. /\ x <= leg["leg"][s].qty /\ y <= leg["repair"][s].qty
      /\ leg["leg"][s].receipt = "final" => x = leg["leg"][s].exec
  BY DEF IInv, Journal, OrderOK
<1>5. ~pending.repairing => leg["repair"][s].qty = 0
  BY <1>3 DEF NoLeg
<1>6. pending.repairing =>
        pending.before[s] + Signed(x) - pending.repaired[s] - leg["repair"][s].qty >= Floor(s)
  BY <1>3, <1>4 DEF IInv, RepairBound
<1>7. CASE pending.phase = "open"
  <2>1. Floor(s) = pending.before[s] /\ Signed(x) = x
    BY <1>7 DEF Floor, Signed
  <2>2. pending.before[s] <= Net[s] /\ Net[s] <= pending.before[s] + pending.qty
    BY <1>1, <1>2, <1>3, <1>4, <1>5, <1>6, <2>1
  <2> QED BY <1>7, <2>2 DEF Ledger!Within, Ledger!Target
<1>8. CASE pending.phase = "close"
  <2>1. Floor(s) = pending.before[s] - pending.qty /\ Signed(x) = 0 - x
    BY <1>8 DEF Floor, Signed, Target
  <2>2. pending.before[s] - pending.qty <= Net[s] /\ Net[s] <= pending.before[s]
    BY <1>1, <1>2, <1>3, <1>4, <1>5, <1>6, <2>1
  <2> QED BY <1>8, <2>2 DEF Ledger!Within, Ledger!Target
<1> QED BY <1>1, <1>7, <1>8

LEMMA TradeStep ==
  ASSUME IInv, IInv', NEW k \in Slot, NEW s \in Side, NEW st \in {"live", "final"}, NEW e \in 0 .. MaxQty,
         Execute(k, s, st, e)
  PROVE  Ledger!Trade(s)
<1>1. /\ exch[k][s].state \in {"flight", "live"} /\ pos' = [pos EXCEPT ![s] = Moved(k, s, e)]
      /\ UNCHANGED <<owned, quantities, pending, outside>>
  BY DEF Execute, durable, ghosts
<1>2. Active /\ Active'
  BY <1>1 DEF IInv, Journal, Active
<1>3. InBatch'
  BY WithinBatch, PTL
<1>4. Ledger!Within(s, Net'[s])
  BY <1>1, <1>2, <1>3 DEF InBatch, Ledger!Within, Ledger!Target
<1>5. Net' \in [Side -> Int]
  <2>1. pos' \in [Side -> Nat] /\ outside' \in [Side -> Int]
    BY DEF IInv, TypeOK
  <2> QED BY <2>1 DEF Net
<1>6. \A t \in Side \ {s} : Net'[t] = Net[t]
  BY <1>1 DEF Net, IInv, TypeOK
<1> QED BY <1>1, <1>2, <1>4, <1>5, <1>6 DEF Ledger!Trade, Active

LEMMA FinishStep ==
  ASSUME IInv, NEW commit \in BOOLEAN, Finish(commit)
  PROVE  Ledger!Commit \/ Ledger!Rollback
<1>1. /\ pc = "read" /\ Active /\ AllFinal /\ EndBatch /\ outside' = outside /\ pos' = pos
      /\ seen = ByReceipts /\ \A s \in Side : seen[s] = Goal(commit)[s]
      /\ commit \/ pending.phase = "open"
  BY DEF Finish, Reached, Verdict, Judging, MayRollBack, EndBatch, CloseBatch, IInv, QuietWhenIdle, Control
<1>2. \A s \in Side : Net[s] = Goal(commit)[s]
  BY <1>1, ReceiptsTell
<1>3. /\ pending'.kind = "none" /\ pending'.phase = "open" /\ pending'.qty = 0
      /\ pending'.before = [s \in Side |-> 0]
  BY <1>1 DEF EndBatch, CloseBatch, NoPending, Zero
<1>4. Net' = Net
  BY <1>1 DEF Net
<1>5. pending.kind # "none" /\ pending.kind \in {"ordinary", "cycle"}
  BY <1>1 DEF Active, IInv, TypeOK, Pending
<1>6. CASE commit
  <2>1. \A s \in Side : Net[s] = Ledger!Target(s)
    BY <1>2, <1>6 DEF Goal, Target, Ledger!Target
  <2>2. owned' = IF pending.kind = "ordinary" THEN [s \in Side |-> Ledger!Target(s)] ELSE owned
    BY <1>6 DEF Finish, Target, Ledger!Target
  <2>3. quantities' = IF pending.kind = "cycle" /\ pending.phase = "open"
                      THEN [s \in Side |-> pending.qty] ELSE [s \in Side |-> 0]
    BY <1>6 DEF Finish, Zero
  <2> QED BY <1>3, <1>4, <1>5, <2>1, <2>2, <2>3 DEF Ledger!Commit, Ledger!NoBatch
<1>7. CASE ~commit
  <2>1. \A s \in Side : Net[s] = pending.before[s]
    BY <1>2, <1>7 DEF Goal
  <2>2. owned' = owned /\ quantities' = quantities
    BY <1>7 DEF Finish
  <2> QED BY <1>1, <1>3, <1>4, <1>5, <1>7, <2>1, <2>2 DEF Ledger!Rollback, Ledger!NoBatch
<1> QED BY <1>6, <1>7

\* The ledger takes over the real positions.
LEMMA AdoptStep ==
  ASSUME IInv, AdoptReviewed \/ Activate \/ ReconcileFlat \/ Rebase
  PROVE  Ledger!TakeOver
<1>1. pos \in [Side -> Nat] /\ owned \in [Side -> Nat] /\ quantities \in [Side -> Nat]
  BY DEF IInv, TypeOK
<1>2. CASE AdoptReviewed
  <2>1. Active /\ OrdinaryOpen
    BY <1>2 DEF AdoptReviewed, IInv, Control, QuietWhenIdle
  <2>2. \A s \in Side : quantities[s] = 0
    BY <2>1 DEF IInv, BatchShape, OrdinaryOpen
  <2>3. quantities' = quantities
    BY <1>1, <1>2, <2>2 DEF AdoptReviewed, Zero
  <2>4. /\ pending'.kind = "none" /\ pending'.phase = "open" /\ pending'.qty = 0
        /\ pending'.before = [s \in Side |-> 0] /\ pos' = pos
    BY <1>2 DEF AdoptReviewed, EndBatch, CloseBatch, NoPending, Zero
  <2>5. owned' \in [Side -> Nat] /\ outside' = [s \in Side |-> pos[s] - owned'[s]]
    BY <1>1, <1>2 DEF AdoptReviewed, AllRead, IInv, TypeOK
  <2>6. Net' = owned'
    BY <1>1, <2>4, <2>5 DEF Net
  <2> QED BY <2>1, <2>2, <2>3, <2>4, <2>5, <2>6 DEF OrdinaryOpen, Ledger!TakeOver, Ledger!NoBatch
<1>3. CASE Activate \/ ReconcileFlat \/ Rebase
  <2>1. pending = NoPending /\ pending' = pending /\ pos' = pos
    BY <1>3 DEF Activate, ReconcileFlat, Rebase, Ready, IInv, QuietWhenIdle, exchange
  <2>2. \A s \in Side : quantities[s] = 0
    BY <1>3 DEF Activate, ReconcileFlat, Rebase, Holding
  <2>3. quantities' = quantities
    BY <1>1, <1>3, <2>2 DEF Activate, ReconcileFlat, Rebase, Zero
  <2>4. owned' \in [Side -> Nat] /\ owned' = pos /\ outside' = [s \in Side |-> 0]
    BY <1>1, <1>3 DEF Activate, ReconcileFlat, Rebase, Zero
  <2>5. Net' = owned'
    BY <1>1, <2>1, <2>4 DEF Net
  <2> QED BY <2>1, <2>2, <2>3, <2>4, <2>5 DEF NoPending, Zero, Ledger!TakeOver, Ledger!NoBatch
<1> QED BY <1>2, <1>3

\* A batch ended without a position check, or archived with unknown orders.
LEMMA DisownStep ==
  ASSUME IInv, SkipPositions \/ Archive
  PROVE  Ledger!Disown
<1>1. pos \in [Side -> Nat] /\ owned \in [Side -> Nat] /\ quantities \in [Side -> Nat]
  BY DEF IInv, TypeOK
<1>2. Active /\ pending.phase = "open"
  BY DEF SkipPositions, OrdinaryOpen, Active, Archive, IInv, Control, QuietWhenIdle
<1>3. \A s \in Side : quantities[s] = 0
  BY <1>2 DEF IInv, BatchShape
<1>4. owned' = owned /\ quantities' = quantities
  BY <1>1, <1>3 DEF SkipPositions, Archive, Zero
<1>5. /\ pending'.kind = "none" /\ pending'.phase = "open" /\ pending'.qty = 0
      /\ pending'.before = [s \in Side |-> 0] /\ pos' = pos
      /\ outside' = [s \in Side |-> pos[s] - owned[s]]
  BY DEF SkipPositions, Archive, EndBatch, CloseBatch, NoPending, Zero
<1>6. Net' = owned
  BY <1>1, <1>5 DEF Net
<1> QED BY <1>2, <1>3, <1>4, <1>5, <1>6 DEF Active, Ledger!Disown, Ledger!NoBatch

-----------------------------------------------------------------------------
LEMMA RefinesInit == Init => Ledger!LInit
<1> SUFFICES ASSUME Init PROVE Ledger!LInit
  OBVIOUS
<1>1. Net = owned /\ owned \in [Side -> Nat] /\ quantities = [s \in Side |-> 0]
  BY BoundsAssumption DEF Init, Net, Zero
<1>2. pending.kind = "none" /\ pending.phase = "open" /\ pending.qty = 0 /\ pending.before = [s \in Side |-> 0]
  BY DEF Init, NoPending, Zero
<1> QED BY <1>1, <1>2 DEF Ledger!LInit, Ledger!NoBatch

LEMMA RefinesNext == IInv /\ IInv' /\ [Next]_vars => [Ledger!LNext]_(Ledger!lvars)
<1> SUFFICES ASSUME IInv, IInv', [Next]_vars PROVE Ledger!LNext \/ UNCHANGED Ledger!lvars
  OBVIOUS
<1>1. ASSUME NEW q \in MinQty .. MaxQty, StartOpen(q) PROVE Ledger!LNext
  <2>1. q \in Nat \ {0} /\ strategy \in Strategy /\ \A s \in Side : quantities[s] = 0
    BY <1>1, BoundsAssumption DEF StartOpen, Holding, IInv, TypeOK
  <2> QED BY <1>1, <2>1, BeginStep DEF StartOpen, Ledger!LNext
<1>2. CASE StartClose
  <2>1. PICK q \in MinQty .. MaxQty : (\A s \in Side : quantities[s] = q) /\ SaveIntent("cycle", "close", q)
    BY <1>2 DEF StartClose
  <2>2. q \in Nat \ {0}
    BY BoundsAssumption
  <2> QED BY <1>2, <2>1, <2>2, BeginStep DEF StartClose, Ledger!LNext
<1>3. ASSUME NEW commit \in BOOLEAN, Finish(commit) PROVE Ledger!LNext
  BY <1>3, FinishStep DEF Ledger!LNext
<1>4. CASE AdoptReviewed \/ Activate \/ ReconcileFlat \/ Rebase
  BY <1>4, AdoptStep DEF Ledger!LNext
<1>8. CASE SkipPositions \/ Archive
  BY <1>8, DisownStep DEF Ledger!LNext
<1>9. ASSUME NEW i \in DOMAIN watched, NEW s \in Side,
             \/ WatchedVoid(i, s)
             \/ \E st \in {"live", "final"}, e \in 0 .. MaxQty : WatchedExecutes(i, s, st, e)
      PROVE  UNCHANGED Ledger!lvars
  BY <1>9, WatchedVoidInv, WatchedExecutesInv
<1>5. ASSUME NEW k \in Slot, NEW s \in Side, NEW st \in {"live", "final"}, NEW e \in 0 .. MaxQty,
             Execute(k, s, st, e)
      PROVE  Ledger!LNext
  BY <1>5, TradeStep DEF Ledger!LNext
<1>6. ASSUME NEW s \in Side, NEW p \in 0 .. MaxBase + MaxQty, Manual(s, p) PROVE UNCHANGED Ledger!lvars
  BY <1>6, ManualUnseen
<1>7. CASE \/ TickMismatch \/ Dispatch \/ Withdraw
           \/ (\E s \in Side : \/ NotSent(s) \/ Send(s) \/ AnswerReceipt(s)
                               \/ AnswerRejected(s) \/ AnswerUnknown(s) \/ ReadPosition(s))
           \/ EndSending \/ EndRepairing \/ TickPending
           \/ (\E k \in Slot, s \in Side : QueryUnsent(k, s))
           \/ (\E k \in Slot, s \in Side, st \in {"live", "final"}, e \in 0 .. MaxQty : QueryRow(k, s, st, e))
           \/ QueryIncomplete \/ QueryComplete \/ GoReview \/ JudgeMismatch \/ TurnFails \/ ReviewFails
           \/ (\E commit \in BOOLEAN : SaveRepairs(commit) \/ JudgeUnrepairable(commit))
           \/ DispatchRepairs \/ Pause \/ Configure \/ BeginArchive \/ ArchiveFails \/ Crash
         \/ UNCHANGED vars
           \/ (\E k \in Slot, s \in Side : Void(k, s))
  BY <1>7, UnseenSteps
<1> QED BY <1>1, <1>2, <1>3, <1>4, <1>5, <1>6, <1>7, <1>8, <1>9 DEF Next, Turn, Operator, World

\* A batch of two accounts, threads, retries and crashes looks from outside
\* like one entry of the group's ledger: both sides trade within the batch,
\* and it ends with both on the target, both back on the baseline, the ledger
\* taking over what is there, or the operator keeping the ledger and disowning it.
THEOREM TraderImplementsLedger == Spec => LedgerSpec
BY InductiveInvariant, RefinesInit, RefinesNext, PTL DEF Spec, LedgerSpec, Ledger!LSpec

=============================================================================

------------------------ MODULE MarginTransferProof ------------------------
(***************************************************************************)
(* Proofs about MarginTransfer, for any two sets of sides and all bounds.  *)
(***************************************************************************)
EXTENDS MarginTransfer, TLAPS

USE DEF Pc, Answer, Verdict, Mark, None

-----------------------------------------------------------------------------
(* What the steps do to the reads *)

LEMMA ViewTypes ==
  /\ NotRead \in View /\ NoView \in [Side -> View]
  /\ Fresh \in View /\ Fresh.has = Landed
  /\ ~NotRead.current /\ \A s \in Side : ~NoView[s].current
  BY DEF NotRead, NoView, View, Fresh, Landed

\* Revoking a side keeps the other one, and leaves nothing current on its own.
LEMMA RevokeEffect ==
  ASSUME view \in [Side -> View], hot \in [Side -> View], NEW s \in Side, Revoke(s)
  PROVE  /\ view' \in [Side -> View] /\ hot' \in [Side -> View]
         /\ ~view'[s].current /\ ~hot'[s].current
         /\ \A t \in Side : t # s => view'[t] = view[t] /\ hot'[t] = hot[t]
  BY DEF Revoke, View, NotRead

LEMMA RevokeAllEffect ==
  ASSUME view \in [Side -> View], hot \in [Side -> View], RevokeAll
  PROVE  /\ view' \in [Side -> View] /\ hot' \in [Side -> View]
         /\ \A s \in Side : ~view'[s].current /\ ~hot'[s].current
  BY ViewTypes DEF RevokeAll, View

\* A read that is revoked, or that has just been made, misses nothing; one that
\* is kept, or leased from the background worker, misses no more than it did.
LEMMA ReadsKept ==
  ASSUME MInv,
         UNCHANGED <<exch, verdict, news, conn>>, journal'.id = journal.id,
         \A s \in Side :
            \/ view'[s] \in {view[s], hot[s]}
            \/ ~view'[s].current \/ view'[s].has = Landed,
         \A s \in Side : hot'[s] = hot[s] \/ ~hot'[s].current \/ hot'[s].has = Landed
  PROVE  (\A s \in Side : Sound(s, view[s]) /\ Sound(s, hot[s]))'
<1> SUFFICES ASSUME NEW s \in Side
             PROVE  Sound(s, view[s])' /\ Sound(s, hot[s])'
  OBVIOUS
<1>1. Sound(s, view[s]) /\ Sound(s, hot[s])
  BY DEF MInv
<1>2. Landed' = Landed
  BY DEF Landed
<1> QED BY <1>1, <1>2 DEF Sound

-----------------------------------------------------------------------------
(* The inductive invariant *)

LEMMA InitMInv == Init => MInv
<1> SUFFICES ASSUME Init PROVE MInv
  OBVIOUS
<1> USE DEF Init
<1>1. TypeOK
  BY ViewTypes DEF TypeOK, Journal, NoJournal, Pending, NoMark, Request
<1>2. VerdictTrue /\ JournalAtPc
  BY DEF VerdictTrue, JournalAtPc, NoJournal, Pending
<1>3. Progress
  BY DEF Progress, NoJournal, Pending
<1>4. \A s \in Side : Sound(s, view[s]) /\ Sound(s, hot[s])
  BY ViewTypes DEF Sound
<1> QED BY <1>1, <1>2, <1>3, <1>4 DEF MInv

\* A step that moves the turn on, with the journal, the exchange and the
\* streams as they were, and no read that was not made.
LEMMA TurnMoves ==
  ASSUME MInv,
         UNCHANGED <<durable, stream, exch, posts, mishaps>>,
         pc' \in Pc, answer' \in Answer, answer' = "none" <=> pc' # "answered",
         view' \in [Side -> View], hot' \in [Side -> View],
         \A s \in Side :
            \/ view'[s] \in {view[s], hot[s]}
            \/ ~view'[s].current \/ view'[s].has = Landed,
         \A s \in Side : hot'[s] = hot[s] \/ ~hot'[s].current \/ hot'[s].has = Landed,
         pc' \in {pc, "idle"} \/ (pc' \in {"read", "trade"} /\ ~Pending),
         answer' = answer \/ answer' = "none"
  PROVE  MInv'
<1> USE DEF durable, stream
<1>1. TypeOK'
  BY DEF MInv, TypeOK, Pending
<1>2. VerdictTrue' /\ JournalAtPc'
  BY DEF MInv, VerdictTrue, JournalAtPc, Pending
<1>3. Progress'
  BY DEF MInv, Progress, Pending
<1>4. (\A s \in Side : Sound(s, view[s]) /\ Sound(s, hot[s]))'
  BY ReadsKept
<1> QED BY <1>1, <1>2, <1>3, <1>4 DEF MInv

\* Steps of a turn that only read, give up or end, and the background worker.
LEMMA ReadStepsInv ==
  ASSUME MInv,
         \/ StartTurn \/ NoTransfer \/ Trade \/ TurnFails \/ SaveFails
         \/ \E s \in Side : ReadBalance(s) \/ ReadHot(s) \/ RefreshHot(s)
  PROVE  MInv'
<1> USE DEF turn, reads, stream, durable
<1>1. TypeOK /\ view \in [Side -> View] /\ hot \in [Side -> View] /\ pc \in Pc /\ answer \in Answer
      /\ (answer = "none" <=> pc # "answered")
  BY DEF MInv, TypeOK
<1>2. CASE StartTurn
  BY <1>1, <1>2, TurnMoves DEF StartTurn
<1>3. CASE NoTransfer
  BY <1>1, <1>3, TurnMoves DEF NoTransfer, MInv, JournalAtPc
<1>4. CASE Trade
  BY <1>1, <1>4, ViewTypes, TurnMoves DEF Trade
<1>5. CASE TurnFails
  BY <1>1, <1>5, ViewTypes, TurnMoves DEF TurnFails
<1>6. CASE SaveFails
  BY <1>1, <1>6, ViewTypes, TurnMoves DEF SaveFails
<1>7. ASSUME NEW s \in Side, ReadBalance(s) PROVE MInv'
  BY <1>1, <1>7, ViewTypes, TurnMoves DEF ReadBalance
<1>8. ASSUME NEW s \in Side, ReadHot(s) PROVE MInv'
  <2>1. view' \in [Side -> View] /\ \A t \in Side : view'[t] \in {view[t], hot[t]}
    BY <1>1, <1>8 DEF ReadHot
  <2> QED BY <1>1, <1>8, <2>1, TurnMoves DEF ReadHot
<1>9. ASSUME NEW s \in Side, RefreshHot(s) PROVE MInv'
  BY <1>1, <1>9, ViewTypes, TurnMoves DEF RefreshHot
<1> QED BY <1>2, <1>3, <1>4, <1>5, <1>6, <1>7, <1>8, <1>9

-----------------------------------------------------------------------------
(* The request *)

\* While the journal holds a request, its name is one; no request is called None.
LEMMA NotNone == \A r \in Request : r # None
  BY TransferBounds DEF Request

LEMMA PendingId == ASSUME MInv, Pending PROVE journal.id \in Request /\ journal.id # None
  BY DEF MInv, TypeOK, Journal, Pending

LEMMA SaveRequestInv ==
  ASSUME MInv, NEW r \in Request, SaveRequest(r)
  PROVE  MInv'
<1> USE DEF SaveRequest, reads
<1>1. journal.status = "none" /\ journal.id = None
  BY DEF MInv, TypeOK, JournalAtPc, Pending
<1>2. TypeOK'
  BY <1>1, NotNone DEF MInv, TypeOK, Journal, Pending, NoMark
<1>3. exch[r] = "none"
  BY <1>1, NotNone DEF MInv, Progress
<1>4. VerdictTrue'
  BY <1>1, NotNone DEF MInv, VerdictTrue
<1>5. JournalAtPc'
  BY DEF JournalAtPc
<1>6. Progress'
  <2>1. journal'.id = r /\ journal'.status = "submitting" /\ pc' = "saved" /\ answer' = answer
        /\ answer \notin {"acknowledged", "rejected"}
    BY DEF MInv, TypeOK
  <2> QED BY <1>1, <1>3, <2>1, NotNone DEF MInv, Progress, Pending
<1>7. (\A s \in Side : Sound(s, view[s]) /\ Sound(s, hot[s]))'
  <2> SUFFICES ASSUME NEW s \in Side PROVE (Sound(s, view[s]) /\ Sound(s, hot[s]))'
    OBVIOUS
  <2>1. Landed' = Landed /\ Landed \subseteq Request
    BY DEF Landed
  <2>2. Sound(s, view[s]) /\ Sound(s, hot[s])
    BY DEF MInv
  <2> QED BY <1>1, <2>1, <2>2, NotNone DEF Sound
<1> QED BY <1>2, <1>4, <1>5, <1>6, <1>7 DEF MInv

\* Signing ends in the post, or in a refusal before it; an answer comes later,
\* if at all.
LEMMA PostInv ==
  ASSUME MInv, Post
  PROVE  MInv'
<1> USE DEF Post, durable, stream
<1>1. Pending /\ journal.id \in Request /\ exch[journal.id] = "none" /\ verdict[journal.id] = "none"
  BY PendingId DEF MInv, JournalAtPc, Progress, Pending
<1>2. TypeOK'
  BY <1>1, ViewTypes DEF MInv, TypeOK, Pending
<1>3. VerdictTrue'
  BY <1>1 DEF MInv, TypeOK, VerdictTrue
<1>4. JournalAtPc'
  BY DEF MInv, JournalAtPc, Pending
<1>5. Progress'
  BY <1>1 DEF MInv, TypeOK, Progress, Pending, JournalAtPc
<1>6. (\A s \in Side : Sound(s, view[s]) /\ Sound(s, hot[s]))'
  <2> SUFFICES ASSUME NEW s \in Side PROVE (Sound(s, view[s]) /\ Sound(s, hot[s]))'
    OBVIOUS
  <2>1. Landed' = Landed
    BY <1>1 DEF Landed, MInv, TypeOK
  <2>2. Sound(s, view[s])
    BY DEF MInv
  <2> QED BY <2>1, <2>2, ViewTypes DEF Sound
<1> QED BY <1>2, <1>3, <1>4, <1>5, <1>6 DEF MInv

LEMMA AnswerInv ==
  ASSUME MInv, NotSent \/ AnswerSuccess \/ AnswerRejected \/ AnswerUnknown
  PROVE  MInv'
<1> USE DEF durable, stream
<1>1. PICK a \in {"acknowledged", "rejected", "unknown"} :
         /\ pc \in {"saved", "sent"} /\ Answered(a)
         /\ a = "acknowledged" => exch[journal.id] = "done"
         /\ a = "rejected" => exch[journal.id] \in {"none", "void"}
  BY DEF NotSent, AnswerSuccess, AnswerRejected, AnswerUnknown, MInv, Progress
<1>2. /\ view' \in [Side -> View] /\ hot' \in [Side -> View]
      /\ \A s \in Side : ~view'[s].current /\ ~hot'[s].current
  BY <1>1, RevokeAllEffect DEF Answered, MInv, TypeOK
<1>3. TypeOK'
  BY <1>1, <1>2 DEF Answered, MInv, TypeOK, Pending
<1>4. VerdictTrue' /\ JournalAtPc'
  BY <1>1 DEF Answered, MInv, VerdictTrue, JournalAtPc, Pending
<1>5. Progress'
  BY <1>1 DEF Answered, MInv, Progress, Pending
<1>6. (\A s \in Side : Sound(s, view[s]) /\ Sound(s, hot[s]))'
  BY <1>2 DEF Sound
<1> QED BY <1>3, <1>4, <1>5, <1>6 DEF MInv

LEMMA SaveAnswerInv ==
  ASSUME MInv, SaveAnswer
  PROVE  MInv'
<1> USE DEF SaveAnswer
<1>1. /\ journal.status = "submitting" /\ Pending /\ journal.id \in Request /\ journal.id # None
      /\ verdict[journal.id] = "none" /\ answer \in {"acknowledged", "rejected", "unknown"}
  BY PendingId DEF MInv, TypeOK, JournalAtPc, Progress, Pending
<1>2. TypeOK'
  BY <1>1, ViewTypes DEF MInv, TypeOK, Journal, NoJournal, NoMark, Pending
<1>3. VerdictTrue'
  <2>1. CASE answer = "rejected"
    <3>1. exch[journal.id] \in {"none", "void"}
      BY <2>1 DEF MInv, Progress
    <3>2. verdict' = [verdict EXCEPT ![journal.id] = "rejected"] /\ exch' = exch
      BY <2>1
    <3> QED BY <1>1, <3>1, <3>2 DEF MInv, TypeOK, VerdictTrue
  <2>2. CASE answer # "rejected"
    BY <1>1, <2>2 DEF MInv, TypeOK, Journal, VerdictTrue
  <2> QED BY <2>1, <2>2
<1>4. JournalAtPc'
  BY <1>1 DEF MInv, TypeOK, Journal, JournalAtPc, NoJournal, Pending
<1>5. Progress'
  <2>1. CASE answer = "rejected"
    BY <1>1, <2>1 DEF MInv, TypeOK, Progress, NoJournal, Pending
  <2>2. CASE answer # "rejected"
    BY <1>1, <2>2 DEF MInv, TypeOK, Journal, Progress, Pending
  <2> QED BY <2>1, <2>2
<1>6. (\A s \in Side : Sound(s, view[s]) /\ Sound(s, hot[s]))'
  <2> SUFFICES ASSUME NEW s \in Side PROVE (Sound(s, view[s]) /\ Sound(s, hot[s]))'
    OBVIOUS
  <2>1. Landed' = Landed
    BY DEF Landed
  <2>2. Sound(s, hot[s])
    BY DEF MInv
  <2>3. Sound(s, hot[s])'
    <3>1. CASE answer = "rejected"
      <4>1. journal.id \notin Landed
        BY <3>1 DEF MInv, Progress, Landed
      <4> QED BY <1>1, <2>1, <2>2, <3>1, <4>1 DEF Sound, MInv, TypeOK, Landed
    <3>2. CASE answer # "rejected"
      BY <1>1, <2>1, <2>2, <3>2 DEF Sound, MInv, TypeOK, Journal
    <3> QED BY <3>1, <3>2
  <2> QED BY <2>3, ViewTypes DEF Sound
<1> QED BY <1>2, <1>3, <1>4, <1>5, <1>6 DEF MInv

\* Settling a request: it is in the journal, which closes with verdict v.
LEMMA CloseInv ==
  ASSUME MInv, Pending, pc \in {"refresh", "resume"},
         NEW v \in {"acknowledged", "skipped"}, Close(v),
         v = "acknowledged" => exch[journal.id] = "done"
  PROVE  MInv'
<1> USE DEF Close
<1>1. /\ journal.id \in Request /\ journal.id # None /\ answer = "none"
      /\ journal'.status = "none" /\ journal'.id = None
  BY PendingId DEF MInv, TypeOK, NoJournal
<1>2. TypeOK'
  BY <1>1, ViewTypes DEF MInv, TypeOK, Journal, NoJournal, NoMark, Pending
<1>3. VerdictTrue'
  BY <1>1 DEF MInv, TypeOK, VerdictTrue
<1>4. JournalAtPc'
  BY DEF JournalAtPc
<1>5. Progress'
  BY <1>1 DEF MInv, TypeOK, Progress, Pending
<1>6. (\A s \in Side : Sound(s, view[s]) /\ Sound(s, hot[s]))'
  BY ViewTypes DEF Sound
<1> QED BY <1>2, <1>3, <1>4, <1>5, <1>6 DEF MInv

LEMMA SettleInv ==
  ASSUME MInv, TurnPending \/ SkipUnknown \/ RefreshByRead \/ RefreshByEvents
  PROVE  MInv'
<1>1. CASE TurnPending
  <2> USE <1>1 DEF TurnPending, reads, stream
  <2>1. /\ journal.id \in Request /\ journal'.id = journal.id /\ answer = "none"
        /\ journal'.status \in {"acknowledged", "unknown"}
        /\ journal'.status = "acknowledged" => journal.status = "acknowledged"
        /\ journal' \in Journal
    BY PendingId DEF MInv, TypeOK, Journal, Pending
  <2>2. TypeOK'
    BY <2>1, PendingId DEF MInv, TypeOK, Pending
  <2>3. VerdictTrue'
    BY <2>1 DEF MInv, VerdictTrue
  <2>4. JournalAtPc'
    BY <2>1 DEF MInv, TypeOK, Journal, JournalAtPc, Pending
  <2>5. Progress'
    BY <2>1 DEF MInv, Progress, Pending
  <2>6. (\A s \in Side : Sound(s, view[s]) /\ Sound(s, hot[s]))'
    BY <2>1, ReadsKept
  <2> QED BY <2>2, <2>3, <2>4, <2>5, <2>6 DEF MInv
<1>2. CASE SkipUnknown
  BY <1>2, CloseInv DEF SkipUnknown, MInv, JournalAtPc, Pending
<1>3. CASE RefreshByRead
  BY <1>3, CloseInv DEF RefreshByRead, MInv, JournalAtPc, Progress, Pending
<1>4. CASE RefreshByEvents
  BY <1>4, CloseInv DEF RefreshByEvents, MInv, JournalAtPc, Progress, Pending
<1> QED BY <1>1, <1>2, <1>3, <1>4

-----------------------------------------------------------------------------
(* The operator, the exchange and the streams *)

\* A step of the world: the journal and the turn stay, and what an unrevoked
\* read is missing is still announced or cannot be.
LEMMA WorldMoves ==
  ASSUME MInv, TypeOK',
         UNCHANGED <<journal, verdict, pc, answer, exch, posts>>,
         \A s \in Side :
            \/ ~view'[s].current /\ ~hot'[s].current
            \/ UNCHANGED <<view[s], hot[s], news[s], conn[s]>>
  PROVE  MInv'
<1>1. VerdictTrue' /\ JournalAtPc'
  BY DEF MInv, VerdictTrue, JournalAtPc, Pending
<1>2. Progress'
  BY DEF MInv, Progress, Pending
<1>3. (\A s \in Side : Sound(s, view[s]) /\ Sound(s, hot[s]))'
  <2> SUFFICES ASSUME NEW s \in Side PROVE (Sound(s, view[s]) /\ Sound(s, hot[s]))'
    OBVIOUS
  <2>1. Landed' = Landed
    BY DEF Landed
  <2>2. Sound(s, view[s]) /\ Sound(s, hot[s])
    BY DEF MInv
  <2> QED BY <2>1, <2>2 DEF Sound
<1> QED BY <1>1, <1>2, <1>3 DEF MInv

LEMMA OperatorInv ==
  ASSUME MInv, Pause \/ Enable
  PROVE  MInv'
<1> USE DEF turn, stream
<1>1. TypeOK'
  BY DEF Pause, Enable, MInv, TypeOK, Pending
<1> QED BY <1>1, WorldMoves DEF Pause, Enable

LEMMA StreamInv ==
  ASSUME MInv, NEW s \in Side,
         \/ OtherEvent(s) \/ Connect(s) \/ Disconnect(s)
         \/ \E r \in Request : Announce(s, r)
  PROVE  MInv'
<1> USE DEF durable
<1>1. /\ view' \in [Side -> View] /\ hot' \in [Side -> View]
      /\ ~view'[s].current /\ ~hot'[s].current
      /\ \A t \in Side : t # s => view'[t] = view[t] /\ hot'[t] = hot[t]
  BY RevokeEffect DEF MInv, TypeOK, OtherEvent, Connect, Disconnect, Announce
<1>2. mark' \in [Side -> Mark]
  BY DEF MInv, TypeOK, OtherEvent, Connect, Disconnect, Announce, Note
<1>3. TypeOK'
  <2>1. conn' \in [Side -> BOOLEAN] /\ news' \in [Side -> SUBSET Request] /\ mishaps' \in Nat
    <3>1. conn \in [Side -> BOOLEAN] /\ news \in [Side -> SUBSET Request] /\ mishaps \in Nat
      BY DEF MInv, TypeOK
    <3>2. CASE OtherEvent(s) \/ Connect(s)
      BY <3>1, <3>2 DEF OtherEvent, Connect
    <3>3. CASE Disconnect(s)
      BY <3>1, <3>3 DEF Disconnect
    <3>4. CASE \E r \in Request : Announce(s, r)
      BY <3>1, <3>4 DEF Announce
    <3> QED BY <3>2, <3>3, <3>4
  <2>2. UNCHANGED <<groupOn, journal, verdict, pc, answer, exch, posts>>
    BY DEF OtherEvent, Connect, Disconnect, Announce
  <2> QED BY <1>1, <1>2, <2>1, <2>2 DEF MInv, TypeOK, Pending
<1>4. \A t \in Side : t # s => UNCHANGED <<view[t], hot[t], news[t], conn[t]>>
  BY <1>1 DEF MInv, TypeOK, OtherEvent, Connect, Disconnect, Announce
<1>5. UNCHANGED <<journal, verdict, pc, answer, exch, posts>>
  BY DEF OtherEvent, Connect, Disconnect, Announce
<1> QED BY <1>1, <1>3, <1>4, <1>5, WorldMoves

\* A request that lands is announced to every stream that is up.
LEMMA LandInv ==
  ASSUME MInv, NEW r \in Request, Land(r)
  PROVE  MInv'
<1> USE DEF Land, durable, turn
<1>1. TypeOK'
  BY DEF MInv, TypeOK, Pending
<1>2. verdict[r] = "skipped" \/ journal.id = r
  BY DEF MInv, VerdictTrue
<1>3. VerdictTrue' /\ JournalAtPc'
  BY <1>2 DEF MInv, TypeOK, VerdictTrue, JournalAtPc, Pending
<1>4. Progress'
  BY <1>2 DEF MInv, TypeOK, Progress, Pending
<1>5. (\A s \in Side : Sound(s, view[s]) /\ Sound(s, hot[s]))'
  <2> SUFFICES ASSUME NEW s \in Side PROVE (Sound(s, view[s]) /\ Sound(s, hot[s]))'
    OBVIOUS
  <2>1. Landed' = Landed \cup {r}
    BY DEF Landed, MInv, TypeOK
  <2>2. Sound(s, view[s]) /\ Sound(s, hot[s])
    BY DEF MInv
  <2>3. conn[s] => news'[s] = news[s] \cup {r}
    OBVIOUS
  <2> QED BY <1>2, <2>1, <2>2, <2>3 DEF Sound
<1> QED BY <1>1, <1>3, <1>4, <1>5 DEF MInv

LEMMA VoidInv ==
  ASSUME MInv, NEW r \in Request, Void(r)
  PROVE  MInv'
<1> USE DEF Void, durable, turn, stream
<1>1. TypeOK'
  BY DEF MInv, TypeOK, Pending
<1>2. VerdictTrue' /\ JournalAtPc'
  BY DEF MInv, TypeOK, VerdictTrue, JournalAtPc, Pending
<1>3. Progress'
  BY DEF MInv, TypeOK, Progress, Pending
<1>4. (\A s \in Side : Sound(s, view[s]) /\ Sound(s, hot[s]))'
  <2>1. Landed' = Landed
    BY DEF Landed, MInv, TypeOK
  <2> QED BY <2>1 DEF MInv, Sound
<1> QED BY <1>1, <1>2, <1>3, <1>4 DEF MInv

\* A restart keeps the journal and what the exchange does, and no read.
LEMMA CrashInv ==
  ASSUME MInv, Crash
  PROVE  MInv'
<1> USE DEF Crash, durable
<1>1. TypeOK'
  BY ViewTypes DEF MInv, TypeOK, Pending, NoMark
<1>2. VerdictTrue' /\ JournalAtPc'
  BY DEF MInv, VerdictTrue, JournalAtPc, Pending
<1>3. Progress'
  BY DEF MInv, Progress, Pending
<1>4. (\A s \in Side : Sound(s, view[s]) /\ Sound(s, hot[s]))'
  BY ViewTypes DEF Sound
<1> QED BY <1>1, <1>2, <1>3, <1>4 DEF MInv

LEMMA NextMInv == MInv /\ [Next]_vars => MInv'
<1> SUFFICES ASSUME MInv, [Next]_vars PROVE MInv'
  OBVIOUS
<1>1. CASE Turn
  BY <1>1, ReadStepsInv, SaveRequestInv, PostInv, AnswerInv, SaveAnswerInv, SettleInv DEF Turn
<1>2. CASE World
  BY <1>2, LandInv, VoidInv, StreamInv, ReadStepsInv DEF World
<1>3. CASE Pause \/ Enable
  BY <1>3, OperatorInv
<1>4. CASE Crash
  BY <1>4, CrashInv
<1>5. CASE UNCHANGED vars
  <2>1. TypeOK'
    BY <1>5 DEF MInv, TypeOK, Pending, vars, durable, turn, stream
  <2> QED BY <1>5, <2>1, WorldMoves DEF vars, durable, turn, stream
<1> QED BY <1>1, <1>2, <1>3, <1>4, <1>5 DEF Next

-----------------------------------------------------------------------------
(* The theorems *)

\* In every reachable state the journal, the request it names and the reads of
\* the turn agree as _submit_live and its recovery paths assume.
THEOREM TransferInvariant == Spec => []MInv
<1> QED BY InitMInv, NextMInv, PTL DEF Spec

\* The journal always parses (_valid_pending), and only a turn holds an answer.
THEOREM TransferTypes == Spec => []TypeOK
<1>1. MInv => TypeOK
  BY DEF MInv
<1> QED BY <1>1, TransferInvariant, PTL

\* margin_balance.py never posts one request twice, whatever answers, saves or
\* restarts do.
THEOREM NeverRetried == Spec => []PostedOnce
<1>1. MInv => PostedOnce
  BY DEF MInv, Progress, PostedOnce
<1> QED BY <1>1, TransferInvariant, PTL

\* What _submit_live and the refresh record of a transfer is what happened.
THEOREM RecordsAreTrue == Spec => []VerdictTrue
<1>1. MInv => VerdictTrue
  BY DEF MInv
<1> QED BY <1>1, TransferInvariant, PTL

\* A turn opens orders or transfers only on balances that include every
\* transfer the journal or the streams could tell it of.
THEOREM NoStaleBalance == Spec => []ReadsTellTheTruth
<1>1. ASSUME MInv PROVE ReadsTellTheTruth
  <2> SUFFICES ASSUME pc \in {"read", "trade", "saved"}, NEW s \in Side, view[s].current,
                      NEW r \in Landed \ view[s].has
               PROVE  Unannounced(s, r)
    BY DEF ReadsTellTheTruth
  <2>1. r \in Request /\ exch[r] = "done"
    BY DEF Landed
  <2>2. (verdict[r] = "skipped" \/ journal.id = r) /\ (r \in news[s] \/ ~conn[s])
    BY <1>1 DEF MInv, Sound
  <2>3. journal.id # r
    BY <1>1, <2>1, NotNone DEF MInv, TypeOK, JournalAtPc, Progress, Pending
  <2> QED BY <2>2, <2>3 DEF Unannounced
<1> QED BY <1>1, TransferInvariant, PTL

=============================================================================

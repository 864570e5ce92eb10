-------------------------- MODULE MarketFeedsProof ---------------------------
(***************************************************************************)
(* Proofs about QuoteStream, DepthBook, ThresholdAlert and Scheduler: what *)
(* the program knows of a market, what it says of it, and how the loop     *)
(* comes to act on it.                                                     *)
(*                                                                         *)
(* QuoteStream: its types, and that the quote in use is the newest that    *)
(* was accepted and is not used for too long, for every skew, number of    *)
(* adjustments, messages and lost connections.  The invariant ties what is *)
(* held to the order: a quote that is held is the one the order ends with, *)
(* the order is the newest ever accepted, and the lifetime was computed    *)
(* once, from the age at arrival.                                          *)
(*                                                                         *)
(* ThresholdAlert: one alert for each rise, for every set of thresholds,   *)
(* every cooldown and delay, and any number of moves of the quota, changed *)
(* settings and crashes.  The invariant says what the gate, the row of the *)
(* outbox and the message under way know of one another.  A message under  *)
(* way is still awaited exactly while the gate is in the era in which it   *)
(* was picked; within an era the falls only grow; and the gate keeps, in   *)
(* the time of its last delivery and in the falls, what it needs to tell a *)
(* rise that was announced from the next one.                              *)
(*                                                                         *)
(* DepthBook: the book that is shown, and every snapshot of it that is not *)
(* revoked, is the exchange's book at the version it claims, and no event  *)
(* that was handled is missing from it, for every set of levels, limit,    *)
(* buffer and number of faults.  The invariant says that a seeded book is  *)
(* exactly, down to its floor, the version it stands at, and a step of the *)
(* proof is that an event that bridges or continues keeps it exact: a      *)
(* level the event does not name is the same in both versions.             *)
(*                                                                         *)
(* Scheduler: a pass of the loop forgets no job that was due or asked for, *)
(* and no opening of the cycle, with all three jobs at a time and any      *)
(* number of events.  TurnsHold says where a job that is owed a turn is    *)
(* kept, at every step of the pass; LooksHold, what was noted of the       *)
(* newest quote and what stands for it; OpeningsHold, that an opening from *)
(* before the pass has been looked at and has its signal when the workers  *)
(* are started, unless a publication slipped in while it was noted.        *)
(***************************************************************************)
EXTENDS QuoteStream, ThresholdAlert, DepthBook, Scheduler, FiniteSetTheorems, SequenceTheorems,
        WellFoundedInduction, NaturalsInduction, TLAPS

-----------------------------------------------------------------------------
(* QuoteStream *)

Held(k) ==
    quote[k] # NoQuote =>
        /\ quote[k].made = order[k]
        /\ quote[k].came <= now
        /\ quote[k].expires - quote[k].came <= MaxAge + Allowance
        /\ quote[k].honest => quote[k].expires - quote[k].made <= MaxAge

QuoteInv ==
    /\ QuoteTypeOK
    /\ \A k \in Feed : newest[k] = order[k] /\ Held(k)

\* The bounds are numbers.
LEMMA Bounds ==
  ASSUME QuoteBounds
  PROVE  /\ MaxAge \in Nat /\ Allowance \in Nat /\ MaxTime \in Nat /\ MaxSkew \in Nat
         /\ Seconds \subseteq Nat /\ 0 \in Seconds /\ Skew \subseteq Int
         /\ -1 \notin Seconds
BY DEF QuoteBounds, Seconds, Skew

\* The invariant holds at the start.
LEMMA QuoteStarts == ASSUME QuoteBounds, QuoteInit PROVE QuoteInv
<1>1. QuoteTypeOK
  <2>1. now \in Seconds /\ skew \in Skew /\ open \in BOOLEAN /\ pushed = {}
    BY Bounds DEF QuoteInit
  <2>2. /\ quote \in [Feed -> [made : Seconds, expires : Int, came : Seconds, honest : BOOLEAN] \cup {NoQuote}]
        /\ order \in [Feed -> Seconds \cup {-1}] /\ newest \in [Feed -> Seconds \cup {-1}]
    BY DEF QuoteInit, Nothing, Never
  <2>3. used \in [adjust : 0 .. MaxAdjust, fault : 0 .. MaxMishaps]
    BY QuoteBounds DEF QuoteInit, QuoteBounds
  <2> QED BY <2>1, <2>2, <2>3 DEF QuoteTypeOK
<1>2. \A k \in Feed : newest[k] = order[k] /\ quote[k] = NoQuote
  BY DEF QuoteInit, Nothing, Never
<1> QED BY <1>1, <1>2 DEF QuoteInv, Held

\* A quote is taken out of use: its place in the order stays.
LEMMA Dropped ==
  ASSUME QuoteBounds, QuoteInv, NEW k \in Feed, DropQuote(k)
  PROVE  /\ quote' \in [Feed -> [made : Seconds, expires : Int, came : Seconds, honest : BOOLEAN] \cup {NoQuote}]
         /\ order' = order /\ newest' = newest
         /\ \A x \in Feed : quote'[x] # NoQuote => quote'[x] = quote[x]
BY DEF DropQuote, QuoteInv, QuoteTypeOK

\* A quote is accepted: it is later than the order, and the age the wall clock
\* gives it at arrival lies between the allowance and the maximum.
LEMMA Accepted ==
  ASSUME QuoteBounds, QuoteInv, NEW m \in pushed, m.made > order[m.kind], InTime(m.made), AcceptQuote(m)
  PROVE  /\ quote' \in [Feed -> [made : Seconds, expires : Int, came : Seconds, honest : BOOLEAN] \cup {NoQuote}]
         /\ order' \in [Feed -> Seconds \cup {-1}] /\ newest' \in [Feed -> Seconds \cup {-1}]
         /\ \A k \in Feed : newest'[k] = order'[k]
         /\ \A k \in Feed : k # m.kind => quote'[k] = quote[k] /\ order'[k] = order[k]
         /\ quote'[m.kind].made = order'[m.kind]
         /\ quote'[m.kind].came = now
         /\ quote'[m.kind].expires - now <= MaxAge + Allowance
         /\ quote'[m.kind].honest => quote'[m.kind].expires - quote'[m.kind].made <= MaxAge
<1> DEFINE q == [made |-> m.made, expires |-> Lifetime(m.made), came |-> now, honest |-> skew >= 0]
<1>1. /\ m.kind \in Feed /\ m.made \in Seconds /\ m.made \in Nat
      /\ now \in Seconds /\ now \in Nat /\ skew \in Int
      /\ order \in [Feed -> Seconds \cup {-1}] /\ newest \in [Feed -> Seconds \cup {-1}]
      /\ quote \in [Feed -> [made : Seconds, expires : Int, came : Seconds, honest : BOOLEAN] \cup {NoQuote}]
  BY Bounds DEF QuoteInv, QuoteTypeOK
<1>2. /\ quote' = [quote EXCEPT ![m.kind] = q]
      /\ order' = [order EXCEPT ![m.kind] = m.made]
      /\ newest' = [newest EXCEPT ![m.kind] = IF newest[m.kind] < m.made THEN m.made ELSE newest[m.kind]]
  BY DEF AcceptQuote
<1>3. /\ Lifetime(m.made) \in Int
      /\ Lifetime(m.made) - now <= MaxAge + Allowance
      /\ skew >= 0 => Lifetime(m.made) - m.made <= MaxAge
  BY <1>1, Bounds DEF Lifetime, InTime
<1>4. newest[m.kind] = order[m.kind] /\ newest[m.kind] < m.made
  <2>1. newest[m.kind] = order[m.kind]
    BY <1>1 DEF QuoteInv
  <2>2. order[m.kind] \in Int
    <3>1. order[m.kind] \in Seconds \/ order[m.kind] = -1
      BY <1>1
    <3>2. \A n \in Seconds : n \in Int
      BY Bounds
    <3> QED BY <3>1, <3>2
  <2> QED BY <2>1, <2>2, <1>1
<1>5. /\ q \in [made : Seconds, expires : Int, came : Seconds, honest : BOOLEAN]
      /\ q.made = m.made /\ q.came = now /\ q.expires = Lifetime(m.made) /\ q.honest = (skew >= 0)
  BY <1>1, <1>3
<1> HIDE DEF q
<1>6. /\ quote' \in [Feed -> [made : Seconds, expires : Int, came : Seconds, honest : BOOLEAN] \cup {NoQuote}]
      /\ quote'[m.kind] = q
      /\ \A k \in Feed : k # m.kind => quote'[k] = quote[k]
  BY <1>1, <1>2, <1>5
<1>7. /\ order' \in [Feed -> Seconds \cup {-1}] /\ newest' \in [Feed -> Seconds \cup {-1}]
      /\ order'[m.kind] = m.made /\ newest'[m.kind] = m.made
      /\ \A k \in Feed : k # m.kind => order'[k] = order[k] /\ newest'[k] = newest[k]
  BY <1>1, <1>2, <1>4
<1>8. \A k \in Feed : newest'[k] = order'[k]
  BY <1>7 DEF QuoteInv
<1> QED BY <1>3, <1>5, <1>6, <1>7, <1>8

\* Every step keeps the invariant.
LEMMA QuoteKept == ASSUME QuoteBounds, QuoteInv, [QuoteNext]_quoteVars PROVE QuoteInv'
<1> USE Bounds
<1>1. CASE Second
  <2>1. QuoteTypeOK'
    BY <1>1 DEF Second, QuoteInv, QuoteTypeOK, Seconds
  <2>2. ASSUME NEW k \in Feed PROVE Held(k)'
    <3>1. quote[k] # NoQuote => quote[k].came \in Nat /\ now \in Nat
      BY DEF QuoteInv, QuoteTypeOK
    <3> QED BY <1>1, <3>1 DEF Second, QuoteInv, Held
  <2> QED BY <1>1, <2>1, <2>2 DEF Second, QuoteInv
<1>2. CASE SetClock
  <2>1. used' \in [adjust : 0 .. MaxAdjust, fault : 0 .. MaxMishaps]
    BY <1>2 DEF SetClock, Spend, QuoteInv, QuoteTypeOK, QuoteBounds
  <2> QED BY <1>2, <2>1 DEF SetClock, QuoteInv, QuoteTypeOK, Held
<1>3. ASSUME used' \in [adjust : 0 .. MaxAdjust, fault : 0 .. MaxMishaps], now' = now, skew' = skew,
             open' \in BOOLEAN, pushed' \subseteq [kind : Feed, made : Seconds],
             quote' = Nothing, order' = Never, newest' = Never
      PROVE  QuoteInv'
  BY <1>3 DEF QuoteInv, QuoteTypeOK, Held, Nothing, Never
<1>4. CASE QuotesUp \/ QuotesDown
  <2>1. used' \in [adjust : 0 .. MaxAdjust, fault : 0 .. MaxMishaps]
    BY <1>4 DEF QuotesUp, QuotesDown, Spend, QuoteInv, QuoteTypeOK, QuoteBounds
  <2> QED BY <1>3, <1>4, <2>1 DEF QuotesUp, QuotesDown
<1>5. ASSUME NEW k \in Feed, Quote(k) PROVE QuoteInv'
  <2>1. pushed' \subseteq [kind : Feed, made : Seconds]
    BY <1>5 DEF Quote, QuoteInv, QuoteTypeOK
  <2> QED BY <1>5, <2>1 DEF Quote, QuoteInv, QuoteTypeOK, Held
<1>6. ASSUME used' \in [adjust : 0 .. MaxAdjust, fault : 0 .. MaxMishaps], now' = now, skew' = skew,
             open' \in BOOLEAN, pushed' \subseteq [kind : Feed, made : Seconds],
             quote' \in [Feed -> [made : Seconds, expires : Int, came : Seconds, honest : BOOLEAN] \cup {NoQuote}],
             order' = order, newest' = newest,
             \A x \in Feed : quote'[x] # NoQuote => quote'[x] = quote[x]
      PROVE  QuoteInv'
  BY <1>6 DEF QuoteInv, QuoteTypeOK, Held
<1>7. ASSUME NEW k \in Feed, ReadQuote(k) PROVE QuoteInv'
  <2>1. CASE DropQuote(k)
    BY <1>6, <1>7, <2>1, Dropped DEF ReadQuote, QuoteInv, QuoteTypeOK
  <2>2. CASE UNCHANGED <<quote, order, newest>>
    BY <1>6, <1>7, <2>2 DEF ReadQuote, QuoteInv, QuoteTypeOK
  <2> QED BY <1>7, <2>1, <2>2 DEF ReadQuote
<1>8. ASSUME NEW m \in pushed, HandleQuote(m) PROVE QuoteInv'
  <2>1. m.kind \in Feed /\ m.made \in Nat /\ order[m.kind] \in Int
    BY DEF QuoteInv, QuoteTypeOK
  <2>2. CASE m.made <= order[m.kind]
    BY <1>6, <1>8, <2>2 DEF HandleQuote, QuoteInv, QuoteTypeOK
  <2>3. CASE ~(m.made <= order[m.kind]) /\ ~InTime(m.made)
    <3>1. DropQuote(m.kind)
      BY <1>8, <2>3 DEF HandleQuote
    <3> QED BY <1>6, <1>8, <2>1, <3>1, Dropped DEF HandleQuote, QuoteInv, QuoteTypeOK
  <2>4. CASE ~(m.made <= order[m.kind]) /\ InTime(m.made)
    <3>1. AcceptQuote(m) /\ m.made > order[m.kind]
      BY <1>8, <2>1, <2>4 DEF HandleQuote
    <3>2. now' = now /\ UNCHANGED <<skew, open, used>> /\ pushed' \subseteq pushed
      BY <1>8 DEF HandleQuote
    <3>3. QuoteTypeOK'
      BY <2>4, <3>1, <3>2, Accepted DEF QuoteInv, QuoteTypeOK
    <3>4. \A k \in Feed : newest'[k] = order'[k]
      BY <2>4, <3>1, Accepted
    <3>5. Held(m.kind)'
      <4>1. now \in Nat
        BY DEF QuoteInv, QuoteTypeOK
      <4> QED BY <2>4, <3>1, <3>2, <4>1, Accepted DEF Held
    <3>6. \A k \in Feed : k # m.kind => Held(k)'
      BY <2>4, <3>1, <3>2, Accepted DEF Held, QuoteInv
    <3> QED BY <3>3, <3>4, <3>5, <3>6 DEF QuoteInv
  <2> QED BY <2>2, <2>3, <2>4
<1>9. ASSUME NEW m \in pushed, HandleBadQuote(m) \/ HandleNoise(m) PROVE QuoteInv'
  <2>1. m.kind \in Feed
    BY DEF QuoteInv, QuoteTypeOK
  <2>2. used' \in [adjust : 0 .. MaxAdjust, fault : 0 .. MaxMishaps]
    BY <1>9 DEF HandleBadQuote, HandleNoise, Spend, QuoteInv, QuoteTypeOK, QuoteBounds
  <2>3. CASE HandleBadQuote(m)
    <3>1. CASE UNCHANGED <<quote, order, newest>>
      BY <1>6, <2>2, <2>3, <3>1 DEF HandleBadQuote, QuoteInv, QuoteTypeOK
    <3>2. CASE DropQuote(m.kind)
      BY <1>6, <2>1, <2>2, <2>3, <3>2, Dropped DEF HandleBadQuote, QuoteInv, QuoteTypeOK
    <3> QED BY <2>3, <3>1, <3>2 DEF HandleBadQuote
  <2>4. CASE HandleNoise(m)
    <3>1. /\ quote' \in [Feed -> [made : Seconds, expires : Int, came : Seconds, honest : BOOLEAN] \cup {NoQuote}]
          /\ \A x \in Feed : quote'[x] = NoQuote
      BY <2>4 DEF HandleNoise, Nothing
    <3> QED BY <1>6, <2>2, <2>4, <3>1 DEF HandleNoise, QuoteInv, QuoteTypeOK
  <2> QED BY <1>9, <2>3, <2>4
<1>10. CASE UNCHANGED quoteVars
  BY <1>10 DEF quoteVars, QuoteInv, QuoteTypeOK, Held
<1> QED BY <1>1, <1>2, <1>4, <1>5, <1>7, <1>8, <1>9, <1>10 DEF QuoteNext

\* The invariant holds for every choice of the bounds.
THEOREM QuoteInvariant == QuoteSpec => []QuoteInv
<1>1. QuoteInit => QuoteInv
  BY QuoteStarts, QuoteBounds
<1>2. QuoteInv /\ [QuoteNext]_quoteVars => QuoteInv'
  BY QuoteKept, QuoteBounds
<1> QED BY <1>1, <1>2, PTL DEF QuoteSpec

\* A quote that book or mark_price returns is the newest accepted on its
\* connection and is not older than MaxAge allows, however messages overtake
\* one another and whenever the wall clock is set.
THEOREM NewestQuote == QuoteSpec => []QuoteIsTheNewest
<1>1. QuoteInv => QuoteIsTheNewest
  <2>1. SUFFICES ASSUME QuoteInv, NEW k \in Feed, Usable(k)
                 PROVE  /\ quote[k].made = newest[k]
                        /\ now - quote[k].came <= MaxAge + Allowance
                        /\ quote[k].honest => now - quote[k].made <= MaxAge
    BY DEF QuoteIsTheNewest
  <2>2. /\ quote[k] \in [made : Seconds, expires : Int, came : Seconds, honest : BOOLEAN]
        /\ now \in Nat /\ MaxAge \in Nat /\ Allowance \in Nat
    BY <2>1, Bounds, QuoteBounds DEF QuoteInv, QuoteTypeOK, Usable
  <2>3. quote[k].made \in Int /\ quote[k].came \in Int /\ quote[k].expires \in Int
    BY <2>2, Bounds, QuoteBounds
  <2>4. now <= quote[k].expires /\ quote[k] # NoQuote
    BY <2>1 DEF Usable
  <2>5. /\ quote[k].made = newest[k]
        /\ quote[k].expires - quote[k].came <= MaxAge + Allowance
        /\ quote[k].honest => quote[k].expires - quote[k].made <= MaxAge
    BY <2>1, <2>4 DEF QuoteInv, Held
  <2> QED BY <2>2, <2>3, <2>4, <2>5
<1> QED BY <1>1, QuoteInvariant, PTL

-----------------------------------------------------------------------------
(* ThresholdAlert *)

AlertTypes ==
    /\ moment \in Nat /\ quota \in Nat
    /\ setting \in Threshold /\ alerting \in BOOLEAN
    /\ poll \in [at : {"idle", "read", "observe"}, checked : Nat, quota : Nat, identity : Int]
    /\ poll.at = "observe" => poll.identity \in Threshold
    /\ gate \in [identity : Int, notified : BOOLEAN, last : Int, above : BOOLEAN,
                 falls : Nat, checked : Nat, resume : Int, era : Nat]
    /\ letter \in [id : Nat, pending : BOOLEAN, due : Nat, expires : Nat]
    /\ courier \in [at : {"idle", "picked", "sending"}, id : Nat, identity : Int, falls : Nat, era : Nat]
    /\ announced \in [era : Int, falls : Nat, at : Nat]

\* What was announced in the gate's era is what it remembers, and it rests
\* unless a fall has come since.
GateKnows ==
    /\ gate.notified => gate.above
    /\ gate.above => gate.identity # NoMoment
    /\ announced.era <= gate.era /\ announced.at <= moment
    /\ announced.era = gate.era =>
          /\ gate.last = announced.at
          /\ announced.falls <= gate.falls
          /\ announced.falls = gate.falls => gate.notified
    /\ RestsOnItsOwnRise

\* May a message about the rise after f falls follow the last one?
Due(era, f) ==
    announced.era = era => announced.falls < f /\ moment - announced.at >= Cooldown

\* The message under way is awaited exactly in the era it was picked in.
CourierKnows ==
    courier.at # "idle" =>
        /\ gate.identity # NoMoment
        /\ courier.id <= letter.id
        /\ courier.era <= gate.era /\ announced.era <= courier.era
        /\ courier.era = gate.era <=> Awaited
        /\ courier.era = gate.era =>
              courier.falls <= gate.falls /\ (courier.falls = gate.falls => gate.above)
        /\ Due(courier.era, courier.falls)

AlertInv ==
    /\ AlertTypes
    /\ GateKnows
    /\ letter.pending => Due(gate.era, gate.falls)
    /\ CourierKnows

-----------------------------------------------------------------------------
\* The invariant holds at the start.
LEMMA AlertStarts == ASSUME ThresholdAssumption, ThresholdInit PROVE AlertInv
<1> USE DEF ThresholdInit, NoMoment, NoPoll, NoGate, NoLetter, NoCourier
<1>1. AlertTypes
  BY DEF ThresholdAssumption, AlertTypes
<1>2. GateKnows /\ ~letter.pending /\ CourierKnows
  BY DEF GateKnows, RestsOnItsOwnRise, CourierKnows
<1> QED BY <1>1, <1>2 DEF AlertInv

\* A step that leaves the gate, the row's identity, the message under way and
\* the last delivery alone keeps what they know of one another.
LEMMA Aside ==
  ASSUME AlertInv, AlertTypes', moment' \in Nat, moment' >= moment,
         UNCHANGED <<gate, announced>>,
         letter'.id = letter.id, letter'.pending = letter.pending,
         courier' = courier \/ courier'.at = "idle"
  PROVE  AlertInv'
<1>1. moment \in Nat /\ announced.at \in Nat /\ Cooldown \in Nat
  BY ThresholdAssumption DEF AlertInv, AlertTypes, ThresholdAssumption
<1>2. ASSUME NEW e, NEW f, Due(e, f) PROVE Due(e, f)'
  BY <1>1, <1>2 DEF Due
<1>3. GateKnows'
  BY <1>1 DEF AlertInv, GateKnows, RestsOnItsOwnRise
<1>4. letter'.pending => Due(gate.era, gate.falls)'
  BY <1>2 DEF AlertInv
<1>5. CourierKnows'
  <2>1. CASE courier' = courier
    <3>1. Awaited' <=> Awaited
      BY <2>1 DEF Awaited
    <3>2. courier.at # "idle" => Due(courier.era, courier.falls)'
      BY <1>2, <2>1 DEF AlertInv, CourierKnows
    <3> QED BY <2>1, <3>1, <3>2 DEF AlertInv, CourierKnows, Due
  <2>2. CASE courier'.at = "idle"
    BY <2>2 DEF CourierKnows
  <2> QED BY <2>1, <2>2
<1> QED BY <1>3, <1>4, <1>5 DEF AlertInv, Due

\* An observation keeps the era and counts a fall if there was one, or the
\* settings are new and it begins another era, in which nothing was announced.
LEMMA ObserveKeeps == ASSUME ThresholdAssumption, AlertInv, ObserveQuota PROVE AlertInv'
<1> DEFINE same == gate.identity = poll.identity
           fall == same /\ gate.above /\ ~Above
           may  == ~gate'.notified /\ (gate'.last = NoMoment \/ moment - gate'.last >= Cooldown)
           mine == letter.pending /\ same
<1>1. /\ poll.at = "observe" /\ poll.checked \in Nat /\ poll.identity \in Threshold
      /\ poll.identity \in Nat /\ poll.identity # NoMoment
      /\ gate.identity \in Int /\ gate.notified \in BOOLEAN /\ gate.above \in BOOLEAN
      /\ gate.last \in Int /\ gate.falls \in Nat /\ gate.era \in Nat /\ gate.resume \in Int
      /\ letter.id \in Nat /\ letter.due \in Nat /\ AlertMaxAge \in Nat /\ Cooldown \in Nat /\ moment \in Nat
      /\ announced.at \in Nat /\ announced.era \in Int /\ announced.falls \in Nat
      /\ courier.falls \in Nat /\ courier.era \in Nat /\ courier.id \in Nat
      /\ Above \in BOOLEAN
  BY DEF ObserveQuota, AlertInv, AlertTypes, ThresholdAssumption, NoMoment, Above
<1>2. /\ UNCHANGED <<moment, quota, swings, setting, alerting, changes, courier, announced>>
      /\ poll' = NoPoll
  BY DEF ObserveQuota, market, settings
<1>3. /\ gate' \in [identity : Int, notified : BOOLEAN, last : Int, above : BOOLEAN,
                    falls : Nat, checked : Nat, resume : Int, era : Nat]
      /\ gate'.identity = poll.identity /\ gate'.above = Above
      /\ same => /\ gate'.era = gate.era /\ gate'.last = gate.last
                 /\ gate'.falls = gate.falls + (IF fall THEN 1 ELSE 0)
                 /\ gate'.notified = (gate.notified /\ Above)
      /\ ~same => gate'.era = gate.era + 1 /\ ~gate'.notified
  <2>1. gate' = [OpenGate EXCEPT !.falls = @ + (IF OpenGate.above /\ ~Above THEN 1 ELSE 0),
                                 !.above = Above, !.checked = poll.checked,
                                 !.notified = @ /\ Above]
    BY DEF ObserveQuota
  <2>2. OpenGate \in [identity : Int, notified : BOOLEAN, last : Int, above : BOOLEAN,
                      falls : Nat, checked : Nat, resume : Int, era : Nat]
    <3> DEFINE e == gate.era + 1
    <3>1. NoGate \in [identity : Int, notified : BOOLEAN, last : Int, above : BOOLEAN,
                      falls : Nat, checked : Nat, resume : Int, era : Nat]
      BY DEF NoGate, NoMoment
    <3>2. e \in Nat /\ poll.identity \in Int
      BY <1>1
    <3> HIDE DEF e
    <3>3. [NoGate EXCEPT !.identity = poll.identity, !.era = e]
             \in [identity : Int, notified : BOOLEAN, last : Int, above : BOOLEAN,
                  falls : Nat, checked : Nat, resume : Int, era : Nat]
      BY <3>1, <3>2
    <3> USE DEF e
    <3> QED BY <3>3 DEF OpenGate, AlertInv, AlertTypes
  <2>5. /\ gate' \in [identity : Int, notified : BOOLEAN, last : Int, above : BOOLEAN,
                      falls : Nat, checked : Nat, resume : Int, era : Nat]
        /\ gate'.identity = OpenGate.identity /\ gate'.above = Above
        /\ gate'.era = OpenGate.era /\ gate'.last = OpenGate.last
        /\ gate'.falls = OpenGate.falls + (IF OpenGate.above /\ ~Above THEN 1 ELSE 0)
        /\ gate'.notified = (OpenGate.notified /\ Above)
    <3> DEFINE n == OpenGate.falls + (IF OpenGate.above /\ ~Above THEN 1 ELSE 0)
               b == OpenGate.notified /\ Above
    <3>1. n \in Nat /\ b \in BOOLEAN /\ Above \in BOOLEAN
      BY <1>1, <2>2
    <3>2. gate' = [OpenGate EXCEPT !.falls = n, !.above = Above, !.checked = poll.checked, !.notified = b]
      BY <2>1
    <3> HIDE DEF n, b
    <3>3. /\ gate' \in [identity : Int, notified : BOOLEAN, last : Int, above : BOOLEAN,
                        falls : Nat, checked : Nat, resume : Int, era : Nat]
          /\ gate'.identity = OpenGate.identity /\ gate'.above = Above
          /\ gate'.era = OpenGate.era /\ gate'.last = OpenGate.last
          /\ gate'.falls = n /\ gate'.notified = b
      BY <1>1, <2>2, <3>1, <3>2
    <3> QED BY <3>3 DEF n, b
  <2>3. CASE same
    <3>1. OpenGate = gate
      BY <2>3 DEF OpenGate
    <3> QED BY <2>3, <2>5, <3>1
  <2>4. CASE ~same
    <3>1. OpenGate = [NoGate EXCEPT !.identity = poll.identity, !.era = gate.era + 1]
      BY <2>4 DEF OpenGate
    <3>2. /\ ~OpenGate.notified /\ ~OpenGate.above /\ OpenGate.identity = poll.identity
          /\ OpenGate.era = gate.era + 1
      BY <3>1 DEF NoGate
    <3> QED BY <2>4, <2>5, <3>2
  <2> QED BY <2>3, <2>4
<1>4. /\ letter' \in [id : Nat, pending : BOOLEAN, due : Nat, expires : Nat]
      /\ mine => letter'.id = letter.id /\ letter'.pending
      /\ ~mine => \/ letter'.pending /\ letter'.id = letter.id + 1 /\ Above /\ may
                  \/ ~letter'.pending /\ letter'.id = letter.id
  <2>1. CASE mine
    <3>1. letter' = [letter EXCEPT !.expires = poll.checked + AlertMaxAge] \/ letter' = Expired(letter)
      BY <2>1 DEF ObserveQuota
    <3> QED BY <1>1, <2>1, <3>1 DEF Expired, AlertInv, AlertTypes
  <2>2. CASE ~mine
    <3>1. \/ /\ Above /\ may
             /\ letter' = [id |-> letter.id + 1, pending |-> TRUE, due |-> moment,
                           expires |-> poll.checked + AlertMaxAge]
          \/ letter' = [letter EXCEPT !.pending = FALSE, !.expires = 0]
      BY <2>2 DEF ObserveQuota
    <3>2. CASE letter' = [letter EXCEPT !.pending = FALSE, !.expires = 0]
      BY <2>2, <3>2 DEF AlertInv, AlertTypes
    <3>3. CASE Above /\ may /\ letter' = [id |-> letter.id + 1, pending |-> TRUE, due |-> moment,
                                         expires |-> poll.checked + AlertMaxAge]
      <4>1. letter'.id = letter.id + 1 /\ letter'.pending = TRUE
        BY <3>3
      <4>2. letter' \in [id : Nat, pending : BOOLEAN, due : Nat, expires : Nat]
        BY <1>1, <3>3
      <4> QED BY <2>2, <3>3, <4>1, <4>2
    <3> QED BY <3>1, <3>2, <3>3
  <2> QED BY <2>1, <2>2
<1>5. AlertTypes'
  <2>1. poll' \in [at : {"idle", "read", "observe"}, checked : Nat, quota : Nat, identity : Int]
        /\ poll'.at # "observe"
    BY <1>2 DEF NoPoll, NoMoment
  <2> QED BY <1>2, <1>3, <1>4, <2>1 DEF AlertInv, AlertTypes
<1>6. GateKnows
  BY DEF AlertInv
<1>7. GateKnows'
  <2>1. CASE same
    <3>1. CASE announced.era = gate.era
      BY <1>1, <1>2, <1>3, <1>6, <2>1, <3>1 DEF GateKnows, RestsOnItsOwnRise
    <3>2. CASE announced.era # gate.era
      BY <1>1, <1>2, <1>3, <1>6, <2>1, <3>2 DEF GateKnows, RestsOnItsOwnRise
    <3> QED BY <3>1, <3>2
  <2>2. CASE ~same
    BY <1>1, <1>2, <1>3, <1>6, <2>2 DEF GateKnows, RestsOnItsOwnRise
  <2> QED BY <2>1, <2>2
<1>8. letter'.pending => Due(gate.era, gate.falls)'
  <2>1. CASE ~same
    BY <1>1, <1>2, <1>3, <1>6, <2>1 DEF GateKnows, Due
  <2>2. CASE same /\ letter.pending
    BY <1>1, <1>2, <1>3, <2>2 DEF AlertInv, Due
  <2>3. CASE same /\ ~letter.pending
    <3>1. SUFFICES ASSUME letter'.pending, announced.era = gate.era
                   PROVE  announced.falls < gate'.falls /\ moment - announced.at >= Cooldown
      BY <1>2, <1>3, <2>3 DEF Due
    <3>2. Above /\ may
      BY <1>4, <2>3, <3>1
    <3>3. gate.last = announced.at /\ announced.falls <= gate.falls /\ announced.falls # gate.falls
      BY <1>3, <1>6, <2>3, <3>1, <3>2 DEF GateKnows
    <3>4. moment - announced.at >= Cooldown
      BY <1>1, <1>3, <2>3, <3>2, <3>3 DEF NoMoment
    <3> QED BY <1>1, <1>3, <2>3, <3>3, <3>4
  <2> QED BY <2>1, <2>2, <2>3
<1>9. CourierKnows'
  <2>1. SUFFICES ASSUME courier.at # "idle"
                 PROVE  /\ gate'.identity # NoMoment
                        /\ courier.id <= letter'.id
                        /\ courier.era <= gate'.era /\ announced.era <= courier.era
                        /\ courier.era = gate'.era <=> Awaited'
                        /\ courier.era = gate'.era =>
                              courier.falls <= gate'.falls /\ (courier.falls = gate'.falls => gate'.above)
                        /\ Due(courier.era, courier.falls)'
    BY <1>2 DEF CourierKnows
  <2>2. /\ courier.id <= letter.id /\ courier.era <= gate.era /\ announced.era <= courier.era
        /\ courier.era = gate.era <=> Awaited
        /\ courier.era = gate.era =>
              courier.falls <= gate.falls /\ (courier.falls = gate.falls => gate.above)
        /\ Due(courier.era, courier.falls)
    BY <2>1 DEF AlertInv, CourierKnows
  <2>3. Due(courier.era, courier.falls)'
    BY <1>2, <2>2 DEF Due
  <2>4. courier.id <= letter'.id /\ gate'.identity # NoMoment
    BY <1>1, <1>3, <1>4, <2>2
  <2>5. courier.era = gate'.era <=> Awaited'
    <3>1. Awaited' <=> letter'.pending /\ letter'.id = courier.id
      BY <1>2 DEF Awaited
    <3>2. CASE mine
      BY <1>1, <1>3, <1>4, <2>2, <3>1, <3>2 DEF Awaited
    <3>3. CASE ~mine
      BY <1>1, <1>3, <1>4, <2>2, <3>1, <3>3 DEF Awaited
    <3> QED BY <3>2, <3>3
  <2>6. ASSUME courier.era = gate'.era
        PROVE  courier.falls <= gate'.falls /\ (courier.falls = gate'.falls => gate'.above)
    BY <1>1, <1>3, <2>2, <2>6
  <2>7. courier.era <= gate'.era
    BY <1>1, <1>3, <2>2
  <2> QED BY <2>2, <2>3, <2>4, <2>5, <2>6, <2>7
<1> QED BY <1>5, <1>7, <1>8, <1>9 DEF AlertInv

\* A message is picked: it is awaited, in the gate's era.
LEMMA PickKeeps == ASSUME ThresholdAssumption, AlertInv, PickLetter PROVE AlertInv'
<1>1. /\ letter.pending /\ gate.above
      /\ courier' = [at |-> "picked", id |-> letter.id, identity |-> gate.identity,
                     falls |-> gate.falls, era |-> gate.era]
      /\ UNCHANGED <<moment, quota, swings, setting, alerting, changes, poll, gate, letter, announced>>
  BY DEF PickLetter, market, settings
<1>2. /\ letter.id \in Nat /\ gate.identity \in Int /\ gate.falls \in Nat /\ gate.era \in Nat
      /\ announced.era \in Int
  BY DEF AlertInv, AlertTypes
<1>3. /\ courier'.at # "idle" /\ courier'.id = letter.id /\ courier'.falls = gate.falls
      /\ courier'.era = gate.era
      /\ courier' \in [at : {"idle", "picked", "sending"}, id : Nat, identity : Int, falls : Nat, era : Nat]
  BY <1>1, <1>2
<1>4. AlertTypes'
  BY <1>1, <1>3 DEF AlertInv, AlertTypes
<1>5. GateKnows' /\ (letter'.pending => Due(gate.era, gate.falls)')
  BY <1>1 DEF AlertInv, GateKnows, RestsOnItsOwnRise, Due
<1>6. Awaited'
  BY <1>1, <1>3 DEF Awaited
<1>7. Due(courier.era, courier.falls)'
  BY <1>1, <1>3 DEF AlertInv, Due
<1>8. CourierKnows'
  BY <1>1, <1>2, <1>3, <1>6, <1>7 DEF CourierKnows, AlertInv, GateKnows
<1> QED BY <1>4, <1>5, <1>8 DEF AlertInv

\* The settings are read again: the message goes out, or is put back.
LEMMA SendKeeps == ASSUME ThresholdAssumption, AlertInv, SendLetter PROVE AlertInv'
<1>1. /\ courier.at = "picked"
      /\ courier' = [courier EXCEPT !.at = "sending"] \/ courier' = NoCourier
      /\ UNCHANGED <<moment, quota, swings, setting, alerting, changes, poll, gate, letter, announced>>
  BY DEF SendLetter, market, settings
<1>2. courier \in [at : {"idle", "picked", "sending"}, id : Nat, identity : Int, falls : Nat, era : Nat]
  BY DEF AlertInv, AlertTypes
<1>3. courier' \in [at : {"idle", "picked", "sending"}, id : Nat, identity : Int, falls : Nat, era : Nat]
  BY <1>1, <1>2 DEF NoCourier, NoMoment
<1>4. AlertTypes'
  BY <1>1, <1>3 DEF AlertInv, AlertTypes
<1>5. GateKnows' /\ (letter'.pending => Due(gate.era, gate.falls)')
  BY <1>1 DEF AlertInv, GateKnows, RestsOnItsOwnRise, Due
<1>6. CASE courier' = NoCourier
  BY <1>4, <1>5, <1>6 DEF AlertInv, CourierKnows, NoCourier
<1>7. CASE courier' = [courier EXCEPT !.at = "sending"]
  <2>1. courier'.id = courier.id /\ courier'.falls = courier.falls /\ courier'.era = courier.era
    BY <1>2, <1>7
  <2>2. Awaited' <=> Awaited
    BY <1>1, <2>1 DEF Awaited
  <2>3. CourierKnows'
    BY <1>1, <2>1, <2>2 DEF AlertInv, CourierKnows, Due
  <2> QED BY <1>4, <1>5, <2>3 DEF AlertInv
<1> QED BY <1>1, <1>6, <1>7

\* A delivery: the gate rests if it is still about the rise it has now; a
\* message of an era that is over leaves gate and outbox alone.
LEMMA DeliveredKeeps ==
  ASSUME ThresholdAssumption, AlertInv, LetterDelivered
  PROVE  /\ AlertInv'
         /\ announced' # announced => AnotherRise
<1>1. /\ courier.at # "idle" /\ courier' = NoCourier
      /\ announced' = [era |-> courier.era, falls |-> courier.falls, at |-> moment]
      /\ UNCHANGED <<moment, quota, swings, setting, alerting, changes, poll>>
  BY DEF LetterDelivered, market, settings
<1>2. /\ moment \in Nat /\ courier.falls \in Nat /\ courier.era \in Nat
      /\ gate.era \in Nat /\ gate.falls \in Nat /\ gate.notified \in BOOLEAN /\ gate.above \in BOOLEAN
      /\ announced.era \in Int /\ announced.falls \in Nat /\ announced.at \in Nat
      /\ gate \in [identity : Int, notified : BOOLEAN, last : Int, above : BOOLEAN,
                   falls : Nat, checked : Nat, resume : Int, era : Nat]
      /\ letter \in [id : Nat, pending : BOOLEAN, due : Nat, expires : Nat]
  BY DEF AlertInv, AlertTypes
<1>3. /\ announced'.era = courier.era /\ announced'.falls = courier.falls /\ announced'.at = moment
      /\ announced' \in [era : Int, falls : Nat, at : Nat]
  BY <1>1, <1>2
<1>4. /\ gate.identity # NoMoment
      /\ courier.era <= gate.era /\ announced.era <= courier.era
      /\ courier.era = gate.era <=> Awaited
      /\ courier.era = gate.era =>
            courier.falls <= gate.falls /\ (courier.falls = gate.falls => gate.above)
      /\ Due(courier.era, courier.falls)
  BY <1>1 DEF AlertInv, CourierKnows
<1>5. AnotherRise
  BY <1>3, <1>4 DEF AnotherRise, Due
<1>6. CourierKnows' /\ courier' \in [at : {"idle", "picked", "sending"}, id : Nat, identity : Int,
                                     falls : Nat, era : Nat]
  BY <1>1 DEF CourierKnows, NoCourier, NoMoment
<1>7. CASE Awaited
  <2>1. gate' = [gate EXCEPT !.last = moment, !.notified = Answered]
    BY <1>7 DEF LetterDelivered
  <2>2. letter' = [letter EXCEPT !.pending = FALSE]
    BY <1>7 DEF LetterDelivered
  <2>3. Answered = (gate.above /\ courier.falls = gate.falls) /\ Answered \in BOOLEAN
    BY <1>2 DEF Answered
  <2>4. /\ gate' \in [identity : Int, notified : BOOLEAN, last : Int, above : BOOLEAN,
                      falls : Nat, checked : Nat, resume : Int, era : Nat]
        /\ gate'.last = moment /\ gate'.notified = Answered
        /\ gate'.identity = gate.identity /\ gate'.above = gate.above
        /\ gate'.falls = gate.falls /\ gate'.era = gate.era
    <3> moment \in Int
      BY <1>2
    <3> HIDE DEF Answered
    <3> QED BY <1>2, <2>1, <2>3
  <2>5. letter' \in [id : Nat, pending : BOOLEAN, due : Nat, expires : Nat] /\ ~letter'.pending
    BY <1>2, <2>2
  <2>6. AlertTypes'
    BY <1>1, <1>3, <1>6, <2>4, <2>5 DEF AlertInv, AlertTypes
  <2>7. GateKnows'
    BY <1>1, <1>2, <1>3, <1>4, <1>7, <2>3, <2>4 DEF GateKnows, RestsOnItsOwnRise
  <2> QED BY <1>5, <1>6, <2>5, <2>6, <2>7 DEF AlertInv
<1>8. CASE ~Awaited
  <2>1. gate' = gate /\ letter' = letter
    BY <1>8 DEF LetterDelivered
  <2>2. courier.era < gate.era
    BY <1>2, <1>4, <1>8
  <2>3. AlertTypes'
    BY <1>1, <1>3, <1>6, <2>1 DEF AlertInv, AlertTypes
  <2>4. GateKnows'
    BY <1>1, <1>2, <1>3, <1>4, <2>1, <2>2 DEF AlertInv, GateKnows, RestsOnItsOwnRise
  <2>5. Due(gate.era, gate.falls)'
    BY <1>2, <1>3, <2>1, <2>2 DEF Due
  <2> QED BY <1>5, <1>6, <2>3, <2>4, <2>5 DEF AlertInv
<1> QED BY <1>7, <1>8

\* Alerts switched off: the gate starts another era and the row is cancelled.
LEMMA SwitchKeeps == ASSUME ThresholdAssumption, AlertInv, SwitchAlerts PROVE AlertInv'
<1>1. /\ UNCHANGED <<moment, quota, swings, setting, poll, courier, announced>>
      /\ alerting' \in BOOLEAN
  BY DEF SwitchAlerts, market, AlertInv, AlertTypes
<1>2. CASE UNCHANGED <<letter, gate>>
  <2>1. AlertTypes'
    BY <1>1, <1>2 DEF AlertInv, AlertTypes
  <2> QED BY <1>1, <1>2, <2>1, Aside DEF AlertInv, AlertTypes
<1>3. CASE letter' = [letter EXCEPT !.pending = FALSE, !.expires = 0]
  <2>1. letter' \in [id : Nat, pending : BOOLEAN, due : Nat, expires : Nat]
        /\ ~letter'.pending /\ letter'.id = letter.id
    BY <1>3 DEF AlertInv, AlertTypes
  <2>2. CASE gate.identity = NoMoment
    <3>1. gate' = gate \/ UNCHANGED <<letter, gate>>
      BY <2>2 DEF SwitchAlerts
    <3>2. courier.at = "idle"
      BY <2>2 DEF AlertInv, CourierKnows
    <3>3. gate' = gate
      BY <3>1
    <3>4. AlertTypes'
      BY <1>1, <2>1, <3>3 DEF AlertInv, AlertTypes
    <3>5. GateKnows' /\ CourierKnows'
      BY <1>1, <3>2, <3>3 DEF AlertInv, GateKnows, RestsOnItsOwnRise, CourierKnows
    <3> QED BY <2>1, <3>4, <3>5 DEF AlertInv
  <2>3. CASE gate.identity # NoMoment
    <3>1. UNCHANGED <<letter, gate>>
          \/ gate' = [gate EXCEPT !.notified = FALSE, !.resume = moment, !.era = @ + 1]
      BY <2>3 DEF SwitchAlerts
    <3>2. CASE gate' = [gate EXCEPT !.notified = FALSE, !.resume = moment, !.era = @ + 1]
      <4>1. /\ gate.era \in Nat /\ moment \in Nat /\ moment \in Int /\ announced.era \in Int
            /\ courier.era \in Nat
            /\ gate \in [identity : Int, notified : BOOLEAN, last : Int, above : BOOLEAN,
                         falls : Nat, checked : Nat, resume : Int, era : Nat]
        BY DEF AlertInv, AlertTypes
      <4>2. /\ gate' \in [identity : Int, notified : BOOLEAN, last : Int, above : BOOLEAN,
                          falls : Nat, checked : Nat, resume : Int, era : Nat]
            /\ ~gate'.notified /\ gate'.era = gate.era + 1
            /\ gate'.identity = gate.identity /\ gate'.above = gate.above
        <5> DEFINE e == gate.era + 1
        <5>1. e \in Nat
          BY <4>1
        <5>2. gate' = [gate EXCEPT !.notified = FALSE, !.resume = moment, !.era = e]
          BY <3>2
        <5> HIDE DEF e
        <5>3. /\ gate' \in [identity : Int, notified : BOOLEAN, last : Int, above : BOOLEAN,
                            falls : Nat, checked : Nat, resume : Int, era : Nat]
              /\ ~gate'.notified /\ gate'.era = e
              /\ gate'.identity = gate.identity /\ gate'.above = gate.above
          BY <4>1, <5>1, <5>2
        <5> QED BY <5>3 DEF e
      <4>3. AlertTypes'
        BY <1>1, <2>1, <4>2 DEF AlertInv, AlertTypes
      <4>4. GateKnows'
        BY <1>1, <4>1, <4>2 DEF AlertInv, GateKnows, RestsOnItsOwnRise
      <4>5. ~Awaited'
        BY <2>1 DEF Awaited
      <4>6. CourierKnows'
        BY <1>1, <2>1, <2>3, <4>1, <4>2, <4>5 DEF AlertInv, CourierKnows, Due
      <4> QED BY <2>1, <4>3, <4>4, <4>6 DEF AlertInv
    <3> QED BY <1>2, <3>1, <3>2
  <2> QED BY <2>2, <2>3
<1> QED BY <1>2, <1>3 DEF SwitchAlerts

-----------------------------------------------------------------------------
\* Every step keeps the invariant, and a delivery is about another rise.
LEMMA AlertKept ==
  ASSUME ThresholdAssumption, AlertInv, [ThresholdNext]_thresholdVars
  PROVE  /\ AlertInv'
         /\ announced' # announced => AnotherRise
<1> USE DEF market, settings
<1>1. moment \in Nat
  BY DEF AlertInv, AlertTypes
<1>2. CASE MomentPasses
  <2>1. AlertTypes' /\ moment' >= moment
    BY <1>1, <1>2 DEF MomentPasses, AlertInv, AlertTypes
  <2> QED BY <1>2, <2>1, Aside DEF MomentPasses, AlertTypes
<1>3. CASE QuotaMoves \/ SettingChanges
  <2>1. AlertTypes'
    BY <1>3 DEF QuotaMoves, SettingChanges, AlertInv, AlertTypes, ThresholdAssumption
  <2> QED BY <1>1, <1>3, <2>1, Aside DEF QuotaMoves, SettingChanges
<1>4. CASE PollQuota
  <2>1. poll' = [at |-> "read", checked |-> moment, quota |-> quota, identity |-> NoMoment]
    BY <1>4 DEF PollQuota, NoPoll
  <2>2. AlertTypes'
    BY <1>4, <2>1 DEF PollQuota, AlertInv, AlertTypes, NoMoment
  <2> QED BY <1>1, <1>4, <2>2, Aside DEF PollQuota
<1>5. CASE ReadSetting
  <2>1. poll' = [poll EXCEPT !.at = "observe", !.identity = setting]
    BY <1>5 DEF ReadSetting
  <2>2. setting \in Int /\ setting \in Threshold
    BY DEF AlertInv, AlertTypes, ThresholdAssumption
  <2>3. poll' \in [at : {"idle", "read", "observe"}, checked : Nat, quota : Nat, identity : Int]
        /\ poll'.identity = setting
    BY <2>1, <2>2 DEF AlertInv, AlertTypes
  <2>4. AlertTypes'
    BY <1>5, <2>2, <2>3 DEF ReadSetting, AlertInv, AlertTypes
  <2> QED BY <1>1, <1>5, <2>4, Aside DEF ReadSetting
<1>6. CASE InvalidateAlert
  <2>1. poll' = NoPoll /\ letter' = [letter EXCEPT !.expires = 0]
    BY <1>6 DEF InvalidateAlert, Expired
  <2>2. letter' \in [id : Nat, pending : BOOLEAN, due : Nat, expires : Nat]
        /\ letter'.id = letter.id /\ letter'.pending = letter.pending
    BY <2>1 DEF AlertInv, AlertTypes
  <2>3. AlertTypes'
    BY <1>6, <2>1, <2>2 DEF InvalidateAlert, AlertInv, AlertTypes, NoPoll, NoMoment
  <2> QED BY <1>1, <1>6, <2>2, <2>3, Aside DEF InvalidateAlert
<1>7. CASE ObserveQuota
  BY <1>7, ObserveKeeps DEF ObserveQuota
<1>8. CASE ObserveNothing
  <2>1. AlertTypes'
    BY <1>8 DEF ObserveNothing, AlertInv, AlertTypes, NoPoll, NoMoment
  <2> QED BY <1>1, <1>8, <2>1, Aside DEF ObserveNothing
<1>9. CASE PickLetter
  BY <1>9, PickKeeps DEF PickLetter
<1>10. CASE SendLetter
  BY <1>10, SendKeeps DEF SendLetter
<1>11. CASE LetterDelivered
  BY <1>11, DeliveredKeeps
<1>12. CASE LetterFails
  <2>1. letter' = [letter EXCEPT !.due = moment + Retry] \/ letter' = letter
    BY <1>12 DEF LetterFails
  <2>2. moment + Retry \in Nat
    BY <1>1 DEF ThresholdAssumption
  <2>3. letter' \in [id : Nat, pending : BOOLEAN, due : Nat, expires : Nat]
        /\ letter'.id = letter.id /\ letter'.pending = letter.pending
    <3> DEFINE d == moment + Retry
    <3> HIDE DEF d
    <3>1. letter' = [letter EXCEPT !.due = d] \/ letter' = letter
      BY <2>1 DEF d
    <3>2. d \in Nat
      BY <2>2 DEF d
    <3> QED BY <3>1, <3>2 DEF AlertInv, AlertTypes
  <2>4. courier' = NoCourier /\ courier'.at = "idle"
    BY <1>12 DEF LetterFails, NoCourier
  <2>5. AlertTypes'
    BY <1>12, <2>3, <2>4 DEF LetterFails, AlertInv, AlertTypes, NoCourier, NoMoment
  <2> QED BY <1>1, <1>12, <2>3, <2>4, <2>5, Aside DEF LetterFails
<1>13. CASE SwitchAlerts
  BY <1>13, SwitchKeeps DEF SwitchAlerts
<1>14. CASE CourierStops
  <2>1. poll' = NoPoll /\ courier' = NoCourier /\ courier'.at = "idle"
    BY <1>14 DEF CourierStops, NoCourier
  <2>2. AlertTypes'
    BY <1>14, <2>1 DEF CourierStops, AlertInv, AlertTypes, NoPoll, NoCourier, NoMoment
  <2> QED BY <1>1, <1>14, <2>1, <2>2, Aside DEF CourierStops
<1>15. CASE UNCHANGED thresholdVars
  <2>1. AlertTypes'
    BY <1>15 DEF thresholdVars, AlertInv, AlertTypes
  <2> QED BY <1>1, <1>15, <2>1, Aside DEF thresholdVars
<1> QED BY <1>2, <1>3, <1>4, <1>5, <1>6, <1>7, <1>8, <1>9, <1>10, <1>11, <1>12, <1>13, <1>14, <1>15
        DEF ThresholdNext

\* The invariant holds for every choice of the constants.
THEOREM AlertInvariant == ThresholdSpec => []AlertInv
<1>1. ThresholdInit => AlertInv
  BY AlertStarts, ThresholdAssumption
<1>2. AlertInv /\ [ThresholdNext]_thresholdVars => AlertInv'
  BY AlertKept, ThresholdAssumption
<1> QED BY <1>1, <1>2, PTL DEF ThresholdSpec

\* However polls, falls, answers and changed settings interleave, two messages
\* that were delivered are about different rises and keep the cooldown, and the
\* gate is silent only about the rise that was announced.
THEOREM OneAlert == ThresholdSpec => OneAlertPerCrossing
<1>1. AlertInv /\ [ThresholdNext]_thresholdVars
      => [RestsOnItsOwnRise' /\ (announced' # announced => AnotherRise)]_thresholdVars
  <2>1. SUFFICES ASSUME AlertInv, [ThresholdNext]_thresholdVars
                 PROVE  RestsOnItsOwnRise' /\ (announced' # announced => AnotherRise)
    OBVIOUS
  <2>2. AlertInv' /\ (announced' # announced => AnotherRise)
    BY <2>1, AlertKept, ThresholdAssumption
  <2> QED BY <2>2 DEF AlertInv, GateKnows
<1> QED BY <1>1, AlertInvariant, PTL DEF ThresholdSpec, OneAlertPerCrossing

-----------------------------------------------------------------------------
(* DepthBook *)

\* Events the exchange announced: later versions than the first, in existence.
Announced(s) == \A i \in DOMAIN s :
    1 <= s[i].prev /\ s[i].prev < s[i].last /\ s[i].last <= Len(real)

\* The levels are those of the exchange's book, down to the floor.
Exact(bids, floor, levels) ==
    /\ bids = {p \in levels : p >= floor}
    /\ floor = 0 => bids = {}

\* The version a seeded book stands at.
At(b) == IF b.valid THEN b.last ELSE b.seed

Standing(b) ==
    /\ b.seed # 0 /\ b.pending = <<>>
    /\ At(b) \in 1 .. Len(real)
    /\ Exact(b.bids, b.floor, real[At(b)])

\* The book as the receiver has it, with what it heard.
BookStands ==
    /\ IF book.seed = 0 THEN ~book.valid ELSE Standing(book)
    /\ Announced(book.pending)
    /\ book.pending # <<>> => book.pending[Len(book.pending)].last >= heard
    /\ book.valid => up /\ book.last >= heard

\* A snapshot that is not revoked is an earlier version of this very book.
ViewStands == held.live =>
    /\ book.valid /\ held.last \in 1 .. book.last
    /\ Exact(held.bids, held.floor, real[held.last])

DepthInv ==
    /\ DepthTypeOK
    /\ sent <= Len(real) /\ Announced(wire)
    /\ request.pc = "answered" => request.version \in 1 .. Len(real)
    /\ BookStands /\ ViewStands

LEMMA LeastNatural ==
  ASSUME NEW T, T \subseteq Nat, T # {}
  PROVE  \E x \in T : \A y \in T : x <= y
  <1> DEFINE R == OpToRel(<, Nat)
  <1>1. IsWellFoundedOn(R, Nat)
    BY NatLessThanWellFounded
  <1>2. \A x, y \in Nat : y < x => <<y, x>> \in R
    BY DEF OpToRel
  <1> HIDE DEF R
  <1>3. PICK x \in T : \A y \in T : ~(<<y, x>> \in R)
    BY <1>1, WFMin
  <1>4. \A y \in T : ~(y < x)
    BY <1>2, <1>3
  <1> QED BY <1>4

LEMMA LowestLevel ==
  ASSUME NEW S, S \subseteq Nat, S # {}
  PROVE  Min(S) \in S /\ \A y \in S : Min(S) <= y
  BY LeastNatural DEF Min

LEMMA HighestLevel ==
  ASSUME NEW S, S \subseteq Nat, S # {}, IsFiniteSet(S)
  PROVE  \E x \in S : \A y \in S : y <= x
  <1> DEFINE HasMax(X) == \E x \in X : \A y \in X : y <= x
             Bad == {n \in Nat : \E X \in SUBSET S : X # {} /\ Cardinality(X) = n /\ ~HasMax(X)}
  <1>1. ASSUME Bad # {} PROVE FALSE
    <2>1. PICK n \in Bad : \A m \in Bad : n <= m
      BY <1>1, LeastNatural
    <2>2. PICK X \in SUBSET S : X # {} /\ Cardinality(X) = n /\ ~HasMax(X)
      BY <2>1
    <2>3. PICK x \in X : TRUE
      BY <2>2
    <2> DEFINE Y == X \ {x}
    <2>4. IsFiniteSet(X) /\ IsFiniteSet(Y) /\ Cardinality(Y) = n - 1 /\ Cardinality(Y) \in Nat /\ n \in Nat
      <3>1. IsFiniteSet(X)
        BY <2>2, FS_Subset
      <3>2. IsFiniteSet(Y) /\ Cardinality(Y) = Cardinality(X) - 1
        BY <2>3, <3>1, FS_RemoveElement
      <3> QED BY <2>1, <2>2, <3>1, <3>2, FS_CardinalityType
    <2>5. CASE Y = {}
      <3>1. \A y \in X : y <= x
        BY <2>2, <2>3, <2>5
      <3> QED BY <2>2, <2>3, <3>1
    <2>6. CASE Y # {}
      <3>1. n - 1 \notin Bad
        BY <2>1, <2>4
      <3>2. HasMax(Y)
        BY <2>2, <2>4, <2>6, <3>1
      <3>3. PICK z \in Y : \A y \in Y : y <= z
        BY <3>2
      <3>4. x \in Nat /\ z \in Nat /\ z \in X /\ \A y \in X : y \in Nat /\ (y = x \/ y \in Y)
        BY <2>2, <2>3, <3>3
      <3>5. CASE z <= x
        <4>1. \A y \in X : y <= x
          BY <3>3, <3>4, <3>5
        <4> QED BY <2>2, <2>3, <4>1
      <3>6. CASE x <= z
        <4>1. \A y \in X : y <= z
          BY <3>3, <3>4, <3>6
        <4> QED BY <2>2, <3>4, <4>1
      <3> QED BY <3>4, <3>5, <3>6
    <2> QED BY <2>5, <2>6
  <1>2. Cardinality(S) \in Nat
    BY FS_CardinalityType
  <1>3. HasMax(S)
    BY <1>1, <1>2
  <1> QED BY <1>3

\* A level that no event between two versions changed is in both or in none.
LEMMA Unchanged ==
  ASSUME DepthBounds, real \in Seq(SUBSET Price),
         NEW u \in Update, 1 <= u.prev, u.last <= Len(real),
         NEW p \in Price, p \notin Changed(u),
         NEW a \in u.prev .. u.last
  PROVE (p \in real[a]) = (p \in real[u.last])
  <1> DEFINE Bad == {v \in Nat : a <= v /\ v <= u.last /\ (p \in real[v]) # (p \in real[a])}
  <1>0. u.prev \in Nat /\ u.last \in Nat /\ a \in Nat
    BY DEF Update, Version, DepthBounds
  <1>1. ASSUME Bad # {} PROVE FALSE
    <2>1. PICK v \in Bad : \A w \in Bad : v <= w
      BY <1>1, LeastNatural
    <2>2. v # a /\ v - 1 \in Nat /\ a <= v - 1
      BY <1>0, <2>1
    <2>3. (p \in real[v - 1]) = (p \in real[a])
      BY <1>0, <2>1, <2>2
    <2>4. v \in u.prev + 1 .. u.last
      BY <1>0, <2>1, <2>2
    <2> QED BY <2>1, <2>3, <2>4 DEF Changed
  <1>2. u.last \notin Bad
    BY <1>1
  <1> QED BY <1>0, <1>2

-----------------------------------------------------------------------------
(* The best levels *)

LEMMA BestLevels ==
  ASSUME DepthBounds, NEW bids \in SUBSET Price
  PROVE /\ Best(bids) \subseteq bids
        /\ bids # {} => Best(bids) # {}
        /\ \A p \in Best(bids), q \in bids : p < q => q \in Best(bids)
  <1>1. IsFiniteSet(bids) /\ bids \subseteq Nat
    BY FS_Subset DEF DepthBounds
  <1>2. ASSUME bids # {} PROVE Best(bids) # {}
    <2>1. PICK x \in bids : \A y \in bids : y <= x
      BY <1>1, <1>2, HighestLevel
    <2>2. {q \in bids : q > x} = {}
      <3>1. ASSUME NEW q \in bids PROVE ~(q > x)
        <4>1. q \in Nat /\ x \in Nat /\ q <= x
          BY <1>1, <2>1
        <4> QED BY <4>1
      <3> QED BY <3>1
    <2>3. Cardinality({q \in bids : q > x}) < Limit
      BY <2>2, FS_EmptySet DEF DepthBounds
    <2> QED BY <2>3 DEF Best
  <1>3. ASSUME NEW p \in Best(bids), NEW q \in bids, p < q PROVE q \in Best(bids)
    <2> DEFINE Better(r) == {s \in bids : s > r}
    <2>1. p \in bids /\ Cardinality(Better(p)) < Limit
      BY DEF Best
    <2>2. Better(q) \subseteq Better(p)
      <3>1. ASSUME NEW s \in bids, s > q PROVE s > p
        <4>1. s \in Nat /\ p \in Nat /\ q \in Nat
          BY <1>1, <2>1
        <4> QED BY <1>3, <3>1, <4>1
      <3> QED BY <3>1
    <2>3. IsFiniteSet(Better(p))
      BY <1>1, FS_Subset
    <2>4. Cardinality(Better(q)) <= Cardinality(Better(p)) /\ Cardinality(Better(q)) \in Nat
          /\ Cardinality(Better(p)) \in Nat
      BY <2>2, <2>3, FS_Subset, FS_CardinalityType
    <2>5. Cardinality(Better(q)) < Limit
      BY <2>1, <2>4 DEF DepthBounds
    <2> QED BY <2>5 DEF Best
  <1> QED BY <1>2, <1>3 DEF Best

\* The best of exact levels are exact, down to the worst of them.
LEMMA BestIsExact ==
  ASSUME DepthBounds, NEW levels \in SUBSET Price, NEW bids \in SUBSET Price, NEW floor \in {0} \cup Price,
         bids = {p \in levels : p >= floor}, bids # {}
  PROVE /\ Min(Best(bids)) \in Price
        /\ Exact(Best(bids), Min(Best(bids)), levels)
  <1> DEFINE m == Min(Best(bids))
  <1>1. Best(bids) \subseteq Nat /\ Best(bids) # {} /\ Best(bids) \subseteq bids
    BY BestLevels DEF DepthBounds
  <1>2. m \in Best(bids) /\ \A y \in Best(bids) : m <= y
    BY <1>1, LowestLevel
  <1> HIDE DEF m
  <1>3. m \in Price /\ m # 0 /\ m \in Nat /\ m >= floor
    BY <1>1, <1>2 DEF DepthBounds
  <1>4. ASSUME NEW p \in levels, p >= m PROVE p \in Best(bids)
    <2>1. p \in Nat /\ p \in Price
      BY DEF DepthBounds
    <2>2. p >= floor
      BY <1>3, <1>4, <2>1 DEF DepthBounds
    <2>3. p \in bids
      BY <2>2
    <2>4. CASE p = m
      BY <1>2, <2>4
    <2>5. CASE p # m
      BY <1>2, <1>3, <1>4, <2>1, <2>3, <2>5, BestLevels
    <2> QED BY <2>4, <2>5
  <1>5. ASSUME NEW p \in Best(bids) PROVE p \in levels /\ p >= m
    BY <1>1, <1>2, <1>3 DEF DepthBounds
  <1>6. Best(bids) = {p \in levels : p >= m}
    BY <1>4, <1>5
  <1> QED BY <1>3, <1>6 DEF Exact, m

LEMMA NothingIsLow == DepthBounds => \A p \in Price : p >= 0 /\ p # 0
  BY DEF DepthBounds

\* Cutting a book down keeps it exact.
LEMMA BoundedIsExact ==
  ASSUME DepthBounds, NEW b \in Book, NEW levels \in SUBSET Price, Exact(b.bids, b.floor, levels)
  PROVE /\ Bounded(b) \in Book
        /\ Exact(Bounded(b).bids, Bounded(b).floor, levels)
        /\ Bounded(b).seed = b.seed /\ Bounded(b).pending = b.pending
        /\ Bounded(b).last = b.last /\ Bounded(b).valid = b.valid
  <1>1. CASE Cardinality(b.bids) <= Limit
    BY <1>1 DEF Bounded
  <1>2. CASE ~(Cardinality(b.bids) <= Limit)
    <2>1. b.bids # {}
      BY <1>2, FS_EmptySet DEF DepthBounds
    <2>2. b.bids \in SUBSET Price /\ b.floor \in {0} \cup Price
      BY DEF Book
    <2>3. Min(Best(b.bids)) \in Price /\ Exact(Best(b.bids), Min(Best(b.bids)), levels)
      BY <2>1, <2>2, BestIsExact DEF Exact
    <2>4. Best(b.bids) \in SUBSET Price
      BY <2>2, BestLevels
    <2> DEFINE bids == Best(b.bids)
               floor == Min(bids)
    <2>5. Bounded(b) = [b EXCEPT !.bids = bids, !.floor = floor]
      BY <1>2, <2>2 DEF Bounded, Book
    <2> HIDE DEF bids, floor
    <2>6. bids \in SUBSET Price /\ floor \in Price /\ Exact(bids, floor, levels)
      BY <2>3, <2>4 DEF bids, floor
    <2> QED BY <2>5, <2>6 DEF Book
  <1> QED BY <1>1, <1>2

\* An event that continues an exact book, or bridges its seed, leaves it exact.
LEMMA AppliedStands ==
  ASSUME DepthBounds, real \in Seq(SUBSET Price), NEW b \in Book, Standing(b),
         NEW u \in Update, 1 <= u.prev, u.prev < u.last, u.last <= Len(real),
         Follows(b, u), b.floor = 0 => Present(u) = {}
  PROVE /\ Applied(b, u) \in Book /\ Standing(Applied(b, u))
        /\ Applied(b, u).valid /\ Applied(b, u).last = u.last /\ Applied(b, u).seed = b.seed
  <1> DEFINE old == real[At(b)]
             new == real[u.last]
             bids == {p \in b.bids : p \notin Changed(u)} \cup {p \in Present(u) : p >= b.floor}
             c == [b EXCEPT !.bids = bids, !.last = u.last, !.valid = TRUE]
  <1>0. /\ b.bids \in SUBSET Price /\ b.floor \in {0} \cup Price /\ b.seed \in Nat /\ b.last \in Nat
        /\ u.prev \in Nat /\ u.last \in Nat /\ u.last \in Version /\ u.last \in 0 .. MaxVersions
    BY DEF Book, Update, Version, DepthBounds
  <1>1. At(b) \in u.prev .. u.last
    BY <1>0 DEF Follows, Standing, At
  <1>2. old \in SUBSET Price /\ new \in SUBSET Price
    BY <1>0, ElementOfSeq DEF Standing
  <1>3. \A p \in Price : p \notin Changed(u) => ((p \in old) = (p \in new))
    BY <1>1, Unchanged
  <1>4. Changed(u) \subseteq Price /\ Present(u) = Changed(u) \cap new
    BY DEF Changed, Present
  <1>5. Exact(b.bids, b.floor, old)
    BY DEF Standing
  <1>6. Exact(bids, b.floor, new)
    <2>1. ASSUME NEW p \in bids PROVE p \in new /\ p >= b.floor
      <3>1. CASE p \in b.bids /\ p \notin Changed(u)
        BY <1>0, <1>3, <1>5, <3>1 DEF Exact
      <3>2. CASE p \in Present(u) /\ p >= b.floor
        BY <1>4, <3>2
      <3> QED BY <2>1, <3>1, <3>2
    <2>2. ASSUME NEW p \in new, p >= b.floor PROVE p \in bids
      <3>1. CASE p \in Changed(u)
        BY <1>4, <2>2, <3>1
      <3>2. CASE p \notin Changed(u)
        <4>1. p \in Price
          BY <1>2
        <4>2. p \in old
          BY <1>3, <3>2, <4>1
        <4>3. p \in b.bids
          BY <1>5, <2>2, <4>2 DEF Exact
        <4> QED BY <3>2, <4>3
      <3> QED BY <3>1, <3>2
    <2>3. b.floor = 0 => bids = {}
      BY <1>5 DEF Exact
    <2>4. bids = {p \in new : p >= b.floor}
      BY <2>1, <2>2
    <2> HIDE DEF bids, new
    <2> QED BY <2>3, <2>4 DEF Exact
  <1>7. bids \in SUBSET Price
    BY <1>0, <1>4
  <1>8. Applied(b, u) = Bounded(c)
    BY DEF Applied
  <1> HIDE DEF bids, old, new
  <1>9. /\ c \in Book /\ c.bids = bids /\ c.floor = b.floor /\ c.valid /\ c.last = u.last
        /\ c.seed = b.seed /\ c.pending = b.pending
    BY <1>0, <1>7 DEF Book
  <1> HIDE DEF c
  <1>10. /\ Bounded(c) \in Book /\ Exact(Bounded(c).bids, Bounded(c).floor, new)
         /\ Bounded(c).seed = b.seed /\ Bounded(c).pending = b.pending
         /\ Bounded(c).last = u.last /\ Bounded(c).valid = TRUE
    BY <1>2, <1>6, <1>9, BoundedIsExact DEF Book
  <1>11. u.last \in 1 .. Len(real)
    <2>1. Len(real) \in Nat
      BY LenProperties
    <2> QED BY <1>0, <2>1
  <1> QED BY <1>8, <1>10, <1>11 DEF Standing, At, new

LEMMA GapHasNoSeed == Gap.seed = 0 /\ Fresh.seed = 0 /\ ~Fresh.valid /\ Fresh.pending = <<>> /\ Fresh \in Book
  BY DepthBounds, EmptySeq DEF Gap, Fresh, Book, DepthBounds

\* One event on a book that stands: a gap, or a book that stands further on.
LEMMA StepStands ==
  ASSUME DepthBounds, real \in Seq(SUBSET Price), NEW b \in Book, Standing(b),
         NEW u \in Update, 1 <= u.prev, u.prev < u.last, u.last <= Len(real),
         Step(b, u) # Gap
  PROVE /\ Step(b, u) \in Book /\ Standing(Step(b, u)) /\ Step(b, u).seed = b.seed
        /\ Step(b, u).valid => Step(b, u).last >= u.last
        /\ b.valid => Step(b, u).valid /\ Step(b, u).last >= b.last
  <1>0. b # Gap /\ b.last \in Nat /\ u.last \in Nat /\ b.seed \in Nat /\ u.prev \in Nat
    BY GapHasNoSeed DEF Standing, Book, Update, Version, DepthBounds
  <1>1. CASE Skips(b, u)
    <2>1. Step(b, u) = b
      <3>1. ~Applies(b, u)
        BY <1>0, <1>1 DEF Applies, Follows, Skips
      <3> QED BY <1>0, <1>1, <3>1 DEF Step
    <2> QED BY <1>0, <1>1, <2>1 DEF Skips
  <1>2. CASE ~Skips(b, u) /\ Applies(b, u)
    <2>1. Step(b, u) = Applied(b, u)
      BY <1>0, <1>2 DEF Step
    <2>2. /\ Applied(b, u) \in Book /\ Standing(Applied(b, u))
          /\ Applied(b, u).valid /\ Applied(b, u).last = u.last /\ Applied(b, u).seed = b.seed
      BY <1>2, AppliedStands DEF Applies
    <2>3. b.valid => b.last <= u.last
      BY <1>0, <1>2 DEF Skips
    <2> QED BY <1>0, <2>1, <2>2, <2>3
  <1>3. CASE ~Skips(b, u) /\ ~Applies(b, u)
    BY <1>0, <1>3 DEF Step
  <1> QED BY <1>1, <1>2, <1>3

-----------------------------------------------------------------------------
(* Replaying what was buffered *)

\* The book after each of the first events.
Replay(b, g, m) ==
    g = [n \in 0 .. m |-> IF n = 0 THEN [b EXCEPT !.pending = <<>>] ELSE Step(g[n - 1], b.pending[n])]

LEMMA ReplayExists ==
  ASSUME NEW b, NEW m \in Nat
  PROVE \E g : Replay(b, g, m)
  <1> DEFINE Bad == {n \in Nat : ~ \E g : Replay(b, g, n)}
             start == [b EXCEPT !.pending = <<>>]
  <1>1. ASSUME Bad # {} PROVE FALSE
    <2>1. PICK n \in Bad : \A k \in Bad : n <= k
      BY <1>1, LeastNatural
    <2>2. CASE n = 0
      <3> DEFINE g == [i \in 0 .. 0 |-> start]
      <3>1. \A i \in 0 .. 0 : i = 0
        OBVIOUS
      <3>2. g = [i \in 0 .. 0 |-> IF i = 0 THEN start ELSE Step(g[i - 1], b.pending[i])]
        BY <3>1
      <3>3. Replay(b, g, 0)
        BY <3>2 DEF Replay
      <3> QED BY <2>1, <2>2, <3>3
    <2>3. CASE n # 0
      <3>1. n - 1 \in Nat /\ n - 1 \notin Bad
        BY <2>1, <2>3
      <3>2. PICK h : Replay(b, h, n - 1)
        BY <3>1
      <3> DEFINE top == Step(h[n - 1], b.pending[n])
                 g == [i \in 0 .. n |-> IF i = n THEN top ELSE h[i]]
      <3>3. ASSUME NEW i \in 0 .. n
            PROVE g[i] = IF i = 0 THEN start ELSE Step(g[i - 1], b.pending[i])
        <4>1. CASE i = n
          <5>1. g[n] = top /\ g[n - 1] = h[n - 1]
            BY <2>1, <3>1
          <5> QED BY <2>3, <4>1, <5>1
        <4>2. CASE i # n
          <5>1. i \in 0 .. n - 1 /\ n \in Nat
            BY <2>1, <4>2
          <5>2. g[i] = h[i]
            BY <4>2
          <5>3. i # 0 => g[i - 1] = h[i - 1]
            BY <5>1
          <5>4. h[i] = IF i = 0 THEN start ELSE Step(h[i - 1], b.pending[i])
            BY <3>2, <5>1 DEF Replay
          <5> QED BY <5>2, <5>3, <5>4
        <4> QED BY <4>1, <4>2
      <3>4. g = [i \in 0 .. n |-> g[i]]
        OBVIOUS
      <3> HIDE DEF g
      <3>5. Replay(b, g, n)
        BY <3>3, <3>4 DEF Replay
      <3> QED BY <2>1, <3>5
    <2> QED BY <2>2, <2>3
  <1> QED BY <1>1

\* A seed that is exact stands after all that was buffered, or there is a gap.
LEMMA ReplayedStands ==
  ASSUME DepthBounds, real \in Seq(SUBSET Price), NEW b \in Book, b.seed \in 1 .. Len(real), ~b.valid,
         Exact(b.bids, b.floor, real[b.seed]), Announced(b.pending), Replayed(b) # Gap
  PROVE /\ Replayed(b) \in Book /\ Standing(Replayed(b))
        /\ Replayed(b).valid => b.pending # <<>> /\ Replayed(b).last >= b.pending[Len(b.pending)].last
  <1> DEFINE L == Len(b.pending)
             f == CHOOSE g : Replay(b, g, L)
             start == [b EXCEPT !.pending = <<>>]
  <1>0. b.pending \in Seq(Update) /\ L \in Nat /\ DOMAIN b.pending = 1 .. L
    BY LenProperties DEF Book
  <1>1. Replay(b, f, L)
    BY <1>0, ReplayExists
  <1>2. Replayed(b) = f[L]
    BY DEF Replayed, Replay
  <1> HIDE DEF f, L
  <1>3. f[0] = start /\ \A n \in 1 .. L : f[n] = Step(f[n - 1], b.pending[n])
    <2>1. \A n \in 0 .. L : f[n] = IF n = 0 THEN start ELSE Step(f[n - 1], b.pending[n])
      BY <1>1 DEF Replay
    <2> HIDE DEF start
    <2>2. 0 \in 0 .. L /\ \A n \in 1 .. L : n \in 0 .. L /\ n # 0
      BY <1>0
    <2> QED BY <2>1, <2>2
  <1>4. start \in Book /\ Standing(start) /\ ~start.valid
    <2>1. <<>> \in Seq(Update)
      BY EmptySeq
    <2>2. start \in Book /\ start.pending = <<>> /\ start.seed = b.seed /\ start.valid = b.valid
          /\ start.bids = b.bids /\ start.floor = b.floor
      BY <2>1 DEF Book
    <2>3. b.seed # 0
      OBVIOUS
    <2> HIDE DEF start
    <2> QED BY <2>2, <2>3 DEF Standing, At
  <1> HIDE DEF start
  <1> DEFINE Good(n) == /\ f[n] \in Book /\ Standing(f[n])
                        /\ f[n].valid => n > 0 /\ f[n].last >= b.pending[n].last
             Bad == {n \in Nat : n <= L /\ f[n] # Gap /\ ~Good(n)}
  <1>5. ASSUME Bad # {} PROVE FALSE
    <2>1. PICK n \in Bad : \A k \in Bad : n <= k
      BY <1>5, LeastNatural
    <2>2. CASE n = 0
      BY <1>3, <1>4, <2>1, <2>2
    <2>3. CASE n # 0
      <3>1. n \in 1 .. L /\ n - 1 \in Nat /\ n - 1 <= L /\ n > 0
        BY <1>0, <2>1, <2>3
      <3>2. f[n] = Step(f[n - 1], b.pending[n])
        BY <1>3, <3>1
      <3>3. b.pending[n] \in Update
        BY <1>0, <3>1, ElementOfSeq DEF L
      <3>4. 1 <= b.pending[n].prev /\ b.pending[n].prev < b.pending[n].last /\ b.pending[n].last <= Len(real)
        BY <1>0, <3>1 DEF Announced
      <3>5. f[n - 1] # Gap
        <4>1. Gap.seed = 0 /\ ~Gap.valid
          BY DEF Gap, Fresh
        <4>2. b.pending[n].last \in Nat /\ b.pending[n].prev \in Nat
          BY <3>3 DEF Update, Version, DepthBounds
        <4>3. ~Skips(Gap, b.pending[n]) /\ ~Applies(Gap, b.pending[n])
          BY <4>1, <4>2 DEF Skips, Applies, Follows
        <4>4. Step(Gap, b.pending[n]) = Gap
          BY <4>3 DEF Step
        <4> QED BY <2>1, <3>2, <4>4
      <3>6. Good(n - 1)
        <4>1. n - 1 \notin Bad
          BY <2>1, <3>1
        <4> QED BY <3>1, <3>5, <4>1
      <3>7. Good(n)
        BY <2>1, <3>1, <3>2, <3>3, <3>4, <3>6, StepStands
      <3> QED BY <2>1, <3>7
    <2> QED BY <2>2, <2>3
  <1>6. Good(L)
    BY <1>0, <1>2, <1>5
  <1>7. b.pending # <<>> <=> L > 0
    BY <1>0, EmptySeq DEF L
  <1> QED BY <1>2, <1>6, <1>7 DEF L

\* What a seed shows is exact.
LEMMA SeededStands ==
  ASSUME DepthBounds, DepthInv, State.seed = 0, NEW v \in 1 .. Len(real)
  PROVE /\ Seeded(v) \in Book /\ Seeded(v).seed = v /\ ~Seeded(v).valid
        /\ Seeded(v).pending = State.pending
        /\ Exact(Seeded(v).bids, Seeded(v).floor, real[v])
  <1> DEFINE bids == Best(real[v])
             floor == IF bids = {} THEN 0 ELSE Min(bids)
  <1>0. real[v] \in SUBSET Price /\ v \in 0 .. MaxVersions
    <2>1. real \in Seq(SUBSET Price) /\ Len(real) \in Version
      BY DEF DepthInv, DepthTypeOK
    <2>2. real[v] \in SUBSET Price
      BY <2>1, ElementOfSeq
    <2>3. v \in 0 .. MaxVersions
      BY <2>1, DepthBounds DEF Version, DepthBounds
    <2> QED BY <2>2, <2>3
  <1>1. bids \in SUBSET Price /\ floor \in {0} \cup Price /\ Exact(bids, floor, real[v])
    <2>1. CASE real[v] = {}
      <3>1. bids = {}
        BY <1>0, <2>1, BestLevels
      <3> QED BY <2>1, <3>1 DEF Exact
    <2>2. CASE real[v] # {}
      <3>1. real[v] = {p \in real[v] : p >= 0}
        BY <1>0, NothingIsLow
      <3>2. Min(bids) \in Price /\ Exact(bids, Min(bids), real[v])
        BY <1>0, <2>2, <3>1, BestIsExact
      <3>3. bids # {} /\ bids \in SUBSET Price
        BY <1>0, <2>2, BestLevels
      <3> QED BY <3>2, <3>3
    <2> QED BY <2>1, <2>2
  <1>2. State \in Book /\ ~State.valid
    BY GapHasNoSeed DEF State, Overdue, DepthInv, DepthTypeOK, BookStands
  <1>3. Seeded(v) = [State EXCEPT !.seed = v, !.bids = bids, !.floor = floor]
    BY DEF Seeded
  <1> HIDE DEF bids, floor
  <1> QED BY <1>0, <1>1, <1>2, <1>3 DEF Book

-----------------------------------------------------------------------------
(* The steps *)

LEMMA BecomeTyped ==
  ASSUME DepthTypeOK, NEW b \in Book, Become(b) \/ Invalidate(b) \/ Keep(b)
  PROVE /\ book' \in Book
        /\ request' \in [pc : {"none", "sent", "answered"}, live : BOOLEAN, version : 0 .. MaxVersions]
        /\ held' \in [last : 0 .. MaxVersions, bids : SUBSET Price, floor : {0} \cup Price, live : BOOLEAN]
        /\ request'.pc = request.pc /\ request'.version = request.version
        /\ \/ held' = held
           \/ ~held'.live
  <1>1. /\ request \in [pc : {"none", "sent", "answered"}, live : BOOLEAN, version : 0 .. MaxVersions]
        /\ held \in [last : 0 .. MaxVersions, bids : SUBSET Price, floor : {0} \cup Price, live : BOOLEAN]
    BY DEF DepthTypeOK
  <1>2. CASE Invalidate(b)
    BY <1>1, <1>2 DEF Invalidate
  <1>3. CASE Keep(b)
    BY <1>1, <1>3 DEF Keep
  <1> QED BY <1>2, <1>3 DEF Become

\* A state that is given up shows nothing; nor does any snapshot of it.
LEMMA InvalidateStands ==
  ASSUME DepthInv, NEW b \in Book, b.seed = 0, ~b.valid, Invalidate(b)
  PROVE /\ book' = b /\ ~book'.valid /\ ViewStands' /\ book'.seed = 0
  BY DEF Invalidate, ViewStands, DepthInv, DepthTypeOK

LEMMA DepthStarts == ASSUME DepthBounds, DepthInit PROVE DepthInv
  <1>1. DepthTypeOK
    <2>1. PICK b \in SUBSET Price : real = <<b>>
      BY DEF DepthInit
    <2>2. real \in Seq(SUBSET Price) /\ Len(real) = 1
      BY <2>1
    <2>3. <<>> \in Seq(Update)
      BY EmptySeq
    <2>4. 1 \in Version /\ 0 \in 0 .. MaxVersions /\ 0 \in 0 .. MaxFaults
      BY DEF Version, DepthBounds
    <2> QED BY <2>2, <2>3, <2>4, GapHasNoSeed DEF DepthInit, DepthTypeOK, NoRequest, NoView
  <1>2. sent <= Len(real)
    BY DEF DepthInit
  <1>3. Announced(<<>>)
    BY DEF Announced
  <1>4. BookStands /\ ViewStands
    BY <1>3, GapHasNoSeed DEF DepthInit, BookStands, ViewStands, NoView
  <1> QED BY <1>1, <1>2, <1>3, <1>4 DEF DepthInv, DepthInit, NoRequest

\* Nothing is forgotten by the exchange: what was exact stays exact.
LEMMA MoveKeeps == ASSUME DepthBounds, DepthInv, Move PROVE DepthInv'
  <1>0. real \in Seq(SUBSET Price) /\ Len(real) \in Nat /\ Len(real) \in Version
    BY LenProperties DEF DepthInv, DepthTypeOK
  <1>1. PICK c \in SUBSET Price : real' = Append(real, c)
    <2>1. real[Len(real)] \in SUBSET Price
      BY <1>0, ElementOfSeq DEF Version
    <2>2. PICK p \in Price : real' = Append(real, IF p \in real[Len(real)] THEN real[Len(real)] \ {p}
                                                  ELSE real[Len(real)] \cup {p})
      BY DEF Move
    <2> QED BY <2>1, <2>2
  <1>2. /\ real' \in Seq(SUBSET Price) /\ Len(real') = Len(real) + 1
        /\ \A v \in 1 .. Len(real) : real'[v] = real[v]
    BY <1>0, <1>1, AppendProperties
  <1>3. Len(real') \in Version
    BY <1>0, <1>2 DEF Move, Version
  <1>4. UNCHANGED <<sent, up, wire, book, request, cooled, held, heard, faults>>
    BY DEF Move
  <1>5. DepthTypeOK'
    BY <1>2, <1>3, <1>4 DEF DepthInv, DepthTypeOK
  <1>6. /\ Announced(wire) => Announced(wire)'
        /\ Announced(book.pending) => Announced(book.pending)'
    <2>1. ASSUME NEW s \in Seq(Update), Announced(s) PROVE Announced(s)'
      <3>1. \A i \in DOMAIN s : s[i].last \in Nat
        <4>1. ASSUME NEW i \in DOMAIN s PROVE s[i].last \in Nat
          <5>1. s[i] \in Update
            BY LenProperties, ElementOfSeq
          <5> QED BY <5>1, DepthBounds DEF Update, Version
        <4> QED BY <4>1
      <3> QED BY <1>0, <1>2, <2>1, <3>1 DEF Announced
    <2>2. wire \in Seq(Update) /\ book.pending \in Seq(Update)
      BY DEF DepthInv, DepthTypeOK, Book
    <2> QED BY <1>4, <2>1, <2>2
  <1>7. \A v \in 1 .. Len(real) : v \in 1 .. Len(real')
    BY <1>0, <1>2
  <1>8. Standing(book) => Standing(book)'
    BY <1>2, <1>4, <1>7 DEF Standing, At
  <1>9. BookStands'
    BY <1>4, <1>6, <1>8 DEF DepthInv, BookStands
  <1>10. ViewStands'
    <2>1. CASE held.live
      <3>1. book.seed # 0 /\ book.valid
        BY <2>1 DEF DepthInv, BookStands, ViewStands
      <3>2. held.last \in 1 .. Len(real)
        BY <1>0, <2>1, <3>1 DEF DepthInv, BookStands, ViewStands, Standing, At
      <3> QED BY <1>2, <1>4, <3>2 DEF DepthInv, ViewStands
    <2>2. CASE ~held.live
      BY <1>4, <2>2 DEF ViewStands
    <2> QED BY <2>1, <2>2
  <1> QED BY <1>0, <1>2, <1>4, <1>5, <1>6, <1>7, <1>9, <1>10 DEF DepthInv, DepthTypeOK, Version

LEMMA WireKeeps == ASSUME DepthBounds, DepthInv, Announce \/ LoseEvent PROVE DepthInv'
  <1>0. wire \in Seq(Update) /\ Len(real) \in Version /\ sent \in Version /\ Len(real) \in Nat
    BY LenProperties DEF DepthInv, DepthTypeOK
  <1>1. UNCHANGED <<real, up, book, request, cooled, held, heard>>
    BY DEF Announce, LoseEvent, exchange
  <1>2. wire' \in Seq(Update) /\ Announced(wire') /\ sent' \in Version /\ sent' <= Len(real) /\ faults' \in 0 .. MaxFaults
    <2>1. CASE Announce
      <3> DEFINE u == [prev |-> sent, last |-> Len(real)]
      <3>1. u \in Update /\ 1 <= u.prev /\ u.prev < u.last /\ u.last <= Len(real)
        BY <1>0, <2>1, DepthBounds DEF Announce, Update, Version
      <3> HIDE DEF u
      <3>2. /\ Append(wire, u) \in Seq(Update)
            /\ Len(wire) \in Nat
            /\ DOMAIN wire = 1 .. Len(wire)
            /\ DOMAIN Append(wire, u) = 1 .. Len(wire) + 1
            /\ \A i \in 1 .. Len(wire) : Append(wire, u)[i] = wire[i]
            /\ Append(wire, u)[Len(wire) + 1] = u
        BY <1>0, <3>1, AppendProperties, LenProperties
      <3>3. ASSUME NEW i \in DOMAIN Append(wire, u)
            PROVE Append(wire, u)[i] = u \/ (i \in DOMAIN wire /\ Append(wire, u)[i] = wire[i])
        <4>1. i = Len(wire) + 1 \/ i \in 1 .. Len(wire)
          BY <3>2, <3>3
        <4> QED BY <3>2, <4>1
      <3>4. Announced(Append(wire, u))
        BY <3>1, <3>3 DEF DepthInv, Announced
      <3> QED BY <1>0, <2>1, <3>2, <3>4 DEF Announce, u, DepthInv, DepthTypeOK
    <2>2. CASE LoseEvent
      <3>1. Tail(wire) \in Seq(Update) /\ Announced(Tail(wire))
        <4>1. /\ Tail(wire) \in Seq(Update) /\ Len(wire) \in Nat
              /\ Len(Tail(wire)) = Len(wire) - 1
              /\ \A i \in 1 .. Len(Tail(wire)) : Tail(wire)[i] = wire[i + 1]
              /\ DOMAIN wire = 1 .. Len(wire)
          BY <1>0, <2>2, HeadTailProperties, LenProperties DEF LoseEvent
        <4>2. DOMAIN Tail(wire) = 1 .. Len(Tail(wire))
          BY <4>1, LenProperties
        <4>3. \A i \in DOMAIN Tail(wire) : i + 1 \in DOMAIN wire /\ Tail(wire)[i] = wire[i + 1]
          BY <4>1, <4>2
        <4> QED BY <4>1, <4>3 DEF DepthInv, Announced
      <3>2. faults' \in 0 .. MaxFaults
        BY <2>2, DepthBounds DEF LoseEvent, Fault, DepthInv, DepthTypeOK, DepthBounds
      <3> QED BY <1>0, <2>2, <3>1, <3>2 DEF LoseEvent, exchange, DepthInv
    <2> QED BY <2>1, <2>2
  <1>3. DepthTypeOK'
    BY <1>1, <1>2 DEF DepthInv, DepthTypeOK
  <1>4. Announced(wire)'
    BY <1>1, <1>2 DEF Announced
  <1>5. BookStands'
    BY <1>1 DEF DepthInv, BookStands, Announced, Standing, At
  <1>6. ViewStands'
    BY <1>1 DEF DepthInv, ViewStands
  <1> QED BY <1>1, <1>2, <1>3, <1>4, <1>5, <1>6 DEF DepthInv

\* Steps that leave the exchange and the wire: it is enough that the book and
\* the snapshot stand.
LEMMA BookKeeps ==
  ASSUME DepthInv, UNCHANGED <<real, sent, wire>>,
         up' \in BOOLEAN, cooled' \in BOOLEAN, faults' \in 0 .. MaxFaults, heard' \in 0 .. MaxVersions,
         book' \in Book,
         request' \in [pc : {"none", "sent", "answered"}, live : BOOLEAN, version : 0 .. MaxVersions],
         held' \in [last : 0 .. MaxVersions, bids : SUBSET Price, floor : {0} \cup Price, live : BOOLEAN],
         request'.pc = "answered" => request'.version \in 1 .. Len(real),
         BookStands', ViewStands'
  PROVE DepthInv'
  BY DEF DepthInv, DepthTypeOK, Announced

LEMMA ViewGone == ~held'.live => ViewStands'
  BY DEF ViewStands

\* A state with nothing in it stands.
LEMMA FreshStands ==
  ASSUME book' = Fresh PROVE BookStands'
  <1>1. Announced(<<>>)'
    BY DEF Announced
  <1> QED BY <1>1, GapHasNoSeed DEF BookStands

LEMMA ConnectionKeeps == ASSUME DepthBounds, DepthInv, Connect \/ Disconnect PROVE DepthInv'
  <1>1. book' = Fresh /\ ~held'.live /\ request'.pc = request.pc /\ request'.version = request.version
        /\ UNCHANGED <<real, sent>> /\ wire' = <<>> /\ heard' = 0 /\ up' \in BOOLEAN /\ cooled' = cooled
    BY DEF Connect, Disconnect, Invalidate, exchange, DepthInv, DepthTypeOK
  <1>2. /\ book' \in Book
        /\ request' \in [pc : {"none", "sent", "answered"}, live : BOOLEAN, version : 0 .. MaxVersions]
        /\ held' \in [last : 0 .. MaxVersions, bids : SUBSET Price, floor : {0} \cup Price, live : BOOLEAN]
    BY GapHasNoSeed, BecomeTyped DEF Connect, Disconnect, DepthInv
  <1>3. faults' \in 0 .. MaxFaults /\ heard' \in 0 .. MaxVersions
    BY <1>1 DEF Connect, Disconnect, Fault, DepthInv, DepthTypeOK, DepthBounds
  <1>4. <<>> \in Seq(Update) /\ Announced(<<>>)'
    BY EmptySeq DEF Announced
  <1>5. BookStands' /\ ViewStands'
    BY <1>1, FreshStands, ViewGone
  <1> QED BY <1>1, <1>2, <1>3, <1>4, <1>5 DEF DepthInv, DepthTypeOK

\* The event that is handled, and what is left.
LEMMA HeadOfWire ==
  ASSUME DepthInv, wire # <<>>
  PROVE /\ Head(wire) \in Update
        /\ 1 <= Head(wire).prev /\ Head(wire).prev < Head(wire).last /\ Head(wire).last <= Len(real)
        /\ Head(wire).last \in Version /\ Head(wire).last \in 0 .. MaxVersions
        /\ Tail(wire) \in Seq(Update) /\ Announced(Tail(wire))
  <1>0. wire \in Seq(Update)
    BY DEF DepthInv, DepthTypeOK
  <1>1. /\ Tail(wire) \in Seq(Update) /\ Len(wire) \in Nat \ {0}
        /\ Len(Tail(wire)) = Len(wire) - 1
        /\ \A i \in 1 .. Len(Tail(wire)) : Tail(wire)[i] = wire[i + 1]
        /\ DOMAIN wire = 1 .. Len(wire)
        /\ Head(wire) = wire[1] /\ Head(wire) \in Update
    BY <1>0, EmptySeq, HeadTailProperties, LenProperties
  <1>2. DOMAIN Tail(wire) = 1 .. Len(Tail(wire))
    BY <1>1, LenProperties
  <1>3. \A i \in DOMAIN Tail(wire) : i + 1 \in DOMAIN wire /\ Tail(wire)[i] = wire[i + 1]
    BY <1>1, <1>2
  <1>4. Announced(Tail(wire))
    BY <1>3 DEF DepthInv, Announced
  <1>5. 1 \in DOMAIN wire
    BY <1>1
  <1>6. 1 <= Head(wire).prev /\ Head(wire).prev < Head(wire).last /\ Head(wire).last <= Len(real)
    BY <1>1, <1>5 DEF DepthInv, Announced
  <1>7. Head(wire).last \in Version /\ Head(wire).last \in 0 .. MaxVersions
    BY <1>1, DepthBounds DEF Update, Version, DepthBounds
  <1> QED BY <1>1, <1>4, <1>6, <1>7

LEMMA GarbageKeeps == ASSUME DepthBounds, DepthInv, HandleGarbage PROVE DepthInv'
  <1>1. book' = Fresh /\ ~held'.live /\ request'.pc = request.pc /\ request'.version = request.version
        /\ UNCHANGED <<real, sent, up, cooled>> /\ wire' = Tail(wire) /\ heard' = Head(wire).last /\ wire # <<>>
    BY DEF HandleGarbage, Invalidate, exchange, DepthInv, DepthTypeOK
  <1>2. /\ book' \in Book
        /\ request' \in [pc : {"none", "sent", "answered"}, live : BOOLEAN, version : 0 .. MaxVersions]
        /\ held' \in [last : 0 .. MaxVersions, bids : SUBSET Price, floor : {0} \cup Price, live : BOOLEAN]
    BY GapHasNoSeed, BecomeTyped DEF HandleGarbage, DepthInv
  <1>3. faults' \in 0 .. MaxFaults
    BY DEF HandleGarbage, Fault, DepthInv, DepthTypeOK, DepthBounds
  <1>4. Tail(wire) \in Seq(Update) /\ Announced(wire)' /\ heard' \in 0 .. MaxVersions
    BY <1>1, HeadOfWire DEF Announced
  <1>5. BookStands' /\ ViewStands'
    BY <1>1, FreshStands, ViewGone
  <1> QED BY <1>1, <1>2, <1>3, <1>4, <1>5 DEF DepthInv, DepthTypeOK

\* What is kept or given up of a state, and of the snapshots of it.
LEMMA StateStands ==
  DepthInv => /\ State \in Book
              /\ State.seed = 0 => ~book.valid /\ ~held.live /\ ~State.valid
              /\ State.seed # 0 => State = book /\ ~Overdue /\ Standing(book)
              /\ Overdue => State = Fresh /\ ~held.live /\ ~book.valid
              /\ ~Overdue => State = book
              /\ Announced(State.pending)
              /\ State.pending # <<>> => State.pending[Len(State.pending)].last >= heard
  <1> SUFFICES ASSUME DepthInv
               PROVE /\ State \in Book
                     /\ State.seed = 0 => ~book.valid /\ ~held.live /\ ~State.valid
                     /\ State.seed # 0 => State = book /\ ~Overdue /\ Standing(book)
                     /\ Overdue => State = Fresh /\ ~held.live /\ ~book.valid
                     /\ ~Overdue => State = book
                     /\ Announced(State.pending)
                     /\ State.pending # <<>> => State.pending[Len(State.pending)].last >= heard
    OBVIOUS
  <1>1. CASE Overdue
    <2>1. State = Fresh /\ ~book.valid /\ ~held.live
      BY <1>1 DEF State, Overdue, DepthInv, ViewStands
    <2> QED BY <1>1, <2>1, GapHasNoSeed DEF Announced
  <1>2. CASE ~Overdue
    <2>1. State = book
      BY <1>2 DEF State
    <2> QED BY <1>2, <2>1 DEF DepthInv, DepthTypeOK, BookStands, ViewStands
  <1> QED BY <1>1, <1>2

\* An event that is buffered leaves a state that is not seeded, and ends with it.
LEMMA BuffersStands ==
  ASSUME DepthBounds, DepthInv, NEW u \in Update,
         1 <= u.prev, u.prev < u.last, u.last <= Len(real),
         State.seed = 0, Buffers(State, u), real' = real, heard' = u.last
  PROVE /\ BookStands' /\ ViewStands' /\ book' \in Book
        /\ \E b \in Book : Become(b) \/ Invalidate(b)
  <1> DEFINE b == State
             n == Len(b.pending)
             new == [Fresh EXCEPT !.pending = <<u>>]
             more == [b EXCEPT !.pending = Append(@, u)]
  <1>0. /\ b \in Book /\ ~b.valid /\ ~held.live /\ ~book.valid /\ b.pending \in Seq(Update) /\ n \in Nat
        /\ Announced(b.pending)
    BY StateStands, LenProperties DEF Book
  <1>1. <<u>> \in Seq(Update) /\ Announced(<<u>>) /\ Len(<<u>>) = 1 /\ <<u>>[1] = u
    BY DEF Announced
  <1>2. new \in Book /\ new.seed = 0 /\ ~new.valid /\ new.pending = <<u>>
    BY <1>1, GapHasNoSeed DEF Book
  <1>3. /\ Append(b.pending, u) \in Seq(Update)
        /\ Len(Append(b.pending, u)) = n + 1
        /\ Append(b.pending, u)[n + 1] = u
        /\ \A i \in 1 .. n : Append(b.pending, u)[i] = b.pending[i]
        /\ DOMAIN b.pending = 1 .. n /\ DOMAIN Append(b.pending, u) = 1 .. n + 1
    BY <1>0, AppendProperties, LenProperties
  <1>4. Announced(Append(b.pending, u))
    <2>1. ASSUME NEW i \in 1 .. n + 1
          PROVE Append(b.pending, u)[i] = u \/ (i \in DOMAIN b.pending /\ Append(b.pending, u)[i] = b.pending[i])
      <3>1. i = n + 1 \/ i \in 1 .. n
        BY <1>0, <2>1
      <3> QED BY <1>3, <3>1
    <2> QED BY <1>0, <1>3, <2>1 DEF Announced
  <1>5. more \in Book /\ more.seed = 0 /\ ~more.valid /\ more.pending = Append(b.pending, u)
    BY <1>0, <1>3 DEF Book
  <1>6. ASSUME NEW c \in Book, Become(c) \/ Invalidate(c), c.seed = 0, ~c.valid, Announced(c.pending),
               c.pending # <<>> => c.pending[Len(c.pending)].last >= u.last
        PROVE BookStands' /\ ViewStands' /\ book' \in Book
    <2>1. book' = c /\ (held' = held \/ ~held'.live)
      <3>1. Become(c) => Invalidate(c) \/ Keep(c)
        BY DEF Become
      <3> QED BY <1>6, <3>1, BecomeTyped DEF Invalidate, Keep, DepthInv
    <2>2. Announced(c.pending)'
      BY <1>6 DEF Announced
    <2>3. BookStands'
      BY <1>6, <2>1, <2>2 DEF BookStands, Announced
    <2> QED BY <1>0, <1>6, <2>1, <2>3, ViewGone
  <1> DEFINE Old == n > 0 /\ u.last <= b.pending[n].last
             Over == n > 0 /\ u.prev # b.pending[n].last
  <1>7. CASE Old
    <2>1. Become(b)
      BY <1>7 DEF Buffers
    <2> QED BY <1>0, <1>6, <1>7, <2>1
  <1>8. CASE ~Old /\ (Over \/ n >= MaxBuffer)
    <2>1. Invalidate(new)
      BY <1>8 DEF Buffers
    <2>2. new.pending[Len(new.pending)].last = u.last
      BY <1>1, <1>2
    <2>3. u.last >= u.last
      BY DEF Update, Version
    <2> HIDE DEF new
    <2> QED BY <1>1, <1>2, <1>6, <2>1, <2>2, <2>3
  <1>9. CASE ~Old /\ ~Over /\ ~(n >= MaxBuffer)
    <2>1. Become(more)
      BY <1>9 DEF Buffers
    <2>2. more.pending[Len(more.pending)].last = u.last
      BY <1>3, <1>5
    <2>3. u.last >= u.last
      BY DEF Update, Version
    <2> HIDE DEF more
    <2> QED BY <1>4, <1>5, <1>6, <2>1, <2>2, <2>3
  <1> QED BY <1>7, <1>8, <1>9

LEMMA HandleKeeps == ASSUME DepthBounds, DepthInv, Handle PROVE DepthInv'
  <1> DEFINE u == Head(wire)
             b == State
             next == Step(b, u)
  <1>0. /\ u \in Update /\ 1 <= u.prev /\ u.prev < u.last /\ u.last <= Len(real) /\ u.last \in 0 .. MaxVersions
        /\ Tail(wire) \in Seq(Update) /\ Announced(Tail(wire)) /\ wire # <<>> /\ u.last \in Nat
    BY HeadOfWire DEF Handle, Version
  <1>1. /\ wire' = Tail(wire) /\ heard' = u.last /\ up /\ UNCHANGED <<real, sent, up, cooled, faults>>
        /\ IF b.seed = 0 THEN Buffers(b, u)
           ELSE IF next = Gap THEN Invalidate(Fresh) ELSE Become(next)
    BY DEF Handle, exchange
  <1> HIDE DEF u
  <1>2. b \in Book /\ real \in Seq(SUBSET Price)
    BY StateStands DEF DepthInv, DepthTypeOK
  <1>3. BookStands' /\ ViewStands' /\ \E c \in Book : Become(c) \/ Invalidate(c)
    <2>1. CASE b.seed = 0
      BY <1>0, <1>1, <2>1, BuffersStands
    <2>2. CASE b.seed # 0 /\ next = Gap
      <3>1. Invalidate(Fresh)
        BY <1>1, <2>2
      <3>2. BookStands' /\ ViewStands'
        BY <3>1, FreshStands, ViewGone, GapHasNoSeed, InvalidateStands
      <3> QED BY <3>1, <3>2, GapHasNoSeed
    <2>3. CASE b.seed # 0 /\ next # Gap
      <3>1. b = book /\ ~Overdue /\ Standing(b)
        BY <2>3, StateStands
      <3>2. /\ next \in Book /\ Standing(next) /\ next.seed = b.seed
            /\ next.valid => next.last >= u.last
            /\ b.valid => next.valid /\ next.last >= b.last
        BY <1>0, <1>2, <2>3, <3>1, StepStands
      <3>3. Become(next)
        BY <1>1, <2>3
      <3> HIDE DEF next
      <3>4. book' = next /\ held' = held
        BY <3>1, <3>3 DEF Become, Keep
      <3>5. next.pending = <<>> /\ next.seed # 0
        BY <3>2 DEF Standing
      <3>6. BookStands'
        <4>1. Standing(book)'
          BY <1>1, <3>2, <3>4 DEF Standing, At
        <4>2. Announced(book.pending)'
          BY <3>4, <3>5 DEF Announced
        <4> QED BY <1>1, <3>2, <3>4, <3>5, <4>1, <4>2 DEF BookStands
      <3>7. ViewStands'
        <4>1. CASE ~held.live
          BY <3>4, <4>1, ViewGone
        <4>2. CASE held.live
          <5>1. b.valid /\ held.last \in 1 .. b.last /\ Exact(held.bids, held.floor, real[held.last])
            BY <3>1, <4>2 DEF DepthInv, ViewStands
          <5>2. held.last \in 1 .. next.last
            BY <1>2, <3>2, <5>1 DEF Book
          <5> QED BY <1>1, <3>2, <3>4, <5>1, <5>2 DEF ViewStands
        <4> QED BY <4>1, <4>2
      <3> QED BY <3>2, <3>3, <3>6, <3>7
    <2> QED BY <2>1, <2>2, <2>3
  <1>4. /\ book' \in Book
        /\ request' \in [pc : {"none", "sent", "answered"}, live : BOOLEAN, version : 0 .. MaxVersions]
        /\ held' \in [last : 0 .. MaxVersions, bids : SUBSET Price, floor : {0} \cup Price, live : BOOLEAN]
        /\ request'.pc = request.pc /\ request'.version = request.version
    BY <1>3, BecomeTyped DEF DepthInv
  <1>5. Announced(wire)'
    BY <1>0, <1>1 DEF Announced
  <1> QED BY <1>0, <1>1, <1>3, <1>4, <1>5 DEF DepthInv, DepthTypeOK

\* A reader takes a snapshot of a book that stands.
LEMMA TakeKeeps == ASSUME DepthBounds, DepthInv, Take PROVE DepthInv'
  <1>0. book \in Book
    BY DEF DepthInv, DepthTypeOK
  <1>1. State = book /\ book.valid /\ Standing(book)
    BY GapHasNoSeed DEF Take, State, DepthInv, BookStands
  <1>2. UNCHANGED <<real, sent, up, wire, book, request, cooled, heard, faults>>
        /\ held' = [last |-> book.last, bids |-> book.bids, floor |-> book.floor, live |-> TRUE]
    BY DEF Take, exchange
  <1>3. held' \in [last : 0 .. MaxVersions, bids : SUBSET Price, floor : {0} \cup Price, live : BOOLEAN]
    BY <1>0, <1>2 DEF Book
  <1>4. ViewStands'
    BY <1>0, <1>1, <1>2 DEF ViewStands, Standing, At, Book
  <1>5. BookStands'
    BY <1>2 DEF DepthInv, BookStands, Announced, Standing, At
  <1> QED BY <1>2, <1>3, <1>4, <1>5, BookKeeps DEF DepthInv, DepthTypeOK

LEMMA AskKeeps == ASSUME DepthBounds, DepthInv, Ask PROVE DepthInv'
  <1>0. UNCHANGED <<real, sent, up, wire, heard, faults>>
    BY DEF Ask, exchange
  <1>1. CASE State.seed = 0 /\ State.pending # <<>> /\ cooled
    <2>1. request' = [pc |-> "sent", live |-> TRUE, version |-> 0] /\ cooled' = FALSE /\ UNCHANGED <<book, held>>
      BY <1>1 DEF Ask
    <2>2. BookStands' /\ ViewStands'
      BY <1>0, <2>1 DEF DepthInv, BookStands, ViewStands, Announced, Standing, At
    <2>3. 0 \in 0 .. MaxVersions
      BY DEF DepthBounds
    <2> QED BY <1>0, <2>1, <2>2, <2>3, BookKeeps DEF DepthInv, DepthTypeOK
  <1>2. CASE ~(State.seed = 0 /\ State.pending # <<>> /\ cooled)
    <2>1. Become(State) /\ cooled' = cooled
      BY <1>2 DEF Ask
    <2>2. State \in Book
      BY StateStands
    <2>3. /\ book' \in Book
          /\ request' \in [pc : {"none", "sent", "answered"}, live : BOOLEAN, version : 0 .. MaxVersions]
          /\ held' \in [last : 0 .. MaxVersions, bids : SUBSET Price, floor : {0} \cup Price, live : BOOLEAN]
          /\ request'.pc = request.pc /\ request'.version = request.version
      BY <2>1, <2>2, BecomeTyped DEF DepthInv
    <2>4. BookStands' /\ ViewStands'
      <3>1. CASE Overdue
        <4>1. Invalidate(Fresh)
          BY <2>1, <3>1 DEF Become, State
        <4> QED BY <4>1, FreshStands, ViewGone, GapHasNoSeed, InvalidateStands
      <3>2. CASE ~Overdue
        <4>1. UNCHANGED <<book, held>>
          BY <2>1, <3>2 DEF Become, State, Keep
        <4> QED BY <1>0, <4>1 DEF DepthInv, BookStands, ViewStands, Announced, Standing, At
      <3> QED BY <3>1, <3>2
    <2> QED BY <1>0, <2>1, <2>3, <2>4, BookKeeps DEF DepthInv, DepthTypeOK
  <1> QED BY <1>1, <1>2

LEMMA AnswerKeeps == ASSUME DepthBounds, DepthInv, Answer \/ AnswerFails \/ Cool PROVE DepthInv'
  <1>0. UNCHANGED <<real, sent, up, wire, book, held, heard, faults>>
    BY DEF Answer, AnswerFails, Cool, exchange
  <1>1. Len(real) \in Nat /\ Len(real) \in Version
    BY LenProperties DEF DepthInv, DepthTypeOK
  <1>2. /\ request' \in [pc : {"none", "sent", "answered"}, live : BOOLEAN, version : 0 .. MaxVersions]
        /\ request'.pc = "answered" => request'.version \in 1 .. Len(real)
        /\ cooled' \in BOOLEAN
    <2>1. CASE Answer
      <3>1. PICK v \in Version \cap (Len(real) - 1 .. Len(real)) :
              request' = [request EXCEPT !.pc = "answered", !.version = v]
        BY <2>1 DEF Answer
      <3>2. v \in 1 .. Len(real) /\ v \in 0 .. MaxVersions
        BY <1>1, <3>1 DEF Version, DepthBounds
      <3> QED BY <2>1, <3>1, <3>2 DEF Answer, DepthInv, DepthTypeOK
    <2>2. CASE AnswerFails
      BY <2>2, DepthBounds DEF AnswerFails, NoRequest, DepthInv, DepthTypeOK, DepthBounds
    <2>3. CASE Cool
      BY <2>3 DEF Cool, DepthInv, DepthTypeOK
    <2> QED BY <2>1, <2>2, <2>3
  <1>3. BookStands' /\ ViewStands'
    BY <1>0 DEF DepthInv, BookStands, ViewStands, Announced, Standing, At
  <1> QED BY <1>0, <1>2, <1>3, BookKeeps DEF DepthInv, DepthTypeOK

LEMMA SeedKeeps == ASSUME DepthBounds, DepthInv, Seed PROVE DepthInv'
  <1> DEFINE s == Seeded(request.version)
             b == Replayed(s)
  <1>0. UNCHANGED <<real, sent, up, wire, cooled, heard, faults>> /\ request' = NoRequest
        /\ request.version \in 1 .. Len(real)
    BY DEF Seed, exchange, DepthInv
  <1>1. NoRequest \in [pc : {"none", "sent", "answered"}, live : BOOLEAN, version : 0 .. MaxVersions]
        /\ NoRequest.pc = "none"
    BY DEF NoRequest, DepthBounds
  <1>2. CASE up /\ request.live /\ State.seed = 0
    <2>1. book' = (IF b = Gap THEN Fresh ELSE b) /\ (held' = held \/ held' = [held EXCEPT !.live = FALSE])
      BY <1>2 DEF Seed
    <2>2. ~held.live /\ Announced(State.pending)
      BY <1>2, StateStands
    <2>3. /\ s \in Book /\ s.seed = request.version /\ ~s.valid /\ s.pending = State.pending
          /\ Exact(s.bids, s.floor, real[s.seed])
      BY <1>0, <1>2, SeededStands
    <2> HIDE DEF s
    <2>4. ~held'.live /\ held' \in [last : 0 .. MaxVersions, bids : SUBSET Price, floor : {0} \cup Price, live : BOOLEAN]
      BY <2>1, <2>2 DEF DepthInv, DepthTypeOK
    <2>5. ViewStands'
      BY <2>4, ViewGone
    <2>6. CASE b = Gap
      <3>1. book' = Fresh
        BY <2>1, <2>6
      <3>2. BookStands' /\ book' \in Book
        BY <3>1, FreshStands, GapHasNoSeed
      <3> QED BY <1>0, <1>1, <2>4, <2>5, <3>2, BookKeeps DEF DepthInv, DepthTypeOK
    <2>7. CASE b # Gap
      <3>1. real \in Seq(SUBSET Price)
        BY DEF DepthInv, DepthTypeOK
      <3>2. /\ b \in Book /\ Standing(b)
            /\ b.valid => s.pending # <<>> /\ b.last >= s.pending[Len(s.pending)].last
        BY <1>0, <2>2, <2>3, <2>7, <3>1, ReplayedStands
      <3> HIDE DEF b
      <3>3. book' = b
        BY <2>1, <2>7
      <3>4. b.valid => b.last >= heard
        <4>1. ASSUME b.valid PROVE b.last >= heard
          <5>1. State.pending # <<>> /\ b.last >= State.pending[Len(State.pending)].last
            BY <2>3, <3>2, <4>1
          <5>2. State.pending[Len(State.pending)].last >= heard
            BY <5>1, StateStands
          <5>3. State.pending[Len(State.pending)] \in Update
            <6>1. State.pending \in Seq(Update)
              BY StateStands DEF Book
            <6> QED BY <5>1, <6>1, EmptySeq, LenProperties, ElementOfSeq
          <5>4. b.last \in Nat
            BY <3>2, DepthBounds DEF Book, DepthBounds
          <5>5. heard \in Nat
            BY DEF DepthInv, DepthTypeOK, DepthBounds
          <5>6. State.pending[Len(State.pending)].last \in Nat
            BY <5>3 DEF Update, Version
          <5> QED BY <5>1, <5>2, <5>4, <5>5, <5>6
        <4> QED BY <4>1
      <3>5. b.pending = <<>> /\ b.seed # 0
        BY <3>2 DEF Standing
      <3>6. Standing(book)'
        BY <1>0, <3>2, <3>3 DEF Standing, At
      <3>7. Announced(book.pending)'
        BY <3>3, <3>5 DEF Announced
      <3>8. BookStands'
        BY <1>0, <1>2, <3>3, <3>4, <3>5, <3>6, <3>7 DEF BookStands
      <3> QED BY <1>0, <1>1, <2>4, <2>5, <3>2, <3>3, <3>8, BookKeeps DEF DepthInv, DepthTypeOK
    <2> QED BY <2>6, <2>7
  <1>3. CASE ~(up /\ request.live /\ State.seed = 0)
    <2>1. UNCHANGED <<book, held>>
      BY <1>3 DEF Seed
    <2>2. BookStands' /\ ViewStands'
      BY <1>0, <2>1 DEF DepthInv, BookStands, ViewStands, Announced, Standing, At
    <2> QED BY <1>0, <1>1, <2>1, <2>2, BookKeeps DEF DepthInv, DepthTypeOK
  <1> QED BY <1>2, <1>3

LEMMA WaitKeeps == ASSUME DepthBounds, DepthInv, Wait PROVE DepthInv'
  <1>1. UNCHANGED <<real, sent, up, wire, request, cooled, held, heard, faults>>
        /\ book' = [book EXCEPT !.waited = TRUE]
    BY DEF Wait, exchange
  <1>2. book' \in Book /\ book'.seed = book.seed /\ book'.pending = book.pending /\ book'.valid = book.valid
        /\ book'.last = book.last /\ book'.bids = book.bids /\ book'.floor = book.floor
    BY <1>1 DEF DepthInv, DepthTypeOK, Book
  <1>3. BookStands' /\ ViewStands'
    BY <1>1, <1>2 DEF DepthInv, BookStands, ViewStands, Announced, Standing, At
  <1> QED BY <1>1, <1>2, <1>3, BookKeeps DEF DepthInv, DepthTypeOK

LEMMA DepthKept == ASSUME DepthBounds, DepthInv, [DepthNext]_depthVars PROVE DepthInv'
  <1>1. CASE DepthNext
    BY <1>1, MoveKeeps, WireKeeps, ConnectionKeeps, HandleKeeps, GarbageKeeps, TakeKeeps, AskKeeps,
       AnswerKeeps, SeedKeeps, WaitKeeps DEF DepthNext
  <1>2. CASE UNCHANGED depthVars
    <2>1. UNCHANGED <<real, sent, up, wire, book, request, cooled, held, heard, faults>>
      BY <1>2 DEF depthVars
    <2>2. BookStands' /\ ViewStands'
      BY <2>1 DEF DepthInv, BookStands, ViewStands, Announced, Standing, At
    <2> QED BY <2>1, <2>2, BookKeeps DEF DepthInv, DepthTypeOK
  <1> QED BY <1>1, <1>2

-----------------------------------------------------------------------------
(* The theorems about the book *)

\* The invariant, for all levels, versions, faults and sizes of the buffer.
THEOREM DepthInvariant == DepthSpec => []DepthInv
  <1>1. DepthInit => DepthInv
    BY DepthBounds, DepthStarts
  <1>2. DepthInv /\ [DepthNext]_depthVars => DepthInv'
    BY DepthBounds, DepthKept
  <1> QED BY <1>1, <1>2, PTL DEF DepthSpec

\* The book that is shown, and every snapshot of it that is not revoked, is
\* the exchange's book at the version it claims, down to its floor.
THEOREM ShownBookIsReal == DepthSpec => []BookIsReal
  <1>1. ASSUME DepthInv PROVE BookIsReal
    <2>1. ASSUME book.valid
          PROVE \A p \in Price : p >= book.floor => (p \in book.bids) = (p \in real[book.last])
      BY <1>1, <2>1 DEF DepthInv, BookStands, Standing, At, Exact
    <2>2. ASSUME held.live
          PROVE \A p \in Price : p >= held.floor => (p \in held.bids) = (p \in real[held.last])
      BY <1>1, <2>2 DEF DepthInv, ViewStands, Exact
    <2> QED BY <2>1, <2>2 DEF BookIsReal
  <1> QED BY <1>1, DepthInvariant, PTL

\* No event that was handled is missing from a book that is shown; a snapshot
\* that is not revoked is an earlier version of the book that is shown.
THEOREM NoEventSkipped == DepthSpec => []NothingSkipped
  <1>1. ASSUME DepthInv PROVE NothingSkipped
    <2>1. held.live => book.valid /\ held.last <= book.last
      BY <1>1 DEF DepthInv, DepthTypeOK, ViewStands
    <2> QED BY <1>1, <2>1 DEF DepthInv, BookStands, NothingSkipped
  <1> QED BY <1>1, DepthInvariant, PTL

-----------------------------------------------------------------------------
(* The loop that must not forget *)

\* A job that is owed a turn is due or asked for; while it runs it was asked
\* for since, or the time a fast attempt borrowed has come.
OwedIsKnown == \A j \in Job : owed[j] # "no" =>
    /\ running[j] # "none"
    /\ Free(j) => due[j] = "now" \/ wake[j]
    /\ ~Free(j) => wake[j] \/ (j = "account" /\ borrowed = "now")

BorrowedRuns == borrowed # "no" => running["account"] \in {"run", "done", "failed"}

\* What a pass has found out about a job that was owed a turn before it began.
PassKnows ==
    /\ step \notin {"wait", "list"} /\ owed["group"] = "old" /\ Free("group") /\ saved.listed
          => due["group"] = "now"
    /\ step = "start" /\ owed["hot"] = "old" /\ Free("hot") => due["hot"] = "now" \/ backoff.hot # "no"
    /\ step = "start" /\ owed["account"] = "old" /\ Free("account")
          => due["account"] = "now" /\ (turn.urgent => pick.urgent)

UrgentHasBatch ==
    /\ turn.urgent => actual.intent
    /\ pick.urgent /\ Free("account") => actual.intent
    /\ step # "start" => pick = NoChoice

\* Only a free account is looked at, and no signal stands while it is busy.
OnlyWhenFree ==
    /\ step \in {"compare", "mark"} => Free("account") /\ backoff.account # "full"
    /\ ~Free("account") => cycle.signal = "none"
    /\ cycle.seen = "same" /\ ~saved.enabled => ~actual.enabled

\* An opportunity that was noted has its signal, was tried, or is looked at
\* again when the attempt ends.
NotedIsSignalled ==
    /\ cycle.seen = "none" => cycle.opp # "same"
    /\ chance # "no" /\ cycle.opp = "same"
          => IF Free("account") THEN cycle.signal # "none" ELSE cycle.seen = "newer"
    /\ cycle.seen = "same" /\ offer.fresh /\ step # "compare" => cycle.signal # "stale"

\* What is about to be noted.
MarkIsRight == step = "mark" =>
    /\ chance # "no" => cycle.signal # "none" \/ cycle.next # "same" \/ cycle.seen = "none"
    /\ cycle.opp = "slipped" /\ cycle.signal = "none" => cycle.next = "slipped"
    /\ cycle.next = "other" => cycle.seen # "same"

Open == offer.fresh /\ offer.chance /\ ~actual.intent /\ saved.enabled

\* A quote that has been looked at and shows an opening has its signal; one that
\* arrives while the account is busy has not been looked at.
SeenIsSignalled ==
    /\ chance # "no" /\ cycle.seen = "same" /\ Open /\ Free("account") /\ step # "compare"
          => (cycle.signal = "fresh" \/ cycle.opp = "slipped") /\ backoff.account # "full"
    /\ chance # "no" /\ cycle.seen = "same" /\ ~Free("account") => ~offer.fresh \/ ~saved.enabled

\* An opening from before the pass has been looked at in it.
PassHasLooked ==
    /\ step \notin {"list", "look"} /\ chance = "old" /\ Open /\ Free("account") /\ backoff.account # "full"
          => cycle.seen = "same"
    /\ step = "start" /\ chance = "old" /\ Free("account") =>
          /\ cycle.signal = "fresh" /\ ~cycle.after => pick.fast
          /\ pick.prio # "no" => turn.prio # "no"

TurnsHold    == OwedIsKnown /\ BorrowedRuns /\ PassKnows /\ UrgentHasBatch /\ TurnsAreServed
LooksHold    == OnlyWhenFree /\ NotedIsSignalled /\ MarkIsRight
OpeningsHold == SeenIsSignalled /\ PassHasLooked /\ OpeningIsTried

SchedulerInv == SchedulerTypeOK /\ TurnsHold /\ LooksHold /\ OpeningsHold


LEMMA AskForTells ==
  ASSUME SchedulerTypeOK, NEW js \in SUBSET Job, AskFor(js)
  PROVE  /\ \A j \in Job : j \in js /\ running[j] # "none" => wake'[j] /\ owed'[j] = "new"
         /\ \A j \in Job : ~(j \in js /\ running[j] # "none") => (wake'[j] <=> wake[j]) /\ owed'[j] = owed[j]
<1> DEFINE told == {j \in js : running[j] # "none"}
<1>1. wake' = [j \in Job |-> wake[j] \/ j \in told]
  BY DEF AskFor
<1>2. owed' = [j \in Job |-> IF j \in told THEN "new" ELSE owed[j]]
  BY DEF AskFor
<1>3. \A j \in Job : wake'[j] <=> (wake[j] \/ j \in told)
  BY <1>1
<1> QED BY <1>2, <1>3


-----------------------------------------------------------------------------
(* What happens outside the loop *)

\* A quote while the account is busy is seen when the attempt ends (on_cycle_market_update).
LEMMA NewQuoteKeeps ==
  ASSUME SchedulerInv, NewQuote
  PROVE  SchedulerInv'
<1>1. SchedulerTypeOK'
  <2> USE DEF SchedulerInv, SchedulerTypeOK, Job
  <2>1. offer' \in Offers
    BY DEF Offers, NewQuote, Happens, loop
  <2>2. cycle' \in Wakes
    BY DEF Wakes, NewQuote, Happens, loop
  <2>3. chance' \in Since
    BY DEF Since, NewQuote, Happens, loop
  <2>4. events' \in 0 .. MaxEvents
    BY SchedulerBound DEF NewQuote, Happens, loop
  <2> QED
    BY <2>1, <2>2, <2>3, <2>4 DEF NewQuote, Happens, loop
<1>2. TurnsHold'
  BY DEF SchedulerInv, SchedulerTypeOK, TurnsHold, OwedIsKnown, BorrowedRuns, PassKnows,
         UrgentHasBatch, TurnsAreServed, HeldBack, Free, Job, NoChoice, NewQuote, Happens, loop
<1>3. LooksHold'
  BY DEF SchedulerInv, SchedulerTypeOK, LooksHold, OnlyWhenFree, NotedIsSignalled, MarkIsRight,
         Free, Job, Noted, NewQuote, Happens, loop
<1>4. OpeningsHold'
  BY DEF SchedulerInv, SchedulerTypeOK, TurnsHold, LooksHold, OpeningsHold, SeenIsSignalled,
         PassHasLooked, OpeningIsTried, EveryOpeningIsTried, Occupied, Open, ReadDone, OnlyWhenFree,
         NotedIsSignalled, MarkIsRight, UrgentHasBatch, Free, Job, Noted, NewQuote, Happens, loop
<1> QED BY <1>1, <1>2, <1>3, <1>4 DEF SchedulerInv

LEMMA AgeKeeps ==
  ASSUME SchedulerInv, Age
  PROVE  SchedulerInv'
<1>1. SchedulerTypeOK'
  <2> USE DEF SchedulerInv, SchedulerTypeOK, Job
  <2>1. offer' \in Offers
    BY DEF Offers, Age, Happens, loop, hopes
  <2>2. cycle' \in Wakes
    BY DEF Wakes, Age, Happens, loop, hopes
  <2>3. events' \in 0 .. MaxEvents
    BY SchedulerBound DEF Age, Happens, loop, hopes
  <2> QED
    BY <2>1, <2>2, <2>3 DEF Age, Happens, loop, hopes
<1>2. TurnsHold'
  BY DEF SchedulerInv, SchedulerTypeOK, TurnsHold, OwedIsKnown, BorrowedRuns, PassKnows,
         UrgentHasBatch, TurnsAreServed, HeldBack, Free, Job, NoChoice, Age, Happens, loop, hopes
<1>3. LooksHold'
  BY DEF SchedulerInv, SchedulerTypeOK, LooksHold, OnlyWhenFree, NotedIsSignalled, MarkIsRight,
         Free, Job, Noted, Age, Happens, loop, hopes, Wakes, Offers, Since
<1>4. OpeningsHold'
  BY DEF SchedulerInv, SchedulerTypeOK, TurnsHold, LooksHold, OpeningsHold, SeenIsSignalled,
         PassHasLooked, OpeningIsTried, EveryOpeningIsTried, Occupied, Open, ReadDone, OnlyWhenFree,
         NotedIsSignalled, MarkIsRight, UrgentHasBatch, Free, Job, Noted, Age, Happens, loop, hopes,
         Wakes, Offers, Since
<1> QED BY <1>1, <1>2, <1>3, <1>4 DEF SchedulerInv

\* A delay that is over leaves what it held back to the next pass.
LEMMA ElapseKeeps ==
  ASSUME SchedulerInv, Elapse
  PROVE  SchedulerInv'
<1>1. SchedulerTypeOK'
  <2> USE DEF SchedulerInv, SchedulerTypeOK, Job
  <2>1. due' \in [Job -> Time]
    BY DEF Time, Elapse, Passes, Again
  <2>2. borrowed' \in Time \cup {"no"}
    BY DEF Time, Elapse, Passes, Again
  <2>3. backoff' \in Backoffs
    BY DEF Backoffs, Elapse, Passes, Again
  <2>4. turn' \in Turns
    BY DEF Turns, Urgency, Elapse, Passes, Again
  <2>5. cycle' \in Wakes
    BY DEF Wakes, Elapse, Passes, Again
  <2>6. owed' \in [Job -> Since]
    BY DEF Since, Elapse, Passes, Again
  <2>7. chance' \in Since
    BY DEF Since, Elapse, Passes, Again
  <2> QED
    BY <2>1, <2>2, <2>3, <2>4, <2>5, <2>6, <2>7 DEF Elapse, Passes, Again
<1>2. TurnsHold'
  BY DEF SchedulerInv, SchedulerTypeOK, TurnsHold, OwedIsKnown, BorrowedRuns, PassKnows,
         UrgentHasBatch, TurnsAreServed, HeldBack, Free, Job, NoChoice, Elapse, Passes, Again,
         Backoffs, Turns, Wakes, Time
<1>3. LooksHold'
  BY DEF SchedulerInv, SchedulerTypeOK, LooksHold, OnlyWhenFree, NotedIsSignalled, MarkIsRight,
         Free, Job, Noted, Elapse, Passes, Again, Wakes, Backoffs, Time, Since
<1>4. OpeningsHold'
  BY DEF SchedulerInv, SchedulerTypeOK, TurnsHold, LooksHold, OpeningsHold, SeenIsSignalled,
         PassHasLooked, OpeningIsTried, EveryOpeningIsTried, Occupied, Open, ReadDone, OnlyWhenFree,
         NotedIsSignalled, MarkIsRight, UrgentHasBatch, Free, Job, Noted, Elapse, Passes, Again,
         Wakes, Backoffs, Turns, Time, Since
<1> QED BY <1>1, <1>2, <1>3, <1>4 DEF SchedulerInv

\* A control moves the generation of the accounts: what was noted is of another one.
LEMMA ControlKeeps ==
  ASSUME SchedulerInv, Control
  PROVE  SchedulerInv'
<1>1. SchedulerTypeOK'
  <2> USE DEF SchedulerInv, SchedulerTypeOK, Job
  <2>1. wake' \in [Job -> BOOLEAN]
    BY DEF Control, Happens, NextGeneration, AskFor
  <2>2. saved' \in Listing
    BY DEF Listing, Control, Happens, NextGeneration, AskFor
  <2>3. actual' \in Account
    BY DEF Account, Control, Happens, NextGeneration, AskFor
  <2>4. cycle' \in Wakes
    BY DEF Wakes, Control, Happens, NextGeneration, AskFor
  <2>5. owed' \in [Job -> Since]
    BY DEF Since, Control, Happens, NextGeneration, AskFor
  <2>6. chance' \in Since
    BY DEF Since, Control, Happens, NextGeneration, AskFor
  <2>7. events' \in 0 .. MaxEvents
    BY SchedulerBound DEF Control, Happens, NextGeneration, AskFor
  <2> QED
    BY <2>1, <2>2, <2>3, <2>4, <2>5, <2>6, <2>7 DEF Control, Happens, NextGeneration, AskFor
<1>2. TurnsHold'
  <2>1. AskFor({"account", "hot"}) /\ {"account", "hot"} \in SUBSET Job /\ SchedulerTypeOK
    BY DEF SchedulerInv, Control, Job
  <2>2. OwedIsKnown'
    BY <2>1, AskForTells DEF SchedulerInv, SchedulerTypeOK, TurnsHold, OwedIsKnown, BorrowedRuns,
           Free, Job, Control, Happens, NextGeneration
  <2>3. BorrowedRuns'
    BY <2>1, AskForTells DEF SchedulerInv, SchedulerTypeOK, TurnsHold, BorrowedRuns, Free, Job,
           Control, Happens, NextGeneration
  <2>4. PassKnows'
    BY <2>1, AskForTells DEF SchedulerInv, SchedulerTypeOK, TurnsHold, OwedIsKnown, PassKnows, Free,
           Job, Control, Happens, NextGeneration
  <2>5. UrgentHasBatch'
    BY <2>1, AskForTells DEF SchedulerInv, SchedulerTypeOK, TurnsHold, UrgentHasBatch, NoChoice,
           Free, Job, Control, Happens, NextGeneration
  <2>6. TurnsAreServed'
    BY <2>1, AskForTells DEF SchedulerInv, SchedulerTypeOK, TurnsHold, TurnsAreServed, HeldBack,
           Free, Job, Control, Happens, NextGeneration
  <2> QED BY <2>2, <2>3, <2>4, <2>5, <2>6 DEF TurnsHold
<1>3. LooksHold'
  BY DEF SchedulerInv, SchedulerTypeOK, LooksHold, OnlyWhenFree, NotedIsSignalled, MarkIsRight,
         Free, Job, Noted, Control, Happens, NextGeneration, AskFor
<1>4. OpeningsHold'
  BY DEF SchedulerInv, SchedulerTypeOK, TurnsHold, LooksHold, OpeningsHold, SeenIsSignalled,
         PassHasLooked, OpeningIsTried, EveryOpeningIsTried, Occupied, Open, ReadDone, OnlyWhenFree,
         NotedIsSignalled, MarkIsRight, UrgentHasBatch, Free, Job, Noted, Control, Happens,
         NextGeneration, AskFor
<1> QED BY <1>1, <1>2, <1>3, <1>4 DEF SchedulerInv

LEMMA AskAgainKeeps ==
  ASSUME SchedulerInv, AskAgain
  PROVE  SchedulerInv'
<1>1. SchedulerTypeOK'
  <2> USE DEF SchedulerInv, SchedulerTypeOK, Job
  <2>1. wake' \in [Job -> BOOLEAN]
    BY DEF AskAgain, Happens, AskFor, loop
  <2>2. turn' \in Turns
    BY DEF Turns, Urgency, AskAgain, Happens, AskFor, loop
  <2>3. owed' \in [Job -> Since]
    BY DEF Since, AskAgain, Happens, AskFor, loop
  <2>4. events' \in 0 .. MaxEvents
    BY SchedulerBound DEF AskAgain, Happens, AskFor, loop
  <2> QED
    BY <2>1, <2>2, <2>3, <2>4 DEF AskAgain, Happens, AskFor, loop
<1>2. TurnsHold'
  <2>1. AskFor({"account"}) /\ {"account"} \in SUBSET Job /\ SchedulerTypeOK
    BY DEF SchedulerInv, AskAgain, Job
  <2>2. OwedIsKnown'
    BY <2>1, AskForTells DEF SchedulerInv, SchedulerTypeOK, TurnsHold, OwedIsKnown, BorrowedRuns,
           Free, Job, AskAgain, Happens, loop
  <2>3. BorrowedRuns'
    BY <2>1, AskForTells DEF SchedulerInv, SchedulerTypeOK, TurnsHold, BorrowedRuns, Free, Job,
           AskAgain, Happens, loop
  <2>4. PassKnows'
    BY <2>1, AskForTells DEF SchedulerInv, SchedulerTypeOK, TurnsHold, OwedIsKnown, PassKnows, Free,
           Job, AskAgain, Happens, loop
  <2>5. UrgentHasBatch'
    BY <2>1, AskForTells DEF SchedulerInv, SchedulerTypeOK, TurnsHold, UrgentHasBatch, NoChoice,
           Free, Job, AskAgain, Happens, loop
  <2>6. TurnsAreServed'
    BY <2>1, AskForTells DEF SchedulerInv, SchedulerTypeOK, TurnsHold, TurnsAreServed, HeldBack,
           Free, Job, AskAgain, Happens, loop
  <2> QED BY <2>2, <2>3, <2>4, <2>5, <2>6 DEF TurnsHold
<1>3. LooksHold'
  BY DEF SchedulerInv, SchedulerTypeOK, LooksHold, OnlyWhenFree, NotedIsSignalled, MarkIsRight,
         Free, Job, Noted, AskAgain, Happens, AskFor, loop
<1>4. OpeningsHold'
  BY DEF SchedulerInv, SchedulerTypeOK, TurnsHold, LooksHold, OpeningsHold, SeenIsSignalled,
         PassHasLooked, OpeningIsTried, EveryOpeningIsTried, Occupied, Open, ReadDone, OnlyWhenFree,
         NotedIsSignalled, MarkIsRight, UrgentHasBatch, Free, Job, Noted, AskAgain, Happens, AskFor,
         loop
<1> QED BY <1>1, <1>2, <1>3, <1>4 DEF SchedulerInv

LEMMA GroupControlKeeps ==
  ASSUME SchedulerInv, GroupControl
  PROVE  SchedulerInv'
<1>1. SchedulerTypeOK'
  <2> USE DEF SchedulerInv, SchedulerTypeOK, Job
  <2>1. wake' \in [Job -> BOOLEAN]
    BY DEF GroupControl, Happens, NextGeneration, AskFor
  <2>2. saved' \in Listing
    BY DEF Listing, GroupControl, Happens, NextGeneration, AskFor
  <2>3. cycle' \in Wakes
    BY DEF Wakes, GroupControl, Happens, NextGeneration, AskFor
  <2>4. owed' \in [Job -> Since]
    BY DEF Since, GroupControl, Happens, NextGeneration, AskFor
  <2>5. chance' \in Since
    BY DEF Since, GroupControl, Happens, NextGeneration, AskFor
  <2>6. events' \in 0 .. MaxEvents
    BY SchedulerBound DEF GroupControl, Happens, NextGeneration, AskFor
  <2> QED
    BY <2>1, <2>2, <2>3, <2>4, <2>5, <2>6 DEF GroupControl, Happens, NextGeneration, AskFor
<1>2. TurnsHold'
  <2>1. AskFor({"group"}) /\ {"group"} \in SUBSET Job /\ SchedulerTypeOK
    BY DEF SchedulerInv, GroupControl, Job
  <2>2. OwedIsKnown'
    BY <2>1, AskForTells DEF SchedulerInv, SchedulerTypeOK, TurnsHold, OwedIsKnown, BorrowedRuns,
           Free, Job, GroupControl, Happens, NextGeneration
  <2>3. BorrowedRuns'
    BY <2>1, AskForTells DEF SchedulerInv, SchedulerTypeOK, TurnsHold, BorrowedRuns, Free, Job,
           GroupControl, Happens, NextGeneration
  <2>4. PassKnows'
    BY <2>1, AskForTells DEF SchedulerInv, SchedulerTypeOK, TurnsHold, OwedIsKnown, PassKnows, Free,
           Job, GroupControl, Happens, NextGeneration
  <2>5. UrgentHasBatch'
    BY <2>1, AskForTells DEF SchedulerInv, SchedulerTypeOK, TurnsHold, UrgentHasBatch, NoChoice,
           Free, Job, GroupControl, Happens, NextGeneration
  <2>6. TurnsAreServed'
    BY <2>1, AskForTells DEF SchedulerInv, SchedulerTypeOK, TurnsHold, TurnsAreServed, HeldBack,
           Free, Job, GroupControl, Happens, NextGeneration
  <2> QED BY <2>2, <2>3, <2>4, <2>5, <2>6 DEF TurnsHold
<1>3. LooksHold'
  BY DEF SchedulerInv, SchedulerTypeOK, LooksHold, OnlyWhenFree, NotedIsSignalled, MarkIsRight,
         Free, Job, Noted, GroupControl, Happens, NextGeneration, AskFor
<1>4. OpeningsHold'
  BY DEF SchedulerInv, SchedulerTypeOK, TurnsHold, LooksHold, OpeningsHold, SeenIsSignalled,
         PassHasLooked, OpeningIsTried, EveryOpeningIsTried, Occupied, Open, ReadDone, OnlyWhenFree,
         NotedIsSignalled, MarkIsRight, UrgentHasBatch, Free, Job, Noted, GroupControl, Happens,
         NextGeneration, AskFor
<1> QED BY <1>1, <1>2, <1>3, <1>4 DEF SchedulerInv

LEMMA HotNewsKeeps ==
  ASSUME SchedulerInv, HotNews
  PROVE  SchedulerInv'
<1>1. SchedulerTypeOK'
  <2> USE DEF SchedulerInv, SchedulerTypeOK, Job
  <2>1. wake' \in [Job -> BOOLEAN]
    BY DEF HotNews, Happens, AskFor, loop
  <2>2. owed' \in [Job -> Since]
    BY DEF Since, HotNews, Happens, AskFor, loop
  <2>3. events' \in 0 .. MaxEvents
    BY SchedulerBound DEF HotNews, Happens, AskFor, loop
  <2> QED
    BY <2>1, <2>2, <2>3 DEF HotNews, Happens, AskFor, loop
<1>2. TurnsHold'
  <2>1. AskFor({"hot"}) /\ {"hot"} \in SUBSET Job /\ SchedulerTypeOK
    BY DEF SchedulerInv, HotNews, Job
  <2>2. OwedIsKnown'
    BY <2>1, AskForTells DEF SchedulerInv, SchedulerTypeOK, TurnsHold, OwedIsKnown, BorrowedRuns,
           Free, Job, HotNews, Happens, loop
  <2>3. BorrowedRuns'
    BY <2>1, AskForTells DEF SchedulerInv, SchedulerTypeOK, TurnsHold, BorrowedRuns, Free, Job,
           HotNews, Happens, loop
  <2>4. PassKnows'
    BY <2>1, AskForTells DEF SchedulerInv, SchedulerTypeOK, TurnsHold, OwedIsKnown, PassKnows, Free,
           Job, HotNews, Happens, loop
  <2>5. UrgentHasBatch'
    BY <2>1, AskForTells DEF SchedulerInv, SchedulerTypeOK, TurnsHold, UrgentHasBatch, NoChoice,
           Free, Job, HotNews, Happens, loop
  <2>6. TurnsAreServed'
    BY <2>1, AskForTells DEF SchedulerInv, SchedulerTypeOK, TurnsHold, TurnsAreServed, HeldBack,
           Free, Job, HotNews, Happens, loop
  <2> QED BY <2>2, <2>3, <2>4, <2>5, <2>6 DEF TurnsHold
<1>3. LooksHold'
  BY DEF SchedulerInv, SchedulerTypeOK, LooksHold, OnlyWhenFree, NotedIsSignalled, MarkIsRight,
         Free, Job, Noted, HotNews, Happens, AskFor, loop
<1>4. OpeningsHold'
  BY DEF SchedulerInv, SchedulerTypeOK, TurnsHold, LooksHold, OpeningsHold, SeenIsSignalled,
         PassHasLooked, OpeningIsTried, EveryOpeningIsTried, Occupied, Open, ReadDone, OnlyWhenFree,
         NotedIsSignalled, MarkIsRight, UrgentHasBatch, Free, Job, Noted, HotNews, Happens, AskFor,
         loop
<1> QED BY <1>1, <1>2, <1>3, <1>4 DEF SchedulerInv

\* A quota gives priority, or takes it away (wake_capacity_accounts).
LEMMA CapacityKeeps ==
  ASSUME SchedulerInv, Capacity
  PROVE  SchedulerInv'
<1>1. SchedulerTypeOK'
  <2> USE DEF SchedulerInv, SchedulerTypeOK, Job
  <2>1. turn' \in Turns
    BY DEF Turns, Urgency, Capacity, Happens, Again, loop
  <2>2. chance' \in Since
    BY DEF Since, Capacity, Happens, Again, loop
  <2>3. events' \in 0 .. MaxEvents
    BY SchedulerBound DEF Capacity, Happens, Again, loop
  <2> QED
    BY <2>1, <2>2, <2>3 DEF Capacity, Happens, Again, loop
<1>2. TurnsHold'
  BY DEF SchedulerInv, SchedulerTypeOK, TurnsHold, OwedIsKnown, BorrowedRuns, PassKnows,
         UrgentHasBatch, TurnsAreServed, HeldBack, Free, Job, NoChoice, Capacity, Happens, Again,
         loop
<1>3. LooksHold'
  BY DEF SchedulerInv, SchedulerTypeOK, LooksHold, OnlyWhenFree, NotedIsSignalled, MarkIsRight,
         Free, Job, Noted, Capacity, Happens, Again, loop
<1>4. OpeningsHold'
  BY DEF SchedulerInv, SchedulerTypeOK, TurnsHold, LooksHold, OpeningsHold, SeenIsSignalled,
         PassHasLooked, OpeningIsTried, EveryOpeningIsTried, Occupied, Open, ReadDone, OnlyWhenFree,
         NotedIsSignalled, MarkIsRight, UrgentHasBatch, Free, Job, Noted, Capacity, Happens, Again,
         loop
<1> QED BY <1>1, <1>2, <1>3, <1>4 DEF SchedulerInv

-----------------------------------------------------------------------------
(* The workers *)

LEMMA ResumeKeeps ==
  ASSUME SchedulerInv, Resume
  PROVE  SchedulerInv'
<1>1. SchedulerTypeOK'
  <2> USE DEF SchedulerInv, SchedulerTypeOK, Job
  <2>1. actual' \in Account
    BY DEF Account, Resume, Resumes, ReadDone, Fast, Rearm, loop
  <2>2. cycle' \in Wakes
    BY DEF Wakes, Resume, Resumes, ReadDone, Fast, Rearm, loop
  <2>3. chance' \in Since
    BY DEF Since, Resume, Resumes, ReadDone, Fast, Rearm, loop
  <2> QED
    BY <2>1, <2>2, <2>3 DEF Resume, Resumes, ReadDone, Fast, Rearm, loop
<1>2. TurnsHold'
  BY DEF SchedulerInv, SchedulerTypeOK, TurnsHold, OwedIsKnown, BorrowedRuns, PassKnows,
         UrgentHasBatch, TurnsAreServed, HeldBack, Free, Job, NoChoice, Resume, Resumes, ReadDone,
         Fast, Rearm, loop
<1>3. LooksHold'
  BY DEF SchedulerInv, SchedulerTypeOK, LooksHold, OnlyWhenFree, NotedIsSignalled, MarkIsRight,
         Free, Job, Noted, Resume, Resumes, ReadDone, Fast, Rearm, loop
<1>4. OpeningsHold'
  BY DEF SchedulerInv, SchedulerTypeOK, TurnsHold, LooksHold, OpeningsHold, SeenIsSignalled,
         PassHasLooked, OpeningIsTried, EveryOpeningIsTried, Occupied, Open, ReadDone, OnlyWhenFree,
         NotedIsSignalled, MarkIsRight, UrgentHasBatch, Free, Job, Noted, Resume, Resumes, Fast,
         Rearm, loop
<1> QED BY <1>1, <1>2, <1>3, <1>4 DEF SchedulerInv

LEMMA ReadEndsKeeps ==
  ASSUME SchedulerInv, ReadEnds
  PROVE  SchedulerInv'
<1>1. SchedulerTypeOK'
  <2> USE DEF SchedulerInv, SchedulerTypeOK, Job
  <2>1. actual' \in Account
    BY DEF Account, ReadEnds, Again, loop
  <2>2. owed' \in [Job -> Since]
    BY DEF Since, ReadEnds, Again, loop
  <2>3. chance' \in Since
    BY DEF Since, ReadEnds, Again, loop
  <2> QED
    BY <2>1, <2>2, <2>3 DEF ReadEnds, Again, loop
<1>2. TurnsHold'
  BY DEF SchedulerInv, SchedulerTypeOK, TurnsHold, OwedIsKnown, BorrowedRuns, PassKnows,
         UrgentHasBatch, TurnsAreServed, HeldBack, Free, Job, NoChoice, ReadEnds, Again, loop
<1>3. LooksHold'
  BY DEF SchedulerInv, SchedulerTypeOK, LooksHold, OnlyWhenFree, NotedIsSignalled, MarkIsRight,
         Free, Job, Noted, ReadEnds, Again, loop
<1>4. OpeningsHold'
  BY DEF SchedulerInv, SchedulerTypeOK, TurnsHold, LooksHold, OpeningsHold, SeenIsSignalled,
         PassHasLooked, OpeningIsTried, EveryOpeningIsTried, Occupied, Open, ReadDone, OnlyWhenFree,
         NotedIsSignalled, MarkIsRight, UrgentHasBatch, Free, Job, Noted, ReadEnds, Again, loop
<1> QED BY <1>1, <1>2, <1>3, <1>4 DEF SchedulerInv

\* The read asks for the turn that it was begun for.
LEMMA ReadLandsKeeps ==
  ASSUME SchedulerInv, ReadLands
  PROVE  SchedulerInv'
<1>1. SchedulerTypeOK'
  <2> USE DEF SchedulerInv, SchedulerTypeOK, Job
  <2>1. wake' \in [Job -> BOOLEAN]
    BY DEF ReadLands, AskFor, loop
  <2>2. actual' \in Account
    BY DEF Account, ReadLands, AskFor, loop
  <2>3. owed' \in [Job -> Since]
    BY DEF Since, ReadLands, AskFor, loop
  <2> QED
    BY <2>1, <2>2, <2>3 DEF ReadLands, AskFor, loop
<1>2. TurnsHold'
  <2>1. AskFor({"account"}) /\ {"account"} \in SUBSET Job /\ SchedulerTypeOK
    BY DEF SchedulerInv, ReadLands, Job
  <2>2. OwedIsKnown'
    BY <2>1, AskForTells DEF SchedulerInv, SchedulerTypeOK, TurnsHold, OwedIsKnown, BorrowedRuns,
           Free, Job, ReadLands, loop
  <2>3. BorrowedRuns'
    BY <2>1, AskForTells DEF SchedulerInv, SchedulerTypeOK, TurnsHold, BorrowedRuns, Free, Job,
           ReadLands, loop
  <2>4. PassKnows'
    BY <2>1, AskForTells DEF SchedulerInv, SchedulerTypeOK, TurnsHold, OwedIsKnown, PassKnows, Free,
           Job, ReadLands, loop
  <2>5. UrgentHasBatch'
    BY <2>1, AskForTells DEF SchedulerInv, SchedulerTypeOK, TurnsHold, UrgentHasBatch, NoChoice,
           Free, Job, ReadLands, loop
  <2>6. TurnsAreServed'
    BY <2>1, AskForTells DEF SchedulerInv, SchedulerTypeOK, TurnsHold, TurnsAreServed, HeldBack,
           Free, Job, ReadLands, loop
  <2> QED BY <2>2, <2>3, <2>4, <2>5, <2>6 DEF TurnsHold
<1>3. LooksHold'
  BY DEF SchedulerInv, SchedulerTypeOK, LooksHold, OnlyWhenFree, NotedIsSignalled, MarkIsRight,
         Free, Job, Noted, ReadLands, AskFor, loop
<1>4. OpeningsHold'
  BY DEF SchedulerInv, SchedulerTypeOK, TurnsHold, LooksHold, OpeningsHold, SeenIsSignalled,
         PassHasLooked, OpeningIsTried, EveryOpeningIsTried, Occupied, Open, ReadDone, OnlyWhenFree,
         NotedIsSignalled, MarkIsRight, UrgentHasBatch, Free, Job, Noted, ReadLands, AskFor, loop
<1> QED BY <1>1, <1>2, <1>3, <1>4 DEF SchedulerInv

LEMMA TurnWaitsKeeps ==
  ASSUME SchedulerInv, TurnWaits
  PROVE  SchedulerInv'
<1>1. SchedulerTypeOK'
  <2> USE DEF SchedulerInv, SchedulerTypeOK, Job
  <2>1. running' \in [Job -> Worker]
    BY DEF Worker, Free, TurnWaits, EndTurn, Resumes, UrgentOrAgain, Fast, ReadDone, loop, hopes
  <2>2. turn' \in Turns
    BY DEF Turns, Urgency, Account, TurnWaits, EndTurn, Resumes, UrgentOrAgain, Fast, ReadDone,
           loop, hopes
  <2>3. actual' \in Account
    BY DEF Account, TurnWaits, EndTurn, Resumes, UrgentOrAgain, Fast, ReadDone, loop, hopes
  <2> QED
    BY <2>1, <2>2, <2>3 DEF TurnWaits, EndTurn, Resumes, UrgentOrAgain, Fast, ReadDone, loop, hopes
<1>2. TurnsHold'
  BY DEF SchedulerInv, SchedulerTypeOK, TurnsHold, OwedIsKnown, BorrowedRuns, PassKnows,
         UrgentHasBatch, TurnsAreServed, HeldBack, Free, Job, NoChoice, TurnWaits, EndTurn, Resumes,
         UrgentOrAgain, Fast, ReadDone, loop, hopes
<1>3. LooksHold'
  BY DEF SchedulerInv, SchedulerTypeOK, LooksHold, OnlyWhenFree, NotedIsSignalled, MarkIsRight,
         Free, Job, Noted, TurnWaits, EndTurn, Resumes, UrgentOrAgain, Fast, ReadDone, loop, hopes
<1>4. OpeningsHold'
  BY DEF SchedulerInv, SchedulerTypeOK, TurnsHold, LooksHold, OpeningsHold, SeenIsSignalled,
         PassHasLooked, OpeningIsTried, EveryOpeningIsTried, Occupied, Open, ReadDone, OnlyWhenFree,
         NotedIsSignalled, MarkIsRight, UrgentHasBatch, Free, Job, Noted, TurnWaits, EndTurn,
         Resumes, UrgentOrAgain, Fast, loop, hopes
<1> QED BY <1>1, <1>2, <1>3, <1>4 DEF SchedulerInv

\* A filled phase ends the opportunity it was tried for.
LEMMA TurnSendsKeeps ==
  ASSUME SchedulerInv, TurnSends
  PROVE  SchedulerInv'
<1>1. SchedulerTypeOK'
  <2> USE DEF SchedulerInv, SchedulerTypeOK, Job
  <2>1. running' \in [Job -> Worker]
    BY DEF Worker, Free, TurnSends, EndTurn, Resumes, Urgent, Happens, Fast, ReadDone, loop, hopes
  <2>2. turn' \in Turns
    BY DEF Turns, Urgency, Account, TurnSends, EndTurn, Resumes, Urgent, Happens, Fast, ReadDone,
           loop, hopes
  <2>3. actual' \in Account
    BY DEF Account, TurnSends, EndTurn, Resumes, Urgent, Happens, Fast, ReadDone, loop, hopes
  <2>4. offer' \in Offers
    BY DEF Offers, TurnSends, EndTurn, Resumes, Urgent, Happens, Fast, ReadDone, loop, hopes
  <2>5. cycle' \in Wakes
    BY DEF Wakes, TurnSends, EndTurn, Resumes, Urgent, Happens, Fast, ReadDone, loop, hopes
  <2>6. events' \in 0 .. MaxEvents
    BY SchedulerBound DEF TurnSends, EndTurn, Resumes, Urgent, Happens, Fast, ReadDone, loop, hopes
  <2> QED
    BY <2>1, <2>2, <2>3, <2>4, <2>5, <2>6 DEF TurnSends, EndTurn, Resumes, Urgent, Happens, Fast,
           ReadDone, loop, hopes
<1>2. TurnsHold'
  BY DEF SchedulerInv, SchedulerTypeOK, TurnsHold, OwedIsKnown, BorrowedRuns, PassKnows,
         UrgentHasBatch, TurnsAreServed, HeldBack, Free, Job, NoChoice, TurnSends, EndTurn, Resumes,
         Urgent, Happens, Fast, ReadDone, loop, hopes
<1>3. LooksHold'
  BY DEF SchedulerInv, SchedulerTypeOK, LooksHold, OnlyWhenFree, NotedIsSignalled, MarkIsRight,
         Free, Job, Noted, TurnSends, EndTurn, Resumes, Urgent, Happens, Fast, ReadDone, loop, hopes
<1>4. OpeningsHold'
  BY DEF SchedulerInv, SchedulerTypeOK, TurnsHold, LooksHold, OpeningsHold, SeenIsSignalled,
         PassHasLooked, OpeningIsTried, EveryOpeningIsTried, Occupied, Open, ReadDone, OnlyWhenFree,
         NotedIsSignalled, MarkIsRight, UrgentHasBatch, Free, Job, Noted, TurnSends, EndTurn,
         Resumes, Urgent, Happens, Fast, loop, hopes
<1> QED BY <1>1, <1>2, <1>3, <1>4 DEF SchedulerInv

\* An error holds the account back, and keeps the time its fast attempt has borrowed.
LEMMA TurnErrsKeeps ==
  ASSUME SchedulerInv, TurnErrs
  PROVE  SchedulerInv'
<1>1. SchedulerTypeOK'
  <2> USE DEF SchedulerInv, SchedulerTypeOK, Job
  <2>1. running' \in [Job -> Worker]
    BY DEF Worker, Free, TurnErrs, EndTurn, Resumes, UrgentOrAgain, Happens, Fast, ReadDone, hopes
  <2>2. borrowed' \in Time \cup {"no"}
    BY DEF Time, TurnErrs, EndTurn, Resumes, UrgentOrAgain, Happens, Fast, ReadDone, hopes
  <2>3. backoff' \in Backoffs
    BY DEF Backoffs, TurnErrs, EndTurn, Resumes, UrgentOrAgain, Happens, Fast, ReadDone, hopes
  <2>4. turn' \in Turns
    BY DEF Turns, Urgency, Account, TurnErrs, EndTurn, Resumes, UrgentOrAgain, Happens, Fast,
           ReadDone, hopes
  <2>5. actual' \in Account
    BY DEF Account, TurnErrs, EndTurn, Resumes, UrgentOrAgain, Happens, Fast, ReadDone, hopes
  <2>6. events' \in 0 .. MaxEvents
    BY SchedulerBound DEF TurnErrs, EndTurn, Resumes, UrgentOrAgain, Happens, Fast, ReadDone, hopes
  <2> QED
    BY <2>1, <2>2, <2>3, <2>4, <2>5, <2>6 DEF TurnErrs, EndTurn, Resumes, UrgentOrAgain, Happens,
           Fast, ReadDone, hopes
<1>2. TurnsHold'
  BY DEF SchedulerInv, SchedulerTypeOK, TurnsHold, OwedIsKnown, BorrowedRuns, PassKnows,
         UrgentHasBatch, TurnsAreServed, HeldBack, Free, Job, NoChoice, TurnErrs, EndTurn, Resumes,
         UrgentOrAgain, Happens, Fast, ReadDone, hopes
<1>3. LooksHold'
  BY DEF SchedulerInv, SchedulerTypeOK, LooksHold, OnlyWhenFree, NotedIsSignalled, MarkIsRight,
         Free, Job, Noted, TurnErrs, EndTurn, Resumes, UrgentOrAgain, Happens, Fast, ReadDone,
         hopes, Account, Backoffs, Wakes, Worker
<1>4. OpeningsHold'
  BY DEF SchedulerInv, SchedulerTypeOK, TurnsHold, LooksHold, OpeningsHold, SeenIsSignalled,
         PassHasLooked, OpeningIsTried, EveryOpeningIsTried, Occupied, Open, ReadDone, OnlyWhenFree,
         NotedIsSignalled, MarkIsRight, UrgentHasBatch, Free, Job, Noted, TurnErrs, EndTurn,
         Resumes, UrgentOrAgain, Happens, Fast, hopes
<1> QED BY <1>1, <1>2, <1>3, <1>4 DEF SchedulerInv

LEMMA TurnSupersededKeeps ==
  ASSUME SchedulerInv, TurnSuperseded
  PROVE  SchedulerInv'
<1>1. SchedulerTypeOK'
  <2> USE DEF SchedulerInv, SchedulerTypeOK, Job
  <2>1. running' \in [Job -> Worker]
    BY DEF Worker, Free, TurnSuperseded, EndTurn, Resumes, Urgent, Happens, Fast, ReadDone, Rearm,
           AskFor
  <2>2. borrowed' \in Time \cup {"no"}
    BY DEF Time, TurnSuperseded, EndTurn, Resumes, Urgent, Happens, Fast, ReadDone, Rearm, AskFor
  <2>3. backoff' \in Backoffs
    BY DEF Backoffs, TurnSuperseded, EndTurn, Resumes, Urgent, Happens, Fast, ReadDone, Rearm,
           AskFor
  <2>4. wake' \in [Job -> BOOLEAN]
    BY DEF TurnSuperseded, EndTurn, Resumes, Urgent, Happens, Fast, ReadDone, Rearm, AskFor
  <2>5. turn' \in Turns
    BY DEF Turns, Urgency, Account, TurnSuperseded, EndTurn, Resumes, Urgent, Happens, Fast,
           ReadDone, Rearm, AskFor
  <2>6. actual' \in Account
    BY DEF Account, TurnSuperseded, EndTurn, Resumes, Urgent, Happens, Fast, ReadDone, Rearm, AskFor
  <2>7. cycle' \in Wakes
    BY DEF Wakes, TurnSuperseded, EndTurn, Resumes, Urgent, Happens, Fast, ReadDone, Rearm, AskFor
  <2>8. owed' \in [Job -> Since]
    BY DEF Since, TurnSuperseded, EndTurn, Resumes, Urgent, Happens, Fast, ReadDone, Rearm, AskFor
  <2>9. events' \in 0 .. MaxEvents
    BY SchedulerBound DEF TurnSuperseded, EndTurn, Resumes, Urgent, Happens, Fast, ReadDone, Rearm,
           AskFor
  <2> QED
    BY <2>1, <2>2, <2>3, <2>4, <2>5, <2>6, <2>7, <2>8, <2>9 DEF TurnSuperseded, EndTurn, Resumes,
           Urgent, Happens, Fast, ReadDone, Rearm, AskFor
<1>2. TurnsHold'
  <2>1. AskFor({"account", "hot"}) /\ {"account", "hot"} \in SUBSET Job /\ SchedulerTypeOK
    BY DEF SchedulerInv, TurnSuperseded, Job
  <2>2. OwedIsKnown'
    BY <2>1, AskForTells DEF SchedulerInv, SchedulerTypeOK, TurnsHold, OwedIsKnown, BorrowedRuns,
           Free, Job, TurnSuperseded, EndTurn, Resumes, Urgent, Happens, Fast, ReadDone, Rearm
  <2>3. BorrowedRuns'
    BY <2>1, AskForTells DEF SchedulerInv, SchedulerTypeOK, TurnsHold, BorrowedRuns, Free, Job,
           TurnSuperseded, EndTurn, Resumes, Urgent, Happens, Fast, ReadDone, Rearm
  <2>4. PassKnows'
    BY <2>1, AskForTells DEF SchedulerInv, SchedulerTypeOK, TurnsHold, OwedIsKnown, PassKnows, Free,
           Job, TurnSuperseded, EndTurn, Resumes, Urgent, Happens, Fast, ReadDone, Rearm
  <2>5. UrgentHasBatch'
    BY <2>1, AskForTells DEF SchedulerInv, SchedulerTypeOK, TurnsHold, UrgentHasBatch, NoChoice,
           Free, Job, TurnSuperseded, EndTurn, Resumes, Urgent, Happens, Fast, ReadDone, Rearm
  <2>6. TurnsAreServed'
    BY <2>1, AskForTells DEF SchedulerInv, SchedulerTypeOK, TurnsHold, TurnsAreServed, HeldBack,
           Free, Job, TurnSuperseded, EndTurn, Resumes, Urgent, Happens, Fast, ReadDone, Rearm
  <2> QED BY <2>2, <2>3, <2>4, <2>5, <2>6 DEF TurnsHold
<1>3. LooksHold'
  BY DEF SchedulerInv, SchedulerTypeOK, LooksHold, OnlyWhenFree, NotedIsSignalled, MarkIsRight,
         Free, Job, Noted, TurnSuperseded, EndTurn, Resumes, Urgent, Happens, Fast, ReadDone, Rearm,
         AskFor
<1>4. OpeningsHold'
  BY DEF SchedulerInv, SchedulerTypeOK, TurnsHold, LooksHold, OpeningsHold, SeenIsSignalled,
         PassHasLooked, OpeningIsTried, EveryOpeningIsTried, Occupied, Open, ReadDone, OnlyWhenFree,
         NotedIsSignalled, MarkIsRight, UrgentHasBatch, Free, Job, Noted, TurnSuperseded, EndTurn,
         Resumes, Urgent, Happens, Fast, Rearm, AskFor
<1> QED BY <1>1, <1>2, <1>3, <1>4 DEF SchedulerInv

LEMMA TurnUnavailableKeeps ==
  ASSUME SchedulerInv, TurnUnavailable
  PROVE  SchedulerInv'
<1>1. SchedulerTypeOK'
  <2> USE DEF SchedulerInv, SchedulerTypeOK, Job
  <2>1. running' \in [Job -> Worker]
    BY DEF Worker, Free, TurnUnavailable, EndTurn, Resumes, Urgent, Happens, Fast, ReadDone, AskFor,
           loop
  <2>2. wake' \in [Job -> BOOLEAN]
    BY DEF TurnUnavailable, EndTurn, Resumes, Urgent, Happens, Fast, ReadDone, AskFor, loop
  <2>3. turn' \in Turns
    BY DEF Turns, Urgency, Account, TurnUnavailable, EndTurn, Resumes, Urgent, Happens, Fast,
           ReadDone, AskFor, loop
  <2>4. actual' \in Account
    BY DEF Account, TurnUnavailable, EndTurn, Resumes, Urgent, Happens, Fast, ReadDone, AskFor, loop
  <2>5. cycle' \in Wakes
    BY DEF Wakes, TurnUnavailable, EndTurn, Resumes, Urgent, Happens, Fast, ReadDone, AskFor, loop
  <2>6. owed' \in [Job -> Since]
    BY DEF Since, TurnUnavailable, EndTurn, Resumes, Urgent, Happens, Fast, ReadDone, AskFor, loop
  <2>7. events' \in 0 .. MaxEvents
    BY SchedulerBound DEF TurnUnavailable, EndTurn, Resumes, Urgent, Happens, Fast, ReadDone,
           AskFor, loop
  <2> QED
    BY <2>1, <2>2, <2>3, <2>4, <2>5, <2>6, <2>7 DEF TurnUnavailable, EndTurn, Resumes, Urgent,
           Happens, Fast, ReadDone, AskFor, loop
<1>2. TurnsHold'
  <2>1. AskFor({"hot"}) /\ {"hot"} \in SUBSET Job /\ SchedulerTypeOK
    BY DEF SchedulerInv, TurnUnavailable, Job
  <2>2. OwedIsKnown'
    BY <2>1, AskForTells DEF SchedulerInv, SchedulerTypeOK, TurnsHold, OwedIsKnown, BorrowedRuns,
           Free, Job, TurnUnavailable, EndTurn, Resumes, Urgent, Happens, Fast, ReadDone, loop
  <2>3. BorrowedRuns'
    BY <2>1, AskForTells DEF SchedulerInv, SchedulerTypeOK, TurnsHold, BorrowedRuns, Free, Job,
           TurnUnavailable, EndTurn, Resumes, Urgent, Happens, Fast, ReadDone, loop
  <2>4. PassKnows'
    BY <2>1, AskForTells DEF SchedulerInv, SchedulerTypeOK, TurnsHold, OwedIsKnown, PassKnows, Free,
           Job, TurnUnavailable, EndTurn, Resumes, Urgent, Happens, Fast, ReadDone, loop
  <2>5. UrgentHasBatch'
    BY <2>1, AskForTells DEF SchedulerInv, SchedulerTypeOK, TurnsHold, UrgentHasBatch, NoChoice,
           Free, Job, TurnUnavailable, EndTurn, Resumes, Urgent, Happens, Fast, ReadDone, loop
  <2>6. TurnsAreServed'
    BY <2>1, AskForTells DEF SchedulerInv, SchedulerTypeOK, TurnsHold, TurnsAreServed, HeldBack,
           Free, Job, TurnUnavailable, EndTurn, Resumes, Urgent, Happens, Fast, ReadDone, loop
  <2> QED BY <2>2, <2>3, <2>4, <2>5, <2>6 DEF TurnsHold
<1>3. LooksHold'
  BY DEF SchedulerInv, SchedulerTypeOK, LooksHold, OnlyWhenFree, NotedIsSignalled, MarkIsRight,
         Free, Job, Noted, TurnUnavailable, EndTurn, Resumes, Urgent, Happens, Fast, ReadDone,
         AskFor, loop
<1>4. OpeningsHold'
  BY DEF SchedulerInv, SchedulerTypeOK, TurnsHold, LooksHold, OpeningsHold, SeenIsSignalled,
         PassHasLooked, OpeningIsTried, EveryOpeningIsTried, Occupied, Open, ReadDone, OnlyWhenFree,
         NotedIsSignalled, MarkIsRight, UrgentHasBatch, Free, Job, Noted, TurnUnavailable, EndTurn,
         Resumes, Urgent, Happens, Fast, AskFor, loop
<1> QED BY <1>1, <1>2, <1>3, <1>4 DEF SchedulerInv

LEMMA TurnBreaksKeeps ==
  ASSUME SchedulerInv, TurnBreaks
  PROVE  SchedulerInv'
<1>1. SchedulerTypeOK'
  <2> USE DEF SchedulerInv, SchedulerTypeOK, Job
  <2>1. running' \in [Job -> Worker]
    BY DEF Worker, Free, TurnBreaks, EndTurn, Resumes, Urgent, Happens, Fast, ReadDone, loop, hopes
  <2>2. turn' \in Turns
    BY DEF Turns, Urgency, Account, TurnBreaks, EndTurn, Resumes, Urgent, Happens, Fast, ReadDone,
           loop, hopes
  <2>3. actual' \in Account
    BY DEF Account, TurnBreaks, EndTurn, Resumes, Urgent, Happens, Fast, ReadDone, loop, hopes
  <2>4. events' \in 0 .. MaxEvents
    BY SchedulerBound DEF TurnBreaks, EndTurn, Resumes, Urgent, Happens, Fast, ReadDone, loop, hopes
  <2> QED
    BY <2>1, <2>2, <2>3, <2>4 DEF TurnBreaks, EndTurn, Resumes, Urgent, Happens, Fast, ReadDone,
           loop, hopes
<1>2. TurnsHold'
  BY DEF SchedulerInv, SchedulerTypeOK, TurnsHold, OwedIsKnown, BorrowedRuns, PassKnows,
         UrgentHasBatch, TurnsAreServed, HeldBack, Free, Job, NoChoice, TurnBreaks, EndTurn,
         Resumes, Urgent, Happens, Fast, ReadDone, loop, hopes
<1>3. LooksHold'
  BY DEF SchedulerInv, SchedulerTypeOK, LooksHold, OnlyWhenFree, NotedIsSignalled, MarkIsRight,
         Free, Job, Noted, TurnBreaks, EndTurn, Resumes, Urgent, Happens, Fast, ReadDone, loop,
         hopes
<1>4. OpeningsHold'
  BY DEF SchedulerInv, SchedulerTypeOK, TurnsHold, LooksHold, OpeningsHold, SeenIsSignalled,
         PassHasLooked, OpeningIsTried, EveryOpeningIsTried, Occupied, Open, ReadDone, OnlyWhenFree,
         NotedIsSignalled, MarkIsRight, UrgentHasBatch, Free, Job, Noted, TurnBreaks, EndTurn,
         Resumes, Urgent, Happens, Fast, loop, hopes
<1> QED BY <1>1, <1>2, <1>3, <1>4 DEF SchedulerInv

\* A publication clears what was noted (cycle_hot_ready); what is being noted slips.
LEMMA PublishKeeps ==
  ASSUME SchedulerInv, Publish
  PROVE  SchedulerInv'
<1>1. SchedulerTypeOK'
  <2> USE DEF SchedulerInv, SchedulerTypeOK, Job
  <2>1. running' \in [Job -> Worker]
    BY DEF Worker, Free, Publish, Happens, loop
  <2>2. cycle' \in Wakes
    BY DEF Wakes, Publish, Happens, loop
  <2>3. chance' \in Since
    BY DEF Since, Publish, Happens, loop
  <2>4. events' \in 0 .. MaxEvents
    BY SchedulerBound DEF Publish, Happens, loop
  <2> QED
    BY <2>1, <2>2, <2>3, <2>4 DEF Publish, Happens, loop
<1>2. TurnsHold'
  BY DEF SchedulerInv, SchedulerTypeOK, TurnsHold, OwedIsKnown, BorrowedRuns, PassKnows,
         UrgentHasBatch, TurnsAreServed, HeldBack, Free, Job, NoChoice, Publish, Happens, loop
<1>3. LooksHold'
  BY DEF SchedulerInv, SchedulerTypeOK, LooksHold, OnlyWhenFree, NotedIsSignalled, MarkIsRight,
         Free, Job, Noted, Publish, Happens, loop
<1>4. OpeningsHold'
  BY DEF SchedulerInv, SchedulerTypeOK, TurnsHold, LooksHold, OpeningsHold, SeenIsSignalled,
         PassHasLooked, OpeningIsTried, EveryOpeningIsTried, Occupied, Open, ReadDone, OnlyWhenFree,
         NotedIsSignalled, MarkIsRight, UrgentHasBatch, Free, Job, Noted, Publish, Happens, loop
<1> QED BY <1>1, <1>2, <1>3, <1>4 DEF SchedulerInv

LEMMA HotEndsKeeps ==
  ASSUME SchedulerInv, HotEnds
  PROVE  SchedulerInv'
<1>1. SchedulerTypeOK'
  <2> USE DEF SchedulerInv, SchedulerTypeOK, Job
  <2>1. running' \in [Job -> Worker]
    BY DEF Worker, Free, HotEnds, loop, hopes
  <2>2. backoff' \in Backoffs
    BY DEF Backoffs, HotEnds, loop, hopes
  <2> QED
    BY <2>1, <2>2 DEF HotEnds, loop, hopes
<1>2. TurnsHold'
  BY DEF SchedulerInv, SchedulerTypeOK, TurnsHold, OwedIsKnown, BorrowedRuns, PassKnows,
         UrgentHasBatch, TurnsAreServed, HeldBack, Free, Job, NoChoice, HotEnds, loop, hopes
<1>3. LooksHold'
  BY DEF SchedulerInv, SchedulerTypeOK, LooksHold, OnlyWhenFree, NotedIsSignalled, MarkIsRight,
         Free, Job, Noted, HotEnds, loop, hopes
<1>4. OpeningsHold'
  BY DEF SchedulerInv, SchedulerTypeOK, TurnsHold, LooksHold, OpeningsHold, SeenIsSignalled,
         PassHasLooked, OpeningIsTried, EveryOpeningIsTried, Occupied, Open, ReadDone, OnlyWhenFree,
         NotedIsSignalled, MarkIsRight, UrgentHasBatch, Free, Job, Noted, HotEnds, loop, hopes
<1> QED BY <1>1, <1>2, <1>3, <1>4 DEF SchedulerInv

LEMMA HotPausesKeeps ==
  ASSUME SchedulerInv, HotPauses
  PROVE  SchedulerInv'
<1>1. SchedulerTypeOK'
  <2> USE DEF SchedulerInv, SchedulerTypeOK, Job
  <2>1. running' \in [Job -> Worker]
    BY DEF Worker, Free, HotPauses, Happens, NextGeneration
  <2>2. saved' \in Listing
    BY DEF Listing, HotPauses, Happens, NextGeneration
  <2>3. actual' \in Account
    BY DEF Account, HotPauses, Happens, NextGeneration
  <2>4. cycle' \in Wakes
    BY DEF Wakes, HotPauses, Happens, NextGeneration
  <2>5. chance' \in Since
    BY DEF Since, HotPauses, Happens, NextGeneration
  <2>6. events' \in 0 .. MaxEvents
    BY SchedulerBound DEF HotPauses, Happens, NextGeneration
  <2> QED
    BY <2>1, <2>2, <2>3, <2>4, <2>5, <2>6 DEF HotPauses, Happens, NextGeneration
<1>2. TurnsHold'
  BY DEF SchedulerInv, SchedulerTypeOK, TurnsHold, OwedIsKnown, BorrowedRuns, PassKnows,
         UrgentHasBatch, TurnsAreServed, HeldBack, Free, Job, NoChoice, HotPauses, Happens,
         NextGeneration
<1>3. LooksHold'
  BY DEF SchedulerInv, SchedulerTypeOK, LooksHold, OnlyWhenFree, NotedIsSignalled, MarkIsRight,
         Free, Job, Noted, HotPauses, Happens, NextGeneration
<1>4. OpeningsHold'
  BY DEF SchedulerInv, SchedulerTypeOK, TurnsHold, LooksHold, OpeningsHold, SeenIsSignalled,
         PassHasLooked, OpeningIsTried, EveryOpeningIsTried, Occupied, Open, ReadDone, OnlyWhenFree,
         NotedIsSignalled, MarkIsRight, UrgentHasBatch, Free, Job, Noted, HotPauses, Happens,
         NextGeneration
<1> QED BY <1>1, <1>2, <1>3, <1>4 DEF SchedulerInv

LEMMA GroupEndsKeeps ==
  ASSUME SchedulerInv, GroupEnds
  PROVE  SchedulerInv'
<1>1. SchedulerTypeOK'
  <2> USE DEF SchedulerInv, SchedulerTypeOK, Job
  <2>1. running' \in [Job -> Worker]
    BY DEF Worker, Free, GroupEnds, loop, hopes
  <2> QED
    BY <2>1 DEF GroupEnds, loop, hopes
<1>2. TurnsHold'
  BY DEF SchedulerInv, SchedulerTypeOK, TurnsHold, OwedIsKnown, BorrowedRuns, PassKnows,
         UrgentHasBatch, TurnsAreServed, HeldBack, Free, Job, NoChoice, GroupEnds, loop, hopes
<1>3. LooksHold'
  BY DEF SchedulerInv, SchedulerTypeOK, LooksHold, OnlyWhenFree, NotedIsSignalled, MarkIsRight,
         Free, Job, Noted, GroupEnds, loop, hopes
<1>4. OpeningsHold'
  BY DEF SchedulerInv, SchedulerTypeOK, TurnsHold, LooksHold, OpeningsHold, SeenIsSignalled,
         PassHasLooked, OpeningIsTried, EveryOpeningIsTried, Occupied, Open, ReadDone, OnlyWhenFree,
         NotedIsSignalled, MarkIsRight, UrgentHasBatch, Free, Job, Noted, GroupEnds, loop, hopes
<1> QED BY <1>1, <1>2, <1>3, <1>4 DEF SchedulerInv

-----------------------------------------------------------------------------
(* The loop's own steps *)

\* A worker that has ended gives its time back, and what came meanwhile is looked at again.
LEMMA HarvestKeeps ==
  ASSUME SchedulerInv, Harvest
  PROVE  SchedulerInv'
<1>1. SchedulerTypeOK'
  <2> USE DEF SchedulerInv, SchedulerTypeOK, Job
  <2>1. running' \in [Job -> Worker]
    BY DEF Worker, Free, Harvest, Fast, Rearm
  <2>2. due' \in [Job -> Time]
    BY DEF Time, Harvest, Fast, Rearm
  <2>3. borrowed' \in Time \cup {"no"}
    BY DEF Time, Harvest, Fast, Rearm
  <2>4. backoff' \in Backoffs
    BY DEF Backoffs, Harvest, Fast, Rearm
  <2>5. turn' \in Turns
    BY DEF Turns, Urgency, Harvest, Fast, Rearm
  <2>6. cycle' \in Wakes
    BY DEF Wakes, Harvest, Fast, Rearm
  <2>7. owed' \in [Job -> Since]
    BY DEF Since, Harvest, Fast, Rearm
  <2>8. chance' \in Since
    BY DEF Since, Harvest, Fast, Rearm
  <2> QED
    BY <2>1, <2>2, <2>3, <2>4, <2>5, <2>6, <2>7, <2>8 DEF Harvest, Fast, Rearm
<1>2. TurnsHold'
  BY DEF SchedulerInv, SchedulerTypeOK, TurnsHold, OwedIsKnown, BorrowedRuns, PassKnows,
         UrgentHasBatch, TurnsAreServed, HeldBack, Free, Job, NoChoice, Harvest, Fast, Rearm
<1>3. LooksHold'
  BY DEF SchedulerInv, SchedulerTypeOK, LooksHold, OnlyWhenFree, NotedIsSignalled, MarkIsRight,
         Free, Job, Noted, Harvest, Fast, Rearm
<1>4. OpeningsHold'
  BY DEF SchedulerInv, SchedulerTypeOK, TurnsHold, LooksHold, OpeningsHold, SeenIsSignalled,
         PassHasLooked, OpeningIsTried, EveryOpeningIsTried, Occupied, Open, ReadDone, OnlyWhenFree,
         NotedIsSignalled, MarkIsRight, UrgentHasBatch, Free, Job, Noted, Harvest, Fast, Rearm
<1> QED BY <1>1, <1>2, <1>3, <1>4 DEF SchedulerInv

\* A list that is read again finds every group that was told.
LEMMA ListKeeps ==
  ASSUME SchedulerInv, List
  PROVE  SchedulerInv'
<1>1. SchedulerTypeOK'
  <2> USE DEF SchedulerInv, SchedulerTypeOK, Job
  <2>1. due' \in [Job -> Time]
    BY DEF Time, List, hopes
  <2>2. wake' \in [Job -> BOOLEAN]
    BY DEF List, hopes
  <2>3. turn' \in Turns
    BY DEF Turns, Urgency, List, hopes
  <2>4. saved' \in Listing
    <3>1. /\ actual.enabled \in BOOLEAN
          /\ saved' \in {[enabled |-> actual.enabled, known |-> TRUE, moved |-> FALSE, listed |-> TRUE],
                       [saved EXCEPT !.listed = FALSE]}
      BY DEF SchedulerTypeOK, Account, List
    <3>2. CASE saved' = [enabled |-> actual.enabled, known |-> TRUE, moved |-> FALSE, listed |-> TRUE]
      BY <3>1, <3>2 DEF Listing
    <3>3. CASE saved' = [saved EXCEPT !.listed = FALSE]
      BY <3>3 DEF SchedulerTypeOK, Listing
    <3> QED BY <3>1, <3>2, <3>3
  <2> QED
    BY <2>1, <2>2, <2>3, <2>4 DEF List, hopes
<1>2. TurnsHold'
  BY DEF SchedulerInv, SchedulerTypeOK, TurnsHold, OwedIsKnown, BorrowedRuns, PassKnows,
         UrgentHasBatch, TurnsAreServed, HeldBack, Free, Job, NoChoice, List, hopes, Listing, Turns,
         Account
<1>3. LooksHold'
  BY DEF SchedulerInv, SchedulerTypeOK, LooksHold, OnlyWhenFree, NotedIsSignalled, MarkIsRight,
         Free, Job, Noted, List, hopes, Listing, Account, Wakes
<1>4. OpeningsHold'
  BY DEF SchedulerInv, SchedulerTypeOK, TurnsHold, LooksHold, OpeningsHold, SeenIsSignalled,
         PassHasLooked, OpeningIsTried, EveryOpeningIsTried, Occupied, Open, ReadDone, OnlyWhenFree,
         NotedIsSignalled, MarkIsRight, UrgentHasBatch, Free, Job, Noted, List, hopes, Listing,
         Turns, Account, Wakes
<1> QED BY <1>1, <1>2, <1>3, <1>4 DEF SchedulerInv

\* What a look at the newest quote does.
LEMMA LookEffect ==
  ASSUME SchedulerTypeOK, Look
  PROVE  /\ step = "look" /\ cycle'.next = cycle.next /\ cycle'.after = cycle.after
         /\ \/ /\ ~(offer.fresh /\ saved.enabled)
               /\ cycle'.seen = cycle.seen /\ cycle'.opp = "none" /\ cycle'.signal = "none"
               /\ chance' = "new" /\ step' = "take"
            \/ /\ ~Free("account")
               /\ cycle'.seen = cycle.seen /\ cycle'.opp = cycle.opp /\ cycle'.signal = cycle.signal
               /\ chance' = chance /\ step' = "take"
            \/ /\ Free("account") /\ backoff.account = "full"
               /\ cycle'.seen = cycle.seen /\ cycle'.opp = "none" /\ cycle'.signal = "none"
               /\ chance' = (IF cycle.seen = "same" THEN chance ELSE "new") /\ step' = "take"
            \/ /\ Free("account") /\ backoff.account # "full" /\ cycle.seen = "same"
               /\ cycle' = cycle /\ chance' = chance /\ step' = "take"
            \/ /\ Free("account") /\ backoff.account # "full" /\ saved.enabled /\ offer.fresh
               /\ cycle.seen # "same" /\ cycle'.seen = "same"
               /\ cycle'.opp = cycle.opp /\ cycle'.signal = cycle.signal
               /\ chance' = chance /\ step' = "compare"
            \/ /\ Free("account") /\ backoff.account # "full" /\ saved.enabled
               /\ ~(offer.chance /\ ~actual.intent)
               /\ cycle'.seen = "same" /\ cycle'.opp = "none" /\ cycle'.signal = "none"
               /\ chance' = "new" /\ step' = "take"
         /\ UNCHANGED <<running, due, borrowed, backoff, wake, turn, saved, actual, offer, pick, owed, events>>
<1> DEFINE forget == [cycle EXCEPT !.signal = "none", !.opp = "none"]
           looked == [cycle EXCEPT !.seen = "same"]
           busy   == [cycle EXCEPT !.deferred = @ \/ cycle.seen # "same"]
           plain  == [forget EXCEPT !.seen = "same"]
<1>1. /\ forget.next = cycle.next /\ forget.after = cycle.after /\ forget.seen = cycle.seen
      /\ forget.opp = "none" /\ forget.signal = "none"
      /\ looked.next = cycle.next /\ looked.after = cycle.after /\ looked.seen = "same"
      /\ looked.opp = cycle.opp /\ looked.signal = cycle.signal
      /\ busy.next = cycle.next /\ busy.after = cycle.after /\ busy.seen = cycle.seen
      /\ busy.opp = cycle.opp /\ busy.signal = cycle.signal
      /\ plain.next = cycle.next /\ plain.after = cycle.after /\ plain.seen = "same"
      /\ plain.opp = "none" /\ plain.signal = "none"
  BY DEF SchedulerTypeOK, Wakes
<1>2. /\ step = "look"
      /\ UNCHANGED <<running, due, borrowed, backoff, wake, turn, saved, actual, offer, pick, owed, events>>
      /\ \/ /\ ~(offer.fresh /\ saved.enabled)
            /\ cycle' = forget /\ chance' = "new" /\ step' = "take"
         \/ /\ offer.fresh /\ saved.enabled /\ ~Free("account")
            /\ cycle' = busy /\ step' = "take" /\ chance' = chance
         \/ /\ offer.fresh /\ saved.enabled /\ Free("account") /\ backoff.account = "full"
            /\ cycle' = forget /\ step' = "take"
            /\ chance' = IF cycle.seen = "same" THEN chance ELSE "new"
         \/ /\ offer.fresh /\ saved.enabled /\ Free("account") /\ backoff.account # "full"
            /\ \/ cycle.seen = "same" /\ step' = "take" /\ cycle' = cycle /\ chance' = chance
               \/ /\ cycle.seen # "same" /\ offer.chance /\ ~actual.intent
                  /\ cycle' = looked /\ step' = "compare" /\ chance' = chance
               \/ /\ cycle.seen # "same" /\ ~(offer.chance /\ ~actual.intent)
                  /\ cycle' = plain /\ chance' = "new" /\ step' = "take"
  BY DEF Look
<1> HIDE DEF forget, looked, busy, plain
<1> QED BY <1>1, <1>2


LEMMA LookKeeps ==
  ASSUME SchedulerInv, Look
  PROVE  SchedulerInv'
<1>1. SchedulerTypeOK'
  <2> USE DEF SchedulerInv, SchedulerTypeOK, Job
  <2>1. cycle' \in Wakes
    <3> DEFINE forget == [cycle EXCEPT !.signal = "none", !.opp = "none"]
    <3>1. cycle' \in {cycle, forget, [cycle EXCEPT !.seen = "same"], [forget EXCEPT !.seen = "same"]}
             \/ cycle' = [cycle EXCEPT !.deferred = @ \/ cycle.seen # "same"]
      BY DEF Look
    <3>2. cycle.deferred \in BOOLEAN
      BY DEF Wakes
    <3>3. [cycle EXCEPT !.deferred = @ \/ cycle.seen # "same"] \in Wakes
      BY <3>2 DEF Wakes
    <3>4. {cycle, forget, [cycle EXCEPT !.seen = "same"], [forget EXCEPT !.seen = "same"]} \subseteq Wakes
      BY DEF Wakes
    <3> QED BY <3>1, <3>3, <3>4
  <2>2. chance' \in Since
    BY DEF Since, Look
  <2> QED
    BY <2>1, <2>2 DEF Look
<1>2. TurnsHold'
  BY DEF SchedulerInv, SchedulerTypeOK, TurnsHold, OwedIsKnown, BorrowedRuns, PassKnows,
         UrgentHasBatch, TurnsAreServed, HeldBack, Free, Job, NoChoice, Look
<1>3. LooksHold'
  <2>1. SchedulerTypeOK /\ OnlyWhenFree /\ NotedIsSignalled
    BY DEF SchedulerInv, LooksHold
  <2>2. OnlyWhenFree'
    BY <2>1, LookEffect DEF OnlyWhenFree, Free
  <2>3. NotedIsSignalled'
    BY <2>1, LookEffect DEF OnlyWhenFree, NotedIsSignalled, Free
  <2>4. MarkIsRight'
    BY <2>1, LookEffect DEF MarkIsRight
  <2> QED BY <2>2, <2>3, <2>4 DEF LooksHold
<1>4. OpeningsHold'
  <2>1. SchedulerTypeOK /\ SeenIsSignalled /\ PassHasLooked
    BY DEF SchedulerInv, OpeningsHold
  <2>2. SeenIsSignalled'
    BY <2>1, LookEffect DEF SeenIsSignalled, Free, Open
  <2>3. PassHasLooked'
    BY <2>1, LookEffect DEF PassHasLooked, Free, Open
  <2>4. OpeningIsTried'
    BY <2>1, LookEffect DEF OpeningIsTried, EveryOpeningIsTried
  <2> QED BY <2>2, <2>3, <2>4 DEF OpeningsHold
<1> QED BY <1>1, <1>2, <1>3, <1>4 DEF SchedulerInv

LEMMA CompareKeeps ==
  ASSUME SchedulerInv, Compare
  PROVE  SchedulerInv'
<1>1. SchedulerTypeOK'
  <2> USE DEF SchedulerInv, SchedulerTypeOK, Job
  <2>1. cycle' \in Wakes
    BY DEF Wakes, Compare, hopes
  <2> QED
    BY <2>1 DEF Compare, hopes
<1>2. TurnsHold'
  BY DEF SchedulerInv, SchedulerTypeOK, TurnsHold, OwedIsKnown, BorrowedRuns, PassKnows,
         UrgentHasBatch, TurnsAreServed, HeldBack, Free, Job, NoChoice, Compare, hopes
<1>3. LooksHold'
  BY DEF SchedulerInv, SchedulerTypeOK, LooksHold, OnlyWhenFree, NotedIsSignalled, MarkIsRight,
         Free, Job, Noted, Compare, hopes
<1>4. OpeningsHold'
  BY DEF SchedulerInv, SchedulerTypeOK, TurnsHold, LooksHold, OpeningsHold, SeenIsSignalled,
         PassHasLooked, OpeningIsTried, EveryOpeningIsTried, Occupied, Open, ReadDone, OnlyWhenFree,
         NotedIsSignalled, MarkIsRight, UrgentHasBatch, Free, Job, Noted, Compare, hopes
<1> QED BY <1>1, <1>2, <1>3, <1>4 DEF SchedulerInv

\* What was published since the comparison is overwritten (the write at engine.py:514).
LEMMA MarkKeeps ==
  ASSUME SchedulerInv, Mark
  PROVE  SchedulerInv'
<1>1. SchedulerTypeOK'
  <2> USE DEF SchedulerInv, SchedulerTypeOK, Job
  <2>1. cycle' \in Wakes
    BY DEF Wakes, Mark, hopes
  <2> QED
    BY <2>1 DEF Mark, hopes
<1>2. TurnsHold'
  BY DEF SchedulerInv, SchedulerTypeOK, TurnsHold, OwedIsKnown, BorrowedRuns, PassKnows,
         UrgentHasBatch, TurnsAreServed, HeldBack, Free, Job, NoChoice, Mark, hopes
<1>3. LooksHold'
  BY DEF SchedulerInv, SchedulerTypeOK, LooksHold, OnlyWhenFree, NotedIsSignalled, MarkIsRight,
         Free, Job, Noted, Mark, hopes
<1>4. OpeningsHold'
  BY DEF SchedulerInv, SchedulerTypeOK, TurnsHold, LooksHold, OpeningsHold, SeenIsSignalled,
         PassHasLooked, OpeningIsTried, EveryOpeningIsTried, Occupied, Open, ReadDone, OnlyWhenFree,
         NotedIsSignalled, MarkIsRight, UrgentHasBatch, Free, Job, Noted, Mark, hopes, Wakes,
         Picks
<1> QED BY <1>1, <1>2, <1>3, <1>4 DEF SchedulerInv

\* The account is chosen by what stands when the wake-ups are taken.
LEMMA ChooseEffect ==
  ASSUME SchedulerTypeOK, Choose
  PROVE  /\ pick'.urgent = turn.urgent
         /\ pick'.prio # "no" => turn.prio # "no"
         /\ pick'.fast = (cycle.signal = "fresh" /\ ~cycle.after)
<1>1. PICK prio \in {turn.prio} \cup (IF turn.urgent THEN {"no"} ELSE {}) :
        pick' = [urgent |-> turn.urgent,
                 prio |-> IF prio = "low" /\ turn.throttled /\ ~turn.urgent THEN "no" ELSE prio,
                 fast |-> cycle.signal = "fresh" /\ ~cycle.after]
  BY DEF Choose
<1>2. pick'.prio # "no" => turn.prio # "no"
  BY <1>1
<1>3. pick'.urgent = turn.urgent /\ pick'.fast = (cycle.signal = "fresh" /\ ~cycle.after)
  BY <1>1
<1> QED BY <1>2, <1>3


LEMMA TakeWakesKeeps ==
  ASSUME SchedulerInv, TakeWakes
  PROVE  SchedulerInv'
<1>1. SchedulerTypeOK'
  <2> USE DEF SchedulerInv, SchedulerTypeOK, Job
  <2>1. due' \in [Job -> Time]
    BY DEF Time, TakeWakes, Choose, hopes
  <2>2. wake' \in [Job -> BOOLEAN]
    BY DEF TakeWakes, Choose, hopes
  <2>3. pick' \in Picks
    BY DEF Picks, Urgency, Turns, Wakes, NoChoice, TakeWakes, Choose, hopes
  <2> QED
    BY <2>1, <2>2, <2>3 DEF TakeWakes, Choose, hopes
<1>2. TurnsHold'
  BY DEF SchedulerInv, SchedulerTypeOK, TurnsHold, OwedIsKnown, BorrowedRuns, PassKnows,
         UrgentHasBatch, TurnsAreServed, HeldBack, Free, Job, NoChoice, TakeWakes, Choose, hopes
<1>3. LooksHold'
  BY DEF SchedulerInv, SchedulerTypeOK, LooksHold, OnlyWhenFree, NotedIsSignalled, MarkIsRight,
         Free, Job, Noted, TakeWakes, Choose, hopes
<1>4. OpeningsHold'
  <2>1. /\ SchedulerInv /\ Choose /\ step = "take" /\ step' = "start"
        /\ UNCHANGED <<running, borrowed, backoff, turn, saved, actual, offer, cycle, chance>>
    BY DEF TakeWakes, hopes
  <2>2. PassHasLooked'
    BY <2>1, ChooseEffect DEF SchedulerInv, OpeningsHold, PassHasLooked, Free, Open
  <2>3. SeenIsSignalled' /\ OpeningIsTried'
    BY <2>1 DEF SchedulerInv, OpeningsHold, SeenIsSignalled, OpeningIsTried, EveryOpeningIsTried, Free, Open
  <2> QED BY <2>2, <2>3 DEF OpeningsHold
<1> QED BY <1>1, <1>2, <1>3, <1>4 DEF SchedulerInv

\* Whoever is not held back is started, and an opening that stands is tried.
LEMMA StartTasksKeeps ==
  ASSUME SchedulerInv, StartTasks
  PROVE  SchedulerInv'
<1>1. SchedulerTypeOK'
  <2> USE DEF SchedulerInv, SchedulerTypeOK, Job
  <2>1. running' \in [Job -> Worker]
    BY DEF Worker, Free, StartTasks, ReadDone
  <2>2. borrowed' \in Time \cup {"no"}
    <3>1. borrowed' \in {borrowed, due["account"]}
      BY DEF StartTasks
    <3> QED BY <3>1 DEF SchedulerTypeOK, Time, Job
  <2>3. turn' \in Turns
    <3>1. /\ turn.paced \in BOOLEAN /\ turn.throttled \in BOOLEAN /\ turn.prio \in Urgency
          /\ pick.prio \in Urgency /\ "no" \in Urgency
      BY DEF SchedulerTypeOK, Turns, Picks, Urgency
    <3>2. PICK paced \in {turn.paced, TRUE} :
            LET prio     == pick.prio # "no"
                fast     == /\ pick.fast /\ ~pick.urgent /\ ~prio
                            /\ ~ReadDone /\ (due["account"] # "now" \/ paced)
                ordinary == ~pick.urgent /\ ~prio /\ ~fast
            IN  \/ turn' = [turn EXCEPT !.paced = paced]
                \/ turn' = [turn EXCEPT
                               !.active = pick.prio,
                               !.prio = IF prio THEN "no" ELSE @,
                               !.throttled = @ \/ (pick.prio = "low" /\ ~pick.urgent),
                               !.paced = paced \/ (~ReadDone /\ ~pick.urgent /\ (prio \/ ordinary))]
      BY DEF StartTasks
    <3>3. \E u, v \in Urgency : \E h, p \in BOOLEAN :
             turn' \in {[turn EXCEPT !.paced = p],
                       [turn EXCEPT !.active = u, !.prio = v, !.throttled = h, !.paced = p]}
      BY <3>1, <3>2
    <3> QED BY <3>3 DEF SchedulerTypeOK, Turns
  <2>4. cycle' \in Wakes
    <3>1. cycle' = cycle \/ \E a \in BOOLEAN : cycle' = [cycle EXCEPT !.signal = "none", !.after = a]
      <4>1. cycle.after \in BOOLEAN
        BY DEF SchedulerTypeOK, Wakes
      <4> QED BY <4>1 DEF StartTasks
    <3> QED BY <3>1 DEF SchedulerTypeOK, Wakes
  <2>5. pick' \in Picks
    BY DEF Picks, Urgency, Turns, Wakes, NoChoice, StartTasks, ReadDone
  <2>6. owed' \in [Job -> Since]
    BY DEF Since, StartTasks, ReadDone
  <2>7. chance' \in Since
    BY DEF Since, StartTasks, ReadDone
  <2> QED
    BY <2>1, <2>2, <2>3, <2>4, <2>5, <2>6, <2>7 DEF StartTasks, ReadDone
<1>2. TurnsHold'
  <2>1. OwedIsKnown'
    BY DEF SchedulerInv, SchedulerTypeOK, TurnsHold, OwedIsKnown, BorrowedRuns, Free, Job,
           StartTasks, ReadDone
  <2>2. BorrowedRuns'
    BY DEF SchedulerInv, SchedulerTypeOK, TurnsHold, BorrowedRuns, Free, Job, StartTasks, ReadDone
  <2>3. PassKnows'
    BY DEF SchedulerInv, SchedulerTypeOK, TurnsHold, OwedIsKnown, PassKnows, Free, Job, StartTasks,
           ReadDone
  <2>4. UrgentHasBatch'
    BY DEF SchedulerInv, SchedulerTypeOK, TurnsHold, UrgentHasBatch, NoChoice, Free, Job,
           StartTasks, ReadDone
  <2>5. SchedulerTypeOK /\ PassKnows /\ step = "start"
    BY DEF SchedulerInv, TurnsHold, StartTasks
  <2> USE <2>5 DEF SchedulerTypeOK, PassKnows, HeldBack, Free, Job, StartTasks
  <2>6. ASSUME owed'["hot"] = "old", Free("hot")' PROVE HeldBack("hot")'
    BY <2>6
  <2>7. ASSUME owed'["group"] = "old", Free("group")' PROVE HeldBack("group")'
    BY <2>7
  <2>8. ASSUME owed'["account"] = "old", Free("account")' PROVE HeldBack("account")'
    BY <2>8 DEF Turns
  <2>9. TurnsAreServed'
    BY <2>6, <2>7, <2>8 DEF TurnsAreServed
  <2> QED BY <2>1, <2>2, <2>3, <2>4, <2>9 DEF TurnsHold
<1>3. LooksHold'
  BY DEF SchedulerInv, SchedulerTypeOK, LooksHold, OnlyWhenFree, NotedIsSignalled, MarkIsRight,
         Free, Job, Noted, StartTasks, ReadDone
<1>4. OpeningsHold'
  <2>1. SchedulerTypeOK /\ SeenIsSignalled /\ PassHasLooked /\ OnlyWhenFree /\ UrgentHasBatch /\ step = "start"
    BY DEF SchedulerInv, OpeningsHold, LooksHold, TurnsHold, StartTasks
  <2>2. /\ step' = "wait" /\ UNCHANGED <<backoff, saved, actual, offer, due>>
        /\ cycle'.seen = cycle.seen /\ cycle'.opp = cycle.opp
        /\ cycle' = cycle \/ ~Free("account")'
    BY <2>1 DEF SchedulerTypeOK, Wakes, Free, Job, StartTasks
  <2>3. /\ chance' = chance \/ chance' = "no"
        /\ Free("account")' => Free("account") /\ cycle' = cycle
        /\ ~Free("account")' /\ Free("account") => chance' = "no"
    BY <2>1 DEF SchedulerTypeOK, Free, Job, StartTasks
  <2>4. SeenIsSignalled' /\ PassHasLooked'
    BY <2>1, <2>2, <2>3 DEF SeenIsSignalled, PassHasLooked, Open
  <2>5. ASSUME ~EveryOpeningIsTried' PROVE cycle'.opp = "slipped"
    <3> SUFFICES ASSUME cycle'.opp # "slipped" PROVE FALSE
      OBVIOUS
    <3>1. /\ Open /\ Free("account") /\ Free("account")' /\ chance = "old" /\ cycle' = cycle /\ ~ReadDone
          /\ backoff.account # "full" /\ ~cycle.after /\ cycle.signal = "fresh" /\ pick.fast /\ ~pick.urgent
      BY <2>1, <2>2, <2>3, <2>5 DEF EveryOpeningIsTried, Occupied, Open, ReadDone, SeenIsSignalled,
         PassHasLooked, UrgentHasBatch
    <3>2. backoff.account = "quote" => due["account"] # "now" /\ turn.prio = "no" /\ pick.prio = "no"
      BY <2>1, <2>2, <2>5, <3>1 DEF EveryOpeningIsTried, Occupied, PassHasLooked, SchedulerTypeOK, Turns, StartTasks
    <3> QED BY <2>1, <3>1, <3>2 DEF SchedulerTypeOK, Backoffs, Free, Job, ReadDone, StartTasks
  <2>6. OpeningIsTried'
    BY <2>5 DEF OpeningIsTried
  <2> QED BY <2>4, <2>6 DEF OpeningsHold
<1> QED BY <1>1, <1>2, <1>3, <1>4 DEF SchedulerInv

-----------------------------------------------------------------------------
(* The loop, and the theorem *)

LEMMA SchedulerStarts == SchedulerInit => SchedulerInv
<1> SUFFICES ASSUME SchedulerInit PROVE SchedulerInv
  OBVIOUS
<1>1. SchedulerTypeOK
  <2>1. running \in [Job -> Worker] /\ due \in [Job -> Time] /\ owed \in [Job -> Since]
    BY DEF SchedulerInit, Worker, Time, Since, Free
  <2>2. wake \in [Job -> BOOLEAN] /\ backoff \in Backoffs /\ turn \in Turns /\ saved \in Listing
    BY DEF SchedulerInit, Backoffs, Turns, Urgency, Listing, Free
  <2>3. actual \in Account /\ offer \in Offers /\ cycle \in Wakes /\ pick \in Picks
    BY DEF SchedulerInit, Account, Offers, Wakes, Picks, Urgency, NoChoice
  <2> QED BY <2>1, <2>2, <2>3, SchedulerBound DEF SchedulerInit, SchedulerTypeOK, Since, Time
<1>2. TurnsHold
  BY DEF SchedulerInit, TurnsHold, OwedIsKnown, BorrowedRuns, PassKnows, UrgentHasBatch, TurnsAreServed,
         Free, Job, NoChoice
<1>3. LooksHold /\ OpeningsHold
  BY DEF SchedulerInit, LooksHold, OnlyWhenFree, NotedIsSignalled, MarkIsRight, OpeningsHold,
         SeenIsSignalled, PassHasLooked, OpeningIsTried, EveryOpeningIsTried
<1> QED BY <1>1, <1>2, <1>3 DEF SchedulerInv

LEMMA SchedulerStutters ==
  ASSUME SchedulerInv, UNCHANGED schedulerVars
  PROVE  SchedulerInv'
<1>1. UNCHANGED <<step, running, due, borrowed, backoff, wake, turn, saved, actual, offer,
                  cycle, pick, owed, chance, events>>
  BY DEF schedulerVars
<1>2. SchedulerTypeOK' /\ TurnsHold'
  BY <1>1 DEF SchedulerInv, SchedulerTypeOK, TurnsHold, OwedIsKnown, BorrowedRuns, PassKnows,
              UrgentHasBatch, TurnsAreServed, HeldBack, Free
<1>3. LooksHold' /\ OpeningsHold'
  BY <1>1 DEF SchedulerInv, LooksHold, OnlyWhenFree, NotedIsSignalled, MarkIsRight, OpeningsHold,
              SeenIsSignalled, PassHasLooked, OpeningIsTried, EveryOpeningIsTried, Occupied, Open,
              ReadDone, Free
<1> QED BY <1>2, <1>3 DEF SchedulerInv

LEMMA SchedulerKept == SchedulerInv /\ [SchedulerNext]_schedulerVars => SchedulerInv'
<1> SUFFICES ASSUME SchedulerInv, [SchedulerNext]_schedulerVars PROVE SchedulerInv'
  OBVIOUS
<1>1. CASE Outside
  BY <1>1, NewQuoteKeeps, AgeKeeps, ElapseKeeps, ControlKeeps, AskAgainKeeps, GroupControlKeeps,
     HotNewsKeeps, CapacityKeeps DEF Outside
<1>2. CASE AccountSteps
  BY <1>2, ResumeKeeps, ReadEndsKeeps, ReadLandsKeeps, TurnWaitsKeeps, TurnSendsKeeps, TurnErrsKeeps,
     TurnSupersededKeeps, TurnUnavailableKeeps, TurnBreaksKeeps DEF AccountSteps
<1>3. CASE Publish \/ HotEnds \/ HotPauses \/ GroupEnds
  BY <1>3, PublishKeeps, HotEndsKeeps, HotPausesKeeps, GroupEndsKeeps
<1>4. CASE Loop
  BY <1>4, HarvestKeeps, ListKeeps, LookKeeps, CompareKeeps, MarkKeeps, TakeWakesKeeps, StartTasksKeeps
     DEF Loop
<1>5. CASE UNCHANGED schedulerVars
  BY <1>5, SchedulerStutters
<1> QED BY <1>1, <1>2, <1>3, <1>4, <1>5 DEF SchedulerNext

\* What the loop, its jobs and their workers know of one another holds at every
\* step of the loop, between any steps of the workers and the controls.
THEOREM SchedulerInvariant == SchedulerSpec => []SchedulerInv
<1>1. SchedulerInit => SchedulerInv
  BY SchedulerStarts
<1>2. SchedulerInv /\ [SchedulerNext]_schedulerVars => SchedulerInv'
  BY SchedulerKept
<1> QED BY <1>1, <1>2, PTL DEF SchedulerSpec

\* Every turn that is due or asked for, and every opening of the cycle, is taken
\* up by the next pass of the loop unless it is held back (engine.py, run), for
\* all three jobs together and any number of events.
THEOREM LoopForgetsNobody == SchedulerSpec => []NobodyIsForgotten
<1>1. SchedulerInv => NobodyIsForgotten
  BY DEF SchedulerInv, TurnsHold, OpeningsHold, NobodyIsForgotten
<1> QED BY <1>1, SchedulerInvariant, PTL

=============================================================================

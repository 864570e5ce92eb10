--------------------------- MODULE CapacityProof ----------------------------
(***************************************************************************)
(* Proofs about RateBudget and CapacityRelay: the weight this process uses *)
(* of the exchange's budget, and the age of the samples another host reads *)
(* for it.                                                                 *)
(***************************************************************************)
EXTENDS RateBudget, CapacityRelay, FiniteSetTheorems, SequenceTheorems, TLAPS

-----------------------------------------------------------------------------
(* Minutes *)

\* A moment lies in its minute.
LEMMA MinuteFacts ==
  ASSUME NEW t \in Nat
  PROVE  /\ MinuteOf(t) \in Nat /\ t % Minute \in 0 .. (Minute - 1)
         /\ Minute * MinuteOf(t) \in Nat /\ t = Minute * MinuteOf(t) + (t % Minute)
         /\ Minute * MinuteOf(t) <= t /\ t < Minute * MinuteOf(t) + Minute
  BY BudgetConstants DEF MinuteOf

LEMMA Scaled ==
  ASSUME NEW a \in Int, NEW b \in Int
  PROVE  /\ Minute * a \in Int
         /\ a <= b => Minute * a <= Minute * b
         /\ Minute * (a + b) = Minute * a + Minute * b
         /\ Minute * (a + 1) = Minute * a + Minute
         /\ Minute * a < Minute * b + Minute => a <= b
<1>1. a <= b => Minute * a <= Minute * b
  BY BudgetConstants
<1>2. Minute * (a + b) = Minute * a + Minute * b /\ Minute * (a + 1) = Minute * a + Minute
  BY BudgetConstants
<1>3. ASSUME b + 1 <= a PROVE Minute * b + Minute <= Minute * a
  <2>1. Minute * (a - (b + 1)) >= 0
    BY <1>3, BudgetConstants
  <2>2. Minute * (a - (b + 1)) = Minute * a - Minute * b - Minute
    BY BudgetConstants
  <2> QED BY <2>1, <2>2, BudgetConstants
<1>4. Minute * a < Minute * b + Minute => a <= b
  BY <1>3, BudgetConstants
<1> QED BY <1>1, <1>2, <1>4, BudgetConstants

\* Later moments lie in later minutes or in the same.
LEMMA MinuteOrder ==
  ASSUME NEW s \in Nat, NEW t \in Nat, s <= t
  PROVE  MinuteOf(s) <= MinuteOf(t)
<1>1. MinuteOf(s) \in Nat /\ MinuteOf(t) \in Nat
  BY MinuteFacts
<1>2. Minute * MinuteOf(s) <= s /\ Minute * MinuteOf(s) \in Nat
  BY MinuteFacts
<1>3. t < Minute * MinuteOf(t) + Minute /\ Minute * MinuteOf(t) \in Nat
  BY MinuteFacts
<1>4. Minute * MinuteOf(s) < Minute * MinuteOf(t) + Minute
  BY <1>2, <1>3, BudgetConstants
<1> QED BY <1>1, <1>4, Scaled

-----------------------------------------------------------------------------
(* Sizes *)

\* The requests a set of records speaks of.
Names(S) == {x.request : x \in S}

LEMMA NamesSize ==
  ASSUME NEW S, IsFiniteSet(S)
  PROVE  IsFiniteSet(Names(S)) /\ Cardinality(Names(S)) <= Cardinality(S)
<1> DEFINE f == [x \in S |-> x.request]
<1>1. f \in Surjection(S, Names(S))
  BY DEF Surjection, Names
<1> QED BY <1>1, FS_Surjection

\* Records that speak of different requests are as many as their requests.
LEMMA NamesInjective ==
  ASSUME NEW S, IsFiniteSet(S), \A x, y \in S : x.request = y.request => x = y
  PROVE  Cardinality(S) <= Cardinality(Names(S))
<1> DEFINE f == [x \in S |-> x.request]
<1>1. f \in Injection(S, Names(S))
  BY DEF Injection, IsInjective, Names
<1>2. IsFiniteSet(Names(S))
  BY NamesSize
<1> QED BY <1>1, <1>2, FS_Injection

LEMMA UnionSize ==
  ASSUME NEW S, NEW T, IsFiniteSet(S), IsFiniteSet(T)
  PROVE  /\ IsFiniteSet(S \cup T) /\ Cardinality(S \cup T) <= Cardinality(S) + Cardinality(T)
         /\ Cardinality(S) \in Nat /\ Cardinality(T) \in Nat /\ Cardinality(S \cup T) \in Nat
<1>1. IsFiniteSet(S \cup T) /\ Cardinality(S \cup T) = Cardinality(S) + Cardinality(T) - Cardinality(S \cap T)
  BY FS_Union
<1>2. IsFiniteSet(S \cap T)
  BY FS_Intersection
<1> QED BY <1>1, <1>2, FS_CardinalityType

-----------------------------------------------------------------------------
(* The inductive invariant of RateBudget *)

Requests == [pc : {"new", "reserved", "sent", "counted", "limited"}, class : Class \cup {"none"},
             stamp : Nat \cup {-1}, used : Nat]

BudgetTypes ==
    /\ time \in Nat /\ deadline \in Nat /\ minute \in Nat \cup {-1} /\ weight \in Nat
    /\ reported \in Nat /\ until \in Nat /\ foreign \in Nat
    /\ unreported \in SUBSET [at : Nat, request : Request] /\ IsFiniteSet(unreported)
    /\ request \in [Request -> Requests] /\ IsFiniteSet(Inflight)
    /\ served \in SUBSET [request : Request, class : Class] /\ IsFiniteSet(served)

\* What the exchange has counted in its minute, or may still count.
Used == Names(served) \cup Inflight
UsedBy(C) == Names({x \in served : x.class \in C}) \cup {r \in Inflight : request[r].class \in C}

\* The classes that must leave at least as much of the limit as c.
AtMost(c) == {d \in Class : Allowed(d) <= Allowed(c)}

\* A request is counted once, in the minute its answer is stamped with.
Stamps ==
    \A r \in Request :
        /\ request[r].pc \in {"reserved", "sent", "counted"} => request[r].class \in Class
        /\ request[r].pc \in {"reserved", "sent"} => r \notin Names(served)
        /\ request[r].pc = "counted" =>
              /\ request[r].stamp \in Nat /\ request[r].stamp <= time
              /\ r \in Names(served) => MinuteOf(request[r].stamp) = MinuteOf(time)

Distinct == \A x, y \in served : x.request = y.request => x = y

\* The exchange's minute, where it is known, is not ahead of the exchange, and
\* the local minute ends after it.
Clock == minute # -1 => minute <= MinuteOf(time) /\ Minute * (minute + 1) < deadline

\* A request counted in the current minute is under way, or was lost in this
\* minute, or an answer has told which minute it is.
Accounted ==
    \A n \in Names(served) :
        \/ n \in Inflight
        \/ \E y \in unreported : y.request = n /\ Minute * MinuteOf(time) <= y.at
        \/ minute = MinuteOf(time)

Estimated == time < deadline => Cardinality(Used) <= weight

Shares == \A c \in Class : Cardinality(UsedBy(AtMost(c))) <= Allowed(c)

BudgetInv ==
    /\ BudgetTypes
    /\ Stamps
    /\ Distinct
    /\ Clock
    /\ Accounted
    /\ Estimated
    /\ Shares

LEMMA UsedFacts ==
  ASSUME BudgetTypes, Stamps
  PROVE  /\ IsFiniteSet(Used) /\ Cardinality(Used) \in Nat
         /\ \A C \in SUBSET Class : /\ IsFiniteSet(UsedBy(C)) /\ UsedBy(C) \subseteq Used
                                   /\ Cardinality(UsedBy(C)) \in Nat
                                   /\ Cardinality(UsedBy(C)) <= Cardinality(Used)
<1>1. IsFiniteSet(Names(served))
  BY NamesSize DEF BudgetTypes
<1>2. IsFiniteSet(Used) /\ Cardinality(Used) \in Nat
  BY <1>1, UnionSize DEF Used, BudgetTypes
<1>3. ASSUME NEW C \in SUBSET Class
      PROVE  /\ IsFiniteSet(UsedBy(C)) /\ UsedBy(C) \subseteq Used /\ Cardinality(UsedBy(C)) \in Nat
             /\ Cardinality(UsedBy(C)) <= Cardinality(Used)
  <2>1. UsedBy(C) \in SUBSET Used
    BY DEF UsedBy, Used, Names
  <2> QED BY <1>2, <2>1, FS_Subset, FS_CardinalityType
<1> QED BY <1>2, <1>3

LEMMA UsedFactsNext ==
  ASSUME BudgetTypes', Stamps', NEW C \in SUBSET Class
  PROVE  Cardinality(UsedBy(C)') \in Nat /\ Cardinality(UsedBy(C)') <= Cardinality(Used')
<1>1. IsFiniteSet(Names(served)') /\ IsFiniteSet(Inflight')
  BY NamesSize DEF BudgetTypes, Names
<1>2. IsFiniteSet(Used')
  BY <1>1, UnionSize DEF Used
<1>3. UsedBy(C)' \in SUBSET Used'
  BY DEF UsedBy, Used, Names
<1> QED BY <1>2, <1>3, FS_Subset, FS_CardinalityType

LEMMA AllowedFacts ==
  /\ \A c \in Class : /\ Allowed(c) \in Nat /\ Allowed(c) <= Limit /\ AtMost(c) \in SUBSET Class
                     /\ c \in AtMost(c)
                     /\ \A d \in AtMost(c) : Allowed(d) <= Allowed(c)
  /\ Allowed("critical") = Limit /\ Allowed("monitor") = Limit - Reserve
  /\ Allowed("execution") = Limit - Reserve - CapacityReserve
  /\ AtMost("critical") = Class /\ {"monitor", "execution"} \subseteq AtMost("monitor")
<1>1. /\ Allowed("critical") = Limit /\ Allowed("monitor") = Limit - Reserve
      /\ Allowed("execution") = Limit - Reserve - CapacityReserve
  BY DEF Allowed
<1>2. \A c \in Class : Allowed(c) \in Nat /\ Allowed(c) <= Limit
  BY <1>1, BudgetConstants DEF Class
<1>3. Allowed("execution") <= Allowed("monitor")
  BY <1>1, BudgetConstants
<1> QED BY <1>1, <1>2, <1>3 DEF AtMost, Class

\* A step after which no more is used, counted or under way than before.
LEMMA NoMoreUsed ==
  ASSUME BudgetInv, BudgetTypes', Stamps', Distinct', Clock', Accounted',
         \A C \in SUBSET Class : UsedBy(C)' \subseteq UsedBy(C),
         time' < deadline' => Cardinality(Used') <= weight'
  PROVE  BudgetInv'
<1>1. ASSUME NEW c \in Class PROVE Cardinality(UsedBy(AtMost(c))') <= Allowed(c)
  <2>1. AtMost(c) \in SUBSET Class /\ Allowed(c) \in Nat
    BY AllowedFacts
  <2>2. IsFiniteSet(UsedBy(AtMost(c))) /\ Cardinality(UsedBy(AtMost(c))) <= Allowed(c)
    BY <2>1, UsedFacts DEF BudgetInv, Shares
  <2>3. UsedBy(AtMost(c))' \in SUBSET UsedBy(AtMost(c))
    BY <2>1
  <2>4. /\ IsFiniteSet(UsedBy(AtMost(c))')
        /\ Cardinality(UsedBy(AtMost(c))') <= Cardinality(UsedBy(AtMost(c)))
    BY <2>2, <2>3, FS_Subset
  <2> QED BY <2>1, <2>2, <2>4, FS_CardinalityType
<1>2. Shares'
  BY <1>1 DEF Shares, Allowed, AtMost
<1> QED BY <1>2 DEF BudgetInv, Estimated

\* One request changes its state.
LEMMA RequestMoves ==
  ASSUME BudgetTypes, NEW r \in Request, NEW q \in Requests, request' = [request EXCEPT ![r] = q]
  PROVE  /\ request' \in [Request -> Requests] /\ request'[r] = q
         /\ \A n \in Request : n # r => request'[n] = request[n]
         /\ Inflight' = IF q.pc \in {"reserved", "sent", "counted"} THEN Inflight \cup {r} ELSE Inflight \ {r}
         /\ IsFiniteSet(Inflight')
<1>1. /\ request' \in [Request -> Requests] /\ request'[r] = q
      /\ \A n \in Request : n # r => request'[n] = request[n]
  BY DEF BudgetTypes
<1>2. Inflight' = IF q.pc \in {"reserved", "sent", "counted"} THEN Inflight \cup {r} ELSE Inflight \ {r}
  BY <1>1 DEF Inflight
<1> QED BY <1>1, <1>2, FS_AddElement, FS_RemoveElement DEF BudgetTypes

-----------------------------------------------------------------------------
(* The estimate after _refresh *)

RefreshOK(R) ==
    /\ R \in [deadline : Nat, minute : Nat \cup {-1}, weight : Nat, reported : Nat]
    /\ time < R.deadline
    /\ R.minute # -1 => R.minute <= MinuteOf(time) /\ Minute * (R.minute + 1) < R.deadline
    /\ minute = MinuteOf(time) => R.minute = MinuteOf(time)
    /\ Cardinality(Used) <= R.weight

\* A local minute that is over passes the whole minutes that went by; the
\* exchange's minute, where it is known, is still not ahead.
LEMMA MinutesOver ==
  ASSUME NEW t \in Nat, NEW d \in Nat, d <= t
  PROVE  LET steps == (t - d) \div Minute + 1 IN
         /\ steps \in Nat /\ steps # 0 /\ d + steps * Minute \in Nat
         /\ t < d + steps * Minute
         /\ \A m \in Nat : Minute * (m + 1) < d =>
               /\ m + steps <= MinuteOf(t) /\ Minute * (m + steps + 1) < d + steps * Minute
               /\ m # MinuteOf(t)
<1> DEFINE k == (t - d) \div Minute
<1>1. t - d \in Nat /\ k = MinuteOf(t - d)
  BY DEF MinuteOf
<1>2. k \in Nat /\ Minute * k \in Nat /\ Minute * k <= t - d /\ t - d < Minute * k + Minute
  BY <1>1, MinuteFacts
<1>3. (k + 1) * Minute = Minute * k + Minute /\ (k + 1) * Minute \in Nat
  BY <1>2, BudgetConstants
<1> HIDE DEF k
<1>4. ASSUME NEW m \in Nat, Minute * (m + 1) < d
      PROVE  /\ m + (k + 1) <= MinuteOf(t) /\ Minute * (m + (k + 1) + 1) < d + (k + 1) * Minute
             /\ m # MinuteOf(t)
  <2>0. m + 1 \in Int /\ k \in Int /\ k + 1 \in Int
    BY <1>2
  <2>1. /\ Minute * (m + 1) \in Int /\ Minute * ((m + 1) + k) = Minute * (m + 1) + Minute * k
        /\ Minute * ((m + 1) + (k + 1)) = Minute * (m + 1) + Minute * (k + 1)
        /\ Minute * (k + 1) = Minute * k + Minute
    BY <2>0, Scaled
  <2>2. MinuteOf(t) \in Nat /\ Minute * MinuteOf(t) \in Nat /\ t < Minute * MinuteOf(t) + Minute
    BY MinuteFacts
  <2>3. Minute * ((m + 1) + k) < Minute * MinuteOf(t) + Minute
    BY <1>2, <1>4, <2>1, <2>2, BudgetConstants
  <2>4. (m + 1) + k <= MinuteOf(t)
    BY <1>2, <2>2, <2>3, Scaled
  <2>5. m + (k + 1) = (m + 1) + k /\ m + (k + 1) + 1 = (m + 1) + (k + 1)
    BY <1>2
  <2>6. Minute * ((m + 1) + (k + 1)) < d + (k + 1) * Minute
    BY <1>2, <1>3, <1>4, <2>1, BudgetConstants
  <2> QED BY <1>2, <2>2, <2>4, <2>5, <2>6
<1>5. k + 1 \in Nat /\ k + 1 # 0 /\ d + (k + 1) * Minute \in Nat /\ t < d + (k + 1) * Minute
  BY <1>2, <1>3
<1> QED BY <1>4, <1>5 DEF k

\* What was lost in the exchange's minute is carried along in it.
LEMMA KeptFacts ==
  ASSUME BudgetTypes
  PROVE  /\ Kept(unreported) \subseteq unreported /\ IsFiniteSet(Kept(unreported))
         /\ \A y \in unreported : Minute * MinuteOf(time) <= y.at => y \in Kept(unreported)
<1>1. Kept(unreported) \in SUBSET unreported
  BY DEF Kept
<1>2. IsFiniteSet(Kept(unreported))
  BY <1>1, FS_Subset DEF BudgetTypes
<1>3. ASSUME NEW y \in unreported, Minute * MinuteOf(time) <= y.at PROVE y \in Kept(unreported)
  <2>1. MinuteOf(time) \in Nat /\ Minute * MinuteOf(time) \in Nat /\ time < Minute * MinuteOf(time) + Minute
    BY MinuteFacts DEF BudgetTypes
  <2>2. y.at \in Nat /\ time \in Nat
    BY DEF BudgetTypes
  <2>3. y.at > time - Minute
    BY <1>3, <2>1, <2>2, BudgetConstants
  <2> QED BY <2>3 DEF Kept
<1> QED BY <1>1, <1>2, <1>3

\* Until an answer has told which minute it is, every request counted in it is
\* under way or known to be lost.
LEMMA Remembered ==
  ASSUME BudgetTypes, Accounted, minute # MinuteOf(time)
  PROVE  Names(served) \subseteq Inflight \cup Names(Kept(unreported))
<1> SUFFICES ASSUME NEW n \in Names(served), n \notin Inflight PROVE n \in Names(Kept(unreported))
  OBVIOUS
<1>1. PICK y \in unreported : y.request = n /\ Minute * MinuteOf(time) <= y.at
  BY DEF Accounted
<1>2. y \in Kept(unreported)
  BY <1>1, KeptFacts
<1> QED BY <1>1, <1>2 DEF Names

LEMMA RefreshFacts ==
  ASSUME BudgetInv
  PROVE  RefreshOK(Refreshed)
<1>1. CASE time < deadline
  BY <1>1, UsedFacts DEF Refreshed, Budget, RefreshOK, BudgetInv, BudgetTypes, Clock, Estimated
<1>2. CASE ~(time < deadline)
  <2> DEFINE steps == (time - deadline) \div Minute + 1
  <2>1. time \in Nat /\ deadline \in Nat /\ deadline <= time /\ minute \in Nat \cup {-1}
    BY <1>2 DEF BudgetInv, BudgetTypes
  <2>2. /\ steps \in Nat /\ deadline + steps * Minute \in Nat /\ time < deadline + steps * Minute
        /\ \A m \in Nat : Minute * (m + 1) < deadline =>
              /\ m + steps <= MinuteOf(time) /\ Minute * (m + steps + 1) < deadline + steps * Minute
              /\ m # MinuteOf(time)
    BY <2>1, MinutesOver
  <2>3. minute # -1 => minute \in Nat /\ Minute * (minute + 1) < deadline
    BY <2>1 DEF BudgetInv, Clock
  <2>4. MinuteOf(time) \in Nat /\ Minute * MinuteOf(time) \in Nat /\ time < Minute * MinuteOf(time) + Minute
    BY <2>1, MinuteFacts
  <2>5. minute # MinuteOf(time)
    BY <2>2, <2>3, <2>4
  <2>6. IsFiniteSet(Kept(unreported)) /\ IsFiniteSet(Inflight)
    BY KeptFacts DEF BudgetInv, BudgetTypes
  <2>7. Used \subseteq Inflight \cup Names(Kept(unreported))
    BY <2>5, Remembered DEF Used, BudgetInv
  <2>8. IsFiniteSet(Names(Kept(unreported))) /\ Cardinality(Names(Kept(unreported))) <= Cardinality(Kept(unreported))
    BY <2>6, NamesSize
  <2>9. /\ IsFiniteSet(Inflight \cup Names(Kept(unreported)))
        /\ Cardinality(Inflight \cup Names(Kept(unreported))) <= Cardinality(Inflight) + Cardinality(Names(Kept(unreported)))
    BY <2>6, <2>8, UnionSize
  <2>10. Cardinality(Used) <= Cardinality(Inflight \cup Names(Kept(unreported)))
    BY <2>7, <2>9, FS_Subset
  <2>11. /\ Cardinality(Used) \in Nat /\ Cardinality(Inflight) \in Nat
         /\ Cardinality(Kept(unreported)) \in Nat /\ Cardinality(Names(Kept(unreported))) \in Nat
         /\ Cardinality(Inflight \cup Names(Kept(unreported))) \in Nat
    BY <2>6, <2>8, <2>9, UsedFacts, FS_CardinalityType DEF BudgetInv
  <2>12. Cardinality(Used) <= Carry(Inflight, unreported) /\ Carry(Inflight, unreported) \in Nat
    BY <2>8, <2>9, <2>10, <2>11 DEF Carry
  <2>13. Refreshed = [deadline |-> deadline + steps * Minute,
                      minute   |-> IF minute = -1 THEN -1 ELSE minute + steps,
                      weight   |-> Carry(Inflight, unreported), reported |-> 0]
    BY <1>2 DEF Refreshed
  <2> HIDE DEF steps
  <2> QED BY <2>2, <2>3, <2>5, <2>12, <2>13 DEF RefreshOK
<1> QED BY <1>1, <1>2

-----------------------------------------------------------------------------
(* The steps *)

LEMMA BudgetInvInit == BudgetInit => BudgetInv
<1> SUFFICES ASSUME BudgetInit PROVE BudgetInv
  OBVIOUS
<1>1. Inflight = {} /\ served = {} /\ Names(served) = {}
  BY DEF BudgetInit, Inflight, New, Names
<1>2. BudgetTypes
  BY <1>1, FS_EmptySet, BudgetConstants DEF BudgetInit, BudgetTypes, Requests, New
<1>3. Stamps /\ Distinct /\ Clock /\ Accounted
  BY <1>1 DEF BudgetInit, Stamps, Distinct, Clock, Accounted, New
<1>4. Used = {} /\ \A C : UsedBy(C) = {}
  BY <1>1 DEF Used, UsedBy, Names
<1>5. Estimated
  BY <1>4, FS_EmptySet DEF Estimated, BudgetInit
<1>6. Shares
  BY <1>4, FS_EmptySet, AllowedFacts DEF Shares
<1> QED BY <1>2, <1>3, <1>5, <1>6 DEF BudgetInv

\* What the exchange counted of a minute that is over no longer matters.
LEMMA NextSecondInv == ASSUME BudgetInv, NextSecond PROVE BudgetInv'
<1>1. /\ time' = time + 1 /\ time \in Nat /\ time' \in Nat /\ foreign' \in Nat
      /\ UNCHANGED <<local, request, spent>> /\ UNCHANGED <<deadline, minute, weight, reported, until, unreported>>
      /\ served' = {} \/ (served' = served /\ MinuteOf(time') = MinuteOf(time))
  BY DEF NextSecond, local, BudgetInv, BudgetTypes
<1>2. Inflight' = Inflight /\ Names(served') \subseteq Names(served)
  BY <1>1 DEF Inflight, Names
<1>3. BudgetTypes'
  <2>1. served' \in SUBSET [request : Request, class : Class] /\ IsFiniteSet(served')
    BY <1>1, FS_EmptySet DEF BudgetInv, BudgetTypes
  <2> QED BY <1>1, <1>2, <2>1 DEF BudgetInv, BudgetTypes
<1>4. MinuteOf(time) <= MinuteOf(time') /\ MinuteOf(time) \in Nat /\ MinuteOf(time') \in Nat
  <2>1. time <= time'
    BY <1>1
  <2> QED BY <1>1, <2>1, MinuteOrder, MinuteFacts
<1>5. Stamps'
  BY <1>1, <1>2 DEF BudgetInv, Stamps, Names
<1>6. Distinct' /\ Accounted'
  BY <1>1, <1>2 DEF BudgetInv, Distinct, Accounted, Names
<1>7. Clock'
  BY <1>1, <1>4 DEF BudgetInv, BudgetTypes, Clock
<1>8. \A C \in SUBSET Class : UsedBy(C)' \subseteq UsedBy(C)
  BY <1>1, <1>2 DEF UsedBy, Names
<1>9. time' < deadline' => Cardinality(Used') <= weight'
  <2>1. Used' \in SUBSET Used
    BY <1>2 DEF Used
  <2>2. /\ IsFiniteSet(Used) /\ Cardinality(Used') \in Nat /\ Cardinality(Used) \in Nat
        /\ Cardinality(Used') <= Cardinality(Used)
    BY <2>1, UsedFacts, FS_Subset, FS_CardinalityType DEF BudgetInv
  <2> QED BY <1>1, <2>2 DEF BudgetInv, BudgetTypes, Estimated
<1> QED BY <1>3, <1>5, <1>6, <1>7, <1>8, <1>9, NoMoreUsed

LEMMA OthersUseInv == ASSUME BudgetInv, OthersUse PROVE BudgetInv'
<1>1. foreign' \in Nat /\ UNCHANGED <<time, deadline, minute, weight, reported, until, unreported, request, served, spent>>
  BY DEF OthersUse, local, BudgetInv, BudgetTypes
<1>2. Inflight' = Inflight /\ Used' = Used /\ \A C : UsedBy(C)' = UsedBy(C)
  BY <1>1 DEF Inflight, Used, UsedBy, Names
<1> QED BY <1>1, <1>2 DEF BudgetInv, BudgetTypes, Stamps, Distinct, Clock, Accounted, Estimated,
                         Shares, Names, AtMost, Allowed

\* A look at the estimate refreshes it.
LEMMA BecomeFacts ==
  ASSUME NEW b, b \in [deadline : Nat, minute : Nat \cup {-1}, weight : Nat, reported : Nat], Become(b)
  PROVE  /\ deadline' = b.deadline /\ minute' = b.minute /\ weight' = b.weight /\ reported' = b.reported
         /\ deadline' \in Nat /\ minute' \in Nat \cup {-1} /\ weight' \in Nat /\ reported' \in Nat
  BY DEF Become

LEMMA LookInv == ASSUME BudgetInv, Look PROVE BudgetInv'
<1>1. RefreshOK(Refreshed) /\ Become(Refreshed)
  BY RefreshFacts DEF Look
<1> HIDE DEF Refreshed
<1>2. UNCHANGED <<time, until, unreported, request, served, foreign, spent>>
  BY DEF Look
<1>3. /\ deadline' = Refreshed.deadline /\ minute' = Refreshed.minute /\ weight' = Refreshed.weight
      /\ deadline' \in Nat /\ minute' \in Nat \cup {-1} /\ weight' \in Nat /\ reported' \in Nat
  BY <1>1, BecomeFacts DEF RefreshOK
<1>4. Inflight' = Inflight /\ Used' = Used /\ \A C : UsedBy(C)' = UsedBy(C)
  BY <1>2 DEF Inflight, Used, UsedBy, Names
<1>5. Clock' /\ Accounted'
  BY <1>1, <1>2, <1>3, <1>4 DEF RefreshOK, Clock, BudgetInv, Accounted, Names
<1>6. BudgetTypes' /\ Stamps' /\ Distinct'
  BY <1>2, <1>3, <1>4 DEF BudgetInv, BudgetTypes, Stamps, Distinct, Names
<1>7. Cardinality(Used') <= weight'
  BY <1>1, <1>3, <1>4 DEF RefreshOK
<1> QED BY <1>4, <1>5, <1>6, <1>7, NoMoreUsed

LEMMA AdmitInv ==
  ASSUME BudgetInv, NEW r \in Request, NEW c \in Class, Admit(r, c)
  PROVE  BudgetInv'
<1> DEFINE R == Refreshed
           q == [New EXCEPT !.pc = "reserved", !.class = c]
<1>1. RefreshOK(R)
  BY RefreshFacts
<1>2. Become([R EXCEPT !.weight = @ + 1]) /\ R.weight + 1 <= Allowed(c)
  BY DEF Admit, Admissible
<1> HIDE DEF R
<1>3. /\ deadline' = R.deadline /\ minute' = R.minute /\ weight' = R.weight + 1 /\ reported' = R.reported
      /\ R.deadline \in Nat /\ R.minute \in Nat \cup {-1} /\ R.weight \in Nat /\ R.reported \in Nat
  BY <1>1, <1>2 DEF RefreshOK, Become
<1>4. /\ UNCHANGED <<time, until, served, foreign, spent>> /\ unreported' = Kept(unreported)
      /\ request[r] = New /\ request' = [request EXCEPT ![r] = q]
      /\ r \notin Names(served) /\ r \notin Inflight
  <2>1. UNCHANGED <<time, until, served, foreign, spent>> /\ unreported' = Kept(unreported) /\ request[r] = New
    BY DEF Admit, Unused
  <2>2. r \notin Names(served)
    BY DEF Admit, Unused, Names
  <2>3. r \notin Inflight
    BY <2>1 DEF Inflight, New
  <2>4. request' = [request EXCEPT ![r] = q]
    BY <2>1 DEF Admit, BudgetInv, BudgetTypes
  <2> QED BY <2>1, <2>2, <2>3, <2>4
<1>5. q \in Requests /\ q.pc = "reserved" /\ q.class = c
  BY DEF Requests, New
<1> HIDE DEF q
<1>6. /\ request' \in [Request -> Requests] /\ request'[r] = q
      /\ \A n \in Request : n # r => request'[n] = request[n]
      /\ Inflight' = Inflight \cup {r} /\ IsFiniteSet(Inflight')
  BY <1>4, <1>5, RequestMoves DEF BudgetInv
<1>7. BudgetTypes'
  BY <1>3, <1>4, <1>6, KeptFacts DEF BudgetInv, BudgetTypes
<1>8. Stamps' /\ Distinct'
  BY <1>4, <1>5, <1>6 DEF BudgetInv, Stamps, Distinct, Names
<1>9. Clock'
  BY <1>1, <1>3, <1>4 DEF Clock, RefreshOK
<1>10. Accounted'
  <2>1. Names(served)' = Names(served)
    BY <1>4 DEF Names
  <2>2. \A y \in unreported : Minute * MinuteOf(time) <= y.at => y \in unreported'
    BY <1>4, KeptFacts DEF BudgetInv
  <2>3. minute = MinuteOf(time) => minute' = MinuteOf(time)
    BY <1>1, <1>3 DEF RefreshOK
  <2> QED BY <1>4, <1>6, <2>1, <2>2, <2>3 DEF BudgetInv, Accounted
<1>11. /\ IsFiniteSet(Used) /\ Used' = Used \cup {r} /\ Cardinality(Used') \in Nat
       /\ Cardinality(Used') <= R.weight + 1
  <2>1. Used' = Used \cup {r}
    BY <1>4, <1>6 DEF Used, Names
  <2>2. IsFiniteSet(Used) /\ Cardinality(Used) \in Nat /\ Cardinality(Used) <= R.weight
    BY <1>1, UsedFacts DEF BudgetInv, RefreshOK
  <2>3. Cardinality(Used \cup {r}) \in Nat /\ Cardinality(Used \cup {r}) <= Cardinality(Used) + 1
    <3>1. CASE r \in Used
      <4>1. Used \cup {r} = Used
        BY <3>1
      <4> QED BY <2>2, <4>1
    <3>2. CASE r \notin Used
      <4>1. Cardinality(Used \cup {r}) = Cardinality(Used) + 1
        BY <2>2, <3>2, FS_AddElement, Zenon
      <4> QED BY <2>2, <4>1
    <3> QED BY <3>1, <3>2
  <2> QED BY <1>3, <2>1, <2>2, <2>3
<1>12. ASSUME NEW d \in Class PROVE Cardinality(UsedBy(AtMost(d))') <= Allowed(d)
  <2>1. CASE c \in AtMost(d)
    <3>1. Allowed(c) \in Nat /\ Allowed(d) \in Nat /\ Allowed(c) <= Allowed(d) /\ AtMost(d) \in SUBSET Class
      BY <2>1, AllowedFacts
    <3>2. Cardinality(UsedBy(AtMost(d))') \in Nat /\ Cardinality(UsedBy(AtMost(d))') <= Cardinality(Used')
      BY <1>7, <1>8, <3>1, UsedFactsNext
    <3> QED BY <1>2, <1>3, <1>11, <3>1, <3>2
  <2>2. CASE c \notin AtMost(d)
    <3>1. UsedBy(AtMost(d))' = UsedBy(AtMost(d))
      BY <1>4, <1>5, <1>6, <2>2 DEF UsedBy, Names
    <3> QED BY <3>1 DEF BudgetInv, Shares
  <2> QED BY <2>1, <2>2
<1>13. Estimated' /\ Shares'
  BY <1>3, <1>11, <1>12 DEF Estimated, Shares, AtMost, Allowed
<1> QED BY <1>7, <1>8, <1>9, <1>10, <1>13 DEF BudgetInv

\* A request that is over leaves; one that was counted stays counted.
LEMMA Leaves ==
  ASSUME BudgetInv, NEW r \in Request, NEW q \in Requests, q.pc \in {"new", "limited"},
         request' = [request EXCEPT ![r] = q], served' = served, time' = time
  PROVE  /\ request' \in [Request -> Requests]
         /\ Inflight' = Inflight \ {r} /\ IsFiniteSet(Inflight') /\ Names(served)' = Names(served)
         /\ Stamps' /\ Distinct'
         /\ Used' = Names(served) \cup (Inflight \ {r}) /\ Used' \subseteq Used
         /\ IsFiniteSet(Used) /\ Cardinality(Used) \in Nat /\ Cardinality(Used') \in Nat
         /\ Cardinality(Used') <= Cardinality(Used)
         /\ \A C \in SUBSET Class : UsedBy(C)' \subseteq UsedBy(C)
<1>1. /\ request' \in [Request -> Requests] /\ request'[r] = q
      /\ \A n \in Request : n # r => request'[n] = request[n]
      /\ Inflight' = Inflight \ {r} /\ IsFiniteSet(Inflight')
  BY RequestMoves DEF BudgetInv
<1>2. Names(served)' = Names(served)
  BY DEF Names
<1>3. Stamps' /\ Distinct'
  BY <1>1, <1>2 DEF BudgetInv, Stamps, Distinct
<1>4. Used' = Names(served) \cup (Inflight \ {r}) /\ Used' \in SUBSET Used
  BY <1>1, <1>2 DEF Used
<1>5. /\ IsFiniteSet(Used) /\ Cardinality(Used) \in Nat /\ Cardinality(Used') \in Nat
      /\ Cardinality(Used') <= Cardinality(Used)
  BY <1>4, UsedFacts, FS_Subset, FS_CardinalityType DEF BudgetInv
<1>6. \A C \in SUBSET Class : UsedBy(C)' \subseteq UsedBy(C)
  BY <1>1 DEF UsedBy, Names, Inflight
<1> QED BY <1>1, <1>2, <1>3, <1>4, <1>5, <1>6

LEMMA CancelUnstartedInv ==
  ASSUME BudgetInv, NEW r \in Request, CancelUnstarted(r)
  PROVE  BudgetInv'
<1> DEFINE R == Refreshed
           b == [R EXCEPT !.weight = Larger(R.reported, R.weight - 1)]
<1>1. RefreshOK(R)
  BY RefreshFacts
<1>2. Become(b) /\ request[r].pc = "reserved" /\ request' = [request EXCEPT ![r] = New]
      /\ UNCHANGED <<time, until, unreported, served, foreign, spent>>
  BY DEF CancelUnstarted
<1> HIDE DEF R
<1>3. R.weight \in Nat /\ R.reported \in Nat
  BY <1>1 DEF RefreshOK
<1>4. Larger(R.reported, R.weight - 1) \in Nat /\ R.weight - 1 <= Larger(R.reported, R.weight - 1)
  BY <1>3 DEF Larger
<1>5. /\ deadline' = R.deadline /\ minute' = R.minute /\ weight' = b.weight /\ reported' = R.reported
      /\ deadline' \in Nat /\ minute' \in Nat \cup {-1} /\ weight' \in Nat /\ reported' \in Nat
      /\ R.weight - 1 <= weight'
  BY <1>1, <1>2, <1>4 DEF RefreshOK, Become
<1>6. New \in Requests /\ New.pc = "new"
  BY DEF New, Requests
<1>7. /\ request' \in [Request -> Requests]
      /\ Inflight' = Inflight \ {r} /\ IsFiniteSet(Inflight') /\ Names(served)' = Names(served)
      /\ Stamps' /\ Distinct' /\ Used' = Names(served) \cup (Inflight \ {r})
      /\ \A C \in SUBSET Class : UsedBy(C)' \subseteq UsedBy(C)
  BY <1>2, <1>6, Leaves
<1>8. r \in Inflight /\ r \notin Names(served)
  BY <1>2 DEF Inflight, BudgetInv, Stamps
<1>9. BudgetTypes'
  BY <1>2, <1>5, <1>7 DEF BudgetInv, BudgetTypes
<1>10. Clock' /\ Accounted'
  BY <1>1, <1>2, <1>5, <1>7, <1>8 DEF RefreshOK, Clock, BudgetInv, Accounted
<1>11. Cardinality(Used') <= weight'
  <2>1. Used' = Used \ {r} /\ r \in Used
    BY <1>7, <1>8 DEF Used
  <2>2. IsFiniteSet(Used) /\ Cardinality(Used) \in Nat /\ Cardinality(Used) <= R.weight
    BY <1>1, UsedFacts DEF BudgetInv, RefreshOK
  <2>3. Cardinality(Used \ {r}) = Cardinality(Used) - 1
    BY <2>1, <2>2, FS_RemoveElement, Zenon
  <2> QED BY <1>3, <1>5, <2>1, <2>2, <2>3
<1> QED BY <1>7, <1>9, <1>10, <1>11, NoMoreUsed

LEMMA DispatchInv ==
  ASSUME BudgetInv, NEW r \in Request, Dispatch(r)
  PROVE  BudgetInv'
<1> DEFINE q == [request[r] EXCEPT !.pc = "sent"]
<1>1. /\ request[r].pc = "reserved" /\ request' = [request EXCEPT ![r] = q]
      /\ UNCHANGED <<time, deadline, minute, weight, reported, until, unreported, served, foreign, spent>>
  BY DEF Dispatch, local, BudgetInv, BudgetTypes
<1>2. q \in Requests /\ q.pc = "sent" /\ q.class = request[r].class
  BY DEF BudgetInv, BudgetTypes, Requests
<1> HIDE DEF q
<1>3. /\ request' \in [Request -> Requests] /\ request'[r] = q
      /\ \A n \in Request : n # r => request'[n] = request[n]
      /\ Inflight' = Inflight \cup {r} /\ IsFiniteSet(Inflight') /\ r \in Inflight
  BY <1>1, <1>2, RequestMoves DEF BudgetInv, Inflight
<1>4. Inflight' = Inflight /\ Names(served)' = Names(served) /\ Used' = Used
  BY <1>1, <1>3 DEF Names, Used
<1>5. \A C \in SUBSET Class : UsedBy(C)' = UsedBy(C)
  BY <1>1, <1>2, <1>3, <1>4 DEF UsedBy, Names
<1>6. BudgetTypes' /\ Stamps' /\ Distinct' /\ Clock' /\ Accounted'
  BY <1>1, <1>2, <1>3, <1>4 DEF BudgetInv, BudgetTypes, Stamps, Distinct, Clock, Accounted
<1> QED BY <1>1, <1>4, <1>5, <1>6, NoMoreUsed DEF BudgetInv, Estimated

LEMMA CountInv ==
  ASSUME BudgetInv, NEW r \in Request, Count(r)
  PROVE  BudgetInv'
<1> DEFINE z == [request |-> r, class |-> request[r].class]
           q == [request[r] EXCEPT !.pc = "counted", !.stamp = time, !.used = Cardinality(served') + foreign]
<1>1. /\ request[r].pc = "sent" /\ served' = served \cup {z} /\ request' = [request EXCEPT ![r] = q]
      /\ UNCHANGED <<time, deadline, minute, weight, reported, until, unreported, foreign, spent>>
  BY DEF Count, local, BudgetInv, BudgetTypes
<1>2. r \in Inflight /\ r \notin Names(served) /\ request[r].class \in Class
  BY <1>1 DEF BudgetInv, Stamps, Inflight
<1>3. z \in [request : Request, class : Class] /\ z.request = r /\ z.class = request[r].class
  BY <1>2
<1> HIDE DEF z
<1>4. served' \in SUBSET [request : Request, class : Class] /\ IsFiniteSet(served')
  BY <1>1, <1>3, FS_AddElement DEF BudgetInv, BudgetTypes
<1>5. Cardinality(served') + foreign \in Nat
  BY <1>4, FS_CardinalityType DEF BudgetInv, BudgetTypes
<1>6. q \in Requests /\ q.pc = "counted" /\ q.class = request[r].class /\ q.stamp = time
  BY <1>5 DEF BudgetInv, BudgetTypes, Requests
<1> HIDE DEF q
<1>7. /\ request' \in [Request -> Requests] /\ request'[r] = q
      /\ \A n \in Request : n # r => request'[n] = request[n]
      /\ Inflight' = Inflight \cup {r} /\ IsFiniteSet(Inflight')
  BY <1>1, <1>6, RequestMoves DEF BudgetInv
<1>8. Inflight' = Inflight /\ Names(served') = Names(served) \cup {r} /\ Used' = Used
  BY <1>1, <1>2, <1>3, <1>7 DEF Names, Used
<1>9. ASSUME NEW C \in SUBSET Class PROVE UsedBy(C)' \subseteq UsedBy(C)
  <2>1. Names({x \in served' : x.class \in C}) \subseteq
           Names({x \in served : x.class \in C}) \cup {n \in Inflight : request[n].class \in C}
    BY <1>1, <1>2, <1>3 DEF Names
  <2>2. {n \in Inflight' : request'[n].class \in C} = {n \in Inflight : request[n].class \in C}
    BY <1>6, <1>7, <1>8 DEF Inflight
  <2> QED BY <2>1, <2>2 DEF UsedBy
<1>10. BudgetTypes' /\ Clock'
  BY <1>1, <1>4, <1>7 DEF BudgetInv, BudgetTypes, Clock
<1>11. Stamps'
  <2>1. time \in Nat
    BY DEF BudgetInv, BudgetTypes
  <2>2. ASSUME NEW n \in Request, n # r
        PROVE  request'[n] = request[n] /\ (n \in Names(served') <=> n \in Names(served))
    BY <1>7, <1>8, <2>2
  <2>3. q.stamp \in Nat /\ q.stamp <= time /\ q.class \in Class
    BY <1>2, <1>6, <2>1
  <2> QED BY <1>1, <1>6, <1>7, <2>2, <2>3 DEF BudgetInv, Stamps
<1>12. Distinct'
  BY <1>1, <1>2, <1>3 DEF BudgetInv, Distinct, Names
<1>13. Accounted'
  BY <1>1, <1>2, <1>8 DEF BudgetInv, Accounted
<1> QED BY <1>1, <1>8, <1>9, <1>10, <1>11, <1>12, <1>13, NoMoreUsed DEF BudgetInv, Estimated

LEMMA LoseInv ==
  ASSUME BudgetInv, NEW r \in Request, Lose(r)
  PROVE  BudgetInv'
<1> DEFINE y == [at |-> time, request |-> r]
<1>1. /\ request' = [request EXCEPT ![r] = New] /\ unreported' = Kept(unreported) \cup {y}
      /\ UNCHANGED <<time, deadline, minute, weight, reported, until, served, foreign>>
  BY DEF Lose
<1>2. New \in Requests /\ New.pc = "new"
  BY DEF New, Requests
<1>3. y \in [at : Nat, request : Request] /\ y.at = time /\ y.request = r
  BY DEF BudgetInv, BudgetTypes
<1> HIDE DEF y
<1>4. /\ request' \in [Request -> Requests]
      /\ Inflight' = Inflight \ {r} /\ IsFiniteSet(Inflight') /\ Names(served)' = Names(served)
      /\ Stamps' /\ Distinct'
      /\ Cardinality(Used) \in Nat /\ Cardinality(Used') \in Nat
      /\ Cardinality(Used') <= Cardinality(Used)
      /\ \A C \in SUBSET Class : UsedBy(C)' \subseteq UsedBy(C)
  BY <1>1, <1>2, Leaves
<1>5. BudgetTypes'
  <2>1. unreported' \in SUBSET [at : Nat, request : Request] /\ IsFiniteSet(unreported')
    BY <1>1, <1>3, KeptFacts, FS_AddElement DEF BudgetInv, BudgetTypes
  <2> QED BY <1>1, <1>4, <2>1 DEF BudgetInv, BudgetTypes
<1>6. Accounted'
  <2>1. Minute * MinuteOf(time) <= time
    BY MinuteFacts DEF BudgetInv, BudgetTypes
  <2>2. \A x \in unreported : Minute * MinuteOf(time) <= x.at => x \in unreported'
    BY <1>1, KeptFacts DEF BudgetInv
  <2> QED BY <1>1, <1>3, <1>4, <2>1, <2>2 DEF BudgetInv, Accounted
<1>7. Clock'
  BY <1>1 DEF BudgetInv, Clock
<1>8. time' < deadline' => Cardinality(Used') <= weight'
  BY <1>1, <1>4 DEF BudgetInv, Estimated, BudgetTypes
<1> QED BY <1>4, <1>5, <1>6, <1>7, <1>8, NoMoreUsed

LEMMA BlockInv ==
  ASSUME BudgetInv, NEW r \in Request, Block(r)
  PROVE  BudgetInv'
<1>1. /\ request' = [request EXCEPT ![r] = New] /\ request[r].pc = "limited" /\ until' \in Nat
      /\ UNCHANGED <<time, deadline, minute, weight, reported, unreported, served, foreign, spent>>
  <2>1. PICK d \in Delay : until' = Larger(until, time + d)
    BY DEF Block
  <2>2. d \in Nat /\ until \in Nat /\ time \in Nat
    BY BudgetConstants DEF BudgetInv, BudgetTypes
  <2> QED BY <2>1, <2>2 DEF Block, Larger
<1>2. New \in Requests /\ New.pc = "new"
  BY DEF New, Requests
<1>3. /\ request' \in [Request -> Requests]
      /\ Inflight' = Inflight \ {r} /\ IsFiniteSet(Inflight') /\ Names(served)' = Names(served)
      /\ Stamps' /\ Distinct'
      /\ Cardinality(Used) \in Nat /\ Cardinality(Used') \in Nat
      /\ Cardinality(Used') <= Cardinality(Used)
      /\ \A C \in SUBSET Class : UsedBy(C)' \subseteq UsedBy(C)
  BY <1>1, <1>2, Leaves
<1>4. Inflight' = Inflight
  BY <1>1, <1>3 DEF Inflight
<1>5. BudgetTypes' /\ Clock' /\ Accounted'
  BY <1>1, <1>3, <1>4 DEF BudgetInv, BudgetTypes, Clock, Accounted
<1>6. time' < deadline' => Cardinality(Used') <= weight'
  BY <1>1, <1>3 DEF BudgetInv, Estimated, BudgetTypes
<1> QED BY <1>3, <1>5, <1>6, NoMoreUsed

\* An answer tells which minute it was counted in, and at least its own weight.
LEMMA ObservedFacts ==
  ASSUME BudgetInv, NEW r \in Request, request[r].pc = "counted"
  PROVE  LET b == Observed(r)  rest == Names(served) \cup (Inflight \ {r}) IN
         /\ b \in [deadline : Nat, minute : Nat \cup {-1}, weight : Nat, reported : Nat]
         /\ b.minute # -1 => b.minute <= MinuteOf(time) /\ Minute * (b.minute + 1) < b.deadline
         /\ minute = MinuteOf(time) => b.minute = MinuteOf(time)
         /\ r \in Names(served) => b.minute = MinuteOf(time)
         /\ Cardinality(rest) <= b.weight
<1> DEFINE R == Refreshed
           stamp == request[r].stamp
           m == MinuteOf(stamp)
           carry == Carry(Inflight \ {r}, unreported)
           end == time + Minute + 1 - (stamp % Minute)
           rest == Names(served) \cup (Inflight \ {r})
           fresh == IF R.minute # -1 /\ m > R.minute THEN [R EXCEPT !.weight = 1 + carry, !.reported = 0] ELSE R
           known == IF m = R.minute THEN fresh ELSE [fresh EXCEPT !.minute = m, !.deadline = end]
           most == Larger(known.reported, request[r].used)
<1>1. RefreshOK(R)
  BY RefreshFacts
<1>2. Observed(r) = IF R.minute # -1 /\ m < R.minute THEN R
                    ELSE [known EXCEPT !.reported = most, !.weight = Larger(known.weight, most + carry)]
  BY DEF Observed
<1> HIDE DEF R
<1>3. /\ time \in Nat /\ stamp \in Nat /\ stamp <= time /\ request[r].used \in Nat /\ r \in Inflight
      /\ r \in Names(served) => m = MinuteOf(time)
  BY DEF BudgetInv, BudgetTypes, Stamps, Requests, Inflight
<1>4. /\ m \in Nat /\ MinuteOf(time) \in Nat /\ m <= MinuteOf(time)
      /\ stamp % Minute \in 0 .. (Minute - 1) /\ Minute * m \in Nat /\ stamp = Minute * m + (stamp % Minute)
      /\ Minute * (m + 1) = Minute * m + Minute
  <2>1. /\ m \in Nat /\ stamp % Minute \in 0 .. (Minute - 1) /\ Minute * m \in Nat
        /\ stamp = Minute * m + (stamp % Minute)
    BY <1>3, MinuteFacts
  <2>2. MinuteOf(time) \in Nat /\ m <= MinuteOf(time)
    BY <1>3, MinuteFacts, MinuteOrder
  <2>3. Minute * (m + 1) = Minute * m + Minute
    BY <2>1, Scaled
  <2> QED BY <2>1, <2>2, <2>3
<1>5. end \in Nat /\ time < end /\ Minute * (m + 1) < end
  BY <1>3, <1>4, BudgetConstants
<1>6. IsFiniteSet(Inflight \ {r}) /\ IsFiniteSet(Kept(unreported)) /\ IsFiniteSet(Names(Kept(unreported)))
      /\ Cardinality(Names(Kept(unreported))) <= Cardinality(Kept(unreported))
      /\ IsFiniteSet(Inflight) /\ IsFiniteSet(Names(served)) /\ IsFiniteSet(rest)
  <2>1. IsFiniteSet(Inflight) /\ IsFiniteSet(Kept(unreported)) /\ IsFiniteSet(Names(served))
    BY KeptFacts, NamesSize DEF BudgetInv, BudgetTypes
  <2>2. IsFiniteSet(Inflight \ {r})
    BY <2>1, FS_RemoveElement
  <2> QED BY <2>1, <2>2, NamesSize, UnionSize
<1>7. /\ Cardinality(Inflight \ {r}) \in Nat /\ Cardinality(Kept(unreported)) \in Nat
      /\ Cardinality(Names(Kept(unreported))) \in Nat /\ Cardinality(rest) \in Nat
  BY <1>6, FS_CardinalityType
<1>8. carry \in Nat /\ carry = Cardinality(Inflight \ {r}) + Cardinality(Kept(unreported))
  BY <1>7 DEF Carry
<1>9. Cardinality(rest) <= R.weight
  <2>1. rest \in SUBSET Used
    BY DEF Used
  <2>2. IsFiniteSet(Used) /\ Cardinality(Used) \in Nat /\ Cardinality(Used) <= R.weight
    BY <1>1, UsedFacts DEF BudgetInv, RefreshOK
  <2>3. Cardinality(rest) <= Cardinality(Used)
    BY <2>1, <2>2, FS_Subset
  <2> QED BY <1>1, <1>7, <2>2, <2>3 DEF RefreshOK
<1>10. ASSUME R.minute # -1, m > R.minute PROVE Cardinality(rest) <= 1 + carry
  <2>1. minute # MinuteOf(time)
    BY <1>1, <1>4, <1>10 DEF RefreshOK
  <2>2. Names(served) \subseteq Inflight \cup Names(Kept(unreported))
    BY <2>1, Remembered DEF BudgetInv
  <2> DEFINE mine == (Inflight \ {r}) \cup Names(Kept(unreported))
  <2>3. rest \subseteq mine \cup {r}
    BY <2>2
  <2>4. /\ IsFiniteSet(mine) /\ Cardinality(mine) \in Nat
        /\ Cardinality(mine) <= Cardinality(Inflight \ {r}) + Cardinality(Names(Kept(unreported)))
    BY <1>6, UnionSize
  <2> HIDE DEF mine
  <2>5. /\ IsFiniteSet(mine \cup {r}) /\ Cardinality(mine \cup {r}) \in Nat
        /\ Cardinality(mine \cup {r}) <= Cardinality(mine) + 1
    <3>1. IsFiniteSet({r}) /\ Cardinality({r}) = 1
      BY FS_Singleton
    <3> QED BY <2>4, <3>1, UnionSize
  <2>6. Cardinality(rest) <= Cardinality(mine \cup {r})
    BY <2>3, <2>5, FS_Subset
  <2> QED BY <1>6, <1>7, <1>8, <2>4, <2>5, <2>6
<1>11. /\ R.deadline \in Nat /\ R.minute \in Nat \cup {-1} /\ R.weight \in Nat /\ R.reported \in Nat
       /\ R \in [deadline : Nat, minute : Nat \cup {-1}, weight : Nat, reported : Nat]
  BY <1>1 DEF RefreshOK
<1> HIDE DEF carry, end, m, stamp, rest
<1>12. CASE R.minute # -1 /\ m < R.minute
  BY <1>1, <1>2, <1>3, <1>4, <1>9, <1>11, <1>12 DEF RefreshOK, rest
<1>13. CASE ~(R.minute # -1 /\ m < R.minute)
  <2>1. /\ known \in [deadline : Nat, minute : Nat \cup {-1}, weight : Nat, reported : Nat]
        /\ known.minute = m /\ Minute * (known.minute + 1) < known.deadline
        /\ Cardinality(rest) <= known.weight
    <3>1. /\ fresh \in [deadline : Nat, minute : Nat \cup {-1}, weight : Nat, reported : Nat]
          /\ fresh.minute = R.minute /\ fresh.deadline = R.deadline
          /\ Cardinality(rest) <= fresh.weight
      <4>1. CASE R.minute # -1 /\ m > R.minute
        <5>1. fresh = [R EXCEPT !.weight = 1 + carry, !.reported = 0]
          BY <4>1
        <5>2. 1 + carry \in Nat /\ Cardinality(rest) <= 1 + carry
          BY <1>8, <1>10, <4>1
        <5> HIDE DEF fresh
        <5> QED BY <1>11, <5>1, <5>2
      <4>2. CASE ~(R.minute # -1 /\ m > R.minute)
        <5>1. fresh = R
          BY <4>2
        <5> HIDE DEF fresh
        <5> QED BY <1>9, <1>11, <5>1
      <4> QED BY <4>1, <4>2
    <3> HIDE DEF fresh
    <3>2. CASE m = R.minute
      BY <1>1, <1>4, <3>1, <3>2 DEF RefreshOK
    <3>3. CASE m # R.minute
      BY <1>4, <1>5, <3>1, <3>3
    <3> QED BY <3>2, <3>3
  <2> HIDE DEF known
  <2>2. most \in Nat
    BY <1>3, <2>1 DEF Larger
  <2> HIDE DEF most
  <2>3. known.weight \in Nat /\ Larger(known.weight, most + carry) \in Nat
        /\ Cardinality(rest) <= Larger(known.weight, most + carry)
    BY <1>7, <1>8, <2>1, <2>2 DEF Larger, rest
  <2>4. /\ Observed(r) \in [deadline : Nat, minute : Nat \cup {-1}, weight : Nat, reported : Nat]
        /\ Observed(r).minute = m /\ Observed(r).deadline = known.deadline
        /\ Observed(r).weight = Larger(known.weight, most + carry)
    BY <1>2, <1>13, <2>1, <2>2, <2>3
  <2>5. minute = MinuteOf(time) => m = MinuteOf(time)
    <3> SUFFICES ASSUME minute = MinuteOf(time) PROVE m = MinuteOf(time)
      OBVIOUS
    <3>1. R.minute = MinuteOf(time)
      BY <1>1 DEF RefreshOK
    <3> QED BY <1>4, <1>13, <3>1
  <2> QED BY <1>3, <1>4, <2>1, <2>3, <2>4, <2>5 DEF rest
<1> QED BY <1>12, <1>13

LEMMA ObserveInv ==
  ASSUME BudgetInv, NEW r \in Request, Observe(r)
  PROVE  BudgetInv'
<1> DEFINE b == Observed(r)
<1>1. /\ b \in [deadline : Nat, minute : Nat \cup {-1}, weight : Nat, reported : Nat]
      /\ b.minute # -1 => b.minute <= MinuteOf(time) /\ Minute * (b.minute + 1) < b.deadline
      /\ minute = MinuteOf(time) => b.minute = MinuteOf(time)
      /\ r \in Names(served) => b.minute = MinuteOf(time)
      /\ Cardinality(Names(served) \cup (Inflight \ {r})) <= b.weight
  BY ObservedFacts DEF Observe
<1>2. Become(b) /\ UNCHANGED <<time, until, unreported, served, foreign>>
  BY DEF Observe
<1> HIDE DEF b
<1>3. PICK q \in Requests : q.pc \in {"new", "limited"} /\ request' = [request EXCEPT ![r] = q]
  <2>1. New \in Requests /\ [New EXCEPT !.pc = "limited"] \in Requests
        /\ New.pc = "new" /\ [New EXCEPT !.pc = "limited"].pc = "limited"
    BY DEF New, Requests
  <2> QED BY <2>1 DEF Observe
<1>4. /\ deadline' = b.deadline /\ minute' = b.minute /\ weight' = b.weight
      /\ deadline' \in Nat /\ minute' \in Nat \cup {-1} /\ weight' \in Nat /\ reported' \in Nat
  BY <1>1, <1>2, BecomeFacts
<1>5. /\ request' \in [Request -> Requests]
      /\ Inflight' = Inflight \ {r} /\ IsFiniteSet(Inflight') /\ Names(served)' = Names(served)
      /\ Stamps' /\ Distinct' /\ Used' = Names(served) \cup (Inflight \ {r})
      /\ \A C \in SUBSET Class : UsedBy(C)' \subseteq UsedBy(C)
  BY <1>2, <1>3, Leaves
<1>6. BudgetTypes' /\ Clock'
  BY <1>1, <1>2, <1>4, <1>5 DEF BudgetInv, BudgetTypes, Clock
<1>7. Accounted'
  BY <1>1, <1>2, <1>4, <1>5 DEF BudgetInv, Accounted
<1> QED BY <1>1, <1>4, <1>5, <1>6, <1>7, NoMoreUsed

-----------------------------------------------------------------------------
(* Theorems *)

LEMMA BudgetInvNext == BudgetInv /\ [BudgetNext]_budgetVars => BudgetInv'
<1> SUFFICES ASSUME BudgetInv, [BudgetNext]_budgetVars PROVE BudgetInv'
  OBVIOUS
<1>1. CASE UNCHANGED budgetVars
  BY <1>1 DEF budgetVars, BudgetInv, BudgetTypes, Stamps, Distinct, Clock, Accounted, Estimated, Shares,
              Used, UsedBy, Names, Inflight, AtMost, Allowed
<1>2. CASE NextSecond
  BY <1>2, NextSecondInv
<1>3. CASE OthersUse
  BY <1>3, OthersUseInv
<1>4. CASE Look
  BY <1>4, LookInv
<1>5. ASSUME NEW r \in Request, NEW c \in Class, Admit(r, c) PROVE BudgetInv'
  BY <1>5, AdmitInv
<1>6. ASSUME NEW r \in Request, CancelUnstarted(r) PROVE BudgetInv'
  BY <1>6, CancelUnstartedInv
<1>7. ASSUME NEW r \in Request, Dispatch(r) PROVE BudgetInv'
  BY <1>7, DispatchInv
<1>8. ASSUME NEW r \in Request, Count(r) PROVE BudgetInv'
  BY <1>8, CountInv
<1>9. ASSUME NEW r \in Request, Lose(r) PROVE BudgetInv'
  BY <1>9, LoseInv
<1>10. ASSUME NEW r \in Request, Observe(r) PROVE BudgetInv'
  BY <1>10, ObserveInv
<1>11. ASSUME NEW r \in Request, Block(r) PROVE BudgetInv'
  BY <1>11, BlockInv
<1> QED BY <1>1, <1>2, <1>3, <1>4, <1>5, <1>6, <1>7, <1>8, <1>9, <1>10, <1>11 DEF BudgetNext

\* The budget is typed, and what the exchange counted is accounted for, in
\* every reachable state.
THEOREM BudgetInvariance == BudgetSpec => []BudgetInv
<1> QED BY BudgetInvInit, BudgetInvNext, PTL DEF BudgetSpec

\* What Aster counted for this process in its minute, and may still count,
\* never exceeds the estimate the next admission goes by.
THEOREM EstimateIsCovering == BudgetSpec => []EstimateCovers
<1>1. BudgetInv => EstimateCovers
  BY RefreshFacts DEF EstimateCovers, RefreshOK, Used, Names
<1> QED BY <1>1, BudgetInvariance, PTL

\* In no minute of the exchange a class of requests exceeds what it is allowed.
THEOREM LimitsAreKept == BudgetSpec => []LimitsKept
<1>1. ASSUME BudgetInv, NEW C \in SUBSET Class, NEW c \in Class, C \subseteq AtMost(c)
      PROVE  Cardinality({x \in served : x.class \in C}) <= Allowed(c)
  <2> DEFINE S == {x \in served : x.class \in C}
             U == UsedBy(AtMost(c))
  <2>1. S \in SUBSET served /\ \A x, y \in S : x.request = y.request => x = y
    BY <1>1 DEF BudgetInv, Distinct
  <2>2. IsFiniteSet(S)
    BY <1>1, <2>1, FS_Subset DEF BudgetInv, BudgetTypes
  <2>3. Cardinality(S) <= Cardinality(Names(S)) /\ IsFiniteSet(Names(S))
    BY <2>1, <2>2, NamesInjective, NamesSize
  <2>4. Names(S) \in SUBSET U
    BY <1>1 DEF UsedBy, Names
  <2>5. IsFiniteSet(U) /\ Cardinality(U) <= Allowed(c) /\ Allowed(c) \in Nat
    BY <1>1, UsedFacts, AllowedFacts DEF BudgetInv, Shares
  <2>6. Cardinality(Names(S)) <= Cardinality(U)
    BY <2>4, <2>5, FS_Subset
  <2>7. Cardinality(S) \in Nat /\ Cardinality(Names(S)) \in Nat /\ Cardinality(U) \in Nat
    BY <2>2, <2>3, <2>5, FS_CardinalityType
  <2> QED BY <2>3, <2>5, <2>6, <2>7
<1>2. BudgetInv => LimitsKept
  <2> SUFFICES ASSUME BudgetInv PROVE LimitsKept
    OBVIOUS
  <2>0. \A x \in served : x.class \in Class
    BY DEF BudgetInv, BudgetTypes
  <2>1. Cardinality({x \in served : x.class \in Class}) <= Allowed("critical")
    BY <1>1, AllowedFacts DEF Class
  <2>2. Cardinality({x \in served : x.class \in {"monitor", "execution"}}) <= Allowed("monitor")
    BY <1>1, AllowedFacts DEF Class
  <2>3. Cardinality({x \in served : x.class \in {"execution"}}) <= Allowed("execution")
    <3>1. {"execution"} \in SUBSET Class /\ {"execution"} \subseteq AtMost("execution") /\ "execution" \in Class
      BY AllowedFacts DEF Class
    <3> QED BY <1>1, <3>1
  <2>4. {x \in served : x.class \in Class} = served
    BY <2>0
  <2>5. {x \in served : x.class \in {"monitor", "execution"}} = {x \in served : x.class # "critical"}
    BY <2>0 DEF Class
  <2>6. {x \in served : x.class \in {"execution"}} = {x \in served : x.class = "execution"}
    OBVIOUS
  <2> QED BY <2>1, <2>2, <2>3, <2>4, <2>5, <2>6, AllowedFacts DEF LimitsKept
<1> QED BY <1>2, BudgetInvariance, PTL

-----------------------------------------------------------------------------
(* The inductive invariant of CapacityRelay *)

Sample  == [epoch : Nat, seq : Nat, at : Nat]
Sealing == [of : Sample, published : Nat]
Entry   == [of : Sample, started : Int, checked : Int, source : {"ws", "http"}]

RelayTypes ==
    /\ now \in Nat /\ offset \in Offsets
    /\ process \in Nat /\ sequence \in Nat
    /\ samples \in [Key -> Sample] /\ reading \in [Key -> {Idle} \cup Nat]
    /\ buffer \in Seq([key : Key, m : Sealing])
    /\ fetch \in [Key -> [pc : {"none", "sent", "answered"}, since : Nat, serial : Nat,
                          offset : Offsets \cup {0}, answer : Sealing]]
    /\ epoch \in Nat /\ serial \in Nat /\ retired \in SUBSET Nat
    /\ order \in [Key -> Nat] /\ cache \in [Key -> Entry]

\* The samples of a key that are somewhere.
Live(k) == {s \in {samples[k], fetch[k].answer.of, cache[k].of}
                     \cup {buffer[i].m.of : i \in {j \in DOMAIN buffer : buffer[j].key = k}} : s # NoSample}

\* By how much a sample may be older than it is taken for.
Slack(source) == IF source = "http" THEN 0 ELSE Max({Abs(o) : o \in Offsets})

\* The server counts and reads forward; what is under way is newer than what
\* the process has said, and nothing is ahead of the process.
Said ==
    \A k \in Key :
        /\ samples[k] # NoSample => samples[k].epoch = process
        /\ reading[k] # Idle => /\ reading[k] <= now
                                /\ samples[k] # NoSample => samples[k].at < reading[k]
        /\ \A s \in Live(k) :
              /\ s.epoch <= process
              /\ s.epoch = process => /\ s.seq <= sequence
                                      /\ samples[k] # NoSample /\ s.at <= samples[k].at

\* Within an epoch later numbers are later reads.
InOrder ==
    \A k \in Key : \A s, t \in Live(k) : s.epoch = t.epoch /\ s.seq < t.seq => s.at < t.at

\* An HTTP answer was sealed after it was asked for, and comes from no earlier
\* process than the client used, unless the client has moved since.
Answers ==
    \A k \in Key :
        /\ fetch[k].serial <= serial /\ fetch[k].since <= now
        /\ fetch[k].pc = "answered" => /\ fetch[k].since <= fetch[k].answer.published
                                       /\ fetch[k].serial = serial => epoch <= fetch[k].answer.of.epoch

\* What is cached is the newest sample accepted of the client's epoch, and its
\* age counts from no later than its read, give or take the clocks.
Charged ==
    \A k \in Key : cache[k] # NoEntry =>
        /\ cache[k].of # NoSample /\ cache[k].of.epoch = epoch /\ order[k] = cache[k].of.seq
        /\ cache[k].started <= cache[k].of.at + Slack(cache[k].source)

OneWay == epoch <= process /\ epoch \notin retired

RelayInv ==
    /\ RelayTypes
    /\ Said
    /\ InOrder
    /\ Answers
    /\ Charged
    /\ OneWay

-----------------------------------------------------------------------------
(* The largest of finitely many numbers *)

LEMMA LeastNatural ==
  ASSUME NEW T, T \subseteq Nat, T # {}
  PROVE  \E x \in T : \A y \in T : x <= y
<1> DEFINE R == OpToRel(<, Nat)
<1>1. IsWellFoundedOn(R, Nat)
  BY NatLessThanWellFounded
<1>2. \A x, y \in Nat : y < x => <<y, x>> \in R
  BY DEF OpToRel
<1> HIDE DEF R
<1>3. PICK x \in T : \A y \in T : ~(<<y, x>> \in R)
  BY <1>1, WFMin
<1>4. \A y \in T : ~(y < x)
  BY <1>2, <1>3
<1> QED BY <1>4

LEMMA Largest ==
  ASSUME NEW S, S \subseteq Int, S # {}, IsFiniteSet(S)
  PROVE  Max(S) \in S /\ \A y \in S : y <= Max(S)
<1> DEFINE HasMax(X) == \E x \in X : \A y \in X : x >= y
           Bad == {n \in Nat : \E X \in SUBSET S : X # {} /\ Cardinality(X) = n /\ ~HasMax(X)}
<1>1. Bad = {}
  <2> SUFFICES ASSUME Bad # {} PROVE FALSE
    OBVIOUS
  <2>1. PICK n \in Bad : \A m \in Bad : n <= m
    BY LeastNatural
  <2>2. PICK X \in SUBSET S : X # {} /\ Cardinality(X) = n /\ ~HasMax(X)
    BY <2>1
  <2>3. PICK x \in X : TRUE
    BY <2>2
  <2> DEFINE Y == X \ {x}
  <2>4. IsFiniteSet(X) /\ IsFiniteSet(Y) /\ Cardinality(Y) = n - 1 /\ Cardinality(Y) \in Nat /\ n \in Nat
    <3>1. IsFiniteSet(X)
      BY <2>2, FS_Subset
    <3>2. IsFiniteSet(Y) /\ Cardinality(Y) = Cardinality(X) - 1
      BY <2>3, <3>1, FS_RemoveElement
    <3> QED BY <2>1, <2>2, <3>1, <3>2, FS_CardinalityType
  <2>5. CASE Y = {}
    <3>1. \A y \in X : x >= y
      BY <2>2, <2>3, <2>5
    <3> QED BY <2>2, <2>3, <3>1
  <2>6. CASE Y # {}
    <3>1. n - 1 \notin Bad
      BY <2>1, <2>4
    <3>2. HasMax(Y)
      BY <2>2, <2>4, <2>6, <3>1
    <3>3. PICK z \in Y : \A y \in Y : z >= y
      BY <3>2
    <3>4. x \in Int /\ z \in Int /\ z \in X /\ \A y \in X : y \in Int /\ (y = x \/ y \in Y)
      BY <2>2, <2>3, <3>3
    <3>5. CASE x >= z
      <4>1. \A y \in X : x >= y
        BY <3>3, <3>4, <3>5
      <4> QED BY <2>2, <2>3, <4>1
    <3>6. CASE z >= x
      <4>1. \A y \in X : z >= y
        BY <3>3, <3>4, <3>6
      <4> QED BY <2>2, <3>4, <4>1
    <3> QED BY <3>4, <3>5, <3>6
  <2> QED BY <2>5, <2>6
<1>2. Cardinality(S) \in Nat
  BY FS_CardinalityType
<1>3. HasMax(S)
  BY <1>1, <1>2
<1>4. Max(S) \in S /\ \A y \in S : Max(S) >= y
  BY <1>3 DEF Max
<1> QED BY <1>4

LEMMA LargestOfThree ==
  ASSUME NEW a \in Int, NEW b \in Int, NEW c \in Int
  PROVE  Max({a, b, c}) \in Int /\ a <= Max({a, b, c}) /\ b <= Max({a, b, c}) /\ c <= Max({a, b, c})
<1> DEFINE S == {a, b, c}
<1>1. \E x \in S : \A y \in S : x >= y
  <2>1. CASE a >= b /\ a >= c
    BY <2>1
  <2>2. CASE b >= a /\ b >= c
    BY <2>2
  <2>3. CASE c >= a /\ c >= b
    BY <2>3
  <2> QED BY <2>1, <2>2, <2>3
<1>2. Max(S) \in S /\ \A y \in S : Max(S) >= y
  BY <1>1 DEF Max
<1> HIDE DEF S
<1>3. Max(S) \in Int
  BY <1>2 DEF S
<1> QED BY <1>2, <1>3 DEF S

LEMMA LargestOfTwo ==
  ASSUME NEW a \in Int, NEW b \in Int
  PROVE  Max({a, b}) \in Int /\ a <= Max({a, b}) /\ b <= Max({a, b})
<1>1. {a, b} = {a, b, b}
  OBVIOUS
<1> QED BY <1>1, LargestOfThree

\* The clocks differ by no more than they ever may.
LEMMA SlackFacts ==
  /\ \A s \in {"ws", "http"} : Slack(s) \in Int
  /\ Slack("http") = 0 /\ \A o \in Offsets : o \in Int /\ 0 - o <= Slack("ws") /\ o <= Slack("ws")
<1> DEFINE S == {Abs(o) : o \in Offsets}
           f == [o \in Offsets |-> Abs(o)]
<1>1. \A o \in Offsets : o \in Int /\ Abs(o) \in Int /\ o <= Abs(o) /\ 0 - o <= Abs(o)
  BY RelayConstants DEF Abs
<1>2. f \in Surjection(Offsets, S)
  BY DEF Surjection
<1>3. IsFiniteSet(S)
  BY <1>2, RelayConstants, FS_Surjection
<1>4. S \subseteq Int /\ S # {}
  BY <1>1, RelayConstants
<1> HIDE DEF f
<1>5. Max(S) \in S /\ \A y \in S : y <= Max(S)
  BY <1>3, <1>4, Largest
<1>6. Slack("ws") = Max(S) /\ Slack("http") = 0
  BY DEF Slack
<1>7. Max(S) \in Int /\ \A o \in Offsets : Abs(o) <= Max(S)
  BY <1>4, <1>5
<1> HIDE DEF S
<1> QED BY <1>1, <1>6, <1>7

-----------------------------------------------------------------------------
(* The steps of CapacityRelay *)

LEMMA RelayInvInit == RelayInit => RelayInv
<1> SUFFICES ASSUME RelayInit PROVE RelayInv
  OBVIOUS
<1>1. NoSample \in Sample /\ [of |-> NoSample, published |-> 0] \in Sealing
  BY DEF NoSample, Sample, Sealing
<1>2. NoEntry \in Entry /\ NoEntry.of = NoSample /\ NoFetch.answer.of = NoSample
      /\ NoFetch.pc = "none" /\ NoFetch.serial = 0 /\ NoFetch.since = 0
      /\ NoFetch \in [pc : {"none", "sent", "answered"}, since : Nat, serial : Nat,
                      offset : Offsets \cup {0}, answer : Sealing]
  BY <1>1 DEF NoEntry, NoFetch, Entry
<1>3. RelayTypes
  BY <1>1, <1>2, RelayConstants DEF RelayInit, RelayTypes, Idle
<1>4. \A k \in Key : Live(k) = {}
  BY <1>2 DEF RelayInit, Live
<1>5. Said /\ InOrder
  BY <1>4 DEF RelayInit, Said, InOrder
<1>6. Answers /\ Charged /\ OneWay
  BY <1>2 DEF RelayInit, Answers, Charged, OneWay
<1> QED BY <1>3, <1>5, <1>6 DEF RelayInv

\* The server says nothing new.
LEMMA SaysNothingNew ==
  ASSUME RelayInv, UNCHANGED <<process, sequence, samples>>, now <= now', now' \in Nat,
         \A k \in Key : Live(k)' \subseteq Live(k),
         \A k \in Key : reading'[k] = reading[k] \/ reading'[k] = Idle
  PROVE  Said' /\ InOrder'
<1>1. InOrder'
  BY DEF RelayInv, InOrder
<1>2. Said'
  <2> SUFFICES ASSUME NEW k \in Key
               PROVE  /\ samples[k] # NoSample => samples[k].epoch = process
                      /\ reading'[k] # Idle => /\ reading'[k] <= now'
                                               /\ samples[k] # NoSample => samples[k].at < reading'[k]
                      /\ \A s \in Live(k)' :
                            /\ s.epoch <= process
                            /\ s.epoch = process => /\ s.seq <= sequence
                                                    /\ samples[k] # NoSample /\ s.at <= samples[k].at
    BY DEF Said
  <2>1. now \in Nat /\ reading[k] \in {Idle} \cup Nat
    BY DEF RelayInv, RelayTypes
  <2>2. reading[k] # Idle => reading[k] <= now'
    BY <2>1 DEF RelayInv, Said
  <2> QED BY <2>1, <2>2 DEF RelayInv, Said
<1> QED BY <1>1, <1>2

LEMMA SampleStartInv ==
  ASSUME RelayInv, NEW k \in Key, SampleStart(k)
  PROVE  RelayInv'
<1>1. /\ reading' = [reading EXCEPT ![k] = now] /\ Spaced
      /\ UNCHANGED <<now, offset, process, sequence, samples, buffer, fetch, epoch, serial, retired, order, cache>>
  BY DEF SampleStart, clientVars
<1>2. \A x \in Key : Live(x)' = Live(x)
  BY <1>1 DEF Live
<1>3. RelayTypes'
  BY <1>1 DEF RelayInv, RelayTypes
<1>4. Said'
  <2>1. samples[k] # NoSample => samples[k].at < now
    BY <1>1 DEF Spaced
  <2>2. now \in Nat /\ reading \in [Key -> {Idle} \cup Nat]
    BY DEF RelayInv, RelayTypes
  <2> QED BY <1>1, <1>2, <2>1, <2>2 DEF RelayInv, Said
<1>5. InOrder' /\ Answers' /\ Charged' /\ OneWay'
  BY <1>1, <1>2 DEF RelayInv, InOrder, Answers, Charged, OneWay
<1> QED BY <1>3, <1>4, <1>5 DEF RelayInv

LEMMA LiveTyped ==
  ASSUME RelayTypes
  PROVE  \A x \in Key : Live(x) \subseteq Sample
<1> SUFFICES ASSUME NEW x \in Key PROVE Live(x) \subseteq Sample
  OBVIOUS
<1>1. samples[x] \in Sample /\ cache[x].of \in Sample /\ fetch[x].answer.of \in Sample
  BY DEF RelayTypes, Sealing, Entry
<1>2. \A i \in DOMAIN buffer : buffer[i].m.of \in Sample
  <2>1. buffer \in Seq([key : Key, m : Sealing]) /\ DOMAIN buffer = 1 .. Len(buffer)
    BY DEF RelayTypes
  <2>2. \A i \in DOMAIN buffer : buffer[i] \in [key : Key, m : Sealing]
    BY <2>1, ElementOfSeq
  <2> QED BY <2>2 DEF Sealing
<1> QED BY <1>1, <1>2 DEF Live

\* A new sample has the largest number of its process and the latest read.
LEMMA SampleDoneInv ==
  ASSUME RelayInv, NEW k \in Key, SampleDone(k)
  PROVE  RelayInv'
<1> DEFINE n == Taken(k)
<1>1. /\ reading[k] # Idle /\ sequence' = sequence + 1 /\ samples' = [samples EXCEPT ![k] = n]
      /\ reading' = [reading EXCEPT ![k] = Idle]
      /\ UNCHANGED <<now, offset, process, buffer, fetch, epoch, serial, retired, order, cache>>
  BY DEF SampleDone, clientVars
<1>2. /\ process \in Nat /\ sequence \in Nat /\ reading[k] \in Nat /\ sequence + 1 \in Nat
      /\ samples \in [Key -> Sample] /\ reading \in [Key -> {Idle} \cup Nat] /\ now \in Nat
  BY <1>1 DEF RelayInv, RelayTypes
<1>3. n \in Sample /\ n.epoch = process /\ n.seq = sequence + 1 /\ n.at = reading[k] /\ n # NoSample
  BY <1>2 DEF Taken, Sample, NoSample
<1> HIDE DEF n
<1>4. /\ samples'[k] = n /\ reading'[k] = Idle
      /\ \A x \in Key : x # k => samples'[x] = samples[x] /\ reading'[x] = reading[x]
  BY <1>1, <1>2
<1>5. Live(k)' \subseteq Live(k) \cup {n} /\ \A x \in Key : x # k => Live(x)' = Live(x)
  BY <1>1, <1>4 DEF Live
<1>6. \A x \in Key : Live(x) \subseteq Sample
  BY LiveTyped DEF RelayInv
<1>7. \A s \in Live(k) : /\ s \in Sample /\ s.epoch <= process
                         /\ s.epoch = process => s.seq < n.seq /\ s.at < n.at
  <2> SUFFICES ASSUME NEW s \in Live(k)
               PROVE  /\ s \in Sample /\ s.epoch <= process
                      /\ s.epoch = process => s.seq < n.seq /\ s.at < n.at
    OBVIOUS
  <2>1. s \in Sample /\ s.epoch <= process
    BY <1>6 DEF RelayInv, Said
  <2>2. ASSUME s.epoch = process PROVE s.seq < n.seq /\ s.at < n.at
    <3>1. s.seq <= sequence /\ samples[k] # NoSample /\ s.at <= samples[k].at
      BY <2>2 DEF RelayInv, Said
    <3>2. samples[k].at < reading[k]
      BY <1>1, <3>1 DEF RelayInv, Said
    <3>3. s.seq \in Nat /\ s.at \in Nat /\ samples[k].at \in Nat
      BY <1>2, <2>1 DEF Sample
    <3> QED BY <1>2, <1>3, <3>1, <3>2, <3>3
  <2> QED BY <2>1, <2>2
<1>8. RelayTypes'
  BY <1>1, <1>2, <1>3 DEF RelayInv, RelayTypes
<1>9. Said'
  <2> SUFFICES ASSUME NEW x \in Key
               PROVE  /\ samples'[x] # NoSample => samples'[x].epoch = process
                      /\ reading'[x] # Idle => /\ reading'[x] <= now
                                               /\ samples'[x] # NoSample => samples'[x].at < reading'[x]
                      /\ \A s \in Live(x)' :
                            /\ s.epoch <= process
                            /\ s.epoch = process => /\ s.seq <= sequence'
                                                    /\ samples'[x] # NoSample /\ s.at <= samples'[x].at
    BY <1>1 DEF Said
  <2>1. CASE x = k
    <3>1. \A s \in Live(k)' : /\ s.epoch <= process
                              /\ s.epoch = process => s.seq <= n.seq /\ s.at <= n.at
      <4> SUFFICES ASSUME NEW s \in Live(k)'
                   PROVE  s.epoch <= process /\ (s.epoch = process => s.seq <= n.seq /\ s.at <= n.at)
        OBVIOUS
      <4>1. CASE s = n
        BY <1>2, <1>3, <4>1
      <4>2. CASE s \in Live(k)
        BY <1>2, <1>3, <1>7, <4>2 DEF Sample
      <4> QED BY <1>5, <4>1, <4>2
    <3>2. samples'[x] = n /\ reading'[x] = Idle /\ sequence' = n.seq
      BY <1>1, <1>3, <1>4, <2>1
    <3>3. \A s \in Live(x)' : /\ s.epoch <= process
                              /\ s.epoch = process => s.seq <= n.seq /\ s.at <= n.at
      BY <2>1, <3>1
    <3>4. samples'[x] # NoSample /\ samples'[x].epoch = process /\ samples'[x].at = n.at
      BY <1>3, <3>2
    <3>5. \A s \in Live(x)' : /\ s.epoch <= process
                              /\ s.epoch = process => s.seq <= sequence' /\ s.at <= samples'[x].at
      BY <3>2, <3>3, <3>4
    <3> QED BY <3>2, <3>4, <3>5
  <2>2. CASE x # k
    <3>1. \A s \in Live(x) : s.seq \in Nat
      BY <1>6 DEF Sample
    <3> QED BY <1>1, <1>2, <1>4, <1>5, <2>2, <3>1 DEF RelayInv, Said
  <2> QED BY <2>1, <2>2
<1>10. InOrder'
  <2> SUFFICES ASSUME NEW x \in Key, NEW s \in Live(x)', NEW t \in Live(x)', s.epoch = t.epoch, s.seq < t.seq
               PROVE  s.at < t.at
    BY DEF InOrder
  <2>1. CASE x # k
    BY <1>5, <2>1 DEF RelayInv, InOrder
  <2>2. CASE x = k /\ s \in Live(k) /\ t \in Live(k)
    BY <2>2 DEF RelayInv, InOrder
  <2>3. CASE x = k /\ s \in Live(k) /\ t = n
    BY <1>3, <1>7, <2>3
  <2>4. CASE x = k /\ s = n /\ t \in Live(k)
    BY <1>2, <1>3, <1>7, <2>4 DEF Sample
  <2>5. CASE s = n /\ t = n
    BY <1>2, <1>3, <2>5
  <2> QED BY <1>5, <2>1, <2>2, <2>3, <2>4, <2>5
<1>11. Answers' /\ Charged' /\ OneWay'
  BY <1>1 DEF RelayInv, Answers, Charged, OneWay
<1> QED BY <1>8, <1>9, <1>10, <1>11 DEF RelayInv

\* Steps that leave the client's cache alone and say nothing new.
LEMMA QuietInv ==
  ASSUME RelayInv, UNCHANGED <<process, sequence, samples, fetch, epoch, serial, retired, order, cache>>,
         now' \in Nat, now <= now', offset' \in Offsets,
         reading' \in [Key -> {Idle} \cup Nat], buffer' \in Seq([key : Key, m : Sealing]),
         \A k \in Key : reading'[k] = reading[k] \/ reading'[k] = Idle,
         \A k \in Key : Live(k)' \subseteq Live(k)
  PROVE  RelayInv'
<1>1. RelayTypes'
  BY DEF RelayInv, RelayTypes
<1>2. Said' /\ InOrder'
  BY SaysNothingNew
<1>3. Answers'
  <2>1. now \in Nat /\ \A k \in Key : fetch[k].since \in Nat
    BY DEF RelayInv, RelayTypes
  <2> QED BY <2>1 DEF RelayInv, Answers
<1>4. Charged' /\ OneWay'
  BY DEF RelayInv, Charged, OneWay
<1> QED BY <1>1, <1>2, <1>3, <1>4 DEF RelayInv

LEMMA SampleFailsInv ==
  ASSUME RelayInv, NEW k \in Key, SampleFails(k)
  PROVE  RelayInv'
<1>1. /\ reading' = [reading EXCEPT ![k] = Idle]
      /\ UNCHANGED <<now, offset, process, sequence, samples, buffer, fetch, epoch, serial, retired, order, cache>>
  BY DEF SampleFails, clientVars
<1>2. \A x \in Key : Live(x)' = Live(x)
  BY <1>1 DEF Live
<1> QED BY <1>1, <1>2, QuietInv DEF RelayInv, RelayTypes

\* What is on its way was on its way already, or is the server's newest.
LEMMA OnTheWay ==
  ASSUME RelayTypes, buffer' \in Seq([key : Key, m : Sealing]), UNCHANGED <<samples, fetch, cache>>,
         \A i \in DOMAIN buffer' : \/ \E j \in DOMAIN buffer : buffer'[i] = buffer[j]
                                   \/ buffer'[i].m.of = samples[buffer'[i].key]
  PROVE  \A x \in Key : Live(x)' \subseteq Live(x)
<1> SUFFICES ASSUME NEW x \in Key, NEW s \in Live(x)' PROVE s \in Live(x)
  OBVIOUS
<1>1. CASE s \in {samples[x], fetch[x].answer.of, cache[x].of}
  BY <1>1 DEF Live
<1>2. CASE \E i \in DOMAIN buffer' : buffer'[i].key = x /\ s = buffer'[i].m.of
  BY <1>2 DEF Live
<1> QED BY <1>1, <1>2 DEF Live

LEMMA PushInv ==
  ASSUME RelayInv, NEW k \in Key, Push(k)
  PROVE  RelayInv'
<1>1. UNCHANGED <<now, offset, process, sequence, samples, reading, fetch, epoch, serial, retired, order, cache>>
  BY DEF Push, accepted
<1>2. /\ buffer \in Seq([key : Key, m : Sealing]) /\ samples[k] \in Sample
      /\ now \in Nat /\ now <= now /\ offset \in Offsets /\ reading \in [Key -> {Idle} \cup Nat]
  BY DEF RelayInv, RelayTypes
<1>3. CASE buffer' = buffer
  <2>1. \A x \in Key : Live(x)' = Live(x)
    BY <1>1, <1>3 DEF Live
  <2> QED BY <1>1, <1>2, <1>3, <2>1, QuietInv
<1>4. CASE buffer' = Append(buffer, [key |-> k, m |-> Sealed(k)])
  <2> DEFINE z == [key |-> k, m |-> Sealed(k)]
  <2>1. z \in [key : Key, m : Sealing] /\ z.key = k /\ z.m.of = samples[k]
    BY <1>2 DEF Sealed, Sealing
  <2> HIDE DEF z
  <2>2. /\ buffer' \in Seq([key : Key, m : Sealing]) /\ Len(buffer') = Len(buffer) + 1
        /\ \A i \in 1 .. Len(buffer) : buffer'[i] = buffer[i]
        /\ buffer'[Len(buffer) + 1] = z
    BY <1>2, <1>4, <2>1, AppendProperties DEF z
  <2>3. /\ Len(buffer) \in Nat /\ DOMAIN buffer = 1 .. Len(buffer) /\ DOMAIN buffer' = 1 .. Len(buffer')
    BY <1>2, <2>2
  <2>4. \A i \in DOMAIN buffer' : \/ \E j \in DOMAIN buffer : buffer'[i] = buffer[j]
                                  \/ buffer'[i].m.of = samples[buffer'[i].key]
    <3> SUFFICES ASSUME NEW i \in DOMAIN buffer'
                 PROVE  \/ \E j \in DOMAIN buffer : buffer'[i] = buffer[j]
                        \/ buffer'[i].m.of = samples[buffer'[i].key]
      OBVIOUS
    <3>1. i \in 1 .. Len(buffer) \/ i = Len(buffer) + 1
      BY <2>2, <2>3
    <3> QED BY <2>1, <2>2, <2>3, <3>1
  <2>5. \A x \in Key : Live(x)' \subseteq Live(x)
    BY <1>1, <2>2, <2>4, OnTheWay DEF RelayInv
  <2> QED BY <1>1, <1>2, <2>2, <2>5, QuietInv
<1> QED BY <1>3, <1>4 DEF Push

\* Steps of the connection: nothing new arrives.
LEMMA ConnectionInv ==
  ASSUME RelayInv, LetGo \/ Connect \/ Disconnect
  PROVE  RelayInv'
<1>1. /\ UNCHANGED <<now, offset, process, sequence, samples, reading, fetch, epoch, serial, retired, order, cache>>
      /\ buffer' = buffer \/ buffer' = <<>>
  BY DEF LetGo, Connect, Disconnect, Others, accepted, clientVars
<1>2. buffer' \in Seq([key : Key, m : Sealing])
  BY <1>1, EmptySeq DEF RelayInv, RelayTypes
<1>3. \A x \in Key : Live(x)' \subseteq Live(x)
  BY <1>1 DEF Live
<1> QED BY <1>1, <1>2, <1>3, QuietInv DEF RelayInv, RelayTypes

LEMMA TimeInv ==
  ASSUME RelayInv, Pass \/ \E o \in Offsets : SetClock(o)
  PROVE  RelayInv'
<1>1. /\ UNCHANGED <<process, sequence, samples, reading, buffer, fetch, epoch, serial, retired, order, cache>>
      /\ now' = now \/ now' = now + 1
      /\ offset' \in Offsets
  BY DEF Pass, SetClock, serverVars, clientVars, RelayInv, RelayTypes
<1>2. now' \in Nat /\ now <= now'
  BY <1>1 DEF RelayInv, RelayTypes
<1>3. \A x \in Key : Live(x)' = Live(x)
  BY <1>1 DEF Live
<1> QED BY <1>1, <1>2, <1>3, QuietInv DEF RelayInv, RelayTypes

\* A new process has said nothing; what the old ones said stays.
LEMMA RelayRestartInv ==
  ASSUME RelayInv, RelayRestart
  PROVE  RelayInv'
<1>1. /\ process' = process + 1 /\ sequence' = 0 /\ samples' = [x \in Key |-> NoSample]
      /\ reading' = [x \in Key |-> Idle]
      /\ UNCHANGED <<now, offset, buffer, fetch, epoch, serial, retired, order, cache>>
  BY DEF RelayRestart, clientVars
<1>2. process \in Nat /\ process' \in Nat /\ epoch \in Nat /\ NoSample \in Sample
  BY <1>1 DEF RelayInv, RelayTypes, NoSample, Sample
<1>3. \A x \in Key : Live(x)' \subseteq Live(x)
  BY <1>1 DEF Live
<1>4. \A x \in Key : \A s \in Live(x) : s.epoch \in Nat /\ s.epoch <= process
  BY LiveTyped DEF RelayInv, Said, Sample
<1>5. RelayTypes'
  BY <1>1, <1>2 DEF RelayInv, RelayTypes
<1>6. \A x \in Key : \A s \in Live(x)' : s.epoch < process' /\ s.epoch <= process' /\ s.epoch # process'
  BY <1>1, <1>2, <1>3, <1>4
<1>7. Said'
  BY <1>1, <1>6 DEF Said
<1>8. InOrder'
  BY <1>3 DEF RelayInv, InOrder
<1>9. Answers' /\ Charged' /\ OneWay'
  BY <1>1, <1>2 DEF RelayInv, Answers, Charged, OneWay
<1> QED BY <1>5, <1>7, <1>8, <1>9 DEF RelayInv

Fetching == [pc : {"none", "sent", "answered"}, since : Nat, serial : Nat,
             offset : Offsets \cup {0}, answer : Sealing]

LEMMA FetchFacts ==
  /\ NoFetch \in Fetching /\ NoFetch.pc = "none" /\ NoFetch.serial = 0 /\ NoFetch.since = 0
  /\ NoFetch.answer.of = NoSample /\ NoSample \in Sample /\ NoSample.seq = 0 /\ NoSample.epoch = 0
<1>1. NoSample \in Sample /\ [of |-> NoSample, published |-> 0] \in Sealing
  BY DEF NoSample, Sample, Sealing
<1> QED BY <1>1 DEF NoFetch, Fetching, NoSample

\* An HTTP read changes its state.
LEMMA FetchInv ==
  ASSUME RelayInv, NEW k \in Key, NEW f \in Fetching, fetch' = [fetch EXCEPT ![k] = f],
         UNCHANGED <<now, offset, process, sequence, samples, reading, buffer, epoch, serial, retired, order, cache>>,
         f.serial <= serial, f.since <= now, f.answer.of \in {NoSample, samples[k]},
         f.pc = "answered" => f.since <= f.answer.published /\ epoch <= f.answer.of.epoch
  PROVE  RelayInv'
<1>1. fetch \in [Key -> Fetching]
  BY DEF RelayInv, RelayTypes, Fetching
<1>2. fetch' \in [Key -> Fetching] /\ fetch'[k] = f /\ \A x \in Key : x # k => fetch'[x] = fetch[x]
  BY <1>1
<1>3. RelayTypes'
  BY <1>2 DEF RelayInv, RelayTypes, Fetching
<1>4. \A x \in Key : Live(x)' \subseteq Live(x)
  BY <1>2 DEF Live
<1>5. Said' /\ InOrder'
  BY <1>4, SaysNothingNew DEF RelayInv, RelayTypes
<1>6. Answers'
  BY <1>2 DEF RelayInv, Answers
<1>7. Charged' /\ OneWay'
  BY DEF RelayInv, Charged, OneWay
<1> QED BY <1>3, <1>5, <1>6, <1>7 DEF RelayInv

LEMMA FetchStepsInv ==
  ASSUME RelayInv, NEW k \in Key, Fetch(k) \/ Snapshot(k) \/ FetchFails(k)
  PROVE  RelayInv'
<1>1. /\ now \in Nat /\ offset \in Offsets /\ serial \in Nat /\ process \in Nat /\ samples[k] \in Sample
      /\ fetch[k] \in Fetching /\ epoch <= process
      /\ fetch[k].serial <= serial /\ fetch[k].since <= now
  BY DEF RelayInv, RelayTypes, Answers, OneWay, Fetching
<1>2. UNCHANGED <<now, offset, process, sequence, samples, reading, buffer, epoch, serial, retired, order, cache>>
  BY DEF Fetch, Snapshot, FetchFails, Others, serverVars, accepted
<1>3. CASE Fetch(k)
  <2> DEFINE f == [NoFetch EXCEPT !.pc = "sent", !.since = now, !.offset = offset, !.serial = serial]
  <2>1. f \in Fetching /\ f.serial = serial /\ f.since = now /\ f.pc = "sent" /\ f.answer.of = NoSample
    BY <1>1, FetchFacts DEF Fetching
  <2>2. fetch' = [fetch EXCEPT ![k] = f]
    BY <1>3 DEF Fetch
  <2> HIDE DEF f
  <2>3. f.serial <= serial /\ f.since <= now /\ f.answer.of \in {NoSample, samples[k]} /\ f.pc # "answered"
    BY <1>1, <2>1
  <2> QED BY <1>2, <2>1, <2>2, <2>3, FetchInv
<1>4. CASE Snapshot(k)
  <2> DEFINE f == [fetch[k] EXCEPT !.pc = "answered", !.answer = Sealed(k)]
  <2>1. Sealed(k) \in Sealing /\ Sealed(k).of = samples[k] /\ Sealed(k).published = now
    BY <1>1 DEF Sealed, Sealing
  <2>2. /\ f \in Fetching /\ f.serial = fetch[k].serial /\ f.since = fetch[k].since
        /\ f.answer.of = samples[k] /\ f.answer.published = now
    BY <1>1, <2>1 DEF Fetching
  <2>3. fetch' = [fetch EXCEPT ![k] = f]
    BY <1>4 DEF Snapshot, RelayInv, RelayTypes
  <2> HIDE DEF f
  <2>4. samples[k].epoch = process
    BY <1>4 DEF Snapshot, Fresh, RelayInv, Said
  <2> QED BY <1>1, <1>2, <2>2, <2>3, <2>4, FetchInv
<1>5. CASE FetchFails(k)
  <2>1. fetch' = [fetch EXCEPT ![k] = NoFetch] /\ 0 <= serial /\ 0 <= now
    BY <1>1, <1>5 DEF FetchFails
  <2> QED BY <1>2, <2>1, FetchFacts, FetchInv
<1> QED BY <1>3, <1>4, <1>5

\* The age charged to a sample is at least what passed at the server, on the
\* way, and by the client's clock.
LEMMA AgeFacts ==
  ASSUME NEW e \in Sealing, NEW trip \in Nat, now \in Nat, offset \in Offsets
  PROVE  /\ Age(e, trip) \in Int
         /\ e.published - e.of.at + trip <= Age(e, trip) /\ Wall - e.of.at <= Age(e, trip)
<1>1. e.published \in Nat /\ e.of.at \in Nat /\ Wall \in Int
  BY RelayConstants DEF Sealing, Sample, Wall
<1>2. Abs(Wall - e.published) \in Int
  BY <1>1 DEF Abs
<1> DEFINE a == e.published - e.of.at + trip
           b == e.published - e.of.at + Abs(Wall - e.published)
           c == Wall - e.of.at
<1>3. a \in Int /\ b \in Int /\ c \in Int
  BY <1>1, <1>2
<1>4. Age(e, trip) = Max({a, b, c})
  BY DEF Age
<1> HIDE DEF a, b, c
<1>5. Age(e, trip) \in Int /\ a <= Age(e, trip) /\ c <= Age(e, trip)
  BY <1>3, <1>4, LargestOfThree
<1> QED BY <1>5 DEF a, c

\* A message or an answer is taken up.
LEMMA AcceptFacts ==
  ASSUME RelayInv, NEW k \in Key, NEW e \in Sealing, NEW trip \in Nat, NEW since \in Nat,
         NEW source \in {"ws", "http"}, Accept(k, e, trip, since, source),
         e.of = NoSample \/ e.of \in Live(k), source = "http" => now <= e.published + trip
  PROVE  /\ epoch' \in Nat /\ serial' \in Nat /\ retired' \in SUBSET Nat
         /\ order' \in [Key -> Nat] /\ cache' \in [Key -> Entry]
         /\ Charged' /\ epoch' <= process /\ epoch' \notin retired' /\ retired \subseteq retired'
         /\ \A x \in Key : cache'[x].of \in {cache[x].of, NoSample} \/ (x = k /\ cache'[x].of = e.of)
         /\ \/ epoch' = epoch /\ serial' = serial
            \/ since = serial /\ serial' = serial + 1 /\ epoch' = e.of.epoch
         /\ \A x \in Key : cache'[x] # NoEntry /\ cache[x] # NoEntry /\ cache'[x] # cache[x] /\ epoch' = epoch
               => cache'[x].of.at > cache[x].of.at
<1> DEFINE move == e.of.epoch # epoch
           known == IF move THEN [x \in Key |-> 0] ELSE order
           kept == IF move THEN [x \in Key |-> NoEntry] ELSE cache
           age == Age(e, trip)
           entry == [of |-> e.of, started |-> now - age, checked |-> Wall - age, source |-> source]
<1>1. /\ now \in Nat /\ offset \in Offsets /\ epoch \in Nat /\ serial \in Nat /\ retired \in SUBSET Nat
      /\ order \in [Key -> Nat] /\ cache \in [Key -> Entry] /\ process \in Nat
      /\ epoch <= process /\ epoch \notin retired
  BY DEF RelayInv, RelayTypes, OneWay
<1>2. /\ NoEntry \in Entry /\ NoEntry.of = NoSample /\ NoSample \in Sample
      /\ NoSample.seq = 0 /\ NoSample.epoch = 0
  <2>1. NoEntry \in Entry /\ NoEntry.of = NoSample
    BY FetchFacts DEF NoEntry, Entry
  <2> QED BY <2>1, FetchFacts
<1>3. e.of \in Sample /\ e.of.seq \in Nat /\ e.of.epoch \in Nat /\ e.of.at \in Nat
  BY DEF Sealing, Sample
<1>4. e.of.epoch <= process
  BY <1>1, <1>2 DEF RelayInv, Said
<1>5. /\ age \in Int /\ Wall \in Int /\ e.published - e.of.at + trip <= age /\ Wall - e.of.at <= age
      /\ e.published \in Nat
  <2>1. Wall \in Int /\ e.published \in Nat
    BY <1>1, RelayConstants DEF Wall, Sealing
  <2> QED BY <1>1, <2>1, AgeFacts
<1> HIDE DEF age
<1>6. entry \in Entry /\ entry.of = e.of /\ entry.started = now - age /\ entry.source = source
  BY <1>1, <1>3, <1>5 DEF Entry
<1>7. entry.started <= entry.of.at + Slack(entry.source)
  <2>1. CASE source = "http"
    BY <1>1, <1>3, <1>5, <1>6, <2>1, SlackFacts
  <2>2. CASE source = "ws"
    <3>1. 0 - offset <= Slack("ws") /\ Slack("ws") \in Int /\ offset \in Int
      BY <1>1, SlackFacts
    <3>2. now + offset - e.of.at <= age
      BY <1>1, <1>3, <1>5, <3>1 DEF Wall
    <3> QED BY <1>1, <1>3, <1>5, <1>6, <2>2, <3>1, <3>2
  <2> QED BY <2>1, <2>2
<1> HIDE DEF entry
<1>8. CASE UNCHANGED accepted
  <2>1. epoch' = epoch /\ serial' = serial /\ retired' = retired /\ order' = order /\ cache' = cache
    BY <1>8 DEF accepted
  <2>2. Charged'
    BY <2>1 DEF RelayInv, Charged
  <2> QED BY <1>1, <2>1, <2>2
<1>9. CASE ~UNCHANGED accepted
  <2>1. /\ e.of.epoch \notin retired /\ (since # serial => e.of.epoch = epoch)
        /\ epoch' = e.of.epoch /\ serial' = (IF move THEN serial + 1 ELSE serial)
        /\ retired' = (IF move /\ epoch # 0 THEN retired \cup {epoch} ELSE retired)
        /\ IF e.of.seq > known[k]
           THEN order' = [known EXCEPT ![k] = e.of.seq] /\ cache' = [kept EXCEPT ![k] = entry]
           ELSE order' = known /\ cache' = kept
    BY <1>9 DEF Accept, AdmissibleEpoch, age, entry
  <2>2. known \in [Key -> Nat] /\ kept \in [Key -> Entry] /\ known[k] \in Nat
    BY <1>1, <1>2
  <2>3. \A x \in Key : kept[x] # NoEntry => /\ ~move /\ kept[x] = cache[x] /\ known[x] = order[x]
                                            /\ kept[x].of # NoSample /\ kept[x].of.epoch = epoch
                                            /\ known[x] = kept[x].of.seq
                                            /\ kept[x].started <= kept[x].of.at + Slack(kept[x].source)
    BY DEF RelayInv, Charged
  <2>4. \A x \in Key : kept[x].of \in {cache[x].of, NoSample}
    BY <1>2
  <2>5. ~move => known = order /\ kept = cache
    OBVIOUS
  <2>6. epoch' \in Nat /\ serial' \in Nat /\ retired' \in SUBSET Nat /\ epoch' <= process
        /\ epoch' \notin retired' /\ retired \subseteq retired'
        /\ \/ epoch' = epoch /\ serial' = serial
           \/ since = serial /\ serial' = serial + 1 /\ epoch' = e.of.epoch
    BY <1>1, <1>3, <1>4, <2>1
  <2> HIDE DEF known, kept
  <2>7. CASE ~(e.of.seq > known[k])
    <3>1. order' = known /\ cache' = kept
      BY <2>1, <2>7
    <3>2. \A x \in Key : cache'[x] # NoEntry => ~move /\ cache'[x] = cache[x]
      BY <2>3, <3>1
    <3>3. Charged'
      BY <2>1, <2>3, <3>1 DEF Charged, Slack
    <3> QED BY <2>2, <2>4, <2>6, <3>1, <3>2, <3>3
  <2>8. CASE e.of.seq > known[k]
    <3>1. /\ order' = [known EXCEPT ![k] = e.of.seq] /\ cache' = [kept EXCEPT ![k] = entry]
      BY <2>1, <2>8
    <3>2. /\ order' \in [Key -> Nat] /\ cache' \in [Key -> Entry]
          /\ order'[k] = e.of.seq /\ cache'[k] = entry
          /\ \A x \in Key : x # k => order'[x] = known[x] /\ cache'[x] = kept[x]
      BY <1>3, <1>6, <2>2, <3>1
    <3>3. e.of # NoSample /\ e.of \in Live(k)
      BY <1>2, <1>3, <2>2, <2>8
    <3>4. Charged'
      <4> SUFFICES ASSUME NEW x \in Key, cache'[x] # NoEntry
                   PROVE  /\ cache'[x].of # NoSample /\ cache'[x].of.epoch = epoch' /\ order'[x] = cache'[x].of.seq
                          /\ cache'[x].started <= cache'[x].of.at + Slack(cache'[x].source)
        BY DEF Charged, Slack
      <4>1. CASE x = k
        BY <1>6, <1>7, <2>1, <3>2, <3>3, <4>1
      <4>2. CASE x # k
        BY <2>1, <2>3, <3>2, <4>2
      <4> QED BY <4>1, <4>2
    <3>5. \A x \in Key : cache'[x].of \in {cache[x].of, NoSample} \/ (x = k /\ cache'[x].of = e.of)
      BY <1>6, <2>4, <3>2
    <3>6. ASSUME NEW x \in Key, cache'[x] # NoEntry, cache[x] # NoEntry, cache'[x] # cache[x], epoch' = epoch
          PROVE  cache'[x].of.at > cache[x].of.at
      <4>1. ~move
        BY <2>1, <3>6
      <4>2. x = k
        BY <2>5, <3>2, <3>6, <4>1
      <4>3. cache[k].of # NoSample /\ cache[k].of.epoch = epoch /\ order[k] = cache[k].of.seq
        BY <3>6, <4>2 DEF RelayInv, Charged
      <4>4. cache[k].of \in Live(k) /\ cache[k].of \in Sample
        BY <1>1, <4>3 DEF Live, Entry
      <4>5. cache[k].of.at < e.of.at
        BY <2>5, <2>8, <3>3, <4>1, <4>3, <4>4 DEF RelayInv, InOrder
      <4> QED BY <1>3, <1>6, <3>2, <4>2, <4>4, <4>5 DEF Sample
    <3> QED BY <2>6, <3>2, <3>4, <3>5, <3>6
  <2> QED BY <2>7, <2>8
<1> QED BY <1>8, <1>9

\* What becomes of the state when something was taken up.
LEMMA TakenUp ==
  ASSUME RelayInv, NEW k \in Key, NEW e \in Sealing, e.of = NoSample \/ e.of \in Live(k),
         UNCHANGED <<now, offset, process, sequence, samples, reading>>,
         epoch' \in Nat, serial' \in Nat, retired' \in SUBSET Nat,
         order' \in [Key -> Nat], cache' \in [Key -> Entry],
         Charged', epoch' <= process, epoch' \notin retired',
         \A x \in Key : cache'[x].of \in {cache[x].of, NoSample} \/ (x = k /\ cache'[x].of = e.of),
         (epoch' = epoch /\ serial' = serial) \/ serial' = serial + 1,
         buffer' \in Seq([key : Key, m : Sealing]),
         \A i \in DOMAIN buffer' : \E j \in DOMAIN buffer : buffer'[i] = buffer[j],
         fetch' \in [Key -> Fetching], \A x \in Key : fetch'[x] \in {fetch[x], NoFetch}
  PROVE  RelayInv'
<1>1. RelayTypes'
  BY DEF RelayInv, RelayTypes, Fetching
<1>2. \A x \in Key : Live(x)' \subseteq Live(x)
  <2> SUFFICES ASSUME NEW x \in Key, NEW s \in Live(x)' PROVE s \in Live(x)
    OBVIOUS
  <2>1. s # NoSample /\ samples' = samples
    BY DEF Live
  <2>2. CASE s = samples'[x]
    BY <2>1, <2>2 DEF Live
  <2>3. CASE s = fetch'[x].answer.of
    BY <2>1, <2>3, FetchFacts DEF Live
  <2>4. CASE s = cache'[x].of
    BY <2>1, <2>4 DEF Live
  <2>5. CASE \E i \in DOMAIN buffer' : buffer'[i].key = x /\ s = buffer'[i].m.of
    BY <2>1, <2>5 DEF Live
  <2> QED BY <2>2, <2>3, <2>4, <2>5 DEF Live
<1>3. Said' /\ InOrder'
  BY <1>2, SaysNothingNew DEF RelayInv, RelayTypes
<1>4. Answers'
  <2> SUFFICES ASSUME NEW x \in Key
               PROVE  /\ fetch'[x].serial <= serial' /\ fetch'[x].since <= now
                      /\ fetch'[x].pc = "answered" =>
                            /\ fetch'[x].since <= fetch'[x].answer.published
                            /\ fetch'[x].serial = serial' => epoch' <= fetch'[x].answer.of.epoch
    BY DEF Answers
  <2>1. serial \in Nat /\ now \in Nat /\ fetch[x].serial \in Nat
    BY DEF RelayInv, RelayTypes
  <2>2. /\ fetch[x].serial <= serial /\ fetch[x].since <= now
        /\ fetch[x].pc = "answered" => /\ fetch[x].since <= fetch[x].answer.published
                                       /\ fetch[x].serial = serial => epoch <= fetch[x].answer.of.epoch
    BY DEF RelayInv, Answers
  <2>3. CASE fetch'[x] = NoFetch
    BY <2>1, <2>3, FetchFacts
  <2>4. CASE fetch'[x] = fetch[x]
    BY <2>1, <2>2, <2>4
  <2> QED BY <2>3, <2>4
<1>5. OneWay'
  BY DEF OneWay
<1> QED BY <1>1, <1>3, <1>4, <1>5 DEF RelayInv

\* What the client may never do.
Forward ==
    /\ \A k \in Key : cache'[k] # NoEntry /\ cache[k] # NoEntry /\ cache'[k] # cache[k] /\ epoch' = epoch
          => cache'[k].of.at > cache[k].of.at
    /\ epoch' \notin retired' /\ retired \subseteq retired'
    /\ buffer' = buffer => epoch' >= epoch

LEMMA ReceiveInv ==
  ASSUME RelayInv, Receive
  PROVE  RelayInv' /\ Forward
<1> DEFINE k == Head(buffer).key
           e == Head(buffer).m
<1>1. buffer \in Seq([key : Key, m : Sealing]) /\ buffer # <<>> /\ buffer' = Tail(buffer)
      /\ now \in Nat /\ serial \in Nat /\ epoch \in Nat /\ fetch \in [Key -> Fetching]
  BY DEF Receive, RelayInv, RelayTypes, Fetching
<1>2. UNCHANGED <<now, offset, process, sequence, samples, reading, fetch>>
  BY DEF Receive, Others, serverVars
<1>3. /\ Head(buffer) \in [key : Key, m : Sealing] /\ Tail(buffer) \in Seq([key : Key, m : Sealing])
      /\ Len(Tail(buffer)) = Len(buffer) - 1
      /\ \A i \in 1 .. Len(Tail(buffer)) : Tail(buffer)[i] = buffer[i + 1]
      /\ Len(buffer) \in Nat /\ Len(buffer) # 0 /\ Head(buffer) = buffer[1]
      /\ DOMAIN buffer = 1 .. Len(buffer) /\ DOMAIN Tail(buffer) = 1 .. Len(Tail(buffer))
  <2>1. /\ Head(buffer) \in [key : Key, m : Sealing] /\ Tail(buffer) \in Seq([key : Key, m : Sealing])
        /\ Len(Tail(buffer)) = Len(buffer) - 1
        /\ \A i \in 1 .. Len(Tail(buffer)) : Tail(buffer)[i] = buffer[i + 1]
    BY <1>1, HeadTailProperties
  <2>2. /\ Len(buffer) \in Nat /\ Len(buffer) # 0 /\ Head(buffer) = buffer[1]
        /\ DOMAIN buffer = 1 .. Len(buffer)
    BY <1>1, EmptySeq
  <2>3. DOMAIN Tail(buffer) = 1 .. Len(Tail(buffer))
    BY <2>1
  <2> QED BY <2>1, <2>2, <2>3
<1>4. k \in Key /\ e \in Sealing /\ Accept(k, e, 0, serial, "ws")
  BY <1>3 DEF Receive
<1>5. e.of = NoSample \/ e.of \in Live(k)
  <2>1. 1 \in DOMAIN buffer /\ buffer[1].key = k /\ buffer[1].m.of = e.of
    BY <1>3
  <2> HIDE DEF k, e
  <2> QED BY <2>1 DEF Live
<1>6. \A i \in DOMAIN buffer' : \E j \in DOMAIN buffer : buffer'[i] = buffer[j]
  <2> SUFFICES ASSUME NEW i \in 1 .. Len(Tail(buffer)) PROVE \E j \in DOMAIN buffer : Tail(buffer)[i] = buffer[j]
    BY <1>1, <1>3
  <2>1. i + 1 \in DOMAIN buffer
    BY <1>3
  <2> QED BY <1>3, <2>1
<1>7. buffer' # buffer
  <2>1. Len(Tail(buffer)) = Len(buffer) - 1 /\ Len(buffer) \in Nat
    BY <1>3
  <2>2. Len(Tail(buffer)) # Len(buffer)
    BY <2>1
  <2>3. Tail(buffer) # buffer
    BY <2>2
  <2> QED BY <1>1, <2>3
<1> HIDE DEF k, e
<1>8. /\ epoch' \in Nat /\ serial' \in Nat /\ retired' \in SUBSET Nat
      /\ order' \in [Key -> Nat] /\ cache' \in [Key -> Entry]
      /\ Charged' /\ epoch' <= process /\ epoch' \notin retired' /\ retired \subseteq retired'
      /\ \A x \in Key : cache'[x].of \in {cache[x].of, NoSample} \/ (x = k /\ cache'[x].of = e.of)
      /\ \/ epoch' = epoch /\ serial' = serial
         \/ serial = serial /\ serial' = serial + 1 /\ epoch' = e.of.epoch
      /\ \A x \in Key : cache'[x] # NoEntry /\ cache[x] # NoEntry /\ cache'[x] # cache[x] /\ epoch' = epoch
            => cache'[x].of.at > cache[x].of.at
  BY <1>1, <1>4, <1>5, AcceptFacts
<1>9. RelayInv'
  <2>1. buffer' \in Seq([key : Key, m : Sealing])
    BY <1>1, <1>3
  <2>2. fetch' \in [Key -> Fetching] /\ \A x \in Key : fetch'[x] \in {fetch[x], NoFetch}
    BY <1>1, <1>2
  <2>3. (epoch' = epoch /\ serial' = serial) \/ serial' = serial + 1
    BY <1>8
  <2>4. UNCHANGED <<now, offset, process, sequence, samples, reading>>
    BY <1>2
  <2> QED BY <1>4, <1>5, <1>6, <1>8, <2>1, <2>2, <2>3, <2>4, TakenUp
<1>10. Forward
  BY <1>7, <1>8 DEF Forward
<1> QED BY <1>9, <1>10

LEMMA FetchDoneInv ==
  ASSUME RelayInv, NEW k \in Key, FetchDone(k)
  PROVE  RelayInv' /\ Forward
<1> DEFINE e == fetch[k].answer
<1>1. /\ now \in Nat /\ serial \in Nat /\ epoch \in Nat /\ retired \in SUBSET Nat /\ process \in Nat
      /\ fetch \in [Key -> Fetching] /\ fetch[k].since \in Nat /\ fetch[k].serial \in Nat /\ e \in Sealing
      /\ buffer \in Seq([key : Key, m : Sealing]) /\ order \in [Key -> Nat] /\ cache \in [Key -> Entry]
      /\ epoch <= process /\ epoch \notin retired
  BY DEF RelayInv, RelayTypes, Fetching, OneWay
<1>2. UNCHANGED <<now, offset, process, sequence, samples, reading, buffer>>
      /\ fetch' = [fetch EXCEPT ![k] = NoFetch] /\ fetch[k].pc = "answered"
  BY DEF FetchDone, Others, serverVars
<1>3. fetch' \in [Key -> Fetching] /\ \A x \in Key : fetch'[x] \in {fetch[x], NoFetch}
  BY <1>1, <1>2, FetchFacts
<1>4. /\ fetch[k].since <= now /\ fetch[k].since <= e.published
      /\ fetch[k].serial = serial => epoch <= e.of.epoch
  BY <1>2 DEF RelayInv, Answers
<1>5. e.of = NoSample \/ e.of \in Live(k)
  BY DEF Live
<1>6. \A i \in DOMAIN buffer' : \E j \in DOMAIN buffer : buffer'[i] = buffer[j]
  BY <1>2
<1>7. CASE UNCHANGED accepted
  <2>1. epoch' = epoch /\ serial' = serial /\ retired' = retired /\ order' = order /\ cache' = cache
    BY <1>7 DEF accepted
  <2>2. Charged'
    BY <2>1 DEF RelayInv, Charged
  <2>3. Forward
    BY <1>1, <2>1 DEF Forward
  <2> QED BY <1>1, <1>2, <1>3, <1>5, <1>6, <2>1, <2>2, <2>3, TakenUp
<1>8. CASE Accept(k, e, now - fetch[k].since, fetch[k].serial, "http")
  <2>1. now - fetch[k].since \in Nat /\ now <= e.published + (now - fetch[k].since) /\ e.published \in Nat
    BY <1>1, <1>4 DEF Sealing
  <2> HIDE DEF e
  <2>2. /\ epoch' \in Nat /\ serial' \in Nat /\ retired' \in SUBSET Nat
        /\ order' \in [Key -> Nat] /\ cache' \in [Key -> Entry]
        /\ Charged' /\ epoch' <= process /\ epoch' \notin retired' /\ retired \subseteq retired'
        /\ \A x \in Key : cache'[x].of \in {cache[x].of, NoSample} \/ (x = k /\ cache'[x].of = e.of)
        /\ \/ epoch' = epoch /\ serial' = serial
           \/ fetch[k].serial = serial /\ serial' = serial + 1 /\ epoch' = e.of.epoch
        /\ \A x \in Key : cache'[x] # NoEntry /\ cache[x] # NoEntry /\ cache'[x] # cache[x] /\ epoch' = epoch
              => cache'[x].of.at > cache[x].of.at
    BY <1>1, <1>5, <1>8, <2>1, AcceptFacts
  <2>3. RelayInv'
    <3>1. buffer' \in Seq([key : Key, m : Sealing])
      BY <1>1, <1>2
    <3>2. (epoch' = epoch /\ serial' = serial) \/ serial' = serial + 1
      BY <2>2
    <3>3. UNCHANGED <<now, offset, process, sequence, samples, reading>>
      BY <1>2
    <3>4. e \in Sealing /\ (e.of = NoSample \/ e.of \in Live(k))
      BY <1>1, <1>5
    <3> QED BY <1>3, <1>6, <2>2, <3>1, <3>2, <3>3, <3>4, TakenUp
  <2>4. epoch' >= epoch
    BY <1>1, <1>4, <2>2
  <2>5. Forward
    BY <2>2, <2>4 DEF Forward
  <2> QED BY <2>3, <2>5
<1> QED BY <1>7, <1>8 DEF FetchDone

LEMMA RelayInvNext == RelayInv /\ RelayNext => RelayInv' /\ Forward
<1> SUFFICES ASSUME RelayInv, RelayNext PROVE RelayInv' /\ Forward
  OBVIOUS
<1>1. ASSUME UNCHANGED accepted PROVE Forward
  <2>1. epoch \in Nat /\ epoch \notin retired
    BY DEF RelayInv, RelayTypes, OneWay
  <2> QED BY <1>1, <2>1 DEF Forward, accepted
<1>2. CASE Receive
  BY <1>2, ReceiveInv
<1>3. ASSUME NEW k \in Key, FetchDone(k) PROVE RelayInv' /\ Forward
  BY <1>3, FetchDoneInv
<1>4. ASSUME NEW k \in Key, SampleStart(k) PROVE RelayInv' /\ Forward
  BY <1>1, <1>4, SampleStartInv DEF SampleStart, clientVars, accepted
<1>5. ASSUME NEW k \in Key, SampleDone(k) PROVE RelayInv' /\ Forward
  BY <1>1, <1>5, SampleDoneInv DEF SampleDone, clientVars, accepted
<1>6. ASSUME NEW k \in Key, SampleFails(k) PROVE RelayInv' /\ Forward
  BY <1>1, <1>6, SampleFailsInv DEF SampleFails, clientVars, accepted
<1>7. ASSUME NEW k \in Key, Push(k) PROVE RelayInv' /\ Forward
  BY <1>1, <1>7, PushInv DEF Push, accepted
<1>8. ASSUME NEW k \in Key, Fetch(k) \/ Snapshot(k) \/ FetchFails(k) PROVE RelayInv' /\ Forward
  BY <1>1, <1>8, FetchStepsInv DEF Fetch, Snapshot, FetchFails, accepted
<1>9. CASE LetGo \/ Connect \/ Disconnect
  BY <1>1, <1>9, ConnectionInv DEF LetGo, Connect, Disconnect, clientVars, accepted
<1>10. CASE Pass \/ \E o \in Offsets : SetClock(o)
  BY <1>1, <1>10, TimeInv DEF Pass, SetClock, clientVars, accepted
<1>11. CASE RelayRestart
  BY <1>1, <1>11, RelayRestartInv DEF RelayRestart, clientVars, accepted
<1> QED BY <1>2, <1>3, <1>4, <1>5, <1>6, <1>7, <1>8, <1>9, <1>10, <1>11 DEF RelayNext

LEMMA RelayInvStutters == RelayInv /\ UNCHANGED relayVars => RelayInv'
<1> SUFFICES ASSUME RelayInv, UNCHANGED relayVars PROVE RelayInv'
  OBVIOUS
<1>1. UNCHANGED <<now, offset, process, sequence, samples, reading, buffer, fetch, epoch, serial, retired, order, cache>>
  BY DEF relayVars, serverVars, clientVars
<1>2. \A x \in Key : Live(x)' = Live(x)
  BY <1>1 DEF Live
<1> QED BY <1>1, <1>2 DEF RelayInv, RelayTypes, Said, InOrder, Answers, Charged, OneWay

\* What the relay's two ends know of each other's samples holds in every
\* reachable state.
THEOREM RelayInvariance == RelaySpec => []RelayInv
<1>1. RelayInv /\ [RelayNext]_relayVars => RelayInv'
  BY RelayInvNext, RelayInvStutters
<1> QED BY <1>1, RelayInvInit, PTL DEF RelaySpec

\* A cached sample is never taken for younger than it is, give or take the
\* clocks if it was streamed.
THEOREM AgeIsNeverUnderstated == RelaySpec => []AgeIsHonest
<1>1. ASSUME RelayInv, NEW k \in Key, cache[k] # NoEntry
      PROVE  now - cache[k].of.at
                <= ReadAge(k) + IF cache[k].source = "http" THEN 0 ELSE Max({Abs(o) : o \in Offsets})
  <2>1. /\ now \in Nat /\ Wall \in Int /\ cache[k].started \in Int /\ cache[k].checked \in Int
        /\ cache[k].of.at \in Nat /\ cache[k].source \in {"ws", "http"}
    <3>1. now \in Nat /\ offset \in Int /\ cache[k] \in Entry
      BY <1>1, RelayConstants DEF RelayInv, RelayTypes
    <3>2. Wall \in Int
      BY <3>1 DEF Wall
    <3> QED BY <3>1, <3>2 DEF Entry, Sample
  <2>2. now - cache[k].started <= ReadAge(k) /\ ReadAge(k) \in Int
    <3>1. now - cache[k].started \in Int /\ Wall - cache[k].checked \in Int
      BY <2>1
    <3> QED BY <3>1, LargestOfTwo DEF ReadAge
  <2>3. cache[k].started <= cache[k].of.at + Slack(cache[k].source) /\ Slack(cache[k].source) \in Int
    BY <1>1, <2>1, SlackFacts DEF RelayInv, Charged
  <2>4. now - cache[k].of.at <= ReadAge(k) + Slack(cache[k].source)
    BY <2>1, <2>2, <2>3
  <2> QED BY <2>4 DEF Slack
<1>2. RelayInv => AgeIsHonest
  BY <1>1 DEF AgeIsHonest
<1> QED BY <1>2, RelayInvariance, PTL

\* Within an epoch samples are replaced by later ones only, a retired epoch
\* never returns, and an HTTP answer never goes back to an earlier process.
THEOREM RelayOnlyMovesForward == RelaySpec => OnlyForward
<1>1. RelayInv /\ [RelayNext]_relayVars => [Forward]_relayVars
  BY RelayInvNext
<1>2. RelaySpec => [][Forward]_relayVars
  BY <1>1, RelayInvariance, PTL DEF RelaySpec
<1> QED BY <1>2 DEF OnlyForward, Forward

=============================================================================

----------------------------- MODULE RateBudget -----------------------------
(***************************************************************************)
(* RateBudget of exchange.py: the estimate of the request weight that      *)
(* Aster has counted against this host in the current minute, shared by    *)
(* every thread, and API.call around one request.                          *)
(*                                                                         *)
(* Every request weighs 1.  Responses may arrive in any order, lose their  *)
(* headers or never arrive; other programs behind the same address use     *)
(* weight too.  A request is counted, if ever, before its caller gives up. *)
(***************************************************************************)
EXTENDS Integers, FiniteSets

CONSTANTS
    Request,          \* names of requests that may be under way
    Minute,           \* seconds of a minute
    Limit,            \* the weight this process allows itself in a minute
    Reserve,          \* kept for finishing an intent (reconciliation)
    CapacityReserve,  \* kept for capacity monitoring
    Delay,            \* the delays of a cooldown, in seconds
    \* bounds
    MaxTime, MaxForeign, MaxLosses, MaxBans

ASSUME BudgetConstants ==
    /\ Minute \in Nat \ {0}
    /\ Limit \in Nat /\ Reserve \in 0 .. Limit /\ CapacityReserve \in 0 .. (Limit - Reserve)
    /\ Delay \subseteq Nat
    /\ {MaxTime, MaxForeign, MaxLosses, MaxBans} \subseteq Nat

VARIABLES
    time,        \* monotonic, and the exchange's clock
    deadline, minute, weight, reported, until,   \* RateBudget; minute = -1: server_minute is None
    unreported,  \* finished without an answer that says what was counted
    request,     \* per request: where it is, its class, its answer
    served,      \* at Aster: the requests counted in the current minute
    foreign,     \* at Aster: the weight other programs used in it
    spent        \* lost answers and cooldowns so far, for their bounds

budgetVars == <<time, deadline, minute, weight, reported, until, unreported, request, served, foreign, spent>>
local == <<deadline, minute, weight, reported, until, unreported>>

Class == {"critical", "monitor", "execution"}
Time  == 0 .. MaxTime
MinuteOf(t) == t \div Minute

New == [pc |-> "new", class |-> "none", stamp |-> -1, used |-> 0]
Inflight == {r \in Request : request[r].pc \in {"reserved", "sent", "counted"}}

BudgetTypeOK ==
    /\ time \in Time /\ deadline \in Nat /\ minute \in Int /\ weight \in Nat
    /\ reported \in Nat /\ until \in Nat
    /\ unreported \subseteq [at : Time, request : Request]
    /\ request \in [Request -> [pc : {"new", "reserved", "sent", "counted", "limited"},
                                class : Class \cup {"none"}, stamp : Time \cup {-1}, used : Nat]]
    /\ served \subseteq [request : Request, class : Class]
    /\ foreign \in 0 .. MaxForeign
    /\ spent \in [losses : 0 .. MaxLosses, bans : 0 .. MaxBans]

\* The process may start at any moment of an exchange minute.
BudgetInit ==
    /\ time \in 0 .. (Minute - 1)
    /\ deadline = time + Minute /\ minute = -1 /\ weight = 0 /\ reported = 0 /\ until = 0
    /\ unreported = {} /\ request = [r \in Request |-> New]
    /\ served = {} /\ foreign = 0
    /\ spent = [losses |-> 0, bans |-> 0]

-----------------------------------------------------------------------------
(* The state of the budget, as its methods compute it under the lock *)

Kept(u)     == {x \in u : x.at > time - Minute}
\* Mutant: a request whose answer was lost is taken for one that was not counted.
CarryInflight(s, u) == Cardinality(s)

Carry(s, u) == Cardinality(s) + Cardinality(Kept(u))

Budget == [deadline |-> deadline, minute |-> minute, weight |-> weight, reported |-> reported]

\* _refresh: a minute that is over takes along only what may be counted in
\* the next one.
Refreshed ==
    IF time < deadline THEN Budget
    ELSE LET steps == (time - deadline) \div Minute + 1 IN
         [deadline |-> deadline + steps * Minute,
          minute   |-> IF minute = -1 THEN -1 ELSE minute + steps,
          weight   |-> Carry(Inflight, unreported),
          reported |-> 0]

Become(b) ==
    /\ deadline' = b.deadline /\ minute' = b.minute
    /\ weight' = b.weight /\ reported' = b.reported

Larger(a, b) == IF a > b THEN a ELSE b

\* _ordinary_limit, _execution_limit; only an intent that is being finished
\* reaches the whole limit.
Allowed(class) ==
    CASE class = "critical" -> Limit
      [] class = "monitor"  -> Limit - Reserve
      [] OTHER              -> Limit - Reserve - CapacityReserve

Admissible(class) == time >= until /\ Refreshed.weight + 1 <= Allowed(class)

-----------------------------------------------------------------------------
(* Environment *)

NextSecond ==
    /\ time < MaxTime /\ time' = time + 1
    /\ IF MinuteOf(time') = MinuteOf(time) THEN UNCHANGED <<served, foreign>>
       ELSE served' = {} /\ foreign' = 0
    /\ UNCHANGED <<local, request, spent>>

OthersUse ==
    /\ foreign < MaxForeign /\ foreign' = foreign + 1
    /\ UNCHANGED <<time, local, request, served, spent>>

\* Aster counts a request in the minute it serves it, and its answer reports
\* the weight of that minute so far.
Count(r) ==
    /\ request[r].pc = "sent"
    /\ served' = served \cup {[request |-> r, class |-> request[r].class]}
    /\ request' = [request EXCEPT ![r].pc = "counted", ![r].stamp = time,
                                  ![r].used = Cardinality(served') + foreign]
    /\ UNCHANGED <<time, local, foreign, spent>>

-----------------------------------------------------------------------------
(* API.call *)

\* reserve.  (A name is used again once nothing remembers it.)
Unused(r) == /\ request[r] = New
             /\ \A x \in served \cup Kept(unreported) : x.request # r

Admit(r, class) ==
    /\ Unused(r) /\ Admissible(class)
    /\ Become([Refreshed EXCEPT !.weight = @ + 1])
    /\ request' = [request EXCEPT ![r].pc = "reserved", ![r].class = class]
    /\ unreported' = Kept(unreported)
    /\ UNCHANGED <<time, until, served, foreign, spent>>

\* require_available, snapshot, and a reserve that is refused.
Look ==
    /\ Refreshed # Budget /\ Become(Refreshed)
    /\ UNCHANGED <<time, until, unreported, request, served, foreign, spent>>

\* signed_parameters fails: the one case that gives the weight back.
CancelUnstarted(r) ==
    /\ request[r].pc = "reserved"
    /\ Become([Refreshed EXCEPT !.weight = Larger(Refreshed.reported, @ - 1)])
    /\ request' = [request EXCEPT ![r] = New]
    /\ UNCHANGED <<time, until, unreported, served, foreign, spent>>

Dispatch(r) ==
    /\ request[r].pc = "reserved"
    /\ request' = [request EXCEPT ![r].pc = "sent"]
    /\ UNCHANGED <<time, local, served, foreign, spent>>

\* finish, or observe of an answer without the header: nothing tells whether
\* the request was counted.
Lose(r) ==
    /\ request[r].pc \in {"sent", "counted"}
    /\ spent.losses < MaxLosses /\ spent' = [spent EXCEPT !.losses = @ + 1]
    /\ unreported' = Kept(unreported) \cup {[at |-> time, request |-> r]}
    /\ request' = [request EXCEPT ![r] = New]
    /\ UNCHANGED <<time, deadline, minute, weight, reported, until, served, foreign>>

\* Mutant: the minute of an answer that comes late is taken for the current one.
ObservedLate(r) ==
    LET b     == Refreshed
        stamp == request[r].stamp
        carry == Carry(Inflight \ {r}, unreported)
        moved == b.minute # MinuteOf(stamp)
        known == IF moved THEN [b EXCEPT !.minute = MinuteOf(stamp), !.reported = 0, !.weight = 1 + carry,
                                         !.deadline = time + Minute + 1 - (stamp % Minute)] ELSE b
        most  == Larger(known.reported, request[r].used)
    IN  [known EXCEPT !.reported = most, !.weight = Larger(@, most + carry)]

\* observe: an answer of an earlier minute is old news; one of a later minute
\* starts that minute, whose end is a minute and a second after its Date.
Observed(r) ==
    LET b     == Refreshed
        stamp == request[r].stamp
        m     == MinuteOf(stamp)
        carry == Carry(Inflight \ {r}, unreported)
        fresh == IF b.minute # -1 /\ m > b.minute
                 THEN [b EXCEPT !.weight = 1 + carry, !.reported = 0] ELSE b
        known == IF m = b.minute THEN fresh
                 ELSE [fresh EXCEPT !.minute = m, !.deadline = time + Minute + 1 - (stamp % Minute)]
        most  == Larger(known.reported, request[r].used)
    IN  IF b.minute # -1 /\ m < b.minute THEN b
        ELSE [known EXCEPT !.reported = most, !.weight = Larger(@, most + carry)]

Observe(r) ==
    /\ request[r].pc = "counted" /\ Become(Observed(r))
    /\ \/ request' = [request EXCEPT ![r] = New] /\ UNCHANGED spent
       \/ /\ spent.bans < MaxBans /\ spent' = [spent EXCEPT !.bans = @ + 1]
          /\ request' = [request EXCEPT ![r] = [New EXCEPT !.pc = "limited"]]
    /\ UNCHANGED <<time, until, unreported, served, foreign>>

\* block, in its own critical section after observe: 403, 429, 418, -1003, -1015.
Block(r) ==
    /\ request[r].pc = "limited"
    /\ request' = [request EXCEPT ![r] = New]
    /\ \E d \in Delay : until' = Larger(until, time + d)
    /\ UNCHANGED <<time, deadline, minute, weight, reported, unreported, served, foreign, spent>>

BudgetNext ==
    \/ NextSecond \/ OthersUse \/ Look
    \/ \E r \in Request :
          \/ \E c \in Class : Admit(r, c)
          \/ CancelUnstarted(r) \/ Dispatch(r) \/ Count(r)
          \/ Lose(r) \/ Observe(r) \/ Block(r)

BudgetSpec == BudgetInit /\ [][BudgetNext]_budgetVars

-----------------------------------------------------------------------------
(* Properties *)

\* What the exchange has counted for this process in its current minute, and
\* what it may still count, never exceeds the estimate the next admission
\* uses, whatever the order, delay or loss of the answers.
EstimateCovers ==
    Cardinality({x.request : x \in served} \cup Inflight) <= Refreshed.weight

\* In no minute of the exchange does this process use more than its limit;
\* its executions and its monitoring leave the weight that is reserved for
\* finishing an intent that is under way, and its executions also the weight
\* reserved for monitoring.
LimitsKept ==
    /\ Cardinality(served) <= Limit
    /\ Cardinality({x \in served : x.class # "critical"}) <= Limit - Reserve
    /\ Cardinality({x \in served : x.class = "execution"}) <= Limit - Reserve - CapacityReserve

=============================================================================

----------------------------- MODULE Scheduler ------------------------------
(***************************************************************************)
(* The scheduler's loop (TradingEngine.run in src/trading/engine.py with   *)
(* AccountWork in scheduling.py) and one of each of its jobs: the turn of  *)
(* an account that cycles, the refresh of that account's hot data and the  *)
(* turn of a group.  A job runs in a worker thread; the loop starts it     *)
(* when it is due or was asked for, and never twice at a time.             *)
(*                                                                         *)
(* A pass takes several steps, and quotes, controls and workers change     *)
(* between them what it goes by.  A time is in the future or not: Elapse   *)
(* lets one pass.  A quote is fresh or not and shows a chance or not       *)
(* (cycle_public_hint: the public conditions of the next phase); the       *)
(* identity of a quote and the opportunity it belongs to are compared with *)
(* the present ones only, and are kept as the result.  A sample of the     *)
(* quota that changes the identity is a quote as well.                     *)
(***************************************************************************)
EXTENDS Integers

CONSTANT MaxEvents      \* bound: things that happen outside the loop

ASSUME SchedulerBound == MaxEvents \in Nat

Job == {"account", "hot", "group"}

VARIABLES
    step,       \* what the loop does next
    running,    \* pending: the worker of each job
    due,        \* due: whether a job's time is in the future
    borrowed,   \* cycle_job_due: the account's time while a fast attempt runs
    backoff,    \* AccountWork.backoff and quote_backoff; hot_backoff
    wake,       \* AccountWork.wake, hot_wake; a revision of the group not yet noted
    turn,       \* AccountWork.urgent, followup and priority, and the start of turns
    saved,      \* saved_accounts: what the loop knows of the account
    actual,     \* the account: enabled, its open batch, its ordinary read
    offer,      \* cycle_market_updates
    cycle,      \* CycleWake, and the opportunity of the pass
    pick,       \* what the pass has chosen
    owed,       \* ghost: jobs that are due or asked for, since which pass
    chance,     \* ghost: an opening nobody tried, since which pass
    events      \* what was used of the bound

schedulerVars == <<step, running, due, borrowed, backoff, wake, turn, saved, actual, offer,
                   cycle, pick, owed, chance, events>>
loop   == <<step, due, borrowed, saved, pick>>
hopes == <<owed, chance>>

Since == {"no", "new", "old"}
Time  == {"now", "later", "last"}   \* last: after the backoff as well

Worker   == {"none", "idle", "run", "done", "failed"}
Urgency  == {"no", "low", "high"}
Backoffs == [account : {"no", "quote", "full"}, hot : {"no", "full"}]
Turns    == [urgent : BOOLEAN, prio : Urgency, active : Urgency, paced : BOOLEAN, throttled : BOOLEAN]
Listing  == [enabled : BOOLEAN, known : BOOLEAN, moved : BOOLEAN, listed : BOOLEAN]
Account  == [enabled : BOOLEAN, intent : BOOLEAN, read : {"none", "reading", "landed", "ready"}]
Offers   == [fresh : BOOLEAN, chance : BOOLEAN]
Wakes    == [seen : {"none", "same", "newer", "moved"}, opp : {"none", "same", "slipped", "other"},
             signal : {"none", "fresh", "stale"}, deferred : BOOLEAN, after : BOOLEAN,
             next : {"same", "slipped", "other"}]
Picks    == [urgent : BOOLEAN, prio : Urgency, fast : BOOLEAN]

SchedulerTypeOK ==
    /\ step \in {"wait", "list", "look", "compare", "mark", "take", "start"}
    /\ running \in [Job -> Worker] /\ due \in [Job -> Time] /\ borrowed \in Time \cup {"no"}
    /\ backoff \in Backoffs /\ wake \in [Job -> BOOLEAN] /\ turn \in Turns
    /\ saved \in Listing /\ actual \in Account /\ offer \in Offers
    /\ cycle \in Wakes /\ pick \in Picks
    /\ owed \in [Job -> Since] /\ chance \in Since
    /\ events \in 0 .. MaxEvents

Free(j)  == running[j] = "idle"
NoChoice == [urgent |-> FALSE, prio |-> "no", fast |-> FALSE]

\* The process has started; a batch may be left by the one before.  There may
\* be no group, no account of its own or, on paper, no hot data.
SchedulerInit ==
    /\ step = "wait"
    /\ \E jobs \in SUBSET Job : running = [j \in Job |-> IF j \in jobs THEN "idle" ELSE "none"]
    /\ due = [j \in Job |-> "now"] /\ borrowed = "no"
    /\ backoff = [account |-> "no", hot |-> "no"]
    /\ wake = [j \in Job |-> j = "group" /\ Free(j)]
    /\ turn = [urgent |-> FALSE, prio |-> "no", active |-> "no", paced |-> FALSE, throttled |-> FALSE]
    /\ saved = [enabled |-> FALSE, known |-> FALSE, moved |-> TRUE, listed |-> FALSE]
    /\ \E left \in BOOLEAN : actual = [enabled |-> TRUE, intent |-> left, read |-> "none"]
    /\ offer = [fresh |-> FALSE, chance |-> FALSE]
    /\ cycle = [seen |-> "none", opp |-> "none", signal |-> "none", deferred |-> FALSE,
                after |-> FALSE, next |-> "same"]
    /\ pick = NoChoice
    /\ owed = [j \in Job |-> IF Free(j) THEN "new" ELSE "no"] /\ chance = "new"
    /\ events = 0

Happens == events < MaxEvents /\ events' = events + 1

\* Something that held a job back is over: the next pass may start it.
Again(since) == IF since = "old" THEN "new" ELSE since

Fast == borrowed # "no"

\* The present opportunity was noted before; slipped (ghost): over a
\* publication that meant it to be looked at again.
Noted == {"same", "slipped"}

\* CycleWake.rearm.
Rearm(c) == [c EXCEPT !.seen = "none", !.opp = "none", !.deferred = FALSE]

-----------------------------------------------------------------------------
(* Quotes and time *)

\* on_cycle_market_update.
NewQuote ==
    /\ Happens
    /\ \E open \in BOOLEAN : offer' = [fresh |-> TRUE, chance |-> open]
    /\ cycle' = [cycle EXCEPT !.seen = IF @ = "none" THEN @ ELSE "newer"]
    /\ chance' = IF chance # "no" \/ ~Free("account") THEN "new" ELSE chance
    /\ UNCHANGED <<loop, running, backoff, wake, turn, actual, owed>>

\* fresh_cycle_signal: CYCLE_SIGNAL_MAX_AGE.  A signal from an older quote
\* ages first.
Age ==
    /\ Happens
    /\ \/ /\ cycle.signal = "fresh" /\ cycle.seen \in {"none", "newer"}
          /\ UNCHANGED offer
       \/ /\ offer.fresh /\ offer' = [offer EXCEPT !.fresh = FALSE]
    /\ cycle' = [cycle EXCEPT !.signal = IF @ = "fresh" THEN "stale" ELSE @]
    /\ UNCHANGED <<loop, running, backoff, wake, turn, actual, hopes>>

Passes(time) == time = "later" \/ (time = "last" /\ backoff.account = "no")

\* A time is reached.
Elapse ==
    /\ \/ /\ \E j \in Job : /\ Free(j) /\ Passes(due[j])
                            /\ due' = [due EXCEPT ![j] = "now"]
                            /\ owed' = [owed EXCEPT ![j] = "new"]
          /\ UNCHANGED <<borrowed, backoff, turn, cycle, chance>>
       \/ /\ borrowed # "no" /\ Passes(borrowed) /\ borrowed' = "now"
          /\ owed' = [owed EXCEPT !["account"] = "new"]
          /\ UNCHANGED <<due, backoff, turn, cycle, chance>>
       \/ /\ \E b \in {"account", "hot"} :
               /\ backoff[b] # "no" /\ backoff' = [backoff EXCEPT ![b] = "no"]
               /\ owed' = [owed EXCEPT ![b] = Again(@)]
          /\ chance' = Again(chance)
          /\ UNCHANGED <<due, borrowed, turn, cycle>>
       \/ /\ \/ turn.paced /\ turn' = [turn EXCEPT !.paced = FALSE]
             \/ turn.throttled /\ turn' = [turn EXCEPT !.throttled = FALSE]
          /\ owed' = [owed EXCEPT !["account"] = Again(@)]
          /\ UNCHANGED <<due, borrowed, backoff, cycle, chance>>
       \/ /\ cycle.after /\ cycle' = [cycle EXCEPT !.after = FALSE]
          /\ chance' = Again(chance)
          /\ UNCHANGED <<due, borrowed, backoff, turn, owed>>
    /\ UNCHANGED <<step, running, wake, saved, actual, offer, pick, events>>

-----------------------------------------------------------------------------
(* Requests *)

\* Mutant: a request is dropped while the job's worker runs.
AskForIdle(js) ==
    /\ LET told == {j \in js : running[j] # "none"} IN
       /\ wake' = [j \in Job |-> wake[j] \/ (j \in told /\ Free(j))]
       /\ owed' = [j \in Job |-> IF j \in told THEN "new" ELSE owed[j]]

\* AccountWork.wake or hot_wake is set.
AskFor(js) ==
    /\ LET told == {j \in js : running[j] # "none"} IN
       /\ wake' = [j \in Job |-> wake[j] \/ j \in told]
       /\ owed' = [j \in Job |-> IF j \in told THEN "new" ELSE owed[j]]

\* accounts_generation is part of the identity and of the opportunity.
NextGeneration ==
    /\ saved' = [saved EXCEPT !.moved = TRUE]
    /\ cycle' = [cycle EXCEPT !.seen = IF @ = "same" THEN "moved" ELSE @,
                              !.opp = IF @ \in Noted THEN "other" ELSE @,
                              !.next = IF step = "mark" THEN "other" ELSE @]

\* enable, and the end of configure: under the account's lock, so before the
\* turn that was started begins or after it.
Control ==
    /\ Happens
    /\ actual.enabled \/ ~actual.intent
    /\ actual' = [actual EXCEPT !.enabled = ~@]
    /\ NextGeneration /\ AskFor({"account", "hot"})
    /\ chance' = "new"
    /\ UNCHANGED <<step, due, borrowed, pick, running, backoff, turn, offer>>

\* retry.
AskAgain ==
    /\ Happens /\ actual.intent
    /\ turn' = [turn EXCEPT !.urgent = TRUE]
    /\ AskFor({"account"})
    /\ UNCHANGED <<loop, running, backoff, actual, offer, cycle, chance>>

\* PairManager._changed, after the group was saved with its next revision;
\* the hot data it revokes is that of the group's own accounts.
GroupControl ==
    /\ Happens
    /\ NextGeneration /\ AskFor({"group"})
    /\ chance' = "new"
    /\ UNCHANGED <<step, due, borrowed, pick, running, backoff, turn, actual, offer>>

\* wake_cycle_hot_data: the private stream has invalidated the cache.
HotNews ==
    /\ Happens /\ AskFor({"hot"})
    /\ UNCHANGED <<loop, running, backoff, turn, actual, offer, cycle, chance>>

\* wake_capacity_accounts: a quota becomes large enough, or no longer is.
Capacity ==
    /\ Happens
    /\ \E p \in {"no", "low", "high"} :
         /\ turn' = [turn EXCEPT !.prio = p]
         /\ chance' = IF p = "no" THEN Again(chance) ELSE chance
    /\ UNCHANGED <<loop, running, backoff, wake, actual, offer, cycle, owed>>

-----------------------------------------------------------------------------
(* The turn of the account, in its worker *)

\* The read that ordinary_snapshot_ready asks about.
ReadDone == actual.read \in {"landed", "ready"}

\* prepare_ordinary_snapshot in a later turn than the one that began the
\* read: the cycle did not have this turn.
Resumes == running["account"] = "run" /\ ~Fast /\ ReadDone /\ actual.enabled /\ ~actual.intent

Resume ==
    /\ Resumes
    /\ actual' = [actual EXCEPT !.read = "none"]
    /\ cycle' = Rearm(cycle)
    /\ chance' = "new"
    /\ UNCHANGED <<loop, running, backoff, wake, turn, offer, owed, events>>

\* The future is done, and then its callback runs.
ReadEnds ==
    /\ actual.read = "reading" /\ actual' = [actual EXCEPT !.read = "landed"]
    /\ owed' = [owed EXCEPT !["account"] = Again(@)] /\ chance' = Again(chance)
    /\ UNCHANGED <<loop, running, backoff, wake, turn, offer, cycle, events>>

ReadLands ==
    /\ actual.read = "landed" /\ actual' = [actual EXCEPT !.read = "ready"]
    /\ AskFor({"account"})
    /\ UNCHANGED <<loop, running, backoff, turn, offer, cycle, chance, events>>

\* The finally of _tick_account; a read whose turn will not come is dropped.
EndTurn(how, enabled, intent, reads) ==
    /\ running["account"] = "run" /\ ~Resumes
    /\ running' = [running EXCEPT !["account"] = how]
    /\ LET read == IF reads THEN "reading" ELSE actual.read IN
       actual' = [actual EXCEPT !.enabled = enabled, !.intent = intent,
                    !.read = IF ReadDone /\ (~actual.enabled \/ actual.intent) THEN "none" ELSE read]

Urgent(intent) == turn' = [turn EXCEPT !.urgent = intent]

\* A priority turn that made progress or may be repeated keeps its reason
\* (priority_continuation, the quotas of other symbols).
UrgentOrAgain(intent) ==
    \E again \in {FALSE, turn.active # "no"} :
      turn' = [turn EXCEPT !.urgent = intent, !.prio = IF again /\ @ = "no" THEN turn.active ELSE @]

\* Nothing to do, or the open batch was settled; an ordinary turn may leave
\* its read to the pool.
TurnWaits ==
    /\ \E intent \in {FALSE, actual.intent} :
         \E reads \in {FALSE, ~Fast /\ actual.enabled /\ ~actual.intent /\ actual.read = "none"} :
           EndTurn("done", actual.enabled, intent, reads) /\ UrgentOrAgain(intent)
    /\ UNCHANGED <<loop, backoff, wake, offer, cycle, hopes, events>>

\* A batch of the cycle was sent: the next opening is one of the next phase.
TurnSends ==
    /\ Happens /\ actual.enabled /\ ~actual.intent /\ offer.chance
    /\ \E intent \in BOOLEAN : EndTurn("done", actual.enabled, intent, FALSE) /\ Urgent(intent)
    /\ \E filled \in BOOLEAN :
         /\ offer' = [offer EXCEPT !.chance = ~filled]
         /\ cycle' = [cycle EXCEPT !.after = TRUE,
                                   !.opp = IF filled /\ @ \in Noted THEN "other" ELSE @]
    /\ UNCHANGED <<loop, backoff, wake, hopes>>

\* An error; one that only the market can end leaves fast attempts allowed
\* (an ordinary turn has other symbols to go on with: cycle_wait).  It may pause
\* the account, which the loop learns when it reads the accounts again.
TurnErrs ==
    /\ Happens /\ UrgentOrAgain(actual.intent)
    /\ \E enabled \in {actual.enabled, FALSE} : EndTurn("done", enabled, actual.intent, FALSE)
    /\ \E b \in {"full"} \cup (IF Fast THEN {"quote"} ELSE {}) :
         backoff' = [backoff EXCEPT !["account"] = b]
    /\ borrowed' = IF borrowed = "last" THEN "later" ELSE borrowed
    /\ UNCHANGED <<step, due, saved, pick, wake, offer, cycle, hopes>>

\* SnapshotSuperseded.
TurnSuperseded ==
    /\ Happens /\ EndTurn("done", actual.enabled, actual.intent, FALSE) /\ Urgent(actual.intent)
    /\ cycle' = Rearm(cycle)
    /\ backoff' = [backoff EXCEPT !["account"] = "full"]
    /\ borrowed' = IF borrowed = "last" THEN "later" ELSE borrowed
    /\ AskFor({"account", "hot"})
    /\ UNCHANGED <<step, due, saved, pick, offer, chance>>

\* HotAccountUnavailable.
TurnUnavailable ==
    /\ Happens /\ EndTurn("done", actual.enabled, actual.intent, FALSE) /\ Urgent(actual.intent)
    /\ cycle' = [cycle EXCEPT !.opp = "none"]
    /\ AskFor({"hot"})
    /\ UNCHANGED <<loop, backoff, offer, chance>>

\* An exception nobody expected.
TurnBreaks ==
    /\ Happens /\ EndTurn("failed", actual.enabled, actual.intent, FALSE) /\ Urgent(actual.intent)
    /\ UNCHANGED <<loop, backoff, wake, offer, cycle, hopes>>

-----------------------------------------------------------------------------
(* The other workers *)

\* cycle_hot_ready at the end of a refresh: the cycle is to be looked at again.
Publish ==
    /\ Happens /\ running["hot"] = "run" /\ actual.enabled /\ ~actual.intent
    /\ running' = [running EXCEPT !["hot"] = "done"]
    /\ cycle' = [cycle EXCEPT !.seen = "none", !.opp = "none"]
    /\ chance' = "new"
    /\ UNCHANGED <<loop, backoff, wake, turn, actual, offer, owed>>

HotEnds ==
    /\ running["hot"] = "run"
    /\ \E how \in {"done", "failed"} : running' = [running EXCEPT !["hot"] = how]
    /\ \E b \in {"full", backoff.hot} : backoff' = [backoff EXCEPT !.hot = b]
    /\ UNCHANGED <<loop, wake, turn, actual, offer, cycle, hopes, events>>

\* AccountModeError: the refresh pauses the account.
HotPauses ==
    /\ Happens /\ running["hot"] = "run" /\ actual.enabled
    /\ running' = [running EXCEPT !["hot"] = "done"]
    /\ actual' = [actual EXCEPT !.enabled = FALSE]
    /\ NextGeneration /\ chance' = "new"
    /\ UNCHANGED <<step, due, borrowed, pick, backoff, wake, turn, offer, owed>>

\* PairManager.tick; it may stop its group, and then says so.
GroupEnds ==
    /\ running["group"] = "run"
    /\ \E how \in {"done", "failed"} : running' = [running EXCEPT !["group"] = how]
    /\ UNCHANGED <<loop, backoff, wake, turn, actual, offer, cycle, hopes, events>>

-----------------------------------------------------------------------------
(* The loop *)

\* Workers that have ended: a fast attempt gives back the time of the turn,
\* and what arrived meanwhile is looked at again.
Harvest ==
    /\ step = "wait" /\ step' = "list"
    /\ LET ended == {j \in Job : running[j] \in {"done", "failed"}} IN
       /\ running' = [j \in Job |-> IF j \in ended THEN "idle" ELSE running[j]]
       /\ backoff' = [b \in {"account", "hot"} |-> IF running[b] = "failed" THEN "full" ELSE backoff[b]]
       /\ due' = [j \in Job |-> IF j \notin ended THEN due[j]
                                ELSE IF j # "account" THEN "later"
                                ELSE IF Fast THEN borrowed ELSE "last"]
       /\ borrowed' = IF "account" \in ended THEN "no" ELSE borrowed
       /\ turn' = IF "account" \in ended THEN [turn EXCEPT !.active = "no"] ELSE turn
       /\ cycle' = IF "account" \in ended /\ (cycle.deferred \/ cycle.seen = "newer")
                   THEN Rearm(cycle) ELSE cycle
    /\ owed' = [j \in Job |-> IF owed[j] = "no" THEN "no" ELSE "old"]
    /\ chance' = IF chance = "no" THEN "no" ELSE "old"
    /\ UNCHANGED <<wake, saved, actual, offer, pick, events>>

\* Accounts and groups are read again when a control changed one and at an
\* interval; a group that is busy keeps its change for later.
List ==
    /\ step = "list" /\ step' = "look"
    /\ \E again \in {TRUE, saved.moved} :
         IF again
         THEN /\ saved' = [enabled |-> actual.enabled, known |-> TRUE, moved |-> FALSE, listed |-> TRUE]
              /\ LET told == wake["group"] /\ Free("group") IN
                 /\ due' = IF told THEN [due EXCEPT !["group"] = "now"] ELSE due
                 /\ wake' = IF told THEN [wake EXCEPT !["group"] = FALSE] ELSE wake
              /\ turn' = [turn EXCEPT !.urgent = @ \/ (~saved.known /\ actual.intent)]
         ELSE saved' = [saved EXCEPT !.listed = FALSE] /\ UNCHANGED <<due, wake, turn>>
    /\ UNCHANGED <<running, borrowed, backoff, actual, offer, cycle, pick, hopes, events>>

\* cycle_wake_candidates up to the hint.  No quote starts a second worker.
Look ==
    /\ step = "look"
    /\ LET forget == [cycle EXCEPT !.signal = "none", !.opp = "none"]
           looked == [cycle EXCEPT !.seen = "same"]
       IN \/ /\ ~(offer.fresh /\ saved.enabled)
             /\ cycle' = forget /\ chance' = "new" /\ step' = "take"
          \/ /\ offer.fresh /\ saved.enabled /\ ~Free("account")
             /\ cycle' = [cycle EXCEPT !.deferred = @ \/ cycle.seen # "same"]
             /\ step' = "take" /\ UNCHANGED chance
          \/ /\ offer.fresh /\ saved.enabled /\ Free("account") /\ backoff.account = "full"
             /\ cycle' = forget /\ step' = "take"
             /\ chance' = IF cycle.seen = "same" THEN chance ELSE "new"
          \/ /\ offer.fresh /\ saved.enabled /\ Free("account") /\ backoff.account # "full"
             /\ IF cycle.seen = "same" THEN step' = "take" /\ UNCHANGED <<cycle, chance>>
                ELSE IF offer.chance /\ ~actual.intent
                THEN cycle' = looked /\ step' = "compare" /\ UNCHANGED chance
                ELSE /\ cycle' = [forget EXCEPT !.seen = "same"]
                     /\ chance' = "new" /\ step' = "take"
    /\ UNCHANGED <<running, due, borrowed, backoff, wake, turn, saved, actual, offer, pick, owed, events>>

\* An opportunity wakes the account once, ...
Compare ==
    /\ step = "compare" /\ step' = "mark"
    /\ cycle' = [cycle EXCEPT
                    !.next   = IF cycle.opp = "slipped" /\ cycle.signal = "none" THEN "slipped" ELSE "same",
                    !.signal = IF cycle.opp \in Noted /\ @ = "none" THEN @
                               ELSE IF offer.fresh THEN "fresh" ELSE "stale"]
    /\ UNCHANGED <<running, due, borrowed, backoff, wake, turn, saved, actual, offer, pick, hopes, events>>

\* ... which is noted without the lock, over what was published meanwhile.
Mark ==
    /\ step = "mark" /\ step' = "take"
    /\ cycle' = [cycle EXCEPT !.next = "same",
                    !.opp = IF cycle.next = "same" /\ cycle.seen = "none" THEN "slipped" ELSE cycle.next]
    /\ UNCHANGED <<running, due, borrowed, backoff, wake, turn, saved, actual, offer, pick, hopes, events>>

\* Who goes first.  An urgent account has priority for a follow-up and not for
\* a quota; a low one waits for its interval.
Choose ==
    \E prio \in {turn.prio} \cup (IF turn.urgent THEN {"no"} ELSE {}) :
      pick' = [urgent |-> turn.urgent,
               prio |-> IF prio = "low" /\ turn.throttled /\ ~turn.urgent THEN "no" ELSE prio,
               fast |-> cycle.signal = "fresh" /\ ~cycle.after]

\* Wake-ups make a job due once its worker is free, and the accounts are
\* chosen that go first.
TakeWakes ==
    /\ step = "take" /\ step' = "start"
    /\ LET told == {j \in {"account", "hot"} : wake[j] /\ Free(j) /\ (j = "hot" => backoff.hot = "no")} IN
       /\ due' = [j \in Job |-> IF j \in told THEN "now" ELSE due[j]]
       /\ wake' = [j \in Job |-> wake[j] /\ j \notin told]
    /\ Choose
    /\ UNCHANGED <<running, borrowed, backoff, turn, saved, actual, offer, cycle, hopes, events>>

\* Workers are started.  A fast attempt takes the account's worker and not its
\* turn; an ordinary turn keeps its distance from those of other accounts,
\* which may have started one just before.
StartTasks ==
    /\ step = "start" /\ step' = "wait" /\ pick' = NoChoice
    /\ \E paced \in {turn.paced, TRUE} :
       LET prio     == pick.prio # "no"
           fast     == /\ pick.fast /\ ~pick.urgent /\ ~prio
                       /\ ~ReadDone /\ (due["account"] # "now" \/ paced)
           ordinary == ~pick.urgent /\ ~prio /\ ~fast
           go == [hot     |-> Free("hot") /\ due["hot"] = "now" /\ backoff.hot = "no",
                  group   |-> Free("group") /\ due["group"] = "now",
                  account |-> /\ Free("account")
                              /\ fast \/ prio \/ due["account"] = "now"
                              /\ backoff.account = "no" \/ (fast /\ backoff.account = "quote")
                              /\ ordinary => ReadDone \/ ~paced]
       IN /\ running' = [j \in Job |-> IF go[j] THEN "run" ELSE running[j]]
          /\ owed' = [j \in Job |-> IF go[j] /\ ~(j = "account" /\ fast) THEN "no" ELSE owed[j]]
          /\ chance' = IF go.account THEN "no" ELSE chance
          /\ borrowed' = IF go.account /\ fast THEN due["account"] ELSE borrowed
          /\ cycle' = IF ~go.account THEN cycle
                      ELSE [cycle EXCEPT !.signal = "none", !.after = @ \/ fast]
          /\ turn' = IF ~go.account THEN [turn EXCEPT !.paced = paced]
                     ELSE [turn EXCEPT
                            !.active = pick.prio,
                            !.prio = IF prio THEN "no" ELSE @,
                            !.throttled = @ \/ (pick.prio = "low" /\ ~pick.urgent),
                            !.paced = paced \/ (~ReadDone /\ ~pick.urgent /\ (prio \/ ordinary))]
    /\ UNCHANGED <<due, backoff, wake, saved, actual, offer, events>>

-----------------------------------------------------------------------------
Outside == NewQuote \/ Age \/ Elapse \/ Control \/ AskAgain \/ GroupControl \/ HotNews \/ Capacity
AccountSteps == Resume \/ ReadEnds \/ ReadLands \/ TurnWaits \/ TurnSends \/ TurnErrs \/ TurnSuperseded
             \/ TurnUnavailable \/ TurnBreaks
Loop    == Harvest \/ List \/ Look \/ Compare \/ Mark \/ TakeWakes \/ StartTasks

SchedulerNext == Outside \/ AccountSteps \/ Publish \/ HotEnds \/ HotPauses \/ GroupEnds \/ Loop

SchedulerSpec == SchedulerInit /\ [][SchedulerNext]_schedulerVars

-----------------------------------------------------------------------------
(* Properties *)

HeldBack(j) ==
    \/ j = "account" /\ (backoff.account # "no" \/ (turn.paced /\ ~turn.urgent))
    \/ j = "hot" /\ backoff.hot # "no"
    \/ j = "group" /\ ~saved.listed

\* A job that was due or asked for before a pass began is started in it, unless
\* its worker is busy or it is held back: no wake-up that arrives while the
\* worker runs or between two steps of the pass is lost, and no fast attempt
\* postpones the account's turn.
TurnsAreServed == step = "wait" => \A j \in Job : owed[j] = "old" /\ Free(j) => HeldBack(j)

\* The account is busy, delayed, or has something else to do first.
Occupied ==
    \/ ~saved.enabled \/ actual.intent \/ ~Free("account")
    \/ backoff.account = "full" \/ cycle.after \/ ReadDone
    \/ backoff.account = "quote" /\ (due["account"] = "now" \/ turn.prio # "no")

\* An opening of the cycle that shows in a fresh quote is tried once the account
\* is free and its delays are over, if it began since the last attempt, came
\* while that attempt ran or was made possible by a publication of the account's
\* data (cycle_wake_candidates, the rearming in run and cycle_hot_ready).
EveryOpeningIsTried == step = "wait" /\ chance = "old" /\ offer.fresh /\ offer.chance => Occupied

\* The same, except for a publication that comes while the loop looks at the
\* quote: the loop notes the opportunity over it.
OpeningIsTried == cycle.opp # "slipped" => EveryOpeningIsTried

NobodyIsForgotten == TurnsAreServed /\ OpeningIsTried

=============================================================================

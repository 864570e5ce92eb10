# aster_5x in TLA+

Specifications, model-checking configurations and machine-checked proofs of the trading desk in
`trading/`: a Python service that keeps hedged perpetual positions, on one account (long and short
of one symbol) or on a *group* of two subaccounts (one long, one short). It plans a batch, writes
its intent to SQLite, sends market orders over HTTP, and then finds out what really happened.
What is hard is not the arithmetic of a plan but everything between the save and the last receipt:
answers that prove nothing, requests that arrive late, positions read at different moments, a
crash at any line, the operator's hand, and two accounts that must end up equal. Around that core
stand the caches, streams, budgets and alerts the decisions rest on, modelled here too.

Paths below are relative to the repository; PROJECT.json names the lines of every definition.

## 1. Inventory

### Pair trader: `pair_execution.py` (with `pair_planning.py`, `pair_quality.py`, `pair_cost.py`)
* State: the durable runtime row of a group (`owned`, `progress.quantities`, `attention`,
  `pending` with `legs` and `repairs`); in memory only the turn itself and two sending threads.
* Operations: `tick` plans and saves a batch (`_start`), checks once more and sends (`_dispatch`,
  `_send`), queries every order by client id (`_query`), reads both accounts, judges (in
  `_recover`), repairs by reducing (at most three rounds), finishes
  (`_finish`: ledger, history and pending in one transaction) or asks for attention.
* Hard: a batch is two POSTs that are not atomic; a timeout or a 5xx proves nothing; the process
  can die between the save and the POST; the two positions are read separately; a repair is itself
  an order of unknown outcome; a paused group must still close its cycle.
* Correct when: no client id is sent twice; nothing can execute after its batch has ended but what
  was archived and is watched; every
  position is explained by the ledger; a batch ends on both accounts or on neither; the base
  position is never sold; an open batch ends or asks for the operator.

### Pair manager and recovery: `pairing.py`, `pair_recovery.py`
* State: the group's row (enabled, configuration), the runtime row it shares with the trader, the
  archive of skipped orders.
* Operations: create, configure, activate, pause, delete, flatten; reconcile a flat group, skip a
  finished batch, archive one whose orders nobody finds, adopt reviewed positions; all under the
  locks of the group and of both accounts (`PairManager.locked`), beside the pages of the single
  accounts and the turns of the scheduler.
* Hard: a position is adopted that was read some time ago; an order is skipped that could still
  execute; two groups and the accounts' own pages want the same accounts in opposite orders.
* Correct when: an account has one owner and nothing unfinished loses its own; nobody waits for
  ever; a base was really held, is not older than what was announced, and counts no archived order;
  every order that can still execute after its batch has ended is watched.

### Margin balancer: `margin_balance.py`
* State: the journal `pair_margin.pending`, the last and the archived transfers, the checkpoint of
  the private-stream sessions; a turn's two balance reads; the background worker's published ones.
* Operations: plan and journal a transfer (`_submit_live`), refresh after an acknowledgement (by
  REST or by account events), give up an unknown one after fresh reads (`_resume_unknown`).
* Hard: a transfer is not idempotent and has no query; its answer may be lost; its effect may land
  after it has been given up; balances read before it lands must not be used after it.

### Single account: `execution.py`, `cycle_execution.py`, `cycle.py`, `cycle_guard.py`
* State: `trade_intents` (pending, attention, repairs), the campaign ledger, the cycle row with
  base and quantities.
* Operations: a batch of both directions in one request, query, repair, complete; the cycle's open
  and close; retry and confirm-recovery by the operator.
* Hard: the rows of one answer can say different things; positions lag behind receipts; there is no
  mark that separates "saved" from "sent".

### Migration: `migration.py`, `migration_execution.py`
* State: the run's totals and the open batch with its last round of orders, in `trade_intents` and
  the migration's row; the account's switch.
* Operations: plan, open the target on both directions, even it, reduce the source by what the
  target now replaces, even and trim, book the totals; query after a crash; retry by the operator.
* Hard: four positions that may only move in one order; rounds that are half refused or lost.
* Correct when: the source is never given up ahead of the target, a batch ends with nothing alive
  and the totals equal to what happened, no purpose gets more rounds than its limit.

### Account cache and private streams: `account_cache.py`, `user_stream.py`, `ws_evidence.py`
A cache of positions and balances fed by REST reads and by account events, with epochs, versions
and tickets that decide which of two racing writers is newer; a lease is checked again at the
moment of use. Hard: an event between the start of a read and its publication; a reconnect; a
revocation takes two locks one after the other. Correct when: what is served in silence is the
account, an order is admitted only on what the program had been told, and the cache comes back.

### Market data: `market_stream.py`, `depth_stream.py`, `depth.py`
An order book made of a REST seed and a stream of differences; hard: continuity over gaps,
reconnects, and a seed that arrives for an older connection. Beside it the best quote and the mark
price: messages that overtake one another, a wall clock that may be set. Correct when: a book that
is shown is one the exchange had, and a quote in use is the newest and young enough.

### Exchange client: `exchange.py`, `exchange_messages.py`, `request_timing.py`
Signing, parsing, the request budget (weights per minute, priority reserves, out-of-order usage
reports) and the generation that invalidates snapshots. Correct when: the estimate covers what the
exchange counted, and each class of request leaves the others their reserve.

### Engine: `engine.py`, `scheduling.py`, `lock.py`
* State: for each account its wake-ups, backoffs, priorities and the cycle's last look
  (`AccountWork`, `CycleWake`); in the loop the due times, the running workers and what it read of
  the accounts.
* Operations: a pass of `run` harvests ended workers, reads accounts and groups again, looks at the
  quotes (`cycle_wake_candidates`), takes the wake-ups and starts workers; quotes, controls, private
  streams and workers set flags and reset comparisons meanwhile.
* Hard: flags are set by many threads and cleared by one, identities are compared in several steps,
  a fast attempt borrows the worker of the ordinary turn.
* Correct when: no wake-up and no due turn is lost, and no opening goes untried.

### Store and outbox: `store.py`, `ledger_cache.py`
SQLite transactions; a save is an atomic durable step. The notification outbox (claim, deliver,
retry) is a protocol of its own, whose gates decide whether a message is still true when it leaves
(`position_imbalance_notifications.py`, `position_observations.py`, `Store.observe_capacity_alert`).

### Capacity relay: `capacity_relay_client.py`, `capacity_relay_server.py`, `capacity_timing.py`
Samples of capacity passed between hosts over a stream and over HTTP, with age limits, sequence
order and process epochs. Correct when: no sample is taken for younger than it is, and no late
message takes the client back.

### Without a protocol of their own
Reports and summaries (`hourly_*`, `hub_summary.py`, `listing*`, `monitoring.py`, ...), models and
arithmetic (`models.py`), the paper broker, the HTTP server and the dashboard, the legacy
`monitor.py` and the installers. Account deletion is a transaction of the registry above.

### How they interact
The engine calls `PairTrader.tick` and the executor's `run` in worker threads; each turn asks the
account cache for leases, the balancer for a transfer, the exchange client for reads and orders,
and the store for commits. Private streams call back into the cache and into the client's
generation, which makes a lease or a snapshot refuse itself at its next check. The operator reaches
the same rows through the HTTP server, under the same locks. The models meet at these seams by
leaving the other component's decision open: `PairTrader` lets any turn find a transfer under way,
`MarginTransfer` lets any turn be due or not, `HotAccount` lets its trader submit whenever a lease
allows it, `GroupRegistry` lets a turn leave any work behind that its group may have.

## 2. Plan

| Order | Module | About | State |
|---|---|---|---|
| 1 | `PairLedger`, `PairTrader`, refinement | the batch of a group and its abstract ledger | checked, proved |
| 2 | `MarginTransfer` | transfers and stale balances | checked, proved |
| 3 | `HedgeExecutor` | the batch of one account, ordinary and cycle | checked, proved |
| 4 | `Migration` | source and target, rounds of orders | checked, proved |
| 5 | `HotAccount` | cache tickets, epochs, event races | checked, proved |
| 6 | `DepthBook`, `QuoteStream` | continuity of the book, order and age of quotes | checked, proved |
| 7 | `RateBudget` | minute rollover, reserves, late reports | checked, proved |
| 8 | `CapacityRelay` | age and order of samples, processes | checked, proved |
| 9 | `GroupRegistry` | locks, owners, groups and deletions | checked, proved |
| 10 | `GroupRecovery` | archive and watch of skipped orders, activation's read and commit | checked, proved |
| 11 | `ThresholdAlert`, `ImbalanceAlert` | the outbox and the gates of two alerts | checked, proved |
| 12 | `Scheduler` | the loop's wake-ups, backoffs and turns | checked, proved |

Every safety invariant and action property a run checks, and the refinement, is also a theorem; what
is left to TLC alone is in section 6.

## 3. The modules

### `PairLedger`: what a group promises
The abstract specification. Its state is the ledger (`basis`, `quantities`), the open batch and
what the accounts hold by the program's own doing (`net`). While a batch is open the sides move
one at a time and only inside the batch's own quantity; it ends by `Commit` (every side exactly on
the target), `Rollback` (every side back on the baseline) or `TakeOver` (the ledger takes over what
is really there). It says nothing of orders, answers, repairs or crashes.

### `PairTrader`: the batch of a group
| State | In the code |
|---|---|
| `strategy`, `enabled` | the pair's row (`pairing.py`) |
| `owned`, `quantities`, `attention`, `pending`, `leg` | the durable runtime row: `owned`, `progress`, `attention`, `pending` with `legs` and the last round of `repairs` |
| `pc`, `call`, `seen` | where `tick` is, its two sending threads, the positions this turn has read; lost in a crash |
| `exch`, `pos` | external: the exchange's record of each client order id, the real positions |
| `outside`, `sends` | ghosts: position the ledger does not claim, HTTP submissions per order |

The actions follow the turn: `StartOpen`/`StartClose` save the intent, `Dispatch` checks once more
and marks both legs as sending (or `Withdraw` writes two known-absent receipts), `Send`,
`NotSent` and the three answers are steps of each thread, `QueryUnsent`, `QueryRow`,
`QueryComplete`/`QueryIncomplete` are `_query`, `ReadPosition` reads the accounts one after the
other, and `Finish`, `SaveRepairs`, `GoReview`, `JudgeMismatch`, `JudgeUnrepairable` are what
`_recover` may decide. Every save is one atomic step, because the code makes it one SQLite
transaction; a step that only computes is part of the action that saves its result. `Crash` may
happen between any two steps of a turn. The environment executes, refuses or loses each request in
any order (`Execute`, `Void`), also long after the sender has given up, and `Manual` trades by hand.
Operators' commands (`Pause`, `Configure`, `Activate`, `ReconcileFlat`, `SkipPositions`, `Rebase`)
keep the lock's rule: never inside a turn. So does the archive of a batch nobody can decide, which
is a turn of its own: `BeginArchive` when both opening orders were marked as sending, no query and no
history knows them and no repair was made; then the two reads; then `Archive`, only at the batch's
baseline, or `ArchiveFails`. The archived orders leave the batch for `watched` (`recovery_watch`),
where they stay: nothing in the code removes them. They may arrive and execute at any later time
(`WatchedExecutes`, `WatchedVoid`), which the ledger counts as `outside`. While they are quiet, what
the code asks of them stands in the guards of opening, activation and review (`WatchClear`); once one
has executed the group opens nothing more, and the review of an ordinary batch is tried again each
turn without asking for attention.

`PairTraderInv` holds the inductive invariant, `PairTraderProof` its proof, the theorems that follow
and the proof that every step is a step of `PairLedger` or none.

### `MarginTransfer`: a transfer and the reads it overtakes
`journal` is `pair_margin.pending`, `verdict` what `last_transfer` and the archive claim, `view` a
turn's reads, `hot` the published ones, `mark` the checkpoint of the stream's session with what the
stream has said since. A read knows the set of transfers it includes; `Revoke` is a bump of the
client's generation with a new epoch of the cache. A transfer is a name: the amount is data. The
actions are the turn (`SaveRequest`, `Post`, the answers, `SaveAnswer` or `SaveFails`, then
`TurnPending` and the two ways to refresh, or `SkipUnknown`), the stream (`Note`, `Announce`,
`OtherEvent`, `Connect`, `Disconnect`) and the exchange (`Land`, `Void`).

### `HedgeExecutor`: the batch of one account
One account holds both directions. `intent` and `leg` are the open row of `trade_intents` with
receipts, `campaign`, `base` and `quantities` what completed batches left behind, `mode`,
`enabled` and `mismatch` the account's row (a symbol belongs either to ordinary adds or to the
cycle). `Post` is one HTTP request for all orders of a round; `Answer` saves a receipt for any
decided subset of them, none when the answer is lost. `Query` saves every row it found at once,
then judges, waits, or after two minutes calls for attention, which is two commits in the code and
two steps here (`Attention`, `PauseAccount`). `PairEnds`, `PairRepair`, `PairStuck`,
`PairMismatch` judge an ordinary batch; `CycleHolds`, `CycleEnds`, `CycleRepair`, `CycleStuck`,
`CycleLag` one of the cycle. `pos` is the exchange's position and `shown` what the account endpoint
answers, possibly behind; `ShowsUp` lets it catch up. Enabling, pausing, configuring, retrying and
the confirmed recovery are the operator's, under the account lock, so outside a turn.

Unlike the group's trader this executor keeps no mark between "saved" and "sent". After a crash
between the two, neither order was sent and nothing can ever show it: the batch goes to attention
after two minutes, comes back to it after every retry, and only the operator can decide it. The
same holds for a repair that the exchange refuses: a single order's refusal is an error of the whole
request, which `send` does not take as a receipt (execution.py:109). Both are deliberate ("never
resend"); the properties below hold with them.

### `Migration`: from one symbol to another
`progress` are the durable totals, `intent` and `leg` the open batch with the orders of its last
round and their receipts, `pos` the four positions and `exch` the exchange's records. A batch is a
sequence of rounds, each with a role: `open_target`, `balance_target` (reduce what did not fill on
both directions), `close_source` (no more than the target replaces), `balance_source`,
`trim_target`. `Planned` is what `Engine.tick_migration` demands of a plan, `Post` one request for a
round, `Answer` and `Query` save what was told, `Refund` gives an attempt back for a round that
certainly was not sent, `Judge` decides the next round or `complete_migration`. A crash, a stop of
the account, a retry and a trade by hand may come between any two steps. Prices are constants of the
instance; the tolerance is a fraction, so a difference can be tolerated without being zero.

### `HotAccount`: a cache fed by reads and overtaken by events
`truth` counts the changes at the exchange, a snapshot is the number of changes it includes. The
worker begins a read with a ticket, reads, and publishes if nothing revoked it; the stream of a
token goes up, delivers events and goes down; a state callback, an event, a write and a control
each revoke in two steps, as the code takes two locks one after the other. The trader leases the
published snapshot and asks again before it submits (`Admit`). Counters are kept as what they are
compared for: a read knows whether the generation moved since it began.

### `DepthBook`: differences on top of a seed
`real` is every version of the exchange's book, `book` the state the stream keeps, `request` the
REST read that seeds it and carries the token of the connection it was asked on, `held` a snapshot
in a reader's hand. Events may be lost, unreadable, or arrive after a reconnect; a seed has at most
`Limit` levels, and what is worse than its floor is unknown.

### `QuoteStream`: the newest quote and how long it may be used
A quote is the second it was made. Messages overtake one another, are unreadable or late; the wall
clock of this machine is wrong by `skew` and may be set at any moment, the monotonic clock not.
`order` is the code's own order of acceptance, `newest` a ghost that remembers what was accepted.

### `RateBudget`: what the exchange has counted
`weight`, `reported`, `deadline`, `minute` and `unreported` are the fields of the class, `Refreshed`
its `_refresh`, `Observed` its `observe`; `request` is where each `API.call` is. External are the
minute's count (`served`) and other programs behind the same address (`foreign`). An answer that
carries the used weight carries a valid `Date`, as Aster's do.

### `CapacityRelay`: two hosts, two clocks, several processes
The server's processes, its cache and its subscriber's pending keys; the client's stream buffer, its
HTTP read, `epoch`, `serial`, `retired`, `order` and `cache`. A payload is as good as the moment its
upstream read began. RELAY.md:54 says that the client ages samples conservatively; with the
server's clock ahead, the delay of a streamed sample may be under-counted by up to the difference of
the clocks. `AgeIsHonest` states that slack, and none for HTTP.

### `GroupRegistry`: locks, tables and owners
`account`, `enabled`, `own`, `group`, `member` and `work` are the tables; `job` is what each worker
is doing, with how many locks it holds of the list its kind takes (`Locks`), and whether it has read
the exchange. A job begins, takes lock after lock, reads, and commits one transaction that checks
again, or gives up at any point. Jobs are the pages' (add, delete, enable and pause an account;
create, start, stop, delete and flatten a group) and the scheduler's turns.

### `GroupRecovery`: what a read is worth when it is committed
`past` is every position each account has had and `told` how much of it its stream has announced.
A `task` reads the two accounts and each order one call at a time; the commit compares revocation
counters under both locks. `watch` is the archive of batches whose orders nobody could find:
those can still execute, and then must stop the group instead of becoming part of its base. An order
that was never accepted cannot be told from one still under way, so it stays in flight for ever. A
check ends a batch in one of two ways: `CheckAdopts` after the review of the positions, for which the
watched orders are asked one by one, or `CheckCompletes` when the positions are exactly what the
batch's own receipts add; that way does not ask for them.

### `Scheduler`: a loop that must not forget
One account that cycles, its hot data and one group are the jobs. `running` is `pending`, `due` the
due times as "now" or one of two later moments, `borrowed` is `cycle_job_due`; `backoff`, `wake` and
`turn` are `AccountWork`, `cycle` is `CycleWake` with the opportunity the pass is about to note. The
loop's pass is seven actions (`Harvest` to `StartTasks`), between which everything else may happen;
times pass at any moment (`Elapse`). The identity of a quote is kept as the result of its
comparison. Two ghosts remember since which pass a job is owed its turn and an opening its attempt.
`wake["group"]` is a revision of the group that the loop has not noted yet. A third ghost marks an
opportunity as "slipped" when the loop notes it over a publication: `cycle_hot_ready` clears what was
noted under the lock, so that the new data are tried at once, but `cycle_wake_candidates` compares
the opportunity (engine.py:511-512) and stores it again (engine.py:514) without the lock.

### `ImbalanceAlert`, `ThresholdAlert`: messages that must still be true when they leave
Both are a writer (the trading thread, the polling thread), a persisted state, a row of the outbox
and a notifier that holds no lock across its steps. `ImbalanceAlert` keeps the activity counter of
the SQL triggers, compared when an observation is stored and when the message leaves;
`ThresholdAlert` the gate with its falls, and a ghost `era` that says when settings began anew.

### The proofs
A component's theorems are in a module of their own, which extends the component's: `PairTraderProof`
and `HedgeExecutorProof` (with the invariants in `PairTraderInv` and `HedgeExecutorInv`, because a run
or a reader wants them without the proofs), `MarginTransferProof`, `MigrationProof`,
`HotAccountProof`. Components that belong together share one: `GroupProof` (`GroupRegistry`,
`GroupRecovery`, `ImbalanceAlert` and the promise of `PairLedger`), `MarketFeedsProof`
(`QuoteStream`, `ThresholdAlert`, `DepthBook`, `Scheduler`), `CapacityProof` (`RateBudget`,
`CapacityRelay`). In each the invariant comes first, then one lemma for each action, with a step for
each part of the invariant the action can disturb, then the theorems.

### The instances
`MCPairTrader`, `MCMarginTransfer`, `MCHedgeExecutor`, `MCMigration` name model values and the
symmetry of the two sides; symmetry is used only in runs without liveness properties, and no action
tells the sides apart. `MCMarketFeeds`, `MCCapacity` and `MCOperations` put machines that share no
state side by side: a variable (`feed`, `way`, `part`) says which of them this behaviour moves, so
the states are the sum and not the product, and each machine sees all its own behaviours.

## 4. What is checked

| Run | Properties | Bounds |
|---|---|---|
| `pair_batches` | `IInv`, `SubmitOnce`, `NoStrayOrder`, `Books`, `BaseKept`, `Hedged`, `LedgerSpec` | batches of 1 or 2 steps, 1 repair round, 1 archived batch, 1 mishap: a trade by hand or a crash |
| `pair_live` | `BatchSettles`, `PausedCycleCloses` | batches of 2 steps, no smaller order allowed, 1 repair round, 1 archived batch |
| `margin_transfer` | `PostedOnce`, `VerdictTrue`, `ReadsTellTheTruth`, `PendingClears` | 2 transfers, 1 mishap: a lost connection or a crash |
| `account_turns` | `Books`, `SubmitOnce`, `NoStrayOrder`, `BaseKept`, `EndsHedged` | one lot of 2 steps, the smallest and largest order, tolerance 1/2, 1 repair, 1 position check, 1 mishap: a trade by hand, a crash or a retry |
| `hedge_live` | `IntentSettles`, `AttentionPauses` | 1 lot, 1 repair, 2 position checks, 1 crash |
| `migration_batches` | `OpenedFirst`, `EndsMatched`, `RoundsBounded` | 1 lot on even bases, 2 lots on uneven ones (2 and 3), tolerance 2/5, 1 attempt for each purpose and the operator's new ones, 1 mishap |
| `migration_live` | `BatchSettles` | 1 lot, 1 mishap |
| `hot_account` | `CurrentWhenQuiet`, `AdmitsWhatIsKnown`, `Recovers` | 1 change of each kind, 2 streams, 1 fault, 1 write, 1 slow read |
| `market_feeds` | `BookIsReal`, `NothingSkipped`; `QuoteIsTheNewest`; `OneAlertPerCrossing`; `NobodyIsForgotten` | book: 3 prices, 2 levels, 5 versions (the first with 0, 2 or 3 levels), 1 fault; quotes: 4 seconds, 2 messages on their way, skew 1, 1 adjustment, 1 mishap; alert: 2 thresholds, 3 moves, 2 changed settings or crashes; loop: one job at a time, 2 events outside the loop |
| `capacity` | `EstimateCovers`, `LimitsKept`; `AgeIsHonest`, `OnlyForward` | budget: 3 requests, limit 3 with reserves of 1, minutes of 3 s, 4 s, 1 lost answer, 1 cooldown, 1 foreign request; relay: 1 key, 2 processes, 3 s, 1 message in the buffer, clocks 0 or 2 s apart, set once, the server serves samples up to 1 s old, the client up to 2 s |
| `operations` | `ExclusiveOwnership`, `NoStandoff`; `BaseIsSound`; `AlertsAreAboutRest` | registry: 2 accounts, 2 groups in opposite directions, 2 workers; recovery: 2 batches sent, 1 of them watched, 1 trade by hand, a stream at most 1 change behind; alert: 4 s, 1 batch, 1 changed setting or restart |
| `relay_old_process` | `OldProcessStaysOld` (violated) | 1 key, 2 processes, 2 s, equal clocks |

Why these bounds are enough to meet the interesting cases. Two steps of quantity give partial fills
and residues on either side, one against two. In `pair_live` two steps are also the smallest order,
so a step left over is a residue that no repair may be sent for. A cycle batch opens and closes
within one `MaxBatches`, because a close is not counted. One repair round already overlaps every answer and crash; what a second and a third add
is the counter, which the proof (any number of rounds) covers. An archived batch is not counted by
`MaxBatches`, so a batch may be opened beside it and meet its late fills. One crash falls
between any two steps, and the state it leaves (queried again in a later turn) is the same whether
the process dies once or more often. Two transfers let the answer of one meet the effect of the
other; a mishap is a lost connection or a crash, each at any step. In `account_turns` a tolerance
of one half lets 2 stand against 1 and not against 0 or 1 against 0, so a half-filled order may be
kept, a one-sided one needs the repair, and a repair half filled leaves too little for another.
Migration's bases include
a tolerated difference and the last lot. Two streams are one reconnect, one change of each kind
(balances, modes) already separates a read before from a read after. Five versions of the book are
an event before the seed, the bridging one, one after it, and a gap. Two relay processes are one
replacement; five seconds are one turn of the minute with answers on both sides of it. Two groups of
opposite direction over the same two accounts are the smallest circle of locks.

Two events outside the loop are a quote and what comes between its look and its attempt, or a
wake-up and the next; the workers' ends, the loop's own steps and the passing of time are not
counted. The run has one of the loop's jobs at a time; their interplay is in the theorem, and in the
larger instances below.

Before an invariant was proved, TLC checked it on an instance of its own, larger than the run where
that was possible: `PairTrader` with a trade by hand and a crash (1.1 million states, before it had the archive) and its
liveness with two repair rounds (120 thousand), `HedgeExecutor`
with orders that fill whole or not at all and a trade by hand, a retry and a crash in one behaviour
(930 thousand), `Migration` with two lots on even bases as well (2.0 million; with two attempts for
each purpose and one lot, 0.8 million), `HotAccount` with two writes (3.4 million), `DepthBook`
(3.0 million), `RateBudget` (0.8 million), `CapacityRelay` (0.8 million), `ThresholdAlert` with quotas
up to 2 and four seconds (6.7 million), `ImbalanceAlert` with two batches (15.0 million),
`Scheduler` with three events
for the account (3.1 million) and with the account beside its hot data and two events (7.1 million).

`CHECK_DEADLOCK FALSE` stands where the model may stop: the clocks of the quotes, of the alerts, of
the budget and of the relay end at their bound, and a migrated account has nothing left to do.

What the properties say, in short:
* `Books`: at every moment the real position equals the ledger, plus what the open batch's orders
  really executed, plus what the program never claimed. No fill is lost or counted twice.
* `SubmitOnce`: no client order id is posted twice; repair rounds are within the attempts.
* `NoStrayOrder`: when a batch has ended nothing of it can execute; a repair never overlaps the
  orders it repairs. In `PairTrader` the orders of batches that were archived as unknown are excepted:
  they can still execute, and all of them are watched.
* `BaseKept`: the base position is not sold, even counting orders of unknown outcome.
* `Hedged`, `EndsHedged`: no batch ends one-legged, measured by the exchange and not by the reads.
* `LedgerSpec`: the trader implements `PairLedger`. `IInv`: the invariant of its proofs.
* `PostedOnce`, `VerdictTrue`, `ReadsTellTheTruth`: a transfer is posted once; what is recorded of
  it is what happened to the funds; a balance read before it landed is not used after it.
* `OpenedFirst`, `EndsMatched`, `RoundsBounded`: a migration never gives up more of the source than
  the target replaces, counted at the exchange; it ends matched, booked and with nothing alive;
  refunds, crashes and lost answers never add a round to a purpose.
* `CurrentWhenQuiet`, `AdmitsWhatIsKnown`: the hot snapshot is the account while the stream is up
  and silent; no order is admitted on less than the program had been told.
* `BookIsReal`, `NothingSkipped`: the book shown is the exchange's at the version it claims, above
  its floor, and contains every event handled.
* `QuoteIsTheNewest`: a quote in use is the newest accepted and never used for too long.
* `OneAlertPerCrossing`, `AlertsAreAboutRest`: one message for each rise, none lost to a late answer;
  no message about positions that a running batch is moving.
* `EstimateCovers`, `LimitsKept`: whatever the order and loss of answers, the estimate is not below
  what the exchange counted, and no class eats another's reserve.
* `AgeIsHonest`, `OnlyForward`: no sample gets younger on its way; no late answer takes the client
  back.
* `ExclusiveOwnership`, `NoStandoff`: an account has one owner, unfinished work has one; workers do
  not wait in a circle.
* `BaseIsSound`: a base that is committed was really held since the last announced event and counts
  no archived order. The latter is not claimed of a base that is exactly what a batch's own receipts
  add (see below).
* `NobodyIsForgotten`: a job that was due or asked for before a pass is started in it, unless its
  worker is busy or it is held back; an opening that shows in a fresh quote is tried once the account
  is free and its delays are over. Two corners are stated in it. An opportunity that slipped over a
  publication is excepted (see below). And a fast attempt that only waits for the market puts the
  account into a backoff of ten seconds that lets further fast attempts through; once the ordinary
  turn is due or has priority, though, the fast attempt is dropped in its favour (engine.py:2826) and
  the backoff holds that turn as well.
* The liveness properties: an open batch, a paused cycle and an open transfer do not stay as they
  are for ever; an account whose batch needs attention is paused; the hot cache serves again and
  again.

Each property is accompanied by a mutant in PROJECT.json, a version of one mapped definition with
the mistake it guards against, under which TLC finds the property violated.

### What the code does otherwise than it says
`relay_old_process`: VALIDATION.md:129 says that messages of an old relay process cannot renew a
sample's eligibility. The client knows a process as old only if it has used it before
(capacity_relay_client.py:369). A stream message of process 1 that waits in the buffer while an
HTTP answer brings the first sample of process 2 is accepted: the client goes back to process 1
and retires process 2, whose samples it refuses from then on, however long that process runs.
`OnlyForward` states what does hold.

The proof about the loop met a second one, which no run states. `EveryOpeningIsTried` holds only
without the publications that slip (`OpeningIsTried`). tests/test_cycle_hot_engine.py:558 says of an
opening that was looked at while data were missing: "A successful publication must rearm it." One
that is published between engine.py:512 and engine.py:514 does not: the loop stores the opportunity
over it, the next pass finds it noted and gives no signal, and if the account is already on an
attempt, a quote that comes meanwhile is not looked at again when it ends. The opening then waits
for the next publication, for an opportunity of another phase or generation, or for the ordinary
turn. It takes three events: the quote, the publication, and the quote that shows the opening.

A third one concerns archived orders, and no run states it either: `BaseIsSound` excepts it, and
without the exception TLC finds it. VALIDATION.md:257 says that while orders are watched a changed
position is not adopted automatically, and the review of positions keeps to that
(pair_recovery.py:487). But when both positions are exactly what the pending batch's receipts add,
the trader ends the batch without that review (pair_execution.py:716-746) and takes them for the base
without asking for watched orders. If an archived order has executed late and a trade by hand has
taken the same amount back, the base then holds its fill and lacks the trade. The amounts are right,
and a new batch still asks for the watched orders, so nothing is opened on such a base.

### Fairness
`FairSpec` in each module names it. The engine's scheduler calls an account or a group again after
at most a minute and wakes it while a batch is open, and a turn that has started is a thread that
runs on: weak fairness of the turn's own steps. Sending needs the request budget, which is empty
now and then but free again and again: strong fairness of `Send` and `Post`. Reads and queries fail
now and then, not for ever: `TurnFails` and `ReadFails` eventually stop, an order that is on the
exchange is eventually found (`PairTrader`). For `PairTrader` the exchange is assumed to resolve
each request; `HedgeExecutor` and `Migration` assume nothing of it, because there time turns an open
question into attention. In `HotAccount` the worker, the trader, each stream's thread and a control
that has begun go on (weak fairness); changes, faults and slow reads are bounded, not assumed to
stop by fairness. In `MarginTransfer` turns
may fail for ever as long as an account event has overtaken their reads, and foreign events
eventually stop. Nothing is
assumed of the operator, of the market, or of crashes. In `pair_live` an order marked as
sending that never reached the exchange can not be decided by any query (`Undecidable`): the
properties allow it explicitly, as the code waits for the operator then.

## 5. What is proved

With the bounds as parameters of any size, from the named assumptions of each module. They ask that
the parameters are natural numbers; that prices, steps, limits and lengths are positive where the
code divides or compares by them; that the reserves fit into the limit; that tolerances are below
one; that an order book's levels and a relay's clock differences are finitely many; that the two
accounts of a group differ and account ids are numbers; and, for a migration, that its sides are
finitely many and its positions hedged to begin with (`HedgedToBegin`).

* `PairTraderProof`: `InductiveInvariant`, and from it `TypeCorrect`, `BooksBalance`,
  `NoDuplicateSubmission`, `NothingLeftBehind`, `NeverOneLegged`, `BaseIsKept`; and
  `TraderImplementsLedger`.
* `MarginTransferProof`: `TransferInvariant`, `TransferTypes`, `NeverRetried`, `RecordsAreTrue`,
  `NoStaleBalance`.
* `HedgeExecutorProof`: `Invariance`, `Typed`, `BooksKept`, `SubmittedOnce`, `NothingStray`,
  `BaseUntouched`, `BatchesEndHedged`.
* `MigrationProof`: `MigrationInvariance`, `MigrationTyped`, `NeverShort`, `BatchesEndMatched`,
  `RoundsStayBounded`.
* `HotAccountProof`: `HotAccountInvariant`, `HotAccountTyped`, `PublishedIsCurrent`,
  `AdmissionIncludesKnown`.
* `GroupProof`: `RegistryInvariant`, `RegistryTypes`, `OneOwner`, and `LocksNeverStand` for account
  ids below any bound; `RecoveryInvariant`, `BaseIsTheTruth`; `ImbalanceInvariant`,
  `MessagesAreAboutRest`; `LedgerPromise`, what the ledger's promise gives by itself.
* `MarketFeedsProof`: `QuoteInvariant`, `NewestQuote`; `AlertInvariant`, `OneAlert`; `DepthInvariant`,
  `ShownBookIsReal`, `NoEventSkipped`; `SchedulerInvariant`, `LoopForgetsNobody`.
* `CapacityProof`: `BudgetInvariance`, `EstimateIsCovering`, `LimitsAreKept`; `RelayInvariance`,
  `AgeIsNeverUnderstated`, `RelayOnlyMovesForward`.

The argument for the trader. `Books` alone is not inductive: whether a repair may be saved depends
on what the journal says of each order, and that is only right because of how the receipt of an
order relates to the exchange's record. `Journal` states that relation for every order ("prepared"
was never sent; an unknown receipt has executed nothing on paper; a final one agrees with the
exchange for good). `Control` ties it to the place of the turn and of the two threads, `BatchShape`
to the baseline the batch started from, `RepairBound` says that a saved repair sells at most what
stands beyond the goal by the receipts, `Attempts` that a round not yet sent still has its attempt
in hand. Their conjunction `IInv` is preserved by each action alone; there is one lemma per action,
and lemmas for what several share (an order entry changes, new orders are saved, a batch ends).
The refinement maps `net` to the real position minus `outside` and the batch to `pending`; saving,
sending, answering, querying and crashing stutter, an execution is `Trade`, and `Finish` is `Commit`
or `Rollback`, because by the invariant the receipts and the books are the exchange's truth.

For the transfer, `MInv` adds to the properties what the journal says at each point of a turn
(`JournalAtPc`), how far each request has come (`Progress`: posted once or not at all, an answer in
hand agrees with the exchange), and what a read that nothing has revoked can be missing (`Sound`):
only a transfer that was skipped or is the journal's own, whose event is still on its way or was
lost with the stream. The last part is why revoking by events and by reconnects is enough.

`NeverOneLegged` and `BaseIsKept` also rest on what the model takes from outside: the exchange
executes an order for at most its quantity, and a query by client id answers with that order.

For the executor of one account, `HedgeExecutorInv` follows the same line with less to go by, because
nothing is kept between the save and the POST. `Journal` relates each receipt to the exchange's
record; `Control` says that only a turn that has just saved its orders is armed to post them, so an
order that is not posted after a crash never will be; the repairs are bounded by what the settled
receipts leave beyond the goal, and the rounds at the exchange by the attempts counted for them. A
batch ends hedged because every decision to end it is taken from settled receipts, which are the
exchange's record for good, and never from the positions, which may lag.

For a migration, `Stages` says which purposes can lie behind the open batch, and `Worth` that a round
asks for no more than is there and that the target, even if all orders of the round execute, is worth
what the source gives up, within the tolerance. `Attempts` keeps the rounds that were posted below the
attempts counted, a saved round that was not posted still having its own in hand; `Totals` ties the
run's totals to the positions as long as nobody trades by hand. That the positions are hedged to begin
with is assumed because the planner refuses to start otherwise (`SourceMismatch`).

For the hot account a value passes from the modes' read to the cached one, to the one just got, and
to the published snapshot. Two revocations guard the passage, so the invariant says twice what a
value includes: as long as the generation has not moved, all news that no callback has begun to
handle (`FreshModes`, `ToldModes`); as long as the ticket counts, all that was said to the end
(`FreshTicket`, `ToldTicket`). Publication checks both. The attempt to prove it showed that the ghost
of a write once claimed more than the code knows; the model says now that a write is known when its
answer has come.

For the registry, `RegistryInv` adds three parts to the ownership: no two jobs hold one lock
(`Apart`), a job holds a prefix of its list (`Counted`), and what a job has read of its accounts and
group is still so (`StillSo`), because whoever could change it would need a lock the job holds.
Ownership then follows at each commit from the checks and from what was read. That nobody waits for
ever in a circle is an argument of its own: each lock has a rank (a group's, then an account's by
its id, then the registration), every job takes its locks in rising rank, so whoever holds a lock
another waits for can itself only wait for one of a higher rank; the worker that waits for the
highest rank of all is therefore not kept waiting. A highest rank exists because account ids are
bounded, which is why the theorem assumes it.

For recovery, a read is of a position the account had no earlier than the last event announced before
it, an order found not to have executed is in no earlier position, and a commit checks that nothing
was announced since the reads began. Positions change by fills and trades by hand only, and each is
announced in its turn, so what is committed was really held and is free of watched orders. The proof
needs that a batch is archived only while it is the pending one. A completion by receipts gives the
first half only: what it stores was really held (`CompletedWasHeld`).

For the imbalance, the activity captured with a sample tells whether a batch ran when it was taken.
The observer stores a sample only if its activity is that of the window; a sample later than the
window's first was taken after that one had been collected, so both lie within one activity, and the
message checks that activity again when it leaves.

For the quotes, the invariant says that what is held is what the order ends with and that the order
is the newest ever accepted, so dropping a quote keeps its place; and that the lifetime was computed
once, from the age at arrival, so a later setting of the wall clock cannot extend it.

For the alert, what has to be found is what a message under way and the gate know of one another: it
is awaited exactly while the gate is in the era it was picked in (`CourierKnows`); within an era the
falls only grow; if the last announcement is of the gate's era then the gate's last time is its time,
and equal falls mean the gate is silent (`GateKnows`); and a pending row is due (`Due`). Then a
delivery after a fall is not taken for the rise that came later, and a cancelled one leaves no trace.

For the book, the invariant says that a book that is valid stands exactly at a version of the
exchange's, down to its floor, with every handled event in it. An event that bridges or continues
keeps that: a level it does not name is the same in the version before and after it (by the smallest
version at which it would differ). Snapshots that are not revoked are earlier versions of the book.

For the budget, each request counted in the exchange's minute is still under way, was lost within this
minute, or has told which minute it is (`Accounted`); and a local minute that is known is not ahead of
the exchange's and does not end before it (`Clock`). So whenever the local minute rolls over, what it
carries along includes all that can be counted in the new one, and the estimate stays above the count
(`Estimated`). The limits follow class by class, as what a class and those below it use was admitted
below that class's limit (`Shares`).

For the relay, all samples of a key, in the server, the stream, an answer or the client's cache, are
ordered by process and sequence as by the moment they were read (`InOrder`); the client charges a
sample at least the time since that moment, less the difference of the clocks for a streamed one
(`Charged`); and an epoch that was retired is never the current one (`OneWay`).

For the loop, three parts. `TurnsHold`: a job that is owed a turn is due or asked for, and at each
step of the pass the invariant says where that knowledge has got to; while its worker runs, it was
asked for since, or a fast attempt has its time in keeping. `LooksHold`: an opportunity that was
noted has its signal, or was tried, or will be looked at again when the attempt under way ends.
`OpeningsHold`: an opening from before the pass has been looked at by the time the workers are
started, and has a signal unless it slipped. The theorem has all three jobs together and any number
of events.

## 6. Only model-checked
The liveness properties: `BatchSettles` of `PairTrader` and of `Migration`, `PausedCycleCloses`,
`PendingClears`, `IntentSettles`, `AttentionPauses` and `Recovers`. They rest on fairness, so on
ENABLED, which these provers do not handle; TLC checks them on the bounded instances above. That
`OldProcessStaysOld` fails is a counterexample and not a theorem. The theorems about machines that a
run puts side by side are of their own specifications; in the run the other machines stutter, and no
theorem is about two components that act on each other, except the refinement. No module has
recursion over data: quantities are numbers of steps or lots. Every module has a type invariant; the
runs with the tightest state spaces leave it out where a stronger invariant of the run contains it.

## 7. Not modelled
* Leverage batches of a group and leverage intents of an account, the legacy -2029 recovery of
  opening orders, leverage changes before a migration.
* Planning figures (size, margin, cost, spread, daily volume): whether a plan exists is a free
  choice, so every property holds whatever the planner decides within the exchange's rules.
* The paper broker: one local transaction per order, no protocol of its own.
* Timers: the ten-second cancel is one way an order becomes final, two minutes are `GrowLate`, the
  cooldowns of a batch only delay.
* Rows that contradict their order end in attention (`QueryInvalid`); a receipt already saved is
  taken as valid. Payloads of streams and of the relay are valid or cannot be read.
* The choice among several ready accounts (their order and the number of workers): `Scheduler` has
  one account, one refresh and one group; every other module lets a turn come at any time.
* In the relay `close()`, authentication and the timing statistics; the server's clock is right, it
  is the client's that may differ and be set.
* An answer with the used weight but without a `Date`, or from a clock that goes back, in
  `RateBudget`; weights other than 1.
* In `account_turns` no position is off the step, so a repair never crosses equality by the one step
  more of execution.py:341; the theorems `BaseUntouched` and `BatchesEndHedged` cover it.
* Figures computed from the levels of the book; one side of it is modelled.
* The periodic summaries, the listing watch and the page: they read and render. The HTTP server's
  requests are the operator's actions of the modules they reach.
* The legacy monitor and the installers.

--------------------------- MODULE ImbalanceAlert ---------------------------
(***************************************************************************)
(* The alert that a group's long and short positions differ               *)
(* (src/trading/position_imbalance_notifications.py, with the evidence of  *)
(* src/trading/position_observations.py and the delivery of Store and of   *)
(* TradingEngine.notify).                                                  *)
(*                                                                         *)
(* Between two legs of a batch the positions differ by design.  The alert  *)
(* must not speak of that: a difference has to be seen by two samples      *)
(* FaultAge apart within one activity, a counter every batch moves by      *)
(* SQL triggers, and the counter is compared again when the observation    *)
(* is stored and when the message is about to leave.                       *)
(*                                                                         *)
(* One target.  The trading thread samples both positions at one moment    *)
(* and shows the sample; batches, samples, the clock and the settings move *)
(* between any two steps of the notifier, which holds no lock across them. *)
(* Sending twice after a lost answer or a crash is allowed for.  Left out: *)
(* texts, other categories, a clock that runs backwards, samples of two    *)
(* different times.                                                        *)
(***************************************************************************)
EXTENDS Integers

CONSTANTS
    FaultAge,       \* FAULT_SECONDS
    RecoveryAge,    \* RECOVERY_SECONDS
    SampleMaxAge,   \* SAMPLE_MAX_AGE
    MaxGap,         \* max_gap: silence that interrupts a window
    Backoff,        \* delay after a failed send
    MaxClock,       \* bound: the clock
    MaxRuns,        \* bound: batches
    MaxShocks       \* bound: trades by hand, crashes, changed settings

ASSUME ImbalanceBounds ==
    {FaultAge, RecoveryAge, SampleMaxAge, MaxGap, Backoff, MaxClock, MaxRuns, MaxShocks} \subseteq Nat

VARIABLES
    clock,
    even,           \* the accounts' positions are balanced
    run,            \* the group's batch: none, running, or needing attention
    activity,       \* the counter of the SQL triggers
    shown,          \* the last sample: [at, even], with ghosts activity, calm
    allowed,        \* monitoring.allowed
    revision,       \* of the settings
    fresh,          \* this process has not yet observed: instance_id differs
    target,         \* the persisted state of the target
    row,            \* the outbox rows of the incident: fault and recovery
    notifier,       \* where notify is, and what it captured
    runs, shocks    \* counters for the bounds

world         == <<clock, even, run, activity, shown, runs, shocks>>
imbalanceVars == <<world, allowed, revision, fresh, target, row, notifier>>

Message == {"fault", "recovery"}
Never   == -1

NoSample   == [at |-> Never, even |-> TRUE, activity |-> 0, calm |-> TRUE]
NoWindow   == [kind |-> "none", start |-> Never, count |-> 0, confirmed |-> Never]
NoTarget   == [known |-> FALSE, incident |-> "none", window |-> NoWindow, last |-> Never,
               activity |-> 0, suppressed |-> FALSE, permitted |-> "none",
               evidence |-> NoSample, capture |-> 0]
NoRow      == [state |-> "none", due |-> 0]
NoRows     == [m \in Message |-> NoRow]
IdleNotify == [at |-> "idle", seen |-> NoSample, activity |-> 0, suppressed |-> FALSE,
               revision |-> 0, item |-> "none"]

Time     == Nat \cup {Never}
Evidence == [at : Time, even : BOOLEAN, activity : Nat, calm : BOOLEAN]
Window   == [kind : {"none"} \cup Message, start : Time, count : Nat, confirmed : Time]
Watched  == [known : BOOLEAN, incident : {"none", "open", "sent"}, window : Window, last : Time,
             activity : Nat, suppressed : BOOLEAN, permitted : {"none"} \cup Message,
             evidence : Evidence, capture : Nat]
Row      == [state : {"none", "pending", "cancelled", "delivered"}, due : Nat]
Notifier == [at : {"idle", "collected", "due", "sending"}, seen : Evidence, activity : Nat,
             suppressed : BOOLEAN, revision : Nat, item : {"none"} \cup Message]

ImbalanceTypeOK ==
    /\ clock \in 0 .. MaxClock /\ runs \in 0 .. MaxRuns /\ shocks \in 0 .. MaxShocks
    /\ even \in BOOLEAN /\ allowed \in BOOLEAN /\ fresh \in BOOLEAN
    /\ run \in {"none", "running", "attention"}
    /\ activity \in Nat /\ revision \in Nat /\ shown \in Evidence
    /\ target \in Watched /\ row \in [Message -> Row]
    /\ notifier \in Notifier /\ (notifier.at = "sending" => notifier.item \in Message)

ImbalanceInit ==
    /\ clock = 0 /\ even = TRUE /\ run = "none" /\ activity = 0 /\ shown = NoSample
    /\ allowed = TRUE /\ revision = 0 /\ fresh = FALSE
    /\ target = NoTarget /\ row = NoRows /\ notifier = IdleNotify
    /\ runs = 0 /\ shocks = 0

-----------------------------------------------------------------------------
(* The trading side *)

Tick ==
    /\ clock < MaxClock
    /\ clock' = clock + 1
    /\ UNCHANGED <<even, run, activity, shown, runs, shocks, allowed, revision, fresh, target, row, notifier>>

\* position_pair_insert and position_pair_update.
RunBegins ==
    /\ run = "none" /\ runs < MaxRuns
    /\ runs' = runs + 1
    /\ run' = "running"
    /\ activity' = activity + 1
    /\ UNCHANGED <<clock, even, shown, shocks, allowed, revision, fresh, target, row, notifier>>

\* The legs execute one after the other.
LegExecutes ==
    /\ run = "running"
    /\ even' = ~even
    /\ UNCHANGED <<clock, run, activity, shown, runs, shocks, allowed, revision, fresh, target, row, notifier>>

\* The batch is settled, or every order is final and the operator is needed.
RunEnds ==
    /\ run # "none"
    /\ \/ run' = "none"
       \/ run = "running" /\ run' = "attention"
    /\ activity' = activity + 1
    /\ UNCHANGED <<clock, even, shown, runs, shocks, allowed, revision, fresh, target, row, notifier>>

PositionsShift ==
    /\ shocks < MaxShocks /\ shocks' = shocks + 1
    /\ even' = ~even
    /\ UNCHANGED <<clock, run, activity, shown, runs, allowed, revision, fresh, target, row, notifier>>

Calm == run # "running"

TakeSample ==
    /\ shown' = [at |-> clock, even |-> even, activity |-> activity, calm |-> Calm]
    /\ UNCHANGED <<clock, even, run, activity, runs, shocks, allowed, revision, fresh, target, row, notifier>>

-----------------------------------------------------------------------------
(* Observing *)

\* collect: under the locks of the group and its accounts, or, when a worker
\* has them, only the activity and no sample.
Collect ==
    /\ notifier.at \in {"idle", "due"}
    /\ \E locked \in BOOLEAN :
          notifier' = [notifier EXCEPT !.at = "collected", !.revision = revision, !.activity = activity,
                         !.seen = IF locked THEN shown ELSE NoSample, !.suppressed = locked /\ ~Calm]
    /\ UNCHANGED <<world, allowed, revision, fresh, target, row>>

\* position_observations.current: activity and batch are as they were captured.
StillCaptured(captured) == activity = captured /\ Calm

Cancelled(r) == IF r.state = "pending" THEN [r EXCEPT !.state = "cancelled"] ELSE r
CancelAll(rs) == [m \in Message |-> Cancelled(rs[m])]

\* The unsent incident goes with its window.
DropUnsent(t) == IF t.incident = "open" THEN [t EXCEPT !.incident = "none"] ELSE t

ClearWindow(t) == DropUnsent([t EXCEPT !.window = NoWindow, !.last = Never])

\* Mutant: a batch that came and went between two observations is missed.
InterruptedByBatchOnly(t, suppressed) == fresh \/ suppressed \/ t.suppressed

Interrupted(t, suppressed) ==
    fresh \/ suppressed \/ t.suppressed \/ t.activity # notifier.activity

\* Permission is revoked first; only this observation can give it back.
Renew(t, suppressed) ==
    LET kept == [t EXCEPT !.known = TRUE, !.activity = notifier.activity, !.suppressed = suppressed,
                          !.capture = notifier.activity, !.permitted = "none", !.evidence = NoSample]
        quiet == IF Interrupted(t, suppressed) \/ ~t.known THEN ClearWindow(kept) ELSE kept IN
    IF ~suppressed /\ quiet.last # Never /\ clock - quiet.last > MaxGap
    THEN DropUnsent([quiet EXCEPT !.window = NoWindow]) ELSE quiet

FreshAt(at) == at # Never /\ clock - SampleMaxAge <= at /\ at <= clock

Kind(s) == IF s.even THEN "recovery" ELSE "fault"

\* The window a usable sample continues or begins.
Extend(t, s) ==
    LET same  == IF t.window.kind = Kind(s) THEN t.window ELSE NoWindow
        newer == t.last = Never \/ s.at > t.last
        grown == IF same.count = 0
                 THEN [kind |-> Kind(s), start |-> s.at, count |-> 1, confirmed |-> s.at]
                 ELSE [same EXCEPT !.count = @ + 1, !.confirmed = s.at]
        kept  == IF s.even THEN DropUnsent(t) ELSE t IN
    [kept EXCEPT !.evidence = s, !.window = IF newer THEN grown ELSE same,
                 !.last = IF newer THEN s.at ELSE @]

LongEnough(t, s) ==
    /\ t.window.count >= 2
    /\ t.window.confirmed - t.window.start >= (IF s.even THEN RecoveryAge ELSE FaultAge)

\* What a confirmed window permits: a fault once, a recovery after its fault.
Permit(t, s) ==
    IF ~LongEnough(t, s) THEN t
    ELSE IF s.even THEN IF t.incident = "sent" THEN [t EXCEPT !.permitted = "recovery"] ELSE t
    ELSE IF t.incident = "sent" THEN t ELSE [t EXCEPT !.incident = "open", !.permitted = "fault"]

\* A new incident has rows of its own.  Queueing again refreshes the row and
\* keeps its backoff.
Queue(t, rs) ==
    LET m == t.permitted IN
    IF m = "none" THEN rs
    ELSE [rs EXCEPT ![m] = IF @.state \in {"pending", "cancelled"} THEN [@ EXCEPT !.state = "pending"]
                           ELSE IF @.state = "none" THEN [state |-> "pending", due |-> clock] ELSE @]

Usable(t, s) == FreshAt(s.at) /\ (t.last # Never => s.at >= t.last)

\* observe_position_imbalance's transaction.
Observe ==
    /\ notifier.at = "collected"
    /\ notifier.revision = revision /\ allowed
    /\ LET s == notifier.seen
           suppressed == notifier.suppressed \/ ~StillCaptured(notifier.activity)
           t == Renew(target, suppressed)
           u == IF suppressed \/ ~Usable(t, s) THEN t ELSE Permit(Extend(t, s), s)
           rs == IF t.incident = "none" \/ u.incident = "none" THEN NoRows ELSE CancelAll(row) IN
       /\ target' = u
       /\ row' = Queue(u, rs)
    /\ fresh' = FALSE
    /\ notifier' = [notifier EXCEPT !.at = "due"]
    /\ UNCHANGED <<world, allowed, revision>>

\* Outdated settings change nothing; disabled ones reset the state.
ObserveRefused ==
    /\ notifier.at = "collected"
    /\ notifier.revision # revision \/ ~allowed
    /\ IF notifier.revision = revision
       THEN target' = NoTarget /\ row' = NoRows
       ELSE UNCHANGED <<target, row>>
    /\ notifier' = IdleNotify
    /\ UNCHANGED <<world, allowed, revision, fresh>>

-----------------------------------------------------------------------------
(* Delivering *)

\* deliverable, with the capture compared once more.
Deliverable(m) ==
    /\ allowed
    /\ row[m].state = "pending" /\ row[m].due <= clock
    /\ target.permitted = m /\ ~target.suppressed
    /\ FreshAt(target.evidence.at)
    /\ target.incident = (IF m = "fault" THEN "open" ELSE "sent")
    /\ StillCaptured(target.capture)

\* notification_for_delivery and the request to Feishu.
Send(m) ==
    /\ notifier.at = "due"
    /\ Deliverable(m)
    /\ notifier' = [notifier EXCEPT !.at = "sending", !.item = m]
    /\ UNCHANGED <<world, allowed, revision, fresh, target, row>>

NothingDue ==
    /\ notifier.at = "due"
    /\ notifier' = IdleNotify
    /\ UNCHANGED <<world, allowed, revision, fresh, target, row>>

\* notification_result; a cancelled row still takes the result of a send.
Delivered ==
    LET m == notifier.item IN
    /\ notifier.at = "sending"
    /\ IF row[m].state \in {"pending", "cancelled"} /\ target.incident # "none"
       THEN /\ target' = [target EXCEPT !.incident = IF m = "fault" THEN "sent" ELSE "none", !.permitted = "none"]
            /\ row' = IF m = "fault" THEN [row EXCEPT ![m].state = "delivered"] ELSE NoRows
       ELSE UNCHANGED <<target, row>>
    /\ notifier' = IdleNotify
    /\ UNCHANGED <<world, allowed, revision, fresh>>

SendFails ==
    LET m == notifier.item IN
    /\ notifier.at = "sending"
    /\ row' = IF row[m].state \in {"pending", "cancelled"} THEN [row EXCEPT ![m].due = clock + Backoff] ELSE row
    /\ notifier' = IdleNotify
    /\ UNCHANGED <<world, allowed, revision, fresh, target>>

-----------------------------------------------------------------------------
(* Settings and crashes *)

\* edit_monitoring resets the target with the switch, either way.
Toggle ==
    /\ shocks < MaxShocks /\ shocks' = shocks + 1
    /\ allowed' = ~allowed
    /\ revision' = revision + 1
    /\ target' = NoTarget /\ row' = NoRows
    /\ UNCHANGED <<clock, even, run, activity, shown, runs, fresh, notifier>>

Crash ==
    /\ shocks < MaxShocks /\ shocks' = shocks + 1
    /\ fresh' = TRUE
    /\ notifier' = IdleNotify
    /\ UNCHANGED <<clock, even, run, activity, shown, runs, allowed, revision, target, row>>

ImbalanceNext ==
    \/ Tick \/ RunBegins \/ LegExecutes \/ RunEnds \/ PositionsShift \/ TakeSample
    \/ Collect \/ Observe \/ ObserveRefused
    \/ \E m \in Message : Send(m)
    \/ NothingDue \/ Delivered \/ SendFails
    \/ Toggle \/ Crash

ImbalanceSpec == ImbalanceInit /\ [][ImbalanceNext]_imbalanceVars

-----------------------------------------------------------------------------
(* Properties *)

\* A message leaves only with a sample that is about positions at rest: taken
\* while no batch of the group was running, with none since, and showing what
\* the message says.  However the legs of a batch interleave with samples,
\* observations and sends, they raise no alert and end none.
AlertsAreAboutRest ==
    [][\A m \in Message : notifier'.at = "sending" /\ notifier.at # "sending" /\ notifier'.item = m =>
          /\ target.evidence.calm /\ target.evidence.activity = activity /\ Calm
          /\ Kind(target.evidence) = m]_imbalanceVars

=============================================================================

--------------------------- MODULE ThresholdAlert ----------------------------
(***************************************************************************)
(* The alert that a market's public quota rose above the threshold         *)
(* (Store.observe_capacity_alert and notification_result in                *)
(* src/trading/store.py, with TradingEngine.poll_market and notify).       *)
(*                                                                         *)
(* One market and leverage.  The polling thread reads the quota, then the  *)
(* settings, then stores what it saw; the notifier reads the message, then *)
(* the settings, then sends, then stores the result.  Quota, settings and  *)
(* clock move between any two of these steps.  The gate gives one message  *)
(* per rise; the number of falls it has seen (fall_generation) tells       *)
(* whether the answer of a send is still about the present rise.           *)
(*                                                                         *)
(* A lost answer or a crash may repeat a message; that is allowed for.     *)
(* Left out: texts, other markets and messages, the limit of two alerts    *)
(* per pass, the event written with a delivery.                            *)
(***************************************************************************)
EXTENDS Integers

CONSTANTS
    Threshold,      \* the thresholds the settings may have: their identity
    MaxQuota,       \* bound: the quota
    AlertMaxAge,    \* CAPACITY_ALERT_MAX_AGE
    Cooldown,       \* the cooldown between two alerts
    Retry,          \* delay after a failed send
    MaxMoment,      \* bound: the clock
    MaxSwings,      \* bound: moves of the quota
    MaxChanges      \* bound: changed settings and crashes

ASSUME ThresholdAssumption ==
    /\ Threshold \subseteq Nat /\ Threshold # {}
    /\ MaxQuota \in Nat /\ AlertMaxAge \in Nat /\ Cooldown \in Nat /\ Retry \in Nat

VARIABLES
    moment,
    quota,          \* what the market offers
    setting,        \* the threshold of the settings
    alerting,       \* monitoring.allowed
    poll,           \* the polling thread
    gate,           \* the persisted gate, with a ghost: its era
    letter,         \* the outbox row the gate is waiting for
    courier,        \* the notifier and the item it is delivering
    announced,          \* ghost: the last message whose send succeeded
    swings, changes \* counters for the bounds

market        == <<moment, quota, swings>>
settings      == <<setting, alerting, changes>>
thresholdVars == <<market, settings, poll, gate, letter, courier, announced>>

NoMoment == -1

NoPoll    == [at |-> "idle", checked |-> 0, quota |-> 0, identity |-> NoMoment]
NoGate    == [identity |-> NoMoment, notified |-> FALSE, last |-> NoMoment, above |-> FALSE,
              falls |-> 0, checked |-> 0, resume |-> NoMoment, era |-> 0]
NoLetter  == [id |-> 0, pending |-> FALSE, due |-> 0, expires |-> 0]
NoCourier == [at |-> "idle", id |-> 0, identity |-> NoMoment, falls |-> 0, era |-> 0]

ThresholdInit ==
    /\ moment = 0 /\ quota = 0 /\ swings = 0
    /\ setting \in Threshold /\ alerting = TRUE /\ changes = 0
    /\ poll = NoPoll /\ gate = NoGate /\ letter = NoLetter /\ courier = NoCourier
    /\ announced = [era |-> NoMoment, falls |-> 0, at |-> 0]

-----------------------------------------------------------------------------
MomentPasses ==
    /\ moment < MaxMoment
    /\ moment' = moment + 1
    /\ UNCHANGED <<quota, swings, settings, poll, gate, letter, courier, announced>>

QuotaMoves ==
    /\ swings < MaxSwings /\ swings' = swings + 1
    /\ quota' \in (0 .. MaxQuota) \ {quota}
    /\ UNCHANGED <<moment, settings, poll, gate, letter, courier, announced>>

-----------------------------------------------------------------------------
(* Observing *)

PollQuota ==
    /\ poll.at = "idle"
    /\ poll' = [NoPoll EXCEPT !.at = "read", !.checked = moment, !.quota = quota]
    /\ UNCHANGED <<market, settings, gate, letter, courier, announced>>

\* capacity_alert_config
ReadSetting ==
    /\ poll.at = "read" /\ alerting
    /\ poll' = [poll EXCEPT !.at = "observe", !.identity = setting]
    /\ UNCHANGED <<market, settings, gate, letter, courier, announced>>

Expired(l) == [l EXCEPT !.expires = 0]

\* invalidate_capacity_alert: the read failed, a tier is missing, or the market
\* is switched off.  It is not a fall.
InvalidateAlert ==
    /\ poll.at \in {"read", "observe"}
    /\ letter' = Expired(letter)
    /\ poll' = NoPoll
    /\ UNCHANGED <<market, settings, gate, courier, announced>>

\* The gate this observation works on: new settings start another era.
OpenGate ==
    IF gate.identity = poll.identity THEN gate
    ELSE [NoGate EXCEPT !.identity = poll.identity, !.era = gate.era + 1]

Above == poll.quota > poll.identity

Accepts ==
    /\ alerting
    /\ moment - poll.checked < AlertMaxAge
    /\ poll.checked > gate.resume
    /\ gate.identity = poll.identity => poll.checked >= gate.checked

\* observe_capacity_alert's transaction.
ObserveQuota ==
    LET g == OpenGate
        seen == [g EXCEPT !.falls = @ + (IF g.above /\ ~Above THEN 1 ELSE 0),
                          !.above = Above, !.checked = poll.checked,
                          !.notified = @ /\ Above]
        mine == letter.pending /\ gate.identity = poll.identity
        may  == ~seen.notified /\ (seen.last = NoMoment \/ moment - seen.last >= Cooldown) IN
    /\ poll.at = "observe" /\ Accepts
    /\ gate' = seen
    /\ letter' =
          IF mine THEN IF Above THEN [letter EXCEPT !.expires = poll.checked + AlertMaxAge] ELSE Expired(letter)
          ELSE IF Above /\ may
          THEN [id |-> letter.id + 1, pending |-> TRUE, due |-> moment, expires |-> poll.checked + AlertMaxAge]
          ELSE [letter EXCEPT !.pending = FALSE, !.expires = 0]
    /\ poll' = NoPoll
    /\ UNCHANGED <<market, settings, courier, announced>>

ObserveNothing ==
    /\ poll.at = "observe" /\ ~Accepts
    /\ poll' = NoPoll
    /\ UNCHANGED <<market, settings, gate, letter, courier, announced>>

-----------------------------------------------------------------------------
(* Delivering *)

\* notification_for_delivery
PickLetter ==
    /\ courier.at = "idle"
    /\ alerting
    /\ letter.pending /\ letter.due <= moment /\ letter.expires > moment
    /\ gate.above
    /\ courier' = [at |-> "picked", id |-> letter.id, identity |-> gate.identity,
                   falls |-> gate.falls, era |-> gate.era]
    /\ UNCHANGED <<market, settings, poll, gate, letter, announced>>

\* The settings are read once more before the request to Feishu.
SendLetter ==
    /\ courier.at = "picked"
    /\ courier' = IF alerting /\ courier.identity = setting
                  THEN [courier EXCEPT !.at = "sending"] ELSE NoCourier
    /\ UNCHANGED <<market, settings, poll, gate, letter, announced>>

\* Mutant: a message that was cancelled while it was under way still counts.
AwaitedWhenCancelled == letter.id = courier.id

Awaited == letter.pending /\ letter.id = courier.id

\* An in-flight success does not consume a newer threshold crossing.
Answered == gate.above /\ courier.falls = gate.falls

\* notification_result
LetterDelivered ==
    /\ courier.at = "sending"
    /\ gate' = IF Awaited THEN [gate EXCEPT !.last = moment, !.notified = Answered] ELSE gate
    /\ letter' = IF Awaited THEN [letter EXCEPT !.pending = FALSE] ELSE letter
    /\ announced' = [era |-> courier.era, falls |-> courier.falls, at |-> moment]
    /\ courier' = NoCourier
    /\ UNCHANGED <<market, settings, poll>>

LetterFails ==
    /\ courier.at = "sending"
    /\ letter' = IF Awaited THEN [letter EXCEPT !.due = moment + Retry] ELSE letter
    /\ courier' = NoCourier
    /\ UNCHANGED <<market, settings, poll, gate, announced>>

-----------------------------------------------------------------------------
(* Settings and crashes *)

SettingChanges ==
    /\ changes < MaxChanges /\ changes' = changes + 1
    /\ setting' \in Threshold \ {setting}
    /\ UNCHANGED <<market, alerting, poll, gate, letter, courier, announced>>

\* edit_monitoring; cancel_disabled makes the cancellation last.
SwitchAlerts ==
    /\ changes < MaxChanges /\ changes' = changes + 1
    /\ alerting' = ~alerting
    /\ IF alerting
       THEN /\ letter' = [letter EXCEPT !.pending = FALSE, !.expires = 0]
            /\ gate' = IF gate.identity = NoMoment THEN gate
                       ELSE [gate EXCEPT !.notified = FALSE, !.resume = moment, !.era = @ + 1]
       ELSE UNCHANGED <<letter, gate>>
    /\ UNCHANGED <<market, setting, poll, courier, announced>>

CourierStops ==
    /\ changes < MaxChanges /\ changes' = changes + 1
    /\ poll' = NoPoll /\ courier' = NoCourier
    /\ UNCHANGED <<market, setting, alerting, gate, letter, announced>>

ThresholdNext ==
    \/ MomentPasses \/ QuotaMoves
    \/ PollQuota \/ ReadSetting \/ InvalidateAlert \/ ObserveQuota \/ ObserveNothing
    \/ PickLetter \/ SendLetter \/ LetterDelivered \/ LetterFails
    \/ SettingChanges \/ SwitchAlerts \/ CourierStops

ThresholdSpec == ThresholdInit /\ [][ThresholdNext]_thresholdVars

-----------------------------------------------------------------------------
(* Properties *)

\* The gate rests only when the rise it has now was announced.
RestsOnItsOwnRise == gate.notified => announced.era = gate.era /\ announced.falls = gate.falls

\* Within an era two messages are about two rises, and the cooldown apart.
AnotherRise ==
    announced'.era = announced.era => announced'.falls > announced.falls /\ announced'.at - announced.at >= Cooldown

\* One alert per crossing, and none lost: however answers, polls and falls
\* interleave, two messages whose sends succeeded are about different rises
\* and keep the cooldown, and the gate falls silent only for the rise that a
\* message announced, never for a later one that nobody was told of.
OneAlertPerCrossing ==
    [][RestsOnItsOwnRise' /\ (announced' # announced => AnotherRise)]_thresholdVars

=============================================================================

---------------------------- MODULE CapacityRelay ----------------------------
(***************************************************************************)
(* The relay of public capacity samples: RelayCollector of                 *)
(* capacity_relay_server.py on one host, PublicCapacityRelayClient of      *)
(* capacity_relay_client.py on another.                                    *)
(*                                                                         *)
(* A sample reaches the client through a stream, whose subscribers keep    *)
(* only the newest sample of each key, or through an HTTP read of the same *)
(* cache.  Either may be late, the server may restart in between (a new    *)
(* process counts from 1 again under a new epoch), and the two clocks may  *)
(* differ.  Intervals in time: monotonic clocks run at the same rate;      *)
(* now is also the server's wall clock, now + offset the client's.         *)
(* A payload is as good as the time its upstream read began.               *)
(***************************************************************************)
EXTENDS Integers, Sequences, FiniteSets, FiniteSetsExt

CONSTANTS
    Key,         \* (kind, symbol)
    ServedAge,   \* MAX_AGE of the server: of a sample that is still handed on
    MaxAge,      \* _MAX_AGE of the client: of a sample that is still used
    RefreshAge,  \* _REFRESH_AGE: of a sample that is used without asking for a newer one
    Allowance,   \* _FUTURE_ALLOWANCE
    Tolerance,   \* _CLOCK_TOLERANCE
    \* bounds
    MaxNow, MaxProcesses, MaxBuffer, MaxClockSteps,
    Offsets      \* differences of the clocks; 0 to begin with

ASSUME RelayConstants ==
    /\ {ServedAge, MaxAge, RefreshAge, Allowance, Tolerance} \subseteq Nat /\ RefreshAge <= MaxAge
    /\ {MaxNow, MaxProcesses, MaxBuffer, MaxClockSteps} \subseteq Nat
    /\ 0 \in Offsets /\ Offsets \subseteq Int /\ IsFiniteSet(Offsets)

VARIABLES
    now, offset, clockSteps,
    process,     \* server: which process runs (its epoch)
    sequence,    \*   samples it has taken
    samples,     \*   the newest of each key
    reading,     \*   per key: when the read under way began, or Idle
    subscribed,  \*   it serves the client's connection
    pending,     \*   Subscriber.pending: the keys whose newest sample is to be sent
    connected,   \* client: the stream is open as far as it knows
    buffer,      \*   messages that arrived, or are on their way
    fetch,       \*   per key: the HTTP read under way
    epoch,       \*   0: none
    serial,      \*   _epoch_serial
    retired,     \*   _retired_epochs
    order,       \*   _order
    cache        \*   _cache

serverVars == <<process, sequence, samples, reading, subscribed, pending>>
clientVars == <<connected, buffer, fetch, epoch, serial, retired, order, cache>>
accepted   == <<epoch, serial, retired, order, cache>>
relayVars  == <<now, offset, clockSteps, serverVars, clientVars>>

Idle      == -1
NoSample  == [epoch |-> 0, seq |-> 0, at |-> 0]
NoEntry   == [of |-> NoSample, started |-> 0, checked |-> 0, source |-> "ws"]
NoFetch   == [pc |-> "none", since |-> 0, offset |-> 0, serial |-> 0,
              answer |-> [of |-> NoSample, published |-> 0]]

\* What the server, and each of its processes, may say.
SampleSet == [epoch : 0 .. MaxProcesses, seq : Nat, at : 0 .. MaxNow]
Envelope  == [of : SampleSet, published : 0 .. MaxNow]

RelayTypeOK ==
    /\ now \in 0 .. MaxNow /\ offset \in Offsets /\ clockSteps \in 0 .. MaxClockSteps
    /\ process \in 1 .. MaxProcesses /\ sequence \in Nat
    /\ samples \in [Key -> SampleSet] /\ reading \in [Key -> {Idle} \cup 0 .. MaxNow]
    /\ subscribed \in BOOLEAN /\ pending \subseteq Key
    /\ connected \in BOOLEAN
    /\ Len(buffer) <= MaxBuffer /\ \A i \in DOMAIN buffer : buffer[i].m \in Envelope
    /\ fetch \in [Key -> [pc : {"none", "sent", "answered"}, since : 0 .. MaxNow, serial : Nat,
                          offset : Offsets, answer : Envelope]]
    /\ epoch \in 0 .. MaxProcesses /\ serial \in Nat /\ retired \subseteq 1 .. MaxProcesses
    /\ order \in [Key -> Nat]
    /\ cache \in [Key -> [of : SampleSet, started : Int, checked : Int, source : {"ws", "http"}]]

RelayInit ==
    /\ now = 0 /\ offset = 0 /\ clockSteps = 0
    /\ process = 1 /\ sequence = 0 /\ samples = [k \in Key |-> NoSample]
    /\ reading = [k \in Key |-> Idle]
    /\ subscribed = FALSE /\ pending = {}
    /\ connected = FALSE /\ buffer = <<>> /\ fetch = [k \in Key |-> NoFetch]
    /\ epoch = 0 /\ serial = 0 /\ retired = {}
    /\ order = [k \in Key |-> 0] /\ cache = [k \in Key |-> NoEntry]

Abs(n) == IF n < 0 THEN -n ELSE n

-----------------------------------------------------------------------------
(* The server *)

\* envelope: only a sample that is still young is handed on.
Fresh(k) == samples[k] # NoSample /\ now - samples[k].at <= ServedAge
Sealed(k) == [of |-> samples[k], published |-> now]

\* _admission_delay: requests are spaced (here: one in each unit of time).
Spaced == \A k \in Key : reading[k] < now /\ (samples[k] = NoSample \/ samples[k].at < now)

SampleStart(k) ==
    /\ reading[k] = Idle /\ Spaced /\ reading' = [reading EXCEPT ![k] = now]
    /\ UNCHANGED <<now, offset, clockSteps, process, sequence, samples, subscribed, pending, clientVars>>

\* A sample is as old as the beginning of its read.
Taken(k) == [epoch |-> process, seq |-> sequence + 1, at |-> reading[k]]

\* publish: the newest sample replaces one a slow consumer has not got yet.
SampleDone(k) ==
    /\ reading[k] # Idle
    /\ sequence' = sequence + 1 /\ samples' = [samples EXCEPT ![k] = Taken(k)]
    /\ pending' = IF subscribed THEN pending \cup {k} ELSE pending
    /\ reading' = [reading EXCEPT ![k] = Idle]
    /\ UNCHANGED <<now, offset, clockSteps, process, subscribed, clientVars>>

SampleFails(k) ==
    /\ reading[k] # Idle /\ reading' = [reading EXCEPT ![k] = Idle]
    /\ UNCHANGED <<now, offset, clockSteps, process, sequence, samples, subscribed, pending, clientVars>>

\* stream: send.
Push(k) ==
    /\ subscribed /\ k \in pending /\ pending' = pending \ {k}
    /\ IF Fresh(k) THEN Len(buffer) < MaxBuffer /\ buffer' = Append(buffer, [key |-> k, m |-> Sealed(k)])
       ELSE UNCHANGED buffer
    /\ UNCHANGED <<now, offset, clockSteps, process, sequence, samples, reading, subscribed,
                   connected, fetch, accepted>>

\* A slow client is let go (send timeout, unsubscribe).
LetGo ==
    /\ subscribed /\ subscribed' = FALSE /\ pending' = {}
    /\ UNCHANGED <<now, offset, clockSteps, process, sequence, samples, reading, clientVars>>

RelayRestart ==
    /\ process < MaxProcesses /\ process' = process + 1
    /\ sequence' = 0 /\ samples' = [k \in Key |-> NoSample] /\ reading' = [k \in Key |-> Idle]
    /\ subscribed' = FALSE /\ pending' = {}
    /\ UNCHANGED <<now, offset, clockSteps, clientVars>>

-----------------------------------------------------------------------------
(* The client *)

Wall == now + offset

\* _sample_age
ReadAge(k) == Max({now - cache[k].started, Wall - cache[k].checked})

\* Mutant: the round trip of an HTTP read is not charged to the sample.
AgeWithoutTrip(e, trip) ==
    LET sourceAge == e.published - e.of.at
    IN  Max({sourceAge, sourceAge + Abs(Wall - e.published), Wall - e.of.at})

\* _decode_envelope: the age of a sample in the client's time.
Age(e, trip) ==
    LET sourceAge == e.published - e.of.at
    IN  Max({sourceAge + trip, sourceAge + Abs(Wall - e.published), Wall - e.of.at})

Decodes(e, trip) ==
    /\ e.published - Wall <= Allowance /\ e.of.at - Wall <= Allowance
    /\ Age(e, trip) <= MaxAge

\* Mutant: any epoch that was not retired is taken, however old the read is.
AdmissibleAny(e, since) == e.of.epoch \notin retired

\* A read from before an epoch transition may only confirm the current epoch.
AdmissibleEpoch(e, since) ==
    /\ e.of.epoch \notin retired
    /\ since # serial => e.of.epoch = epoch

\* _accept: a new epoch starts with an empty cache; within an epoch only a
\* later sample of the key replaces an earlier one.
Accept(k, e, trip, since, source) ==
    IF ~Decodes(e, trip) \/ ~AdmissibleEpoch(e, since) THEN UNCHANGED accepted
    ELSE LET move  == e.of.epoch # epoch
             known == IF move THEN [x \in Key |-> 0] ELSE order
             kept  == IF move THEN [x \in Key |-> NoEntry] ELSE cache
             entry == [of |-> e.of, started |-> now - Age(e, trip), checked |-> Wall - Age(e, trip),
                       source |-> source]
         IN  /\ epoch' = e.of.epoch
             /\ serial' = IF move THEN serial + 1 ELSE serial
             /\ retired' = IF move /\ epoch # 0 THEN retired \cup {epoch} ELSE retired
             /\ IF e.of.seq > known[k]
                THEN order' = [known EXCEPT ![k] = e.of.seq] /\ cache' = [kept EXCEPT ![k] = entry]
                ELSE order' = known /\ cache' = kept

Others == UNCHANGED <<now, offset, clockSteps>>

\* _run: a new connection; the server subscribes it to what is still young.
Connect ==
    /\ ~connected
    /\ connected' = TRUE /\ buffer' = <<>>
    /\ subscribed' = TRUE /\ pending' = {k \in Key : Fresh(k)}
    /\ Others /\ UNCHANGED <<process, sequence, samples, reading, fetch, accepted>>

Receive ==
    /\ connected /\ buffer # <<>>
    /\ Accept(Head(buffer).key, Head(buffer).m, 0, serial, "ws")
    /\ buffer' = Tail(buffer)
    /\ Others /\ UNCHANGED <<serverVars, connected, fetch>>

Disconnect ==
    /\ connected /\ connected' = FALSE /\ buffer' = <<>>
    /\ subscribed' = FALSE /\ pending' = {}
    /\ Others /\ UNCHANGED <<process, sequence, samples, reading, fetch, accepted>>

\* sample: the first caller that finds nothing young enough asks for it.
Fetch(k) ==
    /\ fetch[k].pc = "none"
    /\ cache[k] = NoEntry \/ ReadAge(k) > RefreshAge
    /\ fetch' = [fetch EXCEPT ![k] = [NoFetch EXCEPT !.pc = "sent", !.since = now,
                                      !.offset = offset, !.serial = serial]]
    /\ Others /\ UNCHANGED <<serverVars, connected, buffer, accepted>>

\* GET /v1/snapshot
Snapshot(k) ==
    /\ fetch[k].pc = "sent" /\ Fresh(k)
    /\ fetch' = [fetch EXCEPT ![k].pc = "answered", ![k].answer = Sealed(k)]
    /\ Others /\ UNCHANGED <<serverVars, connected, buffer, accepted>>

\* _fetch: an answer during which the clock was set is not used.
FetchDone(k) ==
    LET f == fetch[k] IN
    /\ f.pc = "answered"
    /\ IF Abs(offset - f.offset) > Tolerance THEN UNCHANGED accepted
       ELSE Accept(k, f.answer, now - f.since, f.serial, "http")
    /\ fetch' = [fetch EXCEPT ![k] = NoFetch]
    /\ Others /\ UNCHANGED <<serverVars, connected, buffer>>

FetchFails(k) ==
    /\ fetch[k].pc # "none" /\ fetch' = [fetch EXCEPT ![k] = NoFetch]
    /\ Others /\ UNCHANGED <<serverVars, connected, buffer, accepted>>

-----------------------------------------------------------------------------
(* Time *)

Pass ==
    /\ now < MaxNow /\ now' = now + 1
    /\ UNCHANGED <<offset, clockSteps, serverVars, clientVars>>

\* The client's wall clock is set.
SetClock(o) ==
    /\ clockSteps < MaxClockSteps /\ clockSteps' = clockSteps + 1
    /\ o # offset /\ offset' = o
    /\ UNCHANGED <<now, serverVars, clientVars>>

RelayNext ==
    \/ \E k \in Key : \/ SampleStart(k) \/ SampleDone(k) \/ SampleFails(k) \/ Push(k)
                      \/ Fetch(k) \/ Snapshot(k) \/ FetchDone(k) \/ FetchFails(k)
    \/ LetGo \/ RelayRestart \/ Connect \/ Receive \/ Disconnect
    \/ Pass \/ \E o \in Offsets : SetClock(o)

RelaySpec == RelayInit /\ [][RelayNext]_relayVars

-----------------------------------------------------------------------------
(* Properties *)

\* A sample is never taken for younger than it is: not at all if it was read
\* over HTTP, by no more than the two clocks ever differ if it was streamed;
\* a late message, a clock that is set and a repeat do not renew it.
AgeIsHonest ==
    \A k \in Key : cache[k] # NoEntry =>
        now - cache[k].of.at <= ReadAge(k) + IF cache[k].source = "http" THEN 0 ELSE Max({Abs(o) : o \in Offsets})

\* Within an epoch a key's sample is only ever replaced by one whose upstream
\* read began later; an epoch that was left never returns; an HTTP answer
\* never takes the client back to an earlier process, whenever it was asked
\* for.
OnlyForward ==
    [][/\ \A k \in Key : cache'[k] # NoEntry /\ cache[k] # NoEntry /\ cache'[k] # cache[k] /\ epoch' = epoch
              => cache'[k].of.at > cache[k].of.at
       /\ epoch' \notin retired' /\ retired \subseteq retired'
       /\ buffer' = buffer => epoch' >= epoch]_relayVars

\* VALIDATION.md says that messages of an old process cannot renew anything.
\* The code knows a process as old only if it has used it before.
OldProcessStaysOld == [][epoch' >= epoch]_relayVars

=============================================================================

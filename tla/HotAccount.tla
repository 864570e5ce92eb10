----------------------------- MODULE HotAccount -----------------------------
(***************************************************************************)
(* The hot account data of one live account: a private stream announces    *)
(* changes, a background worker reads the account and publishes a snapshot *)
(* (src/trading/account_cache.py, user_stream.py, the cycle part of        *)
(* LiveBroker in exchange.py, poll_cycle_hot_data in engine.py), and the   *)
(* trading thread leases it and asks again right before it submits.        *)
(*                                                                         *)
(* Several locks are taken one after the other, so a state callback, an    *)
(* event and a write each revoke in two steps: the generation that running *)
(* reads compare (_snapshot_generation), then the cache.  Counters are     *)
(* kept as what they are compared for: a read knows whether the generation *)
(* moved since it began, a ticket and a lease whether the epoch did.       *)
(* A snapshot is the number of changes it includes: of balances, positions *)
(* and orders, and of the modes, which are cached longer.  Time is a step  *)
(* that lets the published snapshot, the cached modes or a read grow old.  *)
(***************************************************************************)
EXTENDS Integers, Sequences

CONSTANTS
    MaxChanges,     \* bound: changes nobody here asked for
    MaxStreams,     \* bound: streams this broker starts
    MaxFaults,      \* bound: connections lost, reads that fail
    MaxWrites,      \* bound: requests that change the account
    MaxSlow         \* bound: reads that outlive a snapshot

ASSUME HotBounds ==
    /\ {MaxChanges, MaxFaults, MaxWrites, MaxSlow} \subseteq Nat
    /\ MaxStreams \in Nat \ {0}

Streams == 1 .. MaxStreams
Kind    == {"acct", "mode"}     \* ACCOUNT_UPDATE, ORDER_TRADE_UPDATE; any other
None    == [k \in Kind |-> 0]   \* no snapshot: a real one has at least 1
Version == Nat

VARIABLES
    truth,      \* the account at the exchange
    wanted,     \* the account is enabled and cycles
    operator,   \* a control is between its two revocations
    token,      \* _cycle_stream_token: the current stream, 0 if none
    told,       \* _cycle_stream_connected: what that stream said last
    stream,     \* the PrivateAccountStream of each token
    modes,      \* LiveBroker.cached["multi"], 0 if absent or expired
    cache,      \* CycleAccountCache
    hot,        \* the worker in poll_cycle_hot_data
    trader,     \* the thread that holds the account's lock
    lease,      \* its CycleAccountLease
    known,      \* ghost: the changes the program was told of, to the end
    count       \* what was used of the bounds

vars == <<truth, wanted, operator, token, told, stream, modes, cache, hot,
          trader, lease, known, count>>
account == <<truth, wanted, known, count>>
link    == <<token, told, stream>>

Snapshot == [Kind -> Version]
News     == [kind : Kind, n : Version]
Connection == [pc : {"off", "dial", "open", "up", "lost", "state", "event", "end"},
               news : Seq(News), says : {"up", "down"}, since : Snapshot]
Cache   == [connected : BOOLEAN, pub : Snapshot, old : BOOLEAN, ticket : BOOLEAN, again : BOOLEAN]
Refresh == [pc : {"idle", "begin", "capture", "read", "publish", "done"},
            fresh : BOOLEAN, current : BOOLEAN, cached : Version, got : Snapshot, old : BOOLEAN]
Batch   == [pc : {"idle", "plan", "saved", "start", "revoked", "answered", "finish", "settle"},
            kind : Kind, landed : Snapshot]
Lease   == [snap : Snapshot, is : {"none", "published", "older", "changed"}]

TypeOK ==
    /\ truth \in Snapshot /\ known \in Snapshot
    /\ wanted \in BOOLEAN
    /\ operator \in {"idle", "moved"}
    /\ token \in 0 .. MaxStreams
    /\ told \in {"unknown", "up", "down"}
    /\ stream \in [Streams -> Connection]
    /\ modes \in Version
    /\ cache \in Cache
    /\ hot \in Refresh
    /\ trader \in Batch
    /\ lease \in Lease
    /\ count \in [change : Nat, fault : Nat, write : Nat, slow : Nat]

NoLease == [snap |-> None, is |-> "none"]
NotHot  == [pc |-> "idle", fresh |-> FALSE, current |-> FALSE, cached |-> 0, got |-> None, old |-> FALSE]
Idle    == [pc |-> "idle", kind |-> "acct", landed |-> None]

Init ==
    /\ truth = [k \in Kind |-> 1] /\ known = [k \in Kind |-> 1]
    /\ wanted = TRUE /\ operator = "idle"
    /\ token = 0 /\ told = "unknown"
    /\ stream = [t \in Streams |-> [pc |-> "off", news |-> <<>>, says |-> "down", since |-> None]]
    /\ modes = 0
    /\ cache = [connected |-> FALSE, pub |-> None, old |-> FALSE, ticket |-> FALSE, again |-> TRUE]
    /\ hot = NotHot /\ trader = Idle /\ lease = NoLease
    /\ count = [change |-> 0, fault |-> 0, write |-> 0, slow |-> 0]

Use(bound, max) ==
    /\ count[bound] < max
    /\ count' = [count EXCEPT ![bound] = @ + 1]

Merge(a, b) == [k \in Kind |-> IF a[k] < b[k] THEN b[k] ELSE a[k]]

-----------------------------------------------------------------------------
(* The account at the exchange *)

Connected == {"open", "up", "state", "event"}

\* Announced on every connection that is open.
Change(k) ==
    /\ truth' = [truth EXCEPT ![k] = @ + 1]
    /\ stream' = [t \in Streams |->
         IF stream[t].pc \notin Connected THEN stream[t]
         ELSE [stream[t] EXCEPT !.news = Append(@, [kind |-> k, n |-> truth[k] + 1])]]

\* A late fill, a hand-made trade or setting.
Outside(k) ==
    /\ Use("change", MaxChanges) /\ Change(k)
    /\ UNCHANGED <<wanted, operator, token, told, modes, cache, hot, trader, lease, known>>

-----------------------------------------------------------------------------
(* Revocation *)

\* _invalidate_snapshot_reads: what is being read will not be kept.
MoveGeneration(again) ==
    /\ hot' = [hot EXCEPT !.current = FALSE]
    /\ modes' = IF again THEN 0 ELSE modes

\* Mutant: a read under way survives what it does not include.
InvalidateKeepsTicket(c, again) ==
    /\ cache' = [c EXCEPT !.pub = None, !.old = FALSE, !.again = @ \/ again]
    /\ lease' = [lease EXCEPT !.is = IF @ = "none" THEN @ ELSE "changed"]

\* _invalidate_locked: readers are revoked and the ticket is void.
Invalidate(c, again) ==
    /\ cache' = [c EXCEPT !.pub = None, !.old = FALSE, !.ticket = FALSE, !.again = @ \/ again]
    /\ lease' = [lease EXCEPT !.is = IF @ = "none" THEN @ ELSE "changed"]

Older == IF lease.is = "published" THEN "older" ELSE lease.is

\* _expire_locked; its epoch stays.
Expire ==
    /\ cache' = [cache EXCEPT !.pub = None, !.old = FALSE]
    /\ lease' = [lease EXCEPT !.is = Older]

Age ==
    \/ /\ cache.pub # None /\ ~cache.old
       /\ cache' = [cache EXCEPT !.old = TRUE]
       /\ UNCHANGED <<account, operator, link, modes, hot, trader, lease>>
    \/ /\ modes # 0
       /\ modes' = 0
       /\ UNCHANGED <<account, operator, link, cache, hot, trader, lease>>
    \/ /\ hot.pc \in {"read", "publish"} /\ ~hot.old
       /\ Use("slow", MaxSlow)
       /\ hot' = [hot EXCEPT !.old = TRUE]
       /\ UNCHANGED <<truth, wanted, known, operator, link, modes, cache, trader, lease>>

-----------------------------------------------------------------------------
(* The private stream; _cycle_stream_callback_lock is held over two steps *)

CallbackFree == \A t \in Streams : stream[t].pc \notin {"state", "event"}

Move(t, pc) == stream' = [stream EXCEPT ![t].pc = pc]

Dial(t) ==
    /\ stream[t].pc = "dial"
    /\ stream' = [stream EXCEPT ![t] = [@ EXCEPT !.pc = "open", !.since = truth]]
    /\ UNCHANGED <<account, operator, token, told, modes, cache, hot, trader, lease>>

\* The connection ends, or a message cannot be read; unread news is lost.
Lose(t) ==
    /\ stream[t].pc \in {"open", "up"} /\ Use("fault", MaxFaults)
    /\ stream' = [stream EXCEPT ![t] = [@ EXCEPT !.pc = "lost", !.news = <<>>]]
    /\ UNCHANGED <<truth, wanted, known, operator, token, told, modes, cache, hot, trader, lease>>

\* _cycle_stream_state up to the cache: a stream that is no longer the
\* current one has nothing to say.
SayState(t, up) ==
    /\ CallbackFree /\ stream[t].pc = (IF up THEN "open" ELSE "lost")
    /\ LET says == IF up THEN "up" ELSE "down" IN
       IF token # t
       THEN /\ Move(t, IF up THEN "up" ELSE "dial")
            /\ UNCHANGED <<told, modes, hot>>
       ELSE /\ stream' = [stream EXCEPT ![t] = [@ EXCEPT !.pc = "state", !.says = says]]
            /\ told' = says
            /\ IF told = says THEN UNCHANGED <<modes, hot>> ELSE MoveGeneration(TRUE)
    /\ UNCHANGED <<account, operator, token, cache, trader, lease>>

\* CycleAccountCache.set_connected.
FinishState(t) ==
    /\ stream[t].pc = "state"
    /\ LET up == stream[t].says = "up" IN
       /\ Invalidate([cache EXCEPT !.connected = up], TRUE)
       /\ Move(t, IF up THEN "up" ELSE "dial")
       /\ known' = IF up THEN Merge(known, stream[t].since) ELSE known
    /\ UNCHANGED <<truth, wanted, count, operator, token, told, modes, hot, trader>>

\* _cycle_stream_event and _cycle_account_event.
SayEvent(t) ==
    /\ CallbackFree /\ stream[t].pc = "up" /\ stream[t].news # <<>>
    /\ IF token # t
       THEN /\ stream' = [stream EXCEPT ![t].news = Tail(@)]
            /\ UNCHANGED <<modes, hot>>
       ELSE /\ Move(t, "event")
            /\ MoveGeneration(Head(stream[t].news).kind = "mode")
    /\ UNCHANGED <<account, operator, token, told, cache, trader, lease>>

FinishEvent(t) ==
    /\ stream[t].pc = "event"
    /\ LET news == Head(stream[t].news) IN
       /\ Invalidate(cache, news.kind = "mode")
       /\ known' = Merge(known, [None EXCEPT ![news.kind] = news.n])
       /\ stream' = [stream EXCEPT ![t] = [@ EXCEPT !.pc = "up", !.news = Tail(stream[t].news)]]
    /\ UNCHANGED <<truth, wanted, count, operator, token, told, modes, hot, trader>>

\* A stopped stream leaves its loop; its last callback comes too late.
End(t) ==
    /\ token # t /\ stream[t].pc \in {"dial", "open", "up", "lost"}
    /\ stream' = [stream EXCEPT ![t] = [@ EXCEPT !.pc = "end", !.news = <<>>]]
    /\ UNCHANGED <<account, operator, token, told, modes, cache, hot, trader, lease>>

-----------------------------------------------------------------------------
(* Controls *)

\* Enable, disable or configure: revoke_cycle_hot_data.
Control ==
    /\ operator = "idle"
    /\ wanted => stream[MaxStreams].pc = "off"
    /\ Use("change", MaxChanges)
    /\ wanted' = ~wanted
    /\ operator' = "moved"
    /\ MoveGeneration(TRUE)
    /\ UNCHANGED <<truth, known, link, cache, trader, lease>>

FinishControl ==
    /\ operator = "moved" /\ operator' = "idle"
    /\ Invalidate(cache, TRUE)
    /\ UNCHANGED <<account, link, modes, hot, trader>>

-----------------------------------------------------------------------------
(* The background worker *)

Pending == trader.pc \in {"saved", "start", "revoked", "answered", "finish", "settle"}

\* stop_cycle_hot_data.
Stop ==
    /\ hot.pc = "idle" /\ ~wanted /\ CallbackFree
    /\ token' = 0 /\ told' = "unknown"
    /\ modes' = IF token = 0 THEN modes ELSE 0
    /\ Invalidate([cache EXCEPT !.connected = FALSE], TRUE)
    /\ UNCHANGED <<account, operator, stream, hot, trader>>

\* start_cycle_hot_data, at the interval or earlier when an invalidation
\* wakes the worker.
Start ==
    /\ hot.pc = "idle" /\ wanted /\ CallbackFree
    /\ hot' = [hot EXCEPT !.pc = "begin"]
    /\ IF token # 0 THEN UNCHANGED link
       ELSE \E t \in Streams :
              /\ stream[t].pc = "off" /\ \A u \in 1 .. t - 1 : stream[u].pc # "off"
              /\ token' = t /\ told' = "unknown"
              /\ Move(t, "dial")
    /\ UNCHANGED <<account, operator, modes, cache, trader, lease>>

\* A batch that is being settled reads for itself.
Discard(pc) ==
    /\ hot.pc = pc /\ Pending
    /\ hot' = NotHot
    /\ Invalidate(cache, FALSE)
    /\ UNCHANGED <<account, operator, link, modes, trader>>

\* begin_refresh.
BeginRefresh ==
    /\ hot.pc = "begin" /\ ~Pending
    /\ cache' = [cache EXCEPT !.ticket = @ \/ cache.connected]
    /\ hot' = IF cache.connected THEN [hot EXCEPT !.pc = "capture", !.fresh = cache.again] ELSE NotHot
    /\ UNCHANGED <<account, operator, link, modes, trader, lease>>

\* Mutant: the generation is noted only when the modes are read as well.
CaptureRarely ==
    /\ hot.pc = "capture"
    /\ modes' = IF hot.fresh THEN 0 ELSE modes
    /\ hot' = [hot EXCEPT !.pc = "read", !.current = hot.fresh, !.cached = modes']
    /\ UNCHANGED <<account, operator, link, cache, trader, lease>>

\* _cycle_snapshot: the generation and a copy of what is cached.
Capture ==
    /\ hot.pc = "capture"
    /\ modes' = IF hot.fresh THEN 0 ELSE modes
    /\ hot' = [hot EXCEPT !.pc = "read", !.current = TRUE, !.cached = modes']
    /\ UNCHANGED <<account, operator, link, cache, trader, lease>>

\* The GETs run side by side; modes are read unless they were cached.
Get(k) ==
    /\ hot.pc = "read" /\ hot.got[k] = 0
    /\ hot' = [hot EXCEPT !.got[k] = IF k = "mode" /\ hot.cached # 0 THEN hot.cached ELSE truth[k]]
    /\ UNCHANGED <<account, operator, link, modes, cache, trader, lease>>

\* fail: only a ticket that still counts revokes what is published.
Fail ==
    /\ hot' = NotHot
    /\ IF cache.ticket THEN Invalidate(cache, FALSE) ELSE UNCHANGED <<cache, lease>>

\* A read fails: the worker also discards what is published.
GetFails ==
    /\ hot.pc = "read" /\ Use("fault", MaxFaults)
    /\ hot' = NotHot
    /\ Invalidate(cache, FALSE)
    /\ UNCHANGED <<truth, wanted, known, operator, link, modes, trader>>

AllRead == hot.pc = "read" /\ \A k \in Kind : hot.got[k] # 0

\* Both reads are in: they count if the generation did not move.
Join ==
    /\ AllRead
    /\ IF hot.current
       THEN /\ modes' = (IF hot.cached = 0 THEN hot.got["mode"] ELSE modes)
            /\ hot' = [hot EXCEPT !.pc = "publish"]
            /\ UNCHANGED <<cache, lease>>
       ELSE Fail /\ UNCHANGED modes
    /\ UNCHANGED <<account, operator, link, trader>>

\* publish: the ticket must still be the active one (it is also looked at
\* before the snapshot is copied, which only saves the copy).
Publish ==
    /\ hot.pc = "publish"
    /\ hot' = [hot EXCEPT !.pc = "done"]
    /\ IF ~cache.ticket THEN UNCHANGED <<cache, lease>>
       ELSE IF hot.old THEN Invalidate(cache, FALSE)
       ELSE /\ cache' = [cache EXCEPT !.pub = hot.got, !.old = FALSE, !.ticket = FALSE, !.again = FALSE]
            /\ lease' = [lease EXCEPT !.is = Older]
    /\ UNCHANGED <<account, operator, link, modes, trader>>

\* The configuration is read again after the refresh.
Done ==
    /\ hot.pc = "done"
    /\ IF wanted THEN ~Pending /\ UNCHANGED <<modes, cache, lease>>
       ELSE modes' = 0 /\ Invalidate(cache, TRUE)
    /\ hot' = NotHot
    /\ UNCHANGED <<account, operator, link, trader>>

-----------------------------------------------------------------------------
(* The trading thread *)

\* lease: the published snapshot; one that is too old is withdrawn.
TakeLease ==
    /\ trader.pc = "idle" /\ wanted /\ count.write < MaxWrites
    /\ IF cache.pub # None /\ ~cache.old
       THEN /\ lease' = [snap |-> cache.pub, is |-> "published"]
            /\ trader' = [trader EXCEPT !.pc = "plan"]
            /\ UNCHANGED cache
       ELSE Expire /\ UNCHANGED trader
    /\ UNCHANGED <<account, operator, link, modes, hot>>

\* The batch is saved before it is submitted.
SaveBatch ==
    /\ trader.pc = "plan"
    /\ trader' = [trader EXCEPT !.pc = "saved"]
    /\ UNCHANGED <<account, operator, link, modes, cache, hot, lease>>

\* Mutant: whatever was leased will do while it is young.
AuthorizedAny == lease.is # "none" /\ ~cache.old

\* _require_lease: this very snapshot is still the published one.
Authorized == lease.is = "published" /\ ~cache.old

Admit ==
    /\ trader.pc = "saved" /\ Authorized
    /\ \E k \in Kind : trader' = [trader EXCEPT !.pc = "start", !.kind = k]
    /\ lease' = NoLease
    /\ count' = [count EXCEPT !.write = @ + 1]
    /\ UNCHANGED <<truth, wanted, known, operator, link, modes, cache, hot>>

\* Nothing was sent; a valid replacement is left to its own readers.
Refuse ==
    /\ trader.pc = "saved" /\ ~Authorized
    /\ trader' = Idle
    /\ lease' = NoLease
    /\ IF cache.pub # None /\ ~cache.old THEN UNCHANGED cache
       ELSE cache' = [cache EXCEPT !.pub = None, !.old = FALSE]
    /\ UNCHANGED <<account, operator, link, modes, hot>>

\* _cycle_write revokes before the request ...
StartWrite ==
    /\ trader.pc = "start" /\ trader' = [trader EXCEPT !.pc = "revoked"]
    /\ MoveGeneration(trader.kind = "mode")
    /\ UNCHANGED <<account, operator, link, cache, lease>>

SendWrite ==
    /\ trader.pc = "revoked" /\ trader' = [trader EXCEPT !.pc = "answered"]
    /\ Invalidate(cache, trader.kind = "mode")
    /\ UNCHANGED <<account, operator, link, modes, hot>>

\* The request may be carried out before it is answered, ...
Land ==
    /\ trader.pc = "answered" /\ trader.landed = None
    /\ Change(trader.kind)
    /\ trader' = [trader EXCEPT !.landed = [None EXCEPT ![trader.kind] = truth'[trader.kind]]]
    /\ UNCHANGED <<wanted, known, count, operator, token, told, modes, cache, hot, lease>>

\* ... or not (or later: that is Outside); the answer may be lost.
AnswerWrite ==
    /\ trader.pc = "answered" /\ trader' = [trader EXCEPT !.pc = "finish"]
    /\ MoveGeneration(trader.kind = "mode")
    /\ UNCHANGED <<account, operator, link, cache, lease>>

\* ... and after it.
FinishWrite ==
    /\ trader.pc = "finish" /\ trader' = [trader EXCEPT !.pc = "settle"]
    /\ Invalidate(cache, trader.kind = "mode")
    /\ known' = Merge(known, trader.landed)
    /\ UNCHANGED <<truth, wanted, count, operator, link, modes, hot>>

\* The batch is reconciled with reads of its own and ends.
Settle ==
    /\ trader.pc = "settle" /\ trader' = Idle
    /\ UNCHANGED <<account, operator, link, modes, cache, hot, lease>>

-----------------------------------------------------------------------------
Stream(t) == Dial(t) \/ SayState(t, TRUE) \/ SayState(t, FALSE) \/ FinishState(t)
                \/ SayEvent(t) \/ FinishEvent(t) \/ End(t)
Worker == Stop \/ Start \/ Discard("begin") \/ Discard("done") \/ BeginRefresh \/ Capture
            \/ (\E k \in Kind : Get(k)) \/ Join \/ Publish \/ Done
Trader == SaveBatch \/ Admit \/ Refuse \/ StartWrite \/ SendWrite \/ AnswerWrite \/ FinishWrite \/ Settle

Next ==
    \/ \E k \in Kind : Outside(k)
    \/ Age
    \/ \E t \in Streams : Stream(t) \/ Lose(t)
    \/ Control \/ FinishControl
    \/ Worker \/ GetFails
    \/ Trader \/ TakeLease \/ Land

Spec == Init /\ [][Next]_vars

\* Threads that are running go on; nobody has to trade or to change anything.
FairSpec ==
    /\ Spec
    /\ WF_vars(Worker) /\ WF_vars(Trader) /\ WF_vars(FinishControl)
    /\ \A t \in Streams : WF_vars(Stream(t))

-----------------------------------------------------------------------------
(* Properties *)

Heard == token # 0 /\ stream[token].pc = "up" /\ stream[token].news = <<>>

\* With the stream up and all its events handled, the published snapshot is
\* the account as it is: no read crossed an event, a reconnect, a write or a
\* control on its way to the readers (publish, _invalidate_locked).
CurrentWhenQuiet == Heard /\ cache.pub # None => cache.pub = truth

\* An order is submitted only on a snapshot that includes every change the
\* program was told of: an event it handled to the end, its own write that
\* was answered, or a gap of the stream (require_fresh in submit).
AdmitsWhatIsKnown ==
    [][Admit => \A k \in Kind : lease.snap[k] >= known[k]]_vars

\* The account is hot again and again while it cycles, whatever is revoked,
\* lost or slow: no revocation, failed read or restarted stream ends the
\* refreshes (poll_cycle_hot_data).
Recovers == []<>(~wanted \/ (cache.pub # None /\ ~cache.old))

=============================================================================

----------------------------- MODULE DepthBook ------------------------------
(***************************************************************************)
(* The local order book of one symbol: a stream of differences on top of a *)
(* REST snapshot (PublicDepthStream in src/trading/depth_stream.py, seeded *)
(* by MarketData.depth in exchange.py).                                    *)
(*                                                                         *)
(* An event (U, u, pu) brings the book from version pu = U - 1 to u.  The  *)
(* stream buffers events until a seed arrives, replays them on it from the *)
(* one that bridges it, and gives the whole state up at the first gap; a   *)
(* seed asked for before that is refused by its token, and snapshots taken *)
(* before it are revoked.  A seed has at most Limit levels: what is worse  *)
(* than its floor is unknown and never shown.                              *)
(*                                                                         *)
(* One side of the book is modelled, a level is there or not, and tokens   *)
(* are kept as what they are compared for: whether the state they name is  *)
(* still the current one.  Times that only refuse an event (stale, from    *)
(* the future) are events that cannot be read.                             *)
(***************************************************************************)
EXTENDS Integers, Sequences, FiniteSets, FiniteSetsExt

CONSTANTS
    Price,          \* the levels, better ones are greater
    Limit,          \* _MAX_LEVELS and the depth of a seed
    MaxBuffer,      \* _MAX_BUFFER_EVENTS
    MaxVersions,    \* bound: versions of the exchange's book
    MaxFaults       \* bound: events lost or unreadable, connections lost

ASSUME DepthBounds ==
    /\ Price \subseteq Nat \ {0} /\ IsFiniteSet(Price)
    /\ {Limit, MaxBuffer, MaxVersions} \subseteq Nat \ {0}
    /\ MaxFaults \in Nat

Version == 1 .. MaxVersions
Update  == [prev : 0 .. MaxVersions, last : Version]

VARIABLES
    real,       \* every version of the exchange's book
    sent,       \* the last one announced
    up,         \* the connection
    wire,       \* its events on their way
    book,       \* _DepthState
    request,    \* the REST read of MarketData.depth
    cooled,     \* depth_retry_at has passed
    held,       \* a snapshot a reader holds
    heard,      \* ghost: the last event handled on this connection
    faults      \* counter for the bound

depthVars == <<real, sent, up, wire, book, request, cooled, held, heard, faults>>
exchange  == <<real, sent>>

Fresh     == [pending |-> <<>>, seed |-> 0, waited |-> FALSE, last |-> 0,
              bids |-> {}, floor |-> 0, valid |-> FALSE]
NoRequest == [pc |-> "none", live |-> FALSE, version |-> 0]
NoView    == [last |-> 0, bids |-> {}, floor |-> 0, live |-> FALSE]

Book == [pending : Seq(Update), seed : 0 .. MaxVersions, waited : BOOLEAN,
         last : 0 .. MaxVersions, bids : SUBSET Price, floor : {0} \cup Price, valid : BOOLEAN]

DepthTypeOK ==
    /\ real \in Seq(SUBSET Price) /\ Len(real) \in Version
    /\ sent \in Version /\ heard \in 0 .. MaxVersions
    /\ up \in BOOLEAN /\ cooled \in BOOLEAN /\ faults \in 0 .. MaxFaults
    /\ wire \in Seq(Update)
    /\ book \in Book
    /\ request \in [pc : {"none", "sent", "answered"}, live : BOOLEAN, version : 0 .. MaxVersions]
    /\ held \in [last : 0 .. MaxVersions, bids : SUBSET Price, floor : {0} \cup Price, live : BOOLEAN]

DepthInit ==
    /\ real \in {<<b>> : b \in SUBSET Price}
    /\ sent = 1 /\ heard = 0
    /\ up = FALSE /\ wire = <<>> /\ book = Fresh
    /\ request = NoRequest /\ cooled = TRUE /\ held = NoView
    /\ faults = 0

Fault == faults < MaxFaults /\ faults' = faults + 1

-----------------------------------------------------------------------------
(* The exchange *)

\* One level appears or disappears.
Move ==
    /\ Len(real) < MaxVersions
    /\ \E p \in Price :
         LET b == real[Len(real)] IN
         real' = Append(real, IF p \in b THEN b \ {p} ELSE b \cup {p})
    /\ UNCHANGED <<sent, up, wire, book, request, cooled, held, heard, faults>>

\* All changes since the last event, to whoever is connected.
Announce ==
    /\ sent < Len(real)
    /\ sent' = Len(real)
    /\ wire' = IF up THEN Append(wire, [prev |-> sent, last |-> Len(real)]) ELSE wire
    /\ UNCHANGED <<real, up, book, request, cooled, held, heard, faults>>

\* An event never reaches the program.
LoseEvent ==
    /\ wire # <<>> /\ Fault
    /\ wire' = Tail(wire)
    /\ UNCHANGED <<exchange, up, book, request, cooled, held, heard>>

-----------------------------------------------------------------------------
(* The state of the symbol *)

\* Mutant: the snapshots that readers hold are not revoked.
InvalidateQuietly(b) ==
    /\ book' = b
    /\ request' = [request EXCEPT !.live = FALSE]
    /\ held' = held

\* _invalidate_locked and _clear_locked: a new state b, its token unknown to
\* the read under way and its validity to the snapshots of the old one.
Invalidate(b) ==
    /\ book' = b
    /\ request' = [request EXCEPT !.live = FALSE]
    /\ held' = [held EXCEPT !.live = FALSE]

\* The same state goes on.
Keep(b) == book' = b /\ UNCHANGED <<request, held>>

\* _state_locked: a seed that waited too long for its bridge is dropped.
Overdue == book.seed # 0 /\ ~book.valid /\ book.waited
State   == IF Overdue THEN Fresh ELSE book
Become(b) == IF Overdue THEN Invalidate(b) ELSE Keep(b)

\* _bound_levels: at most Limit levels, the floor rises with them.
Best(bids) == {p \in bids : Cardinality({q \in bids : q > p}) < Limit}
Bounded(b) ==
    IF Cardinality(b.bids) <= Limit THEN b
    ELSE [b EXCEPT !.bids = Best(@), !.floor = Min(Best(b.bids))]

\* What the event says: the levels that changed since pu, as they are at u.
Changed(u) == {p \in Price : \E v \in u.prev + 1 .. u.last : (p \in real[v]) # (p \in real[v - 1])}
Present(u) == Changed(u) \cap real[u.last]

\* Mutant: the first event after the seed need not reach back to it.
FollowsLoosely(b, u) == IF b.valid THEN u.prev = b.last ELSE b.seed <= u.last

\* The event continues the book, or bridges its seed.
Follows(b, u) == IF b.valid THEN u.prev = b.last
                 ELSE u.prev < b.seed /\ b.seed <= u.last

Skips(b, u) == IF b.valid THEN u.last <= b.last ELSE u.last < b.seed

Applied(b, u) ==
    Bounded([b EXCEPT !.bids = {p \in @ : p \notin Changed(u)} \cup {p \in Present(u) : p >= b.floor},
                      !.last = u.last,
                      !.valid = TRUE])

\* _apply_locked, but for events that are skipped.
Applies(b, u) ==
    /\ Follows(b, u)
    /\ b.floor = 0 => Present(u) = {}
    /\ b.floor # 0 => Applied(b, u).bids # {}

\* One event on a seeded book; "gap" when the state is to be given up.
Gap == [Fresh EXCEPT !.waited = TRUE]
Step(b, u) ==
    CASE b = Gap       -> Gap
      [] Skips(b, u)   -> b
      [] Applies(b, u) -> Applied(b, u)
      [] OTHER         -> Gap

\* Buffered events are replayed on a seed in their order.
Replayed(b) ==
    LET f[n \in 0 .. Len(b.pending)] ==
          IF n = 0 THEN [b EXCEPT !.pending = <<>>] ELSE Step(f[n - 1], b.pending[n])
    IN  f[Len(b.pending)]

\* _buffer_locked: a gap, or a full buffer, starts a new state with the event.
Buffers(b, u) ==
    LET n == Len(b.pending)
        new == [Fresh EXCEPT !.pending = <<u>>]
    IN IF n > 0 /\ u.last <= b.pending[n].last THEN Become(b)
       ELSE IF n > 0 /\ u.prev # b.pending[n].last THEN Invalidate(new)
       ELSE IF n >= MaxBuffer THEN Invalidate(new)
       ELSE Become([b EXCEPT !.pending = Append(@, u)])

-----------------------------------------------------------------------------
(* The receiver thread *)

Connect ==
    /\ ~up /\ up' = TRUE
    /\ wire' = <<>> /\ heard' = 0
    /\ Invalidate(Fresh)
    /\ UNCHANGED <<exchange, cooled, faults>>

Disconnect ==
    /\ up /\ Fault /\ up' = FALSE
    /\ wire' = <<>> /\ heard' = 0
    /\ Invalidate(Fresh)
    /\ UNCHANGED <<exchange, cooled>>

\* _handle_message.
Handle ==
    /\ up /\ wire # <<>>
    /\ LET u == Head(wire)
           b == State
           next == Step(b, u)
       IN /\ wire' = Tail(wire)
          /\ heard' = u.last
          /\ IF b.seed = 0 THEN Buffers(b, u)
             ELSE IF next = Gap THEN Invalidate(Fresh) ELSE Become(next)
    /\ UNCHANGED <<exchange, up, cooled, faults>>

\* A message that cannot be read, or an event that is too old to be used.
HandleGarbage ==
    /\ up /\ wire # <<>> /\ Fault
    /\ wire' = Tail(wire)
    /\ heard' = Head(wire).last
    /\ Invalidate(Fresh)
    /\ UNCHANGED <<exchange, up, cooled>>

-----------------------------------------------------------------------------
(* Readers: MarketData.depth *)

\* snapshot: the synchronized book of this moment.
Take ==
    /\ up /\ State.valid
    /\ held' = [last |-> book.last, bids |-> book.bids, floor |-> book.floor, live |-> TRUE]
    /\ UNCHANGED <<exchange, up, wire, book, request, cooled, heard, faults>>

\* seed_token: without a book, a buffered event allows one read at a time;
\* without one the reader waits.
Ask ==
    /\ up /\ ~State.valid /\ request.pc = "none"
    /\ IF State.seed = 0 /\ State.pending # <<>> /\ cooled
       THEN /\ request' = [pc |-> "sent", live |-> TRUE, version |-> 0]
            /\ cooled' = FALSE
            /\ UNCHANGED <<book, held>>
       ELSE /\ Become(State) /\ UNCHANGED cooled
    /\ UNCHANGED <<exchange, up, wire, heard, faults>>

\* The answer is the book at, or a little before, the time it is made.
Answer ==
    /\ request.pc = "sent"
    /\ \E v \in Version \cap (Len(real) - 1 .. Len(real)) :
         request' = [request EXCEPT !.pc = "answered", !.version = v]
    /\ UNCHANGED <<exchange, up, wire, book, cooled, held, heard, faults>>

AnswerFails ==
    /\ request.pc = "sent" /\ request' = NoRequest
    /\ UNCHANGED <<exchange, up, wire, book, cooled, held, heard, faults>>

Seeded(v) ==
    LET bids == Best(real[v]) IN
    [State EXCEPT !.seed = v, !.bids = bids, !.floor = IF bids = {} THEN 0 ELSE Min(bids)]

\* seed: refused unless the token still names the state.
Seed ==
    /\ request.pc = "answered"
    /\ request' = NoRequest
    /\ IF up /\ request.live /\ State.seed = 0
       THEN LET b == Replayed(Seeded(request.version)) IN
            /\ book' = IF b = Gap THEN Fresh ELSE b
            /\ held' = IF b = Gap THEN [held EXCEPT !.live = FALSE] ELSE held
       ELSE UNCHANGED <<book, held>>
    /\ UNCHANGED <<exchange, up, wire, cooled, heard, faults>>

\* DEPTH_RESYNC_INTERVAL, and the ten seconds a seed may wait.
Cool ==
    /\ ~cooled /\ request.pc = "none" /\ cooled' = TRUE
    /\ UNCHANGED <<exchange, up, wire, book, request, held, heard, faults>>

Wait ==
    /\ book.seed # 0 /\ ~book.valid /\ ~book.waited
    /\ book' = [book EXCEPT !.waited = TRUE]
    /\ UNCHANGED <<exchange, up, wire, request, cooled, held, heard, faults>>

DepthNext ==
    \/ Move \/ Announce \/ LoseEvent
    \/ Connect \/ Disconnect \/ Handle \/ HandleGarbage
    \/ Take \/ Ask \/ Answer \/ AnswerFails \/ Seed \/ Cool \/ Wait

DepthSpec == DepthInit /\ [][DepthNext]_depthVars

-----------------------------------------------------------------------------
(* Properties *)

\* The book that is shown is the exchange's book at the version it claims,
\* for every level at or above its floor (a side that was empty in the seed
\* has none and stays empty); so is a snapshot of it, while it
\* is not revoked.
BookIsReal ==
    /\ book.valid => \A p \in Price : p >= book.floor
                        => (p \in book.bids) = (p \in real[book.last])
    /\ held.live => \A p \in Price : p >= held.floor
                        => (p \in held.bids) = (p \in real[held.last])

\* No event that was handled is missing from a book that is shown, and no
\* snapshot survives a gap, a reconnect or an unreadable event (require_fresh
\* of the snapshot asks the state it came from).
NothingSkipped ==
    /\ book.valid => up /\ book.last >= heard
    /\ held.live => book.valid /\ held.last <= book.last

=============================================================================

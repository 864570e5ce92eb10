--------------------------- MODULE HotAccountProof ---------------------------
(***************************************************************************)
(* What a submission may rely on in the hot account data, for any number   *)
(* of changes, faults, writes and streams: the snapshot that is published  *)
(* while the stream is up and heard out is the account, and an order is    *)
(* admitted only on a snapshot that includes what the program was told.    *)
(*                                                                         *)
(* A value that was read passes from modes to hot.cached, to hot.got, to   *)
(* modes again and to cache.pub.  Two revocations guard the passage, so    *)
(* the invariant says twice what a value includes: while the generation    *)
(* did not move, all that is not yet being said (FreshModes, ToldModes);   *)
(* while the ticket counts, all that was said to the end (FreshTicket,     *)
(* ToldTicket), and with it the published snapshot.                        *)
(***************************************************************************)
EXTENDS HotAccount, SequenceTheorems, TLAPS

\* The current stream is listened to; or it is saying that it is up.
Hearing == token # 0 /\ stream[token].pc \in {"up", "event"}
Saying  == token # 0 /\ stream[token].pc = "state" /\ stream[token].says = "up"

\* The news no callback has begun to handle.
Unsaid(s) == IF s.pc = "event" THEN Tail(s.news) ELSE s.news

\* v is the account as it is now, or news that is still to come will say so.
UpTo(now, k, v, news) ==
    /\ v <= now[k]
    /\ v < now[k] => \E i \in DOMAIN news : news[i].kind = k /\ news[i].n > v

\* What callbacks, connections and writes may say has happened.
Honest ==
    /\ \A k \in Kind : 1 <= truth[k] /\ known[k] <= truth[k] /\ trader.landed[k] <= truth[k]
    /\ \A t \in Streams :
         /\ \A k \in Kind : stream[t].since[k] <= truth[k]
         /\ \A i \in DOMAIN stream[t].news : stream[t].news[i].n <= truth[stream[t].news[i].kind]
    /\ \A k \in Kind : trader.landed[k] # 0 =>
         k = trader.kind /\ trader.pc \in {"answered", "finish", "settle"}

\* Only the current stream is in a callback, and it says each state once.
Callbacks ==
    /\ \A t \in Streams : stream[t].pc \in {"state", "event"} => token = t
    /\ \A t \in Streams : stream[t].pc = "state" => told = stream[t].says
    /\ \A t \in Streams : stream[t].pc = "event" => stream[t].news # <<>>
    /\ token # 0 => (stream[token].pc \in {"dial", "open"} => told # "up")

\* The ticket belongs to the refresh under way; a lease to what is published.
Tickets ==
    /\ cache.ticket => hot.pc \in {"capture", "read", "publish"}
    /\ hot.pc \in {"idle", "begin", "capture"} => hot.got = None
    /\ hot.pc = "publish" => \A k \in Kind : hot.got[k] # 0
    /\ lease.is = "published" => cache.pub # None /\ lease.snap = cache.pub

FreshModes == Hearing \/ Saying =>
    (modes # 0 => UpTo(truth, "mode", modes, Unsaid(stream[token])))

FreshRead == (Hearing \/ Saying) /\ hot.current /\ hot.pc = "read" =>
    /\ hot.cached # 0 => UpTo(truth, "mode", hot.cached, Unsaid(stream[token]))
    /\ \A k \in Kind : hot.got[k] # 0 => UpTo(truth, k, hot.got[k], Unsaid(stream[token]))

FreshTicket == Hearing /\ cache.ticket /\ hot.pc \in {"read", "publish"} =>
    /\ hot.cached # 0 => UpTo(truth, "mode", hot.cached, stream[token].news)
    /\ \A k \in Kind : hot.got[k] # 0 => UpTo(truth, k, hot.got[k], stream[token].news)

FreshPub == Hearing /\ cache.pub # None =>
    \A k \in Kind : UpTo(truth, k, cache.pub[k], stream[token].news)

\* v includes the changes of the modes that were said, or are being said.
Includes(v) ==
    /\ known["mode"] <= v
    /\ \A t \in Streams :
         /\ stream[t].pc = "event" =>
              (Head(stream[t].news).kind = "mode" => Head(stream[t].news).n <= v)
         /\ stream[t].pc = "state" /\ stream[t].says = "up" => stream[t].since["mode"] <= v
    /\ trader.pc = "finish" => trader.landed["mode"] <= v

ToldModes ==
    /\ modes # 0 => Includes(modes)
    /\ hot.current /\ hot.pc = "read" =>
         /\ hot.cached # 0 => Includes(hot.cached)
         /\ hot.got["mode"] # 0 => Includes(hot.got["mode"])

ToldTicket == cache.ticket /\ hot.pc \in {"read", "publish"} =>
    /\ hot.cached # 0 => known["mode"] <= hot.cached
    /\ \A k \in Kind : hot.got[k] # 0 => known[k] <= hot.got[k]

ToldPub == cache.pub # None => \A k \in Kind : known[k] <= cache.pub[k]

Inv ==
    /\ TypeOK /\ Honest /\ Callbacks /\ Tickets
    /\ FreshModes /\ FreshRead /\ FreshTicket /\ FreshPub
    /\ ToldModes /\ ToldTicket /\ ToldPub

-----------------------------------------------------------------------------
(* Types *)

LEMMA KindsAre == Kind = {"acct", "mode"}
  BY DEF Kind

LEMMA StreamsAreNumbered == \A t \in Streams : t # 0
  BY DEF Streams

LEMMA NoneIsTyped == None \in Snapshot /\ \A k \in Kind : None[k] = 0
  BY DEF None, Snapshot, Version

LEMMA IdleIsTyped == NotHot \in Refresh /\ Idle \in Batch /\ NoLease \in Lease
  BY NoneIsTyped DEF NotHot, Idle, NoLease, Refresh, Batch, Lease, Version, Kind

LEMMA MergeIsTyped == ASSUME NEW a \in Snapshot, NEW b \in Snapshot PROVE Merge(a, b) \in Snapshot
  BY DEF Merge, Snapshot, Version

\* A change is one more version and one more item of news.
LEMMA ChangeIsTyped ==
  ASSUME TypeOK, NEW k \in Kind, Change(k)
  PROVE /\ truth' \in Snapshot /\ stream' \in [Streams -> Connection]
        /\ [kind |-> k, n |-> truth[k] + 1] \in News
  <1>1. truth \in Snapshot /\ stream \in [Streams -> Connection]
    BY DEF TypeOK
  <1>2. truth' \in Snapshot
    BY <1>1 DEF Change, Snapshot, Version
  <1>3. [kind |-> k, n |-> truth[k] + 1] \in News
    BY <1>1 DEF News, Snapshot, Version
  <1>4. ASSUME NEW t \in Streams
        PROVE stream'[t] \in Connection
    <2>1. stream[t] \in Connection /\ stream[t].news \in Seq(News)
      BY <1>1 DEF Connection
    <2>2. Append(stream[t].news, [kind |-> k, n |-> truth[k] + 1]) \in Seq(News)
      BY <1>3, <2>1, AppendProperties
    <2>3. [stream[t] EXCEPT !.news = Append(@, [kind |-> k, n |-> truth[k] + 1])] \in Connection
      BY <2>1, <2>2 DEF Connection
    <2>4. stream'[t] = stream[t] \/
          stream'[t] = [stream[t] EXCEPT !.news = Append(@, [kind |-> k, n |-> truth[k] + 1])]
      BY DEF Change
    <2> QED BY <2>1, <2>3, <2>4
  <1>5. stream' \in [Streams -> Connection]
    BY <1>4 DEF Change
  <1> QED BY <1>2, <1>3, <1>5

LEMMA GenerationIsTyped ==
  ASSUME TypeOK, NEW again \in BOOLEAN, MoveGeneration(again)
  PROVE modes' \in Version /\ hot' \in Refresh
  <1>1. modes \in Version /\ hot \in Refresh
    BY DEF TypeOK
  <1>2. modes' \in Version
    BY <1>1 DEF MoveGeneration, Version
  <1>3. hot' \in Refresh
    BY <1>1 DEF MoveGeneration, Refresh
  <1> QED BY <1>2, <1>3

LEMMA InvalidateIsTyped ==
  ASSUME TypeOK, NEW c \in Cache, NEW again \in BOOLEAN, Invalidate(c, again)
  PROVE cache' \in Cache /\ lease' \in Lease
  <1>1. lease \in Lease
    BY DEF TypeOK
  <1>2. cache' \in Cache
    BY NoneIsTyped DEF Invalidate, Cache
  <1>3. lease' \in Lease
    BY <1>1 DEF Invalidate, Lease
  <1> QED BY <1>2, <1>3

LEMMA NewsIsTyped ==
  ASSUME TypeOK, NEW t \in Streams
  PROVE /\ stream[t] \in Connection
        /\ stream[t].news \in Seq(News)
        /\ stream[t].news # <<>> => /\ Tail(stream[t].news) \in Seq(News)
                                    /\ Head(stream[t].news) \in News
                                    /\ Head(stream[t].news).kind \in Kind
                                    /\ Head(stream[t].news).n \in Version
  <1>1. stream[t] \in Connection /\ stream[t].news \in Seq(News)
    BY DEF TypeOK, Connection
  <1>2. ASSUME stream[t].news # <<>>
        PROVE Tail(stream[t].news) \in Seq(News) /\ Head(stream[t].news) \in News
    BY <1>1, <1>2, HeadTailProperties
  <1>3. \A n \in News : n.kind \in Kind /\ n.n \in Version
    BY DEF News
  <1> QED BY <1>1, <1>2, <1>3

\* One stream changes its place, its news or what it says.
LEMMA MoveIsTyped ==
  ASSUME TypeOK, NEW t \in Streams, NEW c \in Connection, stream' = [stream EXCEPT ![t] = c]
  PROVE stream' \in [Streams -> Connection]
  BY DEF TypeOK

\* Every step keeps the variables in their sets; a stream in the middle of an
\* event still has it at the head of its news.
LEMMA TypesKept == TypeOK /\ Callbacks /\ [Next]_vars => TypeOK'
  <1> SUFFICES ASSUME TypeOK, Callbacks, [Next]_vars PROVE TypeOK'
    OBVIOUS
  <1>0. CASE UNCHANGED vars
    BY <1>0 DEF vars, TypeOK
  <1>b. ASSUME NEW b \in {"change", "fault", "write", "slow"}, NEW max, Use(b, max)
        PROVE count' \in [change : Nat, fault : Nat, write : Nat, slow : Nat]
    <2>1. count \in [change : Nat, fault : Nat, write : Nat, slow : Nat]
      BY DEF TypeOK
    <2> QED BY <1>b, <2>1 DEF Use
  <1>c. lease \in Lease /\ cache \in Cache /\ hot \in Refresh /\ trader \in Batch /\ stream \in [Streams -> Connection]
    BY DEF TypeOK
  <1>d. ASSUME NEW t \in Streams, NEW pc, pc \in {"off", "dial", "open", "up", "lost", "state", "event", "end"}
        PROVE [stream[t] EXCEPT !.pc = pc] \in Connection
    BY <1>c, <1>d DEF Connection
  <1>e. [lease EXCEPT !.is = Older] \in Lease
    BY <1>c DEF Older, Lease
  <1>f. \A p \in {"idle", "plan", "saved", "start", "revoked", "answered", "finish", "settle"} :
           [trader EXCEPT !.pc = p] \in Batch
    BY <1>c DEF Batch
  <1>1. ASSUME NEW k \in Kind, Outside(k) PROVE TypeOK'
    BY <1>1, <1>b, ChangeIsTyped DEF Outside, TypeOK
  <1>2. CASE Age
    <2>1. [cache EXCEPT !.old = TRUE] \in Cache /\ [hot EXCEPT !.old = TRUE] \in Refresh /\ 0 \in Version
      BY <1>c DEF Cache, Refresh, Version
    <2> QED BY <1>2, <1>b, <2>1 DEF Age, account, link, TypeOK
  <1>3. ASSUME NEW t \in Streams, Stream(t) \/ Lose(t) PROVE TypeOK'
    <2>0. /\ <<>> \in Seq(News)
          /\ truth \in Snapshot
      BY DEF TypeOK
    <2>1. CASE Dial(t)
      <3>1. [stream[t] EXCEPT !.pc = "open", !.since = truth] \in Connection
        BY <1>c, <2>0 DEF Connection
      <3>2. stream' \in [Streams -> Connection]
        BY <2>1, <3>1, MoveIsTyped DEF Dial
      <3> QED BY <2>1, <3>2 DEF Dial, account, TypeOK
    <2>2. CASE Lose(t)
      <3>1. [stream[t] EXCEPT !.pc = "lost", !.news = <<>>] \in Connection
        BY <1>c, <2>0 DEF Connection
      <3>2. stream' \in [Streams -> Connection]
        BY <2>2, <3>1, MoveIsTyped DEF Lose
      <3> QED BY <2>2, <1>b, <3>2 DEF Lose, TypeOK
    <2>3. ASSUME NEW up \in BOOLEAN, SayState(t, up) PROVE TypeOK'
      <3> DEFINE says == IF up THEN "up" ELSE "down"
      <3>1. [stream[t] EXCEPT !.pc = "state", !.says = says] \in Connection
        BY <1>c DEF Connection
      <3>2. [stream[t] EXCEPT !.pc = IF up THEN "up" ELSE "dial"] \in Connection
        BY <1>c DEF Connection
      <3>3. \/ stream' = [stream EXCEPT ![t] = [stream[t] EXCEPT !.pc = "state", !.says = says]]
            \/ stream' = [stream EXCEPT ![t] = [stream[t] EXCEPT !.pc = IF up THEN "up" ELSE "dial"]]
        BY <1>c, <2>3 DEF SayState, Move
      <3>4. stream' \in [Streams -> Connection]
        BY <3>1, <3>2, <3>3, MoveIsTyped
      <3>5. told' = told \/ told' \in {"up", "down"}
        BY <2>3 DEF SayState
      <3>6. modes' \in Version /\ hot' \in Refresh
        BY <2>3, GenerationIsTyped DEF SayState, TypeOK
      <3> QED BY <2>3, <3>4, <3>5, <3>6 DEF SayState, account, TypeOK
    <2>4. CASE FinishState(t)
      <3>1. stream[t].since \in Snapshot
        BY <1>c DEF Connection
      <3>2. Merge(known, stream[t].since) \in Snapshot
        BY <3>1, MergeIsTyped DEF TypeOK
      <3>3. [cache EXCEPT !.connected = (stream[t].says = "up")] \in Cache
        BY <1>c DEF Cache
      <3>4. cache' \in Cache /\ lease' \in Lease
        BY <2>4, <3>3, InvalidateIsTyped DEF FinishState
      <3>5. stream' = [stream EXCEPT ![t] = [stream[t] EXCEPT !.pc = IF stream[t].says = "up" THEN "up" ELSE "dial"]]
        BY <1>c, <2>4 DEF FinishState, Move
      <3>6. stream' \in [Streams -> Connection]
        BY <1>d, <3>5, MoveIsTyped
      <3>7. known' \in Snapshot
        BY <2>4, <3>2 DEF FinishState, TypeOK
      <3> QED BY <2>4, <3>4, <3>6, <3>7 DEF FinishState, TypeOK
    <2>5. CASE SayEvent(t)
      <3>1. [stream[t] EXCEPT !.news = Tail(@)] \in Connection
        BY <2>5, NewsIsTyped DEF SayEvent, Connection
      <3>2. \/ stream' = [stream EXCEPT ![t] = [stream[t] EXCEPT !.news = Tail(@)]]
            \/ stream' = [stream EXCEPT ![t] = [stream[t] EXCEPT !.pc = "event"]]
        BY <1>c, <2>5 DEF SayEvent, Move
      <3>3. stream' \in [Streams -> Connection]
        BY <1>d, <3>1, <3>2, MoveIsTyped
      <3>4. modes' \in Version /\ hot' \in Refresh
        BY <2>5, GenerationIsTyped DEF SayEvent, TypeOK
      <3> QED BY <2>5, <3>3, <3>4 DEF SayEvent, account, TypeOK
    <2>6. CASE FinishEvent(t)
      <3>0. stream[t].news # <<>>
        BY <2>6 DEF FinishEvent, Callbacks
      <3> DEFINE n == Head(stream[t].news)
                 b == [None EXCEPT ![n.kind] = n.n]
      <3>1. cache' \in Cache /\ lease' \in Lease
        BY <1>c, <2>6, InvalidateIsTyped DEF FinishEvent
      <3>2. b \in Snapshot
        BY <3>0, NewsIsTyped, NoneIsTyped DEF FinishEvent, Snapshot
      <3>3. Merge(known, b) \in Snapshot
        BY <3>2, MergeIsTyped DEF TypeOK
      <3>4. [stream[t] EXCEPT !.pc = "up", !.news = Tail(stream[t].news)] \in Connection
        BY <1>c, <3>0, NewsIsTyped DEF Connection
      <3>5. stream' \in [Streams -> Connection]
        <4>1. stream' = [stream EXCEPT ![t] = [stream[t] EXCEPT !.pc = "up", !.news = Tail(stream[t].news)]]
          BY <1>c, <2>6 DEF FinishEvent
        <4> QED BY <3>4, <4>1, MoveIsTyped
      <3>6. known' = Merge(known, b)
        BY <2>6 DEF FinishEvent
      <3> QED BY <2>6, <3>1, <3>3, <3>5, <3>6 DEF FinishEvent, TypeOK
    <2>7. CASE End(t)
      <3>1. [stream[t] EXCEPT !.pc = "end", !.news = <<>>] \in Connection
        BY <1>c, <2>0 DEF Connection
      <3>2. stream' \in [Streams -> Connection]
        BY <2>7, <3>1, MoveIsTyped DEF End
      <3> QED BY <2>7, <3>2 DEF End, account, TypeOK
    <2> QED BY <1>3, <2>1, <2>2, <2>3, <2>4, <2>5, <2>6, <2>7 DEF Stream
  <1>4. CASE Control \/ FinishControl
    <2>1. CASE Control
      BY <2>1, <1>b, GenerationIsTyped DEF Control, link, TypeOK
    <2>2. CASE FinishControl
      BY <1>c, <2>2, InvalidateIsTyped DEF FinishControl, account, link, TypeOK
    <2> QED BY <1>4, <2>1, <2>2
  <1>5. CASE Worker \/ GetFails
    <2>1. CASE Stop
      <3>1. [cache EXCEPT !.connected = FALSE] \in Cache
        BY <1>c DEF Cache
      <3>2. cache' \in Cache /\ lease' \in Lease
        BY <2>1, <3>1, InvalidateIsTyped DEF Stop
      <3>3. modes' \in Version /\ token' \in 0 .. MaxStreams
        BY <2>1, HotBounds DEF Stop, TypeOK, Version
      <3> QED BY <2>1, <3>2, <3>3 DEF Stop, account, TypeOK
    <2>2. CASE Start
      <3>1. [hot EXCEPT !.pc = "begin"] \in Refresh
        BY <1>c DEF Refresh
      <3>2. token' \in 0 .. MaxStreams /\ told' \in {"unknown", "up", "down"}
        BY <2>2, HotBounds DEF Start, link, TypeOK, Streams
      <3>3. stream' \in [Streams -> Connection]
        <4>1. ASSUME NEW t \in Streams, Move(t, "dial") PROVE stream' \in [Streams -> Connection]
          BY <1>c, <1>d, <4>1, MoveIsTyped DEF Move
        <4> QED BY <1>c, <2>2, <4>1 DEF Start, link
      <3> QED BY <2>2, <3>1, <3>2, <3>3 DEF Start, account, TypeOK
    <2>3. ASSUME NEW pc, Discard(pc) PROVE TypeOK'
      BY <1>c, <2>3, InvalidateIsTyped, IdleIsTyped DEF Discard, account, link, TypeOK
    <2>4. CASE BeginRefresh
      <3>1. [cache EXCEPT !.ticket = @ \/ cache.connected] \in Cache
        BY <1>c DEF Cache
      <3>2. [hot EXCEPT !.pc = "capture", !.fresh = cache.again] \in Refresh
        BY <1>c DEF Refresh, Cache
      <3> QED BY <2>4, <3>1, <3>2, IdleIsTyped DEF BeginRefresh, account, link, TypeOK
    <2>5. CASE Capture
      <3>1. modes' \in Version
        BY <2>5 DEF Capture, TypeOK, Version
      <3>2. [hot EXCEPT !.pc = "read", !.current = TRUE, !.cached = modes'] \in Refresh
        BY <1>c, <3>1 DEF Refresh
      <3> QED BY <2>5, <3>1, <3>2 DEF Capture, account, link, TypeOK
    <2>6. ASSUME NEW k \in Kind, Get(k) PROVE TypeOK'
      <3>1. hot' \in Refresh
        <4> DEFINE v == IF k = "mode" /\ hot.cached # 0 THEN hot.cached ELSE truth[k]
        <4>1. v \in Version
          BY <1>c DEF TypeOK, Snapshot, Refresh
        <4>2. [hot.got EXCEPT ![k] = v] \in Snapshot
          BY <1>c, <4>1 DEF Snapshot, Refresh
        <4>3. hot' = [hot EXCEPT !.got = [hot.got EXCEPT ![k] = v]]
          BY <1>c, <2>6 DEF Get, Refresh, Snapshot
        <4> QED BY <1>c, <4>2, <4>3 DEF Refresh
      <3> QED BY <2>6, <3>1 DEF Get, account, link, TypeOK
    <2>7. CASE Join
      <3>1. hot' \in Refresh /\ modes' \in Version
        <4>1. [hot EXCEPT !.pc = "publish"] \in Refresh /\ hot.got["mode"] \in Version
          BY <1>c DEF Refresh, Snapshot, Kind
        <4> QED BY <2>7, <4>1, IdleIsTyped DEF Join, Fail, TypeOK
      <3>2. cache' \in Cache /\ lease' \in Lease
        BY <1>c, <2>7, InvalidateIsTyped DEF Join, Fail
      <3> QED BY <2>7, <3>1, <3>2 DEF Join, account, link, TypeOK
    <2>8. CASE Publish
      <3>1. [hot EXCEPT !.pc = "done"] \in Refresh /\ hot.got \in Snapshot
        BY <1>c DEF Refresh
      <3>2. [cache EXCEPT !.pub = hot.got, !.old = FALSE, !.ticket = FALSE, !.again = FALSE] \in Cache
        BY <1>c, <3>1 DEF Cache
      <3>3. cache' \in Cache /\ lease' \in Lease
        BY <1>c, <1>e, <2>8, <3>2, InvalidateIsTyped DEF Publish
      <3> QED BY <2>8, <3>1, <3>3 DEF Publish, account, link, TypeOK
    <2>9. CASE Done
      <3>1. modes' \in Version
        <4>1. modes \in Version /\ 0 \in Version
          BY DEF TypeOK, Version
        <4>2. modes' = modes \/ modes' = 0
          BY <2>9 DEF Done
        <4> QED BY <4>1, <4>2
      <3>2. cache' \in Cache /\ lease' \in Lease
        BY <1>c, <2>9, InvalidateIsTyped DEF Done
      <3> QED BY <2>9, <3>1, <3>2, IdleIsTyped DEF Done, account, link, TypeOK
    <2>10. CASE GetFails
      BY <1>b, <1>c, <2>10, InvalidateIsTyped, IdleIsTyped DEF GetFails, link, TypeOK
    <2> QED BY <1>5, <2>1, <2>2, <2>3, <2>4, <2>5, <2>6, <2>7, <2>8, <2>9, <2>10 DEF Worker
  <1>6. CASE Trader \/ TakeLease
    <2>1. CASE SaveBatch \/ Settle
      BY <2>1, <1>f, IdleIsTyped DEF SaveBatch, Settle, account, link, TypeOK
    <2>2. CASE Admit
      <3>1. \A k \in Kind : [trader EXCEPT !.pc = "start", !.kind = k] \in Batch
        BY <1>c DEF Batch
      <3>2. count' \in [change : Nat, fault : Nat, write : Nat, slow : Nat]
        BY <2>2 DEF Admit, TypeOK
      <3> QED BY <2>2, <3>1, <3>2, IdleIsTyped DEF Admit, link, TypeOK
    <2>3. CASE Refuse
      <3>1. [cache EXCEPT !.pub = None, !.old = FALSE] \in Cache
        BY <1>c, NoneIsTyped DEF Cache
      <3> QED BY <2>3, <3>1, IdleIsTyped DEF Refuse, account, link, TypeOK
    <2>4. CASE StartWrite \/ AnswerWrite
      BY <2>4, <1>f, GenerationIsTyped DEF StartWrite, AnswerWrite, account, link, TypeOK
    <2>5. CASE SendWrite
      BY <1>c, <1>f, <2>5, InvalidateIsTyped DEF SendWrite, account, link, TypeOK
    <2>6. CASE FinishWrite
      <3>1. Merge(known, trader.landed) \in Snapshot
        BY <1>c, MergeIsTyped DEF Batch, TypeOK
      <3> QED BY <1>c, <1>f, <2>6, <3>1, InvalidateIsTyped DEF FinishWrite, link, TypeOK
    <2>7. CASE TakeLease
      <3>1. [snap |-> cache.pub, is |-> "published"] \in Lease
        BY <1>c DEF Lease, Cache
      <3>2. [cache EXCEPT !.pub = None, !.old = FALSE] \in Cache
        BY <1>c, NoneIsTyped DEF Cache
      <3> QED BY <2>7, <1>e, <1>f, <3>1, <3>2 DEF TakeLease, Expire, account, link, TypeOK
    <2> QED BY <1>6, <2>1, <2>2, <2>3, <2>4, <2>5, <2>6, <2>7 DEF Trader
  <1>7. CASE Land
    <2>1. trader.kind \in Kind
      BY <1>c DEF Batch
    <2>2. truth' \in Snapshot /\ stream' \in [Streams -> Connection]
      BY <1>7, <2>1, ChangeIsTyped DEF Land
    <2>3. [None EXCEPT ![trader.kind] = truth'[trader.kind]] \in Snapshot
      BY <2>1, <2>2, NoneIsTyped DEF Snapshot
    <2>4. trader' \in Batch
      BY <1>c, <1>7, <2>3 DEF Land, Batch
    <2> QED BY <1>7, <2>2, <2>4 DEF Land, TypeOK
  <1> QED BY <1>0, <1>1, <1>2, <1>3, <1>4, <1>5, <1>6, <1>7 DEF Next

\* Whatever a stream says of its state, its news and its dial stay.
LEMMA SayStateKeepsNews ==
  ASSUME TypeOK, NEW t \in Streams, NEW up \in BOOLEAN, SayState(t, up)
  PROVE /\ stream'[t].news = stream[t].news /\ stream'[t].since = stream[t].since
        /\ \A u \in Streams : u # t => stream'[u] = stream[u]
        /\ UNCHANGED <<truth, trader, known, token, cache, lease>>
  <1> DEFINE says == IF up THEN "up" ELSE "down"
             next == IF up THEN "up" ELSE "dial"
  <1>1. stream \in [Streams -> Connection]
    BY DEF TypeOK
  <1>2. \/ stream' = [stream EXCEPT ![t] = [stream[t] EXCEPT !.pc = "state", !.says = says]]
        \/ stream' = [stream EXCEPT ![t] = [stream[t] EXCEPT !.pc = next]]
    BY <1>1 DEF SayState, Move
  <1> HIDE DEF says, next
  <1>3. /\ stream'[t].news = stream[t].news /\ stream'[t].since = stream[t].since
        /\ \A u \in Streams : u # t => stream'[u] = stream[u]
    BY <1>1, <1>2 DEF Connection
  <1> QED BY <1>3 DEF SayState, account

-----------------------------------------------------------------------------
(* What values and news have to do with each other *)

\* One more change is one more item of news, on every connection listened to.
LEMMA UpToChange ==
  ASSUME NEW now \in Snapshot, NEW k \in Kind, NEW j \in Kind, NEW v \in Version,
         NEW news \in Seq(News), UpTo(now, j, v, news)
  PROVE UpTo([now EXCEPT ![k] = @ + 1], j, v, Append(news, [kind |-> k, n |-> now[k] + 1]))
  <1> DEFINE item == [kind |-> k, n |-> now[k] + 1]
             more == Append(news, item)
             then == [now EXCEPT ![k] = @ + 1]
  <1>1. now[j] \in Nat /\ now[k] \in Nat /\ v \in Nat
    BY DEF Snapshot, Version
  <1>2. item \in News
    BY <1>1 DEF News, Version
  <1>3. /\ Len(news) \in Nat
        /\ Len(more) = Len(news) + 1
        /\ \A i \in 1 .. Len(news) : more[i] = news[i]
        /\ more[Len(news) + 1] = item
        /\ DOMAIN news = 1 .. Len(news)
        /\ DOMAIN more = 1 .. Len(more)
    BY <1>2, AppendProperties, LenProperties
  <1>4. then[j] = IF j = k THEN now[k] + 1 ELSE now[j]
    BY DEF Snapshot
  <1>5. v <= then[j]
    BY <1>1, <1>4 DEF UpTo
  <1>6. ASSUME v < then[j] PROVE \E i \in DOMAIN more : more[i].kind = j /\ more[i].n > v
    <2>1. CASE j = k
      <3>1. Len(news) + 1 \in DOMAIN more
        BY <1>3
      <3>2. item.kind = j /\ item.n > v
        BY <1>1, <2>1 DEF UpTo
      <3> QED BY <1>3, <3>1, <3>2
    <2>2. CASE j # k
      <3>1. PICK i \in DOMAIN news : news[i].kind = j /\ news[i].n > v
        BY <1>4, <1>6, <2>2 DEF UpTo
      <3>2. i \in DOMAIN more /\ more[i] = news[i]
        BY <1>3, <3>1
      <3> QED BY <3>1, <3>2
    <2> QED BY <2>1, <2>2
  <1> QED BY <1>5, <1>6 DEF UpTo

\* What is not yet said is part of the news.
LEMMA UpToTail ==
  ASSUME NEW now \in Snapshot, NEW k \in Kind, NEW v \in Version,
         NEW news \in Seq(News), news # <<>>
  PROVE /\ UpTo(now, k, v, Tail(news)) => UpTo(now, k, v, news)
        /\ UpTo(now, k, v, news) /\ Head(news).kind # k => UpTo(now, k, v, Tail(news))
  <1>1. /\ Len(news) \in Nat \ {0}
        /\ DOMAIN news = 1 .. Len(news)
        /\ Tail(news) \in Seq(News)
        /\ Len(Tail(news)) = Len(news) - 1
        /\ \A i \in 1 .. Len(Tail(news)) : Tail(news)[i] = news[i + 1]
        /\ Head(news) = news[1]
    BY HeadTailProperties, EmptySeq, LenProperties
  <1>2. DOMAIN Tail(news) = 1 .. Len(news) - 1
    BY <1>1, LenProperties
  <1>3. ASSUME UpTo(now, k, v, Tail(news)) PROVE UpTo(now, k, v, news)
    <2>1. ASSUME v < now[k] PROVE \E i \in DOMAIN news : news[i].kind = k /\ news[i].n > v
      <3>1. PICK i \in DOMAIN Tail(news) : Tail(news)[i].kind = k /\ Tail(news)[i].n > v
        BY <1>3, <2>1 DEF UpTo
      <3>2. i + 1 \in DOMAIN news /\ news[i + 1] = Tail(news)[i]
        BY <1>1, <1>2, <3>1
      <3> QED BY <3>1, <3>2
    <2> QED BY <1>3, <2>1 DEF UpTo
  <1>4. ASSUME UpTo(now, k, v, news), Head(news).kind # k PROVE UpTo(now, k, v, Tail(news))
    <2>1. ASSUME v < now[k] PROVE \E i \in DOMAIN Tail(news) : Tail(news)[i].kind = k /\ Tail(news)[i].n > v
      <3>1. PICK i \in DOMAIN news : news[i].kind = k /\ news[i].n > v
        BY <1>4, <2>1 DEF UpTo
      <3>2. i # 1
        BY <1>1, <1>4, <3>1
      <3>3. i - 1 \in DOMAIN Tail(news) /\ Tail(news)[i - 1] = news[i]
        BY <1>1, <1>2, <3>1, <3>2
      <3> QED BY <3>1, <3>3
    <2> QED BY <1>4, <2>1 DEF UpTo
  <1> QED BY <1>3, <1>4

\* A value read now is up to date, whatever the news.
LEMMA UpToNow ==
  ASSUME NEW now \in Snapshot, NEW k \in Kind, NEW news PROVE UpTo(now, k, now[k], news)
  BY DEF UpTo, Snapshot, Version

\* Without news, a value that is up to date is the account.
LEMMA UpToQuiet ==
  ASSUME NEW now \in Snapshot, NEW k \in Kind, NEW v \in Version, UpTo(now, k, v, <<>>)
  PROVE v = now[k]
  BY DEF UpTo, Snapshot, Version

-----------------------------------------------------------------------------
(* Revocations lose what was read and add nothing to it *)

\* The generation and the cache only lose; the refresh is not reading, or goes on.
Loses ==
    /\ modes' = modes \/ modes' = 0
    /\ cache'.pub = cache.pub \/ cache'.pub = None
    /\ \/ hot'.pc \notin {"read", "publish"}
       \/ /\ hot'.pc = hot.pc /\ hot'.cached = hot.cached /\ hot'.got = hot.got
          /\ hot'.current => hot.current
          /\ cache'.ticket => cache.ticket

Fresh == FreshModes /\ FreshRead /\ FreshTicket /\ FreshPub
Told  == ToldModes /\ ToldTicket /\ ToldPub

LEMMA LosingKeepsFresh ==
  ASSUME Fresh, Loses, truth' = truth,
         (Hearing \/ Saying)' => token' = token /\ stream'[token] = stream[token]
  PROVE Fresh'
  <1>0. /\ Hearing' => Hearing
        /\ Saying' => Saying
        /\ (Hearing \/ Saying)' => stream'[token'] = stream[token]
    BY DEF Hearing, Saying
  <1>1. FreshModes'
    BY <1>0 DEF Fresh, Loses, FreshModes, Unsaid, UpTo
  <1>2. FreshRead'
    BY <1>0 DEF Fresh, Loses, FreshRead, NotHot
  <1>3. FreshTicket'
    BY <1>0 DEF Fresh, Loses, FreshTicket, NotHot
  <1>4. FreshPub'
    BY <1>0 DEF Fresh, Loses, FreshPub
  <1> QED BY <1>1, <1>2, <1>3, <1>4 DEF Fresh

LEMMA LosingKeepsTold ==
  ASSUME Told, Loses, TypeOK,
         \A v \in Version : Includes(v) => Includes(v)',
         known' = known \/ (~cache'.ticket /\ cache'.pub = None)
  PROVE Told'
  <1>0. modes \in Version /\ hot.cached \in Version /\ hot.got["mode"] \in Version
    BY DEF TypeOK, Refresh, Snapshot, Kind
  <1>1. ToldModes'
    BY <1>0 DEF Told, Loses, ToldModes, NotHot
  <1>2. ToldTicket'
    BY DEF Told, Loses, ToldTicket, NotHot
  <1>3. ToldPub'
    BY DEF Told, Loses, ToldPub
  <1> QED BY <1>1, <1>2, <1>3 DEF Told

\* What the two halves of a revocation are.
LEMMA MoveLoses ==
  ASSUME NEW again, MoveGeneration(again), UNCHANGED cache, TypeOK
  PROVE Loses /\ ~hot'.current /\ (again => modes' = 0) /\ UNCHANGED <<hot.pc, hot.got, hot.cached>>
  BY DEF MoveGeneration, Loses, Refresh, TypeOK

LEMMA InvalidateLoses ==
  ASSUME NEW c \in Cache, NEW again, Invalidate(c, again), TypeOK
  PROVE /\ ~cache'.ticket /\ cache'.pub = None
        /\ lease'.is # "published"
  BY DEF Invalidate, Cache, Lease, TypeOK

\* Steps that only lose, wherever the streams and the trader are.
LosingStep ==
    \/ Age \/ Control \/ FinishControl
    \/ Discard("begin") \/ Discard("done") \/ BeginRefresh \/ GetFails \/ Done
    \/ Join /\ ~hot.current
    \/ Publish /\ (hot.old \/ ~cache.ticket)
    \/ SaveBatch \/ Admit \/ Refuse \/ StartWrite \/ SendWrite \/ Settle \/ TakeLease

LEMMA LosingStepLoses ==
  ASSUME TypeOK, Tickets, LosingStep
  PROVE Loses /\ UNCHANGED <<truth, known, token, told, stream>>
  <1>0. hot \in Refresh /\ cache \in Cache /\ NotHot.pc = "idle"
    BY DEF TypeOK, NotHot
  <1>1. CASE Age
    BY <1>0, <1>1 DEF Age, Loses, account, link, Refresh, Cache
  <1>2. CASE Control
    BY <1>2, MoveLoses DEF Control, link
  <1>3. ASSUME NEW again, Invalidate(cache, again), UNCHANGED hot \/ hot' = NotHot,
               modes' = modes \/ modes' = 0
        PROVE Loses
    BY <1>0, <1>3, InvalidateLoses DEF Loses
  <1>4. CASE FinishControl
    BY <1>4, <1>3 DEF FinishControl, account, link
  <1>5. ASSUME NEW pc, Discard(pc) PROVE Loses /\ UNCHANGED <<truth, known, token, told, stream>>
    BY <1>5, <1>3 DEF Discard, account, link
  <1>6. CASE GetFails
    BY <1>6, <1>3 DEF GetFails, link
  <1>7. CASE Done
    <2>1. CASE wanted
      BY <1>0, <1>7, <2>1 DEF Done, account, link, Loses
    <2>2. CASE ~wanted
      BY <1>7, <1>3, <2>2 DEF Done, account, link
    <2> QED BY <2>1, <2>2
  <1>8. CASE Join /\ ~hot.current
    <2>1. CASE cache.ticket
      BY <1>3, <1>8, <2>1 DEF Join, Fail, account, link
    <2>2. CASE ~cache.ticket
      BY <1>0, <1>8, <2>2 DEF Join, Fail, account, link, Loses
    <2> QED BY <2>1, <2>2
  <1>9. CASE Publish /\ (hot.old \/ ~cache.ticket)
    <2>1. hot' = [hot EXCEPT !.pc = "done"] /\ UNCHANGED <<truth, known, token, told, stream, modes>>
      BY <1>9 DEF Publish, account, link
    <2>2. cache'.pub = cache.pub \/ cache'.pub = None
      BY <1>0, <1>9, InvalidateLoses DEF Publish
    <2> QED BY <1>0, <2>1, <2>2 DEF Loses, Refresh
  <1>10. CASE SaveBatch \/ Admit \/ Settle
    BY <1>10 DEF SaveBatch, Admit, Settle, Loses, account, link
  <1>11. CASE Refuse \/ TakeLease
    BY <1>0, <1>11 DEF Refuse, TakeLease, Expire, Loses, account, link, Cache
  <1>12. CASE StartWrite
    BY <1>12, MoveLoses DEF StartWrite, account, link
  <1>13. CASE SendWrite
    BY <1>3, <1>13 DEF SendWrite, account, link
  <1>14. CASE BeginRefresh
    BY <1>0, <1>14 DEF BeginRefresh, Loses, account, link, Refresh, Cache
  <1> QED BY <1>1, <1>2, <1>4, <1>5, <1>6, <1>7, <1>8, <1>9, <1>10, <1>11, <1>12, <1>13, <1>14 DEF LosingStep

-----------------------------------------------------------------------------
(* What was read stays fresh *)

LEMMA TailOfAppend ==
  ASSUME NEW s \in Seq(News), s # <<>>, NEW e \in News
  PROVE Tail(Append(s, e)) = Append(Tail(s), e) /\ Head(Append(s, e)) = Head(s)
  <1>1. /\ Append(s, e) \in Seq(News) /\ Append(s, e) # <<>>
        /\ Len(Append(s, e)) = Len(s) + 1 /\ Len(s) \in Nat \ {0}
        /\ \A i \in 1 .. Len(s) : Append(s, e)[i] = s[i]
        /\ Append(s, e)[Len(s) + 1] = e
    BY AppendProperties, EmptySeq, LenProperties
  <1>2. /\ Tail(s) \in Seq(News) /\ Len(Tail(s)) = Len(s) - 1
        /\ \A i \in 1 .. Len(Tail(s)) : Tail(s)[i] = s[i + 1]
    BY HeadTailProperties
  <1>3. /\ Tail(Append(s, e)) \in Seq(News) /\ Len(Tail(Append(s, e))) = Len(s)
        /\ \A i \in 1 .. Len(s) : Tail(Append(s, e))[i] = Append(s, e)[i + 1]
    BY <1>1, HeadTailProperties
  <1>4. /\ Append(Tail(s), e) \in Seq(News) /\ Len(Append(Tail(s), e)) = Len(s)
        /\ \A i \in 1 .. Len(Tail(s)) : Append(Tail(s), e)[i] = Tail(s)[i]
        /\ Append(Tail(s), e)[Len(s)] = e
    BY <1>1, <1>2, AppendProperties
  <1>5. ASSUME NEW i \in 1 .. Len(s) PROVE Tail(Append(s, e))[i] = Append(Tail(s), e)[i]
    <2>1. CASE i = Len(s)
      BY <1>1, <1>3, <1>4, <2>1
    <2>2. CASE i # Len(s)
      <3>1. i \in 1 .. Len(Tail(s)) /\ i + 1 \in 1 .. Len(s)
        <4>1. Len(s) \in Nat /\ Len(Tail(s)) = Len(s) - 1
          BY <1>1, <1>2
        <4>2. \A n, m \in Nat : n = m - 1 => \A j \in 1 .. m : j # m => j \in 1 .. n /\ j + 1 \in 1 .. m
          OBVIOUS
        <4>3. Len(Tail(s)) \in Nat
          BY <1>2, LenProperties
        <4> QED BY <2>2, <4>1, <4>2, <4>3, Zenon
      <3>2. Tail(Append(s, e))[i] = Append(s, e)[i + 1] /\ Append(s, e)[i + 1] = s[i + 1]
        BY <1>1, <1>3, <3>1
      <3> QED BY <1>2, <1>4, <3>1, <3>2
    <2> QED BY <2>1, <2>2
  <1>6. Tail(Append(s, e)) = Append(Tail(s), e)
    BY <1>3, <1>4, <1>5, SeqEqual
  <1> QED BY <1>1, <1>6

\* The current stream hears of a change; what is read and kept is the same.
LEMMA ChangeKeepsFresh ==
  ASSUME TypeOK, Callbacks, Fresh, NEW k \in Kind, Change(k),
         UNCHANGED <<token, modes, cache, hot>>
  PROVE Fresh'
  <1> DEFINE item == [kind |-> k, n |-> truth[k] + 1]
             s == stream[token]
  <1>1. truth \in Snapshot /\ modes \in Version /\ hot.cached \in Version
        /\ hot.got \in Snapshot /\ cache.pub \in Snapshot /\ item \in News
    BY ChangeIsTyped DEF TypeOK, Refresh, Cache
  <1>2. truth' = [truth EXCEPT ![k] = @ + 1]
    BY DEF Change
  <1>3. ASSUME token # 0
        PROVE /\ token \in Streams /\ s \in Connection /\ s.news \in Seq(News)
              /\ stream'[token].pc = s.pc /\ stream'[token].says = s.says
              /\ Hearing \/ Saying => stream'[token].news = Append(s.news, item)
    <2>1. token \in Streams
      BY <1>3, HotBounds DEF TypeOK, Streams
    <2>2. s \in Connection /\ s.news \in Seq(News)
      BY <2>1, NewsIsTyped
    <2>3. stream'[token] = IF s.pc \notin Connected THEN s ELSE [s EXCEPT !.news = Append(@, item)]
      BY <2>1 DEF Change
    <2> QED BY <2>1, <2>2, <2>3 DEF Connected, Connection, Hearing, Saying
  <1>4. (Hearing' <=> Hearing) /\ (Saying' <=> Saying)
    BY <1>3 DEF Hearing, Saying
  <1>5. ASSUME Hearing \/ Saying, NEW j \in Kind, NEW v \in Version
        PROVE /\ UpTo(truth, j, v, s.news) => UpTo(truth', j, v, stream'[token].news)
              /\ UpTo(truth, j, v, Unsaid(s)) => UpTo(truth', j, v, Unsaid(stream'[token]))
    <2>0. token # 0
      BY <1>5 DEF Hearing, Saying
    <2>1. \A news \in Seq(News) : UpTo(truth, j, v, news) => UpTo(truth', j, v, Append(news, item))
      BY <1>1, <1>2, UpToChange
    <2>2. CASE s.pc = "event"
      <3>1. s.news # <<>>
        BY <1>3, <2>0, <2>2 DEF Callbacks
      <3>2. Unsaid(s) = Tail(s.news) /\ Tail(s.news) \in Seq(News)
        BY <1>3, <2>0, <2>2, <3>1, HeadTailProperties DEF Unsaid
      <3>3. Unsaid(stream'[token]) = Append(Tail(s.news), item)
        BY <1>1, <1>3, <1>5, <2>0, <2>2, <3>1, TailOfAppend DEF Unsaid
      <3> QED BY <1>3, <1>5, <2>0, <2>1, <3>2, <3>3
    <2>3. CASE s.pc # "event"
      <3>1. Unsaid(s) = s.news /\ Unsaid(stream'[token]) = stream'[token].news
        BY <1>3, <2>0, <2>3 DEF Unsaid
      <3> QED BY <1>3, <1>5, <2>0, <2>1, <3>1
    <2> QED BY <2>2, <2>3
  <1>6. \A j \in Kind : hot.got[j] \in Version /\ cache.pub[j] \in Version
    BY <1>1 DEF Snapshot
  <1>7. FreshModes'
    BY <1>1, <1>4, <1>5, KindsAre DEF Fresh, FreshModes
  <1>8. FreshRead'
    BY <1>1, <1>4, <1>5, <1>6, KindsAre DEF Fresh, FreshRead
  <1>9. FreshTicket'
    BY <1>1, <1>4, <1>5, <1>6, KindsAre DEF Fresh, FreshTicket
  <1>10. FreshPub'
    BY <1>4, <1>5, <1>6 DEF Fresh, FreshPub
  <1> QED BY <1>7, <1>8, <1>9, <1>10 DEF Fresh

\* One connection moves: only a callback of the current one is heard.
LEMMA StreamKeepsFresh ==
  ASSUME Inv, NEW t \in Streams, Stream(t) \/ Lose(t)
  PROVE Fresh'
  <1> USE DEF Inv
  <1>0. /\ stream \in [Streams -> Connection] /\ stream[t] \in Connection /\ Fresh
        /\ stream[t].news \in Seq(News) /\ truth \in Snapshot /\ modes \in Version
        /\ token \in 0 .. MaxStreams
    BY NewsIsTyped DEF TypeOK, Fresh
  <1>1. ASSUME truth' = truth, token' = token, UNCHANGED <<modes, cache, hot>>,
               \A u \in Streams : u # t => stream'[u] = stream[u],
               stream'[t].pc \notin {"up", "event"},
               ~(stream'[t].pc = "state" /\ stream'[t].says = "up")
        PROVE Fresh'
    <2>1. Loses
      BY <1>1 DEF Loses
    <2>2. (Hearing \/ Saying)' => stream'[token] = stream[token]
      BY <1>0, <1>1, HotBounds DEF Hearing, Saying, Streams
    <2> QED BY <1>0, <1>1, <2>1, <2>2, LosingKeepsFresh
  <1>2. CASE Dial(t)
    BY <1>0, <1>1, <1>2 DEF Dial, account
  <1>3. CASE Lose(t)
    BY <1>0, <1>1, <1>3 DEF Lose
  <1>4. CASE End(t)
    BY <1>0, <1>1, <1>4 DEF End, account
  <1>5. ASSUME NEW up \in BOOLEAN, SayState(t, up) PROVE Fresh'
    <2>1. CASE token # t
      <3>1. (Hearing \/ Saying)' => stream'[token] = stream[token]
        BY <1>0, <1>5, <2>1, HotBounds DEF SayState, Move, Hearing, Saying, Streams
      <3>2. Loses
        BY <1>5, <2>1 DEF SayState, Loses
      <3> QED BY <1>0, <1>5, <2>1, <3>1, <3>2, LosingKeepsFresh DEF SayState, account
    <2>2. CASE token = t /\ up
      <3>1. MoveGeneration(TRUE)
        <4>1. token # 0 /\ stream[token].pc = "open"
          BY <1>5, <2>2, StreamsAreNumbered DEF SayState
        <4>2. told # "up"
          BY <4>1 DEF Callbacks
        <4> QED BY <1>5, <2>2, <4>2 DEF SayState
      <3>2. modes' = 0 /\ ~hot'.current
        BY <3>1 DEF MoveGeneration, TypeOK, Refresh
      <3>3. ~Hearing'
        <4>1. stream' = [stream EXCEPT ![t] = [stream[t] EXCEPT !.pc = "state", !.says = "up"]]
          BY <1>5, <2>2 DEF SayState
        <4>2. stream'[t].pc = "state" /\ token' = t
          BY <1>0, <1>5, <2>2, <4>1 DEF SayState, Connection
        <4> QED BY <4>2 DEF Hearing
      <3> QED BY <3>2, <3>3 DEF Fresh, FreshModes, FreshRead, FreshTicket, FreshPub
    <2>3. CASE token = t /\ ~up
      <3>1. ~Hearing' /\ ~Saying'
        BY <1>0, <1>5, <2>3 DEF SayState, Hearing, Saying, Connection
      <3> QED BY <3>1 DEF Fresh, FreshModes, FreshRead, FreshTicket, FreshPub
    <2> QED BY <2>1, <2>2, <2>3
  <1>6. CASE FinishState(t)
    <2>1. token = t /\ token # 0
      BY <1>6 DEF FinishState, Callbacks, Streams
    <2>2. ~cache'.ticket /\ cache'.pub = None
      <3>1. [cache EXCEPT !.connected = (stream[t].says = "up")] \in Cache
        BY DEF TypeOK, Cache
      <3> QED BY <1>6, <3>1, InvalidateLoses DEF FinishState
    <2>3. stream'[t] = [stream[t] EXCEPT !.pc = IF stream[t].says = "up" THEN "up" ELSE "dial"]
      BY <1>0, <1>6 DEF FinishState, Move
    <2>4. CASE stream[t].says = "up"
      <3>1. Saying /\ Unsaid(stream[t]) = stream[t].news
        BY <1>6, <2>1, <2>4 DEF FinishState, Saying, Unsaid
      <3>2. Unsaid(stream'[t]) = stream[t].news
        BY <1>0, <2>3, <2>4 DEF Connection, Unsaid
      <3> QED BY <1>6, <2>1, <2>2, <3>1, <3>2
          DEF FinishState, Fresh, FreshModes, FreshRead, FreshTicket, FreshPub
    <2>5. CASE stream[t].says # "up"
      <3>1. ~Hearing' /\ ~Saying'
        BY <1>0, <1>6, <2>1, <2>3, <2>5 DEF FinishState, Hearing, Saying, Connection
      <3> QED BY <3>1 DEF Fresh, FreshModes, FreshRead, FreshTicket, FreshPub
    <2> QED BY <2>4, <2>5
  <1>7. CASE SayEvent(t)
    <2>1. CASE token # t
      <3>1. (Hearing \/ Saying)' => stream'[token] = stream[token]
        BY <1>0, <1>7, <2>1, HotBounds DEF SayEvent, Hearing, Saying, Streams
      <3>2. Loses
        BY <1>7, <2>1 DEF SayEvent, Loses
      <3> QED BY <1>0, <1>7, <2>1, <3>1, <3>2, LosingKeepsFresh DEF SayEvent, account
    <2>2. CASE token = t
      <3> DEFINE mode == Head(stream[t].news).kind = "mode"
      <3>1. MoveGeneration(mode) /\ truth' = truth /\ token' = token /\ cache' = cache
        BY <1>7, <2>2 DEF SayEvent, account
      <3>2. /\ ~hot'.current /\ (mode => modes' = 0) /\ (modes' = modes \/ modes' = 0)
            /\ hot'.pc = hot.pc /\ hot'.got = hot.got /\ hot'.cached = hot.cached
        BY <3>1 DEF MoveGeneration, TypeOK, Refresh
      <3>3. stream'[t] = [stream[t] EXCEPT !.pc = "event"]
        BY <1>0, <1>7, <2>2 DEF SayEvent, Move
      <3>4. /\ Hearing /\ stream'[t].news = stream[t].news
            /\ Unsaid(stream[t]) = stream[t].news /\ Unsaid(stream'[t]) = Tail(stream[t].news)
        BY <1>0, <1>7, <2>2, <3>3 DEF SayEvent, Hearing, Streams, Unsaid, Connection
      <3>5. FreshModes'
        <4>1. ~mode => (UpTo(truth, "mode", modes, stream[t].news)
                          => UpTo(truth, "mode", modes, Tail(stream[t].news)))
          BY <1>0, <1>7, UpToTail, KindsAre DEF SayEvent
        <4> QED BY <2>2, <3>1, <3>2, <3>4, <4>1 DEF Fresh, FreshModes
      <3>6. FreshRead'
        BY <3>2 DEF FreshRead
      <3>7. FreshTicket' /\ FreshPub'
        BY <2>2, <3>1, <3>2, <3>4 DEF FreshTicket, FreshPub
      <3> QED BY <3>5, <3>6, <3>7 DEF Fresh
    <2> QED BY <2>1, <2>2
  <1>8. CASE FinishEvent(t)
    <2>1. token = t /\ token # 0 /\ stream[t].pc = "event"
      BY <1>8 DEF FinishEvent, Callbacks, Streams
    <2>2. ~cache'.ticket /\ cache'.pub = None
      BY <1>8, InvalidateLoses DEF FinishEvent, TypeOK
    <2>3. stream'[t] = [stream[t] EXCEPT !.pc = "up", !.news = Tail(stream[t].news)]
      BY <1>0, <1>8 DEF FinishEvent
    <2>4. Hearing /\ Unsaid(stream[t]) = Tail(stream[t].news)
          /\ Unsaid(stream'[t]) = Tail(stream[t].news)
      BY <1>0, <2>1, <2>3 DEF Hearing, Unsaid, Connection
    <2>5. UNCHANGED <<truth, token, modes, hot>>
      BY <1>8 DEF FinishEvent
    <2> QED BY <2>1, <2>2, <2>4, <2>5
        DEF Fresh, FreshModes, FreshRead, FreshTicket, FreshPub
  <1> QED BY <1>2, <1>3, <1>4, <1>5, <1>6, <1>7, <1>8 DEF Stream

\* The refresh reads, keeps and publishes.
RefreshStep ==
    \/ Capture
    \/ \E k \in Kind : Get(k)
    \/ Join /\ hot.current
    \/ Publish /\ ~hot.old /\ cache.ticket

LEMMA RefreshKeepsFresh ==
  ASSUME Inv, RefreshStep
  PROVE Fresh'
  <1> USE DEF Inv
  <1>0. /\ hot \in Refresh /\ hot.got \in Snapshot /\ cache \in Cache /\ truth \in Snapshot
        /\ modes \in Version /\ hot.cached \in Version /\ Fresh
        /\ \A k \in Kind : hot.got[k] \in Version /\ truth[k] \in Version
    BY DEF TypeOK, Refresh, Fresh, Snapshot
  <1>1. UNCHANGED <<truth, token, stream>> /\ (Hearing' <=> Hearing) /\ (Saying' <=> Saying)
    BY DEF RefreshStep, Capture, Get, Join, Publish, account, link, Hearing, Saying
  <1>2. ASSUME Hearing, NEW k \in Kind, NEW v \in Version, UpTo(truth, k, v, Unsaid(stream[token]))
        PROVE UpTo(truth, k, v, stream[token].news)
    <2>1. token \in Streams
      BY <1>2, HotBounds DEF Hearing, TypeOK, Streams
    <2>2. CASE stream[token].pc = "event"
      BY <1>0, <1>2, <2>1, <2>2, NewsIsTyped, UpToTail DEF Unsaid, Callbacks
    <2>3. CASE stream[token].pc # "event"
      BY <1>2, <2>3 DEF Unsaid
    <2> QED BY <2>2, <2>3
  <1>3. CASE Capture
    <2>1. /\ modes' = modes \/ modes' = 0
          /\ hot'.cached = modes' /\ hot'.pc = "read"
          /\ \A k \in Kind : hot'.got[k] = 0
          /\ cache' = cache
      BY <1>0, <1>3, NoneIsTyped DEF Capture, Refresh, Tickets
    <2>2. FreshModes' /\ FreshRead'
      BY <1>0, <1>1, <2>1 DEF Fresh, FreshModes, FreshRead
    <2>3. FreshTicket'
      BY <1>0, <1>1, <1>2, <2>1, KindsAre DEF Fresh, FreshModes, FreshTicket
    <2>4. FreshPub'
      BY <1>0, <1>1, <2>1 DEF Fresh, FreshPub
    <2> QED BY <2>2, <2>3, <2>4 DEF Fresh
  <1>4. ASSUME NEW k \in Kind, Get(k) PROVE Fresh'
    <2> DEFINE v == IF k = "mode" /\ hot.cached # 0 THEN hot.cached ELSE truth[k]
    <2>1. /\ UNCHANGED <<modes, cache>>
          /\ hot'.pc = "read" /\ hot.pc = "read" /\ hot'.cached = hot.cached /\ hot'.current = hot.current
          /\ hot'.got[k] = v
          /\ \A j \in Kind : j # k => hot'.got[j] = hot.got[j]
      BY <1>0, <1>4 DEF Get, Refresh, Snapshot
    <2>2. \A news : UpTo(truth, k, truth[k], news)
      BY <1>0, UpToNow
    <2>3. FreshModes' /\ FreshPub'
      BY <1>0, <1>1, <2>1 DEF Fresh, FreshModes, FreshPub
    <2>4. FreshRead'
      BY <1>0, <1>1, <2>1, <2>2 DEF Fresh, FreshRead
    <2>5. FreshTicket'
      BY <1>0, <1>1, <2>1, <2>2 DEF Fresh, FreshTicket
    <2> QED BY <2>3, <2>4, <2>5 DEF Fresh
  <1>5. CASE Join /\ hot.current
    <2>1. /\ cache' = cache /\ hot.pc = "read" /\ hot.current
          /\ hot'.pc = "publish" /\ hot'.cached = hot.cached /\ hot'.got = hot.got
          /\ modes' = modes \/ modes' = hot.got["mode"]
      BY <1>0, <1>5 DEF Join, AllRead, Refresh
    <2>2. FreshModes'
      BY <1>0, <1>1, <2>1, KindsAre DEF Fresh, FreshModes, FreshRead
    <2>3. FreshRead' /\ FreshTicket' /\ FreshPub'
      BY <1>0, <1>1, <2>1 DEF Fresh, FreshRead, FreshTicket, FreshPub
    <2> QED BY <2>2, <2>3 DEF Fresh
  <1>6. CASE Publish /\ ~hot.old /\ cache.ticket
    <2>1. /\ modes' = modes /\ hot.pc = "publish" /\ hot'.pc = "done"
          /\ cache'.pub = hot.got /\ cache.ticket
      BY <1>0, <1>6 DEF Publish, Refresh, Cache
    <2>2. FreshModes' /\ FreshRead' /\ FreshTicket'
      BY <1>0, <1>1, <2>1 DEF Fresh, FreshModes, FreshRead, FreshTicket
    <2>3. FreshPub'
      BY <1>0, <1>1, <2>1 DEF Fresh, FreshPub, FreshTicket, Tickets
    <2> QED BY <2>2, <2>3 DEF Fresh
  <1> QED BY <1>3, <1>4, <1>5, <1>6 DEF RefreshStep

\* All the other steps lose, or move the link.
LEMMA FreshKept == Inv /\ Next => Fresh'
  <1> SUFFICES ASSUME Inv, Next PROVE Fresh'
    OBVIOUS
  <1>0. TypeOK /\ Callbacks /\ Tickets /\ Fresh
    BY DEF Inv, Fresh
  <1>1. ASSUME NEW k \in Kind, Outside(k) PROVE Fresh'
    BY <1>0, <1>1, ChangeKeepsFresh DEF Outside
  <1>2. CASE Land
    BY <1>0, <1>2, ChangeKeepsFresh DEF Land, TypeOK, Batch
  <1>3. ASSUME NEW t \in Streams, Stream(t) \/ Lose(t) PROVE Fresh'
    BY <1>3, StreamKeepsFresh
  <1>4. CASE LosingStep
    BY <1>0, <1>4, LosingStepLoses, LosingKeepsFresh
  <1>5. CASE RefreshStep
    BY <1>5, RefreshKeepsFresh
  <1>6. CASE Stop
    <2>1. ~Hearing' /\ ~Saying'
      BY <1>6 DEF Stop, Hearing, Saying
    <2> QED BY <2>1 DEF Fresh, FreshModes, FreshRead, FreshTicket, FreshPub
  <1>7. CASE Start
    <2>0. hot'.pc = "begin" /\ UNCHANGED <<truth, modes, cache>>
      BY <1>0, <1>7 DEF Start, account, TypeOK, Refresh
    <2>1. Loses
      BY <2>0 DEF Loses
    <2>2. (token' = token /\ stream' = stream) \/ ~(Hearing \/ Saying)'
      <3>1. ASSUME NEW t \in Streams, token' = t, Move(t, "dial") PROVE ~(Hearing \/ Saying)'
        BY <1>0, <3>1 DEF Move, Hearing, Saying, TypeOK, Connection
      <3> QED BY <1>7, <3>1 DEF Start, link
    <2> QED BY <1>0, <2>0, <2>1, <2>2, LosingKeepsFresh
  <1>8. CASE FinishWrite \/ AnswerWrite
    <2>1. Loses /\ UNCHANGED <<truth, token, stream>>
      <3>1. CASE FinishWrite
        BY <1>0, <3>1, InvalidateLoses DEF FinishWrite, Loses, link, TypeOK
      <3>2. CASE AnswerWrite
        BY <1>0, <3>2, MoveLoses DEF AnswerWrite, account, link
      <3> QED BY <1>8, <3>1, <3>2
    <2> QED BY <1>0, <2>1, LosingKeepsFresh
  <1>9. Join => (Join /\ ~hot.current) \/ (Join /\ hot.current)
    OBVIOUS
  <1>10. Publish => (Publish /\ (hot.old \/ ~cache.ticket)) \/ (Publish /\ ~hot.old /\ cache.ticket)
    OBVIOUS
  <1> QED BY <1>1, <1>2, <1>3, <1>4, <1>5, <1>6, <1>7, <1>8, <1>9, <1>10
      DEF Next, Worker, Trader, LosingStep, RefreshStep

-----------------------------------------------------------------------------
(* What the program was told is included *)

\* Nothing more is said: a stream keeps what it says, or stops saying it.
LEMMA SayingNoMore ==
  ASSUME known' = known,
         \A t \in Streams :
           /\ stream'[t].pc = "event" =>
                stream[t].pc = "event" /\ Head(stream'[t].news) = Head(stream[t].news)
           /\ stream'[t].pc = "state" /\ stream'[t].says = "up" =>
                /\ stream[t].pc = "state" /\ stream[t].says = "up"
                /\ stream'[t].since = stream[t].since,
         trader'.pc = "finish" =>
           \/ trader.pc = "finish" /\ trader'.landed = trader.landed
           \/ trader'.landed["mode"] = 0
  PROVE \A v \in Version : Includes(v) => Includes(v)'
  <1>1. \A v \in Version : 0 <= v
    BY DEF Version
  <1> QED BY <1>1 DEF Includes

\* What is merged into what is known was included before.
LEMMA MergingIncludes ==
  ASSUME NEW a \in Snapshot, known \in Snapshot, known' = Merge(known, a),
         NEW v \in Version, known["mode"] <= v, a["mode"] <= v
  PROVE known'["mode"] <= v
  BY KindsAre DEF Merge, Snapshot

LEMMA ChangeKeepsTold ==
  ASSUME TypeOK, Callbacks, Told, NEW k \in Kind, Change(k),
         UNCHANGED <<known, modes, cache, hot>>, trader'.pc = "finish" => trader' = trader
  PROVE Told'
  <1>1. ASSUME NEW t \in Streams
        PROVE /\ stream'[t].pc = stream[t].pc /\ stream'[t].says = stream[t].says
              /\ stream'[t].since = stream[t].since
              /\ stream[t].pc = "event" => Head(stream'[t].news) = Head(stream[t].news)
    <2> DEFINE item == [kind |-> k, n |-> truth[k] + 1]
    <2>1. stream'[t] = stream[t] \/ stream'[t] = [stream[t] EXCEPT !.news = Append(@, item)]
      BY DEF Change
    <2>2. stream[t] \in Connection /\ stream[t].news \in Seq(News) /\ item \in News
      BY NewsIsTyped, ChangeIsTyped
    <2>3. stream[t].pc = "event" => Head(Append(stream[t].news, item)) = Head(stream[t].news)
      BY <2>2, TailOfAppend DEF Callbacks
    <2> QED BY <2>1, <2>2, <2>3 DEF Connection
  <1>2. \A v \in Version : Includes(v) => Includes(v)'
    BY <1>1 DEF Includes
  <1>3. Loses
    BY DEF Loses
  <1> QED BY <1>2, <1>3, LosingKeepsTold

LEMMA StreamKeepsTold ==
  ASSUME Inv, NEW t \in Streams, Stream(t) \/ Lose(t)
  PROVE Told'
  <1> USE DEF Inv
  <1>0. /\ stream \in [Streams -> Connection] /\ stream[t] \in Connection /\ Told
        /\ stream[t].news \in Seq(News) /\ modes \in Version /\ known \in Snapshot
        /\ hot \in Refresh /\ cache \in Cache
    BY NewsIsTyped DEF TypeOK, Told
  <1>1. ASSUME UNCHANGED <<known, trader>>, UNCHANGED <<modes, cache, hot>>,
               \A u \in Streams : u # t => stream'[u] = stream[u],
               stream'[t].pc # "event", ~(stream'[t].pc = "state" /\ stream'[t].says = "up")
        PROVE Told'
    <2>1. Loses
      BY <1>1 DEF Loses
    <2>2. \A v \in Version : Includes(v) => Includes(v)'
      BY <1>0, <1>1, SayingNoMore
    <2> QED BY <1>0, <1>1, <2>1, <2>2, LosingKeepsTold
  <1>2. CASE Dial(t)
    BY <1>0, <1>1, <1>2 DEF Dial, account
  <1>3. CASE Lose(t)
    BY <1>0, <1>1, <1>3 DEF Lose
  <1>4. CASE End(t)
    BY <1>0, <1>1, <1>4 DEF End, account
  <1>5. ASSUME NEW up \in BOOLEAN, SayState(t, up) PROVE Told'
    <2>1. CASE token # t
      <3>1. /\ stream'[t].pc \in {"up", "dial"} /\ UNCHANGED <<known, trader, modes, cache, hot>>
            /\ \A u \in Streams : u # t => stream'[u] = stream[u]
        BY <1>0, <1>5, <2>1 DEF SayState, Move, account, Connection
      <3> QED BY <1>1, <3>1
    <2>2. CASE token = t /\ up
      <3>1. MoveGeneration(TRUE)
        <4>1. token # 0 /\ stream[token].pc = "open"
          BY <1>5, <2>2, StreamsAreNumbered DEF SayState
        <4>2. told # "up"
          BY <4>1 DEF Callbacks
        <4> QED BY <1>5, <2>2, <4>2 DEF SayState
      <3>2. modes' = 0 /\ ~hot'.current /\ UNCHANGED <<hot.pc, hot.got, hot.cached>>
        BY <1>0, <3>1 DEF MoveGeneration, Refresh
      <3>3. UNCHANGED <<known, cache>>
        BY <1>5 DEF SayState, account
      <3> QED BY <1>0, <3>2, <3>3 DEF Told, ToldModes, ToldTicket, ToldPub
    <2>3. CASE token = t /\ ~up
      <3>1. Loses
        <4>1. UNCHANGED cache
          BY <1>5 DEF SayState
        <4> QED BY <1>5, <2>3, <4>1, MoveLoses DEF SayState, Loses
      <3>2. stream' = [stream EXCEPT ![t] = [stream[t] EXCEPT !.pc = "state", !.says = "down"]]
        BY <1>5, <2>3 DEF SayState
      <3>3. UNCHANGED <<known, trader>>
        BY <1>5 DEF SayState, account
      <3>4. \A v \in Version : Includes(v) => Includes(v)'
        BY <1>0, <3>2, <3>3, SayingNoMore DEF Connection
      <3> QED BY <1>0, <3>1, <3>3, <3>4, LosingKeepsTold
    <2> QED BY <2>1, <2>2, <2>3
  <1>6. ASSUME FinishState(t) \/ FinishEvent(t) PROVE Told'
    <2>1. ~cache'.ticket /\ cache'.pub = None
      <3>1. [cache EXCEPT !.connected = (stream[t].says = "up")] \in Cache
        BY <1>0 DEF Cache
      <3> QED BY <1>0, <1>6, <3>1, InvalidateLoses DEF FinishState, FinishEvent
    <2>2. Loses
      BY <1>6, <2>1 DEF FinishState, FinishEvent, Loses
    <2>3. /\ trader' = trader
          /\ \A u \in Streams : u # t => stream'[u] = stream[u]
          /\ stream'[t].pc \in {"up", "dial"}
      <3>1. CASE FinishState(t)
        BY <1>0, <3>1 DEF FinishState, Move, Connection
      <3>2. CASE FinishEvent(t)
        BY <1>0, <3>2 DEF FinishEvent, Connection
      <3> QED BY <1>6, <3>1, <3>2
    <2>4. ASSUME NEW v \in Version, Includes(v) PROVE known'["mode"] <= v
      <3>1. CASE FinishState(t)
        <4>1. stream[t].since \in Snapshot
          BY <1>0 DEF Connection
        <4> QED BY <1>0, <2>4, <3>1, <4>1, MergingIncludes DEF FinishState, Includes
      <3>2. CASE FinishEvent(t)
        <4> DEFINE n == Head(stream[t].news)
                   a == [None EXCEPT ![n.kind] = n.n]
        <4>1. stream[t].news # <<>> /\ stream[t].pc = "event"
          BY <3>2 DEF FinishEvent, Callbacks
        <4>2. n.kind \in Kind /\ n.n \in Version
          BY <4>1, NewsIsTyped
        <4>3. a \in Snapshot /\ (n.kind = "mode" => a["mode"] = n.n) /\ (n.kind # "mode" => a["mode"] = 0)
          BY <4>2, NoneIsTyped, KindsAre DEF Snapshot
        <4>4. a["mode"] <= v
          BY <2>4, <4>1, <4>3 DEF Includes, Version
        <4>5. known' = Merge(known, a)
          BY <3>2 DEF FinishEvent
        <4> HIDE DEF a
        <4> QED BY <1>0, <2>4, <4>3, <4>4, <4>5, MergingIncludes DEF Includes
      <3> QED BY <1>6, <3>1, <3>2
    <2>5. \A v \in Version : Includes(v) => Includes(v)'
      BY <1>0, <2>3, <2>4 DEF Includes
    <2> QED BY <1>0, <2>1, <2>2, <2>5, LosingKeepsTold
  <1>7. CASE SayEvent(t)
    <2>1. CASE token # t
      <3>1. stream'[t].pc = "up" /\ UNCHANGED <<modes, hot, cache, known, trader>>
        BY <1>0, <1>7, <2>1 DEF SayEvent, account, Connection
      <3> QED BY <1>0, <1>1, <1>7, <2>1, <3>1 DEF SayEvent
    <2>2. CASE token = t
      <3> DEFINE n == Head(stream[t].news)
      <3>1. MoveGeneration(n.kind = "mode") /\ UNCHANGED <<known, cache, trader>>
        BY <1>7, <2>2 DEF SayEvent, account
      <3>2. /\ ~hot'.current /\ (n.kind = "mode" => modes' = 0) /\ (modes' = modes \/ modes' = 0)
            /\ hot'.pc = hot.pc /\ hot'.got = hot.got /\ hot'.cached = hot.cached
        BY <1>0, <3>1 DEF MoveGeneration, Refresh
      <3>3. stream' = [stream EXCEPT ![t] = [stream[t] EXCEPT !.pc = "event"]]
        BY <1>0, <1>7, <2>2 DEF SayEvent, Move
      <3>4. stream'[t].news = stream[t].news /\ stream'[t].pc = "event"
            /\ \A u \in Streams : u # t => stream'[u] = stream[u]
        BY <1>0, <3>3 DEF Connection
      <3>5. n.kind # "mode" => \A v \in Version : Includes(v) => Includes(v)'
        BY <3>1, <3>4 DEF Includes
      <3>6. ToldModes'
        BY <1>0, <3>2, <3>5 DEF Told, ToldModes
      <3>7. ToldTicket' /\ ToldPub'
        BY <1>0, <3>1, <3>2 DEF Told, ToldTicket, ToldPub
      <3> QED BY <3>6, <3>7 DEF Told
    <2> QED BY <2>1, <2>2
  <1> QED BY <1>2, <1>3, <1>4, <1>5, <1>6, <1>7 DEF Stream

\* The account as it is includes all that anyone can say.
LEMMA TruthIncludes == Inv => Includes(truth["mode"])
  <1> SUFFICES ASSUME Inv PROVE Includes(truth["mode"])
    OBVIOUS
  <1>1. ASSUME NEW t \in Streams, stream[t].pc = "event", Head(stream[t].news).kind = "mode"
        PROVE Head(stream[t].news).n <= truth["mode"]
    <2>1. stream[t].news \in Seq(News) /\ stream[t].news # <<>>
      BY <1>1, NewsIsTyped DEF Inv, Callbacks
    <2>2. 1 \in DOMAIN stream[t].news /\ Head(stream[t].news) = stream[t].news[1]
      BY <2>1, HeadTailProperties, EmptySeq, LenProperties
    <2> QED BY <1>1, <2>2 DEF Inv, Honest
  <1> QED BY <1>1, KindsAre DEF Inv, Honest, Includes

LEMMA RefreshKeepsTold ==
  ASSUME Inv, RefreshStep
  PROVE Told'
  <1> USE DEF Inv
  <1>0. /\ hot \in Refresh /\ hot.got \in Snapshot /\ cache \in Cache /\ truth \in Snapshot
        /\ modes \in Version /\ hot.cached \in Version /\ Told
        /\ \A k \in Kind : hot.got[k] \in Version /\ truth[k] \in Version
    BY DEF TypeOK, Refresh, Told, Snapshot
  <1>1. UNCHANGED <<truth, known, stream, trader>>
    BY DEF RefreshStep, Capture, Get, Join, Publish, account, link
  <1>2. \A v : Includes(v) => Includes(v)'
    BY <1>1 DEF Includes
  <1>3. CASE Capture
    <2>1. /\ modes' = modes \/ modes' = 0
          /\ hot'.cached = modes' /\ hot'.pc = "read"
          /\ \A k \in Kind : hot'.got[k] = 0
          /\ cache' = cache
      BY <1>0, <1>3, NoneIsTyped DEF Capture, Refresh, Tickets
    <2>2. ToldModes'
      BY <1>0, <1>2, <2>1, KindsAre DEF Told, ToldModes
    <2>3. ToldTicket'
      BY <1>0, <1>1, <2>1 DEF Told, ToldModes, ToldTicket, Includes
    <2>4. ToldPub'
      BY <1>0, <1>1, <2>1 DEF Told, ToldPub
    <2> QED BY <2>2, <2>3, <2>4 DEF Told
  <1>4. ASSUME NEW k \in Kind, Get(k) PROVE Told'
    <2> DEFINE v == IF k = "mode" /\ hot.cached # 0 THEN hot.cached ELSE truth[k]
    <2>1. /\ UNCHANGED <<modes, cache>>
          /\ hot'.pc = "read" /\ hot.pc = "read" /\ hot'.cached = hot.cached /\ hot'.current = hot.current
          /\ hot'.got[k] = v
          /\ \A j \in Kind : j # k => hot'.got[j] = hot.got[j]
      BY <1>0, <1>4 DEF Get, Refresh, Snapshot
    <2>2. Includes(truth["mode"]) /\ known[k] <= truth[k]
      BY TruthIncludes DEF Honest
    <2>3. ToldPub'
      BY <1>0, <1>1, <2>1 DEF Told, ToldPub
    <2>4. ToldModes'
      BY <1>0, <1>2, <2>1, <2>2, KindsAre DEF Told, ToldModes
    <2>5. ToldTicket'
      BY <1>0, <1>1, <2>1, <2>2 DEF Told, ToldTicket
    <2> QED BY <2>3, <2>4, <2>5 DEF Told
  <1>5. CASE Join /\ hot.current
    <2>1. /\ cache' = cache /\ hot.pc = "read" /\ hot.current
          /\ hot'.pc = "publish" /\ hot'.cached = hot.cached /\ hot'.got = hot.got
          /\ modes' = modes \/ modes' = hot.got["mode"]
      BY <1>0, <1>5 DEF Join, AllRead, Refresh
    <2>2. ToldModes'
      BY <1>0, <1>2, <2>1 DEF Told, ToldModes
    <2>3. ToldTicket' /\ ToldPub'
      BY <1>0, <1>1, <2>1 DEF Told, ToldTicket, ToldPub
    <2> QED BY <2>2, <2>3 DEF Told
  <1>6. CASE Publish /\ ~hot.old /\ cache.ticket
    <2>1. /\ modes' = modes /\ hot.pc = "publish" /\ hot'.pc = "done"
          /\ cache'.pub = hot.got /\ cache.ticket
      BY <1>0, <1>6 DEF Publish, Refresh, Cache
    <2>2. ToldModes' /\ ToldTicket'
      BY <1>0, <1>2, <2>1 DEF Told, ToldModes, ToldTicket
    <2>3. ToldPub'
      BY <1>0, <1>1, <2>1 DEF Told, ToldPub, ToldTicket, Tickets
    <2> QED BY <2>2, <2>3 DEF Told
  <1> QED BY <1>3, <1>4, <1>5, <1>6 DEF RefreshStep

LEMMA ToldKept == Inv /\ Next => Told'
  <1> SUFFICES ASSUME Inv, Next PROVE Told'
    OBVIOUS
  <1>0. TypeOK /\ Callbacks /\ Tickets /\ Honest /\ Told
    BY DEF Inv, Told
  <1>1. ASSUME NEW k \in Kind, Outside(k) PROVE Told'
    BY <1>0, <1>1, ChangeKeepsTold DEF Outside
  <1>2. CASE Land
    <2>1. trader'.pc = "answered" /\ trader.kind \in Kind
      BY <1>0, <1>2 DEF Land, TypeOK, Batch
    <2> QED BY <1>0, <1>2, <2>1, ChangeKeepsTold DEF Land
  <1>3. ASSUME NEW t \in Streams, Stream(t) \/ Lose(t) PROVE Told'
    BY <1>3, StreamKeepsTold
  <1>4. CASE LosingStep
    <2>1. Loses /\ UNCHANGED <<truth, known, token, told, stream>>
      BY <1>0, <1>4, LosingStepLoses
    <2>2. trader'.pc = "finish" => trader' = trader
      <3>1. CASE Age \/ Control \/ FinishControl \/ BeginRefresh \/ GetFails \/ Done
        BY <3>1 DEF Age, Control, FinishControl, BeginRefresh, GetFails, Done
      <3>2. CASE Discard("begin") \/ Discard("done") \/ Join \/ Publish
        BY <3>2 DEF Discard, Join, Publish
      <3>3. CASE SaveBatch \/ Admit \/ Refuse \/ StartWrite \/ SendWrite \/ Settle \/ TakeLease
        <4>1. trader \in Batch
          BY <1>0 DEF TypeOK
        <4>2. CASE SaveBatch \/ Admit \/ StartWrite \/ SendWrite
          BY <4>1, <4>2 DEF SaveBatch, Admit, StartWrite, SendWrite, Batch
        <4>3. CASE Refuse \/ Settle
          BY <4>3 DEF Refuse, Settle, Idle
        <4>4. CASE TakeLease
          BY <4>1, <4>4 DEF TakeLease, Batch
        <4> QED BY <3>3, <4>2, <4>3, <4>4
      <3> QED BY <1>4, <3>1, <3>2, <3>3 DEF LosingStep
    <2>3. \A v \in Version : Includes(v) => Includes(v)'
      BY <2>1, <2>2, SayingNoMore
    <2> QED BY <1>0, <2>1, <2>3, LosingKeepsTold
  <1>5. CASE RefreshStep
    BY <1>5, RefreshKeepsTold
  <1>6. CASE Stop
    <2>1. Loses /\ UNCHANGED <<known, stream, trader>>
      <3>1. [cache EXCEPT !.connected = FALSE] \in Cache
        BY <1>0 DEF TypeOK, Cache
      <3> QED BY <1>0, <1>6, <3>1, InvalidateLoses DEF Stop, Loses, account
    <2>2. \A v \in Version : Includes(v) => Includes(v)'
      BY <2>1, SayingNoMore
    <2> QED BY <1>0, <2>1, <2>2, LosingKeepsTold
  <1>7. CASE Start
    <2>0. hot'.pc = "begin" /\ UNCHANGED <<known, trader, modes, cache>>
      BY <1>0, <1>7 DEF Start, account, TypeOK, Refresh
    <2>1. Loses
      BY <2>0 DEF Loses
    <2>2. \A v \in Version : Includes(v) => Includes(v)'
      <3>1. stream' = stream \/ \E t \in Streams : Move(t, "dial")
        BY <1>7 DEF Start, link
      <3> QED BY <1>0, <2>0, <3>1, SayingNoMore DEF Move, TypeOK, Connection
    <2> QED BY <1>0, <2>0, <2>1, <2>2, LosingKeepsTold
  <1>8. CASE AnswerWrite
    <2>1. MoveGeneration(trader.kind = "mode") /\ UNCHANGED <<known, stream, cache>>
          /\ trader'.landed = trader.landed
      BY <1>0, <1>8 DEF AnswerWrite, account, link, TypeOK, Batch
    <2>2. Loses /\ ~hot'.current /\ (trader.kind = "mode" => modes' = 0)
          /\ UNCHANGED <<hot.pc, hot.got, hot.cached>>
      BY <1>0, <2>1, MoveLoses
    <2>3. trader.kind # "mode" => trader.landed["mode"] = 0
      BY <1>0, KindsAre DEF Honest
    <2>4. trader.kind # "mode" => \A v \in Version : Includes(v) => Includes(v)'
      BY <2>1, <2>3, SayingNoMore
    <2>5. ToldModes'
      BY <1>0, <2>2, <2>4 DEF Told, ToldModes, Loses, TypeOK
    <2>6. ToldTicket' /\ ToldPub'
      BY <1>0, <2>1, <2>2 DEF Told, ToldTicket, ToldPub
    <2> QED BY <2>5, <2>6 DEF Told
  <1>9. CASE FinishWrite
    <2>1. ~cache'.ticket /\ cache'.pub = None
      BY <1>0, <1>9, InvalidateLoses DEF FinishWrite, TypeOK
    <2>2. Loses /\ stream' = stream /\ trader'.pc = "settle" /\ known' = Merge(known, trader.landed)
          /\ trader.pc = "finish"
      BY <1>0, <1>9, <2>1 DEF FinishWrite, Loses, link, TypeOK, Batch
    <2>3. ASSUME NEW v \in Version, Includes(v) PROVE Includes(v)'
      <3>1. known \in Snapshot /\ trader.landed \in Snapshot
        BY <1>0 DEF TypeOK, Batch
      <3>2. known'["mode"] <= v
        BY <2>2, <2>3, <3>1, MergingIncludes DEF Includes
      <3> QED BY <2>2, <2>3, <3>2 DEF Includes
    <2> QED BY <1>0, <2>1, <2>2, <2>3, LosingKeepsTold
  <1>10. Join => (Join /\ ~hot.current) \/ (Join /\ hot.current)
    OBVIOUS
  <1>11. Publish => (Publish /\ (hot.old \/ ~cache.ticket)) \/ (Publish /\ ~hot.old /\ cache.ticket)
    OBVIOUS
  <1> QED BY <1>1, <1>2, <1>3, <1>4, <1>5, <1>6, <1>7, <1>8, <1>9, <1>10, <1>11
      DEF Next, Worker, Trader, LosingStep, RefreshStep

-----------------------------------------------------------------------------
(* What may be said has happened *)

LEMMA HonestKept == Inv /\ Next => Honest'
  <1> SUFFICES ASSUME Inv, Next PROVE Honest'
    OBVIOUS
  <1>0. /\ TypeOK /\ Honest /\ Callbacks
        /\ stream \in [Streams -> Connection] /\ truth \in Snapshot /\ known \in Snapshot
        /\ trader \in Batch /\ trader.landed \in Snapshot
        /\ \A k \in Kind : truth[k] \in Nat /\ known[k] \in Nat /\ trader.landed[k] \in Nat
    BY DEF Inv, TypeOK, Batch, Snapshot, Version
  \* One more change at the exchange, and all the rest is as true as before.
  <1>1. ASSUME NEW k \in Kind, Change(k), known' = known
        PROVE /\ \A j \in Kind : 1 <= truth'[j] /\ known'[j] <= truth'[j] /\ truth[j] <= truth'[j]
              /\ \A t \in Streams :
                   /\ \A j \in Kind : stream'[t].since[j] <= truth'[j]
                   /\ \A i \in DOMAIN stream'[t].news : stream'[t].news[i].n <= truth'[stream'[t].news[i].kind]
    <2> DEFINE item == [kind |-> k, n |-> truth[k] + 1]
    <2>1. /\ \A j \in Kind : truth'[j] = IF j = k THEN truth[k] + 1 ELSE truth[j]
          /\ item \in News
      BY <1>0, <1>1, ChangeIsTyped DEF Change, Snapshot
    <2>2. \A j \in Kind : 1 <= truth'[j] /\ known'[j] <= truth'[j] /\ truth[j] <= truth'[j] /\ truth'[j] \in Nat
      BY <1>0, <1>1, <2>1 DEF Honest
    <2>3. ASSUME NEW t \in Streams
          PROVE /\ \A j \in Kind : stream'[t].since[j] <= truth'[j]
                /\ \A i \in DOMAIN stream'[t].news : stream'[t].news[i].n <= truth'[stream'[t].news[i].kind]
      <3>1. stream'[t] = stream[t] \/ stream'[t] = [stream[t] EXCEPT !.news = Append(@, item)]
        BY <1>0, <1>1 DEF Change
      <3>2. stream[t] \in Connection /\ stream[t].news \in Seq(News) /\ stream[t].since \in Snapshot
        BY <1>0, NewsIsTyped DEF Connection
      <3>3. stream'[t].since = stream[t].since
            /\ (stream'[t].news = stream[t].news \/ stream'[t].news = Append(stream[t].news, item))
        BY <3>1, <3>2 DEF Connection
      <3>4. ASSUME NEW j \in Kind PROVE stream'[t].since[j] <= truth'[j]
        <4>1. stream[t].since[j] \in Nat /\ stream[t].since[j] <= truth[j]
          BY <1>0, <3>2 DEF Honest, Snapshot, Version
        <4> QED BY <1>0, <2>2, <3>3, <4>1
      <3>5. ASSUME NEW i \in DOMAIN stream[t].news
            PROVE stream[t].news[i].n <= truth'[stream[t].news[i].kind]
        <4>1. stream[t].news[i] \in News
          BY <3>2, LenProperties, ElementOfSeq
        <4>2. stream[t].news[i].kind \in Kind /\ stream[t].news[i].n \in Nat
              /\ stream[t].news[i].n <= truth[stream[t].news[i].kind]
          BY <1>0, <4>1 DEF Honest, News, Version
        <4> QED BY <1>0, <2>2, <4>2
      <3>6. ASSUME stream'[t].news = Append(stream[t].news, item), NEW i \in DOMAIN stream'[t].news
            PROVE stream'[t].news[i].n <= truth'[stream'[t].news[i].kind]
        <4>1. /\ Len(stream[t].news) \in Nat
              /\ DOMAIN stream[t].news = 1 .. Len(stream[t].news)
              /\ DOMAIN stream'[t].news = 1 .. Len(stream[t].news) + 1
              /\ \A j \in 1 .. Len(stream[t].news) : stream'[t].news[j] = stream[t].news[j]
              /\ stream'[t].news[Len(stream[t].news) + 1] = item
          BY <2>1, <3>2, <3>6, AppendProperties, LenProperties
        <4>2. CASE i = Len(stream[t].news) + 1
          <5>1. item.n <= truth'[item.kind]
            BY <1>0, <2>1
          <5> QED BY <4>1, <4>2, <5>1
        <4>3. CASE i # Len(stream[t].news) + 1
          <5>1. i \in 1 .. Len(stream[t].news)
            BY <3>6, <4>1, <4>3
          <5> QED BY <3>5, <4>1, <5>1
        <4> QED BY <4>2, <4>3
      <3> QED BY <3>3, <3>4, <3>5, <3>6
    <2> QED BY <2>2, <2>3
  <1>2. ASSUME NEW k \in Kind, Outside(k) PROVE Honest'
    <2>1. trader' = trader /\ known' = known
      BY <1>2 DEF Outside
    <2>2. \A j \in Kind : truth'[j] \in Nat
      BY <1>0, <1>2 DEF Outside, Change, Snapshot
    <2>3. \A j \in Kind : trader'.landed[j] <= truth'[j]
      BY <1>0, <1>1, <1>2, <2>1, <2>2 DEF Outside, Honest
    <2>4. Change(k)
      BY <1>2 DEF Outside
    <2> QED BY <1>0, <1>1, <2>1, <2>3, <2>4 DEF Honest
  <1>3. CASE Land
    <2>1. Change(trader.kind) /\ known' = known /\ trader.kind \in Kind
      BY <1>0, <1>3 DEF Land, Batch
    <2>2. trader' = [trader EXCEPT !.landed = [None EXCEPT ![trader.kind] = truth'[trader.kind]]]
      BY <1>3 DEF Land
    <2>3. \A j \in Kind : trader'.landed[j] = IF j = trader.kind THEN truth'[j] ELSE 0
      BY <1>0, <2>1, <2>2, NoneIsTyped DEF Batch, Snapshot
    <2>4. trader'.kind = trader.kind
      BY <1>0, <2>2 DEF Batch
    <2>5. \A j \in Kind : truth'[j] \in Nat
      BY <1>0, <2>1 DEF Change, Snapshot
    <2>6. \A j \in Kind : trader'.landed[j] <= truth'[j] /\ (trader'.landed[j] # 0 => j = trader'.kind)
      BY <2>3, <2>4, <2>5
    <2>7. trader'.pc = "answered"
      BY <1>0, <1>3, <2>2 DEF Land, Batch
    <2> QED BY <1>1, <2>1, <2>6, <2>7 DEF Honest
  \* The account stays; a stream has the news it had, or less.
  <1>4. ASSUME truth' = truth, \A k \in Kind : known'[k] <= truth[k],
               \A k \in Kind : trader'.landed[k] <= truth[k] /\ 
                  /\ (trader'.landed[k] # 0 =>
                       k = trader'.kind /\ trader'.pc \in {"answered", "finish", "settle"}),
               \A t \in Streams :
                 /\ stream'[t].since \in {stream[t].since, truth}
                 /\ \/ stream'[t].news \in {stream[t].news, <<>>}
                    \/ stream'[t].news = Tail(stream[t].news) /\ stream[t].news # <<>>
        PROVE Honest'
    <2>1. ASSUME NEW t \in Streams
          PROVE /\ \A k \in Kind : stream'[t].since[k] <= truth'[k]
                /\ \A i \in DOMAIN stream'[t].news : stream'[t].news[i].n <= truth'[stream'[t].news[i].kind]
      <3>1. \A k \in Kind : truth[k] <= truth[k]
        BY <1>0
      <3>2. \A k \in Kind : stream'[t].since[k] <= truth'[k]
        BY <1>0, <1>4, <3>1 DEF Honest
      <3>3. CASE stream'[t].news \in {stream[t].news, <<>>}
        BY <1>0, <1>4, <3>3 DEF Honest
      <3>4. CASE stream'[t].news = Tail(stream[t].news) /\ stream[t].news # <<>>
        <4>1. stream[t].news \in Seq(News)
          BY <1>0, NewsIsTyped
        <4>2. /\ Tail(stream[t].news) \in Seq(News)
              /\ Len(stream[t].news) \in Nat
              /\ Len(Tail(stream[t].news)) = Len(stream[t].news) - 1
              /\ \A i \in 1 .. Len(Tail(stream[t].news)) : Tail(stream[t].news)[i] = stream[t].news[i + 1]
              /\ DOMAIN stream[t].news = 1 .. Len(stream[t].news)
          BY <3>4, <4>1, HeadTailProperties, LenProperties
        <4>3. DOMAIN Tail(stream[t].news) = 1 .. Len(Tail(stream[t].news))
          BY <4>2, LenProperties
        <4>4. \A i \in DOMAIN Tail(stream[t].news) :
                 i + 1 \in DOMAIN stream[t].news /\ Tail(stream[t].news)[i] = stream[t].news[i + 1]
          BY <4>2, <4>3
        <4> QED BY <1>0, <1>4, <3>2, <3>4, <4>4 DEF Honest
      <3> QED BY <1>4, <3>2, <3>3, <3>4
    <2> QED BY <1>0, <1>4, <2>1 DEF Honest
  <1>5. ASSUME NEW t \in Streams, Stream(t) \/ Lose(t) PROVE Honest'
    <2>0. stream[t] \in Connection /\ stream[t].since \in Snapshot /\ stream[t].news \in Seq(News)
      BY <1>0, NewsIsTyped DEF Connection
    <2> DEFINE Less(u) ==
          /\ stream'[u].since \in {stream[u].since, truth}
          /\ \/ stream'[u].news \in {stream[u].news, <<>>}
             \/ stream'[u].news = Tail(stream[u].news) /\ stream[u].news # <<>>
    <2>1. truth' = truth /\ trader' = trader /\ (\A u \in Streams : u # t => stream'[u] = stream[u])
      <3>1. CASE Dial(t) \/ Lose(t) \/ End(t)
        BY <1>0, <3>1 DEF Dial, Lose, End, account
      <3>2. ASSUME NEW up \in BOOLEAN, SayState(t, up) 
            PROVE truth' = truth /\ trader' = trader /\ (\A u \in Streams : u # t => stream'[u] = stream[u])
        BY <1>0, <3>2, SayStateKeepsNews
      <3>3. CASE FinishState(t) \/ FinishEvent(t)
        BY <1>0, <3>3 DEF FinishState, FinishEvent, Move
      <3>4. CASE SayEvent(t)
        BY <1>0, <3>4 DEF SayEvent, Move, account
      <3> QED BY <1>5, <3>1, <3>2, <3>3, <3>4 DEF Stream
    <2>2. Less(t)
      <3>1. CASE Dial(t)
        BY <1>0, <2>0, <3>1 DEF Dial, Connection
      <3>2. CASE Lose(t) \/ End(t)
        BY <1>0, <2>0, <3>2 DEF Lose, End, Connection
      <3>3. ASSUME NEW up \in BOOLEAN, SayState(t, up) PROVE Less(t)
        BY <1>0, <3>3, SayStateKeepsNews
      <3>4. CASE FinishState(t)
        BY <1>0, <2>0, <3>4 DEF FinishState, Move, Connection
      <3>5. CASE SayEvent(t)
        <4>1. \/ stream' = [stream EXCEPT ![t] = [stream[t] EXCEPT !.news = Tail(@)]]
              \/ stream' = [stream EXCEPT ![t] = [stream[t] EXCEPT !.pc = "event"]]
          BY <1>0, <2>0, <3>5 DEF SayEvent, Move
        <4>2. stream[t].news # <<>>
          BY <3>5 DEF SayEvent
        <4> QED BY <1>0, <2>0, <4>1, <4>2 DEF Connection
      <3>6. CASE FinishEvent(t)
        <4>1. stream[t].news # <<>>
          BY <1>0, <3>6 DEF FinishEvent, Callbacks
        <4>2. stream' = [stream EXCEPT ![t] = [stream[t] EXCEPT !.pc = "up", !.news = Tail(stream[t].news)]]
          BY <1>0, <3>6 DEF FinishEvent
        <4> QED BY <1>0, <2>0, <4>1, <4>2 DEF Connection
      <3> QED BY <1>5, <3>1, <3>2, <3>3, <3>4, <3>5, <3>6 DEF Stream
    <2>3. \A k \in Kind : known'[k] <= truth[k]
      <3>1. CASE FinishState(t)
        <4>1. \A k \in Kind : stream[t].since[k] <= truth[k]
          BY <1>0 DEF Honest
        <4> QED BY <1>0, <3>1, <4>1 DEF FinishState, Merge, Honest
      <3>2. CASE FinishEvent(t)
        <4> DEFINE n == Head(stream[t].news)
                   a == [None EXCEPT ![n.kind] = n.n]
        <4>1. stream[t].news # <<>>
          BY <1>0, <3>2 DEF FinishEvent, Callbacks
        <4>2. n.kind \in Kind /\ n.n \in Nat /\ n.n <= truth[n.kind]
          <5>1. 1 \in DOMAIN stream[t].news /\ n = stream[t].news[1]
            BY <2>0, <4>1, HeadTailProperties, EmptySeq, LenProperties
          <5>2. n.kind \in Kind /\ n.n \in Nat
            BY <1>0, <4>1, NewsIsTyped DEF Version
          <5> QED BY <1>0, <5>1, <5>2 DEF Honest
        <4>3. \A k \in Kind : a[k] \in Nat /\ a[k] <= truth[k]
          BY <1>0, <4>2, NoneIsTyped DEF Snapshot, Honest
        <4>4. known' = Merge(known, a)
          BY <3>2 DEF FinishEvent
        <4> HIDE DEF a
        <4> QED BY <1>0, <4>3, <4>4 DEF Merge, Honest
      <3>3. CASE ~FinishState(t) /\ ~FinishEvent(t)
        <4>1. known' = known
          BY <1>5, <3>3 DEF Stream, Dial, Lose, End, SayState, SayEvent, account
        <4> QED BY <1>0, <4>1 DEF Honest
      <3> QED BY <3>1, <3>2, <3>3
    <2> QED BY <1>0, <1>4, <2>1, <2>2, <2>3 DEF Honest
  \* Any other step leaves the account and the streams as they are.
  \* Any other step leaves the account and the streams as they are; the trader
  \* goes on, or ends and forgets what its request did.
  <1>6. ASSUME truth' = truth, \A t \in Streams : stream'[t].news = stream[t].news /\ stream'[t].since = stream[t].since,
               \A k \in Kind : known'[k] <= truth[k],
               \/ trader' = trader
               \/ trader'.landed = None
               \/ /\ trader'.landed = trader.landed /\ trader'.kind = trader.kind
                  /\ trader'.pc \in {"answered", "finish", "settle"}
        PROVE Honest'
    BY <1>0, <1>6, NoneIsTyped DEF Honest
  <1>60. \A k \in Kind : known[k] <= truth[k]
    BY <1>0 DEF Honest
  <1>7. CASE LosingStep
    <2>1. UNCHANGED <<truth, known, stream>>
      BY <1>7, LosingStepLoses DEF Inv
    <2>2. trader.pc \notin {"answered", "finish", "settle"} => trader.landed = None
      BY <1>0 DEF Honest, Snapshot, None
    <2>3. \/ trader' = trader
          \/ trader'.landed = None
          \/ /\ trader'.landed = trader.landed /\ trader'.kind = trader.kind
             /\ trader'.pc \in {"answered", "finish", "settle"}
      <3>1. CASE Age \/ Control \/ FinishControl \/ BeginRefresh \/ GetFails \/ Done
        BY <3>1 DEF Age, Control, FinishControl, BeginRefresh, GetFails, Done
      <3>2. CASE Discard("begin") \/ Discard("done") \/ Join \/ Publish
        BY <3>2 DEF Discard, Join, Publish
      <3>3. CASE SaveBatch \/ Admit \/ StartWrite \/ SendWrite \/ TakeLease
        BY <1>0, <2>2, <3>3 DEF SaveBatch, Admit, StartWrite, SendWrite, TakeLease, Batch
      <3>4. CASE Refuse \/ Settle
        BY <3>4 DEF Refuse, Settle, Idle
      <3> QED BY <1>7, <3>1, <3>2, <3>3, <3>4 DEF LosingStep
    <2> QED BY <1>6, <1>60, <2>1, <2>3
  <1>8. CASE RefreshStep \/ Stop
    <2>1. UNCHANGED <<truth, known, stream, trader>>
      BY <1>8 DEF RefreshStep, Capture, Get, Join, Publish, Stop, account, link
    <2> QED BY <1>6, <1>60, <2>1
  <1>9. CASE Start
    <2>1. stream' = stream \/ \E t \in Streams : Move(t, "dial")
      BY <1>9 DEF Start, link
    <2>2. \A t \in Streams : stream'[t].news = stream[t].news /\ stream'[t].since = stream[t].since
      BY <1>0, <2>1 DEF Move, Connection
    <2> QED BY <1>6, <1>60, <1>9, <2>2 DEF Start, account
  <1>10. CASE AnswerWrite
    <2>1. trader'.landed = trader.landed /\ trader'.kind = trader.kind /\ trader'.pc = "finish"
      BY <1>0, <1>10 DEF AnswerWrite, Batch
    <2> QED BY <1>6, <1>60, <1>10, <2>1 DEF AnswerWrite, account, link
  <1>11. CASE FinishWrite
    <2>1. trader'.landed = trader.landed /\ trader'.kind = trader.kind /\ trader'.pc = "settle"
      BY <1>0, <1>11 DEF FinishWrite, Batch
    <2>2. \A k \in Kind : known'[k] <= truth[k]
      BY <1>0, <1>11 DEF FinishWrite, Merge, Honest
    <2> QED BY <1>6, <1>11, <2>1, <2>2 DEF FinishWrite, link
  <1>12. Join => (Join /\ ~hot.current) \/ (Join /\ hot.current)
    OBVIOUS
  <1>13. Publish => (Publish /\ (hot.old \/ ~cache.ticket)) \/ (Publish /\ ~hot.old /\ cache.ticket)
    OBVIOUS
  <1> QED BY <1>2, <1>3, <1>5, <1>7, <1>8, <1>9, <1>10, <1>11, <1>12, <1>13
      DEF Next, Worker, Trader, LosingStep, RefreshStep

-----------------------------------------------------------------------------
(* Callbacks, tickets and leases *)

LEMMA CallbacksKept == TypeOK /\ Callbacks /\ Next => Callbacks'
  <1> SUFFICES ASSUME TypeOK, Callbacks, Next PROVE Callbacks'
    OBVIOUS
  <1>0. stream \in [Streams -> Connection] /\ token \in 0 .. MaxStreams
    BY DEF TypeOK
  <1>00. token # 0 => token \in Streams
    BY <1>0, HotBounds DEF Streams
  \* The link stays, up to news that comes in.
  <1>1. ASSUME token' = token, told' = told,
               \A t \in Streams :
                 /\ stream'[t].pc = stream[t].pc /\ stream'[t].says = stream[t].says
                 /\ stream[t].news # <<>> => stream'[t].news # <<>>
        PROVE Callbacks'
    BY <1>00, <1>1 DEF Callbacks
  <1>2. ASSUME NEW k \in Kind, Change(k), UNCHANGED <<token, told>> PROVE Callbacks'
    <2> DEFINE item == [kind |-> k, n |-> truth[k] + 1]
    <2>1. ASSUME NEW t \in Streams
          PROVE /\ stream'[t].pc = stream[t].pc /\ stream'[t].says = stream[t].says
                /\ stream[t].news # <<>> => stream'[t].news # <<>>
      <3>1. stream'[t] = stream[t] \/ stream'[t] = [stream[t] EXCEPT !.news = Append(@, item)]
        BY <1>2 DEF Change
      <3>2. stream[t] \in Connection /\ stream[t].news \in Seq(News) /\ item \in News
        BY <1>2, NewsIsTyped, ChangeIsTyped
      <3>3. Append(stream[t].news, item) # <<>>
        BY <3>2, AppendProperties
      <3> QED BY <3>1, <3>2, <3>3 DEF Connection
    <2> QED BY <1>1, <1>2, <2>1
  <1>3. CASE (\E k \in Kind : Outside(k)) \/ Land
    BY <1>2, <1>3 DEF Outside, Land, TypeOK, Batch
  \* One stream moves, the token stays.
  <1>4. ASSUME NEW t \in Streams, token' = token,
               \A u \in Streams : u # t => stream'[u] = stream[u],
               CallbackFree \/ told' = told,
               stream'[t].pc \in {"state", "event"} => token = t,
               stream'[t].pc = "state" => told' = stream'[t].says,
               stream'[t].pc = "event" => stream'[t].news # <<>>,
               token = t => (stream'[t].pc \in {"dial", "open"} => told' # "up"),
               token # t => told' = told
        PROVE Callbacks'
    <2>1. \A u \in Streams : stream'[u].pc \in {"state", "event"} => token' = u
      BY <1>4 DEF Callbacks
    <2>2. \A u \in Streams : stream'[u].pc = "state" => told' = stream'[u].says
      BY <1>4 DEF Callbacks, CallbackFree
    <2>3. \A u \in Streams : stream'[u].pc = "event" => stream'[u].news # <<>>
      BY <1>4 DEF Callbacks
    <2>4. token' # 0 => (stream'[token'].pc \in {"dial", "open"} => told' # "up")
      BY <1>4, <1>00 DEF Callbacks
    <2> QED BY <2>1, <2>2, <2>3, <2>4 DEF Callbacks
  <1>5. ASSUME NEW t \in Streams, Stream(t) \/ Lose(t) PROVE Callbacks'
    <2>0. stream[t] \in Connection /\ (token = t => token # 0)
      BY <1>0, StreamsAreNumbered
    <2>1. CASE Dial(t)
      <3>1. stream'[t].pc = "open" /\ stream[t].pc = "dial"
        BY <1>0, <2>1 DEF Dial
      <3> QED BY <1>0, <1>4, <2>0, <2>1, <3>1 DEF Dial, Callbacks
    <2>2. CASE Lose(t) \/ End(t)
      <3>1. stream'[t].pc \in {"lost", "end"} /\ UNCHANGED <<token, told>>
            /\ \A u \in Streams : u # t => stream'[u] = stream[u]
        BY <1>0, <2>2 DEF Lose, End, Connection
      <3> QED BY <1>4, <3>1
    <2>3. ASSUME NEW up \in BOOLEAN, SayState(t, up) PROVE Callbacks'
      <3> DEFINE says == IF up THEN "up" ELSE "down"
                 next == IF up THEN "up" ELSE "dial"
      <3>1. CallbackFree /\ token' = token /\ \A u \in Streams : u # t => stream'[u] = stream[u]
        BY <2>3, SayStateKeepsNews DEF SayState
      <3>2. CASE token = t
        <4>1. stream' = [stream EXCEPT ![t] = [stream[t] EXCEPT !.pc = "state", !.says = says]]
              /\ told' = says
          BY <2>3, <3>2 DEF SayState
        <4> HIDE DEF says
        <4>2. stream'[t].pc = "state" /\ stream'[t].says = says
          BY <1>0, <4>1 DEF Connection
        <4> QED BY <1>4, <3>1, <3>2, <4>1, <4>2
      <3>3. CASE token # t
        <4>1. stream' = [stream EXCEPT ![t] = [stream[t] EXCEPT !.pc = next]] /\ told' = told
          BY <1>0, <2>3, <3>3 DEF SayState, Move
        <4>2. stream'[t].pc \in {"up", "dial"}
          BY <1>0, <4>1 DEF Connection
        <4> QED BY <1>4, <3>1, <3>3, <4>1, <4>2
      <3> QED BY <3>2, <3>3
    <2>4. CASE FinishState(t)
      <3>1. /\ UNCHANGED <<token, told>> /\ token = t /\ told = stream[t].says
            /\ \A u \in Streams : u # t => stream'[u] = stream[u]
        BY <1>0, <2>4 DEF FinishState, Move, Callbacks
      <3>2. stream'[t].pc = IF stream[t].says = "up" THEN "up" ELSE "dial"
        BY <1>0, <2>4 DEF FinishState, Move, Connection
      <3> QED BY <1>4, <3>1, <3>2
    <2>5. CASE SayEvent(t)
      <3>1. /\ UNCHANGED <<token, told>> /\ stream[t].news # <<>>
            /\ \A u \in Streams : u # t => stream'[u] = stream[u]
        BY <1>0, <2>5 DEF SayEvent, Move
      <3>2. IF token = t THEN stream'[t] = [stream[t] EXCEPT !.pc = "event"]
            ELSE stream'[t] = [stream[t] EXCEPT !.news = Tail(stream[t].news)]
        BY <1>0, <2>5 DEF SayEvent, Move, Connection
      <3>3. stream[t].pc = "up"
        BY <2>5 DEF SayEvent
      <3> QED BY <1>4, <2>0, <3>1, <3>2, <3>3 DEF Connection
    <2>6. CASE FinishEvent(t)
      <3>1. stream' = [stream EXCEPT ![t] = [stream[t] EXCEPT !.pc = "up", !.news = Tail(stream[t].news)]]
            /\ UNCHANGED <<token, told>>
        BY <1>0, <2>6 DEF FinishEvent
      <3>2. stream'[t].pc = "up" /\ \A u \in Streams : u # t => stream'[u] = stream[u]
        BY <1>0, <3>1 DEF Connection
      <3> QED BY <1>4, <3>1, <3>2
    <2> QED BY <1>5, <2>1, <2>2, <2>3, <2>4, <2>5, <2>6 DEF Stream
  <1>6. CASE Stop
    BY <1>6 DEF Stop, Callbacks, CallbackFree
  <1>7. CASE Start
    <2>1. CASE token # 0
      BY <1>1, <1>7, <2>1 DEF Start, link
    <2>2. ASSUME NEW t \in Streams, token' = t, told' = "unknown", Move(t, "dial") PROVE Callbacks'
      <3>1. \A u \in Streams : stream'[u].pc \notin {"state", "event"}
        BY <1>0, <1>7, <2>2 DEF Start, Move, CallbackFree, Connection
      <3> QED BY <2>2, <3>1 DEF Callbacks
    <2> QED BY <1>7, <2>1, <2>2 DEF Start
  <1>8. CASE UNCHANGED link
    BY <1>1, <1>8 DEF link
  <1>9. CASE Age \/ Control \/ FinishControl \/ GetFails \/ Trader \/ TakeLease
    <2>1. UNCHANGED link
      BY <1>9 DEF Age, Control, FinishControl, GetFails, Trader, TakeLease, SaveBatch, Admit, Refuse,
           StartWrite, SendWrite, AnswerWrite, FinishWrite, Settle
    <2> QED BY <1>8, <2>1
  <1>10. CASE Worker /\ ~Stop /\ ~Start
    <2>1. UNCHANGED link
      BY <1>10 DEF Worker, Discard, BeginRefresh, Capture, Get, Join, Publish, Done
    <2> QED BY <1>8, <2>1
  <1> QED BY <1>3, <1>5, <1>6, <1>7, <1>9, <1>10 DEF Next

LEMMA TicketsKept == TypeOK /\ Tickets /\ Next => Tickets'
  <1> SUFFICES ASSUME TypeOK, Tickets, Next PROVE Tickets'
    OBVIOUS
  <1>0. cache \in Cache /\ hot \in Refresh /\ lease \in Lease /\ hot.got \in Snapshot
        /\ NotHot.pc = "idle" /\ NotHot.got = None /\ NoLease.is = "none"
    BY DEF TypeOK, NotHot, NoLease, Refresh
  \* The refresh stays where it is, the ticket with it.
  <1>1. ASSUME UNCHANGED <<hot.pc, hot.got>>, cache'.ticket => cache.ticket,
               \/ lease'.is # "published"
               \/ lease' = lease /\ cache'.pub = cache.pub
        PROVE Tickets'
    BY <1>1 DEF Tickets
  \* A revocation voids the ticket and every lease.
  <1>2. ASSUME NEW c \in Cache, NEW again, Invalidate(c, again),
               UNCHANGED <<hot.pc, hot.got>> \/ hot' = NotHot
        PROVE Tickets'
    BY <1>0, <1>2, InvalidateLoses DEF Tickets
  <1>3. ASSUME NEW again, MoveGeneration(again), cache' = cache, lease' = lease PROVE Tickets'
    BY <1>0, <1>1, <1>3 DEF MoveGeneration, Refresh
  <1>4. CASE UNCHANGED <<hot, cache, lease>>
    BY <1>1, <1>4
  <1>5. CASE (\E k \in Kind : Outside(k)) \/ Land
    BY <1>4, <1>5 DEF Outside, Land
  <1>6. CASE Age
    <2>1. UNCHANGED <<hot.pc, hot.got>> /\ cache'.ticket = cache.ticket /\ cache'.pub = cache.pub /\ lease' = lease
      BY <1>0, <1>6 DEF Age, Refresh, Cache
    <2> QED BY <1>1, <2>1
  <1>7. ASSUME NEW t \in Streams, Stream(t) \/ Lose(t) PROVE Tickets'
    <2>1. CASE Dial(t) \/ Lose(t) \/ End(t)
      BY <1>4, <2>1 DEF Dial, Lose, End
    <2>2. ASSUME NEW up \in BOOLEAN, SayState(t, up) PROVE Tickets'
      BY <1>3, <1>4, <2>2 DEF SayState
    <2>3. CASE FinishState(t)
      <3>1. [cache EXCEPT !.connected = (stream[t].says = "up")] \in Cache
        BY <1>0 DEF Cache
      <3> QED BY <1>2, <2>3, <3>1 DEF FinishState
    <2>4. CASE SayEvent(t)
      BY <1>3, <1>4, <2>4 DEF SayEvent
    <2>5. CASE FinishEvent(t)
      BY <1>0, <1>2, <2>5 DEF FinishEvent
    <2> QED BY <1>7, <2>1, <2>2, <2>3, <2>4, <2>5 DEF Stream
  <1>8. CASE Control
    BY <1>3, <1>8 DEF Control
  <1>9. CASE FinishControl
    BY <1>0, <1>2, <1>9 DEF FinishControl
  <1>10. CASE Worker \/ GetFails
    <2>1. CASE Stop
      <3>1. [cache EXCEPT !.connected = FALSE] \in Cache
        BY <1>0 DEF Cache
      <3> QED BY <1>2, <2>1, <3>1 DEF Stop
    <2>2. CASE Start
      <3>1. hot'.pc = "begin" /\ hot'.got = hot.got /\ UNCHANGED <<cache, lease>> /\ hot.pc = "idle"
        BY <1>0, <2>2 DEF Start, Refresh
      <3> QED BY <3>1 DEF Tickets
    <2>3. ASSUME NEW pc, Discard(pc) PROVE Tickets'
      BY <1>0, <1>2, <2>3 DEF Discard
    <2>4. CASE BeginRefresh
      <3>1. /\ cache'.pub = cache.pub /\ lease' = lease
            /\ cache'.ticket = (cache.ticket \/ cache.connected) /\ hot.pc = "begin"
            /\ IF cache.connected THEN hot'.pc = "capture" /\ hot'.got = hot.got ELSE hot' = NotHot
        BY <1>0, <2>4 DEF BeginRefresh, Refresh, Cache
      <3> QED BY <1>0, <3>1 DEF Tickets
    <2>5. CASE Capture
      <3>1. hot'.pc = "read" /\ UNCHANGED <<cache, lease>>
        BY <1>0, <2>5 DEF Capture, Refresh
      <3> QED BY <3>1 DEF Tickets
    <2>6. ASSUME NEW k \in Kind, Get(k) PROVE Tickets'
      <3>1. hot'.pc = "read" /\ UNCHANGED <<cache, lease>>
        BY <1>0, <2>6 DEF Get, Refresh
      <3> QED BY <3>1 DEF Tickets
    <2>7. CASE Join
      <3>1. CASE hot.current
        <4>1. hot'.pc = "publish" /\ hot'.got = hot.got /\ UNCHANGED <<cache, lease>> /\ AllRead
          BY <1>0, <2>7, <3>1 DEF Join, Refresh
        <4> QED BY <4>1 DEF AllRead, Tickets
      <3>2. CASE ~hot.current
        BY <1>0, <1>2, <2>7, <3>2 DEF Join, Fail, Tickets
      <3> QED BY <3>1, <3>2
    <2>8. CASE Publish
      <3>1. hot'.pc = "done" /\ hot'.got = hot.got
        BY <1>0, <2>8 DEF Publish, Refresh
      <3>2. CASE ~cache.ticket
        BY <2>8, <3>1, <3>2 DEF Publish, Tickets
      <3>3. CASE cache.ticket /\ hot.old
        <4>1. ~cache'.ticket /\ lease'.is # "published"
          BY <1>0, <2>8, <3>3, InvalidateLoses DEF Publish
        <4> QED BY <3>1, <4>1 DEF Tickets
      <3>4. CASE cache.ticket /\ ~hot.old
        <4>1. ~cache'.ticket /\ lease'.is # "published"
          BY <1>0, <2>8, <3>4 DEF Publish, Older, Cache, Lease
        <4> QED BY <3>1, <4>1 DEF Tickets
      <3> QED BY <3>2, <3>3, <3>4
    <2>9. CASE Done
      <3>1. CASE wanted
        BY <1>0, <2>9, <3>1 DEF Done, Tickets
      <3>2. CASE ~wanted
        BY <1>0, <1>2, <2>9, <3>2 DEF Done
      <3> QED BY <3>1, <3>2
    <2>10. CASE GetFails
      BY <1>0, <1>2, <2>10 DEF GetFails
    <2> QED BY <1>10, <2>1, <2>2, <2>3, <2>4, <2>5, <2>6, <2>7, <2>8, <2>9, <2>10 DEF Worker
  <1>11. CASE Trader \/ TakeLease
    <2>1. CASE SaveBatch \/ Settle
      BY <1>4, <2>1 DEF SaveBatch, Settle
    <2>2. CASE Admit
      BY <1>0, <1>1, <2>2 DEF Admit
    <2>3. CASE Refuse
      <3>1. cache'.ticket = cache.ticket /\ lease'.is = "none" /\ hot' = hot
        BY <1>0, <2>3 DEF Refuse, Cache
      <3> QED BY <1>1, <3>1
    <2>4. CASE StartWrite \/ AnswerWrite
      BY <1>3, <2>4 DEF StartWrite, AnswerWrite
    <2>5. CASE SendWrite \/ FinishWrite
      BY <1>0, <1>2, <2>5 DEF SendWrite, FinishWrite
    <2>6. CASE TakeLease
      <3>1. CASE cache.pub # None /\ ~cache.old
        BY <2>6, <3>1 DEF TakeLease, Tickets
      <3>2. CASE ~(cache.pub # None /\ ~cache.old)
        <4>1. cache'.ticket = cache.ticket /\ lease'.is # "published" /\ hot' = hot
          BY <1>0, <2>6, <3>2 DEF TakeLease, Expire, Older, Cache, Lease
        <4> QED BY <1>1, <4>1
      <3> QED BY <3>1, <3>2
    <2> QED BY <1>11, <2>1, <2>2, <2>3, <2>4, <2>5, <2>6 DEF Trader
  <1> QED BY <1>5, <1>6, <1>7, <1>8, <1>9, <1>10, <1>11 DEF Next

-----------------------------------------------------------------------------
(* The theorems *)

LEMMA InvStarts == Init => Inv
  <1> SUFFICES ASSUME Init PROVE Inv
    OBVIOUS
  <1>1. TypeOK
    <2>1. [k \in Kind |-> 1] \in Snapshot
      BY DEF Snapshot, Version
    <2>2. [pc |-> "off", news |-> <<>>, says |-> "down", since |-> None] \in Connection
      BY NoneIsTyped DEF Connection
    <2>3. [connected |-> FALSE, pub |-> None, old |-> FALSE, ticket |-> FALSE, again |-> TRUE] \in Cache
      BY NoneIsTyped DEF Cache
    <2> QED BY <2>1, <2>2, <2>3, IdleIsTyped, HotBounds DEF Init, TypeOK, Version
  <1>2. Honest
    BY NoneIsTyped DEF Init, Honest, Idle
  <1>3. Callbacks
    BY DEF Init, Callbacks
  <1>4. Tickets
    BY DEF Init, Tickets, NotHot, NoLease
  <1>5. ~Hearing /\ ~Saying /\ hot.pc = "idle" /\ modes = 0 /\ cache.pub = None
    BY DEF Init, Hearing, Saying, NotHot
  <1> QED BY <1>1, <1>2, <1>3, <1>4, <1>5
      DEF Inv, FreshModes, FreshRead, FreshTicket, FreshPub, ToldModes, ToldTicket, ToldPub

LEMMA InvKept == Inv /\ [Next]_vars => Inv'
  <1> SUFFICES ASSUME Inv, [Next]_vars PROVE Inv'
    OBVIOUS
  <1>1. CASE Next
    <2>1. TypeOK' /\ Callbacks' /\ Tickets'
      BY <1>1, TypesKept, CallbacksKept, TicketsKept DEF Inv
    <2>2. Honest' /\ Fresh' /\ Told'
      BY <1>1, HonestKept, FreshKept, ToldKept
    <2> QED BY <2>1, <2>2 DEF Inv, Fresh, Told
  <1>2. CASE UNCHANGED vars
    <2>0. UNCHANGED <<truth, known, token, told, stream, modes, cache, hot, trader, lease>>
      BY <1>2 DEF vars
    <2>1. TypeOK' /\ Honest' /\ Callbacks' /\ Tickets'
      BY <1>2 DEF vars, Inv, TypeOK, Honest, Callbacks, Tickets
    <2>2. Loses
      BY <2>0 DEF Loses
    <2>3. Fresh'
      BY <2>0, <2>2, LosingKeepsFresh DEF Inv, Fresh
    <2>4. \A v \in Version : Includes(v) => Includes(v)'
      BY <2>0 DEF Includes
    <2>5. Told'
      BY <2>0, <2>2, <2>4, LosingKeepsTold DEF Inv, Told
    <2> QED BY <2>1, <2>3, <2>5 DEF Inv, Fresh, Told
  <1> QED BY <1>1, <1>2

\* The invariant: types, honest news, the ticket and both revocations.
THEOREM HotAccountInvariant == Spec => []Inv
  BY InvStarts, InvKept, PTL DEF Spec

\* Variables stay in their sets for any number of changes and streams.
THEOREM HotAccountTyped == Spec => []TypeOK
  <1>1. Inv => TypeOK
    BY DEF Inv
  <1> QED BY <1>1, HotAccountInvariant, PTL

\* With the stream up and heard out, the published snapshot is the account:
\* no read crossed an event, a reconnect, a write or a control on its way.
THEOREM PublishedIsCurrent == Spec => []CurrentWhenQuiet
  <1>1. ASSUME Inv PROVE CurrentWhenQuiet
    <2> SUFFICES ASSUME Heard, cache.pub # None PROVE cache.pub = truth
      BY DEF CurrentWhenQuiet
    <2>1. Hearing /\ stream[token].news = <<>>
      BY DEF Heard, Hearing
    <2>2. truth \in Snapshot /\ cache.pub \in Snapshot
      BY <1>1 DEF Inv, TypeOK, Cache
    <2>3. \A k \in Kind : cache.pub[k] \in Version /\ UpTo(truth, k, cache.pub[k], <<>>)
      BY <1>1, <2>1, <2>2 DEF Inv, FreshPub, Snapshot
    <2>4. \A k \in Kind : cache.pub[k] = truth[k]
      BY <2>2, <2>3, UpToQuiet
    <2> QED BY <2>2, <2>4 DEF Snapshot
  <1> QED BY <1>1, HotAccountInvariant, PTL

\* An order is admitted only on a snapshot that includes every change the
\* program was told of.
THEOREM AdmissionIncludesKnown == Spec => AdmitsWhatIsKnown
  <1>1. ASSUME Inv PROVE Admit => \A k \in Kind : lease.snap[k] >= known[k]
    <2> SUFFICES ASSUME Admit PROVE \A k \in Kind : lease.snap[k] >= known[k]
      OBVIOUS
    <2>1. lease.snap = cache.pub /\ cache.pub # None
      BY <1>1 DEF Inv, Tickets, Admit, Authorized
    <2>2. \A k \in Kind : known[k] \in Nat /\ cache.pub[k] \in Nat
      BY <1>1 DEF Inv, TypeOK, Cache, Snapshot, Version
    <2> QED BY <1>1, <2>1, <2>2 DEF Inv, ToldPub
  <1> QED BY <1>1, HotAccountInvariant, PTL DEF AdmitsWhatIsKnown

=============================================================================

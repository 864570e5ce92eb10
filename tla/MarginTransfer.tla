--------------------------- MODULE MarginTransfer ---------------------------
(***************************************************************************)
(* USD1 transfers between the two subaccounts of a group                   *)
(* (src/trading/margin_balance.py), as the group's turn drives them.       *)
(*                                                                         *)
(* A turn first settles a transfer the journal holds, else it reads both   *)
(* accounts, lets the balancer transfer, and only then opens orders on     *)
(* these reads.  A request is journalled before it is posted and is never  *)
(* posted again.  A positive answer is final; without an answer the        *)
(* request is given up once both balances were read anew, and may still    *)
(* land afterwards.  The account streams announce what landed and revoke   *)
(* the reads it overtakes.                                                 *)
(*                                                                         *)
(* A transfer is the name of a request: amounts, limits, ownership checks, *)
(* cooldowns and budgets only decide whether one is due, which is left     *)
(* open.  Paper accounts are one database transaction and not here, nor    *)
(* are records of releases that had other states ("accepted").             *)
(***************************************************************************)
EXTENDS Integers

CONSTANTS
    Side,           \* the two members
    MaxRequests,    \* bound: transfers requested
    MaxMishaps      \* bound: private streams lost, process crashes

ASSUME TransferBounds ==
    /\ MaxRequests \in Nat
    /\ MaxMishaps \in Nat

Request == 1 .. MaxRequests
None    == 0                    \* no request

VARIABLES
    groupOn,        \* the group is enabled
    journal,        \* pair_margin.pending: status "none" if absent
    verdict,        \* pair_margin.last_transfer and the archive of skipped ones
    pc,             \* where the turn is
    answer,         \* status of the posted request, not saved yet
    view,           \* balances read in this turn: what they include, still current?
    hot,            \* balances the background worker has published
    conn,           \* the private stream is connected
    mark,           \* the journal's checkpoint of that session, and what came after it
    exch,           \* what became of each request
    news,           \* announcements on their way
    posts,          \* ghost: times a request was posted
    mishaps         \* counter for the bound

durable == <<groupOn, journal, verdict>>
turn    == <<pc, answer, view>>
reads   == <<view, hot>>
stream  == <<conn, mark, news>>
vars    == <<durable, turn, hot, stream, exch, posts, mishaps>>

-----------------------------------------------------------------------------
Pc      == {"idle", "read", "trade", "saved", "sent", "answered", "refresh", "resume"}
Answer  == {"none", "acknowledged", "rejected", "unknown"}
Journal == [status : {"none", "submitting", "acknowledged", "unknown"},
            id : Request \cup {None}]
View    == [read : BOOLEAN, has : SUBSET Request, current : BOOLEAN]
Verdict == {"none", "acknowledged", "rejected", "skipped"}

\* No checkpoint of the session; one; one, and the last event since then
\* announces a transfer.
Mark == {"none", "taken", "told"}

NoJournal == [status |-> "none", id |-> None]
NotRead   == [read |-> FALSE, has |-> {}, current |-> FALSE]
NoView    == [s \in Side |-> NotRead]
NoMark    == [s \in Side |-> "none"]

Pending == journal.status # "none"
Landed  == {r \in Request : exch[r] = "done"}
AllRead    == \A s \in Side : view[s].read
AllCurrent == \A s \in Side : view[s].current

\* A generation bump and a new epoch: every read begun on side s before it is
\* refused from now on, and the published one is gone.
Revoke(s) ==
    /\ view' = [view EXCEPT ![s] = [@ EXCEPT !.current = FALSE]]
    /\ hot'  = [hot EXCEPT ![s] = NotRead]

\* _invalidate: on both sides.
RevokeAll ==
    /\ view' = [s \in Side |-> [view[s] EXCEPT !.current = FALSE]]
    /\ hot'  = NoView

Init ==
    /\ groupOn = TRUE
    /\ journal = NoJournal
    /\ verdict = [r \in Request |-> "none"]
    /\ pc = "idle" /\ answer = "none"
    /\ view = NoView /\ hot = NoView
    /\ conn = [s \in Side |-> FALSE]
    /\ mark = NoMark
    /\ exch = [r \in Request |-> "none"]
    /\ news = [s \in Side |-> {}]
    /\ posts = [r \in Request |-> 0]
    /\ mishaps = 0

-----------------------------------------------------------------------------
(* A turn without a transfer under way *)

StartTurn ==
    /\ pc = "idle" /\ ~Pending /\ groupOn
    /\ pc' = "read"
    /\ UNCHANGED <<durable, answer, reads, stream, exch, posts, mishaps>>

Fresh == [read |-> TRUE, has |-> Landed, current |-> TRUE]

\* One account is read; the other one follows at a moment of its own.
ReadBalance(s) ==
    /\ pc \in {"read", "refresh", "resume"}
    /\ ~view[s].read
    /\ view' = [view EXCEPT ![s] = Fresh]
    /\ UNCHANGED <<durable, pc, answer, hot, stream, exch, posts, mishaps>>

\* A cycling group leases what the background worker published instead.
ReadHot(s) ==
    /\ pc = "read"
    /\ ~view[s].read /\ hot[s].current
    /\ view' = [view EXCEPT ![s] = hot[s]]
    /\ UNCHANGED <<durable, pc, answer, hot, stream, exch, posts, mishaps>>

\* Disabled, cooling down, balanced, below the minimum, or refused by a check:
\* the turn goes on to opening.
NoTransfer ==
    /\ pc = "read" /\ AllRead
    /\ pc' = "trade"
    /\ UNCHANGED <<durable, answer, reads, stream, exch, posts, mishaps>>

\* A new opening is sent on these reads; _dispatch checks them a last time.
Trade ==
    /\ pc = "trade" /\ AllCurrent
    /\ pc' = "idle"
    /\ view' = NoView /\ hot' = NoView
    /\ UNCHANGED <<durable, answer, stream, exch, posts, mishaps>>

\* A read fails, is overtaken, or a guard refuses; the journal stays.
TurnFails ==
    /\ pc \in {"read", "trade", "refresh", "resume"}
    /\ pc' = "idle"
    /\ view' = NoView
    /\ UNCHANGED <<durable, answer, hot, stream, exch, posts, mishaps>>

-----------------------------------------------------------------------------
(* _submit_live *)

\* The intent is committed before anything is signed.  With both streams up
\* it carries a checkpoint of each session.
SaveRequest(r) ==
    /\ pc = "read" /\ AllRead /\ AllCurrent
    /\ verdict[r] = "none" /\ \A q \in Request : q < r => verdict[q] # "none"
    /\ journal' = [status |-> "submitting", id |-> r]
    /\ mark' = IF \A s \in Side : conn[s] THEN [s \in Side |-> "taken"] ELSE NoMark
    /\ pc' = "saved"
    /\ UNCHANGED <<groupOn, verdict, answer, reads, conn, news, exch, posts, mishaps>>

\* Whatever the answer, both accounts must be read again (_invalidate).
Answered(a) ==
    /\ answer' = a
    /\ pc' = "answered"
    /\ RevokeAll
    /\ UNCHANGED <<durable, stream, exch, posts, mishaps>>

\* The request hook runs after signing and just before the transport.
NotSent == pc = "saved" /\ Answered("rejected")

Post ==
    /\ pc = "saved" /\ AllCurrent
    /\ exch' = [exch EXCEPT ![journal.id] = "flight"]
    /\ posts' = [posts EXCEPT ![journal.id] = @ + 1]
    /\ pc' = "sent"
    /\ hot' = NoView
    /\ UNCHANGED <<durable, answer, view, stream, mishaps>>

\* code 200 / "success" is the exchange's final word.
AnswerSuccess  == pc = "sent" /\ exch[journal.id] = "done" /\ Answered("acknowledged")
AnswerRejected == pc = "sent" /\ exch[journal.id] = "void" /\ Answered("rejected")

\* Mutant: a lost answer is taken for a rejection.
AnswerLostRejects == pc = "sent" /\ Answered("rejected")

\* Timeout, gateway error, unlisted code, unreadable body.
AnswerUnknown == pc = "sent" /\ Answered("unknown")

\* The outcome is saved; an acknowledged transfer goes on to the refresh, with
\* none of the reads made before it.
SaveAnswer ==
    /\ pc = "answered"
    /\ IF answer = "rejected"
       THEN /\ journal' = NoJournal
            /\ verdict' = [verdict EXCEPT ![journal.id] = "rejected"]
       ELSE /\ journal' = [journal EXCEPT !.status = answer]
            /\ UNCHANGED verdict
    /\ mark' = IF answer = "acknowledged" THEN mark ELSE NoMark
    /\ pc' = IF answer = "acknowledged" THEN "refresh" ELSE "idle"
    /\ answer' = "none"
    /\ view' = NoView
    /\ UNCHANGED <<hot, groupOn, conn, news, exch, posts, mishaps>>

\* The database refuses: the error handler re-reads the journal, which still
\* says "submitting", and ends the turn.
SaveFails ==
    /\ pc = "answered"
    /\ pc' = "idle"
    /\ answer' = "none"
    /\ view' = NoView
    /\ UNCHANGED <<durable, hot, stream, exch, posts, mishaps>>

-----------------------------------------------------------------------------
(* A turn that finds a transfer in the journal, paused group or not *)

\* Mutant: an unanswered request is posted again.
TurnPendingRetries ==
    /\ pc = "idle" /\ Pending
    /\ pc' = IF journal.status = "acknowledged" THEN "refresh" ELSE "saved"
    /\ view' = [s \in Side |-> Fresh]
    /\ UNCHANGED <<durable, answer, hot, stream, exch, posts, mishaps>>

\* Mutant: a paused group leaves its transfer alone.
TurnPendingEnabled ==
    /\ pc = "idle" /\ Pending /\ groupOn
    /\ pc' = IF journal.status = "acknowledged" THEN "refresh" ELSE "resume"
    /\ journal' = IF journal.status = "submitting" THEN [journal EXCEPT !.status = "unknown"]
                                                   ELSE journal
    /\ UNCHANGED <<groupOn, verdict, answer, reads, stream, exch, posts, mishaps>>

TurnPending ==
    /\ pc = "idle" /\ Pending
    /\ pc' = IF journal.status = "acknowledged" THEN "refresh" ELSE "resume"
    /\ journal' = IF journal.status = "submitting" THEN [journal EXCEPT !.status = "unknown"]
                                                   ELSE journal
    /\ UNCHANGED <<groupOn, verdict, answer, reads, stream, exch, posts, mishaps>>

\* The journal closes and the turn ends; a further turn reads for itself.
Close(v) ==
    /\ journal' = NoJournal
    /\ verdict' = [verdict EXCEPT ![journal.id] = v]
    /\ mark' = NoMark
    /\ pc' = "idle"
    /\ view' = NoView /\ hot' = NoView
    /\ UNCHANGED <<groupOn, answer, conn, news, exch, posts, mishaps>>

\* _resume_unknown: both balances were read anew; the request is archived.
SkipUnknown == pc = "resume" /\ AllRead /\ AllCurrent /\ Close("skipped")

\* _refresh_acknowledged: both accounts read by REST ...
RefreshByRead == pc = "refresh" /\ AllRead /\ AllCurrent /\ Close("acknowledged")

\* ... or, in the checkpoint's sessions, both last events announce a transfer.
\* One of the same amount that lands late passes for the journal's own.
RefreshByEvents ==
    /\ pc = "refresh"
    /\ \A s \in Side : mark[s] = "told"
    /\ Close("acknowledged")

-----------------------------------------------------------------------------
\* The background worker reads beside the turn, also while a request is under
\* way, and publishes what nothing has revoked in between.
RefreshHot(s) ==
    /\ conn[s]
    /\ hot' = [hot EXCEPT ![s] = Fresh]
    /\ UNCHANGED <<durable, turn, stream, exch, posts, mishaps>>

-----------------------------------------------------------------------------
(* The operator; the pair lock keeps both outside a turn *)

Pause ==
    /\ pc = "idle" /\ groupOn
    /\ groupOn' = FALSE
    /\ UNCHANGED <<journal, verdict, turn, hot, stream, exch, posts, mishaps>>

\* Enabling needs a settled journal.
Enable ==
    /\ pc = "idle" /\ ~groupOn /\ ~Pending
    /\ groupOn' = TRUE
    /\ UNCHANGED <<journal, verdict, turn, hot, stream, exch, posts, mishaps>>

-----------------------------------------------------------------------------
(* The exchange, the private streams, and crashes *)

Land(r) ==
    /\ exch[r] = "flight"
    /\ exch' = [exch EXCEPT ![r] = "done"]
    /\ news' = [s \in Side |-> IF conn[s] THEN news[s] \cup {r} ELSE {}]
    /\ UNCHANGED <<durable, turn, hot, conn, mark, posts, mishaps>>

Void(r) ==
    /\ exch[r] = "flight"
    /\ exch' = [exch EXCEPT ![r] = "void"]
    /\ UNCHANGED <<durable, turn, hot, stream, posts, mishaps>>

\* PrivateEventEvidence keeps the last event only.
Note(s, m) == mark' = [mark EXCEPT ![s] = IF @ = "none" THEN "none" ELSE m]

\* The account event of a transfer arrives.
Announce(s, r) ==
    /\ conn[s] /\ r \in news[s]
    /\ news' = [news EXCEPT ![s] = @ \ {r}]
    /\ Note(s, "told")
    /\ Revoke(s)
    /\ UNCHANGED <<durable, pc, answer, conn, exch, posts, mishaps>>

\* Any other account event: it is the last one now.
OtherEvent(s) ==
    /\ conn[s]
    /\ Note(s, "taken")
    /\ Revoke(s)
    /\ UNCHANGED <<durable, pc, answer, conn, news, exch, posts, mishaps>>

\* Mutant: a connection that comes back revokes nothing.
ConnectKeepsReads(s) ==
    /\ ~conn[s]
    /\ conn' = [conn EXCEPT ![s] = TRUE]
    /\ UNCHANGED <<durable, turn, hot, mark, news, exch, posts, mishaps>>

\* A gap may have hidden events: a new session trusts no earlier read.
Connect(s) ==
    /\ ~conn[s]
    /\ conn' = [conn EXCEPT ![s] = TRUE]
    /\ Revoke(s)
    /\ UNCHANGED <<durable, pc, answer, mark, news, exch, posts, mishaps>>

Disconnect(s) ==
    /\ conn[s] /\ mishaps < MaxMishaps
    /\ conn' = [conn EXCEPT ![s] = FALSE]
    /\ mark' = [mark EXCEPT ![s] = "none"]
    /\ news' = [news EXCEPT ![s] = {}]
    /\ Revoke(s)
    /\ mishaps' = mishaps + 1
    /\ UNCHANGED <<durable, pc, answer, exch, posts>>

Crash ==
    /\ pc # "idle" /\ mishaps < MaxMishaps
    /\ pc' = "idle" /\ answer' = "none" /\ view' = NoView /\ hot' = NoView
    /\ conn' = [s \in Side |-> FALSE]
    /\ mark' = NoMark
    /\ news' = [s \in Side |-> {}]
    /\ mishaps' = mishaps + 1
    /\ UNCHANGED <<durable, exch, posts>>

-----------------------------------------------------------------------------
Turn ==
    \/ StartTurn \/ NoTransfer \/ Trade \/ TurnFails
    \/ \E s \in Side : ReadBalance(s) \/ ReadHot(s)
    \/ \E r \in Request : SaveRequest(r)
    \/ NotSent \/ Post
    \/ AnswerSuccess \/ AnswerRejected \/ AnswerUnknown
    \/ SaveAnswer \/ SaveFails
    \/ TurnPending \/ SkipUnknown \/ RefreshByRead \/ RefreshByEvents

World ==
    \/ \E r \in Request : Land(r) \/ Void(r)
    \/ \E s \in Side, r \in Request : Announce(s, r)
    \/ \E s \in Side : RefreshHot(s) \/ OtherEvent(s) \/ Connect(s) \/ Disconnect(s)

Next == Turn \/ Pause \/ Enable \/ World \/ Crash

Spec == Init /\ [][Next]_vars

-----------------------------------------------------------------------------
(* Properties *)

\* Every variable keeps its type; only a turn under way holds reads, and only
\* an unsaved outcome is in memory.
TypeOK ==
    /\ groupOn \in BOOLEAN
    /\ journal \in Journal /\ (journal.id = None <=> ~Pending)
    /\ verdict \in [Request -> Verdict]
    /\ pc \in Pc
    /\ answer \in Answer /\ (answer = "none" <=> pc # "answered")
    /\ view \in [Side -> View] /\ hot \in [Side -> View]
    /\ conn \in [Side -> BOOLEAN] /\ mark \in [Side -> Mark]
    /\ exch \in [Request -> {"none", "flight", "done", "void"}]
    /\ news \in [Side -> SUBSET Request]
    /\ posts \in [Request -> Nat]
    /\ mishaps \in Nat

\* margin_balance.py:1, "never retry an uncertain write": a request leaves the
\* process at most once, over lost answers, failed saves and restarts.
PostedOnce == \A r \in Request : posts[r] <= 1

\* What the journal concludes is what happened: a rejected request never moves
\* money, an acknowledged one has, and no request is on its way that is
\* neither in the journal nor archived as skipped.
VerdictTrue ==
    \A r \in Request :
        /\ verdict[r] = "rejected" => exch[r] \in {"none", "void"}
        /\ verdict[r] = "acknowledged" => exch[r] = "done"
        /\ exch[r] = "flight" => verdict[r] = "skipped" \/ journal.id = r

\* A transfer that side s cannot know of yet: one given up, whose event is on
\* its way or was lost with the stream.
Unannounced(s, r) == verdict[r] = "skipped" /\ (r \in news[s] \/ ~conn[s])

\* Orders are opened, and the next transfer is planned, only on balances that
\* include every transfer the program could know of, the last one first: two
\* transfers are never planned on one imbalance.
ReadsTellTheTruth ==
    pc \in {"read", "trade", "saved"} =>
        \A s \in Side : view[s].current =>
            \A r \in Landed \ view[s].has : Unannounced(s, r)

-----------------------------------------------------------------------------
(* The inductive invariant behind them *)

\* What the journal says at each point of a turn.
JournalAtPc ==
    /\ pc \in {"read", "trade"} => ~Pending
    /\ pc \in {"saved", "sent", "answered"} => journal.status = "submitting"
    /\ pc = "resume" => journal.status = "unknown"
    /\ pc = "refresh" => journal.status = "acknowledged"

\* How far each request has come.
Progress ==
    /\ Pending => verdict[journal.id] = "none"
    /\ \A r \in Request : posts[r] = IF exch[r] = "none" THEN 0 ELSE 1
    /\ \A r \in Request : verdict[r] = "none" /\ journal.id # r => exch[r] = "none"
    /\ pc = "saved" => exch[journal.id] = "none"
    /\ pc = "sent" => exch[journal.id] # "none"
    /\ answer = "rejected" => exch[journal.id] \in {"none", "void"}
    /\ answer = "acknowledged" \/ journal.status = "acknowledged" => exch[journal.id] = "done"

\* What a read that nothing has revoked can be missing.
Sound(s, v) ==
    v.current => \A r \in Landed \ v.has :
        /\ verdict[r] = "skipped" \/ journal.id = r
        /\ r \in news[s] \/ ~conn[s]

\* The inductive invariant: the journal, the turn and every unrevoked read agree
\* with what the exchange has done or may still do.
MInv ==
    /\ TypeOK /\ VerdictTrue /\ JournalAtPc /\ Progress
    /\ \A s \in Side : Sound(s, view[s]) /\ Sound(s, hot[s])

-----------------------------------------------------------------------------
(* Liveness.  The scheduler keeps calling tick and a turn runs on.  Reads do  *)
(* not fail for ever, and foreign account events do not overtake them all.   *)

Overtaken == AllRead /\ ~AllCurrent

Proceed ==
    \/ NoTransfer \/ Trade
    \/ \E s \in Side : ReadBalance(s)
    \/ NotSent \/ Post \/ AnswerSuccess \/ AnswerRejected \/ AnswerUnknown
    \/ SaveAnswer \/ SaveFails
    \/ TurnPending \/ SkipUnknown \/ RefreshByRead \/ RefreshByEvents
    \/ Overtaken /\ TurnFails

Fairness ==
    /\ WF_vars(Proceed)
    /\ <>[][(TurnFails => Overtaken) /\ \A s \in Side : ~OtherEvent(s)]_vars

FairSpec == Spec /\ Fairness

\* A transfer never blocks the group for good: whatever its answer, and with
\* the group paused, its journal is closed.
PendingClears == Pending ~> ~Pending

=============================================================================

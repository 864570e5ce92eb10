--------------------------- MODULE GroupRecovery ----------------------------
(***************************************************************************)
(* What a paused group takes for its base, and how it lets go of a batch   *)
(* whose orders nobody can find (src/trading/pair_recovery.py, with the    *)
(* start and flatness check of src/trading/pairing.py).                    *)
(*                                                                         *)
(* A request holds the group's locks, but reads the two accounts and every *)
(* order one call at a time while trades are made by hand, orders execute  *)
(* late and the private streams announce all of it, in order and late.     *)
(* The commit is one transaction under both accounts' revocation locks:    *)
(* it refuses a read that an announced event has overtaken.                *)
(*                                                                         *)
(* A batch is two opening orders of one step each.  An order that was      *)
(* never accepted cannot be told from one still under way: it stays in     *)
(* "flight" for ever.                                                      *)
(* Archived batches are watched for ever.  Previews live in memory and     *)
(* expire.  A crash drops the task and the previews, as Fail and Expire    *)
(* do.  Left out: leverage, ages, identities and request budgets (reasons  *)
(* to refuse: Fail), the recovery of a running group (PairTrader), the     *)
(* difference of ordinary and cycle batches, and rows with bad fields.     *)
(***************************************************************************)
EXTENDS Integers, Sequences, FiniteSets

CONSTANTS
    Leg,            \* the two directions, one subaccount each
    MaxWatch,       \* MAX_WATCH_BATCHES
    MaxSent,        \* bound: batches sent
    MaxHand,        \* bound: trades by hand
    MaxLag          \* bound: what an account has done and its stream not yet told

ASSUME RecoveryAssumption == {MaxWatch, MaxSent, MaxHand, MaxLag} \subseteq Nat

VARIABLES
    on,             \* pair.enabled
    owned,          \* runtime.owned, the base
    pend,           \* runtime.pending: its number, 0 if absent
    receipt,        \* its receipts
    watch,          \* runtime.recovery_watch: archived batches
    preview,        \* the last archive or baseline preview
    task,           \* the request under way
    order,          \* the exchange's truth about every order
    past,           \* every position each account has had, the last is current
    told,           \* how much of that its stream has announced
    sent, hands     \* counters for the bounds

rows         == <<on, owned, pend, receipt, watch>>
recoveryVars == <<rows, preview, task, order, past, told, sent, hands>>

Batch == 1 .. MaxSent

\* A position: steps traded by hand and the batches whose order executed.
Qty(p)     == p.hand + Cardinality(p.filled)
Now(l)     == past[l][Len(past[l])]
Held       == [l \in Leg |-> Qty(Now(l))]
Unread     == -1
Nothing    == [l \in Leg |-> 0]
Unknown    == [l \in Leg |-> "unknown"]
Filled     == [l \in Leg |-> "filled"]
Terminal(r) == \A l \in Leg : r[l] # "unknown"

NoTask    == [kind |-> "none", step |-> "", found |-> Unknown, seen |-> [l \in Leg |-> Unread],
              at |-> Nothing, left |-> {}]
NoPreview == [kind |-> "none"]

Position == [hand : Int, filled : SUBSET Batch]
Receipts == [Leg -> {"unknown", "filled", "dead"}]
Reads    == [Leg -> Nat \cup {Unread}]
Task     == [kind : {"none", "archivePreview", "archive", "basePreview", "rebase", "start", "check", "flatten"},
             step : {"", "legs", "read", "watch"}, found : Receipts, seen : Reads, at : [Leg -> Nat],
             left : SUBSET ((0 .. MaxSent) \X Leg)]
Previews == [kind : {"archive", "rebase"}, actual : Reads,
             print : [Leg -> Nat] \X (0 .. MaxSent) \X (SUBSET Batch)]

RecoveryTypeOK ==
    /\ on \in BOOLEAN /\ owned \in [Leg -> Nat] /\ pend \in 0 .. MaxSent
    /\ receipt \in Receipts /\ watch \subseteq Batch
    /\ preview \in {NoPreview} \cup Previews /\ task \in Task
    /\ order \in [Batch -> [Leg -> {"none", "flight", "filled", "dead"}]]
    /\ past \in [Leg -> Seq(Position)] /\ told \in [Leg -> Nat]
    /\ \A l \in Leg : told[l] \in DOMAIN past[l] /\ \A i \in DOMAIN past[l] : Qty(past[l][i]) \in Nat
    /\ sent \in 0 .. MaxSent /\ hands \in 0 .. MaxHand

RecoveryInit ==
    /\ on = FALSE /\ owned = Nothing /\ pend = 0 /\ receipt = Unknown /\ watch = {}
    /\ preview = NoPreview /\ task = NoTask
    /\ order = [n \in Batch |-> [l \in Leg |-> "none"]]
    /\ past = [l \in Leg |-> <<[hand |-> 0, filled |-> {}]>>]
    /\ told = [l \in Leg |-> 1]
    /\ sent = 0 /\ hands = 0

-----------------------------------------------------------------------------
(* The exchange *)

Move(l, p) ==
    /\ Len(past[l]) < told[l] + MaxLag
    /\ past' = [past EXCEPT ![l] = Append(@, p)]

TradeByHand(l) ==
    /\ hands < MaxHand
    /\ hands' = hands + 1
    /\ \E d \in {-1, 1} :
          /\ Held[l] + d >= 0
          /\ Move(l, [Now(l) EXCEPT !.hand = @ + d])
    /\ UNCHANGED <<rows, preview, task, order, told, sent>>

OrderExecutes(n, l) ==
    /\ order[n][l] = "flight"
    /\ order' = [order EXCEPT ![n][l] = "filled"]
    /\ Move(l, [Now(l) EXCEPT !.filled = @ \cup {n}])
    /\ UNCHANGED <<rows, preview, task, told, sent, hands>>

OrderEnds(n, l) ==
    /\ order[n][l] = "flight"
    /\ order' = [order EXCEPT ![n][l] = "dead"]
    /\ UNCHANGED <<rows, preview, task, past, told, sent, hands>>

\* An account event revokes the reads made before it.
Announce(l) ==
    /\ told[l] < Len(past[l])
    /\ told' = [told EXCEPT ![l] = @ + 1]
    /\ UNCHANGED <<rows, preview, task, order, past, sent, hands>>

\* _query: an order the exchange does not have proves nothing.
Found(n, l) == IF order[n][l] \in {"filled", "dead"} THEN order[n][l] ELSE "unknown"

-----------------------------------------------------------------------------
(* The running group *)

\* An opening batch whose answers were lost.  The last check before the orders
\* leave queries every watched order.
OpenBatch ==
    /\ on /\ pend = 0 /\ task = NoTask
    /\ Held = owned
    /\ \A n \in watch, l \in Leg : order[n][l] # "filled"
    /\ sent < MaxSent
    /\ sent' = sent + 1
    /\ pend' = sent + 1
    /\ receipt' = Unknown
    /\ order' = [order EXCEPT ![sent + 1] = [l \in Leg |-> "flight"]]
    /\ UNCHANGED <<on, owned, watch, preview, task, past, told, hands>>

Stop ==
    /\ on /\ task = NoTask
    /\ on' = FALSE
    /\ UNCHANGED <<owned, pend, receipt, watch, preview, task, order, past, told, sent, hands>>

-----------------------------------------------------------------------------
(* Requests *)

Archiving == {"archivePreview", "archive"}
Rebasing  == {"basePreview", "rebase"}
QueryFirst == Archiving \cup {"check"}

\* _eligible for a pending batch, _idle for the others.
Eligible(k) ==
    CASE k \in Archiving -> pend # 0 /\ receipt = Unknown
      [] k = "check"     -> pend # 0
      [] k \in Rebasing  -> pend = 0 /\ watch # {}
      [] OTHER           -> pend = 0

Confirms(k) == (k = "archive" => preview.kind = "archive") /\ (k = "rebase" => preview.kind = "rebase")

\* check drops the previews of the batch it reviews.
Begin(k) ==
    /\ task = NoTask /\ ~on
    /\ Eligible(k) /\ Confirms(k)
    /\ task' = [NoTask EXCEPT !.kind = k, !.step = IF k \in QueryFirst THEN "legs" ELSE "read",
                              !.left = IF k \in QueryFirst THEN {pend} \X Leg ELSE {}]
    /\ preview' = IF k = "check" /\ preview.kind = "archive" THEN NoPreview ELSE preview
    /\ UNCHANGED <<rows, order, past, told, sent, hands>>

Finish == task' = NoTask

Fail ==
    /\ task # NoTask
    /\ Finish
    /\ UNCHANGED <<rows, preview, order, past, told, sent, hands>>

Expire ==
    /\ preview # NoPreview
    /\ preview' = NoPreview
    /\ UNCHANGED <<rows, task, order, past, told, sent, hands>>

\* One of the batch's orders; check keeps the receipt at once.
QueryLeg(l) ==
    /\ task.step = "legs" /\ <<pend, l>> \in task.left
    /\ LET r == IF receipt[l] = "unknown" THEN Found(pend, l) ELSE receipt[l] IN
          /\ task' = [task EXCEPT !.found[l] = r, !.left = @ \ {<<pend, l>>}]
          /\ receipt' = IF task.kind = "check" THEN [receipt EXCEPT ![l] = r] ELSE receipt
    /\ UNCHANGED <<on, owned, pend, watch, preview, order, past, told, sent, hands>>

\* check goes on only when every receipt is final.
EndLegs ==
    /\ task.step = "legs" /\ task.left = {}
    /\ task.kind = "check" => Terminal(receipt)
    /\ task' = [task EXCEPT !.step = "read"]
    /\ UNCHANGED <<rows, preview, order, past, told, sent, hands>>

Sample(l) ==
    /\ task.step = "read" /\ task.seen[l] = Unread
    /\ task' = [task EXCEPT !.seen[l] = Held[l], !.at[l] = told[l]]
    /\ UNCHANGED <<rows, preview, order, past, told, sent, hands>>

\* _current_members: neither account has announced anything since its read.
Current == \A l \in Leg : task.at[l] = told[l]

\* What the batch's receipts say the accounts should hold.
ByReceipts == [l \in Leg |-> owned[l] + (IF receipt[l] = "filled" THEN 1 ELSE 0)]

\* acceptable, the test of reconcile_positions alone: level, or back at the base.
\* With older orders still watched only the base itself.  Whether a check comes to
\* this review was decided on an earlier read or by the margin, and is left open.
Acceptable(seen) ==
    /\ \/ \A l, m \in Leg : seen[l] = seen[m]
       \/ seen = owned /\ ByReceipts # owned
    /\ watch # {} => seen = owned

\* The read has to fit the request before the watched orders are looked at.
Fits ==
    CASE task.kind = "start"     -> watch # {} => task.seen = owned
      [] task.kind = "check"     -> Acceptable(task.seen)
      [] task.kind \in Archiving -> task.found = Unknown => task.seen = owned
      [] task.kind = "flatten"   -> task.seen = Nothing
      [] OTHER                   -> TRUE

\* reconcile_flat does not ask for watched orders, nor does a request that has
\* found receipts.
AsksWatch == task.kind # "flatten" /\ ~(task.kind \in Archiving /\ task.found # Unknown)

EndRead ==
    /\ task.step = "read"
    /\ \A l \in Leg : task.seen[l] # Unread
    /\ Current /\ Fits
    /\ task' = [task EXCEPT !.step = "watch", !.left = IF AsksWatch THEN watch \X Leg ELSE {}]
    /\ UNCHANGED <<rows, preview, order, past, told, sent, hands>>

\* require_archived_orders_clear, one order at a time; a fill stops the request.
QueryWatched(n, l) ==
    /\ task.step = "watch" /\ <<n, l>> \in task.left
    /\ Found(n, l) # "filled"
    /\ task' = [task EXCEPT !.left = @ \ {<<n, l>>}]
    /\ UNCHANGED <<rows, preview, order, past, told, sent, hands>>

Checked(k) == task.kind = k /\ task.step = "watch" /\ task.left = {}

-----------------------------------------------------------------------------
(* Commits *)

\* Mutant: the transaction trusts the check made when the read ended.
StillCurrentTrusting == TRUE

\* check_current, inside the transaction and under both revocation locks.
StillCurrent == Current

Fingerprint == <<owned, pend, watch>>

Confirmed == preview # NoPreview /\ preview.print = Fingerprint

Preview(k) ==
    /\ preview' = [kind |-> k, actual |-> task.seen, print |-> Fingerprint]
    /\ Finish
    /\ UNCHANGED <<rows, order, past, told, sent, hands>>

PreviewArchive == Checked("archivePreview") /\ task.found = Unknown /\ Preview("archive")
PreviewBase    == Checked("basePreview") /\ Preview("rebase")

\* _restore_receipts: what was found is kept, the batch stays pending, and a
\* confirmation ends here too.
RestoreReceipts ==
    /\ \E k \in Archiving : Checked(k)
    /\ task.found # Unknown
    /\ task.kind = "archive" => Confirmed
    /\ StillCurrent
    /\ receipt' = task.found
    /\ preview' = NoPreview
    /\ Finish
    /\ UNCHANGED <<on, owned, pend, watch, order, past, told, sent, hands>>

Archive ==
    /\ Checked("archive") /\ task.found = Unknown
    /\ Confirmed /\ preview.kind = "archive"
    /\ Cardinality(watch) < MaxWatch
    /\ StillCurrent
    /\ watch' = watch \cup {pend}
    /\ pend' = 0
    /\ preview' = NoPreview
    /\ Finish
    /\ UNCHANGED <<on, owned, receipt, order, past, told, sent, hands>>

Adopt ==
    /\ StillCurrent
    /\ owned' = task.seen
    /\ Finish
    /\ UNCHANGED <<watch, order, past, told, sent, hands>>

Rebase ==
    /\ Checked("rebase")
    /\ Confirmed /\ preview.kind = "rebase" /\ preview.actual = task.seen
    /\ Adopt
    /\ preview' = NoPreview
    /\ UNCHANGED <<on, pend, receipt>>

\* activate_pair; the new revision of the pair outdates every preview.
Start ==
    /\ Checked("start")
    /\ Adopt
    /\ on' = TRUE
    /\ preview' = NoPreview
    /\ UNCHANGED <<pend, receipt>>

\* reconcile_positions ends the batch with the positions it has.
CheckAdopts ==
    /\ Checked("check")
    /\ Adopt
    /\ pend' = 0
    /\ UNCHANGED <<on, receipt, preview>>

\* The completion of _recover, without the review and without asking for watched
\* orders: the positions are what the receipts say, and all or nothing was filled.
\* After half a batch a check only reports (Fail).
CheckCompletes ==
    /\ task.kind = "check" /\ task.step = "read"
    /\ task.seen = ByReceipts
    /\ receipt = Filled \/ task.seen = owned
    /\ Adopt
    /\ pend' = 0
    /\ UNCHANGED <<on, receipt, preview>>

FlattenBase ==
    /\ Checked("flatten")
    /\ Adopt
    /\ UNCHANGED <<on, pend, receipt, preview>>

\* skip_positions: the batch ends unverified; the next start reads the base.
SkipPositions ==
    /\ task = NoTask /\ ~on
    /\ pend # 0 /\ Terminal(receipt)
    /\ pend' = 0
    /\ preview' = IF preview.kind = "archive" THEN NoPreview ELSE preview
    /\ UNCHANGED <<on, owned, receipt, watch, task, order, past, told, sent, hands>>

-----------------------------------------------------------------------------
RecoveryNext ==
    \/ OpenBatch \/ Stop
    \/ \E k \in Archiving \cup Rebasing \cup {"start", "check", "flatten"} : Begin(k)
    \/ Fail \/ Expire
    \/ \E l \in Leg : QueryLeg(l) \/ Sample(l)
    \/ EndLegs \/ EndRead
    \/ \E n \in Batch, l \in Leg : QueryWatched(n, l)
    \/ PreviewArchive \/ PreviewBase \/ RestoreReceipts
    \/ Archive \/ Rebase \/ Start \/ CheckAdopts \/ CheckCompletes \/ FlattenBase \/ SkipPositions
    \/ \E l \in Leg : TradeByHand(l) \/ Announce(l)
    \/ \E n \in Batch, l \in Leg : OrderExecutes(n, l) \/ OrderEnds(n, l)

RecoverySpec == RecoveryInit /\ [][RecoveryNext]_recoveryVars

-----------------------------------------------------------------------------
(* Properties *)

\* The step ends a batch, and the base becomes exactly what its filled receipts add.
ByOwnFills == pend # 0 /\ pend' = 0 /\ receipt = Filled /\ owned' = ByReceipts

\* Account l has had position qty since its last announced event, and no step of
\* a watched order was in it; a batch explained by its own fills is not asked that.
Sound(l, qty) ==
    \E i \in told[l] .. Len(past[l]) :
        /\ Qty(past[l][i]) = qty
        /\ qty > 0 => ByOwnFills \/ past[l][i].filled \cap watch = {}

\* Whatever a group takes for its base when it starts or is reconciled was
\* really held and is not older than the last thing the account announced.  It
\* counts no order that was archived as unknown: those may still execute, and
\* then stop the group instead of becoming part of it.  One case is weaker: a
\* batch that ends with exactly what its own receipts say, where the late fill
\* of an archived order may hide behind a trade by hand.
BaseIsSound ==
    [][owned' # owned \/ (on' /\ ~on) => \A l \in Leg : Sound(l, owned'[l])]_recoveryVars

=============================================================================

--------------------------- MODULE GroupRegistry ----------------------------
(***************************************************************************)
(* Who runs an account: its own strategy, or one pair group.               *)
(*                                                                         *)
(* Requests of the web page and turns of the scheduler run on workers.     *)
(* Each takes its locks one by one (src/trading/pairing.py, engine.py),    *)
(* checks, reads the exchange where it must, and commits one transaction   *)
(* that checks again (src/trading/store.py).  While it waits or reads,     *)
(* other workers go on.                                                    *)
(*                                                                         *)
(* An account's own unfinished business is an open intent or post-fill     *)
(* check ("intent"), or cycle quantities it holds ("holding").  A group's  *)
(* is a batch, cycle or transfer under way ("pending"), a transfer of      *)
(* unknown outcome that may be resumed ("transfer"), or a base position    *)
(* ("base").  Which of them a turn leaves behind is free.  What the        *)
(* exchange shows is free too: a read may refuse any request               *)
(* (GroupRecovery says what a read is worth).  Policies, names and modes   *)
(* are left out, and so is configure, which changes nothing else.          *)
(***************************************************************************)
EXTENDS Integers, Sequences

CONSTANTS
    Account,        \* account ids, ordered as the locks sort them
    Group,          \* pair ids
    Long, Short,    \* the two accounts of each group's request
    Worker,         \* threads of the web server and of the scheduler
    NoGroup

ASSUME RegistryAssumption ==
    /\ Account \subseteq Nat
    /\ Long \in [Group -> Account] /\ Short \in [Group -> Account]
    /\ \A g \in Group : Long[g] # Short[g]
    /\ NoGroup \notin Group

VARIABLES
    account,        \* the accounts and deleted_accounts tables
    enabled,        \* account.enabled
    own,            \* unfinished business of the account's own strategy
    group,          \* the pairs table and the pair_deleted keys
    member,         \* the pair_members table
    work,           \* unfinished business of the group
    job             \* what each worker is doing and how many locks it holds

registryVars == <<account, enabled, own, group, member, work, job>>

AccountKind == {"add", "remove", "enable", "pause", "turn"}
GroupKind   == {"create", "start", "stop", "delete", "flatten", "turnGroup"}
Reading     == {"enable", "create", "start", "delete", "flatten"}

NoJob == [kind |-> "none", on |-> NoGroup, got |-> 0, read |-> FALSE]

Jobs == {NoJob}
        \cup [kind : AccountKind, on : Account, got : 0 .. 2, read : BOOLEAN]
        \cup [kind : GroupKind, on : Group, got : 0 .. 4, read : BOOLEAN]

Members(g) == {Long[g], Short[g]}
Exists(g)  == group[g] \in {"paused", "enabled"}

RegistryTypeOK ==
    /\ account \in [Account -> {"absent", "present", "deleted"}]
    /\ enabled \in [Account -> BOOLEAN]
    /\ own \in [Account -> {"none", "intent", "holding"}]
    /\ group \in [Group -> {"absent", "paused", "enabled", "deleted"}]
    /\ member \in [Account -> Group \cup {NoGroup}]
    /\ work \in [Group -> {"none", "pending", "transfer", "base"}]
    /\ job \in [Worker -> Jobs]

RegistryInit ==
    /\ account = [a \in Account |-> "absent"]
    /\ enabled = [a \in Account |-> FALSE]
    /\ own = [a \in Account |-> "none"]
    /\ group = [g \in Group |-> "absent"]
    /\ member = [a \in Account |-> NoGroup]
    /\ work = [g \in Group |-> "none"]
    /\ job = [w \in Worker |-> NoJob]

-----------------------------------------------------------------------------
(* Locks *)

Registration  == <<"registration", 0>>
AccountLock(a) == <<"account", a>>
GroupLock(g)   == <<"group", g>>

\* Mutant: the members' locks in the order of the group's directions.
MemberLocksByDirection(g) == <<AccountLock(Long[g]), AccountLock(Short[g])>>

\* locked: the group's lock, then both accounts' in the order of their ids.
MemberLocks(g) ==
    IF Long[g] < Short[g] THEN <<AccountLock(Long[g]), AccountLock(Short[g])>>
                          ELSE <<AccountLock(Short[g]), AccountLock(Long[g])>>

Locks(j) ==
    CASE j.kind = "none"                  -> << >>
      [] j.kind = "add"                   -> <<Registration>>
      [] j.kind = "remove"                -> <<AccountLock(j.on), Registration>>
      [] j.kind \in {"enable", "pause", "turn"} -> <<AccountLock(j.on)>>
      [] j.kind \in {"create", "delete"}  -> <<GroupLock(j.on)>> \o MemberLocks(j.on) \o <<Registration>>
      [] OTHER                            -> <<GroupLock(j.on)>> \o MemberLocks(j.on)

Holds(w)    == {Locks(job[w])[i] : i \in 1 .. job[w].got}
HasAll(w)  == job[w].got = Len(Locks(job[w]))
CanTake(w) == ~HasAll(w) /\ \A v \in Worker \ {w} : Locks(job[w])[job[w].got + 1] \notin Holds(v)

Submit(w) ==
    /\ job[w] = NoJob
    /\ \/ \E k \in AccountKind, a \in Account : job' = [job EXCEPT ![w] = [NoJob EXCEPT !.kind = k, !.on = a]]
       \/ \E k \in GroupKind, g \in Group :
             /\ k # "create" => Exists(g)
             /\ job' = [job EXCEPT ![w] = [NoJob EXCEPT !.kind = k, !.on = g]]
    /\ UNCHANGED <<account, enabled, own, group, member, work>>

Take(w) ==
    /\ CanTake(w)
    /\ job' = [job EXCEPT ![w].got = @ + 1]
    /\ UNCHANGED <<account, enabled, own, group, member, work>>

Done(w)   == job' = [job EXCEPT ![w] = NoJob]
Runs(w, k) == job[w].kind = k /\ HasAll(w)

\* Any check or read may raise; the locks are released on the way out.
Refuse(w) ==
    /\ job[w] # NoJob /\ HasAll(w)
    /\ Done(w)
    /\ UNCHANGED <<account, enabled, own, group, member, work>>

-----------------------------------------------------------------------------
(* What is checked before the exchange is read *)

\* _members: both accounts exist, are paused, are in no other group and have
\* finished what their own strategies began.
MembersReady(g) ==
    \A a \in Members(g) : /\ account[a] = "present" /\ ~enabled[a]
                          /\ member[a] \in {NoGroup, g}
                          /\ own[a] = "none"

\* _idle, apart from its flatness check; only a start may resume a transfer.
Idle(g, resume) ==
    /\ group[g] = "paused" /\ work[g] # "pending"
    /\ work[g] = "transfer" => resume

Unbound(a) == member[a] = NoGroup

MayRead(j) ==
    CASE j.kind = "enable"  -> Unbound(j.on) /\ account[j.on] = "present" /\ own[j.on] # "intent"
      [] j.kind = "create"  -> group[j.on] # "deleted" /\ MembersReady(j.on)
      [] j.kind = "start"   -> Idle(j.on, TRUE) /\ MembersReady(j.on)
      [] j.kind = "delete"  -> Idle(j.on, FALSE) /\ work[j.on] = "none" /\ MembersReady(j.on)
      [] j.kind = "flatten" -> Idle(j.on, FALSE) /\ MembersReady(j.on)
      [] OTHER -> FALSE

Read(w) ==
    /\ job[w].kind \in Reading /\ HasAll(w) /\ ~job[w].read
    /\ MayRead(job[w])
    /\ job' = [job EXCEPT ![w].read = TRUE]
    /\ UNCHANGED <<account, enabled, own, group, member, work>>

HasRead(w, k) == Runs(w, k) /\ job[w].read

-----------------------------------------------------------------------------
(* Accounts *)

\* save_account's transaction.
MaySave(a, on) == account[a] # "deleted" /\ (on => Unbound(a))

AddAccount(w) ==
    /\ Runs(w, "add")
    /\ account[job[w].on] = "absent"
    /\ MaySave(job[w].on, FALSE)
    /\ account' = [account EXCEPT ![job[w].on] = "present"]
    /\ enabled' = [enabled EXCEPT ![job[w].on] = FALSE]
    /\ Done(w)
    /\ UNCHANGED <<own, group, member, work>>

\* Mutant: the transaction forgets that the account may belong to a group.
RemoveAccountUnchecked(w) ==
    /\ Runs(w, "remove")
    /\ account[job[w].on] = "present"
    /\ ~enabled[job[w].on] /\ own[job[w].on] = "none"
    /\ account' = [account EXCEPT ![job[w].on] = "deleted"]
    /\ Done(w)
    /\ UNCHANGED <<enabled, own, group, member, work>>

\* deletion_block: paused, no intent or check, no cycle position.
Removable(a) == ~enabled[a] /\ own[a] = "none"

RemoveAccount(w) ==
    /\ Runs(w, "remove")
    /\ Unbound(job[w].on)
    /\ account[job[w].on] = "present"
    /\ Removable(job[w].on)
    /\ account' = [account EXCEPT ![job[w].on] = "deleted"]
    /\ Done(w)
    /\ UNCHANGED <<enabled, own, group, member, work>>

EnableAccount(w) ==
    /\ HasRead(w, "enable")
    /\ MaySave(job[w].on, TRUE)
    /\ enabled' = [enabled EXCEPT ![job[w].on] = TRUE]
    /\ Done(w)
    /\ UNCHANGED <<account, own, group, member, work>>

PauseAccount(w) ==
    /\ Runs(w, "pause")
    /\ Unbound(job[w].on) /\ account[job[w].on] = "present"
    /\ MaySave(job[w].on, FALSE)
    /\ enabled' = [enabled EXCEPT ![job[w].on] = FALSE]
    /\ Done(w)
    /\ UNCHANGED <<account, own, group, member, work>>

\* The scheduler's turn of an account that no group runs: it settles an open
\* intent, whatever the account's state, or starts one.
AccountTurn(w) ==
    LET a == job[w].on IN
    /\ Runs(w, "turn")
    /\ Unbound(a) /\ account[a] = "present"
    /\ own[a] = "intent" \/ enabled[a]
    /\ \E left \in IF own[a] = "intent" THEN {"none", "holding"} ELSE {"intent"} :
          own' = [own EXCEPT ![a] = left]
    /\ Done(w)
    /\ UNCHANGED <<account, enabled, group, member, work>>

-----------------------------------------------------------------------------
(* Groups *)

\* _save_pair inside the caller's transaction; MayReserve is what it checks.
MayReserve(g) ==
    \A a \in Members(g) : /\ account[a] = "present" /\ ~enabled[a]
                          /\ member[a] \in {NoGroup, g}
                          /\ own[a] # "intent"

SavePair(g, state) ==
    /\ MayReserve(g)
    /\ group' = [group EXCEPT ![g] = state]
    /\ member' = [a \in Account |-> IF a \in Members(g) THEN g ELSE member[a]]

CreateGroup(w) ==
    /\ HasRead(w, "create")
    /\ group[job[w].on] = "absent"
    /\ SavePair(job[w].on, "paused")
    /\ Done(w)
    /\ UNCHANGED <<account, enabled, own, work>>

\* activate_pair: the base is whatever both accounts hold, and a transfer of
\* unknown outcome stays on record.
StartGroup(w) ==
    /\ HasRead(w, "start")
    /\ group[job[w].on] = "paused"
    /\ SavePair(job[w].on, "enabled")
    /\ \E base \in IF work[job[w].on] = "transfer" THEN {"transfer"} ELSE {"none", "base"} :
          work' = [work EXCEPT ![job[w].on] = base]
    /\ Done(w)
    /\ UNCHANGED <<account, enabled, own>>

StopGroup(w) ==
    /\ Runs(w, "stop")
    /\ Exists(job[w].on)
    /\ SavePair(job[w].on, "paused")
    /\ Done(w)
    /\ UNCHANGED <<account, enabled, own, work>>

DeleteGroup(w) ==
    LET g == job[w].on IN
    /\ HasRead(w, "delete")
    /\ group[g] = "paused" /\ work[g] = "none"
    /\ group' = [group EXCEPT ![g] = "deleted"]
    /\ member' = [a \in Account |-> IF member[a] = g THEN NoGroup ELSE member[a]]
    /\ Done(w)
    /\ UNCHANGED <<account, enabled, own, work>>

\* reconcile_flat: both accounts are empty, so the recorded base is cleared.
Flatten(w) ==
    /\ HasRead(w, "flatten")
    /\ Idle(job[w].on, FALSE)
    /\ work' = [work EXCEPT ![job[w].on] = "none"]
    /\ Done(w)
    /\ UNCHANGED <<account, enabled, own, group, member>>

\* tick: a paused group only settles what it has; an enabled one also starts.
GroupTurn(w) ==
    LET g == job[w].on IN
    /\ Runs(w, "turnGroup")
    /\ Exists(g) /\ MembersReady(g)
    /\ \/ /\ work[g] \in {"pending", "transfer"}
          /\ \E left \in {"none", "transfer", "base"} : work' = [work EXCEPT ![g] = left]
       \/ /\ work[g] \in {"none", "base"} /\ group[g] = "enabled"
          /\ work' = [work EXCEPT ![g] = "pending"]
    /\ Done(w)
    /\ UNCHANGED <<account, enabled, own, group, member>>

-----------------------------------------------------------------------------
RegistryNext ==
    \E w \in Worker :
        \/ Submit(w) \/ Take(w) \/ Read(w) \/ Refuse(w)
        \/ AddAccount(w) \/ RemoveAccount(w) \/ EnableAccount(w) \/ PauseAccount(w) \/ AccountTurn(w)
        \/ CreateGroup(w) \/ StartGroup(w) \/ StopGroup(w) \/ DeleteGroup(w) \/ Flatten(w) \/ GroupTurn(w)

RegistrySpec == RegistryInit /\ [][RegistryNext]_registryVars

-----------------------------------------------------------------------------
(* Properties *)

\* Every account has one owner at most, and what an owner began is never left
\* without one.  An account of a group exists, is in that group alone, and its
\* own strategy neither runs nor has anything open; whoever is deleted, account
\* or group, owns nothing any more.
ExclusiveOwnership ==
    /\ \A g \in Group, a \in Account : Exists(g) /\ a \in Members(g) =>
          account[a] = "present" /\ member[a] = g /\ ~enabled[a] /\ own[a] = "none"
    /\ \A a \in Account : member[a] # NoGroup => Exists(member[a]) /\ a \in Members(member[a])
    /\ \A g \in Group : ~Exists(g) => work[g] = "none"
    /\ \A a \in Account : account[a] # "present" => ~enabled[a] /\ own[a] = "none"

\* Workers never all wait for each other's locks.
NoStandoff ==
    (\E w \in Worker : job[w] # NoJob) => \E w \in Worker : job[w] # NoJob /\ (HasAll(w) \/ CanTake(w))

=============================================================================

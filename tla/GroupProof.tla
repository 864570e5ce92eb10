----------------------------- MODULE GroupProof -----------------------------
(***************************************************************************)
(* Proofs about a group of accounts, for any accounts, groups, workers and *)
(* sides, and any bounds: who owns an account (GroupRegistry), what a      *)
(* group takes for its base (GroupRecovery), what its alert speaks of      *)
(* (ImbalanceAlert), and what its abstract ledger promises (PairLedger).   *)
(*                                                                         *)
(* ExclusiveOwnership.                                                     *)
(* The commits check again who owns an account, but two of them rely on    *)
(* what the read saw and on the locks held since: an account that is       *)
(* enabled still exists, and one that joins a group has nothing open.      *)
(* So the invariant also says that no lock has two holders, that a request *)
(* has read only with all its locks, and that what it read still holds.    *)
(*                                                                         *)
(* BaseIsSound.                                                            *)
(* A read is of a position the account had, no earlier than the last event *)
(* it had announced, and positions are only ever added to.  A watched      *)
(* order found not to have executed is in no position so far, so the one   *)
(* read stays free of it.  The commit finds no newer event.  A batch that  *)
(* is completed by its receipts asks for no watched order, but then the    *)
(* base is the old one and its own fills.                                  *)
(*                                                                         *)
(* AlertsAreAboutRest.                                                     *)
(* The activity in a sample tells whether a batch ran when it was taken.   *)
(* A sample later than the first of a window was taken after that one had  *)
(* been collected, so both lie within the activity captured there.         *)
(***************************************************************************)
EXTENDS GroupRegistry, GroupRecovery, ImbalanceAlert, PairLedger, SequenceTheorems,
        FiniteSetTheorems, WellFoundedInduction, TLAPS

\* No lock has two holders.
Apart == \A v, w \in Worker : v # w => Holds(v) \cap Holds(w) = {}

\* A job holds no more locks than it needs, and all of them once it has read.
Counted == \A w \in Worker : /\ job[w].got <= Len(Locks(job[w]))
                             /\ job[w].read => HasAll(w)

\* What a request read is still so.
StillSo == \A w \in Worker : job[w].read =>
    /\ job[w].kind = "enable" => account[job[w].on] = "present"
    /\ job[w].kind \in {"create", "start"} => \A a \in Members(job[w].on) : own[a] = "none"

RegistryInv == RegistryTypeOK /\ Apart /\ Counted /\ StillSo /\ ExclusiveOwnership

-----------------------------------------------------------------------------
(* Jobs and locks *)

LEMMA NoJobIsIdle == /\ NoJob.kind = "none" /\ NoJob.got = 0 /\ NoJob.read = FALSE
                     /\ Locks(NoJob) = << >> /\ NoJob \in Jobs
  BY DEF NoJob, Locks, Jobs

\* A job is idle, or concerns an account or a group.
LEMMA JobCases ==
  ASSUME NEW j \in Jobs
  PROVE  /\ j.got \in Nat /\ j.read \in BOOLEAN
         /\ \/ j = NoJob
            \/ j.kind \in AccountKind /\ j.on \in Account /\ j.got <= 2
            \/ j.kind \in GroupKind /\ j.on \in Group /\ j.got <= 4
<1>1. CASE j = NoJob
  <2>1. j.got = 0 /\ j.read = FALSE
    BY <1>1, NoJobIsIdle
  <2>2. j.got \in Nat
    BY <2>1
  <2>3. j.read \in BOOLEAN
    BY <2>1, Zenon
  <2> QED BY <1>1, <2>2, <2>3
<1>2. CASE j \in [kind : AccountKind, on : Account, got : 0 .. 2, read : BOOLEAN]
  BY <1>2
<1>3. CASE j \in [kind : GroupKind, on : Group, got : 0 .. 4, read : BOOLEAN]
  BY <1>3
<1> QED BY <1>1, <1>2, <1>3 DEF Jobs

\* A request that arrives.
LEMMA NewAccountJob ==
  ASSUME NEW k \in AccountKind, NEW a \in Account
  PROVE  \E j \in Jobs : j = [NoJob EXCEPT !.kind = k, !.on = a] /\ j.got = 0 /\ j.read = FALSE
<1> DEFINE j == [NoJob EXCEPT !.kind = k, !.on = a]
<1>1. NoJob \in [kind : {"none"}, on : {NoGroup}, got : 0 .. 2, read : BOOLEAN]
  BY DEF NoJob
<1>2. j \in [kind : AccountKind, on : Account, got : 0 .. 2, read : BOOLEAN]
  BY <1>1
<1>3. j.got = 0 /\ j.read = FALSE
  BY DEF NoJob
<1> QED BY <1>2, <1>3 DEF Jobs

LEMMA NewGroupJob ==
  ASSUME NEW k \in GroupKind, NEW g \in Group
  PROVE  \E j \in Jobs : j = [NoJob EXCEPT !.kind = k, !.on = g] /\ j.got = 0 /\ j.read = FALSE
<1> DEFINE j == [NoJob EXCEPT !.kind = k, !.on = g]
<1>1. NoJob \in [kind : {"none"}, on : {NoGroup}, got : 0 .. 4, read : BOOLEAN]
  BY DEF NoJob
<1>2. j \in [kind : GroupKind, on : Group, got : 0 .. 4, read : BOOLEAN]
  BY <1>1
<1>3. j.got = 0 /\ j.read = FALSE
  BY DEF NoJob
<1> QED BY <1>2, <1>3 DEF Jobs

\* One lock more, or a read, makes a job of the same kind.
LEMMA JobTakes ==
  ASSUME NEW j \in Jobs, j # NoJob, NEW n \in Nat,
         j.kind \in AccountKind => n <= 2, j.kind \in GroupKind => n <= 4
  PROVE  LET k == [j EXCEPT !.got = n] IN
         k \in Jobs /\ k.kind = j.kind /\ k.on = j.on /\ k.got = n /\ k.read = j.read
<1>1. CASE j \in [kind : AccountKind, on : Account, got : 0 .. 2, read : BOOLEAN]
  <2>1. n \in 0 .. 2
    BY <1>1
  <2> QED BY <1>1, <2>1 DEF Jobs
<1>2. CASE j \in [kind : GroupKind, on : Group, got : 0 .. 4, read : BOOLEAN]
  <2>1. n \in 0 .. 4
    BY <1>2
  <2> QED BY <1>2, <2>1 DEF Jobs
<1> QED BY <1>1, <1>2 DEF Jobs

LEMMA JobReads ==
  ASSUME NEW j \in Jobs, j # NoJob
  PROVE  LET k == [j EXCEPT !.read = TRUE] IN
         k \in Jobs /\ k.kind = j.kind /\ k.on = j.on /\ k.got = j.got /\ k.read = TRUE
<1>1. CASE j \in [kind : AccountKind, on : Account, got : 0 .. 2, read : BOOLEAN]
  BY <1>1 DEF Jobs
<1>2. CASE j \in [kind : GroupKind, on : Group, got : 0 .. 4, read : BOOLEAN]
  BY <1>2 DEF Jobs
<1> QED BY <1>1, <1>2 DEF Jobs

\* Every lock there is.
AnyLock == {Registration} \cup {AccountLock(a) : a \in Account} \cup {GroupLock(g) : g \in Group}

\* The sequence of a, b and c, also with d at its end.
Led(s, a, b, c, d) ==
    /\ Len(s) = 3 /\ s[1] = a /\ s[2] = b /\ s[3] = c
    /\ Len(s \o <<d>>) = 4
    /\ (s \o <<d>>)[1] = a /\ (s \o <<d>>)[2] = b /\ (s \o <<d>>)[3] = c /\ (s \o <<d>>)[4] = d

LEMMA Joined ==
  ASSUME NEW S, NEW a \in S, NEW b \in S, NEW c \in S, NEW d \in S
  PROVE  Led(<<a>> \o <<b, c>>, a, b, c, d)
<1> DEFINE s == <<a>> \o <<b, c>>
<1>1. /\ <<a>> \in Seq(S) /\ Len(<<a>>) = 1 /\ <<a>>[1] = a
      /\ <<b, c>> \in Seq(S) /\ Len(<<b, c>>) = 2 /\ <<b, c>>[1] = b /\ <<b, c>>[2] = c
      /\ <<d>> \in Seq(S) /\ Len(<<d>>) = 1 /\ <<d>>[1] = d
  OBVIOUS
<1>2. s \in Seq(S) /\ Len(s) = 3 /\ s[1] = a /\ s[2] = b /\ s[3] = c
  <2>1. /\ s \in Seq(S) /\ Len(s) = 1 + 2
        /\ \A i \in 1 .. 1 + 2 : s[i] = IF i <= 1 THEN <<a>>[i] ELSE <<b, c>>[i - 1]
    BY <1>1, ConcatProperties
  <2> QED BY <1>1, <2>1
<1> HIDE DEF s
<1>3. /\ Len(s \o <<d>>) = 4
      /\ (s \o <<d>>)[1] = a /\ (s \o <<d>>)[2] = b /\ (s \o <<d>>)[3] = c /\ (s \o <<d>>)[4] = d
  <2>1. /\ Len(s \o <<d>>) = Len(s) + Len(<<d>>)
        /\ \A i \in 1 .. Len(s) + Len(<<d>>) :
              (s \o <<d>>)[i] = IF i <= Len(s) THEN s[i] ELSE <<d>>[i - Len(s)]
    <3>1. s \in Seq(S) /\ <<d>> \in Seq(S)
      BY <1>1, <1>2
    <3> QED BY <3>1, ConcatProperties, SMTT(30)
  <2> QED BY <1>1, <1>2, <2>1
<1> QED BY <1>2, <1>3 DEF s, Led

\* The locks of a group: its own, then both accounts' in the order of their ids.
LEMMA GroupLocks ==
  ASSUME RegistryAssumption, NEW g \in Group
  PROVE  \E a, b \in Account :
           /\ Members(g) = {a, b} /\ a < b
           /\ Led(<<GroupLock(g)>> \o MemberLocks(g), GroupLock(g), AccountLock(a), AccountLock(b), Registration)
<1>1. \A a, b \in Account :
        Led(<<GroupLock(g)>> \o <<AccountLock(a), AccountLock(b)>>,
            GroupLock(g), AccountLock(a), AccountLock(b), Registration)
  <2>1. \A a \in Account : AccountLock(a) \in AnyLock
    BY DEF AnyLock
  <2>2. GroupLock(g) \in AnyLock /\ Registration \in AnyLock
    BY DEF AnyLock
  <2> QED BY <2>1, <2>2, Joined
<1>2. Long[g] \in Account /\ Short[g] \in Account /\ Long[g] # Short[g] /\ Account \subseteq Nat
  BY DEF RegistryAssumption
<1>3. CASE Long[g] < Short[g]
  <2>1. MemberLocks(g) = <<AccountLock(Long[g]), AccountLock(Short[g])>>
    BY <1>3 DEF MemberLocks
  <2>2. Led(<<GroupLock(g)>> \o MemberLocks(g),
            GroupLock(g), AccountLock(Long[g]), AccountLock(Short[g]), Registration)
    BY <1>1, <1>2, <2>1
  <2> QED BY <1>2, <1>3, <2>2 DEF Members
<1>4. CASE ~(Long[g] < Short[g])
  <2>1. MemberLocks(g) = <<AccountLock(Short[g]), AccountLock(Long[g])>>
    BY <1>4 DEF MemberLocks
  <2>2. Led(<<GroupLock(g)>> \o MemberLocks(g),
            GroupLock(g), AccountLock(Short[g]), AccountLock(Long[g]), Registration)
    BY <1>1, <1>2, <2>1
  <2>3. Members(g) = {Short[g], Long[g]}
    BY DEF Members
  <2>4. Long[g] \in Nat /\ Short[g] \in Nat
    BY <1>2
  <2>5. Short[g] < Long[g]
    BY <1>2, <1>4, <2>4
  <2> QED BY <1>2, <2>2, <2>3, <2>5
<1> QED BY <1>3, <1>4

\* How many locks a job takes, and which are among them.
LEMMA LocksOf ==
  ASSUME RegistryAssumption, NEW j \in Jobs
  PROVE  /\ Len(Locks(j)) \in Nat
         /\ j = NoJob => Len(Locks(j)) = 0
         /\ j.kind \in AccountKind => Len(Locks(j)) <= 2
         /\ j.kind \in GroupKind => Len(Locks(j)) <= 4
         /\ j.kind \in AccountKind \ {"add"} =>
              \E i \in 1 .. Len(Locks(j)) : Locks(j)[i] = AccountLock(j.on)
         /\ j.kind \in GroupKind =>
              \A a \in Members(j.on) : \E i \in 1 .. Len(Locks(j)) : Locks(j)[i] = AccountLock(a)
<1>1. CASE j = NoJob
  BY <1>1, NoJobIsIdle DEF AccountKind, GroupKind
<1>2. CASE j.kind \in AccountKind
  <2>1. CASE j.kind = "add"
    <3>1. Locks(j) = <<Registration>>
      BY <2>1 DEF Locks
    <3> QED BY <2>1, <3>1, NoJobIsIdle DEF GroupKind
  <2>2. CASE j.kind = "remove"
    <3>1. Locks(j) = <<AccountLock(j.on), Registration>>
      BY <2>2 DEF Locks
    <3>2. Len(Locks(j)) = 2 /\ 1 \in 1 .. 2 /\ Locks(j)[1] = AccountLock(j.on)
      BY <3>1
    <3> QED BY <2>2, <3>2, NoJobIsIdle DEF GroupKind
  <2>3. CASE j.kind \in {"enable", "pause", "turn"}
    <3>1. Locks(j) = <<AccountLock(j.on)>>
      BY <2>3 DEF Locks
    <3>2. Len(Locks(j)) = 1 /\ 1 \in 1 .. 1 /\ Locks(j)[1] = AccountLock(j.on)
      BY <3>1
    <3> QED BY <2>3, <3>2, NoJobIsIdle DEF GroupKind
  <2> QED BY <1>2, <2>1, <2>2, <2>3 DEF AccountKind
<1>3. CASE j.kind \in GroupKind
  <2>1. j.on \in Group /\ j # NoJob /\ j.kind \notin AccountKind
    BY <1>3, JobCases, NoJobIsIdle DEF AccountKind, GroupKind
  <2> DEFINE s == <<GroupLock(j.on)>> \o MemberLocks(j.on)
  <2>2. PICK a, b \in Account :
           Members(j.on) = {a, b} /\ a < b /\ Led(s, GroupLock(j.on), AccountLock(a), AccountLock(b), Registration)
    BY <2>1, GroupLocks
  <2>3. Locks(j) = IF j.kind \in {"create", "delete"} THEN s \o <<Registration>> ELSE s
    BY <1>3 DEF Locks, GroupKind
  <2> HIDE DEF s
  <2> QED BY <2>1, <2>2, <2>3 DEF Led
<1> QED BY <1>1, <1>2, <1>3, JobCases

\* The order all jobs follow when no account id is above n: groups, accounts
\* by id, registration.
Rank(n, lock) == CASE lock[1] = "group" -> 0 [] lock[1] = "account" -> lock[2] + 1 [] OTHER -> n + 2

LEMMA Ranks ==
  ASSUME NEW n \in Nat, NEW g, NEW a
  PROVE  Rank(n, GroupLock(g)) = 0 /\ Rank(n, AccountLock(a)) = a + 1 /\ Rank(n, Registration) = n + 2
BY DEF Rank, GroupLock, AccountLock, Registration

LEMMA LocksInOrder ==
  ASSUME RegistryAssumption, NEW n \in Nat, Account \subseteq 0 .. n, NEW j \in Jobs
  PROVE  /\ \A i \in 1 .. Len(Locks(j)) : Rank(n, Locks(j)[i]) \in 0 .. (n + 2)
         /\ \A i, k \in 1 .. Len(Locks(j)) : i < k => Rank(n, Locks(j)[i]) < Rank(n, Locks(j)[k])
<1>1. CASE j = NoJob
  BY <1>1, NoJobIsIdle
<1>2. CASE j.kind \in AccountKind
  <2>1. j.on \in 0 .. n
    BY <1>2, JobCases, NoJobIsIdle DEF AccountKind, GroupKind
  <2>0. /\ Rank(n, AccountLock(j.on)) = j.on + 1 /\ Rank(n, Registration) = n + 2
        /\ j.on + 1 \in 0 .. (n + 2) /\ n + 2 \in 0 .. (n + 2) /\ j.on + 1 < n + 2
    BY <2>1, Ranks
  <2>2. CASE j.kind = "add"
    <3>1. Locks(j) = <<Registration>>
      BY <2>2 DEF Locks
    <3>2. Len(Locks(j)) = 1 /\ Locks(j)[1] = Registration
      BY <3>1
    <3> QED BY <2>0, <3>2
  <2>3. CASE j.kind = "remove"
    <3>1. Locks(j) = <<AccountLock(j.on), Registration>>
      BY <2>3 DEF Locks
    <3>2. Len(Locks(j)) = 2 /\ Locks(j)[1] = AccountLock(j.on) /\ Locks(j)[2] = Registration
      BY <3>1
    <3> QED BY <2>0, <3>2
  <2>4. CASE j.kind \in {"enable", "pause", "turn"}
    <3>1. Locks(j) = <<AccountLock(j.on)>>
      BY <2>4 DEF Locks
    <3>2. Len(Locks(j)) = 1 /\ Locks(j)[1] = AccountLock(j.on)
      BY <3>1
    <3> QED BY <2>0, <3>2
  <2> QED BY <1>2, <2>2, <2>3, <2>4 DEF AccountKind
<1>3. CASE j.kind \in GroupKind
  <2>1. j.on \in Group
    BY <1>3, JobCases, NoJobIsIdle DEF AccountKind, GroupKind
  <2> DEFINE s == <<GroupLock(j.on)>> \o MemberLocks(j.on)
  <2>2. PICK a, b \in Account :
           a < b /\ Led(s, GroupLock(j.on), AccountLock(a), AccountLock(b), Registration)
    BY <2>1, GroupLocks
  <2>3. Locks(j) = IF j.kind \in {"create", "delete"} THEN s \o <<Registration>> ELSE s
    BY <1>3 DEF Locks, GroupKind
  <2> HIDE DEF s
  <2>4. a \in 0 .. n /\ b \in 0 .. n
    OBVIOUS
  <2>5. CASE j.kind \in {"create", "delete"}
    <3>1. /\ Len(Locks(j)) = 4
          /\ Locks(j)[1] = GroupLock(j.on) /\ Locks(j)[2] = AccountLock(a)
          /\ Locks(j)[3] = AccountLock(b) /\ Locks(j)[4] = Registration
      BY <2>2, <2>3, <2>5 DEF Led
    <3> QED BY <2>2, <2>4, <3>1, Ranks
  <2>6. CASE j.kind \notin {"create", "delete"}
    <3>1. /\ Len(Locks(j)) = 3
          /\ Locks(j)[1] = GroupLock(j.on) /\ Locks(j)[2] = AccountLock(a) /\ Locks(j)[3] = AccountLock(b)
      BY <2>2, <2>3, <2>6 DEF Led
    <3> QED BY <2>2, <2>4, <3>1, Ranks
  <2> QED BY <2>5, <2>6
<1> QED BY <1>1, <1>2, <1>3, JobCases

-----------------------------------------------------------------------------
(* Exclusion *)

\* The job keeps others away from account a once it has all its locks.
Guards(j, a) == \/ j.kind \in AccountKind \ {"add"} /\ j.on = a
                \/ j.kind \in GroupKind /\ a \in Members(j.on)

LEMMA GuardHolds ==
  ASSUME RegistryAssumption, NEW w \in Worker, job[w] \in Jobs, HasAll(w), NEW a, Guards(job[w], a)
  PROVE  AccountLock(a) \in Holds(w)
<1>1. \E i \in 1 .. Len(Locks(job[w])) : Locks(job[w])[i] = AccountLock(a)
  BY LocksOf DEF Guards
<1> QED BY <1>1 DEF Holds, HasAll

LEMMA OneGuard ==
  ASSUME RegistryAssumption, job \in [Worker -> Jobs], Apart,
         NEW v \in Worker, NEW w \in Worker, v # w, HasAll(v), HasAll(w),
         NEW a, Guards(job[v], a), Guards(job[w], a)
  PROVE  FALSE
<1>1. AccountLock(a) \in Holds(v) /\ AccountLock(a) \in Holds(w)
  BY GuardHolds
<1> QED BY <1>1 DEF Apart

\* When w ends its job, the other jobs are as safe as before: what it changed
\* about an account it changed under the account's lock.
LEMMA JobEnds ==
  ASSUME RegistryAssumption, RegistryInv, NEW w \in Worker, Done(w), HasAll(w),
         \A a \in Account : \/ account[a] = "present" => account'[a] = "present"
                            \/ Guards(job[w], a),
         \A a \in Account : \/ own[a] = "none" => own'[a] = "none"
                            \/ Guards(job[w], a)
  PROVE  job' \in [Worker -> Jobs] /\ Apart' /\ Counted' /\ StillSo'
<1> USE DEF RegistryInv, RegistryTypeOK
<1>1. /\ job' \in [Worker -> Jobs] /\ job'[w] = NoJob
      /\ \A v \in Worker \ {w} : job'[v] = job[v]
  BY NoJobIsIdle DEF Done
<1>2. \A v \in Worker \ {w} : Holds(v)' = Holds(v) /\ HasAll(v)' = HasAll(v)
  BY <1>1 DEF Holds, HasAll
<1>3. Holds(w)' = {} /\ HasAll(w)'
  BY <1>1, NoJobIsIdle DEF Holds, HasAll
<1>4. Apart'
  BY <1>2, <1>3 DEF Apart
<1>5. Counted'
  <2>1. ASSUME NEW v \in Worker
        PROVE  job'[v].got <= Len(Locks(job'[v])) /\ (job'[v].read => HasAll(v)')
    <3>1. CASE v = w
      BY <1>1, <1>3, <3>1, NoJobIsIdle
    <3>2. CASE v # w
      BY <1>1, <1>2, <3>2 DEF Counted
    <3> QED BY <3>1, <3>2
  <2> QED BY <2>1 DEF Counted
<1>6. StillSo'
  <2> SUFFICES ASSUME NEW v \in Worker, job'[v].read
               PROVE  /\ job'[v].kind = "enable" => account'[job'[v].on] = "present"
                      /\ job'[v].kind \in {"create", "start"} => \A a \in Members(job'[v].on) : own'[a] = "none"
    BY DEF StillSo, Members
  <2>1. v # w /\ job'[v] = job[v] /\ job[v].read /\ HasAll(v)
    BY <1>1, NoJobIsIdle DEF Counted
  <2>2. \A a : Guards(job[v], a) => ~Guards(job[w], a)
    BY <2>1, OneGuard
  <2>3. ASSUME job[v].kind = "enable" PROVE account'[job[v].on] = "present"
    <3>1. job[v].on \in Account /\ Guards(job[v], job[v].on)
      BY <2>3, JobCases, NoJobIsIdle DEF AccountKind, GroupKind, Guards
    <3> QED BY <2>1, <2>2, <2>3, <3>1 DEF StillSo
  <2>4. ASSUME job[v].kind \in {"create", "start"}, NEW a \in Members(job[v].on) PROVE own'[a] = "none"
    <3>1. job[v].on \in Group
      BY <2>4, JobCases, NoJobIsIdle DEF AccountKind, GroupKind
    <3>2. a \in Account /\ Guards(job[v], a)
      BY <2>4, <3>1 DEF GroupKind, Guards, Members, RegistryAssumption
    <3> QED BY <2>1, <2>2, <2>4, <3>2 DEF StillSo
  <2> QED BY <2>1, <2>3, <2>4
<1> QED BY <1>1, <1>4, <1>5, <1>6

-----------------------------------------------------------------------------
(* The initial state and the steps that only move jobs *)

\* The invariant holds before the first request.
THEOREM RegistryStarts == RegistryAssumption /\ RegistryInit => RegistryInv
<1> SUFFICES ASSUME RegistryAssumption, RegistryInit PROVE RegistryInv
  OBVIOUS
<1> USE DEF RegistryInit
<1>1. RegistryTypeOK
  BY NoJobIsIdle DEF RegistryTypeOK
<1>2. Apart /\ Counted
  BY NoJobIsIdle DEF Apart, Counted, Holds, HasAll
<1>3. StillSo
  BY NoJobIsIdle DEF StillSo
<1>4. ExclusiveOwnership
  BY RegistryAssumption DEF ExclusiveOwnership, Exists, RegistryAssumption
<1> QED BY <1>1, <1>2, <1>3, <1>4 DEF RegistryInv

tables == <<account, enabled, own, group, member, work>>

LEMMA SameTables ==
  ASSUME RegistryInv, UNCHANGED tables
  PROVE  /\ ExclusiveOwnership'
         /\ job' \in [Worker -> Jobs] => RegistryTypeOK'
  BY DEF RegistryInv, ExclusiveOwnership, Exists, Members, RegistryTypeOK, tables

LEMMA SubmitKeeps ==
  ASSUME RegistryAssumption, RegistryInv, NEW w \in Worker, Submit(w) PROVE RegistryInv'
<1>1. UNCHANGED tables /\ job[w] = NoJob
  BY DEF Submit, tables
<1>2. PICK j \in Jobs : job' = [job EXCEPT ![w] = j] /\ j.got = 0 /\ j.read = FALSE
  <2>1. CASE \E k \in AccountKind, a \in Account : job' = [job EXCEPT ![w] = [NoJob EXCEPT !.kind = k, !.on = a]]
    <3>1. PICK k \in AccountKind, a \in Account : job' = [job EXCEPT ![w] = [NoJob EXCEPT !.kind = k, !.on = a]]
      BY <2>1
    <3>2. PICK j \in Jobs : j = [NoJob EXCEPT !.kind = k, !.on = a] /\ j.got = 0 /\ j.read = FALSE
      BY NewAccountJob
    <3> QED BY <3>1, <3>2
  <2>2. CASE \E k \in GroupKind, g \in Group : job' = [job EXCEPT ![w] = [NoJob EXCEPT !.kind = k, !.on = g]]
    <3>1. PICK k \in GroupKind, g \in Group : job' = [job EXCEPT ![w] = [NoJob EXCEPT !.kind = k, !.on = g]]
      BY <2>2
    <3>2. PICK j \in Jobs : j = [NoJob EXCEPT !.kind = k, !.on = g] /\ j.got = 0 /\ j.read = FALSE
      BY NewGroupJob
    <3> QED BY <3>1, <3>2
  <2> QED BY <2>1, <2>2 DEF Submit
<1>3. /\ job' \in [Worker -> Jobs] /\ job'[w] = j
      /\ \A v \in Worker \ {w} : job'[v] = job[v]
  BY <1>2 DEF RegistryInv, RegistryTypeOK
<1>4. Holds(w)' = {} /\ (\A v \in Worker \ {w} : Holds(v)' = Holds(v) /\ HasAll(v)' = HasAll(v))
  BY <1>2, <1>3 DEF Holds, HasAll
<1>5. Apart'
  BY <1>4 DEF Apart, RegistryInv
<1>6. Counted'
  BY <1>2, <1>3, <1>4, LocksOf DEF Counted, RegistryInv
<1>7. StillSo'
  BY <1>1, <1>2, <1>3 DEF StillSo, RegistryInv, Members, tables
<1> QED BY <1>1, <1>3, <1>5, <1>6, <1>7, SameTables DEF RegistryInv

LEMMA TakeKeeps ==
  ASSUME RegistryAssumption, RegistryInv, NEW w \in Worker, Take(w) PROVE RegistryInv'
<1> DEFINE got == job[w].got
           next == Locks(job[w])[got + 1]
           j == [job[w] EXCEPT !.got = got + 1]
<1>1. UNCHANGED tables /\ job' = [job EXCEPT ![w] = j] /\ job[w] \in Jobs
  BY DEF Take, tables, RegistryInv, RegistryTypeOK
<1>2. got \in Nat /\ Len(Locks(job[w])) \in Nat /\ got < Len(Locks(job[w]))
  BY <1>1, JobCases, LocksOf DEF Take, CanTake, HasAll, RegistryInv, Counted
<1>3. job[w] # NoJob
  BY <1>1, <1>2, LocksOf
<1>4. j \in Jobs /\ j.kind = job[w].kind /\ j.on = job[w].on /\ j.got = got + 1 /\ j.read = job[w].read
  <2>1. /\ job[w].kind \in AccountKind => got + 1 <= 2
        /\ job[w].kind \in GroupKind => got + 1 <= 4
    BY <1>1, <1>2, LocksOf
  <2>2. got + 1 \in Nat
    BY <1>2
  <2> QED BY <1>1, <1>3, <2>1, <2>2, JobTakes
<1> HIDE DEF j
<1>5. Locks(j) = Locks(job[w])
  BY <1>4 DEF Locks
<1>6. /\ job' \in [Worker -> Jobs] /\ job'[w] = j
      /\ \A v \in Worker \ {w} : job'[v] = job[v]
  BY <1>1, <1>4 DEF RegistryInv, RegistryTypeOK
<1>7. /\ Holds(w)' = Holds(w) \cup {next}
      /\ \A v \in Worker \ {w} : Holds(v)' = Holds(v) /\ HasAll(v)' = HasAll(v)
  <2>1. Holds(w) = {Locks(job[w])[i] : i \in 1 .. got}
    BY DEF Holds
  <2>2. Holds(w)' = {Locks(job[w])[i] : i \in 1 .. (got + 1)}
    BY <1>4, <1>5, <1>6 DEF Holds
  <2>3. 1 .. (got + 1) = (1 .. got) \cup {got + 1}
    BY <1>2
  <2>4. Holds(w)' = Holds(w) \cup {next}
    BY <2>1, <2>2, <2>3
  <2>5. \A v \in Worker \ {w} : Holds(v)' = Holds(v) /\ HasAll(v)' = HasAll(v)
    BY <1>6 DEF Holds, HasAll
  <2> QED BY <2>4, <2>5
<1>8. Apart'
  BY <1>7 DEF Apart, RegistryInv, Take, CanTake
<1>9. ~job[w].read
  BY <1>2 DEF RegistryInv, Counted, HasAll
<1>10. Counted'
  <2>1. job'[w].got <= Len(Locks(job'[w])) /\ ~job'[w].read
    BY <1>2, <1>4, <1>5, <1>6, <1>9
  <2>2. \A v \in Worker \ {w} : /\ job'[v].got <= Len(Locks(job'[v]))
                                /\ job'[v].read => HasAll(v)'
    BY <1>6, <1>7 DEF Counted, RegistryInv
  <2> QED BY <2>1, <2>2 DEF Counted
<1>11. StillSo'
  BY <1>1, <1>4, <1>6, <1>9 DEF StillSo, RegistryInv, Members, tables
<1> QED BY <1>1, <1>6, <1>8, <1>10, <1>11, SameTables DEF RegistryInv

LEMMA ReadKeeps ==
  ASSUME RegistryAssumption, RegistryInv, NEW w \in Worker, Read(w) PROVE RegistryInv'
<1> DEFINE j == [job[w] EXCEPT !.read = TRUE]
<1>1. UNCHANGED tables /\ job' = [job EXCEPT ![w] = j] /\ job[w] \in Jobs /\ HasAll(w)
  BY DEF Read, tables, RegistryInv, RegistryTypeOK
<1>2. job[w] # NoJob
  BY NoJobIsIdle DEF Read, Reading
<1>3. j \in Jobs /\ j.kind = job[w].kind /\ j.on = job[w].on /\ j.got = job[w].got
  BY <1>1, <1>2, JobReads
<1> HIDE DEF j
<1>4. Locks(j) = Locks(job[w])
  BY <1>3 DEF Locks
<1>5. /\ job' \in [Worker -> Jobs] /\ job'[w] = j
      /\ \A v \in Worker \ {w} : job'[v] = job[v]
  BY <1>1, <1>3 DEF RegistryInv, RegistryTypeOK
<1>6. \A v \in Worker : Holds(v)' = Holds(v) /\ HasAll(v)' = HasAll(v)
  <2>1. job'[w].got = job[w].got /\ Locks(job'[w]) = Locks(job[w])
    BY <1>3, <1>4, <1>5
  <2>2. Holds(w)' = Holds(w) /\ HasAll(w)' = HasAll(w)
    BY <2>1 DEF Holds, HasAll
  <2>3. \A v \in Worker \ {w} : Holds(v)' = Holds(v) /\ HasAll(v)' = HasAll(v)
    BY <1>5 DEF Holds, HasAll
  <2> QED BY <2>2, <2>3
<1>7. Apart' /\ Counted'
  BY <1>1, <1>3, <1>4, <1>5, <1>6 DEF Apart, Counted, RegistryInv
<1>8. StillSo'
  <2>1. /\ job[w].kind = "enable" => account[job[w].on] = "present"
        /\ job[w].kind \in {"create", "start"} => \A a \in Members(job[w].on) : own[a] = "none"
    BY DEF Read, MayRead, MembersReady
  <2> QED BY <1>1, <1>3, <1>5, <2>1 DEF StillSo, RegistryInv, Members, tables
<1> QED BY <1>1, <1>5, <1>7, <1>8, SameTables DEF RegistryInv

LEMMA RefuseKeeps ==
  ASSUME RegistryAssumption, RegistryInv, NEW w \in Worker, Refuse(w) PROVE RegistryInv'
<1>1. UNCHANGED tables /\ Done(w) /\ HasAll(w)
  BY DEF Refuse, tables
<1>2. job' \in [Worker -> Jobs] /\ Apart' /\ Counted' /\ StillSo'
  BY <1>1, JobEnds DEF tables
<1> QED BY <1>1, <1>2, SameTables DEF RegistryInv

-----------------------------------------------------------------------------
(* The commits *)

LEMMA AddAccountKeeps ==
  ASSUME RegistryAssumption, RegistryInv, NEW w \in Worker, AddAccount(w) PROVE RegistryInv'
<1> USE DEF AddAccount
<1>1. job' \in [Worker -> Jobs] /\ Apart' /\ Counted' /\ StillSo'
  BY JobEnds DEF RegistryInv, RegistryTypeOK, Runs
<1>2. RegistryTypeOK'
  BY <1>1 DEF RegistryInv, RegistryTypeOK
<1>3. ExclusiveOwnership'
  BY DEF RegistryInv, RegistryTypeOK, ExclusiveOwnership, Exists, Members
<1> QED BY <1>1, <1>2, <1>3 DEF RegistryInv

LEMMA RemoveAccountKeeps ==
  ASSUME RegistryAssumption, RegistryInv, NEW w \in Worker, RemoveAccount(w) PROVE RegistryInv'
<1> USE DEF RemoveAccount
<1>1. job' \in [Worker -> Jobs] /\ Apart' /\ Counted' /\ StillSo'
  <2>1. \A a \in Account : (account[a] = "present" => account'[a] = "present") \/ Guards(job[w], a)
    BY DEF RegistryInv, RegistryTypeOK, Guards, Runs, AccountKind
  <2> QED BY <2>1, JobEnds DEF Runs
<1>2. RegistryTypeOK'
  BY <1>1 DEF RegistryInv, RegistryTypeOK
<1>3. ExclusiveOwnership'
  BY DEF RegistryInv, RegistryTypeOK, ExclusiveOwnership, Exists, Members, Unbound, Removable, RegistryAssumption
<1> QED BY <1>1, <1>2, <1>3 DEF RegistryInv

LEMMA EnableAccountKeeps ==
  ASSUME RegistryAssumption, RegistryInv, NEW w \in Worker, EnableAccount(w) PROVE RegistryInv'
<1> USE DEF EnableAccount, HasRead, Runs, MaySave
<1>1. job' \in [Worker -> Jobs] /\ Apart' /\ Counted' /\ StillSo'
  BY JobEnds
<1>2. RegistryTypeOK'
  BY <1>1 DEF RegistryInv, RegistryTypeOK
<1>3. account[job[w].on] = "present" /\ Unbound(job[w].on)
  BY DEF RegistryInv, StillSo
<1>4. ExclusiveOwnership'
  BY <1>3 DEF RegistryInv, RegistryTypeOK, ExclusiveOwnership, Exists, Members, Unbound, RegistryAssumption
<1> QED BY <1>1, <1>2, <1>4 DEF RegistryInv

LEMMA PauseAccountKeeps ==
  ASSUME RegistryAssumption, RegistryInv, NEW w \in Worker, PauseAccount(w) PROVE RegistryInv'
<1> USE DEF PauseAccount, Runs
<1>1. job' \in [Worker -> Jobs] /\ Apart' /\ Counted' /\ StillSo'
  BY JobEnds
<1>2. RegistryTypeOK'
  BY <1>1 DEF RegistryInv, RegistryTypeOK
<1>3. ExclusiveOwnership'
  BY DEF RegistryInv, RegistryTypeOK, ExclusiveOwnership, Exists, Members
<1> QED BY <1>1, <1>2, <1>3 DEF RegistryInv

LEMMA AccountTurnKeeps ==
  ASSUME RegistryAssumption, RegistryInv, NEW w \in Worker, AccountTurn(w) PROVE RegistryInv'
<1> USE DEF AccountTurn, Runs
<1>1. job' \in [Worker -> Jobs] /\ Apart' /\ Counted' /\ StillSo'
  <2>1. \A a \in Account : (own[a] = "none" => own'[a] = "none") \/ Guards(job[w], a)
    BY DEF RegistryInv, RegistryTypeOK, Guards, AccountKind
  <2> QED BY <2>1, JobEnds
<1>2. RegistryTypeOK'
  <2>1. PICK left \in {"none", "intent", "holding"} : own' = [own EXCEPT ![job[w].on] = left]
    OBVIOUS
  <2>2. own' \in [Account -> {"none", "intent", "holding"}]
    BY <2>1 DEF RegistryInv, RegistryTypeOK
  <2> QED BY <1>1, <2>2 DEF RegistryInv, RegistryTypeOK
<1>3. ExclusiveOwnership'
  BY DEF RegistryInv, RegistryTypeOK, ExclusiveOwnership, Exists, Members, Unbound, RegistryAssumption
<1> QED BY <1>1, <1>2, <1>3 DEF RegistryInv

\* A group that takes its members takes none of another group's.
LEMMA SavePairKeeps ==
  ASSUME RegistryAssumption, RegistryInv, NEW g \in Group, NEW state \in {"paused", "enabled"},
         SavePair(g, state), \A a \in Members(g) : own[a] = "none",
         UNCHANGED <<account, enabled, own>>,
         \A h \in Group \ {g} : work'[h] = work[h]
  PROVE  /\ ExclusiveOwnership'
         /\ group' \in [Group -> {"absent", "paused", "enabled", "deleted"}]
         /\ member' \in [Account -> Group \cup {NoGroup}]
<1> USE DEF RegistryInv, RegistryTypeOK, SavePair, MayReserve, ExclusiveOwnership, Exists
<1>1. /\ group' \in [Group -> {"absent", "paused", "enabled", "deleted"}]
      /\ member' \in [Account -> Group \cup {NoGroup}]
      /\ group'[g] = state /\ \A h \in Group \ {g} : group'[h] = group[h]
      /\ \A a \in Account : member'[a] = IF a \in Members(g) THEN g ELSE member[a]
  OBVIOUS
<1>2. Members(g) \subseteq Account
  BY DEF Members, RegistryAssumption
<1>3. \A h \in Group, a \in Account : Exists(h)' /\ a \in Members(h) =>
          account'[a] = "present" /\ member'[a] = h /\ ~enabled'[a] /\ own'[a] = "none"
  BY <1>1, RegistryAssumption DEF RegistryAssumption
<1>4. \A a \in Account : member'[a] # NoGroup =>
          group'[member'[a]] \in {"paused", "enabled"} /\ a \in Members(member'[a])
  BY <1>1
<1>5. \A h \in Group : ~Exists(h)' => work'[h] = "none"
  BY <1>1
<1>6. \A a \in Account : account'[a] # "present" => ~enabled'[a] /\ own'[a] = "none"
  OBVIOUS
<1> QED BY <1>1, <1>3, <1>4, <1>5, <1>6 DEF Members

\* The member accounts of a group's job are guarded by it.
LEMMA GroupJob ==
  ASSUME RegistryAssumption, RegistryInv, NEW w \in Worker, job[w].kind \in GroupKind
  PROVE  job[w].on \in Group /\ Members(job[w].on) \subseteq Account
<1>1. job[w].on \in Group
  BY JobCases, NoJobIsIdle DEF RegistryInv, RegistryTypeOK, AccountKind, GroupKind
<1> QED BY <1>1 DEF Members, RegistryAssumption

LEMMA CreateGroupKeeps ==
  ASSUME RegistryAssumption, RegistryInv, NEW w \in Worker, CreateGroup(w) PROVE RegistryInv'
<1> USE DEF CreateGroup, HasRead, Runs
<1>1. job' \in [Worker -> Jobs] /\ Apart' /\ Counted' /\ StillSo'
  BY JobEnds
<1>2. /\ job[w].on \in Group /\ \A a \in Members(job[w].on) : own[a] = "none"
  BY GroupJob DEF GroupKind, RegistryInv, StillSo
<1>3. /\ ExclusiveOwnership'
      /\ group' \in [Group -> {"absent", "paused", "enabled", "deleted"}]
      /\ member' \in [Account -> Group \cup {NoGroup}]
  BY <1>2, SavePairKeeps
<1>4. RegistryTypeOK'
  BY <1>1, <1>3 DEF RegistryInv, RegistryTypeOK
<1> QED BY <1>1, <1>3, <1>4 DEF RegistryInv

LEMMA StartGroupKeeps ==
  ASSUME RegistryAssumption, RegistryInv, NEW w \in Worker, StartGroup(w) PROVE RegistryInv'
<1> USE DEF StartGroup, HasRead, Runs
<1>1. job' \in [Worker -> Jobs] /\ Apart' /\ Counted' /\ StillSo'
  BY JobEnds
<1>2. /\ job[w].on \in Group /\ \A a \in Members(job[w].on) : own[a] = "none"
  BY GroupJob DEF GroupKind, RegistryInv, StillSo
<1>3. PICK base \in {"none", "transfer", "base"} : work' = [work EXCEPT ![job[w].on] = base]
  OBVIOUS
<1>4. work' \in [Group -> {"none", "pending", "transfer", "base"}]
  BY <1>3 DEF RegistryInv, RegistryTypeOK
<1>5. \A h \in Group \ {job[w].on} : work'[h] = work[h]
  BY <1>3 DEF RegistryInv, RegistryTypeOK
<1>6. /\ ExclusiveOwnership'
      /\ group' \in [Group -> {"absent", "paused", "enabled", "deleted"}]
      /\ member' \in [Account -> Group \cup {NoGroup}]
  BY <1>2, <1>5, SavePairKeeps
<1>7. RegistryTypeOK'
  BY <1>1, <1>4, <1>6 DEF RegistryInv, RegistryTypeOK
<1> QED BY <1>1, <1>6, <1>7 DEF RegistryInv

LEMMA StopGroupKeeps ==
  ASSUME RegistryAssumption, RegistryInv, NEW w \in Worker, StopGroup(w) PROVE RegistryInv'
<1> USE DEF StopGroup, Runs
<1>1. job' \in [Worker -> Jobs] /\ Apart' /\ Counted' /\ StillSo'
  BY JobEnds
<1>2. job[w].on \in Group /\ Members(job[w].on) \subseteq Account
  BY GroupJob DEF GroupKind
<1>3. \A a \in Members(job[w].on) : own[a] = "none"
  <2>1. Exists(job[w].on) /\ ExclusiveOwnership
    BY DEF RegistryInv
  <2> HIDE DEF StopGroup, Runs
  <2> QED BY <1>2, <2>1 DEF ExclusiveOwnership
<1>4. /\ ExclusiveOwnership'
      /\ group' \in [Group -> {"absent", "paused", "enabled", "deleted"}]
      /\ member' \in [Account -> Group \cup {NoGroup}]
  BY <1>2, <1>3, SavePairKeeps
<1>5. RegistryTypeOK'
  BY <1>1, <1>4 DEF RegistryInv, RegistryTypeOK
<1> QED BY <1>1, <1>4, <1>5 DEF RegistryInv

LEMMA DeleteGroupKeeps ==
  ASSUME RegistryAssumption, RegistryInv, NEW w \in Worker, DeleteGroup(w) PROVE RegistryInv'
<1> DEFINE g == job[w].on
<1> USE DEF DeleteGroup, HasRead, Runs
<1>1. job' \in [Worker -> Jobs] /\ Apart' /\ Counted' /\ StillSo'
  BY JobEnds
<1>2. g \in Group
  BY GroupJob DEF GroupKind
<1>3. /\ group' \in [Group -> {"absent", "paused", "enabled", "deleted"}]
      /\ member' \in [Account -> Group \cup {NoGroup}]
      /\ group'[g] = "deleted" /\ \A h \in Group \ {g} : group'[h] = group[h]
      /\ \A a \in Account : member'[a] = IF member[a] = g THEN NoGroup ELSE member[a]
  BY <1>2 DEF RegistryInv, RegistryTypeOK
<1>4. RegistryTypeOK'
  BY <1>1, <1>3 DEF RegistryInv, RegistryTypeOK
<1> HIDE DEF g
<1>5. \A h \in Group, a \in Account : group'[h] \in {"paused", "enabled"} /\ a \in Members(h) =>
          account'[a] = "present" /\ member'[a] = h /\ ~enabled'[a] /\ own'[a] = "none"
  BY <1>3 DEF RegistryInv, ExclusiveOwnership, Exists
<1>6. \A a \in Account : member'[a] # NoGroup =>
          group'[member'[a]] \in {"paused", "enabled"} /\ a \in Members(member'[a])
  BY <1>3 DEF RegistryInv, RegistryTypeOK, ExclusiveOwnership, Exists
<1>7. \A h \in Group : group'[h] \notin {"paused", "enabled"} => work'[h] = "none"
  BY <1>3 DEF RegistryInv, ExclusiveOwnership, Exists, g
<1>8. \A a \in Account : account'[a] # "present" => ~enabled'[a] /\ own'[a] = "none"
  BY DEF RegistryInv, ExclusiveOwnership
<1>9. ExclusiveOwnership'
  BY <1>5, <1>6, <1>7, <1>8 DEF ExclusiveOwnership, Exists, Members
<1> QED BY <1>1, <1>4, <1>9 DEF RegistryInv

LEMMA FlattenKeeps ==
  ASSUME RegistryAssumption, RegistryInv, NEW w \in Worker, Flatten(w) PROVE RegistryInv'
<1> USE DEF Flatten, HasRead, Runs
<1>1. job' \in [Worker -> Jobs] /\ Apart' /\ Counted' /\ StillSo'
  BY JobEnds
<1>2. RegistryTypeOK'
  BY <1>1 DEF RegistryInv, RegistryTypeOK
<1>3. ExclusiveOwnership'
  BY DEF RegistryInv, RegistryTypeOK, ExclusiveOwnership, Exists, Members
<1> QED BY <1>1, <1>2, <1>3 DEF RegistryInv

LEMMA GroupTurnKeeps ==
  ASSUME RegistryAssumption, RegistryInv, NEW w \in Worker, GroupTurn(w) PROVE RegistryInv'
<1> USE DEF GroupTurn, Runs
<1>1. job' \in [Worker -> Jobs] /\ Apart' /\ Counted' /\ StillSo'
  BY JobEnds
<1>2. PICK left \in {"none", "pending", "transfer", "base"} : work' = [work EXCEPT ![job[w].on] = left]
  OBVIOUS
<1>3. RegistryTypeOK'
  BY <1>1, <1>2 DEF RegistryInv, RegistryTypeOK
<1>4. ExclusiveOwnership'
  BY <1>2 DEF RegistryInv, RegistryTypeOK, ExclusiveOwnership, Exists, Members
<1> QED BY <1>1, <1>3, <1>4 DEF RegistryInv

-----------------------------------------------------------------------------
(* The theorems *)

\* Every step of the pages and of the scheduler keeps the invariant.
THEOREM RegistryKept == RegistryAssumption /\ RegistryInv /\ [RegistryNext]_registryVars => RegistryInv'
<1> SUFFICES ASSUME RegistryAssumption, RegistryInv, [RegistryNext]_registryVars PROVE RegistryInv'
  OBVIOUS
<1>1. CASE UNCHANGED registryVars
  <2>1. UNCHANGED tables /\ job' = job
    BY <1>1 DEF registryVars, tables
  <2>2. \A v \in Worker : Holds(v)' = Holds(v) /\ HasAll(v)' = HasAll(v)
    BY <2>1 DEF Holds, HasAll
  <2>3. Apart' /\ Counted'
    BY <2>1, <2>2 DEF RegistryInv, Apart, Counted
  <2>4. StillSo'
    BY <2>1 DEF RegistryInv, StillSo, Members, tables
  <2> QED BY <2>1, <2>3, <2>4, SameTables DEF RegistryInv, RegistryTypeOK
<1>2. ASSUME NEW w \in Worker,
             \/ Submit(w) \/ Take(w) \/ Read(w) \/ Refuse(w)
             \/ AddAccount(w) \/ RemoveAccount(w) \/ EnableAccount(w) \/ PauseAccount(w) \/ AccountTurn(w)
             \/ CreateGroup(w) \/ StartGroup(w) \/ StopGroup(w) \/ DeleteGroup(w) \/ Flatten(w) \/ GroupTurn(w)
      PROVE  RegistryInv'
  BY <1>2, SubmitKeeps, TakeKeeps, ReadKeeps, RefuseKeeps, AddAccountKeeps, RemoveAccountKeeps,
     EnableAccountKeeps, PauseAccountKeeps, AccountTurnKeeps, CreateGroupKeeps, StartGroupKeeps,
     StopGroupKeeps, DeleteGroupKeeps, FlattenKeeps, GroupTurnKeeps
<1> QED BY <1>1, <1>2 DEF RegistryNext

\* For every number of accounts, groups and workers the state keeps its types,
\* no lock is held twice, and what a request read stays so until it commits.
THEOREM RegistryInvariant == RegistrySpec => []RegistryInv
<1>1. RegistryInit => RegistryInv
  BY RegistryStarts, RegistryAssumption
<1>2. RegistryInv /\ [RegistryNext]_registryVars => RegistryInv'
  BY RegistryKept, RegistryAssumption
<1> QED BY <1>1, <1>2, PTL DEF RegistrySpec

\* The tables and the jobs keep their types.
THEOREM RegistryTypes == RegistrySpec => []RegistryTypeOK
<1>1. RegistryInv => RegistryTypeOK
  BY DEF RegistryInv
<1> QED BY <1>1, RegistryInvariant, PTL

\* Whatever pages and turns are under way together, an account is run by its
\* own strategy or by one group, and nothing unfinished loses its owner.
THEOREM OneOwner == RegistrySpec => []ExclusiveOwnership
<1>1. RegistryInv => ExclusiveOwnership
  BY DEF RegistryInv
<1> QED BY <1>1, RegistryInvariant, PTL

-----------------------------------------------------------------------------
(* Nobody waits in a circle *)

LEMMA LeastNatural ==
  ASSUME NEW T, T \subseteq Nat, T # {}
  PROVE  \E x \in T : \A y \in T : x <= y
<1> DEFINE R == OpToRel(<, Nat)
<1>1. IsWellFoundedOn(R, Nat)
  BY NatLessThanWellFounded
<1>2. \A x, y \in Nat : y < x => <<y, x>> \in R
  BY DEF OpToRel
<1> HIDE DEF R
<1>3. PICK x \in T : \A y \in T : ~(<<y, x>> \in R)
  BY <1>1, WFMin
<1>4. \A y \in T : ~(y < x)
  BY <1>2, <1>3
<1> QED BY <1>4

\* The lock a worker waits for.
Wanted(w) == Locks(job[w])[job[w].got + 1]

LEMMA SomebodyMoves ==
  ASSUME RegistryAssumption, RegistryInv, NEW n \in Nat, Account \subseteq 0 .. n
  PROVE  NoStandoff
<1> SUFFICES ASSUME NEW u \in Worker, job[u] # NoJob,
                    \A w \in Worker : job[w] # NoJob => ~HasAll(w) /\ ~CanTake(w)
             PROVE  FALSE
  BY DEF NoStandoff
<1> DEFINE Busy == {w \in Worker : job[w] # NoJob}
           Height(w) == (n + 2) - Rank(n, Wanted(w))
<1>1. \A w \in Busy : /\ job[w] \in Jobs /\ job[w].got \in Nat /\ Len(Locks(job[w])) \in Nat
                      /\ job[w].got < Len(Locks(job[w]))
  BY JobCases, LocksOf DEF RegistryInv, RegistryTypeOK, Counted, HasAll
<1>2. \A w \in Busy : Rank(n, Wanted(w)) \in 0 .. (n + 2)
  <2> SUFFICES ASSUME NEW w \in Busy PROVE Rank(n, Wanted(w)) \in 0 .. (n + 2)
    OBVIOUS
  <2>1. job[w] \in Jobs /\ job[w].got + 1 \in 1 .. Len(Locks(job[w]))
    BY <1>1
  <2> QED BY <2>1, LocksInOrder DEF Wanted
<1>3. \A w \in Busy : \E v \in Busy : Rank(n, Wanted(w)) < Rank(n, Wanted(v))
  <2> SUFFICES ASSUME NEW w \in Busy
               PROVE  \E v \in Busy : Rank(n, Wanted(w)) < Rank(n, Wanted(v))
    OBVIOUS
  <2>1. PICK v \in Worker : Wanted(w) \in Holds(v)
    BY DEF CanTake, Wanted
  <2>2. PICK i \in 1 .. job[v].got : Wanted(w) = Locks(job[v])[i]
    BY <2>1 DEF Holds
  <2>3. v \in Busy
    BY <2>2, NoJobIsIdle
  <2>4. /\ i \in 1 .. Len(Locks(job[v])) /\ job[v].got + 1 \in 1 .. Len(Locks(job[v]))
        /\ i < job[v].got + 1
    BY <1>1, <2>2, <2>3
  <2>5. Rank(n, Locks(job[v])[i]) < Rank(n, Locks(job[v])[job[v].got + 1])
    BY <1>1, <2>3, <2>4, LocksInOrder
  <2> QED BY <2>2, <2>3, <2>5 DEF Wanted
<1>4. \A w \in Busy : Height(w) \in Nat
  BY <1>2
<1>5. PICK h \in {Height(w) : w \in Busy} : \A k \in {Height(w) : w \in Busy} : h <= k
  <2>1. {Height(w) : w \in Busy} # {} /\ {Height(w) : w \in Busy} \subseteq Nat
    BY <1>4
  <2> HIDE DEF Height, Busy
  <2> QED BY <2>1, LeastNatural
<1>6. PICK w \in Busy : h = Height(w)
  OBVIOUS
<1>7. PICK v \in Busy : Rank(n, Wanted(w)) < Rank(n, Wanted(v))
  BY <1>3
<1>8. Height(w) <= Height(v)
  BY <1>5, <1>6
<1> QED BY <1>2, <1>7, <1>8

\* However many workers there are, some worker that has a job can go on, as
\* long as the account ids are bounded.
THEOREM LocksNeverStand ==
  ASSUME NEW n \in Nat, Account \subseteq 0 .. n
  PROVE  RegistrySpec => []NoStandoff
<1>1. RegistryInv => NoStandoff
  BY SomebodyMoves, RegistryAssumption
<1> QED BY <1>1, RegistryInvariant, PTL

-----------------------------------------------------------------------------
(* The base of a group *)

\* An order in a position has executed, and none has before it was sent.
FillsAreRecorded ==
    \A l \in Leg : \A i \in DOMAIN past[l] : \A n \in past[l][i].filled : order[n][l] = "filled"
UnsentAreQuiet == \A n \in Batch, l \in Leg : n > sent => order[n][l] = "none"

\* The request is at the watched orders and asks for all of them.
Asking == task.step = "watch" /\ task.kind \in {"basePreview", "rebase", "start", "check"}

\* What a request read is a position held since the last event it had heard,
\* and without the watched orders it has asked for.
HeldOnce(l) ==
    \E i \in DOMAIN past[l] :
        /\ i >= task.at[l] /\ Qty(past[l][i]) = task.seen[l]
        /\ Asking => \A n \in watch : <<n, l>> \in task.left \/ n \notin past[l][i].filled

ReadWasHeld == \A l \in Leg : task.seen[l] # Unread => HeldOnce(l)

\* Both accounts are read before the watched orders are looked at, and there
\* is a batch to archive or to check.
ReadIsWhole ==
    /\ task.step = "watch" => \A l \in Leg : task.seen[l] # Unread
    /\ task.step = "watch" /\ task.kind = "flatten" => task.seen = Nothing
    /\ task.kind \in QueryFirst => pend # 0

RecoveryInv == RecoveryTypeOK /\ FillsAreRecorded /\ UnsentAreQuiet /\ ReadWasHeld /\ ReadIsWhole

LEMMA RecoveryConstants ==
  /\ MaxWatch \in Nat /\ MaxSent \in Nat /\ MaxHand \in Nat /\ MaxLag \in Nat
  /\ Unknown \in Receipts /\ Nothing \in [Leg -> Nat] /\ NoTask \in Task
  /\ NoTask.kind = "none" /\ NoTask.step = "" /\ \A l \in Leg : NoTask.seen[l] = Unread
  <1>1. Unknown \in Receipts /\ Nothing \in [Leg -> Nat]
    BY DEF Unknown, Receipts, Nothing
  <1>2. NoTask \in Task
    BY <1>1 DEF NoTask, Task, Reads
  <1> QED BY <1>1, <1>2, RecoveryAssumption DEF NoTask

LEMMA IdleNumber == 0 \in 0 .. MaxSent /\ NoTask.kind \notin QueryFirst
  BY RecoveryAssumption DEF NoTask, Archiving, QueryFirst

\* How a position changes.
LEMMA QtyIsWhole ==
  ASSUME NEW p \in Position
  PROVE  IsFiniteSet(p.filled) /\ Cardinality(p.filled) \in Nat /\ Qty(p) \in Int
<1>1. IsFiniteSet(1 .. MaxSent)
  BY FS_Interval, RecoveryAssumption
<1>2. p.filled \in SUBSET (1 .. MaxSent)
  BY DEF Position, Batch
<1>3. IsFiniteSet(p.filled)
  BY <1>1, <1>2, FS_Subset
<1>4. Cardinality(p.filled) \in Nat
  BY <1>3, FS_CardinalityType
<1> QED BY <1>3, <1>4 DEF Position, Qty

LEMMA ByHand ==
  ASSUME NEW p \in Position, NEW d \in {-1, 1}, Qty(p) + d >= 0,
         NEW q, q = [p EXCEPT !.hand = @ + d]
  PROVE  q \in Position /\ q.filled = p.filled /\ Qty(q) \in Nat
<1>1. q \in Position /\ q.filled = p.filled /\ q.hand = p.hand + d
  BY DEF Position
<1>2. Qty(q) = Qty(p) + d
  BY <1>1, QtyIsWhole DEF Qty, Position
<1> QED BY <1>1, <1>2, QtyIsWhole

LEMMA ByOrder ==
  ASSUME NEW p \in Position, Qty(p) \in Nat, NEW n \in Batch,
         NEW q, q = [p EXCEPT !.filled = @ \cup {n}]
  PROVE  q \in Position /\ q.filled = p.filled \cup {n} /\ Qty(q) \in Nat
<1>1. q \in Position /\ q.filled = p.filled \cup {n} /\ q.hand = p.hand
  BY DEF Position
<1>2. Cardinality(p.filled \cup {n}) \in {Cardinality(p.filled), Cardinality(p.filled) + 1}
  BY FS_AddElement, QtyIsWhole
<1> QED BY <1>1, <1>2, QtyIsWhole DEF Qty, Position

LEMMA CurrentPosition ==
  ASSUME RecoveryTypeOK, NEW l \in Leg
  PROVE  /\ Len(past[l]) \in Nat /\ DOMAIN past[l] = 1 .. Len(past[l])
         /\ told[l] \in Nat /\ told[l] <= Len(past[l])
         /\ Len(past[l]) \in DOMAIN past[l] /\ Now(l) \in Position
         /\ Qty(Now(l)) \in Nat /\ Held[l] = Qty(Now(l))
<1>1. past[l] \in Seq(Position) /\ told[l] \in DOMAIN past[l]
  BY DEF RecoveryTypeOK
<1>2. Len(past[l]) \in Nat /\ DOMAIN past[l] = 1 .. Len(past[l])
  BY <1>1
<1>3. Len(past[l]) \in DOMAIN past[l] /\ told[l] \in Nat /\ told[l] <= Len(past[l])
  BY <1>1, <1>2
<1>4. past[l][Len(past[l])] \in Position
  BY <1>1, <1>3
<1>5. Qty(past[l][Len(past[l])]) \in Nat
  BY <1>3 DEF RecoveryTypeOK
<1> QED BY <1>2, <1>3, <1>4, <1>5 DEF Now, Held

LEMMA PositionsAreTyped ==
  ASSUME NEW P, P \in [Leg -> Seq(Position)], NEW m \in Leg, NEW i \in DOMAIN P[m]
  PROVE  P[m][i] \in Position /\ P[m][i].filled \subseteq Batch
<1>1. P[m] \in Seq(Position)
  OBVIOUS
<1>2. P[m][i] \in Position
  BY <1>1
<1> QED BY <1>2 DEF Position

\* A move adds one position and leaves the others.
LEMMA MoveAdds ==
  ASSUME RecoveryTypeOK, NEW l \in Leg, NEW p \in Position, Move(l, p)
  PROVE  /\ past' \in [Leg -> Seq(Position)]
         /\ \A m \in Leg : \A i \in DOMAIN past[m] : i \in DOMAIN past'[m] /\ past'[m][i] = past[m][i]
         /\ \A m \in Leg : \A i \in DOMAIN past'[m] : i \in DOMAIN past[m] \/ (m = l /\ past'[m][i] = p)
<1>1. past \in [Leg -> Seq(Position)]
  BY DEF RecoveryTypeOK
<1>2. past' = [past EXCEPT ![l] = Append(past[l], p)]
  BY DEF Move
<1>3. /\ Append(past[l], p) \in Seq(Position)
      /\ \A i \in DOMAIN past[l] : i \in DOMAIN Append(past[l], p) /\ Append(past[l], p)[i] = past[l][i]
      /\ \A i \in DOMAIN Append(past[l], p) : i \in DOMAIN past[l] \/ Append(past[l], p)[i] = p
  <2>1. past[l] \in Seq(Position)
    BY <1>1
  <2>2. /\ Append(past[l], p) \in Seq(Position) /\ Len(Append(past[l], p)) = Len(past[l]) + 1
        /\ \A i \in 1 .. Len(past[l]) : Append(past[l], p)[i] = past[l][i]
        /\ Append(past[l], p)[Len(past[l]) + 1] = p
    BY <2>1
  <2>3. DOMAIN past[l] = 1 .. Len(past[l]) /\ DOMAIN Append(past[l], p) = 1 .. Len(past[l]) + 1
        /\ Len(past[l]) \in Nat
    BY <2>1, <2>2
  <2> QED BY <2>2, <2>3
<1>4. past'[l] = Append(past[l], p) /\ \A m \in Leg \ {l} : past'[m] = past[m]
  BY <1>1, <1>2
<1>5. past' \in [Leg -> Seq(Position)]
  BY <1>1, <1>2, <1>3
<1> QED BY <1>3, <1>4, <1>5

\* A request that is over has read nothing.
LEMMA DoneIsFree ==
  ASSUME RecoveryInv, task' = NoTask, UNCHANGED <<order, past, told, sent, hands>>,
         on' \in BOOLEAN, owned' \in [Leg -> Nat], pend' \in 0 .. MaxSent, receipt' \in Receipts,
         watch' \subseteq Batch, preview' \in {NoPreview} \cup Previews
  PROVE  RecoveryInv'
<1>1. RecoveryTypeOK'
  BY RecoveryConstants DEF RecoveryInv, RecoveryTypeOK
<1>2. FillsAreRecorded' /\ UnsentAreQuiet'
  BY DEF RecoveryInv, FillsAreRecorded, UnsentAreQuiet, Batch
<1>3. ReadWasHeld' /\ ReadIsWhole'
  BY RecoveryConstants, IdleNumber DEF ReadWasHeld, ReadIsWhole, Archiving, QueryFirst
<1> QED BY <1>1, <1>2, <1>3 DEF RecoveryInv

\* A step that leaves the request and the batches alone keeps its read, as
\* long as no position is forgotten.
LEMMA ReadSurvives ==
  ASSUME RecoveryInv, UNCHANGED <<task, watch>>, pend' = pend \/ task = NoTask,
         \A m \in Leg : \A i \in DOMAIN past[m] : i \in DOMAIN past'[m] /\ past'[m][i] = past[m][i]
  PROVE  ReadWasHeld' /\ ReadIsWhole'
<1>1. ASSUME NEW l \in Leg, task.seen[l] # Unread
      PROVE  HeldOnce(l)'
  <2>1. HeldOnce(l)
    BY <1>1 DEF RecoveryInv, ReadWasHeld
  <2>2. PICK i \in DOMAIN past[l] :
            /\ i >= task.at[l] /\ Qty(past[l][i]) = task.seen[l]
            /\ Asking => \A n \in watch : <<n, l>> \in task.left \/ n \notin past[l][i].filled
    BY <2>1 DEF HeldOnce
  <2>3. i \in DOMAIN past'[l] /\ past'[l][i] = past[l][i]
    BY <2>2
  <2>4. Asking' = Asking
    BY DEF Asking
  <2> QED BY <2>2, <2>3, <2>4 DEF HeldOnce
<1>2. ReadWasHeld'
  BY <1>1 DEF ReadWasHeld
<1>3. ReadIsWhole'
  BY IdleNumber DEF RecoveryInv, ReadIsWhole, Archiving, QueryFirst
<1> QED BY <1>2, <1>3

LEMMA TradeByHandKeeps ==
  ASSUME RecoveryInv, NEW l \in Leg, TradeByHand(l)
  PROVE  RecoveryInv'
<1>1. PICK d \in {-1, 1} : Held[l] + d >= 0 /\ Move(l, [Now(l) EXCEPT !.hand = @ + d])
  BY DEF TradeByHand
<1> DEFINE p == [Now(l) EXCEPT !.hand = @ + d]
<1>2. RecoveryTypeOK
  BY DEF RecoveryInv
<1>3. p \in Position /\ p.filled = Now(l).filled /\ Qty(p) \in Nat
  <2>1. Now(l) \in Position /\ Qty(Now(l)) + d >= 0
    BY <1>1, <1>2, CurrentPosition
  <2> QED BY <2>1, ByHand
<1> HIDE DEF p
<1>4. /\ past' \in [Leg -> Seq(Position)]
      /\ \A m \in Leg : \A i \in DOMAIN past[m] : i \in DOMAIN past'[m] /\ past'[m][i] = past[m][i]
      /\ \A m \in Leg : \A i \in DOMAIN past'[m] : i \in DOMAIN past[m] \/ (m = l /\ past'[m][i] = p)
  BY <1>1, <1>2, <1>3, MoveAdds DEF p
<1>5. UNCHANGED <<rows, preview, task, order, told, sent>> /\ hands' = hands + 1 /\ hands < MaxHand
  BY DEF TradeByHand
<1>6. RecoveryTypeOK'
  <2>1. \A m \in Leg : told'[m] \in DOMAIN past'[m] /\ \A i \in DOMAIN past'[m] : Qty(past'[m][i]) \in Nat
    BY <1>2, <1>3, <1>4, <1>5 DEF RecoveryTypeOK
  <2>2. hands' \in 0 .. MaxHand
    BY <1>2, <1>5, RecoveryAssumption DEF RecoveryTypeOK
  <2> QED BY <1>2, <1>4, <1>5, <2>1, <2>2 DEF RecoveryTypeOK, rows
<1>7. FillsAreRecorded'
  <2>1. \A n \in Now(l).filled : order[n][l] = "filled"
    BY <1>2, CurrentPosition DEF RecoveryInv, FillsAreRecorded, Now
  <2> QED BY <1>3, <1>4, <1>5, <2>1 DEF RecoveryInv, FillsAreRecorded
<1>8. UnsentAreQuiet'
  BY <1>5 DEF RecoveryInv, UnsentAreQuiet, Batch
<1>9. ReadWasHeld' /\ ReadIsWhole'
  BY <1>4, <1>5, ReadSurvives DEF rows
<1> QED BY <1>6, <1>7, <1>8, <1>9 DEF RecoveryInv

\* An order that is filled stays filled, and a new one is not.
LEMMA OrderExecutesKeeps ==
  ASSUME RecoveryInv, NEW n \in Batch, NEW l \in Leg, OrderExecutes(n, l)
  PROVE  RecoveryInv'
<1> DEFINE p == [Now(l) EXCEPT !.filled = @ \cup {n}]
<1>1. /\ order[n][l] = "flight" /\ order' = [order EXCEPT ![n][l] = "filled"] /\ Move(l, p)
      /\ UNCHANGED <<rows, preview, task, told, sent, hands>>
  BY DEF OrderExecutes
<1>2. RecoveryTypeOK
  BY DEF RecoveryInv
<1>3. p \in Position /\ p.filled = Now(l).filled \cup {n} /\ Qty(p) \in Nat
  BY <1>2, CurrentPosition, ByOrder
<1> HIDE DEF p
<1>4. /\ past' \in [Leg -> Seq(Position)]
      /\ \A m \in Leg : \A i \in DOMAIN past[m] : i \in DOMAIN past'[m] /\ past'[m][i] = past[m][i]
      /\ \A m \in Leg : \A i \in DOMAIN past'[m] : i \in DOMAIN past[m] \/ (m = l /\ past'[m][i] = p)
  BY <1>1, <1>2, <1>3, MoveAdds
<1>5. /\ order' \in [Batch -> [Leg -> {"none", "flight", "filled", "dead"}]]
      /\ order'[n][l] = "filled"
      /\ \A x \in Batch, m \in Leg : order'[x][m] = IF x = n /\ m = l THEN "filled" ELSE order[x][m]
  BY <1>1, <1>2 DEF RecoveryTypeOK
<1>6. RecoveryTypeOK'
  <2>1. \A m \in Leg : told'[m] \in DOMAIN past'[m] /\ \A i \in DOMAIN past'[m] : Qty(past'[m][i]) \in Nat
    BY <1>1, <1>2, <1>3, <1>4 DEF RecoveryTypeOK
  <2> QED BY <1>1, <1>2, <1>4, <1>5, <2>1 DEF RecoveryTypeOK, rows
<1>7. FillsAreRecorded'
  <2>1. \A x \in Now(l).filled : order[x][l] = "filled"
    BY <1>2, CurrentPosition DEF RecoveryInv, FillsAreRecorded, Now
  <2>2. \A m \in Leg : \A i \in DOMAIN past'[m] : past'[m][i].filled \subseteq Batch
    BY <1>4, PositionsAreTyped
  <2>3. ASSUME NEW m \in Leg, NEW i \in DOMAIN past'[m], NEW x \in past'[m][i].filled
        PROVE  order'[x][m] = "filled"
    <3>1. x \in Batch
      BY <2>2, <2>3
    <3>2. CASE i \in DOMAIN past[m]
      <4>1. x \in past[m][i].filled
        BY <1>4, <2>3, <3>2
      <4>2. order[x][m] = "filled"
        BY <3>2, <4>1 DEF RecoveryInv, FillsAreRecorded
      <4> QED BY <1>5, <3>1, <4>2
    <3>3. CASE m = l /\ past'[m][i] = p
      BY <1>3, <1>5, <2>1, <2>3, <3>1, <3>3
    <3> QED BY <1>4, <2>3, <3>2, <3>3
  <2> QED BY <2>3 DEF FillsAreRecorded
<1>8. UnsentAreQuiet'
  BY <1>1, <1>5 DEF RecoveryInv, UnsentAreQuiet, Batch
<1>9. ReadWasHeld' /\ ReadIsWhole'
  BY <1>1, <1>4, ReadSurvives DEF rows
<1> QED BY <1>6, <1>7, <1>8, <1>9 DEF RecoveryInv

LEMMA OrderEndsKeeps ==
  ASSUME RecoveryInv, NEW n \in Batch, NEW l \in Leg, OrderEnds(n, l)
  PROVE  RecoveryInv'
<1>1. order' = [order EXCEPT ![n][l] = "dead"]
  BY DEF OrderEnds
<1>2. order[n][l] = "flight" /\ UNCHANGED <<rows, preview, task, past, told, sent, hands>>
  BY DEF OrderEnds
<1>3. /\ order' \in [Batch -> [Leg -> {"none", "flight", "filled", "dead"}]]
      /\ \A x \in Batch, m \in Leg : order'[x][m] = IF x = n /\ m = l THEN "dead" ELSE order[x][m]
  BY <1>1 DEF RecoveryInv, RecoveryTypeOK
<1>4. RecoveryTypeOK'
  BY <1>2, <1>3 DEF RecoveryInv, RecoveryTypeOK, rows
<1>5. FillsAreRecorded'
  <2>1. \A m \in Leg : \A i \in DOMAIN past[m] : past[m][i].filled \subseteq Batch
    BY PositionsAreTyped DEF RecoveryInv, RecoveryTypeOK
  <2> QED BY <1>2, <1>3, <2>1 DEF RecoveryInv, FillsAreRecorded
<1>6. UnsentAreQuiet'
  BY <1>2, <1>3 DEF RecoveryInv, UnsentAreQuiet, Batch
<1>7. ReadWasHeld' /\ ReadIsWhole'
  BY <1>2, ReadSurvives DEF rows
<1> QED BY <1>4, <1>5, <1>6, <1>7 DEF RecoveryInv

LEMMA AnnounceKeeps ==
  ASSUME RecoveryInv, NEW l \in Leg, Announce(l)
  PROVE  RecoveryInv'
<1>1. /\ told[l] < Len(past[l]) /\ told' = [told EXCEPT ![l] = @ + 1]
      /\ UNCHANGED <<rows, preview, task, order, past, sent, hands>>
  BY DEF Announce
<1>2. told' \in [Leg -> Nat] /\ \A m \in Leg : told'[m] \in DOMAIN past[m]
  <2>1. told \in [Leg -> Nat] /\ \A m \in Leg : told[m] \in DOMAIN past[m]
    BY DEF RecoveryInv, RecoveryTypeOK
  <2>2. told[l] + 1 \in DOMAIN past[l]
    BY <1>1, CurrentPosition DEF RecoveryInv
  <2> QED BY <1>1, <2>1, <2>2
<1>3. RecoveryTypeOK'
  BY <1>1, <1>2 DEF RecoveryInv, RecoveryTypeOK, rows
<1>4. FillsAreRecorded' /\ UnsentAreQuiet'
  BY <1>1 DEF RecoveryInv, FillsAreRecorded, UnsentAreQuiet, Batch
<1>5. ReadWasHeld' /\ ReadIsWhole'
  BY <1>1, ReadSurvives DEF rows
<1> QED BY <1>3, <1>4, <1>5 DEF RecoveryInv

LEMMA OpenBatchKeeps ==
  ASSUME RecoveryInv, OpenBatch
  PROVE  RecoveryInv'
<1>1. /\ task = NoTask /\ sent < MaxSent /\ sent' = sent + 1 /\ pend' = sent + 1
      /\ receipt' = Unknown /\ order' = [order EXCEPT ![sent + 1] = [l \in Leg |-> "flight"]]
      /\ UNCHANGED <<on, owned, watch, preview, task, past, told, hands>>
  BY DEF OpenBatch
<1>2. RecoveryTypeOK /\ sent \in 0 .. MaxSent
  BY DEF RecoveryInv, RecoveryTypeOK
<1>3. sent + 1 \in Batch /\ sent' \in 0 .. MaxSent /\ pend' \in 0 .. MaxSent
  BY <1>1, <1>2, RecoveryAssumption DEF Batch
<1>4. /\ order' \in [Batch -> [Leg -> {"none", "flight", "filled", "dead"}]]
      /\ \A x \in Batch, m \in Leg : order'[x][m] = IF x = sent + 1 THEN "flight" ELSE order[x][m]
  BY <1>1, <1>2, <1>3 DEF RecoveryTypeOK
<1>5. RecoveryTypeOK'
  BY <1>1, <1>2, <1>3, <1>4, RecoveryConstants DEF RecoveryTypeOK
<1>6. FillsAreRecorded'
  <2>1. \A m \in Leg : \A i \in DOMAIN past[m] : past[m][i].filled \subseteq Batch
    BY <1>2, PositionsAreTyped DEF RecoveryTypeOK
  <2>2. \A m \in Leg : order[sent + 1][m] = "none"
    BY <1>2, <1>3 DEF RecoveryInv, UnsentAreQuiet
  <2> QED BY <1>1, <1>4, <2>1, <2>2 DEF RecoveryInv, FillsAreRecorded
<1>7. UnsentAreQuiet'
  BY <1>1, <1>2, <1>4 DEF RecoveryInv, UnsentAreQuiet, Batch
<1>8. ReadWasHeld' /\ ReadIsWhole'
  BY <1>1, ReadSurvives
<1> QED BY <1>5, <1>6, <1>7, <1>8 DEF RecoveryInv

-----------------------------------------------------------------------------
(* The steps of a request *)

LEMMA TaskIsTyped ==
  ASSUME RecoveryTypeOK
  PROVE  /\ task.kind \in {"none", "archivePreview", "archive", "basePreview", "rebase", "start", "check", "flatten"}
         /\ task.step \in {"", "legs", "read", "watch"} /\ task.found \in Receipts
         /\ task.seen \in Reads /\ task.at \in [Leg -> Nat]
         /\ task.left \subseteq (0 .. MaxSent) \X Leg
  BY DEF RecoveryTypeOK, Task

\* A step that changes only the request, and perhaps the receipts.
LEMMA RequestMoves ==
  ASSUME RecoveryInv, task' \in Task, receipt' \in Receipts,
         UNCHANGED <<on, owned, pend, watch, preview, order, past, told, sent, hands>>
  PROVE  RecoveryTypeOK' /\ FillsAreRecorded' /\ UnsentAreQuiet'
  BY DEF RecoveryInv, RecoveryTypeOK, FillsAreRecorded, UnsentAreQuiet, Batch

LEMMA BeginKeeps ==
  ASSUME RecoveryInv, NEW k \in Archiving \cup Rebasing \cup {"start", "check", "flatten"}, Begin(k)
  PROVE  RecoveryInv'
<1>1. /\ task' = [NoTask EXCEPT !.kind = k, !.step = IF k \in QueryFirst THEN "legs" ELSE "read",
                                !.left = IF k \in QueryFirst THEN {pend} \X Leg ELSE {}]
      /\ preview' \in {preview, NoPreview}
      /\ UNCHANGED <<rows, order, past, told, sent, hands>>
  BY DEF Begin
<1>2. RecoveryTypeOK /\ pend \in 0 .. MaxSent
  BY DEF RecoveryInv, RecoveryTypeOK
<1>7. k \in QueryFirst => pend # 0
  <2>1. Eligible(k)
    BY DEF Begin
  <2> QED BY <2>1 DEF Eligible, Archiving, Rebasing, QueryFirst
<1>3. k \in {"archivePreview", "archive", "basePreview", "rebase", "start", "check", "flatten"}
  BY DEF Archiving, Rebasing
<1>4. /\ task' \in Task /\ task'.step \in {"legs", "read"} /\ task'.kind = k
      /\ \A l \in Leg : task'.seen[l] = Unread
  <2>1. task'.kind = k /\ task'.step \in {"legs", "read"} /\ task'.seen = NoTask.seen
    BY <1>1 DEF NoTask
  <2>2. task' \in Task
    BY <1>1, <1>2, <1>3, RecoveryConstants DEF Task
  <2> QED BY <2>1, <2>2, RecoveryConstants
<1>5. RecoveryTypeOK' /\ FillsAreRecorded' /\ UnsentAreQuiet'
  BY <1>1, <1>4 DEF RecoveryInv, RecoveryTypeOK, FillsAreRecorded, UnsentAreQuiet, rows, Batch
<1>6. ReadWasHeld' /\ ReadIsWhole'
  BY <1>1, <1>4, <1>7 DEF ReadWasHeld, ReadIsWhole, rows, Archiving, QueryFirst
<1> QED BY <1>5, <1>6 DEF RecoveryInv

LEMMA QueryLegKeeps ==
  ASSUME RecoveryInv, NEW l \in Leg, QueryLeg(l)
  PROVE  RecoveryInv'
<1> DEFINE r == IF receipt[l] = "unknown" THEN Found(pend, l) ELSE receipt[l]
<1>1. /\ task.step = "legs" /\ task' = [task EXCEPT !.found[l] = r, !.left = @ \ {<<pend, l>>}]
      /\ receipt' = IF task.kind = "check" THEN [receipt EXCEPT ![l] = r] ELSE receipt
      /\ UNCHANGED <<on, owned, pend, watch, preview, order, past, told, sent, hands>>
  BY DEF QueryLeg
<1>2. RecoveryTypeOK /\ task \in Task /\ receipt \in Receipts
  BY DEF RecoveryInv, RecoveryTypeOK
<1>3. r \in {"unknown", "filled", "dead"}
  BY <1>2 DEF Found, Receipts
<1> HIDE DEF r
<1>4. task' \in Task /\ task'.step = "legs" /\ task'.kind = task.kind /\ task'.seen = task.seen /\ task'.at = task.at
  BY <1>1, <1>2, <1>3 DEF Task, Receipts
<1>5. receipt' \in Receipts
  BY <1>1, <1>2, <1>3 DEF Receipts
<1>6. RecoveryTypeOK' /\ FillsAreRecorded' /\ UnsentAreQuiet'
  BY <1>1, <1>4, <1>5, RequestMoves
<1>7. ReadWasHeld' /\ ReadIsWhole'
  BY <1>1, <1>4 DEF RecoveryInv, ReadWasHeld, ReadIsWhole, HeldOnce, Asking, Archiving, QueryFirst
<1> QED BY <1>6, <1>7 DEF RecoveryInv

LEMMA EndLegsKeeps ==
  ASSUME RecoveryInv, EndLegs
  PROVE  RecoveryInv'
<1>1. task' = [task EXCEPT !.step = "read"] /\ UNCHANGED <<rows, preview, order, past, told, sent, hands>>
  BY DEF EndLegs
<1>2. RecoveryTypeOK /\ task \in Task /\ receipt \in Receipts
  BY DEF RecoveryInv, RecoveryTypeOK
<1>3. task' \in Task /\ task'.step = "read" /\ task'.kind = task.kind /\ task'.seen = task.seen /\ task'.at = task.at
  BY <1>1, <1>2 DEF Task
<1>4. RecoveryTypeOK' /\ FillsAreRecorded' /\ UnsentAreQuiet'
  BY <1>1, <1>2, <1>3, RequestMoves DEF rows
<1>5. ReadWasHeld' /\ ReadIsWhole'
  BY <1>1, <1>3 DEF RecoveryInv, ReadWasHeld, ReadIsWhole, HeldOnce, Asking, Archiving, QueryFirst, rows
<1> QED BY <1>4, <1>5 DEF RecoveryInv

\* An account is read at its present position, which it has had since the last
\* event it announced.
LEMMA SampleKeeps ==
  ASSUME RecoveryInv, NEW l \in Leg, Sample(l)
  PROVE  RecoveryInv'
<1>1. /\ task.step = "read" /\ task' = [task EXCEPT !.seen[l] = Held[l], !.at[l] = told[l]]
      /\ UNCHANGED <<rows, preview, order, past, told, sent, hands>>
  BY DEF Sample
<1>2. RecoveryTypeOK /\ task \in Task /\ receipt \in Receipts
  BY DEF RecoveryInv, RecoveryTypeOK
<1>3. /\ told[l] \in Nat /\ told[l] <= Len(past[l]) /\ Len(past[l]) \in DOMAIN past[l] /\ Len(past[l]) \in Nat
      /\ Held[l] = Qty(past[l][Len(past[l])]) /\ Held[l] \in Nat
  BY <1>2, CurrentPosition DEF Now
<1>4. /\ task' \in Task /\ task'.step = "read" /\ task'.kind = task.kind
      /\ task'.seen[l] = Held[l] /\ task'.at[l] = told[l]
      /\ \A m \in Leg \ {l} : task'.seen[m] = task.seen[m] /\ task'.at[m] = task.at[m]
  BY <1>1, <1>2, <1>3 DEF Task, Reads
<1>5. RecoveryTypeOK' /\ FillsAreRecorded' /\ UnsentAreQuiet'
  BY <1>1, <1>2, <1>4, RequestMoves DEF rows
<1>6. ASSUME NEW m \in Leg, task'.seen[m] # Unread
      PROVE  HeldOnce(m)'
  <2>1. CASE m = l
    BY <1>1, <1>3, <1>4, <2>1 DEF HeldOnce, Asking
  <2>2. CASE m # l
    BY <1>1, <1>4, <1>6, <2>2 DEF RecoveryInv, ReadWasHeld, HeldOnce, Asking
  <2> QED BY <2>1, <2>2
<1>7. ReadWasHeld' /\ ReadIsWhole'
  BY <1>1, <1>4, <1>6 DEF RecoveryInv, ReadWasHeld, ReadIsWhole, Archiving, QueryFirst, rows
<1> QED BY <1>5, <1>7 DEF RecoveryInv

LEMMA EndReadKeeps ==
  ASSUME RecoveryInv, EndRead
  PROVE  RecoveryInv'
<1>1. /\ task.step = "read" /\ \A l \in Leg : task.seen[l] # Unread
      /\ Fits
      /\ task' = [task EXCEPT !.step = "watch", !.left = IF AsksWatch THEN watch \X Leg ELSE {}]
      /\ UNCHANGED <<rows, preview, order, past, told, sent, hands>>
  BY DEF EndRead
<1>2. /\ RecoveryTypeOK /\ task \in Task /\ receipt \in Receipts /\ watch \subseteq Batch
  BY DEF RecoveryInv, RecoveryTypeOK
<1>3. watch \X Leg \subseteq (0 .. MaxSent) \X Leg
  <2>1. Batch \subseteq 0 .. MaxSent
    BY RecoveryAssumption DEF Batch
  <2> QED BY <1>2, <2>1
<1>4. /\ task' \in Task /\ task'.step = "watch" /\ task'.kind = task.kind
      /\ task'.seen = task.seen /\ task'.at = task.at
      /\ AsksWatch => task'.left = watch \X Leg
  BY <1>1, <1>2, <1>3 DEF Task
<1>5. RecoveryTypeOK' /\ FillsAreRecorded' /\ UnsentAreQuiet'
  BY <1>1, <1>2, <1>4, RequestMoves DEF rows
<1>6. Asking' => AsksWatch
  BY <1>4 DEF Asking, AsksWatch, Archiving
<1>7. ASSUME NEW l \in Leg
      PROVE  HeldOnce(l)'
  <2>1. PICK i \in DOMAIN past[l] : i >= task.at[l] /\ Qty(past[l][i]) = task.seen[l]
    BY <1>1 DEF RecoveryInv, ReadWasHeld, HeldOnce
  <2> QED BY <1>1, <1>4, <1>6, <2>1 DEF HeldOnce, rows
<1>8. ReadIsWhole'
  BY <1>1, <1>4 DEF RecoveryInv, ReadIsWhole, Fits, Archiving, QueryFirst, rows
<1>9. ReadWasHeld'
  BY <1>7 DEF ReadWasHeld
<1> QED BY <1>5, <1>8, <1>9 DEF RecoveryInv

\* An order that has not executed is in none of the positions so far.
LEMMA QueryWatchedKeeps ==
  ASSUME RecoveryInv, NEW n \in Batch, NEW l \in Leg, QueryWatched(n, l)
  PROVE  RecoveryInv'
<1>1. /\ task.step = "watch" /\ Found(n, l) # "filled" /\ task' = [task EXCEPT !.left = @ \ {<<n, l>>}]
      /\ UNCHANGED <<rows, preview, order, past, told, sent, hands>>
  BY DEF QueryWatched
<1>2. RecoveryTypeOK /\ task \in Task /\ receipt \in Receipts
  BY DEF RecoveryInv, RecoveryTypeOK
<1>3. /\ task' \in Task /\ task'.step = task.step /\ task'.kind = task.kind
      /\ task'.seen = task.seen /\ task'.at = task.at /\ task'.left = task.left \ {<<n, l>>}
  BY <1>1, <1>2 DEF Task
<1>4. RecoveryTypeOK' /\ FillsAreRecorded' /\ UnsentAreQuiet'
  BY <1>1, <1>2, <1>3, RequestMoves DEF rows
<1>5. \A i \in DOMAIN past[l] : n \notin past[l][i].filled
  BY <1>1 DEF RecoveryInv, FillsAreRecorded, Found
<1>6. ASSUME NEW m \in Leg, task'.seen[m] # Unread
      PROVE  HeldOnce(m)'
  <2>1. PICK i \in DOMAIN past[m] :
            /\ i >= task.at[m] /\ Qty(past[m][i]) = task.seen[m]
            /\ Asking => \A x \in watch : <<x, m>> \in task.left \/ x \notin past[m][i].filled
    BY <1>3, <1>6 DEF RecoveryInv, ReadWasHeld, HeldOnce
  <2>2. Asking' = Asking
    BY <1>3 DEF Asking
  <2>3. ASSUME Asking, NEW x \in watch
        PROVE  <<x, m>> \in task'.left \/ x \notin past[m][i].filled
    <3>1. CASE <<x, m>> = <<n, l>>
      BY <1>5, <3>1
    <3>2. CASE <<x, m>> # <<n, l>>
      BY <1>3, <2>1, <2>3, <3>2
    <3> QED BY <3>1, <3>2
  <2> QED BY <1>1, <1>3, <2>1, <2>2, <2>3 DEF HeldOnce, rows
<1>7. ReadWasHeld' /\ ReadIsWhole'
  BY <1>1, <1>3, <1>6 DEF RecoveryInv, ReadWasHeld, ReadIsWhole, rows
<1> QED BY <1>4, <1>7 DEF RecoveryInv

-----------------------------------------------------------------------------
(* The commits *)

\* A commit finds both accounts where they were when they were read.
LEMMA ReadIsCurrent ==
  ASSUME RecoveryInv, StillCurrent, NEW l \in Leg, task.seen[l] # Unread
  PROVE  /\ task.seen[l] \in Nat
         /\ \E i \in told[l] .. Len(past[l]) :
               /\ Qty(past[l][i]) = task.seen[l]
               /\ Asking => \A n \in watch : <<n, l>> \in task.left \/ n \notin past[l][i].filled
<1>1. RecoveryTypeOK /\ task.seen \in Reads
  BY TaskIsTyped DEF RecoveryInv
<1>2. task.seen[l] \in Nat
  BY <1>1 DEF Reads
<1>3. PICK i \in DOMAIN past[l] :
          /\ i >= task.at[l] /\ Qty(past[l][i]) = task.seen[l]
          /\ Asking => \A n \in watch : <<n, l>> \in task.left \/ n \notin past[l][i].filled
  BY DEF RecoveryInv, ReadWasHeld, HeldOnce
<1>4. i \in told[l] .. Len(past[l])
  BY <1>1, <1>3, CurrentPosition DEF StillCurrent, Current
<1> QED BY <1>2, <1>3, <1>4

LEMMA TakenWasHeld ==
  ASSUME RecoveryInv, StillCurrent, task.step = "watch", task.left = {},
         task.kind \in {"rebase", "start", "check", "flatten"}, NEW l \in Leg
  PROVE  task.seen[l] \in Nat /\ Sound(l, task.seen[l])
<1>1. task.seen[l] # Unread
  BY DEF RecoveryInv, ReadIsWhole
<1>2. task.seen[l] \in Nat
  BY <1>1, ReadIsCurrent
<1>3. PICK i \in told[l] .. Len(past[l]) :
          /\ Qty(past[l][i]) = task.seen[l]
          /\ Asking => \A n \in watch : <<n, l>> \in task.left \/ n \notin past[l][i].filled
  BY <1>1, ReadIsCurrent
<1>4. task.seen[l] > 0 => past[l][i].filled \cap watch = {}
  <2>1. CASE task.kind = "flatten"
    BY <2>1 DEF RecoveryInv, ReadIsWhole, Nothing
  <2>2. CASE task.kind # "flatten"
    BY <1>3, <2>2 DEF Asking
  <2> QED BY <2>1, <2>2
<1> QED BY <1>2, <1>3, <1>4 DEF Sound

\* A batch is completed with what both accounts held and its own receipts say.
LEMMA CompletedWasHeld ==
  ASSUME RecoveryInv, CheckCompletes
  PROVE  /\ owned' \in [Leg -> Nat]
         /\ owned' # owned => \A l \in Leg : Sound(l, owned'[l])
<1>1. /\ task.seen = ByReceipts /\ owned' = task.seen /\ StillCurrent /\ pend' = 0
      /\ task.kind = "check" /\ (receipt = Filled \/ task.seen = owned)
  BY DEF CheckCompletes, Adopt
<1>2. owned \in [Leg -> Nat]
  BY DEF RecoveryInv, RecoveryTypeOK
<1>3. owned' \in [Leg -> Nat]
  BY <1>1, <1>2 DEF ByReceipts
<1>4. \A l \in Leg : task.seen[l] # Unread
  BY <1>1, <1>3 DEF Unread
<1>5. ASSUME owned' # owned
      PROVE  ByOwnFills
  <2>1. pend # 0
    BY <1>1 DEF RecoveryInv, ReadIsWhole, QueryFirst
  <2> QED BY <1>1, <1>5, <2>1 DEF ByOwnFills
<1>6. ASSUME owned' # owned, NEW l \in Leg
      PROVE  Sound(l, owned'[l])
  <2>1. \E i \in told[l] .. Len(past[l]) : Qty(past[l][i]) = owned'[l]
    BY <1>1, <1>4, ReadIsCurrent
  <2> QED BY <1>5, <1>6, <2>1 DEF Sound
<1> QED BY <1>3, <1>6

LEMMA AdoptTakes ==
  ASSUME RecoveryInv, Adopt, NEW k \in {"rebase", "start", "check", "flatten"}, Checked(k)
  PROVE  /\ owned' \in [Leg -> Nat] /\ \A l \in Leg : Sound(l, owned'[l])
         /\ task' = NoTask /\ UNCHANGED <<watch, order, past, told, sent, hands>>
<1>1. /\ StillCurrent /\ owned' = task.seen /\ task' = NoTask
      /\ UNCHANGED <<watch, order, past, told, sent, hands>>
  BY DEF Adopt, Finish
<1>2. \A l \in Leg : task.seen[l] \in Nat /\ Sound(l, task.seen[l])
  BY <1>1, TakenWasHeld DEF Checked
<1>3. task.seen \in [Leg -> Nat]
  BY <1>2, TaskIsTyped DEF RecoveryInv, Reads
<1> QED BY <1>1, <1>2, <1>3

LEMMA PreviewKeeps ==
  ASSUME RecoveryInv, NEW k \in {"archive", "rebase"}, Preview(k)
  PROVE  RecoveryInv'
<1>1. /\ preview' = [kind |-> k, actual |-> task.seen, print |-> Fingerprint]
      /\ task' = NoTask /\ UNCHANGED <<rows, order, past, told, sent, hands>>
  BY DEF Preview, Finish
<1>2. preview' \in Previews
  BY <1>1, TaskIsTyped DEF RecoveryInv, RecoveryTypeOK, Previews, Fingerprint
<1> QED BY <1>1, <1>2, DoneIsFree DEF RecoveryInv, RecoveryTypeOK, rows

LEMMA ArchiveKeeps ==
  ASSUME RecoveryInv, Archive
  PROVE  RecoveryInv'
<1>1. /\ watch' = watch \cup {pend} /\ pend' = 0 /\ preview' = NoPreview /\ task' = NoTask
      /\ task.kind = "archive"
      /\ UNCHANGED <<on, owned, receipt, order, past, told, sent, hands>>
  BY DEF Archive, Finish, Checked
<1>2. RecoveryTypeOK /\ pend # 0
  BY <1>1 DEF RecoveryInv, ReadIsWhole, Archiving, QueryFirst
<1>3. pend \in Batch
  BY <1>2, RecoveryAssumption DEF RecoveryTypeOK, Batch
<1> QED BY <1>1, <1>2, <1>3, DoneIsFree, IdleNumber DEF RecoveryTypeOK

LEMMA EndingsKeep ==
  ASSUME RecoveryInv, RestoreReceipts \/ Rebase \/ Start \/ CheckAdopts \/ CheckCompletes \/ FlattenBase
                      \/ SkipPositions \/ Stop \/ Fail
  PROVE  RecoveryInv'
<1> USE RecoveryConstants
<1>1. /\ on \in BOOLEAN /\ owned \in [Leg -> Nat] /\ pend \in 0 .. MaxSent /\ receipt \in Receipts
      /\ watch \subseteq Batch /\ preview \in {NoPreview} \cup Previews /\ 0 \in 0 .. MaxSent
  BY IdleNumber DEF RecoveryInv, RecoveryTypeOK
<1>2. CASE RestoreReceipts
  BY <1>1, <1>2, DoneIsFree, TaskIsTyped DEF RestoreReceipts, Finish, RecoveryInv
<1>3. CASE Rebase
  <2>1. owned' \in [Leg -> Nat] /\ task' = NoTask /\ UNCHANGED <<watch, order, past, told, sent, hands>>
    BY <1>3, AdoptTakes DEF Rebase
  <2> QED BY <1>1, <1>3, <2>1, DoneIsFree DEF Rebase
<1>4. CASE Start
  <2>1. owned' \in [Leg -> Nat] /\ task' = NoTask /\ UNCHANGED <<watch, order, past, told, sent, hands>>
    BY <1>4, AdoptTakes DEF Start
  <2> QED BY <1>1, <1>4, <2>1, DoneIsFree DEF Start
<1>5. CASE CheckAdopts
  <2>1. owned' \in [Leg -> Nat] /\ task' = NoTask /\ UNCHANGED <<watch, order, past, told, sent, hands>>
    BY <1>5, AdoptTakes DEF CheckAdopts
  <2> QED BY <1>1, <1>5, <2>1, DoneIsFree DEF CheckAdopts
<1>6. CASE FlattenBase
  <2>1. owned' \in [Leg -> Nat] /\ task' = NoTask /\ UNCHANGED <<watch, order, past, told, sent, hands>>
    BY <1>6, AdoptTakes DEF FlattenBase
  <2> QED BY <1>1, <1>6, <2>1, DoneIsFree DEF FlattenBase
<1>7. CASE SkipPositions
  BY <1>1, <1>7, DoneIsFree DEF SkipPositions
<1>8. CASE Stop
  BY <1>1, <1>8, DoneIsFree DEF Stop
<1>9. CASE Fail
  BY <1>1, <1>9, DoneIsFree DEF Fail, Finish, rows
<1>10. CASE CheckCompletes
  <2>1. owned' \in [Leg -> Nat]
    BY <1>10, CompletedWasHeld
  <2> QED BY <1>1, <1>10, <2>1, DoneIsFree DEF CheckCompletes, Adopt, Finish
<1> QED BY <1>2, <1>3, <1>4, <1>5, <1>6, <1>7, <1>8, <1>9, <1>10

LEMMA RecoveryStarts == RecoveryInit => RecoveryInv
<1> SUFFICES ASSUME RecoveryInit PROVE RecoveryInv
  OBVIOUS
<1>1. /\ on = FALSE /\ owned = Nothing /\ pend = 0 /\ receipt = Unknown /\ watch = {}
      /\ preview = NoPreview /\ task = NoTask /\ sent = 0 /\ hands = 0
      /\ order = [n \in Batch |-> [l \in Leg |-> "none"]]
      /\ told = [l \in Leg |-> 1]
  BY DEF RecoveryInit
<1> DEFINE p == [hand |-> 0, filled |-> {}]
<1>2. past = [l \in Leg |-> <<p>>]
  BY DEF RecoveryInit
<1>3. p \in Position /\ Qty(p) = 0 /\ p.filled = {}
  BY FS_EmptySet DEF Position, Qty
<1> HIDE DEF p
<1>4. \A l \in Leg : past[l] \in Seq(Position) /\ DOMAIN past[l] = {1} /\ past[l][1] = p
  BY <1>2, <1>3
<1>5. RecoveryTypeOK
  <2>1. past \in [Leg -> Seq(Position)]
    BY <1>2, <1>4
  <2>2. \A l \in Leg : told[l] \in DOMAIN past[l] /\ \A i \in DOMAIN past[l] : Qty(past[l][i]) \in Nat
    BY <1>1, <1>3, <1>4
  <2>3. hands \in 0 .. MaxHand /\ sent \in 0 .. MaxSent
    BY <1>1, RecoveryAssumption
  <2> QED BY <1>1, <2>1, <2>2, <2>3, RecoveryConstants, IdleNumber DEF RecoveryTypeOK
<1>6. FillsAreRecorded
  BY <1>3, <1>4 DEF FillsAreRecorded
<1>7. UnsentAreQuiet
  BY <1>1 DEF UnsentAreQuiet
<1>8. ReadWasHeld /\ ReadIsWhole
  BY <1>1, RecoveryConstants, IdleNumber DEF ReadWasHeld, ReadIsWhole
<1> QED BY <1>5, <1>6, <1>7, <1>8 DEF RecoveryInv

LEMMA RecoveryKept == RecoveryInv /\ [RecoveryNext]_recoveryVars => RecoveryInv'
<1> SUFFICES ASSUME RecoveryInv, [RecoveryNext]_recoveryVars PROVE RecoveryInv'
  OBVIOUS
<1>1. CASE UNCHANGED recoveryVars
  <2>1. UNCHANGED <<on, owned, pend, receipt, watch, preview, task, order, past, told, sent, hands>>
    BY <1>1 DEF recoveryVars, rows
  <2>2. RecoveryTypeOK' /\ FillsAreRecorded' /\ UnsentAreQuiet'
    BY <2>1 DEF RecoveryInv, RecoveryTypeOK, FillsAreRecorded, UnsentAreQuiet, Batch
  <2> QED BY <2>1, <2>2, ReadSurvives DEF RecoveryInv
<1>2. CASE OpenBatch
  BY <1>2, OpenBatchKeeps
<1>3. ASSUME NEW k \in Archiving \cup Rebasing \cup {"start", "check", "flatten"}, Begin(k)
      PROVE  RecoveryInv'
  BY <1>3, BeginKeeps
<1>4. CASE Expire
  <2>1. preview' = NoPreview /\ UNCHANGED <<on, owned, pend, receipt, watch, task, order, past, told, sent, hands>>
    BY <1>4 DEF Expire, rows
  <2>2. RecoveryTypeOK' /\ FillsAreRecorded' /\ UnsentAreQuiet'
    BY <2>1 DEF RecoveryInv, RecoveryTypeOK, FillsAreRecorded, UnsentAreQuiet, Batch
  <2> QED BY <2>1, <2>2, ReadSurvives DEF RecoveryInv
<1>5. ASSUME NEW l \in Leg, QueryLeg(l) \/ Sample(l) \/ TradeByHand(l) \/ Announce(l)
      PROVE  RecoveryInv'
  BY <1>5, QueryLegKeeps, SampleKeeps, TradeByHandKeeps, AnnounceKeeps
<1>6. CASE EndLegs \/ EndRead
  BY <1>6, EndLegsKeeps, EndReadKeeps
<1>7. ASSUME NEW n \in Batch, NEW l \in Leg,
             QueryWatched(n, l) \/ OrderExecutes(n, l) \/ OrderEnds(n, l)
      PROVE  RecoveryInv'
  BY <1>7, QueryWatchedKeeps, OrderExecutesKeeps, OrderEndsKeeps
<1>8. CASE PreviewArchive \/ PreviewBase
  BY <1>8, PreviewKeeps DEF PreviewArchive, PreviewBase
<1>9. CASE Archive
  BY <1>9, ArchiveKeeps
<1>10. CASE \/ RestoreReceipts \/ Rebase \/ Start \/ CheckAdopts \/ CheckCompletes
            \/ FlattenBase \/ SkipPositions \/ Stop \/ Fail
  BY <1>10, EndingsKeep
<1> QED BY <1>1, <1>2, <1>3, <1>4, <1>5, <1>6, <1>7, <1>8, <1>9, <1>10 DEF RecoveryNext

\* What a request of a paused group has read was a position of the account,
\* held since the last event it had heard of; and once the request is at the
\* watched orders, without those it has asked for (pair_recovery.py,
\* reconcile_positions and confirm_baseline; pairing.py, activate).  A check
\* that completes a batch by its receipts never comes to the watched orders.
THEOREM RecoveryInvariant == RecoverySpec => []RecoveryInv
<1>1. RecoveryInit => RecoveryInv
  BY RecoveryStarts
<1>2. RecoveryInv /\ [RecoveryNext]_recoveryVars => RecoveryInv'
  BY RecoveryKept
<1> QED BY <1>1, <1>2, PTL DEF RecoverySpec

\* The base changes, and a group starts, only by a commit.
LEMMA OnlyCommitsAdopt ==
  ASSUME RecoveryInv, RecoveryNext, owned' # owned \/ (on' /\ ~on), NEW l \in Leg
  PROVE  Sound(l, owned'[l])
<1>1. ASSUME Adopt, NEW k \in {"rebase", "start", "check", "flatten"}, Checked(k)
      PROVE  Sound(l, owned'[l])
  BY <1>1, AdoptTakes
<1>2. CASE Rebase \/ Start \/ CheckAdopts \/ FlattenBase
  BY <1>1, <1>2 DEF Rebase, Start, CheckAdopts, FlattenBase
<1>3. CASE CheckCompletes
  <2>1. on' = on
    BY <1>3 DEF CheckCompletes
  <2> QED BY <1>3, <2>1, CompletedWasHeld
<1>4. ASSUME ~(Rebase \/ Start \/ CheckAdopts \/ CheckCompletes \/ FlattenBase)
      PROVE  owned' = owned /\ (on' => on)
  <2>1. CASE OpenBatch \/ Stop
    BY <2>1 DEF OpenBatch, Stop
  <2>2. ASSUME NEW k \in Archiving \cup Rebasing \cup {"start", "check", "flatten"}, Begin(k)
        PROVE  owned' = owned /\ (on' => on)
    BY <2>2 DEF Begin, rows
  <2>3. CASE Fail \/ Expire \/ EndLegs \/ EndRead
    BY <2>3 DEF Fail, Expire, EndLegs, EndRead, rows
  <2>4. ASSUME NEW m \in Leg, QueryLeg(m) \/ Sample(m) \/ TradeByHand(m) \/ Announce(m)
        PROVE  owned' = owned /\ (on' => on)
    BY <2>4 DEF QueryLeg, Sample, TradeByHand, Announce, rows
  <2>5. ASSUME NEW n \in Batch, NEW m \in Leg,
               QueryWatched(n, m) \/ OrderExecutes(n, m) \/ OrderEnds(n, m)
        PROVE  owned' = owned /\ (on' => on)
    BY <2>5 DEF QueryWatched, OrderExecutes, OrderEnds, rows
  <2>6. CASE PreviewArchive \/ PreviewBase \/ RestoreReceipts \/ Archive \/ SkipPositions
    BY <2>6 DEF PreviewArchive, PreviewBase, Preview, RestoreReceipts, Archive, SkipPositions, rows
  <2> QED BY <1>4, <2>1, <2>2, <2>3, <2>4, <2>5, <2>6 DEF RecoveryNext
<1> QED BY <1>2, <1>3, <1>4

\* A group only ever takes for its base what both accounts really held, no
\* earlier than the last event they announced, and no order it has archived as
\* unknown: except when a checked batch ends with exactly what its own receipts
\* say (pair_recovery.py, confirm_baseline and reconcile_positions; pairing.py,
\* activate; pair_execution.py, _recover, which asks for no archived order).
THEOREM BaseIsTheTruth == RecoverySpec => BaseIsSound
<1>1. RecoveryInv /\ [RecoveryNext]_recoveryVars
        => [owned' # owned \/ (on' /\ ~on) => \A l \in Leg : Sound(l, owned'[l])]_recoveryVars
  BY OnlyCommitsAdopt
<1> QED BY <1>1, RecoveryInvariant, PTL DEF RecoverySpec, BaseIsSound

-----------------------------------------------------------------------------
(* The alert about the positions of a group *)

\* The activity tells whether a batch was running when a sample was taken.
Witnessed(s) == s.activity <= activity /\ (s.activity = activity => s.calm = Calm)

SamplesAreWitnessed ==
    /\ Witnessed(shown) /\ Witnessed(notifier.seen) /\ Witnessed(target.evidence)
    /\ activity = 0 => run = "none"

\* What was captured is not ahead of the group, nor a sample of its capture.
CapturesFollow ==
    /\ notifier.activity <= activity
    /\ target.activity <= activity /\ target.capture = target.activity
    /\ notifier.at = "collected" => notifier.seen.activity <= notifier.activity

\* A sample made after the one that began a window, or after the one in hand,
\* was taken when that one had been collected.
LaterIsLater ==
    /\ notifier.at = "collected" /\ notifier.seen.at # Never /\ shown.at > notifier.seen.at
          => shown.activity >= notifier.activity
    /\ target.window.count >= 1 =>
         \A s \in {shown, notifier.seen} : s.at > target.window.start => s.activity >= target.activity

\* A window of two samples has two times.
WindowGrows(w, last) == w.count >= 1 =>
    /\ w.start # Never /\ last # Never /\ w.start <= last
    /\ w.count >= 2 => w.start < last

\* What is permitted is what a sample within the captured activity shows.
PermitIsEarned == target.permitted # "none" =>
    Kind(target.evidence) = target.permitted /\ target.evidence.activity = target.capture

ImbalanceInv ==
    /\ ImbalanceTypeOK /\ SamplesAreWitnessed /\ CapturesFollow
    /\ LaterIsLater /\ WindowGrows(target.window, target.last) /\ PermitIsEarned

LEMMA AlertConstants ==
  /\ NoSample \in Evidence /\ NoWindow \in Window /\ NoTarget \in Watched /\ IdleNotify \in Notifier
  /\ NoRow \in Row /\ NoRows \in [Message -> Row]
  /\ NoSample.at = Never /\ NoSample.activity = 0 /\ NoSample.calm = TRUE
  /\ NoWindow.count = 0
  /\ NoTarget.window = NoWindow /\ NoTarget.activity = 0 /\ NoTarget.capture = 0
  /\ NoTarget.evidence = NoSample /\ NoTarget.permitted = "none"
  /\ IdleNotify.at = "idle" /\ IdleNotify.seen = NoSample /\ IdleNotify.activity = 0
  <1>1. NoSample \in Evidence /\ NoSample.at = Never /\ NoSample.activity = 0 /\ NoSample.calm = TRUE
    BY DEF NoSample, Evidence, Time, Never
  <1>2. NoWindow \in Window /\ NoWindow.count = 0
    BY DEF NoWindow, Window, Time
  <1>3. NoRow \in Row /\ NoRows \in [Message -> Row]
    BY DEF NoRow, NoRows, Row
  <1>4. NoTarget \in Watched
    BY <1>1, <1>2 DEF NoTarget, Watched, Time
  <1>5. IdleNotify \in Notifier
    BY <1>1 DEF IdleNotify, Notifier
  <1> QED BY <1>1, <1>2, <1>3, <1>4, <1>5 DEF NoTarget, IdleNotify

\* Rows only change their states and times.
LEMMA RowsStayRows ==
  ASSUME NEW rs \in [Message -> Row]
  PROVE CancelAll(rs) \in [Message -> Row]
  BY DEF CancelAll, Cancelled, Row

LEMMA QueueIsTyped ==
  ASSUME NEW rs \in [Message -> Row], NEW t \in Watched, clock \in Nat
  PROVE Queue(t, rs) \in [Message -> Row]
  <1> DEFINE m == t.permitted
             q == IF rs[m].state \in {"pending", "cancelled"} THEN [rs[m] EXCEPT !.state = "pending"]
                  ELSE IF rs[m].state = "none" THEN [state |-> "pending", due |-> clock] ELSE rs[m]
  <1>1. CASE m = "none"
    BY <1>1 DEF Queue
  <1>2. CASE m # "none"
    <2>1. m \in Message
      BY <1>2 DEF Watched
    <2>2. q \in Row
      BY <2>1 DEF Row
    <2>3. Queue(t, rs) = [rs EXCEPT ![m] = q]
      BY <1>2, <2>1 DEF Queue
    <2> QED BY <2>2, <2>3
  <1> QED BY <1>1, <1>2

\* An observation takes its permission and evidence back; it keeps the window
\* only within one activity.
LEMMA RenewEffect ==
  ASSUME NEW t \in Watched, NEW suppressed \in BOOLEAN, notifier \in Notifier
  PROVE LET r == Renew(t, suppressed) IN
        /\ r \in Watched
        /\ r.activity = notifier.activity /\ r.capture = notifier.activity
        /\ r.permitted = "none" /\ r.evidence = NoSample
        /\ \/ r.window = NoWindow
           \/ r.window = t.window /\ r.last = t.last /\ t.activity = notifier.activity
  <1> DEFINE kept == [t EXCEPT !.known = TRUE, !.activity = notifier.activity, !.suppressed = suppressed,
                               !.capture = notifier.activity, !.permitted = "none", !.evidence = NoSample]
             quiet == IF Interrupted(t, suppressed) \/ ~t.known THEN ClearWindow(kept) ELSE kept
  <1>1. /\ kept \in Watched /\ kept.activity = notifier.activity /\ kept.capture = notifier.activity
        /\ kept.permitted = "none" /\ kept.evidence = NoSample
        /\ kept.window = t.window /\ kept.last = t.last
    BY AlertConstants DEF Watched, Notifier
  <1>2. ASSUME NEW x \in Watched, x.activity = notifier.activity, x.capture = notifier.activity,
               x.permitted = "none", x.evidence = NoSample
        PROVE /\ DropUnsent([x EXCEPT !.window = NoWindow]) \in Watched
              /\ DropUnsent([x EXCEPT !.window = NoWindow]).activity = notifier.activity
              /\ DropUnsent([x EXCEPT !.window = NoWindow]).capture = notifier.activity
              /\ DropUnsent([x EXCEPT !.window = NoWindow]).permitted = "none"
              /\ DropUnsent([x EXCEPT !.window = NoWindow]).evidence = NoSample
              /\ DropUnsent([x EXCEPT !.window = NoWindow]).window = NoWindow
    BY <1>2, AlertConstants DEF DropUnsent, Watched
  <1>3. /\ ClearWindow(kept) \in Watched
        /\ ClearWindow(kept).activity = notifier.activity /\ ClearWindow(kept).capture = notifier.activity
        /\ ClearWindow(kept).permitted = "none" /\ ClearWindow(kept).evidence = NoSample
        /\ ClearWindow(kept).window = NoWindow
    <2> HIDE DEF kept
    <2>1. [kept EXCEPT !.window = NoWindow, !.last = Never]
            = [[kept EXCEPT !.last = Never] EXCEPT !.window = NoWindow]
      BY <1>1 DEF Watched
    <2>2. /\ [kept EXCEPT !.last = Never] \in Watched
          /\ [kept EXCEPT !.last = Never].activity = notifier.activity
          /\ [kept EXCEPT !.last = Never].capture = notifier.activity
          /\ [kept EXCEPT !.last = Never].permitted = "none"
          /\ [kept EXCEPT !.last = Never].evidence = NoSample
      BY <1>1 DEF Watched, Time
    <2> QED BY <1>2, <2>1, <2>2 DEF ClearWindow
  <1>4. /\ quiet \in Watched /\ quiet.activity = notifier.activity /\ quiet.capture = notifier.activity
        /\ quiet.permitted = "none" /\ quiet.evidence = NoSample
        /\ \/ quiet.window = NoWindow
           \/ quiet.window = t.window /\ quiet.last = t.last /\ t.activity = notifier.activity
    <2>1. CASE Interrupted(t, suppressed) \/ ~t.known
      BY <1>3, <2>1
    <2>2. CASE ~(Interrupted(t, suppressed) \/ ~t.known)
      <3>1. t.activity = notifier.activity
        BY <2>2 DEF Interrupted
      <3> QED BY <1>1, <2>2, <3>1
    <2> QED BY <2>1, <2>2
  <1>5. Renew(t, suppressed) = quiet \/ Renew(t, suppressed) = DropUnsent([quiet EXCEPT !.window = NoWindow])
    BY DEF Renew
  <1> HIDE DEF quiet
  <1> QED BY <1>2, <1>4, <1>5

\* A usable sample leaves no window, begins one, repeats the last of its
\* window, or adds a later one.
LEMMA ExtendEffect ==
  ASSUME NEW t \in Watched, NEW s \in Evidence, s.at # Never, Usable(t, s),
         WindowGrows(t.window, t.last)
  PROVE LET e == Extend(t, s) IN
        /\ e \in Watched
        /\ e.activity = t.activity /\ e.capture = t.capture /\ e.permitted = t.permitted /\ e.evidence = s
        /\ WindowGrows(e.window, e.last)
        /\ e.window.count >= 1 =>
             \/ e.window.start = s.at /\ e.window.count = 1
             \/ /\ t.window.count >= 1 /\ e.window.start = t.window.start
                /\ e.window.count >= 2 => s.at > t.window.start
  <1> DEFINE same  == IF t.window.kind = Kind(s) THEN t.window ELSE NoWindow
             newer == t.last = Never \/ s.at > t.last
             grown == IF same.count = 0
                      THEN [kind |-> Kind(s), start |-> s.at, count |-> 1, confirmed |-> s.at]
                      ELSE [same EXCEPT !.count = @ + 1, !.confirmed = s.at]
             kept  == IF s.even THEN DropUnsent(t) ELSE t
             w     == IF newer THEN grown ELSE same
             l     == IF newer THEN s.at ELSE t.last
  <1>1. /\ s.at \in Nat /\ t.last \in Time /\ t.window \in Window /\ Kind(s) \in Message
        /\ (t.last # Never => s.at >= t.last)
    BY DEF Evidence, Watched, Time, Kind, Message, Usable
  <1>2. same \in Window /\ (same = t.window \/ same.count = 0)
    BY <1>1, AlertConstants
  <1>3. /\ kept \in Watched /\ kept.activity = t.activity /\ kept.capture = t.capture
        /\ kept.permitted = t.permitted
    BY DEF DropUnsent, Watched
  <1>4. Extend(t, s) = [kept EXCEPT !.evidence = s, !.window = w, !.last = l]
    <2>1. kept.last = t.last
      BY DEF DropUnsent, Watched
    <2> QED BY <2>1 DEF Extend
  <1> HIDE DEF same, kept
  <1>5. grown \in Window
    <2>1. CASE same.count = 0
      BY <1>1, <2>1 DEF Window, Time
    <2>2. CASE same.count # 0
      <3>1. same.count + 1 \in Nat /\ s.at \in Time
        BY <1>1, <1>2 DEF Window, Time
      <3> QED BY <1>2, <2>2, <3>1 DEF Window
    <2> QED BY <2>1, <2>2
  <1>6. w \in Window /\ l \in Time
    BY <1>1, <1>2, <1>5 DEF Time
  <1>7. CASE newer /\ same.count = 0
    <2>1. w.start = s.at /\ w.count = 1 /\ l = s.at
      BY <1>7
    <2> HIDE DEF w, l
    <2>2. WindowGrows(w, l)
      BY <1>1, <2>1 DEF WindowGrows, Never
    <2> QED BY <1>3, <1>4, <1>6, <2>1, <2>2 DEF Watched
  <1>8. CASE newer /\ same.count # 0
    <2>1. same = t.window /\ t.window.count \in Nat /\ t.window.count >= 1 /\ t.window.start \in Nat
          /\ t.last \in Nat /\ t.window.start <= t.last /\ s.at > t.last
      BY <1>1, <1>2, <1>8 DEF WindowGrows, Window, Time, Never
    <2>2. w.start = t.window.start /\ w.count = t.window.count + 1 /\ l = s.at
      BY <1>2, <1>8, <2>1 DEF Window
    <2>3. s.at > t.window.start
      BY <1>1, <2>1
    <2> HIDE DEF w, l
    <2>4. WindowGrows(w, l)
      BY <1>1, <2>1, <2>2, <2>3 DEF WindowGrows, Never
    <2> QED BY <1>3, <1>4, <1>6, <2>1, <2>2, <2>3, <2>4 DEF Watched
  <1>9. CASE ~newer
    <2>1. w = same /\ l = t.last /\ t.last # Never /\ s.at = t.last
      BY <1>1, <1>9 DEF Time, Never
    <2> HIDE DEF w, l
    <2>2. CASE same.count = 0
      <3>1. WindowGrows(w, l)
        BY <2>1, <2>2 DEF WindowGrows
      <3>2. ~(w.count >= 1)
        BY <2>1, <2>2
      <3> QED BY <1>3, <1>4, <1>6, <3>1, <3>2 DEF Watched
    <2>3. CASE same.count # 0
      <3>1. w = t.window /\ t.window.count >= 1
        BY <1>1, <1>2, <2>1, <2>3 DEF Window
      <3>2. t.window.count >= 2 => s.at > t.window.start
        BY <1>1, <2>1, <3>1 DEF WindowGrows, Window, Time, Never
      <3>3. WindowGrows(w, l)
        BY <2>1, <3>1
      <3> QED BY <1>3, <1>4, <1>6, <2>1, <3>1, <3>2, <3>3 DEF Watched
    <2> QED BY <2>2, <2>3
  <1> QED BY <1>7, <1>8, <1>9

\* A permission is for what the sample shows, after two samples.
LEMMA PermitEffect ==
  ASSUME NEW t \in Watched, NEW s \in Evidence, t.permitted = "none"
  PROVE LET p == Permit(t, s) IN
        /\ p \in Watched
        /\ p.activity = t.activity /\ p.capture = t.capture /\ p.evidence = t.evidence
        /\ p.window = t.window /\ p.last = t.last
        /\ p.permitted # "none" => p.permitted = Kind(s) /\ t.window.count >= 2
  <1>1. CASE ~LongEnough(t, s)
    BY <1>1 DEF Permit
  <1>2. CASE LongEnough(t, s)
    <2>1. t.window.count >= 2
      BY <1>2 DEF LongEnough
    <2>2. \/ Permit(t, s) = t
          \/ s.even /\ Permit(t, s) = [t EXCEPT !.permitted = "recovery"]
          \/ ~s.even /\ Permit(t, s) = [t EXCEPT !.incident = "open", !.permitted = "fault"]
      BY <1>2 DEF Permit
    <2> QED BY <2>1, <2>2 DEF Watched, Message, Kind
  <1> QED BY <1>1, <1>2

LEMMA ImbalanceStarts == ASSUME ImbalanceBounds, ImbalanceInit PROVE ImbalanceInv
  <1>0. /\ shown = NoSample /\ notifier = IdleNotify /\ target = NoTarget
        /\ notifier.seen = NoSample /\ notifier.at = "idle" /\ notifier.activity = 0
        /\ target.evidence = NoSample /\ target.activity = 0 /\ target.capture = 0
        /\ target.window.count = 0 /\ target.permitted = "none"
        /\ activity = 0 /\ run = "none" /\ Calm = TRUE
    BY AlertConstants DEF ImbalanceInit, Calm
  <1>1. ImbalanceTypeOK
    <2>1. MaxClock \in Nat /\ MaxRuns \in Nat /\ MaxShocks \in Nat
      BY DEF ImbalanceBounds
    <2>2. clock \in 0 .. MaxClock /\ runs \in 0 .. MaxRuns /\ shocks \in 0 .. MaxShocks
      BY <2>1 DEF ImbalanceInit
    <2>3. even \in BOOLEAN /\ allowed \in BOOLEAN /\ fresh \in BOOLEAN /\ revision \in Nat /\ activity \in Nat
      BY DEF ImbalanceInit
    <2>4. row \in [Message -> Row] /\ run \in {"none", "running", "attention"}
      BY AlertConstants DEF ImbalanceInit
    <2>5. shown \in Evidence /\ target \in Watched /\ notifier \in Notifier /\ notifier.at # "sending"
      BY <1>0, AlertConstants
    <2> QED BY <2>2, <2>3, <2>4, <2>5 DEF ImbalanceTypeOK
  <1>2. SamplesAreWitnessed /\ CapturesFollow
    <2>1. Witnessed(NoSample)
      <3>1. NoSample.calm = Calm
        BY <1>0, AlertConstants
      <3> QED BY <1>0, <3>1, AlertConstants DEF Witnessed
    <2>2. SamplesAreWitnessed
      BY <1>0, <2>1 DEF SamplesAreWitnessed
    <2>3. CapturesFollow
      BY <1>0 DEF CapturesFollow
    <2> QED BY <2>2, <2>3
  <1>3. LaterIsLater /\ WindowGrows(target.window, target.last) /\ PermitIsEarned
    BY <1>0 DEF LaterIsLater, WindowGrows, PermitIsEarned
  <1> QED BY <1>1, <1>2, <1>3 DEF ImbalanceInv

\* The group, its accounts and the clock.
LEMMA WorldKeeps ==
  ASSUME ImbalanceBounds, ImbalanceInv,
         Tick \/ RunBegins \/ LegExecutes \/ RunEnds \/ PositionsShift
  PROVE ImbalanceInv'
  <1>0. UNCHANGED <<shown, allowed, revision, fresh, target, row, notifier>>
    BY DEF Tick, RunBegins, LegExecutes, RunEnds, PositionsShift
  <1>1. /\ clock' \in 0 .. MaxClock /\ runs' \in 0 .. MaxRuns /\ shocks' \in 0 .. MaxShocks
        /\ even' \in BOOLEAN /\ run' \in {"none", "running", "attention"}
        /\ activity' = activity \/ activity' = activity + 1
        /\ activity' = activity => run' = run
    <2>1. MaxClock \in Nat /\ MaxRuns \in Nat /\ MaxShocks \in Nat /\ activity \in Nat
      BY DEF ImbalanceBounds, ImbalanceInv, ImbalanceTypeOK
    <2>2. CASE Tick
      BY <2>1, <2>2 DEF Tick, ImbalanceInv, ImbalanceTypeOK
    <2>3. CASE RunBegins
      BY <2>1, <2>3 DEF RunBegins, ImbalanceInv, ImbalanceTypeOK
    <2>4. CASE LegExecutes
      BY <2>1, <2>4 DEF LegExecutes, ImbalanceInv, ImbalanceTypeOK
    <2>5. CASE RunEnds
      BY <2>1, <2>5 DEF RunEnds, ImbalanceInv, ImbalanceTypeOK
    <2>6. CASE PositionsShift
      BY <2>1, <2>6 DEF PositionsShift, ImbalanceInv, ImbalanceTypeOK
    <2> QED BY <2>2, <2>3, <2>4, <2>5, <2>6
  <1>2. activity \in Nat /\ activity' \in Nat /\ activity <= activity' /\ (activity' = 0 => run' = "none")
    BY <1>1 DEF ImbalanceInv, ImbalanceTypeOK, SamplesAreWitnessed
  <1>3. /\ shown \in Evidence /\ notifier.seen \in Evidence /\ target.evidence \in Evidence
        /\ notifier.activity \in Nat /\ target.activity \in Nat
    BY DEF ImbalanceInv, ImbalanceTypeOK, Notifier, Watched
  <1>4. ImbalanceTypeOK'
    BY <1>0, <1>1, <1>2 DEF ImbalanceInv, ImbalanceTypeOK
  <1>5. SamplesAreWitnessed'
    <2>1. Witnessed(shown) /\ Witnessed(notifier.seen) /\ Witnessed(target.evidence)
      BY DEF ImbalanceInv, SamplesAreWitnessed
    <2>2. shown.activity \in Nat /\ notifier.seen.activity \in Nat /\ target.evidence.activity \in Nat
      BY <1>3 DEF Evidence
    <2>3. Witnessed(shown)' /\ Witnessed(notifier.seen)' /\ Witnessed(target.evidence)'
      <3>1. \A s \in {shown, notifier.seen, target.evidence} : Witnessed(s)'
        <4>1. ASSUME NEW s \in {shown, notifier.seen, target.evidence}
              PROVE s.activity <= activity' /\ (s.activity = activity' => s.calm = Calm')
          <5>1. s.activity \in Nat /\ s.activity <= activity /\ (s.activity = activity => s.calm = Calm)
            BY <2>1, <2>2 DEF Witnessed
          <5>2. CASE activity' = activity
            <6>1. Calm' = Calm
              BY <1>1, <5>2 DEF Calm
            <6> QED BY <5>1, <5>2, <6>1
          <5>3. CASE activity' = activity + 1
            BY <1>2, <5>1, <5>3
          <5> QED BY <1>1, <5>2, <5>3
        <4> QED BY <1>0, <4>1 DEF Witnessed
      <3> QED BY <1>0, <3>1
    <2> QED BY <1>2, <2>3 DEF SamplesAreWitnessed
  <1>6. CapturesFollow'
    BY <1>0, <1>2, <1>3 DEF ImbalanceInv, CapturesFollow
  <1>7. LaterIsLater' /\ WindowGrows(target.window, target.last)' /\ PermitIsEarned'
    BY <1>0 DEF ImbalanceInv, LaterIsLater, WindowGrows, PermitIsEarned, Kind
  <1> QED BY <1>4, <1>5, <1>6, <1>7 DEF ImbalanceInv

LEMMA TakeSampleKeeps == ASSUME ImbalanceInv, TakeSample PROVE ImbalanceInv'
  <1>0. /\ UNCHANGED <<clock, even, run, activity, runs, shocks, allowed, revision, fresh, target, row, notifier>>
        /\ shown' = [at |-> clock, even |-> even, activity |-> activity, calm |-> Calm]
    BY DEF TakeSample
  <1>1. /\ activity \in Nat /\ clock \in Nat /\ even \in BOOLEAN /\ Calm \in BOOLEAN
        /\ notifier.activity \in Nat /\ target.activity \in Nat
    BY DEF ImbalanceInv, ImbalanceTypeOK, Notifier, Watched, Calm
  <1>2. shown' \in Evidence /\ shown'.activity = activity /\ shown'.calm = Calm
    BY <1>0, <1>1 DEF Evidence, Time
  <1>3. ImbalanceTypeOK'
    BY <1>0, <1>2 DEF ImbalanceInv, ImbalanceTypeOK
  <1>4. Calm' = Calm
    BY <1>0 DEF Calm
  <1>5. SamplesAreWitnessed'
    <2>1. Witnessed(shown)'
      BY <1>0, <1>1, <1>2, <1>4 DEF Witnessed
    <2>2. Witnessed(notifier.seen)' /\ Witnessed(target.evidence)'
      BY <1>0, <1>4 DEF ImbalanceInv, SamplesAreWitnessed, Witnessed
    <2>3. (activity = 0 => run = "none")'
      BY <1>0 DEF ImbalanceInv, SamplesAreWitnessed
    <2> QED BY <2>1, <2>2, <2>3 DEF SamplesAreWitnessed
  <1>6. CapturesFollow'
    BY <1>0 DEF ImbalanceInv, CapturesFollow
  <1>7. LaterIsLater'
    <2>1. shown'.activity >= notifier.activity /\ shown'.activity >= target.activity
      BY <1>1, <1>2 DEF ImbalanceInv, CapturesFollow
    <2> QED BY <1>0, <2>1 DEF ImbalanceInv, LaterIsLater
  <1>8. WindowGrows(target.window, target.last)' /\ PermitIsEarned'
    BY <1>0 DEF ImbalanceInv, WindowGrows, PermitIsEarned, Kind
  <1> QED BY <1>3, <1>5, <1>6, <1>7, <1>8 DEF ImbalanceInv

\* Steps that leave the group, its sample and the target.
LEMMA NotifierMoves ==
  ASSUME ImbalanceInv, UNCHANGED <<world, target>>,
         allowed' \in BOOLEAN, revision' \in Nat, fresh' \in BOOLEAN, row' \in [Message -> Row],
         notifier' \in Notifier, notifier'.at = "sending" => notifier'.item \in Message,
         notifier'.seen = notifier.seen \/ notifier'.seen = NoSample \/ notifier'.seen = shown,
         notifier'.activity <= activity,
         notifier'.at = "collected" =>
            notifier'.activity = activity /\ (notifier'.seen = NoSample \/ notifier'.seen = shown)
  PROVE ImbalanceInv'
  <1>0. UNCHANGED <<clock, even, run, activity, shown, runs, shocks, target>> /\ Calm' = Calm
    BY DEF world, Calm
  <1>1. /\ activity \in Nat /\ target.activity \in Nat /\ target.window \in Window
        /\ shown \in Evidence /\ Witnessed(shown)
    BY DEF ImbalanceInv, ImbalanceTypeOK, Watched, SamplesAreWitnessed
  <1>2. Witnessed(NoSample) /\ 0 <= activity
    <2>1. activity = 0 => Calm = TRUE
      BY DEF ImbalanceInv, SamplesAreWitnessed, Calm
    <2>2. activity = 0 => NoSample.calm = Calm
      BY <2>1, AlertConstants
    <2> QED BY <1>1, <2>2, AlertConstants DEF Witnessed
  <1>3. ImbalanceTypeOK'
    BY <1>0 DEF ImbalanceInv, ImbalanceTypeOK
  <1>4. SamplesAreWitnessed'
    <2>1. Witnessed(notifier'.seen)
      BY <1>1, <1>2 DEF ImbalanceInv, SamplesAreWitnessed
    <2>2. Witnessed(notifier.seen)'
      BY <1>0, <2>1 DEF Witnessed
    <2>3. Witnessed(shown)' /\ Witnessed(target.evidence)'
      BY <1>0 DEF ImbalanceInv, SamplesAreWitnessed, Witnessed
    <2>4. (activity = 0 => run = "none")'
      BY <1>0 DEF ImbalanceInv, SamplesAreWitnessed
    <2> QED BY <2>2, <2>3, <2>4 DEF SamplesAreWitnessed
  <1>5. CapturesFollow'
    <2>1. shown.activity <= activity
      BY <1>1 DEF Witnessed
    <2>2. notifier'.at = "collected" => notifier'.seen.activity <= notifier'.activity
      BY <1>2, <2>1, AlertConstants
    <2> QED BY <1>0, <2>2 DEF ImbalanceInv, CapturesFollow
  <1>6. LaterIsLater'
    <2>1. ASSUME notifier'.at = "collected", notifier'.seen.at # Never, shown.at > notifier'.seen.at
          PROVE FALSE
      <3>1. notifier'.seen = shown /\ shown.at \in Int
        BY <1>1, <2>1, AlertConstants DEF Evidence, Time, Never
      <3> QED BY <2>1, <3>1
    <2>2. ASSUME target.window.count >= 1, NEW s \in {shown, notifier'.seen}, s.at > target.window.start
          PROVE s.activity >= target.activity
      <3>1. CASE s = NoSample
        <4>1. target.window.start \in Nat
          BY <1>1, <2>2 DEF ImbalanceInv, WindowGrows, Window, Time
        <4> QED BY <2>2, <3>1, <4>1, AlertConstants DEF Never
      <3>2. CASE s # NoSample
        BY <2>2, <3>2 DEF ImbalanceInv, LaterIsLater
      <3> QED BY <3>1, <3>2
    <2> QED BY <1>0, <2>1, <2>2 DEF LaterIsLater
  <1>7. WindowGrows(target.window, target.last)' /\ PermitIsEarned'
    BY <1>0 DEF ImbalanceInv, WindowGrows, PermitIsEarned, Kind
  <1> QED BY <1>3, <1>4, <1>5, <1>6, <1>7 DEF ImbalanceInv

LEMMA NotifierTypes ==
  ASSUME ImbalanceInv
  PROVE  /\ notifier \in Notifier /\ target \in Watched /\ row \in [Message -> Row] /\ shown \in Evidence
         /\ allowed \in BOOLEAN /\ revision \in Nat /\ fresh \in BOOLEAN /\ clock \in Nat /\ activity \in Nat
         /\ notifier.activity <= activity /\ notifier.activity \in Nat
         /\ IdleNotify \in Notifier /\ IdleNotify.at = "idle" /\ IdleNotify.seen = NoSample
         /\ IdleNotify.activity <= activity
  BY AlertConstants DEF ImbalanceInv, ImbalanceTypeOK, CapturesFollow, Notifier

LEMMA CollectKeeps == ASSUME ImbalanceInv, Collect PROVE ImbalanceInv'
  <1>1. PICK locked \in BOOLEAN :
          notifier' = [notifier EXCEPT !.at = "collected", !.revision = revision, !.activity = activity,
                         !.seen = IF locked THEN shown ELSE NoSample, !.suppressed = locked /\ ~Calm]
    BY DEF Collect
  <1> DEFINE b == locked /\ ~Calm
  <1>2. b \in BOOLEAN /\ (IF locked THEN shown ELSE NoSample) \in Evidence
    BY NotifierTypes, AlertConstants
  <1>3. /\ notifier' \in Notifier /\ notifier'.at = "collected" /\ notifier'.activity = activity
        /\ notifier'.seen = NoSample \/ notifier'.seen = shown
    <2>1. notifier' = [notifier EXCEPT !.at = "collected", !.revision = revision, !.activity = activity,
                         !.seen = IF locked THEN shown ELSE NoSample, !.suppressed = b]
      BY <1>1
    <2> HIDE DEF b
    <2> QED BY <1>2, <2>1, NotifierTypes DEF Notifier
  <1>4. UNCHANGED <<world, allowed, revision, fresh, target, row>>
    BY DEF Collect
  <1> QED BY <1>3, <1>4, NotifierTypes, NotifierMoves

LEMMA NotifierKeeps ==
  ASSUME ImbalanceBounds, ImbalanceInv, (\E m \in Message : Send(m)) \/ NothingDue \/ SendFails
  PROVE ImbalanceInv'
  <1>1. CASE \E m \in Message : Send(m)
    <2>1. PICK m \in Message : Send(m)
      BY <1>1
    <2>2. /\ notifier' = [notifier EXCEPT !.at = "sending", !.item = m]
          /\ UNCHANGED <<world, allowed, revision, fresh, target, row>>
      BY <2>1 DEF Send
    <2>3. /\ notifier' \in Notifier /\ notifier'.at = "sending" /\ notifier'.item \in Message
          /\ notifier'.seen = notifier.seen /\ notifier'.activity = notifier.activity
      BY <2>2, NotifierTypes DEF Notifier
    <2> QED BY <2>2, <2>3, NotifierTypes, NotifierMoves
  <1>2. CASE NothingDue
    <2>1. notifier' = IdleNotify /\ UNCHANGED <<world, allowed, revision, fresh, target, row>>
      BY <1>2 DEF NothingDue
    <2> QED BY <2>1, NotifierTypes, NotifierMoves
  <1>3. CASE SendFails
    <2>1. notifier' = IdleNotify /\ UNCHANGED <<world, allowed, revision, fresh, target>>
      BY <1>3 DEF SendFails
    <2>2. row' \in [Message -> Row]
      <3>1. clock + Backoff \in Nat /\ notifier.item \in Message
        BY <1>3, NotifierTypes DEF SendFails, ImbalanceBounds, ImbalanceInv, ImbalanceTypeOK
      <3>2. [row[notifier.item] EXCEPT !.due = clock + Backoff] \in Row
        BY <3>1, NotifierTypes DEF Row
      <3> QED BY <1>3, <3>1, <3>2, NotifierTypes DEF SendFails
    <2> QED BY <2>1, <2>2, NotifierTypes, NotifierMoves
  <1> QED BY <1>1, <1>2, <1>3

\* Steps that put a state without window and permission in the target's place,
\* or leave the window and take the permission back.
LEMMA TargetYields ==
  ASSUME ImbalanceInv, UNCHANGED world,
         allowed' \in BOOLEAN, revision' \in Nat, fresh' \in BOOLEAN, row' \in [Message -> Row],
         notifier' = notifier \/ notifier' = IdleNotify,
         target' \in Watched,
         \/ target' = NoTarget
         \/ /\ target'.permitted = "none" /\ target'.window = target.window /\ target'.last = target.last
            /\ target'.activity = target.activity /\ target'.capture = target.capture
            /\ target'.evidence = target.evidence
  PROVE ImbalanceInv'
  <1>0. UNCHANGED <<clock, even, run, activity, shown, runs, shocks>> /\ Calm' = Calm
    BY DEF world, Calm
  <1>1. /\ activity \in Nat /\ target.activity \in Nat
        /\ Witnessed(shown) /\ Witnessed(notifier.seen) /\ Witnessed(target.evidence)
    BY DEF ImbalanceInv, ImbalanceTypeOK, Watched, SamplesAreWitnessed
  <1>2. Witnessed(NoSample) /\ 0 <= activity
    <2>1. activity = 0 => Calm = TRUE
      BY DEF ImbalanceInv, SamplesAreWitnessed, Calm
    <2>2. activity = 0 => NoSample.calm = Calm
      BY <2>1, AlertConstants
    <2> QED BY <1>1, <2>2, AlertConstants DEF Witnessed
  <1>3. /\ target'.permitted = "none" /\ target'.activity <= activity /\ target'.capture = target'.activity
        /\ target'.evidence = target.evidence \/ target'.evidence = NoSample
        /\ \/ /\ target'.window = target.window /\ target'.last = target.last
              /\ target'.activity = target.activity
           \/ target'.window.count = 0
    BY <1>2, AlertConstants DEF ImbalanceInv, CapturesFollow
  <1>4. /\ notifier'.seen = notifier.seen \/ notifier'.seen = NoSample
        /\ notifier'.activity <= activity
        /\ notifier'.at = "collected" => notifier' = notifier
        /\ notifier' \in Notifier /\ (notifier'.at = "sending" => notifier'.item \in Message)
    BY <1>2, AlertConstants DEF ImbalanceInv, CapturesFollow, ImbalanceTypeOK
  <1>5. ImbalanceTypeOK'
    BY <1>0, <1>4 DEF ImbalanceInv, ImbalanceTypeOK
  <1>6. SamplesAreWitnessed'
    <2>1. Witnessed(notifier'.seen) /\ Witnessed(target'.evidence)
      BY <1>1, <1>2, <1>3, <1>4
    <2>2. Witnessed(notifier.seen)' /\ Witnessed(target.evidence)' /\ Witnessed(shown)'
      BY <1>0, <1>1, <2>1 DEF Witnessed
    <2> QED BY <1>0, <2>2 DEF ImbalanceInv, SamplesAreWitnessed
  <1>7. CapturesFollow'
    BY <1>0, <1>3, <1>4 DEF ImbalanceInv, CapturesFollow
  <1>8. LaterIsLater'
    <2>1. ASSUME target'.window.count >= 1, NEW s \in {shown, notifier'.seen}, s.at > target'.window.start
          PROVE s.activity >= target'.activity
      <3>1. target'.window = target.window /\ target'.activity = target.activity
        BY <1>3, <2>1
      <3>2. CASE s = NoSample
        <4>1. target.window.start \in Nat
          BY <2>1, <3>1 DEF ImbalanceInv, ImbalanceTypeOK, Watched, WindowGrows, Window, Time
        <4> QED BY <2>1, <3>1, <3>2, <4>1, AlertConstants DEF Never
      <3>3. CASE s # NoSample
        BY <1>4, <2>1, <3>1, <3>3 DEF ImbalanceInv, LaterIsLater
      <3> QED BY <3>2, <3>3
    <2> QED BY <1>0, <1>4, <2>1 DEF ImbalanceInv, LaterIsLater
  <1>9. WindowGrows(target.window, target.last)' /\ PermitIsEarned'
    BY <1>3 DEF ImbalanceInv, WindowGrows, PermitIsEarned
  <1> QED BY <1>5, <1>6, <1>7, <1>8, <1>9 DEF ImbalanceInv

LEMMA TargetKeeps ==
  ASSUME ImbalanceBounds, ImbalanceInv, ObserveRefused \/ Delivered
  PROVE ImbalanceInv'
  <1>1. CASE ObserveRefused
    <2>1. /\ UNCHANGED <<world, allowed, revision, fresh>> /\ notifier' = IdleNotify
          /\ (target' = NoTarget /\ row' = NoRows) \/ (target' = target /\ row' = row)
      BY <1>1 DEF ObserveRefused
    <2>2. CASE target' = NoTarget /\ row' = NoRows
      BY <2>1, <2>2, NotifierTypes, AlertConstants, TargetYields
    <2>3. CASE target' = target /\ row' = row
      BY <2>1, <2>3, NotifierTypes, NotifierMoves
    <2> QED BY <2>1, <2>2, <2>3
  <1>2. CASE Delivered
    <2> DEFINE m == notifier.item
    <2>1. UNCHANGED <<world, allowed, revision, fresh>> /\ notifier' = IdleNotify /\ m \in Message
      BY <1>2 DEF Delivered, ImbalanceInv, ImbalanceTypeOK
    <2>2. CASE row[m].state \in {"pending", "cancelled"} /\ target.incident # "none"
      <3>1. /\ target' = [target EXCEPT !.incident = IF m = "fault" THEN "sent" ELSE "none", !.permitted = "none"]
            /\ row' = IF m = "fault" THEN [row EXCEPT ![m].state = "delivered"] ELSE NoRows
        BY <1>2, <2>2 DEF Delivered
      <3>2. /\ target' \in Watched
            /\ target'.permitted = "none" /\ target'.window = target.window /\ target'.last = target.last
            /\ target'.activity = target.activity /\ target'.capture = target.capture
            /\ target'.evidence = target.evidence
        BY <3>1, NotifierTypes DEF Watched
      <3>3. row' \in [Message -> Row]
        <4>1. [row[m] EXCEPT !.state = "delivered"] \in Row
          BY <2>1, NotifierTypes DEF Row
        <4> QED BY <2>1, <3>1, <4>1, NotifierTypes, AlertConstants
      <3> QED BY <2>1, <3>2, <3>3, NotifierTypes, TargetYields
    <2>3. CASE ~(row[m].state \in {"pending", "cancelled"} /\ target.incident # "none")
      <3>1. target' = target /\ row' = row
        BY <1>2, <2>3 DEF Delivered
      <3> QED BY <2>1, <3>1, NotifierTypes, NotifierMoves
    <2> QED BY <2>2, <2>3
  <1> QED BY <1>1, <1>2

\* A crash and changed settings count as shocks.
LEMMA ShockKeeps == ASSUME ImbalanceBounds, ImbalanceInv, Toggle \/ Crash PROVE ImbalanceInv'
  <1>1. shocks' \in 0 .. MaxShocks /\ UNCHANGED <<clock, even, run, activity, shown, runs>> /\ Calm' = Calm
    <2>1. MaxShocks \in Nat /\ shocks \in 0 .. MaxShocks /\ shocks < MaxShocks /\ shocks' = shocks + 1
      BY DEF Toggle, Crash, ImbalanceBounds, ImbalanceInv, ImbalanceTypeOK
    <2> QED BY <2>1 DEF Toggle, Crash, Calm
  <1>2. /\ allowed' \in BOOLEAN /\ revision' \in Nat /\ fresh' \in BOOLEAN
        /\ \/ target' = NoTarget /\ row' = NoRows /\ notifier' = notifier
           \/ target' = target /\ row' = row /\ notifier' = IdleNotify
    <2>1. CASE Toggle
      <3>1. allowed' \in BOOLEAN /\ fresh' \in BOOLEAN
        BY <2>1, NotifierTypes DEF Toggle
      <3> QED BY <2>1, <3>1, NotifierTypes DEF Toggle
    <2>2. CASE Crash
      <3>1. allowed' \in BOOLEAN /\ fresh' \in BOOLEAN
        BY <2>2, NotifierTypes DEF Crash
      <3> QED BY <2>2, <3>1, NotifierTypes DEF Crash
    <2> QED BY <2>1, <2>2
  <1>3. /\ target' \in Watched /\ row' \in [Message -> Row] /\ notifier' \in Notifier
        /\ (notifier'.at = "sending" => notifier'.item \in Message)
    BY <1>2, NotifierTypes, AlertConstants DEF ImbalanceInv, ImbalanceTypeOK
  <1>4. ImbalanceTypeOK'
    BY <1>1, <1>2, <1>3 DEF ImbalanceInv, ImbalanceTypeOK
  <1>5. Witnessed(NoSample)
    <2>1. activity = 0 => Calm = TRUE
      BY DEF ImbalanceInv, SamplesAreWitnessed, Calm
    <2>2. activity = 0 => NoSample.calm = Calm
      BY <2>1, AlertConstants
    <2> QED BY <2>2, NotifierTypes, AlertConstants DEF Witnessed
  <1>6. SamplesAreWitnessed'
    <2>1. Witnessed(shown) /\ Witnessed(notifier'.seen) /\ Witnessed(target'.evidence)
      BY <1>2, <1>5, AlertConstants DEF ImbalanceInv, SamplesAreWitnessed
    <2>2. Witnessed(notifier.seen)' /\ Witnessed(target.evidence)' /\ Witnessed(shown)'
      BY <1>1, <2>1 DEF Witnessed
    <2> QED BY <1>1, <2>2 DEF ImbalanceInv, SamplesAreWitnessed
  <1>7. CapturesFollow'
    BY <1>1, <1>2, NotifierTypes, AlertConstants DEF ImbalanceInv, CapturesFollow
  <1>8. LaterIsLater'
    <2>1. CASE target' = NoTarget /\ notifier' = notifier
      BY <1>1, <2>1, AlertConstants DEF ImbalanceInv, LaterIsLater
    <2>2. CASE target' = target /\ notifier' = IdleNotify
      <3>1. ASSUME target.window.count >= 1 PROVE ~(NoSample.at > target.window.start)
        <4>1. target.window.start \in Nat
          BY <3>1 DEF ImbalanceInv, ImbalanceTypeOK, Watched, WindowGrows, Window, Time
        <4> QED BY <4>1, AlertConstants DEF Never
      <3> QED BY <1>1, <2>2, <3>1, AlertConstants DEF ImbalanceInv, LaterIsLater
    <2> QED BY <1>2, <2>1, <2>2
  <1>9. WindowGrows(target.window, target.last)' /\ PermitIsEarned'
    BY <1>2, AlertConstants DEF ImbalanceInv, WindowGrows, PermitIsEarned
  <1> QED BY <1>4, <1>6, <1>7, <1>8, <1>9 DEF ImbalanceInv

LEMMA ObserveKeeps == ASSUME ImbalanceInv, Observe PROVE ImbalanceInv'
  <1> DEFINE s == notifier.seen
             sup == notifier.suppressed \/ ~StillCaptured(notifier.activity)
             t == Renew(target, sup)
             x == Extend(t, s)
             u == IF sup \/ ~Usable(t, s) THEN t ELSE Permit(x, s)
             rs == IF t.incident = "none" \/ u.incident = "none" THEN NoRows ELSE CancelAll(row)
  <1>0. /\ UNCHANGED <<clock, even, run, activity, shown, runs, shocks, allowed, revision>> /\ Calm' = Calm
        /\ notifier.at = "collected" /\ notifier' = [notifier EXCEPT !.at = "due"]
        /\ target' = u /\ row' = Queue(u, rs) /\ fresh' = FALSE
    BY DEF Observe, world, Calm
  <1>1. /\ sup \in BOOLEAN /\ notifier.suppressed \in BOOLEAN /\ s \in Evidence /\ s.activity <= notifier.activity
        /\ target.window \in Window /\ target.activity \in Nat /\ shown.at \in Int
    BY <1>0, NotifierTypes DEF ImbalanceInv, CapturesFollow, Notifier, Watched, Evidence, Time, Never
  <1> HIDE DEF sup
  <1>2. /\ t \in Watched
        /\ t.activity = notifier.activity /\ t.capture = notifier.activity
        /\ t.permitted = "none" /\ t.evidence = NoSample
        /\ \/ t.window = NoWindow
           \/ t.window = target.window /\ t.last = target.last /\ target.activity = notifier.activity
    BY <1>1, NotifierTypes, RenewEffect
  <1>3. WindowGrows(t.window, t.last)
    BY <1>2, AlertConstants DEF ImbalanceInv, WindowGrows
  <1> HIDE DEF t
  <1>4. Usable(t, s) => s.at # Never /\ s.at \in Nat
    BY <1>1 DEF Usable, FreshAt, Evidence, Time
  <1>5. Usable(t, s) =>
        /\ x \in Watched
        /\ x.activity = notifier.activity /\ x.capture = notifier.activity /\ x.permitted = "none"
        /\ x.evidence = s /\ WindowGrows(x.window, x.last)
        /\ x.window.count >= 1 =>
             \/ x.window.start = s.at /\ x.window.count = 1
             \/ /\ t.window.count >= 1 /\ x.window.start = t.window.start
                /\ x.window.count >= 2 => s.at > t.window.start
    BY <1>1, <1>2, <1>3, <1>4, ExtendEffect
  <1> HIDE DEF x
  <1>6. /\ u \in Watched
        /\ u.activity = notifier.activity /\ u.capture = notifier.activity
        /\ WindowGrows(u.window, u.last)
        /\ \/ u.window = t.window /\ u.permitted = "none" /\ u.evidence = NoSample
           \/ /\ Usable(t, s) /\ u.window = x.window /\ u.evidence = s
              /\ u.permitted # "none" => u.permitted = Kind(s) /\ x.window.count >= 2
    <2>1. CASE sup \/ ~Usable(t, s)
      BY <1>2, <1>3, <2>1
    <2>2. CASE ~(sup \/ ~Usable(t, s))
      BY <1>1, <1>5, <2>2, PermitEffect
    <2> QED BY <2>1, <2>2
  <1>7. row' \in [Message -> Row]
    <2>1. rs \in [Message -> Row]
      BY NotifierTypes, AlertConstants, RowsStayRows
    <2> HIDE DEF rs, u
    <2> QED BY <1>0, <1>6, <2>1, NotifierTypes, QueueIsTyped
  <1> HIDE DEF u
  \* A sample after the first of the kept window was taken within the activity.
  <1>8. t.window.count >= 1 => \A r \in {shown, s} : r.at > t.window.start => r.activity >= notifier.activity
    <2>1. ASSUME t.window.count >= 1, NEW r \in {shown, s}, r.at > t.window.start
          PROVE r.activity >= notifier.activity
      <3>1. t.window = target.window /\ target.activity = notifier.activity
        BY <1>2, <2>1, AlertConstants
      <3> QED BY <2>1, <3>1 DEF ImbalanceInv, LaterIsLater
    <2> QED BY <2>1
  <1>9. ImbalanceTypeOK'
    <2>1. /\ notifier' \in Notifier /\ notifier'.at = "due"
      BY <1>0, NotifierTypes DEF Notifier
    <2>2. fresh' \in BOOLEAN
      BY <1>0
    <2> QED BY <1>0, <1>6, <1>7, <2>1, <2>2 DEF ImbalanceInv, ImbalanceTypeOK
  <1>10. notifier'.seen = s /\ notifier'.activity = notifier.activity /\ notifier'.at = "due"
    BY <1>0, NotifierTypes DEF Notifier
  <1>11. SamplesAreWitnessed'
    <2>1. Witnessed(NoSample)
      <3>1. activity = 0 => Calm = TRUE
        BY DEF ImbalanceInv, SamplesAreWitnessed, Calm
      <3>2. activity = 0 => NoSample.calm = Calm
        BY <3>1, AlertConstants
      <3> QED BY <3>2, NotifierTypes, AlertConstants DEF Witnessed
    <2>2. Witnessed(shown) /\ Witnessed(notifier'.seen) /\ Witnessed(target'.evidence)
      BY <1>0, <1>6, <1>10, <2>1 DEF ImbalanceInv, SamplesAreWitnessed
    <2>3. Witnessed(notifier.seen)' /\ Witnessed(target.evidence)' /\ Witnessed(shown)'
      BY <1>0, <2>2 DEF Witnessed
    <2> QED BY <1>0, <2>3 DEF ImbalanceInv, SamplesAreWitnessed
  <1>12. CapturesFollow'
    BY <1>0, <1>6, <1>10, NotifierTypes DEF CapturesFollow
  <1>13. LaterIsLater'
    <2>1. ASSUME u.window.count >= 1, NEW r \in {shown, s}, r.at > u.window.start
          PROVE r.activity >= notifier.activity
      <3>1. CASE u.window = t.window
        BY <1>8, <2>1, <3>1
      <3>2. CASE Usable(t, s) /\ u.window = x.window
        <4>1. CASE x.window.start = s.at
          <5>1. s.at \in Nat /\ s.at # Never /\ r.at > s.at
            BY <1>4, <2>1, <3>2, <4>1
          <5>2. r = shown
            BY <2>1, <5>1
          <5> QED BY <1>0, <5>1, <5>2 DEF ImbalanceInv, LaterIsLater
        <4>2. CASE t.window.count >= 1 /\ x.window.start = t.window.start
          BY <1>8, <2>1, <3>2, <4>2
        <4> QED BY <1>5, <2>1, <3>2, <4>1, <4>2
      <3> QED BY <1>6, <3>1, <3>2
    <2> QED BY <1>0, <1>6, <1>10, <2>1 DEF LaterIsLater
  <1>14. PermitIsEarned'
    <2>1. ASSUME u.permitted # "none"
          PROVE u.permitted = Kind(s) /\ u.evidence = s /\ s.activity = notifier.activity
      <3>1. Usable(t, s) /\ u.evidence = s /\ u.permitted = Kind(s) /\ x.window.count >= 2
        BY <1>6, <2>1
      <3>2. x.window.count \in Nat
        BY <1>5, <3>1 DEF Watched, Window
      <3>3. t.window.count >= 1 /\ s.at > t.window.start
        BY <1>5, <3>1, <3>2
      <3>4. s.activity >= notifier.activity
        BY <1>8, <3>3
      <3>5. s.activity \in Nat
        BY <1>1 DEF Evidence
      <3> QED BY <1>1, <3>1, <3>4, <3>5, NotifierTypes
    <2> QED BY <1>0, <1>6, <2>1 DEF PermitIsEarned, Kind
  <1>15. WindowGrows(target.window, target.last)'
    BY <1>0, <1>6 DEF WindowGrows
  <1> QED BY <1>9, <1>11, <1>12, <1>13, <1>14, <1>15 DEF ImbalanceInv

LEMMA ImbalanceKept ==
  ASSUME ImbalanceBounds, ImbalanceInv, [ImbalanceNext]_imbalanceVars
  PROVE ImbalanceInv'
  <1>1. CASE ImbalanceNext
    BY <1>1, WorldKeeps, TakeSampleKeeps, CollectKeeps, ObserveKeeps, TargetKeeps, NotifierKeeps, ShockKeeps
       DEF ImbalanceNext
  <1>2. CASE UNCHANGED imbalanceVars
    <2>1. UNCHANGED <<world, target>> /\ UNCHANGED <<clock, even, run, activity, shown, runs, shocks>>
          /\ UNCHANGED <<allowed, revision, fresh, row, notifier>>
      BY <1>2 DEF imbalanceVars, world
    <2> QED BY <2>1 DEF ImbalanceInv, ImbalanceTypeOK, SamplesAreWitnessed, Witnessed, Calm, CapturesFollow,
               LaterIsLater, WindowGrows, PermitIsEarned, Kind
  <1> QED BY <1>1, <1>2

\* The invariant, for any ages, clock, batches and shocks.
THEOREM ImbalanceInvariant == ImbalanceSpec => []ImbalanceInv
  <1>1. ImbalanceInit => ImbalanceInv
    BY ImbalanceBounds, ImbalanceStarts
  <1>2. ImbalanceInv /\ [ImbalanceNext]_imbalanceVars => ImbalanceInv'
    BY ImbalanceBounds, ImbalanceKept
  <1> QED BY <1>1, <1>2, PTL DEF ImbalanceSpec

\* A message about the positions leaves only with a sample taken at rest, in
\* the activity that is still going on, which shows what the message says.
THEOREM MessagesAreAboutRest == ImbalanceSpec => AlertsAreAboutRest
  <1> DEFINE Rests == \A m \in Message :
                notifier'.at = "sending" /\ notifier.at # "sending" /\ notifier'.item = m =>
                  /\ target.evidence.calm /\ target.evidence.activity = activity /\ Calm
                  /\ Kind(target.evidence) = m
  <1>1. ASSUME ImbalanceInv, ImbalanceNext PROVE Rests
    <2>1. ASSUME NEW m \in Message, notifier'.at = "sending", notifier.at # "sending", notifier'.item = m
          PROVE target.evidence.calm /\ target.evidence.activity = activity /\ Calm
                /\ Kind(target.evidence) = m
      <3>1. Send(m)
        <4>1. notifier \in Notifier
          BY <1>1, NotifierTypes
        <4>2. CASE \E n \in Message : Send(n)
          BY <2>1, <4>1, <4>2 DEF Send, Notifier
        <4>3. CASE ~\E n \in Message : Send(n)
          <5>1. notifier' = notifier \/ notifier' = IdleNotify \/ notifier'.at \in {"collected", "due"}
            BY <1>1, <4>1, <4>3 DEF ImbalanceNext, Tick, RunBegins, LegExecutes, RunEnds, PositionsShift,
               TakeSample, Collect, Observe, ObserveRefused, NothingDue, Delivered, SendFails, Toggle, Crash,
               Notifier
          <5> QED BY <2>1, <5>1, AlertConstants
        <4> QED BY <4>2, <4>3
      <3>2. target.permitted = m /\ m # "none" /\ activity = target.capture /\ Calm
        BY <3>1 DEF Send, Deliverable, StillCaptured, Message
      <3>3. Kind(target.evidence) = m /\ target.evidence.activity = activity
        BY <1>1, <3>2 DEF ImbalanceInv, PermitIsEarned
      <3>4. target.evidence.calm = Calm
        BY <1>1, <3>3 DEF ImbalanceInv, SamplesAreWitnessed, Witnessed
      <3> QED BY <3>2, <3>3, <3>4
    <2> QED BY <2>1
  <1>2. ImbalanceInv /\ [ImbalanceNext]_imbalanceVars => [Rests]_imbalanceVars
    BY <1>1
  <1> QED BY <1>2, ImbalanceInvariant, PTL DEF ImbalanceSpec, AlertsAreAboutRest

-----------------------------------------------------------------------------
(* The abstract ledger of a group *)

\* The open batch starts from the ledger, and no account leaves its range.
BatchFits ==
    batch.kind # "none" =>
        /\ batch.before = [s \in Side |-> Book(s)]
        /\ IF batch.phase = "open" THEN \A s \in Side : quantities[s] = 0
           ELSE batch.kind = "cycle" /\ \A s \in Side : quantities[s] = batch.qty
        /\ \A s \in Side : Within(s, net[s])

LInv == LTypeOK /\ BatchFits /\ LHedged

LEMMA LedgerStep == LInv /\ [LNext]_lvars => LInv'
<1> SUFFICES ASSUME LInv, [LNext]_lvars PROVE LInv'
  OBVIOUS
<1> USE DEF Kinds, Phases
<1>1. /\ basis \in [Side -> Nat] /\ quantities \in [Side -> Nat] /\ net \in [Side -> Int]
      /\ batch \in [kind : Kinds, phase : Phases, qty : Nat, before : [Side -> Nat]]
      /\ \A s \in Side : Book(s) \in Nat
  BY DEF LInv, LTypeOK, Book
<1>2. /\ NoBatch.kind = "none"
      /\ NoBatch \in [kind : Kinds, phase : Phases, qty : Nat, before : [Side -> Nat]]
  BY DEF NoBatch
<1>3. CASE StartBatch
  <2>1. LTypeOK'
    BY <1>1, <1>3 DEF StartBatch, LTypeOK
  <2>2. /\ batch'.kind # "none" /\ batch'.qty \in Nat /\ batch'.before = [s \in Side |-> Book(s)]
        /\ UNCHANGED <<basis, quantities, net>> /\ batch.kind = "none"
    BY <1>3 DEF StartBatch
  <2>3. \A s \in Side : net[s] = Book(s) /\ Book(s)' = Book(s)
    BY <2>2 DEF LInv, LHedged, Book
  <2>4. \A s \in Side : batch'.before[s] = Book(s) /\ net'[s] = Book(s)
    BY <2>2, <2>3
  <2>5. \A s \in Side : Within(s, net[s])'
    BY <1>1, <2>2, <2>4 DEF Within, Target
  <2>6. BatchFits'
    BY <1>3, <2>2, <2>3, <2>5 DEF BatchFits, StartBatch
  <2> QED BY <2>1, <2>2, <2>6 DEF LInv, LHedged
<1>4. ASSUME NEW s \in Side, Trade(s) PROVE LInv'
  <2>1. LTypeOK'
    BY <1>1, <1>4 DEF Trade, LTypeOK
  <2>2. /\ batch.kind # "none" /\ UNCHANGED <<basis, quantities, batch>>
        /\ Within(s, net'[s]) /\ \A t \in Side \ {s} : net'[t] = net[t]
    BY <1>4 DEF Trade
  <2>3. ASSUME NEW t \in Side PROVE Within(t, net[t])'
    <3>1. CASE t = s
      BY <2>2, <3>1 DEF Within, Target
    <3>2. CASE t # s
      BY <2>2, <3>2 DEF LInv, BatchFits, Within, Target
    <3> QED BY <3>1, <3>2
  <2>4. BatchFits'
    BY <2>2, <2>3 DEF LInv, BatchFits, Book
  <2> QED BY <2>1, <2>2, <2>4 DEF LInv, LHedged
<1>5. CASE Commit
  <2>1. /\ batch.kind # "none" /\ batch' = NoBatch /\ net' = net
        /\ \A s \in Side : net[s] = Target(s)
    BY <1>5 DEF Commit
  <2>2. /\ batch.before = [s \in Side |-> basis[s] + quantities[s]]
        /\ batch.phase = "open" => \A s \in Side : quantities[s] = 0
        /\ batch.phase = "close" => batch.kind = "cycle" /\ \A s \in Side : quantities[s] = batch.qty
    BY <1>1, <2>1 DEF LInv, BatchFits, Book
  <2>3. \A s \in Side : Target(s) \in Int /\ batch.before[s] \in Nat /\ batch.qty \in Nat
    BY <1>1 DEF Target
  <2>4. CASE batch.kind = "ordinary"
    <3>1. batch.phase = "open"
      BY <1>1, <2>2, <2>4
    <3>2. basis' = [s \in Side |-> Target(s)] /\ quantities' = [s \in Side |-> 0]
      BY <1>5, <2>4 DEF Commit
    <3>3. \A s \in Side : Target(s) \in Nat
      BY <1>1, <3>1 DEF Target
    <3>4. \A s \in Side : net'[s] = Book(s)'
      BY <2>1, <2>3, <3>2 DEF Book
    <3> QED BY <1>1, <1>2, <2>1, <3>2, <3>3, <3>4 DEF LInv, LTypeOK, BatchFits, LHedged
  <2>5. CASE batch.kind = "cycle" /\ batch.phase = "open"
    <3>1. basis' = basis /\ quantities' = [s \in Side |-> batch.qty]
      BY <1>5, <2>5 DEF Commit
    <3>2. \A s \in Side : net'[s] = Book(s)'
      BY <1>1, <2>1, <2>2, <2>5, <3>1 DEF Book, Target
    <3> QED BY <1>1, <1>2, <2>1, <3>1, <3>2 DEF LInv, LTypeOK, BatchFits, LHedged
  <2>6. CASE batch.kind = "cycle" /\ batch.phase = "close"
    <3>1. basis' = basis /\ quantities' = [s \in Side |-> 0]
      BY <1>5, <2>6 DEF Commit
    <3>2. \A s \in Side : net'[s] = Book(s)'
      BY <1>1, <2>1, <2>2, <2>6, <3>1 DEF Book, Target
    <3> QED BY <1>1, <1>2, <2>1, <3>1, <3>2 DEF LInv, LTypeOK, BatchFits, LHedged
  <2> QED BY <1>1, <2>1, <2>4, <2>5, <2>6
<1>6. CASE Rollback
  <2>1. /\ batch.kind # "none" /\ batch.phase = "open" /\ batch' = NoBatch
        /\ UNCHANGED <<basis, quantities, net>> /\ \A s \in Side : net[s] = batch.before[s]
    BY <1>6 DEF Rollback
  <2>2. \A s \in Side : net'[s] = Book(s)' /\ quantities'[s] = 0
    BY <2>1 DEF LInv, BatchFits, Book
  <2> QED BY <1>1, <1>2, <2>1, <2>2 DEF LInv, LTypeOK, BatchFits, LHedged
<1>7. CASE TakeOver
  <2>1. /\ basis' \in [Side -> Nat] /\ net' = basis' /\ batch' = NoBatch /\ quantities' = quantities
        /\ \A s \in Side : quantities[s] = 0
    BY <1>7 DEF TakeOver
  <2>2. \A s \in Side : net'[s] = Book(s)' /\ quantities'[s] = 0
    BY <2>1 DEF Book
  <2> QED BY <1>1, <1>2, <2>1, <2>2 DEF LInv, LTypeOK, BatchFits, LHedged
<1>8. CASE UNCHANGED lvars
  BY <1>8 DEF lvars, LInv, LTypeOK, BatchFits, LHedged, Book, Within, Target
<1>9. CASE Disown
  <2>1. /\ UNCHANGED <<basis, quantities>> /\ net' = basis /\ batch' = NoBatch
        /\ \A s \in Side : quantities[s] = 0
    BY <1>9 DEF Disown
  <2>2. \A s \in Side : net'[s] = Book(s)' /\ quantities'[s] = 0
    BY <1>1, <2>1 DEF Book
  <2> QED BY <1>1, <1>2, <2>1, <2>2 DEF LInv, LTypeOK, BatchFits, LHedged
<1> QED BY <1>3, <1>4, <1>5, <1>6, <1>7, <1>8, <1>9 DEF LNext

\* Between batches both accounts stand on the ledger and the cycle holds the
\* same quantity on every side; the base position is never sold.
THEOREM LedgerPromise == LSpec => [](LHedged /\ LBaseKept)
<1>1. LInit => LInv
  BY DEF LInit, LInv, LTypeOK, BatchFits, LHedged, NoBatch, Book, Kinds, Phases
<1>2. LInv => LHedged /\ LBaseKept
  <2> SUFFICES ASSUME LInv, NEW s \in Side PROVE net[s] >= basis[s]
    BY DEF LInv, LBaseKept
  <2>1. basis[s] \in Nat /\ quantities[s] \in Nat /\ net[s] \in Int /\ batch.qty \in Nat /\ batch.phase \in Phases
    BY DEF LInv, LTypeOK
  <2>2. CASE batch.kind = "none"
    BY <2>1, <2>2 DEF LInv, LHedged, Book
  <2>3. CASE batch.kind # "none"
    <3>1. batch.before[s] = basis[s] + quantities[s] /\ Within(s, net[s])
      BY <2>3 DEF LInv, BatchFits, Book
    <3>2. CASE batch.phase = "open"
      BY <2>1, <3>1, <3>2 DEF Within
    <3>3. CASE batch.phase # "open"
      <4>1. quantities[s] = batch.qty
        BY <2>3, <3>3 DEF LInv, BatchFits
      <4> QED BY <2>1, <3>1, <3>3, <4>1 DEF Within, Target
    <3> QED BY <3>2, <3>3
  <2> QED BY <2>2, <2>3
<1> QED BY <1>1, <1>2, LedgerStep, PTL DEF LSpec

=============================================================================

-------------------------- MODULE CompletenessProofs --------------------------
(***************************************************************************)
(* What is stored and what is not missed: proofs by induction over the      *)
(* length of paths in the web.                                              *)
(***************************************************************************)
EXTENDS ForestProofs, Completeness, WellFoundedInduction

(***************************************************************************)
(* Induction over the natural numbers, for a set in place of a predicate.   *)
(***************************************************************************)
LEMMA WellOrdered ==
  \E R : IsWellFoundedOn(R, Nat) /\ \A n, m \in Nat : m < n => <<m, n>> \in R
<1>1. \A n, m \in Nat : m < n => <<m, n>> \in OpToRel(<, Nat)
  BY DEF OpToRel
<1> QED
  BY <1>1, NatLessThanWellFounded, Zenon

LEMMA Induction ==
  ASSUME NEW T \in SUBSET Nat, 0 \in T, \A n \in T : n + 1 \in T
  PROVE  T = Nat
<1> SUFFICES ASSUME T # Nat PROVE FALSE
  OBVIOUS
<1>1. PICK R : IsWellFoundedOn(R, Nat) /\ \A n, m \in Nat : m < n => <<m, n>> \in R
  BY WellOrdered
<1>2. PICK n \in Nat \ T : \A m \in Nat \ T : <<m, n>> \notin R
  BY <1>1, WFMin, Zenon
<1>3. PICK m \in Nat : m < n /\ m + 1 = n
  OBVIOUS
<1>4. m \in T
  BY <1>1, <1>2, <1>3
<1> QED
  BY <1>2, <1>3, <1>4

(***************************************************************************)
(* There is a function f with f[0] = base and f[n] = step[f[n-1]]: the      *)
(* functions on 0..n that begin this way agree, and f is their union.       *)
(***************************************************************************)
LEMMA Recursion ==
  ASSUME NEW U, NEW base \in U, NEW step \in [U -> U]
  PROVE  \E f \in [Nat -> U] : f = [n \in Nat |-> IF n = 0 THEN base ELSE step[f[n - 1]]]
<1> DEFINE
      Begins(n, f) ==
        f \in [0..n -> U] /\ f[0] = base /\ \A i \in 1..n : f[i] = step[f[i - 1]]
      T == {n \in Nat : \E f : Begins(n, f)}
<1>1. 0 \in T
  <2>1. Begins(0, [i \in 0..0 |-> base])
    OBVIOUS
  <2> HIDE DEF Begins
  <2> QED
    BY <2>1
<1>2. ASSUME NEW n \in T PROVE n + 1 \in T
  <2>1. PICK f : Begins(n, f)
    OBVIOUS
  <2> DEFINE g == [i \in 0..(n + 1) |-> IF i = n + 1 THEN step[f[n]] ELSE f[i]]
  <2>2. n \in Nat /\ f \in [0..n -> U] /\ f[n] \in U
    BY <2>1
  <2>3. g \in [0..(n + 1) -> U] /\ g[0] = base
    BY <2>1, <2>2
  <2>4. ASSUME NEW i \in 1..(n + 1) PROVE g[i] = step[g[i - 1]]
    <3>1. i - 1 \in 0..n /\ g[i - 1] = f[i - 1]
      BY <2>2
    <3>2. CASE i = n + 1
      BY <2>2, <3>1, <3>2
    <3>3. CASE i \in 1..n
      BY <2>1, <2>2, <3>1, <3>3
    <3> QED
      BY <2>2, <3>2, <3>3
  <2>5. Begins(n + 1, g)
    BY <2>3, <2>4
  <2> HIDE DEF Begins, g
  <2> QED
    BY <2>5
<1>3. T = Nat
  <2> HIDE DEF T
  <2>1. T \in SUBSET Nat
    BY DEF T
  <2> QED
    BY <1>1, <1>2, <2>1, Induction
<1>4. ASSUME NEW n \in Nat, NEW f, NEW m \in Nat, NEW g, Begins(n, f), Begins(m, g),
             NEW k \in 0..n, k \in 0..m
      PROVE  f[k] = g[k]
  <2> DEFINE S == {j \in Nat : j \in 0..n /\ j \in 0..m => f[j] = g[j]}
  <2>1. 0 \in S
    BY <1>4
  <2>2. ASSUME NEW j \in S PROVE j + 1 \in S
    <3> SUFFICES ASSUME j + 1 \in 0..n, j + 1 \in 0..m
                 PROVE  f[j + 1] = g[j + 1]
      OBVIOUS
    <3>1. j + 1 \in 1..n /\ j + 1 \in 1..m /\ (j + 1) - 1 = j
      OBVIOUS
    <3>2. f[j + 1] = step[f[j]] /\ g[j + 1] = step[g[j]]
      BY <1>4, <3>1
    <3>3. f[j] = g[j]
      OBVIOUS
    <3> QED
      BY <3>2, <3>3
  <2>3. S = Nat
    <3> HIDE DEF S
    <3>1. S \in SUBSET Nat
      BY DEF S
    <3> QED
      BY <2>1, <2>2, <3>1, Induction
  <2>4. k \in S
    BY <2>3
  <2> HIDE DEF Begins
  <2> QED
    BY <1>4, <2>4
<1> DEFINE part == [n \in Nat |-> CHOOSE f : Begins(n, f)]
           F == [n \in Nat |-> part[n][n]]
<1>5. ASSUME NEW n \in Nat PROVE Begins(n, part[n])
  <2>1. \E f : Begins(n, f)
    BY <1>3
  <2> HIDE DEF Begins
  <2> QED
    BY <2>1
<1>6. F \in [Nat -> U] /\ F[0] = base
  <2> HIDE DEF part
  <2> QED
    BY <1>5
<1>7. ASSUME NEW n \in Nat, n # 0 PROVE F[n] = step[F[n - 1]]
  <2> HIDE DEF part
  <2>1. part[n][n] = step[part[n][n - 1]]
    BY <1>5, <1>7
  <2>2. part[n][n - 1] = part[n - 1][n - 1]
    <3>1. n - 1 \in Nat /\ n - 1 \in 0..n /\ n - 1 \in 0..(n - 1)
      BY <1>7
    <3>2. Begins(n, part[n]) /\ Begins(n - 1, part[n - 1])
      BY <3>1, <1>5
    <3> HIDE DEF Begins
    <3> QED
      BY <1>4, <3>1, <3>2
  <2> QED
    BY <1>7, <2>1, <2>2
<1> HIDE DEF F
<1>8. F = [n \in Nat |-> IF n = 0 THEN base ELSE step[F[n - 1]]]
  BY <1>6, <1>7
<1> QED
  BY <1>6, <1>8
-------------------------------------------------------------------------------
(***************************************************************************)
(* The pages within n links of s, level by level.                           *)
(***************************************************************************)
LEMMA LinkedFromType ==
  ASSUME NEW S \in SUBSET Urls
  PROVE  LinkedFrom(S) \in SUBSET Urls
BY WebAssumption DEF LinkedFrom, Range

LEMMA WithinLevels ==
  ASSUME NEW s \in Urls
  PROVE  /\ \A n \in Nat : PagesWithin(s, n) \in SUBSET Urls
         /\ PagesWithin(s, 0) = {s}
         /\ \A n \in Nat : PagesWithin(s, n + 1) =
                             PagesWithin(s, n) \cup LinkedFrom(PagesWithin(s, n))
         /\ \A d \in Int : d < 0 => PagesWithin(s, d) = {s}
<1> DEFINE
      Unfolds(f) == f = [n \in Nat |-> IF n = 0 THEN {s} ELSE f[n - 1] \cup LinkedFrom(f[n - 1])]
      Reach == CHOOSE f : Unfolds(f)
      step == [S \in SUBSET Urls |-> S \cup LinkedFrom(S)]
<1>1. \E f : Unfolds(f)
  <2>1. step \in [SUBSET Urls -> SUBSET Urls]
    BY LinkedFromType
  <2>2. {s} \in SUBSET Urls
    OBVIOUS
  <2> DEFINE U == SUBSET Urls
             base == {s}
  <2> HIDE DEF step, U, base
  <2>3. PICK f \in [Nat -> U] : f = [n \in Nat |-> IF n = 0 THEN base ELSE step[f[n - 1]]]
    <3>1. step \in [U -> U] /\ base \in U
      BY <2>1, <2>2 DEF U, base
    <3> QED
      BY <3>1, Recursion
  <2> USE DEF U, base
  <2>4. \A n \in Nat : n # 0 => step[f[n - 1]] = f[n - 1] \cup LinkedFrom(f[n - 1])
    BY DEF step
  <2> QED
    BY <2>3, <2>4
<1>2. Unfolds(Reach)
  <2> HIDE DEF Unfolds
  <2> QED
    BY <1>1
<1>3. ASSUME NEW d PROVE PagesWithin(s, d) = Reach[IF d < 0 THEN 0 ELSE d]
  BY DEF PagesWithin
<1> HIDE DEF Reach
<1>4. Reach[0] = {s}
  BY <1>2
<1>5. ASSUME NEW n \in Nat PROVE Reach[n + 1] = Reach[n] \cup LinkedFrom(Reach[n])
  <2>1. n + 1 \in Nat /\ n + 1 # 0 /\ (n + 1) - 1 = n
    OBVIOUS
  <2> QED
    BY <1>2, <2>1
<1>6. \A n \in Nat : PagesWithin(s, n) = Reach[n]
  BY <1>3
<1> HIDE DEF Unfolds
<1> DEFINE T == {n \in Nat : Reach[n] \in SUBSET Urls}
<1>7. 0 \in T /\ \A n \in T : n + 1 \in T
  BY <1>4, <1>5, LinkedFromType
<1>8. T = Nat
  <2>1. T \in SUBSET Nat
    OBVIOUS
  <2> HIDE DEF T
  <2> QED
    BY <1>7, <2>1, Induction
<1> QED
  BY <1>3, <1>4, <1>5, <1>6, <1>8

LEMMA WithinGrows ==
  ASSUME NEW s \in Urls, NEW n \in Nat, NEW k \in Nat, n <= k
  PROVE  PagesWithin(s, n) \subseteq PagesWithin(s, k)
<1> DEFINE T == {j \in Nat : PagesWithin(s, n) \subseteq PagesWithin(s, n + j)}
<1>1. 0 \in T
  OBVIOUS
<1>2. ASSUME NEW j \in T PROVE j + 1 \in T
  <2>1. n + j \in Nat /\ n + (j + 1) = (n + j) + 1
    OBVIOUS
  <2> QED
    BY <2>1, WithinLevels
<1>3. T = Nat
  <2>1. T \in SUBSET Nat
    OBVIOUS
  <2> HIDE DEF T
  <2> QED
    BY <1>1, <1>2, <2>1, Induction
<1>4. PICK j \in Nat : n + j = k
  <2>1. k - n \in Nat /\ n + (k - n) = k
    OBVIOUS
  <2> QED
    BY <2>1
<1>5. j \in T
  BY <1>3
<1> QED
  BY <1>4, <1>5

(* A link leads at most one level further away. *)
LEMMA WithinLink ==
  ASSUME NEW s \in Urls, NEW n \in Nat, NEW u \in PagesWithin(s, n), NEW v \in Range(Links[u])
  PROVE  v \in PagesWithin(s, n + 1)
BY WithinLevels DEF LinkedFrom
-------------------------------------------------------------------------------
LEMMA PathInit == Init => PathInv
BY NothingInFlight DEF PathInv

(* A result that is taken is a seed, or a link of a stored page. *)
LEMMA PathStep ==
  ASSUME ForestInv, PathInv, [Next]_vars
  PROVE  PathInv'
<1>1. TypeInv /\ TypeInv'
  BY TypeStep DEF ForestInv
<1>2. req' = req /\ Started \subseteq Started' /\ ingested' \subseteq ingested \cup ResultsInFlight
  BY <1>1, ReqStep, StartedStep, ResultsStep
<1>3. SUFFICES ASSUME NEW m \in ingested', m \in ResultsInFlight
               PROVE  /\ m.url \in PagesWithin(req[m.job].url, m.depth)
                      /\ m.depth > 0 => \E r \in Started : m.depth <= req[r].depth
                      /\ m.job \in Started
  BY <1>2 DEF PathInv
<1>4. Justified(m) /\ m.job \in Launched
  BY <1>3 DEF ForestInv, CrawlTree, Provenance, JobsInv
<1>5. m.job \in Started /\ req[m.job].url \in Urls
  BY <1>1, <1>4, WebAssumption
  DEF WebAssumption, Launched, Started, TypeInv, TypeOK, JobTypeOK
<1>6. m.url \in PagesWithin(req[m.job].url, m.depth)
  <2>1. CASE m.depth = 0 /\ m.url = req[m.job].url
    BY <1>5, <2>1, WithinLevels
  <2>2. CASE \E p \in ingested :
               p.job = m.job /\ m.depth = p.depth + 1 /\ m.url \in Range(Links[p.url])
    <3> PICK p \in ingested :
               p.job = m.job /\ m.depth = p.depth + 1 /\ m.url \in Range(Links[p.url])
      BY <2>2
    <3>1. p.depth \in Nat /\ p.url \in PagesWithin(req[m.job].url, p.depth)
      BY <1>1 DEF PathInv, TypeInv, TypeOK, ConsumerTypeOK, Result
    <3> QED
      BY <1>5, <3>1, WithinLink
  <2> QED
    BY <1>4, <2>1, <2>2 DEF Justified
<1>7. m.depth > 0 => \E r \in Started : m.depth <= req[r].depth
  BY <1>3 DEF ForestInv, JobsInv
<1> QED
  BY <1>5, <1>6, <1>7

(***************************************************************************)
(* Whatever the consumers read from Redis and whatever comes late, a page   *)
(* is stored only if the links of the web lead to it from the seed of its   *)
(* job within a depth that was asked for (broker.go, processResult: depth   *)
(* and limit travel in the messages).                                       *)
(***************************************************************************)
THEOREM NothingBeyondTheDepth == Spec => []StoredWithinDepth
<1>1. ForestInv /\ PathInv /\ [Next]_vars => PathInv'
  BY PathStep
<1>2. ForestInv /\ PathInv => StoredWithinDepth
  <2> SUFFICES ASSUME ForestInv, PathInv, NEW p \in ingested
               PROVE  \E r \in Started : p.url \in PagesWithin(req[p.job].url, req[r].depth)
    BY DEF StoredWithinDepth
  <2>1. p.depth \in Nat /\ p.job \in Started
    BY DEF ForestInv, TypeInv, TypeOK, ConsumerTypeOK, Result, PathInv
  <2>2. \A r \in Started : req[r].url \in Urls /\ req[r].depth \in Int
    BY WebAssumption DEF WebAssumption, ForestInv, TypeInv, TypeOK, JobTypeOK, Started
  <2>3. p.url \in PagesWithin(req[p.job].url, p.depth)
    BY DEF PathInv
  <2>4. CASE p.depth = 0
    <3> DEFINE d == req[p.job].depth
    <3>1. p.url = req[p.job].url /\ d \in Int
      BY <2>1, <2>2, <2>3, <2>4, WithinLevels
    <3>2. CASE d < 0
      BY <2>1, <2>2, <3>1, <3>2, WithinLevels
    <3>3. CASE ~(d < 0)
      <4>1. d \in Nat /\ 0 <= d
        BY <3>1, <3>3
      <4> HIDE DEF d
      <4>2. p.url \in PagesWithin(req[p.job].url, d)
        BY <2>1, <2>2, <2>3, <2>4, <4>1, WithinGrows
      <4> QED
        BY <2>1, <4>2 DEF d
    <3> QED
      BY <3>2, <3>3
  <2>5. CASE p.depth > 0
    <3> PICK r \in Started : p.depth <= req[r].depth
      BY <2>5 DEF PathInv
    <3>1. req[r].depth \in Nat
      BY <2>1, <2>2
    <3> QED
      BY <2>1, <2>2, <2>3, <3>1, WithinGrows
  <2> QED
    BY <2>1, <2>4, <2>5
<1>3. Spec => []ForestInv
  BY ForestInvInit, ForestInvStep, PTL DEF Spec
<1> QED
  BY <1>1, <1>2, <1>3, PathInit, PTL DEF Spec
-------------------------------------------------------------------------------
(***************************************************************************)
(* What a queue that is not full keeps.                                     *)
(***************************************************************************)
LEMMA NotTrimmed ==
  ASSUME NEW S, NEW q \in Seq(S), Len(Trim(q)) < MaxLength
  PROVE  Trim(q) = q
<1>1. CASE Len(q) > MaxLength
  <2>1. q # <<>> /\ Len(q) \in Nat /\ MaxLength \in Nat
    BY <1>1, BrokerAssumption, EmptySeq DEF BrokerAssumption
  <2>2. Len(Tail(q)) = Len(q) - 1
    BY <2>1, HeadTailProperties
  <2>3. Len(Trim(q)) = Len(q) - 1
    BY <1>1, <2>2 DEF Trim
  <2> QED
    BY <1>1, <2>1, <2>3
<1> QED
  BY <1>1 DEF Trim

LEMMA RangeHeadTail ==
  ASSUME NEW S, NEW q \in Seq(S), q # <<>>
  PROVE  Range(q) = {Head(q)} \cup Range(Tail(q))
<1>1. Len(q) \in Nat \ {0} /\ Tail(q) \in Seq(S) /\ Len(Tail(q)) = Len(q) - 1
  BY EmptySeq, HeadTailProperties
<1>2. ASSUME NEW i \in DOMAIN q PROVE q[i] \in {Head(q)} \cup Range(Tail(q))
  <2>1. CASE i = 1
    BY <1>1, <2>1
  <2>2. CASE i # 1
    <3>1. i - 1 \in 1..Len(Tail(q)) /\ (i - 1) + 1 = i
      BY <1>1, <2>2
    <3>2. i - 1 \in DOMAIN Tail(q) /\ Tail(q)[i - 1] = q[i]
      BY <1>1, <3>1, HeadTailProperties
    <3> QED
      BY <3>2 DEF Range
  <2> QED
    BY <2>1, <2>2
<1> QED
  BY <1>2, RangeTail DEF Range

LEMMA RangeAppended ==
  ASSUME NEW S, NEW q \in Seq(S), NEW e \in S
  PROVE  Range(Append(q, e)) = Range(q) \cup {e}
<1> DEFINE a == Append(q, e)
<1>1. /\ Len(q) \in Nat /\ DOMAIN q = 1..Len(q) /\ DOMAIN a = 1..(Len(q) + 1)
      /\ a[Len(q) + 1] = e /\ \A i \in 1..Len(q) : a[i] = q[i]
  BY AppendProperties
<1> HIDE DEF a
<1>2. e \in Range(a)
  BY <1>1 DEF Range
<1>3. ASSUME NEW i \in DOMAIN q PROVE q[i] \in Range(a)
  <2>1. i \in DOMAIN a /\ a[i] = q[i]
    BY <1>1
  <2> QED
    BY <2>1 DEF Range
<1>4. Range(q) \cup {e} \subseteq Range(a)
  BY <1>2, <1>3 DEF Range
<1> QED
  BY <1>4, RangeAppend DEF a

LEMMA RangeJoined ==
  ASSUME NEW S, NEW p \in Seq(S), NEW q \in Seq(S)
  PROVE  Range(p \o q) = Range(p) \cup Range(q)
<1> DEFINE j == p \o q
<1>1. /\ Len(p) \in Nat /\ Len(q) \in Nat /\ DOMAIN p = 1..Len(p) /\ DOMAIN q = 1..Len(q)
      /\ DOMAIN j = 1..(Len(p) + Len(q))
      /\ \A i \in 1..Len(p) : j[i] = p[i]
      /\ \A i \in 1..Len(q) : j[Len(p) + i] = q[i]
  <2>1. j \in Seq(S) /\ Len(j) = Len(p) + Len(q)
    BY ConcatProperties
  <2>2. ASSUME NEW i \in 1..Len(q) PROVE j[Len(p) + i] = q[i]
    <3>1. Len(p) + i \in 1..(Len(p) + Len(q)) /\ Len(p) + i > Len(p) /\ (Len(p) + i) - Len(p) = i
      OBVIOUS
    <3> QED
      BY <3>1, ConcatProperties
  <2> QED
    BY <2>1, <2>2, ConcatProperties
<1> HIDE DEF j
<1>2. ASSUME NEW i \in DOMAIN p PROVE p[i] \in Range(j)
  <2>1. i \in DOMAIN j /\ j[i] = p[i]
    BY <1>1
  <2> QED
    BY <2>1 DEF Range
<1>3. ASSUME NEW i \in DOMAIN q PROVE q[i] \in Range(j)
  <2>1. Len(p) + i \in DOMAIN j /\ j[Len(p) + i] = q[i]
    BY <1>1
  <2> QED
    BY <2>1 DEF Range
<1>4. Range(p) \cup Range(q) \subseteq Range(j)
  BY <1>2, <1>3 DEF Range
<1> QED
  BY <1>4, RangeConcat DEF j

LEMMA RangeOne == ASSUME NEW e PROVE Range(<<e>>) = {e}
BY DEF Range

(* A task that is published to a queue that is not full is queued. *)
LEMMA EnqueuedTasks ==
  ASSUME TypeInv, NEW t \in Task, Enqueue(t), NoOverflow'
  PROVE  QueuedTasks' = QueuedTasks \cup {t}
<1> DEFINE qt == QueueOf[t.url]
<1>1. qt \in Range(Queues)
  BY BrokerAssumption DEF BrokerAssumption, Task
<1>2. tasks \in [Range(Queues) -> Seq(Task)]
  BY DEF TypeInv, TypeOK, SharedTypeOK
<1>3. Append(tasks[qt], t) \in Seq(Task)
  BY <1>1, <1>2, AppendProperties
<1>4. tasks'[qt] = Trim(Append(tasks[qt], t)) /\ Len(tasks'[qt]) < MaxLength
  BY <1>1, <1>2 DEF Enqueue, NoOverflow
<1>5. tasks'[qt] = Append(tasks[qt], t)
  BY <1>3, <1>4, NotTrimmed
<1>6. Range(tasks'[qt]) = Range(tasks[qt]) \cup {t}
  BY <1>1, <1>2, <1>5, RangeAppended
<1>7. \A q \in Range(Queues) \ {qt} : tasks'[q] = tasks[q]
  BY <1>1, <1>2 DEF Enqueue
<1> QED
  BY <1>1, <1>6, <1>7 DEF QueuedTasks
-------------------------------------------------------------------------------
(***************************************************************************)
(* Runs in which workers may die, and keys expire, and nothing else fails.  *)
(***************************************************************************)
LEMMA NoOtherFault ==
  ASSUME OnlyWorkersFail
  PROVE  /\ ~Fault("redis") /\ ~Fault("broker") /\ ~Fault("conn")
         /\ ~Fault("crash") /\ ~Fault("page")
BY DEF OnlyWorkersFail, Fault

LEMMA QuietNext ==
  ASSUME OnlyWorkersFail, Steady, [Next]_vars, ~JobExpires
  PROVE  \/ JobNext /\ ~JobExpires /\ UNCHANGED <<workerVars, consumerVars>>
         \/ \E w \in Workers : (WorkerStep(w) \/ WorkerLost(w)) /\ UNCHANGED <<jobVars, consumerVars>>
         \/ \E c \in Consumers : (DeliverResult(c) \/ ConsumerStep(c)) /\ UNCHANGED <<jobVars, workerVars>>
         \/ UNCHANGED vars
BY NoOtherFault
DEF Next, WorkerNext, ConsumerNext, SchedulerCrash, ConnLost, Reconnect, CrawlFails, Steady

(* The channels of consumers are not closed by the handlers. *)
LEMMA ChannelsKept ==
  ASSUME TypeInv, JobNext, ~JobExpires
  PROVE  UNCHANGED connected /\ \A c \in Consumers : c \in chans => c \in chans'
<1>1. \A p \in Procs, c \in Consumers : p # c
  BY GoroutineAssumption DEF GoroutineAssumption
<1>2. ASSUME NEW r \in Requests, Submit(r) \/ CrawlStep(r)
      PROVE  UNCHANGED connected /\ \A c \in Consumers : c \in chans => c \in chans'
  BY <1>1, <1>2
  DEF CrawlStep, Submit, CheckActive, SetActive, SetDepth, SetLast, OpenChannel, AddSeed, InsertSeed,
      DelKey, Channel, ChannelFails, Close, Procs, sharedVars, brokerVars
<1>3. ASSUME NEW s \in Stops, StopCheck(s) \/ StopStep(s)
      PROVE  UNCHANGED connected /\ \A c \in Consumers : c \in chans => c \in chans'
  BY <1>1, <1>3
  DEF StopStep, StopCheck, DelKey, OpenPurge, PurgeQueue, Channel, Close, Procs, brokerVars
<1>4. ASSUME WatchdogStep \/ TimePasses
      PROVE  UNCHANGED connected /\ \A c \in Consumers : c \in chans => c \in chans'
  BY <1>1, <1>4
  DEF WatchdogStep, TimePasses, WatchdogTick, InspectQueue, CheckLastActivity, DelKey, Channel, Close,
      Procs, brokerVars
<1> QED
  BY <1>2, <1>3, <1>4 DEF JobNext

(* A handler that is about to publish keeps its channel. *)
LEMMA HandlerChannel ==
  ASSUME TypeInv, Steady, JobNext, ~JobExpires, NEW r \in Requests, pc'[r] \in {"addSeed", "insert"}
  PROVE  r \in chans'
<1> USE DEF Steady
<1>1. pc \in [Procs -> Labels] /\ r \in Procs /\ r \notin Stops /\ r # Watchdog
  BY ProcessAssumption DEF ProcessAssumption, TypeInv, TypeOK, JobTypeOK, Procs
<1>2. ASSUME NEW q \in Requests, Submit(q) \/ CrawlStep(q) PROVE r \in chans'
  <2>1. q \in Procs
    BY DEF Procs
  <2>2. CASE Submit(q)
    BY <1>1, <2>1, <2>2 DEF Submit, Goto, sharedVars, brokerVars
  <2>3. CASE CheckActive(q)
    BY <1>1, <2>1, <2>3 DEF CheckActive, Goto, brokerVars
  <2>4. CASE SetActive(q)
    BY <1>1, <2>1, <2>4 DEF SetActive, Goto, brokerVars
  <2>5. CASE SetDepth(q)
    BY <1>1, <2>1, <2>5 DEF SetDepth, Goto, Delete, brokerVars
  <2>6. CASE SetLast(q)
    BY <1>1, <2>1, <2>6 DEF SetLast, Goto, Delete, brokerVars
  <2>7. CASE OpenChannel(q)
    BY <1>1, <2>1, <2>7
    DEF OpenChannel, Goto, ForceCleanupJob, Delete, Channel, ChannelFails, brokerVars
  <2>8. CASE AddSeed(q)
    BY <1>1, <2>1, <2>8 DEF AddSeed, Goto, brokerVars
  <2>9. CASE InsertSeed(q)
    BY <1>1, <2>1, <2>9 DEF InsertSeed, Goto, ForceCleanupJob, Delete, Close
  <2>10. CASE DelKey(q)
    BY <1>1, <2>1, <2>10 DEF DelKey, Goto, AfterDelete, brokerVars
  <2> QED
    BY <1>2, <2>2, <2>3, <2>4, <2>5, <2>6, <2>7, <2>8, <2>9, <2>10 DEF CrawlStep
<1>3. ASSUME NEW s \in Stops, StopCheck(s) \/ StopStep(s) PROVE r \in chans'
  <2>1. pc'[r] = pc[r] /\ r # s
    BY <1>1, <1>3
    DEF StopStep, StopCheck, DelKey, OpenPurge, PurgeQueue, Goto, ForceCleanupJob, Delete
  <2> QED
    BY <1>3, <2>1
    DEF StopStep, StopCheck, DelKey, OpenPurge, PurgeQueue, Channel, Close, brokerVars
<1>4. ASSUME WatchdogStep \/ TimePasses PROVE r \in chans'
  <2>1. pc'[r] = pc[r]
    BY <1>1, <1>4
    DEF WatchdogStep, TimePasses, WatchdogTick, InspectQueue, CheckLastActivity, DelKey, Goto,
        ForceCleanupJob, Delete, jobVars
  <2> QED
    BY <1>1, <1>4, <2>1
    DEF WatchdogStep, TimePasses, WatchdogTick, InspectQueue, CheckLastActivity, DelKey, Channel, Close,
        brokerVars
<1> QED
  BY <1>2, <1>3, <1>4 DEF JobNext

LEMMA OneTask ==
  ASSUME TypeInv, Prefetch, NEW w \in Workers, WorkerStep(w) \/ WorkerLost(w)
  PROVE  Prefetch'
<1>1. unacked \in [Workers -> Seq(Task)]
  BY DEF TypeInv, TypeOK, WorkerTypeOK
<1>2. unacked' = unacked \/ \E q : unacked' = [unacked EXCEPT ![w] = q] /\ Len(q) <= 1
  <2>1. Len(<<>>) <= 1 /\ \A t : Len(<<t>>) <= 1
    OBVIOUS
  <2> QED
    BY <2>1 DEF WorkerStep, Deliver, PublishResult, Ack, WorkerLost
<1> QED
  BY <1>1, <1>2 DEF Prefetch

LEMMA ConsumerSteady ==
  ASSUME TypeInv, Steady, NEW c \in Consumers, DeliverResult(c) \/ ConsumerStep(c),
         UNCHANGED <<jobVars, workerVars>>
  PROVE  Steady'
<1>1. /\ connected' = connected /\ chans \subseteq chans'
      /\ \A d \in Consumers \ {c} : cpc'[d] = cpc[d] /\ inbox'[d] = inbox[d]
  BY DEF TypeInv, TypeOK, ConsumerTypeOK, ConsumerStep, Consume, DeliverResult, TakeResult, Touch, ReadDepth,
         CheckLink, AddLink, InsertLink, FollowLinks, Finish, Advance, Channel, sharedVars,
         brokerVars, consumerVars
<1>2. cpc'[c] # "idle" \/ inbox'[c] # <<>> => c \in chans'
  BY <1>1
  DEF TypeInv, TypeOK, ConsumerTypeOK, ConsumerStep, Consume, DeliverResult, TakeResult, Touch, ReadDepth,
      CheckLink, AddLink, InsertLink, FollowLinks, Finish, Advance, Channel, sharedVars,
      brokerVars, consumerVars, Steady
<1> QED
  BY <1>1, <1>2 DEF Steady, Prefetch, jobVars, workerVars

LEMMA SteadyStep ==
  ASSUME OnlyWorkersFail, TypeInv, Steady, [Next]_vars, ~JobExpires
  PROVE  Steady'
<1>1. CASE JobNext /\ ~JobExpires /\ UNCHANGED <<workerVars, consumerVars>>
  BY <1>1, ChannelsKept, HandlerChannel DEF Steady, Prefetch, workerVars, consumerVars
<1>2. CASE \E w \in Workers : (WorkerStep(w) \/ WorkerLost(w)) /\ UNCHANGED <<jobVars, consumerVars>>
  <2>1. UNCHANGED <<connected, chans>>
    BY <1>2, WorkerFrame DEF WorkerNext
  <2> QED
    BY <1>2, <2>1, OneTask DEF Steady, jobVars, consumerVars
<1>3. CASE \E c \in Consumers : (DeliverResult(c) \/ ConsumerStep(c)) /\ UNCHANGED <<jobVars, workerVars>>
  BY <1>3, ConsumerSteady
<1>4. CASE UNCHANGED vars
  BY <1>4 DEF Steady, Prefetch, vars, sharedVars, brokerVars, jobVars, workerVars, consumerVars
<1> QED
  BY <1>1, <1>2, <1>3, <1>4, QuietNext

LEMMA SteadyInit == Init => Steady
BY DEF Init, SharedInit, JobInit, WorkerInit, ConsumerInit, Steady, Prefetch, Procs
-------------------------------------------------------------------------------
(***************************************************************************)
(* Before the first job, and how it begins.                                 *)
(***************************************************************************)
frontierVars == <<bloom, tasks, results, workerVars, consumerVars>>

LEMMA EmptyRange ==
  ASSUME NEW S, NEW q \in Seq(S), Range(q) = {}
  PROVE  q = <<>>
BY RangeTail

(* Nothing has been sent: the workers and the consumers have nothing to do. *)
LEMMA NothingToDo ==
  ASSUME TypeInv, CurIngested, NothingSent
  PROVE  /\ \A q \in Range(Queues) : tasks[q] = <<>>
         /\ results = <<>>
         /\ \A w \in Workers : unacked[w] = <<>> /\ wpc[w] = "idle"
         /\ \A c \in Consumers : inbox[c] = <<>> /\ cpc[c] = "idle"
<1> USE DEF NothingSent
<1>1. ASSUME NEW q \in Range(Queues) PROVE tasks[q] = <<>>
  <2>1. Range(tasks[q]) = {} /\ tasks[q] \in Seq(Task)
    BY DEF TasksInFlight, QueuedTasks, TypeInv, TypeOK, SharedTypeOK
  <2> QED
    BY <2>1, EmptyRange
<1>2. results = <<>>
  <2>1. Range(results) = {} /\ results \in Seq(Result)
    BY DEF ResultsInFlight, TypeInv, TypeOK, SharedTypeOK
  <2> QED
    BY <2>1, EmptyRange
<1>3. ASSUME NEW w \in Workers PROVE unacked[w] = <<>> /\ wpc[w] = "idle"
  <2>1. Range(unacked[w]) = {} /\ unacked[w] \in Seq(Task)
    BY DEF TasksInFlight, HeldTasks, TypeInv, TypeOK, WorkerTypeOK
  <2>2. unacked[w] = <<>>
    BY <2>1, EmptyRange
  <2> QED
    BY <2>2 DEF TypeInv, HasTask
<1>4. ASSUME NEW c \in Consumers PROVE inbox[c] = <<>> /\ cpc[c] = "idle"
  <2>1. Range(inbox[c]) = {}
    BY DEF ResultsInFlight, HeldResults
  <2>2. inbox[c] \in Seq(Result)
    BY DEF TypeInv, TypeOK, ConsumerTypeOK
  <2> QED
    BY <2>1, <2>2, EmptyRange DEF CurIngested
<1> QED
  BY <1>1, <1>2, <1>3, <1>4

LEMMA IdleStep ==
  ASSUME OnlyWorkersFail, TypeInv, CurIngested, Steady, NothingSent, [Next]_vars, ~JobExpires
  PROVE  \/ JobNext /\ ~JobExpires /\ UNCHANGED <<workerVars, consumerVars>>
         \/ UNCHANGED <<redisVars, tasks, results, jobVars, workerVars, consumerVars>>
<1>1. ASSUME NEW w \in Workers, WorkerStep(w) \/ WorkerLost(w) PROVE FALSE
  <2>1. tasks[WorkerQueue[w]] = <<>> /\ unacked[w] = <<>> /\ wpc[w] = "idle"
    BY NothingToDo, WorkerAssumption DEF WorkerAssumption
  <2> QED
    BY <1>1, <2>1 DEF WorkerStep, Deliver, PublishResult, Ack, WorkerLost
<1>2. ASSUME NEW c \in Consumers, DeliverResult(c) \/ ConsumerStep(c) PROVE Consume(c)
  <2>1. results = <<>> /\ inbox[c] = <<>> /\ cpc[c] = "idle"
    BY NothingToDo
  <2>2. ~DeliverResult(c) /\ ~TakeResult(c)
    BY <2>1 DEF DeliverResult, TakeResult
  <2>3. ~(Touch(c) \/ ReadDepth(c) \/ CheckLink(c) \/ AddLink(c) \/ InsertLink(c))
    BY <2>1 DEF Touch, ReadDepth, CheckLink, AddLink, InsertLink
  <2> QED
    BY <1>2, <2>2, <2>3 DEF ConsumerStep
<1>3. ASSUME NEW c \in Consumers, Consume(c), UNCHANGED <<jobVars, workerVars>>
      PROVE  UNCHANGED <<redisVars, tasks, results, jobVars, workerVars, consumerVars>>
  BY <1>3 DEF Consume
<1>4. CASE UNCHANGED vars
  BY <1>4 DEF vars, sharedVars, brokerVars
<1> QED
  BY <1>1, <1>2, <1>3, <1>4, QuietNext

(* The states that no process but a request waiting for the lock is in. *)
Waiting == Labels \ {"del", "openPurge", "purge", "inspect", "lastActivity"}

LEMMA FreshMoves ==
  ASSUME OnlyWorkersFail, TypeInv, CurIngested, Steady, Fresh, Started = {}, [Next]_vars, ~JobExpires
  PROVE  /\ UNCHANGED frontierVars
         /\ \A p \in Procs : pc'[p] \in Waiting
         /\ \/ active' = NoJob
            \/ \E r \in Requests : active' = r /\ pc'[r] = "setDepth"
<1>1. /\ active = NoJob /\ NothingSent
      /\ pc \in [Procs -> Waiting]
      /\ \A r \in Requests : pc[r] \in {"idle", "check", "setActive", "rejected"}
  BY DEF Fresh, Started, TypeInv, TypeOK, JobTypeOK, Waiting
<1>2. CASE UNCHANGED <<redisVars, tasks, results, jobVars, workerVars, consumerVars>>
  BY <1>1, <1>2 DEF frontierVars, redisVars, jobVars
<1>3. CASE JobNext /\ ~JobExpires /\ UNCHANGED <<workerVars, consumerVars>>
  <2> USE NoOtherFault DEF frontierVars, sharedVars, redisVars, brokerVars, Goto, Waiting, Labels, Ended
  <2>1. ASSUME NEW r \in Requests, Submit(r) \/ CrawlStep(r)
        PROVE  /\ UNCHANGED <<bloom, tasks, results>>
               /\ \A p \in Procs : pc'[p] \in Waiting
               /\ active' = NoJob \/ (active' = r /\ pc'[r] = "setDepth")
    <3>1. r \in Procs /\ pc[r] \in {"idle", "check", "setActive", "rejected"}
      BY <1>1 DEF Procs
    <3>2. CASE Submit(r)
      BY <1>1, <3>1, <3>2 DEF Submit
    <3>3. CASE CheckActive(r)
      BY <1>1, <3>1, <3>3 DEF CheckActive, IsJobActive
    <3>4. CASE SetActive(r)
      <4>1. active' = r /\ Goto(r, "setDepth") /\ UNCHANGED <<bloom, tasks, results>>
        BY <1>1, <3>4 DEF SetActive, SetNX
      <4> QED
        BY <1>1, <3>1, <4>1
    <3> QED
      BY <2>1, <3>1, <3>2, <3>3, <3>4
      DEF CrawlStep, SetDepth, SetLast, OpenChannel, AddSeed, InsertSeed, DelKey
  <2>2. ASSUME NEW s \in Stops, StopCheck(s) \/ StopStep(s)
        PROVE  /\ UNCHANGED <<bloom, tasks, results, active>>
               /\ \A p \in Procs : pc'[p] \in Waiting
    <3>1. s \in Procs /\ pc[s] \notin {"del", "openPurge", "purge"}
      BY <1>1 DEF Procs
    <3>2. StopCheck(s) /\ ~IsJobActive
      BY <1>1, <2>2, <3>1 DEF StopStep, DelKey, OpenPurge, PurgeQueue, IsJobActive
    <3> QED
      BY <1>1, <3>1, <3>2 DEF StopCheck
  <2>3. ASSUME WatchdogStep PROVE FALSE
    <3>1. Watchdog \in Procs /\ pc[Watchdog] \notin {"del", "inspect", "lastActivity"}
      BY <1>1 DEF Procs
    <3> QED
      BY <1>1, <2>3, <3>1
      DEF WatchdogStep, WatchdogTick, InspectQueue, CheckLastActivity, DelKey, IsJobActive
  <2>4. CASE TimePasses
    BY <1>1, <1>3, <2>4 DEF TimePasses, jobVars
  <2> QED
    BY <1>1, <1>3, <2>1, <2>2, <2>3, <2>4 DEF JobNext
<1> QED
  BY <1>1, <1>2, <1>3, IdleStep

LEMMA SentUnchanged ==
  ASSUME UNCHANGED frontierVars
  PROVE  UNCHANGED <<TasksInFlight, ResultsInFlight, ingested, Answered, Asked>>
BY DEF frontierVars, workerVars, consumerVars, TasksInFlight, QueuedTasks, HeldTasks, ResultsInFlight,
       HeldResults, Answered, Asked

LEMMA FreshStep ==
  ASSUME OnlyWorkersFail, TypeInv, CurIngested, Steady, Fresh, [Next]_vars, ~JobExpires
  PROVE  Fresh'
<1> SUFFICES ASSUME Started' = {}
             PROVE  /\ active' = NoJob /\ bloom' = {} /\ NothingSent'
                    /\ \A p \in Procs : pc'[p] \notin {"del", "openPurge", "purge", "inspect", "lastActivity"}
  BY DEF Fresh
<1>1. Started = {}
  BY StartedStep
<1>2. /\ UNCHANGED frontierVars
      /\ \A p \in Procs : pc'[p] \in Waiting
      /\ active' = NoJob \/ \E r \in Requests : active' = r /\ pc'[r] = "setDepth"
  BY <1>1, FreshMoves
<1>3. active' = NoJob
  BY <1>2 DEF Started
<1>4. bloom' = {} /\ NothingSent'
  BY <1>1, <1>2, SentUnchanged DEF Fresh, NothingSent, frontierVars
<1> QED
  BY <1>2, <1>3, <1>4 DEF Waiting

LEMMA FreshInit == Init => Fresh
BY NothingInFlight DEF Init, SharedInit, JobInit, Fresh, NothingSent
-------------------------------------------------------------------------------
(***************************************************************************)
(* The steps of job control while job r runs.                               *)
(***************************************************************************)
FrontierIntact(r, level, above) ==
  /\ SeedFirst(r)
  /\ OnLevel(level) /\ \A u \in bloom : above[u] \subseteq bloom
  /\ Descending(r, above) /\ Carried(r) /\ Expanded(r)

LEMMA JobStarts ==
  ASSUME OnlyWorkersFail, TypeInv, CurIngested, Steady, Fresh, Started = {}, [Next]_vars, ~JobExpires,
         NEW r \in Requests, active' = r, NEW level, NEW above
  PROVE  Undamaged(r)' /\ FrontierIntact(r, level, above)'
<1>1. /\ UNCHANGED frontierVars
      /\ \A p \in Procs : pc'[p] \in Waiting
      /\ pc'[r] = "setDepth"
  BY FreshMoves, NullAssumption DEF NullAssumption
<1>2. /\ NothingSent' /\ bloom' = {}
      /\ \A w \in Workers : wpc'[w] = "idle"
      /\ \A c \in Consumers : cpc'[c] = "idle"
  BY <1>1, SentUnchanged, NothingToDo
  DEF Fresh, NothingSent, frontierVars, workerVars, consumerVars
<1>3. Undamaged(r)'
  BY <1>1 DEF Undamaged, Waiting
<1>4. FrontierIntact(r, level, above)'
  BY <1>1, <1>2 DEF FrontierIntact, SeedFirst, OnLevel, NothingSent, Descending, Carried, AckedLast, Expanded
<1> QED
  BY <1>3, <1>4

LEMMA FrontierUnchanged ==
  ASSUME NEW r \in Requests, NEW level, NEW above, FrontierIntact(r, level, above),
         UNCHANGED frontierVars, UNCHANGED req,
         pc[r] = "insert" <=> pc'[r] = "insert", pc[r] = "started" <=> pc'[r] = "started"
  PROVE  FrontierIntact(r, level, above)'
<1>1. UNCHANGED <<TasksInFlight, ResultsInFlight, ingested, Answered, Asked, bloom>>
  BY SentUnchanged DEF frontierVars
<1>2. UNCHANGED <<cpc, cur, cmax, link, Added, wpc, unacked>>
  BY DEF frontierVars, workerVars, consumerVars, Added, NextUrl
<1>3. SeedFirst(r)' /\ OnLevel(level)' /\ \A u \in bloom' : above[u] \subseteq bloom'
  BY <1>1 DEF FrontierIntact, SeedFirst, NothingSent, OnLevel
<1>4. Descending(r, above)'
  BY <1>1, <1>2 DEF FrontierIntact, Descending, NextUrl
<1>5. Carried(r)'
  BY <1>1, <1>2 DEF FrontierIntact, Carried, AckedLast
<1>6. Expanded(r)'
  BY <1>1, <1>2 DEF FrontierIntact, Expanded, Pending
<1> QED
  BY <1>3, <1>4, <1>5, <1>6 DEF FrontierIntact

(* The processes other than r, and what they may do to its job. *)
Bystander(p) ==
  /\ pc[p] \notin {"openPurge", "purge"}
  /\ pc[p] = "del" => Head(del[p]) = "active"

LEMMA CrawlKeeps ==
  ASSUME OnlyWorkersFail, TypeInv, Steady, NEW r \in Requests, Started = {r},
         Undamaged(r), active = r, NEW q \in Requests, Submit(q) \/ CrawlStep(q)
  PROVE  /\ Undamaged(r)'
         /\ \/ /\ UNCHANGED <<bloom, tasks, results>>
               /\ pc[r] = "insert" <=> pc'[r] = "insert"
               /\ pc[r] = "started" <=> pc'[r] = "started"
            \/ AddSeed(r) /\ pc'[r] = "insert"
            \/ InsertSeed(r) /\ pc'[r] = "started" /\ Enqueue(SeedTask(r))
<1>1. /\ pc \in [Procs -> Labels] /\ q \in Procs /\ r \in Procs /\ r # NoJob
      /\ pc[r] \in {"setDepth", "setLast", "open", "addSeed", "insert", "started"}
      /\ q # r => pc[q] \in {"idle", "check", "setActive", "rejected"}
      /\ active = r
  BY NullAssumption
  DEF NullAssumption, TypeInv, TypeOK, JobTypeOK, Procs, Undamaged, Started
<1>2. /\ pc[r] # "setDepth" => maxDepth = req[r].depth
      /\ \A p \in Procs : Bystander(p)
  BY DEF Undamaged, Bystander
<1> USE NoOtherFault DEF sharedVars, redisVars, brokerVars, Goto
<1>3. CASE q # r
  <2>1. \/ Submit(q) /\ Goto(q, "check")
        \/ CheckActive(q) /\ Goto(q, "rejected")
        \/ SetActive(q) /\ Goto(q, "rejected")
    BY <1>1, <1>3
    DEF CrawlStep, Submit, CheckActive, IsJobActive, SetActive, SetDepth, SetLast, OpenChannel, AddSeed,
        InsertSeed, DelKey
  <2>2. UNCHANGED <<bloom, tasks, results, maxDepth, req, del>>
    BY <2>1 DEF Submit, CheckActive, SetActive
  <2> QED
    BY <1>1, <1>2, <1>3, <2>1, <2>2 DEF Undamaged, Bystander
<1>4. CASE q = r
  <2>1. ~Submit(r) /\ ~CheckActive(r) /\ ~SetActive(r) /\ ~DelKey(r)
    BY <1>1 DEF Submit, CheckActive, SetActive, DelKey
  <2>2. CASE SetDepth(r)
    <3>1. /\ UNCHANGED <<bloom, tasks, results, req, del>> /\ pc[r] = "setDepth"
          /\ pc' = [pc EXCEPT ![r] = "setLast"] /\ maxDepth' = req[r].depth
      BY <2>2 DEF SetDepth
    <3> QED
      BY <1>1, <1>2, <3>1 DEF Undamaged, Bystander
  <2>3. CASE SetLast(r)
    <3>1. /\ UNCHANGED <<bloom, tasks, results, req, del, maxDepth>> /\ pc[r] = "setLast"
          /\ pc' = [pc EXCEPT ![r] = "open"]
      BY <2>3 DEF SetLast
    <3> QED
      BY <1>1, <1>2, <3>1 DEF Undamaged, Bystander
  <2>4. CASE OpenChannel(r)
    <3>1. /\ UNCHANGED <<bloom, tasks, results, req, del, maxDepth>> /\ pc[r] = "open"
          /\ pc' = [pc EXCEPT ![r] = "addSeed"]
      BY <2>4 DEF OpenChannel, ChannelFails, Steady
    <3> QED
      BY <1>1, <1>2, <3>1 DEF Undamaged, Bystander
  <2>5. CASE AddSeed(r)
    <3>1. /\ UNCHANGED <<req, del, maxDepth>> /\ pc[r] = "addSeed"
          /\ pc' = [pc EXCEPT ![r] = "insert"]
      BY <2>5 DEF AddSeed
    <3> QED
      BY <1>1, <1>2, <2>5, <3>1 DEF Undamaged, Bystander
  <2>6. CASE InsertSeed(r)
    <3>1. /\ UNCHANGED <<req, del, maxDepth>> /\ pc[r] = "insert"
          /\ pc' = [pc EXCEPT ![r] = "started"] /\ Enqueue(SeedTask(r))
      BY <2>6 DEF InsertSeed, InsertMessage, InsertFails, Steady
    <3> QED
      BY <1>1, <1>2, <2>6, <3>1 DEF Undamaged, Bystander
  <2> QED
    BY <1>4, <2>1, <2>2, <2>3, <2>4, <2>5, <2>6 DEF CrawlStep
<1> QED
  BY <1>3, <1>4

LEMMA OthersKeep ==
  ASSUME OnlyWorkersFail, TypeInv, Steady, NEW r \in Requests,
         Undamaged(r), active = r, active' = r,
         \/ \E s \in Stops : StopCheck(s) \/ StopStep(s)
         \/ WatchdogStep
         \/ TimePasses
  PROVE  Undamaged(r)' /\ UNCHANGED <<bloom, tasks, results>> /\ pc'[r] = pc[r]
<1>1. /\ pc \in [Procs -> Labels] /\ del \in [Procs -> Seq(Keys)] /\ r \in Procs /\ r # NoJob
      /\ r \notin Stops /\ r # Watchdog
      /\ Watchdog \in Procs /\ Stops \subseteq Procs
  BY NullAssumption, ProcessAssumption
  DEF NullAssumption, ProcessAssumption, TypeInv, TypeOK, JobTypeOK, Procs
<1>2. /\ pc[r] \in {"setDepth", "setLast", "open", "addSeed", "insert", "started"}
      /\ pc[r] # "setDepth" => maxDepth = req[r].depth
      /\ \A p \in Procs : Bystander(p)
  BY DEF Undamaged, Bystander
<1> USE NoOtherFault DEF sharedVars, redisVars, brokerVars, Goto
<1>3. ASSUME NEW p \in Procs PROVE ~DelKey(p)
  BY <1>1, <1>2 DEF DelKey, Bystander
<1>4. Head(<<"active", "depth", "last">>) = "active"
  OBVIOUS
<1>5. ASSUME NEW p \in Procs \ {r}, NEW l \in Labels \ {"openPurge", "purge"},
             Goto(p, l), UNCHANGED <<bloom, tasks, results, maxDepth, req>>,
             (l # "del" /\ UNCHANGED del) \/ ForceCleanupJob(p)
      PROVE  Undamaged(r)' /\ UNCHANGED <<bloom, tasks, results>> /\ pc'[r] = pc[r]
  <2>1. \A x \in Procs : Bystander(x)'
    BY <1>1, <1>2, <1>4, <1>5 DEF Bystander, ForceCleanupJob, Delete
  <2>2. pc'[r] = pc[r]
    BY <1>1, <1>5
  <2> QED
    BY <1>2, <1>5, <2>1, <2>2 DEF Undamaged, Bystander
<1>6. ASSUME NEW s \in Stops, StopCheck(s) \/ StopStep(s)
      PROVE  Undamaged(r)' /\ UNCHANGED <<bloom, tasks, results>> /\ pc'[r] = pc[r]
  <2>1. s \in Procs \ {r}
    BY <1>1
  <2>2. StopCheck(s)
    BY <1>2, <1>3, <1>6, <2>1 DEF StopStep, OpenPurge, PurgeQueue, Bystander
  <2>3. ForceCleanupJob(s) /\ Goto(s, "del") /\ UNCHANGED <<bloom, tasks, results, maxDepth, req>>
    BY <1>1, <2>2 DEF StopCheck, IsJobActive, ForceCleanupJob, Delete
  <2> QED
    BY <1>5, <2>1, <2>3 DEF Labels
<1>7. CASE WatchdogTick
  <2>1. Goto(Watchdog, "inspect") /\ UNCHANGED <<bloom, tasks, results, maxDepth, req, del>>
    BY <1>7 DEF WatchdogTick
  <2> QED
    BY <1>1, <1>5, <2>1 DEF Labels
<1>8. CASE InspectQueue
  <2>1. /\ UNCHANGED <<bloom, tasks, results, maxDepth, req, del>>
        /\ UNCHANGED pc \/ Goto(Watchdog, "lastActivity") \/ Goto(Watchdog, "idle")
    BY <1>8 DEF InspectQueue
  <2>2. CASE UNCHANGED pc
    BY <1>2, <2>1, <2>2 DEF Undamaged, Bystander
  <2> QED
    BY <1>1, <1>5, <2>1, <2>2 DEF Labels
<1>9. CASE CheckLastActivity
  <2>1. /\ UNCHANGED <<bloom, tasks, results, maxDepth, req>>
        /\ \/ ForceCleanupJob(Watchdog) /\ Goto(Watchdog, "del")
           \/ Goto(Watchdog, "idle") /\ UNCHANGED del
    BY <1>9 DEF CheckLastActivity, ForceCleanupJob, Delete
  <2> QED
    BY <1>1, <1>5, <2>1 DEF Labels
<1>10. CASE TimePasses
  BY <1>2, <1>10 DEF TimePasses, jobVars, Undamaged, Bystander
<1> QED
  BY <1>1, <1>3, <1>6, <1>7, <1>8, <1>9, <1>10 DEF WatchdogStep

(* The seed is published once it is in the Bloom filter. *)
LEMMA SeedAdded ==
  ASSUME OnlyWorkersFail, TypeInv, CurIngested, NEW r \in Requests, NEW level, NEW above,
         above[req[r].url] \subseteq {req[r].url}, FrontierIntact(r, level, above),
         AddSeed(r), pc'[r] = "insert", UNCHANGED <<workerVars, consumerVars>>
  PROVE  FrontierIntact(r, level, above)'
<1>1. NothingSent /\ bloom' = {req[r].url} /\ UNCHANGED <<tasks, results, req>>
  BY NoOtherFault DEF FrontierIntact, SeedFirst, AddSeed, AddToBloom, brokerVars
<1>2. NothingSent'
  BY <1>1
  DEF NothingSent, TasksInFlight, QueuedTasks, HeldTasks, ResultsInFlight, HeldResults, workerVars,
      consumerVars
<1>3. /\ \A w \in Workers : wpc'[w] = "idle"
      /\ \A c \in Consumers : cpc'[c] = "idle"
  BY <1>1, NothingToDo DEF workerVars, consumerVars
<1> QED
  BY <1>1, <1>2, <1>3
  DEF FrontierIntact, SeedFirst, OnLevel, NothingSent, Descending, Carried, AckedLast, Expanded

LEMMA SeedSent ==
  ASSUME TypeInv, CurIngested, NEW r \in Requests, NEW level, NEW above,
         level[req[r].url] = 0, FrontierIntact(r, level, above), Undisturbed',
         InsertSeed(r), pc'[r] = "started", Enqueue(SeedTask(r)), UNCHANGED <<workerVars, consumerVars>>
  PROVE  FrontierIntact(r, level, above)'
<1> DEFINE s == req[r].url
<1>1. NothingSent /\ bloom = {s} /\ UNCHANGED <<bloom, results, req>>
  BY DEF FrontierIntact, SeedFirst, InsertSeed, redisVars
<1>2. SeedTask(r) \in Task
  BY WebAssumption DEF WebAssumption, SeedTask, Task, TypeInv, TypeOK, JobTypeOK
<1>3. QueuedTasks' = {SeedTask(r)}
  BY <1>1, <1>2, EnqueuedTasks DEF Undisturbed, NothingSent, TasksInFlight
<1>4. TasksInFlight' = {SeedTask(r)} /\ ResultsInFlight' = {} /\ ingested' = {}
  BY <1>1, <1>3
  DEF NothingSent, TasksInFlight, HeldTasks, ResultsInFlight, HeldResults, workerVars, consumerVars
<1>5. /\ \A w \in Workers : wpc'[w] = "idle"
      /\ \A c \in Consumers : cpc'[c] = "idle"
  BY <1>1, NothingToDo DEF workerVars, consumerVars
<1>6. SeedTask(r).url = s /\ SeedTask(r).depth = 0
  BY DEF SeedTask
<1>7. SeedFirst(r)' /\ OnLevel(level)' /\ \A u \in bloom' : above[u] \subseteq bloom'
  BY <1>1, <1>4, <1>6, "insert" # "started" DEF FrontierIntact, SeedFirst, OnLevel
<1>8. Carried(r)'
  <2>1. s \in Asked'
    BY <1>4, <1>6 DEF Asked
  <2> QED
    BY <1>1, <1>5, <2>1 DEF Carried, AckedLast
<1>9. Descending(r, above)' /\ Expanded(r)'
  BY <1>4, <1>5 DEF Descending, Expanded
<1> QED
  BY <1>7, <1>8, <1>9 DEF FrontierIntact

LEMMA JobIntactStep ==
  ASSUME OnlyWorkersFail, TypeInv, CurIngested, Steady, NEW r \in Requests, NEW level, NEW above,
         Running(r, level, above), active' = r, Undamaged(r), FrontierIntact(r, level, above),
         JobNext, ~JobExpires, UNCHANGED <<workerVars, consumerVars>>, UNCHANGED req, Undisturbed'
  PROVE  Undamaged(r)' /\ FrontierIntact(r, level, above)'
<1>1. Started = {r} /\ active = r /\ level[req[r].url] = 0 /\ above[req[r].url] \subseteq {req[r].url}
  BY DEF Running, Layered
<1>2. ASSUME Undamaged(r)', UNCHANGED <<bloom, tasks, results>>,
             pc[r] = "insert" <=> pc'[r] = "insert", pc[r] = "started" <=> pc'[r] = "started"
      PROVE  Undamaged(r)' /\ FrontierIntact(r, level, above)'
  BY <1>2, FrontierUnchanged DEF frontierVars
<1>3. CASE \E q \in Requests : Submit(q) \/ CrawlStep(q)
  BY <1>1, <1>2, <1>3, CrawlKeeps, SeedAdded, SeedSent
<1>4. CASE ~\E q \in Requests : Submit(q) \/ CrawlStep(q)
  BY <1>1, <1>2, <1>4, OthersKeep DEF JobNext
<1> QED
  BY <1>3, <1>4
-------------------------------------------------------------------------------
(***************************************************************************)
(* The steps of the workers.                                                *)
(***************************************************************************)
LEMMA RangeSingle ==
  ASSUME NEW S, NEW q \in Seq(S), q # <<>>, Len(q) <= 1
  PROVE  Range(q) = {Head(q)}
<1>1. Len(q) \in Nat \ {0} /\ Tail(q) \in Seq(S) /\ Len(Tail(q)) = Len(q) - 1
  BY EmptySeq, HeadTailProperties
<1>2. Len(Tail(q)) = 0
  BY <1>1
<1>3. Tail(q) = <<>>
  BY <1>1, <1>2, EmptySeq
<1> QED
  BY <1>3, RangeHeadTail, RangeEmpty

LEMMA HeadHeld ==
  ASSUME TypeInv, Prefetch, NEW w \in Workers, unacked[w] # <<>>
  PROVE  /\ Head(unacked[w]) \in HeldTasks /\ Head(unacked[w]) \in Task
         /\ Range(unacked[w]) = {Head(unacked[w])}
<1>1. unacked[w] \in Seq(Task) /\ Len(unacked[w]) <= 1
  BY DEF Prefetch, TypeInv, TypeOK, WorkerTypeOK
<1>2. Range(unacked[w]) = {Head(unacked[w])}
  BY <1>1, RangeSingle
<1> QED
  BY <1>1, <1>2, HeadTailProperties DEF HeldTasks

(* Whatever a worker does, its task is queued, held, or answered. *)
LEMMA WorkerCarries ==
  ASSUME ~Fault("broker"), TypeInv, Prefetch, NoOverflow', NEW w \in Workers,
         WorkerStep(w) \/ WorkerLost(w), UNCHANGED consumerVars, AckedLast
  PROVE  /\ Answered \subseteq Answered'
         /\ Asked \subseteq Asked' \cup Answered'
         /\ AckedLast'
<1> USE DEF AckedLast
<1> DEFINE wq == WorkerQueue[w]
<1>1. /\ tasks \in [Range(Queues) -> Seq(Task)] /\ results \in Seq(Result)
      /\ unacked \in [Workers -> Seq(Task)] /\ wpc \in [Workers -> {"idle", "crawling", "acking"}]
      /\ wq \in Range(Queues)
      /\ UNCHANGED <<HeldResults, ingested>>
  BY WorkerAssumption
  DEF WorkerAssumption, TypeInv, TypeOK, SharedTypeOK, WorkerTypeOK, HeldResults, consumerVars
<1>2. ASSUME TasksInFlight \subseteq TasksInFlight', UNCHANGED results,
             \A v \in Workers : wpc'[v] = "acking" => wpc[v] = "acking" /\ unacked'[v] = unacked[v]
      PROVE  /\ Answered \subseteq Answered'
             /\ Asked \subseteq Asked' \cup Answered'
             /\ AckedLast'
  BY <1>1, <1>2 DEF Asked, Answered, ResultsInFlight
<1>3. CASE Deliver(w)
  <2>1. /\ tasks' = [tasks EXCEPT ![wq] = Tail(tasks[wq])] /\ tasks[wq] # <<>>
        /\ unacked' = [unacked EXCEPT ![w] = <<Head(tasks[wq])>>] /\ unacked[w] = <<>>
        /\ wpc' = [wpc EXCEPT ![w] = "crawling"] /\ UNCHANGED results
    BY <1>3 DEF Deliver
  <2>2. Range(tasks[wq]) = Range(unacked'[w]) \cup Range(tasks'[wq])
    BY <1>1, <2>1, RangeHeadTail, RangeOne
  <2>3. \A q \in Range(Queues) \ {wq} : Range(tasks'[q]) = Range(tasks[q])
    BY <1>1, <2>1
  <2>4. QueuedTasks \subseteq TasksInFlight'
    <3>1. Range(tasks[wq]) \subseteq HeldTasks' \cup QueuedTasks'
      BY <1>1, <2>2 DEF QueuedTasks, HeldTasks
    <3>2. ASSUME NEW q \in Range(Queues) \ {wq}
          PROVE  Range(tasks[q]) \subseteq QueuedTasks'
      BY <2>3 DEF QueuedTasks
    <3> QED
      BY <3>1, <3>2 DEF QueuedTasks, TasksInFlight
  <2>5. \A v \in Workers : Range(unacked[v]) \subseteq Range(unacked'[v])
    BY <1>1, <2>1, RangeEmpty
  <2>6. TasksInFlight \subseteq TasksInFlight'
    BY <2>4, <2>5 DEF HeldTasks, TasksInFlight
  <2> QED
    BY <1>1, <1>2, <2>1, <2>6
<1>4. CASE PublishResult(w)
  <2> DEFINE t == Head(unacked[w])
             m == ResultOf(t)
  <2>1. wpc[w] = "crawling" /\ unacked[w] # <<>>
    BY <1>4 DEF PublishResult, TypeInv, HasTask
  <2>2. t \in Task /\ m \in Result /\ m.url = t.url
    BY <2>1, HeadHeld DEF ResultOf, Task, Result
  <2>3. /\ results' = Trim(Append(results, m)) /\ UNCHANGED <<tasks, unacked>>
        /\ wpc' = [wpc EXCEPT ![w] = "acking"]
    BY <1>4 DEF PublishResult
  <2>4. results' = Append(results, m)
    <3>1. Append(results, m) \in Seq(Result) /\ Len(Trim(Append(results, m))) < MaxLength
      BY <1>1, <2>2, <2>3, AppendProperties DEF NoOverflow
    <3> QED
      BY <2>3, <3>1, NotTrimmed
  <2>5. Range(results') = Range(results) \cup {m}
    BY <1>1, <2>2, <2>4, RangeAppended
  <2>6. Answered \subseteq Answered' /\ t.url \in Answered'
    BY <1>1, <2>2, <2>5 DEF Answered, ResultsInFlight
  <2>7. Asked' = Asked
    BY <2>3 DEF Asked, TasksInFlight, QueuedTasks, HeldTasks
  <2> QED
    BY <1>1, <2>3, <2>6, <2>7
<1>5. CASE Ack(w)
  <2>1. /\ wpc[w] = "acking" /\ wpc' = [wpc EXCEPT ![w] = "idle"]
        /\ unacked' = [unacked EXCEPT ![w] = <<>>] /\ UNCHANGED <<tasks, results>>
    BY <1>5 DEF Ack, sharedVars, brokerVars
  <2>2. Range(unacked[w]) = {Head(unacked[w])}
    BY <2>1, HeadHeld DEF TypeInv, HasTask
  <2>3. Answered' = Answered
    BY <1>1, <2>1 DEF Answered, ResultsInFlight
  <2>4. TasksInFlight \subseteq TasksInFlight' \cup {Head(unacked[w])}
    BY <1>1, <2>1, <2>2 DEF TasksInFlight, QueuedTasks, HeldTasks
  <2>5. Asked \subseteq Asked' \cup Answered'
    BY <2>1, <2>3, <2>4 DEF Asked
  <2> QED
    BY <1>1, <2>1, <2>3, <2>5
<1>6. CASE WorkerLost(w)
  <2>1. /\ tasks' = [tasks EXCEPT ![wq] = Trim(unacked[w] \o tasks[wq])]
        /\ unacked' = [unacked EXCEPT ![w] = <<>>]
        /\ wpc' = [wpc EXCEPT ![w] = "idle"] /\ UNCHANGED results
    BY <1>6 DEF WorkerLost, Requeue
  <2>2. unacked[w] \o tasks[wq] \in Seq(Task)
    BY <1>1, ConcatProperties
  <2>3. tasks'[wq] = Trim(unacked[w] \o tasks[wq]) /\ Len(tasks'[wq]) < MaxLength
    BY <1>1, <2>1 DEF NoOverflow
  <2>4. tasks'[wq] = unacked[w] \o tasks[wq]
    BY <2>2, <2>3, NotTrimmed
  <2>5. Range(tasks'[wq]) = Range(unacked[w]) \cup Range(tasks[wq])
    BY <1>1, <2>4, RangeJoined
  <2>6. \A q \in Range(Queues) \ {wq} : Range(tasks'[q]) = Range(tasks[q])
    BY <1>1, <2>1
  <2>7. \A v \in Workers \ {w} : unacked'[v] = unacked[v]
    BY <1>1, <2>1
  <2>8. QueuedTasks \cup Range(unacked[w]) \subseteq QueuedTasks'
    BY <1>1, <2>5, <2>6 DEF QueuedTasks
  <2>9. TasksInFlight \subseteq TasksInFlight'
    BY <2>7, <2>8 DEF HeldTasks, TasksInFlight
  <2> QED
    BY <1>1, <1>2, <2>1, <2>9
<1> QED
  BY <1>3, <1>4, <1>5, <1>6 DEF WorkerStep

LEMMA WorkerIntact ==
  ASSUME OnlyWorkersFail, TypeInv, Steady, NEW r \in Requests, NEW level, NEW above,
         FrontierIntact(r, level, above), Undisturbed', NEW w \in Workers,
         WorkerStep(w) \/ WorkerLost(w), UNCHANGED <<jobVars, consumerVars>>
  PROVE  FrontierIntact(r, level, above)'
<1>1. /\ UNCHANGED <<bloom, pc, req, cpc, cur, cmax, link, ingested, Added>>
      /\ TasksInFlight' \subseteq TasksInFlight
      /\ ResultsInFlight' \subseteq ResultsInFlight \cup TaskResults
  BY WorkerFrame, WorkerTasks, WorkerResults
  DEF WorkerNext, redisVars, jobVars, consumerVars, Added, NextUrl
<1>2. HeldTasks \subseteq TasksInFlight
  BY DEF TasksInFlight
<1>3. SeedFirst(r)'
  BY <1>1, <1>2 DEF FrontierIntact, SeedFirst, NothingSent, TaskResults
<1>4. OnLevel(level)'
  <2>1. ASSUME NEW m \in TaskResults PROVE m.depth = level[m.url] /\ m.url \in bloom
    BY <1>2, <2>1 DEF FrontierIntact, OnLevel, TaskResults, ResultOf
  <2> QED
    BY <1>1, <2>1 DEF FrontierIntact, OnLevel
<1>5. Carried(r)'
  BY <1>1, WorkerCarries, NoOtherFault DEF FrontierIntact, Carried, Steady, Undisturbed
<1>6. Descending(r, above)' /\ Expanded(r)'
  BY <1>1 DEF FrontierIntact, Descending, NextUrl, Expanded, Pending
<1> QED
  BY <1>1, <1>3, <1>4, <1>5, <1>6 DEF FrontierIntact
-------------------------------------------------------------------------------
(***************************************************************************)
(* The steps of the consumers, while job r runs.                            *)
(***************************************************************************)
WhileRunning(r, level, above) ==
  /\ OnlyWorkersFail /\ FalsePositives = {} /\ DropPercent = 0
  /\ TypeInv /\ CurIngested /\ DepthInv /\ Steady
  /\ level \in [Urls -> Nat] /\ above \in [Urls -> SUBSET Urls]
  /\ Running(r, level, above) /\ Undamaged(r) /\ FrontierIntact(r, level, above)
  /\ pc[r] = "started"

(* A step of consumer c, or a delivery to it. *)
Moves(c) == (DeliverResult(c) \/ ConsumerStep(c)) /\ UNCHANGED <<jobVars, workerVars>>

LEMMA OthersStay ==
  ASSUME TypeInv, NEW c \in Consumers, Moves(c), NEW d \in Consumers \ {c}
  PROVE  UNCHANGED <<cpc[d], cur[d], cmax[d], link[d]>>
BY DEF Moves, TypeInv, TypeOK, ConsumerTypeOK, ConsumerStep, Consume, DeliverResult, TakeResult, Touch,
       ReadDepth, CheckLink, AddLink, InsertLink, FollowLinks, Finish, Advance, sharedVars, consumerVars

LEMMA OnlyAddLinkAdds ==
  ASSUME NEW c \in Consumers, Moves(c), ~AddLink(c)
  PROVE  UNCHANGED bloom
BY DEF Moves, ConsumerStep, Consume, DeliverResult, TakeResult, Touch, ReadDepth, CheckLink, InsertLink,
       sharedVars, redisVars

LEMMA OnlyInsertLinkSends ==
  ASSUME NEW c \in Consumers, Moves(c), ~InsertLink(c)
  PROVE  UNCHANGED TasksInFlight
<1>1. UNCHANGED <<tasks, unacked>>
  BY DEF Moves, ConsumerStep, Consume, DeliverResult, TakeResult, Touch, ReadDepth, CheckLink, AddLink,
         sharedVars, brokerVars, workerVars
<1> QED
  BY <1>1 DEF TasksInFlight, QueuedTasks, HeldTasks

(* An answer goes from the queue to a consumer, and from there to dbchan. *)
LEMMA AnsweredKept ==
  ASSUME TypeInv, NEW c \in Consumers, Moves(c)
  PROVE  Answered \subseteq Answered'
<1>1. inbox \in [Consumers -> Seq(Result)] /\ results \in Seq(Result)
  BY DEF TypeInv, TypeOK, SharedTypeOK, ConsumerTypeOK
<1>2. SUFFICES ResultsInFlight \cup ingested \subseteq (ResultsInFlight \cup ingested)'
  BY DEF Answered
<1>3. CASE DeliverResult(c)
  <2>1. /\ results # <<>> /\ results' = Tail(results) /\ UNCHANGED ingested
        /\ inbox' = [inbox EXCEPT ![c] = Append(inbox[c], Head(results))]
    BY <1>3 DEF DeliverResult
  <2>2. Head(results) \in Result
    BY <1>1, <2>1, HeadTailProperties
  <2>3. Range(inbox'[c]) = Range(inbox[c]) \cup {Head(results)}
    <3>1. inbox'[c] = Append(inbox[c], Head(results))
      BY <1>1, <2>1
    <3> QED
      BY <1>1, <2>2, <3>1, RangeAppended
  <2>4. Range(results) = {Head(results)} \cup Range(results')
    BY <1>1, <2>1, RangeHeadTail
  <2>5. \A d \in Consumers \ {c} : inbox'[d] = inbox[d]
    BY <1>1, <2>1
  <2>6. HeldResults \cup {Head(results)} \subseteq HeldResults'
    BY <2>3, <2>5 DEF HeldResults
  <2> QED
    BY <2>1, <2>4, <2>6 DEF ResultsInFlight
<1>4. CASE TakeResult(c)
  <2>1. /\ inbox[c] # <<>> /\ inbox' = [inbox EXCEPT ![c] = Tail(inbox[c])]
        /\ ingested' = ingested \cup {Head(inbox[c])} /\ UNCHANGED results
    BY <1>4 DEF TakeResult, sharedVars, brokerVars
  <2>2. Range(inbox[c]) = {Head(inbox[c])} \cup Range(inbox'[c])
    BY <1>1, <2>1, RangeHeadTail
  <2>3. \A d \in Consumers \ {c} : inbox'[d] = inbox[d]
    BY <1>1, <2>1
  <2>4. HeldResults \subseteq HeldResults' \cup {Head(inbox[c])}
    BY <2>2, <2>3 DEF HeldResults
  <2> QED
    BY <2>1, <2>4 DEF ResultsInFlight
<1>5. CASE ~(DeliverResult(c) \/ TakeResult(c))
  <2>1. UNCHANGED <<inbox, results, ingested>>
    BY <1>5
    DEF Moves, ConsumerStep, Consume, Touch, ReadDepth, CheckLink, AddLink, InsertLink, sharedVars,
        brokerVars, consumerVars
  <2> QED
    BY <2>1 DEF ResultsInFlight, HeldResults
<1> QED
  BY <1>3, <1>4, <1>5

(* The link that c publishes is queued, and nothing else has gone. *)
LEMMA LinkSent ==
  ASSUME TypeInv, NEW c \in Consumers, cpc[c] = "insert", Enqueue(LinkTask(c)), UNCHANGED workerVars,
         NoOverflow'
  PROVE  TasksInFlight' = TasksInFlight \cup {LinkTask(c)} /\ NextUrl(c) \in Asked'
<1>1. LinkTask(c) \in Task /\ LinkTask(c).url = NextUrl(c)
  BY NextUrlType, TypeInvParts DEF LinkTask
<1>2. TasksInFlight' = TasksInFlight \cup {LinkTask(c)}
  BY <1>1, EnqueuedTasks DEF TasksInFlight, HeldTasks, workerVars
<1> QED
  BY <1>1, <1>2 DEF Asked

LEMMA TasksKept ==
  ASSUME OnlyWorkersFail, TypeInv, Steady, NEW c \in Consumers, Moves(c), Undisturbed'
  PROVE  /\ TasksInFlight \subseteq TasksInFlight'
         /\ InsertLink(c) => NextUrl(c) \in Asked'
<1>1. CASE InsertLink(c)
  <2>1. cpc[c] = "insert" /\ c \in chans
    BY <1>1 DEF InsertLink, Steady
  <2>2. Enqueue(LinkTask(c))
    BY <1>1, <2>1, NoOtherFault DEF InsertLink, InsertMessage, InsertFails
  <2> QED
    BY <2>1, <2>2, LinkSent DEF Moves, Undisturbed
<1> QED
  BY <1>1, OnlyInsertLinkSends

(* A link that is followed leads one level down. *)
LEMMA LinkOnLevel ==
  ASSUME NEW r \in Requests, NEW level, NEW above, WhileRunning(r, level, above),
         NEW c \in Consumers, cpc[c] \in {"add", "insert"}
  PROVE  /\ cur[c].url \in bloom
         /\ level[NextUrl(c)] = cur[c].depth + 1
         /\ above[NextUrl(c)] \subseteq above[cur[c].url] \cup {NextUrl(c)}
<1> DEFINE u == cur[c].url
           v == NextUrl(c)
<1>1. v \in Range(Links[u]) /\ cur[c] \in Result /\ u \in Urls
  BY NextUrlType, LoopType, TypeInvParts DEF WhileRunning, Result
<1>2. cur[c] \in ingested
  BY DEF WhileRunning, CurIngested
<1>3. cur[c].depth = level[u] /\ u \in bloom
  BY <1>2 DEF WhileRunning, FrontierIntact, OnLevel
<1>4. cur[c].depth < req[r].depth /\ v \notin above[u]
  BY DEF WhileRunning, DepthInv, FrontierIntact, Descending
<1>5. /\ level[v] = level[u] + 1
      /\ above[v] \subseteq above[u] \cup {v}
  BY <1>1, <1>3, <1>4 DEF WhileRunning, Running, Layered
<1> QED
  BY <1>3, <1>5

LEMMA LevelsKept ==
  ASSUME NEW r \in Requests, NEW level, NEW above, WhileRunning(r, level, above),
         NEW c \in Consumers, Moves(c)
  PROVE  OnLevel(level)' /\ \A u \in bloom' : above[u] \subseteq bloom'
<1>1. ConsumerNext /\ UNCHANGED <<jobVars, workerVars>>
  BY DEF Moves, ConsumerNext
<1>2. bloom \subseteq bloom'
  BY <1>1, BloomGrows DEF Next
<1>3. /\ TasksInFlight' \subseteq TasksInFlight \cup LinkTasks
      /\ ResultsInFlight' \cup ingested' \subseteq ResultsInFlight \cup ingested
  BY <1>1, ConsumerTasks, ConsumerResults DEF WhileRunning
<1>4. ASSUME NEW m \in TasksInFlight \cup ResultsInFlight \cup ingested
      PROVE  m.depth = level[m.url] /\ m.url \in bloom'
  BY <1>2 DEF WhileRunning, FrontierIntact, OnLevel
<1>5. ASSUME NEW m \in LinkTasks
      PROVE  m.depth = level[m.url] /\ m.url \in bloom'
  <2> PICK d \in Consumers : cpc[d] = "insert" /\ m = LinkTask(d)
    BY DEF LinkTasks
  <2>1. m.url = NextUrl(d) /\ m.depth = cur[d].depth + 1
    BY DEF LinkTask
  <2>2. NextUrl(d) \in bloom
    BY DEF WhileRunning, FrontierIntact, Descending
  <2> QED
    BY <1>2, <2>1, <2>2, LinkOnLevel
<1>6. OnLevel(level)'
  BY <1>3, <1>4, <1>5 DEF OnLevel
<1>7. \A u \in bloom' : above[u] \subseteq bloom'
  <2>1. CASE AddLink(c)
    <3>1. cpc[c] = "add" /\ bloom' = bloom \cup {NextUrl(c)}
      BY <2>1, NoOtherFault DEF WhileRunning, AddLink, AddToBloom
    <3> QED
      BY <3>1, LinkOnLevel DEF WhileRunning, FrontierIntact
  <2>2. CASE ~AddLink(c)
    BY <2>2, OnlyAddLinkAdds DEF WhileRunning, FrontierIntact
  <2> QED
    BY <2>1, <2>2
<1> QED
  BY <1>6, <1>7

(* The links of c's page, and whether they are in the Bloom filter. *)
LEMMA LinkKept ==
  ASSUME DropPercent = 0, TypeInv, NEW c \in Consumers, cpc[c] # "idle"
  PROVE  /\ Limit(Len(Links[cur[c].url])) = Len(Links[cur[c].url])
         /\ DOMAIN Links[cur[c].url] = 1..Len(Links[cur[c].url])
         /\ Len(Links[cur[c].url]) \in Nat
<1>1. Links[cur[c].url] \in Seq(Urls)
  BY LoopType, TypeInvParts
<1>2. Len(Links[cur[c].url]) \in Nat
  BY <1>1
<1> DEFINE n == Len(Links[cur[c].url])
<1>3. n \in Nat
  BY <1>2
<1> HIDE DEF n
<1>4. (n * (100 - 0)) \div 100 = n
  BY <1>3
<1>5. Limit(n) = n
  BY <1>4 DEF Limit
<1> QED
  BY <1>1, <1>2, <1>5 DEF n

LEMMA DescendingKept ==
  ASSUME NEW r \in Requests, NEW level, NEW above, WhileRunning(r, level, above),
         NEW c \in Consumers, Moves(c)
  PROVE  Descending(r, above)'
<1>1. UNCHANGED <<pc, req>> /\ bloom \subseteq bloom'
  BY BloomGrows DEF Moves, jobVars, Next, ConsumerNext
<1>2. Descending(r, above) /\ TypeInv
  BY DEF WhileRunning, FrontierIntact
<1>3. /\ cpc \in [Consumers -> ConsumerLabels] /\ cmax \in [Consumers -> Int]
      /\ cur \in [Consumers -> Result \cup {NoResult}] /\ link \in [Consumers -> Nat]
  BY <1>2 DEF TypeInv, TypeOK, ConsumerTypeOK
<1> DEFINE Down(d) ==
             /\ cpc'[d] \in {"exists", "add", "insert"} => cmax'[d] = req[r].depth
             /\ cpc'[d] \in {"add", "insert"} => NextUrl(d)' \notin above[cur'[d].url]
             /\ cpc'[d] = "insert" => NextUrl(d)' \in bloom'
<1>4. ASSUME NEW d \in Consumers \ {c} PROVE Down(d)
  BY <1>1, <1>2, OthersStay DEF Descending, NextUrl
<1>5. ASSUME cpc'[c] \notin {"exists", "add", "insert"} PROVE Down(c)
  BY <1>5
<1> USE DEF WhileRunning
<1>6. CASE Consume(c) \/ DeliverResult(c)
  <2>1. UNCHANGED <<cpc, cur, cmax, link>>
    BY <1>6 DEF Consume, DeliverResult, consumerVars
  <2> QED
    BY <1>1, <1>2, <1>4, <2>1 DEF Descending, NextUrl
<1>7. CASE TakeResult(c) \/ Touch(c)
  <2>1. cpc'[c] \in {"touch", "depth"}
    BY <1>3, <1>7 DEF TakeResult, Touch
  <2> QED
    BY <1>1, <1>4, <1>5, <2>1 DEF Descending
<1>8. CASE ReadDepth(c)
  <2>1. /\ cpc[c] = "depth" /\ FollowLinks(c, MaxDepthFor(c))
    BY <1>8, NoOtherFault DEF ReadDepth
  <2>2. maxDepth = req[r].depth /\ req[r].depth \in Int
    BY WebAssumption DEF WebAssumption, Undamaged, TypeInv, TypeOK, JobTypeOK
  <2>3. MaxDepthFor(c) = req[r].depth
    BY <2>2, NullAssumption DEF NullAssumption, MaxDepthFor
  <2>4. cpc'[c] = "idle" \/ (cpc'[c] = "exists" /\ cmax'[c] = req[r].depth)
    BY <1>3, <2>1, <2>3 DEF FollowLinks, Finish
  <2> QED
    BY <1>1, <1>4, <1>5, <2>4 DEF Descending
<1>9. CASE CheckLink(c)
  <2>1. CASE cpc'[c] \in {"idle", "exists"}
    <3>1. cpc[c] = "exists" /\ (cpc'[c] = "idle" \/ UNCHANGED cmax)
      BY <1>3, <1>9, <2>1 DEF CheckLink, Finish, Advance
    <3> QED
      BY <1>1, <1>2, <1>4, <1>5, <2>1, <3>1 DEF Descending
  <2>2. CASE cpc'[c] \notin {"idle", "exists"}
    <3>1. /\ cpc[c] = "exists" /\ cpc'[c] = "add" /\ UNCHANGED <<cur, cmax, link>>
          /\ NextUrl(c) \notin bloom
      BY <1>3, <1>9, <2>2 DEF CheckLink, Finish, Advance, CheckUrlDuplicate
    <3>2. cur[c] \in ingested
      BY <3>1 DEF CurIngested
    <3>3. cur[c].url \in bloom
      BY <3>2 DEF FrontierIntact, OnLevel
    <3>4. NextUrl(c) \notin above[cur[c].url]
      BY <3>1, <3>3 DEF FrontierIntact
    <3> QED
      BY <1>1, <1>2, <1>4, <3>1, <3>4 DEF Descending, NextUrl
  <2> QED
    BY <2>1, <2>2
<1>10. CASE AddLink(c)
  <2>1. /\ cpc[c] = "add" /\ cpc'[c] = "insert" /\ UNCHANGED <<cur, cmax, link>>
        /\ NextUrl(c) \in bloom'
    BY <1>3, <1>10, NoOtherFault DEF AddLink, AddToBloom
  <2> QED
    BY <1>1, <1>2, <1>4, <2>1 DEF Descending, NextUrl
<1>11. CASE InsertLink(c)
  <2>1. cpc[c] = "insert" /\ cpc'[c] = "exists" /\ UNCHANGED <<cur, cmax>>
    BY <1>3, <1>11 DEF InsertLink, Advance
  <2> QED
    BY <1>1, <1>2, <1>4, <2>1 DEF Descending
<1> QED
  BY <1>6, <1>7, <1>8, <1>9, <1>10, <1>11 DEF Moves, ConsumerStep

LEMMA CarriedKept ==
  ASSUME NEW r \in Requests, NEW level, NEW above, WhileRunning(r, level, above),
         NEW c \in Consumers, Moves(c), Undisturbed'
  PROVE  Carried(r)'
<1> USE DEF WhileRunning
<1>1. UNCHANGED <<pc, req, wpc, unacked>> /\ pc[r] = "started"
  BY DEF Moves, jobVars, workerVars
<1>2. bloom \subseteq Answered \cup Asked \cup Added
  BY <1>1 DEF FrontierIntact, Carried
<1>3. Answered \subseteq Answered' /\ Asked \subseteq Asked'
  BY AnsweredKept, TasksKept DEF Asked
<1>4. AckedLast'
  BY <1>1, <1>3 DEF FrontierIntact, Carried, AckedLast
<1>5. cpc \in [Consumers -> ConsumerLabels]
  BY DEF TypeInv, TypeOK, ConsumerTypeOK
<1>6. ASSUME NEW d \in Consumers, cpc[d] = "insert"
      PROVE  NextUrl(d) \in Asked' \cup Added'
  <2>1. CASE d = c /\ InsertLink(c)
    BY <2>1, TasksKept
  <2>2. CASE ~(d = c /\ InsertLink(c))
    <3>1. UNCHANGED <<cpc[d], cur[d], link[d]>>
      <4>1. CASE d # c
        BY <4>1, OthersStay
      <4>2. CASE d = c
        BY <1>6, <2>2, <4>2
        DEF Moves, ConsumerStep, Consume, DeliverResult, TakeResult, Touch, ReadDepth, CheckLink, AddLink,
            consumerVars
      <4> QED
        BY <4>1, <4>2
    <3> QED
      BY <1>6, <3>1 DEF Added, NextUrl
  <2> QED
    BY <2>1, <2>2
<1>7. bloom' \subseteq bloom \cup Added'
  <2>1. CASE AddLink(c)
    <3>1. /\ cpc'[c] = "insert" /\ UNCHANGED <<cur, link>>
          /\ bloom' = bloom \cup {NextUrl(c)}
      BY <1>5, <2>1, NoOtherFault DEF AddLink, AddToBloom
    <3> QED
      BY <3>1 DEF Added, NextUrl
  <2>2. CASE ~AddLink(c)
    BY <2>2, OnlyAddLinkAdds
  <2> QED
    BY <2>1, <2>2
<1>8. Added \subseteq Asked' \cup Added'
  BY <1>6 DEF Added
<1>9. bloom' \subseteq Answered' \cup Asked' \cup Added'
  BY <1>2, <1>3, <1>7, <1>8
<1> QED
  BY <1>4, <1>9 DEF Carried

(* What c will still look at: link i of its page. *)
Looks(c, i) ==
  \/ cpc[c] \in {"touch", "depth"}
  \/ cpc[c] \in {"exists", "add", "insert"} /\ link[c] <= i

(* c goes through the links of its page in order, and skips only known ones. *)
LEMMA LooksOn ==
  ASSUME NEW r \in Requests, NEW level, NEW above, WhileRunning(r, level, above),
         NEW c \in Consumers, Moves(c), cpc[c] # "idle", cur[c].depth < req[r].depth,
         NEW i \in DOMAIN Links[cur[c].url], Looks(c, i)
  PROVE  \/ Links[cur[c].url][i] \in bloom'
         \/ cur'[c] = cur[c] /\ Looks(c, i)'
<1> USE DEF WhileRunning
<1>1. /\ cpc \in [Consumers -> ConsumerLabels] /\ cmax \in [Consumers -> Int]
      /\ cur \in [Consumers -> Result \cup {NoResult}] /\ link \in [Consumers -> Nat]
  BY DEF TypeInv, TypeOK, ConsumerTypeOK
<1>2. /\ Limit(Len(Links[cur[c].url])) = Len(Links[cur[c].url])
      /\ Len(Links[cur[c].url]) \in Nat /\ i \in 1..Len(Links[cur[c].url])
  BY LinkKept
<1> DEFINE n == Len(Links[cur[c].url])
<1>3. n \in Nat /\ i \in 1..n /\ Limit(n) = n
  BY <1>2
<1> HIDE DEF n
<1>4. bloom \subseteq bloom'
  BY BloomGrows DEF Moves, Next, ConsumerNext
<1>5. CASE DeliverResult(c) \/ Touch(c) \/ AddLink(c)
  <2>1. UNCHANGED <<cur, link>>
    BY <1>5 DEF DeliverResult, Touch, AddLink
  <2>2. cpc'[c] = cpc[c] \/ (cpc[c] = "touch" /\ cpc'[c] = "depth") \/ (cpc[c] = "add" /\ cpc'[c] = "insert")
    BY <1>1, <1>5 DEF DeliverResult, Touch, AddLink
  <2> QED
    BY <2>1, <2>2 DEF Looks
<1>6. CASE ReadDepth(c)
  <2>1. /\ cpc[c] = "depth" /\ FollowLinks(c, MaxDepthFor(c))
    BY <1>6, NoOtherFault DEF ReadDepth
  <2>2. maxDepth = req[r].depth /\ req[r].depth \in Int
    BY WebAssumption DEF WebAssumption, Undamaged, TypeInv, TypeOK, JobTypeOK
  <2>3. MaxDepthFor(c) = req[r].depth
    BY <2>2, NullAssumption DEF NullAssumption, MaxDepthFor
  <2>4. cpc'[c] = "exists" /\ link'[c] = 1 /\ UNCHANGED cur
    BY <1>1, <2>1, <2>3 DEF FollowLinks, Descends
  <2> QED
    BY <1>3, <2>4 DEF Looks
<1>7. CASE CheckLink(c)
  <2>1. cpc[c] = "exists" /\ link[c] <= i
    BY <1>7 DEF CheckLink, Looks
  <2>2. ~(link[c] > n) /\ link[c] \in Nat
    BY <1>1, <1>3, <2>1
  <2>3. \/ CheckUrlDuplicate(NextUrl(c)) /\ Advance(c)
        \/ cpc' = [cpc EXCEPT ![c] = "add"] /\ UNCHANGED <<cur, link>>
    BY <1>3, <1>7, <2>2, NoOtherFault DEF CheckLink, n
  <2>4. CASE CheckUrlDuplicate(NextUrl(c)) /\ Advance(c)
    <3>1. NextUrl(c) \in bloom'
      BY <1>4, <2>4 DEF CheckUrlDuplicate
    <3>2. UNCHANGED cur /\ cpc'[c] = "exists" /\ link'[c] = link[c] + 1
      BY <1>1, <2>4 DEF Advance
    <3>3. CASE link[c] = i
      BY <3>1, <3>3 DEF NextUrl
    <3>4. CASE link[c] # i
      <4>1. link'[c] <= i
        BY <1>3, <2>1, <2>2, <3>2, <3>4
      <4> QED
        BY <3>2, <4>1 DEF Looks
    <3> QED
      BY <3>3, <3>4
  <2>5. CASE cpc' = [cpc EXCEPT ![c] = "add"] /\ UNCHANGED <<cur, link>>
    BY <1>1, <2>1, <2>5 DEF Looks
  <2> QED
    BY <2>3, <2>4, <2>5
<1>8. CASE InsertLink(c)
  <2>1. cpc[c] = "insert" /\ link[c] <= i /\ link[c] \in Nat
    BY <1>1, <1>8 DEF InsertLink, Looks
  <2>2. NextUrl(c) \in bloom'
    BY <1>4, <2>1 DEF FrontierIntact, Descending
  <2>3. UNCHANGED cur /\ cpc'[c] = "exists" /\ link'[c] = link[c] + 1
    BY <1>1, <1>8 DEF InsertLink, Advance
  <2>4. CASE link[c] = i
    BY <2>2, <2>4 DEF NextUrl
  <2>5. CASE link[c] # i
    <3>1. link'[c] <= i
      BY <1>3, <2>1, <2>3, <2>5
    <3> QED
      BY <2>3, <3>1 DEF Looks
  <2> QED
    BY <2>4, <2>5
<1>9. ~Consume(c) /\ ~TakeResult(c)
  BY DEF Consume, TakeResult
<1> QED
  BY <1>5, <1>6, <1>7, <1>8, <1>9 DEF Moves, ConsumerStep

LEMMA ExpandedKept ==
  ASSUME NEW r \in Requests, NEW level, NEW above, WhileRunning(r, level, above),
         NEW c \in Consumers, Moves(c)
  PROVE  Expanded(r)'
<1>1. UNCHANGED req /\ bloom \subseteq bloom'
  BY BloomGrows DEF Moves, jobVars, Next, ConsumerNext
<1>2. ingested' = ingested \/ TakeResult(c)
  BY DEF Moves, ConsumerStep, Consume, DeliverResult, Touch, ReadDepth, CheckLink, AddLink, InsertLink,
         consumerVars
<1>3. SUFFICES ASSUME NEW p \in ingested', p.depth < req[r].depth, NEW i \in DOMAIN Links[p.url]
               PROVE  Links[p.url][i] \in bloom' \/ \E d \in Consumers : cur'[d] = p /\ Looks(d, i)'
  BY <1>1 DEF Expanded, Pending, Looks
<1>4. CASE p \notin ingested
  <2>1. TakeResult(c) /\ p = Head(inbox[c])
    BY <1>2, <1>4 DEF TakeResult
  <2>2. cur'[c] = p /\ cpc'[c] = "touch"
    BY <2>1 DEF TakeResult, WhileRunning, TypeInv, TypeOK, ConsumerTypeOK
  <2> QED
    BY <2>2 DEF Looks
<1>5. CASE p \in ingested
  <2>1. Links[p.url][i] \in bloom \/ \E d \in Consumers : cur[d] = p /\ Looks(d, i)
    BY <1>3, <1>5 DEF WhileRunning, FrontierIntact, Expanded, Pending, Looks
  <2>2. ASSUME NEW d \in Consumers, cur[d] = p, Looks(d, i)
        PROVE  Links[p.url][i] \in bloom' \/ \E e \in Consumers : cur'[e] = p /\ Looks(e, i)'
    <3>1. CASE d # c
      <4>1. UNCHANGED <<cpc[d], cur[d], link[d]>>
        BY <3>1, OthersStay DEF WhileRunning
      <4>2. cur'[d] = p /\ Looks(d, i)'
        BY <2>2, <4>1 DEF Looks
      <4> QED
        BY <4>2
    <3>2. CASE d = c
      <4>1. cpc[c] # "idle"
        BY <2>2, <3>2 DEF Looks
      <4> QED
        BY <1>3, <2>2, <3>2, <4>1, LooksOn
    <3> QED
      BY <3>1, <3>2
  <2> QED
    BY <1>1, <2>1, <2>2
<1> QED
  BY <1>4, <1>5

(* A step of a consumer leaves the job as it is, sent or not. *)
LEMMA ConsumerIntact ==
  ASSUME NEW r \in Requests, NEW level, NEW above, WhileRunning(r, level, above),
         NEW c \in Consumers, Moves(c), Undisturbed'
  PROVE  Undamaged(r)' /\ FrontierIntact(r, level, above)'
<1>1. /\ UNCHANGED <<pc, req, del, active, maxDepth>> /\ bloom \subseteq bloom'
  BY BloomGrows, ConsumerFrame DEF Moves, jobVars, Next, ConsumerNext
<1>2. Undamaged(r)'
  BY <1>1 DEF WhileRunning, Undamaged
<1>3. SeedFirst(r)'
  BY <1>1 DEF WhileRunning, FrontierIntact, SeedFirst
<1> QED
  BY <1>2, <1>3, LevelsKept, DescendingKept, CarriedKept, ExpandedKept DEF FrontierIntact
-------------------------------------------------------------------------------
(***************************************************************************)
(* The invariant, and what it says when nothing is under way.               *)
(***************************************************************************)
CompleteInv ==
  /\ Steady /\ Fresh
  /\ \A r \in Requests, level \in [Urls -> Nat], above \in [Urls -> SUBSET Urls] :
       Running(r, level, above) => Undamaged(r) /\ FrontierIntact(r, level, above)

(* A job that runs alone has taken its lock when it started, or had it before. *)
LEMMA LockHeld ==
  ASSUME OnlyWorkersFail, TypeInv, Steady, [Next]_vars, ~JobExpires, NEW r \in Started, active' = r
  PROVE  active = r
<1>1. r \in Requests /\ r # NoJob /\ pc[r] # "setActive"
  BY NullAssumption DEF NullAssumption, Started
<1>2. CASE JobNext /\ ~JobExpires
  <2>1. ASSUME NEW q \in Requests, SetActive(q) PROVE active = r
    <3>1. pc[q] = "setActive" /\ active' = SetNX(q)
      BY <2>1, NoOtherFault DEF SetActive
    <3> QED
      BY <1>1, <3>1 DEF SetNX
  <2> QED
    BY <1>1, <1>2, <2>1, LockFrame
<1>3. CASE WorkerNext \/ ConsumerNext \/ UNCHANGED vars
  BY <1>3, WorkerFrame, ConsumerFrame DEF redisVars, vars, sharedVars
<1> QED
  BY <1>2, <1>3, QuietNext DEF WorkerNext, ConsumerNext

LEMMA RunningStep ==
  ASSUME OnlyWorkersFail, FalsePositives = {}, DropPercent = 0, TypeInv, CurIngested, DepthInv, Steady,
         NEW r \in Requests, NEW level \in [Urls -> Nat], NEW above \in [Urls -> SUBSET Urls],
         Running(r, level, above), active' = r, Undamaged(r), FrontierIntact(r, level, above),
         [Next]_vars, ~JobExpires, Undisturbed'
  PROVE  Undamaged(r)' /\ FrontierIntact(r, level, above)'
<1>1. UNCHANGED req
  BY ReqStep
<1>2. CASE JobNext /\ ~JobExpires /\ UNCHANGED <<workerVars, consumerVars>>
  BY <1>1, <1>2, JobIntactStep
<1>3. CASE UNCHANGED <<redisVars, tasks, results, jobVars, workerVars, consumerVars>>
  <2>1. UNCHANGED <<pc, del, req, maxDepth, bloom>>
    BY <1>3 DEF redisVars, jobVars
  <2>2. Undamaged(r)'
    BY <2>1 DEF Undamaged
  <2>3. UNCHANGED frontierVars
    BY <1>3, <2>1 DEF frontierVars
  <2>4. pc'[r] = pc[r]
    BY <2>1
  <2> QED
    BY <2>1, <2>2, <2>3, <2>4, FrontierUnchanged
<1>4. CASE pc[r] # "started"
  <2>1. NothingSent
    BY <1>4 DEF FrontierIntact, SeedFirst
  <2> QED
    BY <1>2, <1>3, <2>1, IdleStep
<1>5. CASE pc[r] = "started"
  <2>1. ASSUME NEW w \in Workers, WorkerStep(w) \/ WorkerLost(w), UNCHANGED <<jobVars, consumerVars>>
        PROVE  Undamaged(r)' /\ FrontierIntact(r, level, above)'
    <3>1. UNCHANGED <<pc, del, req, maxDepth>>
      BY <2>1, WorkerFrame DEF WorkerNext, redisVars, jobVars
    <3>2. Undamaged(r)'
      BY <3>1 DEF Undamaged
    <3> QED
      BY <2>1, <3>2, WorkerIntact
  <2>2. ASSUME NEW c \in Consumers, DeliverResult(c) \/ ConsumerStep(c), UNCHANGED <<jobVars, workerVars>>
        PROVE  Undamaged(r)' /\ FrontierIntact(r, level, above)'
    <3>1. WhileRunning(r, level, above) /\ Moves(c)
      BY <1>5, <2>2 DEF WhileRunning, Moves
    <3> QED
      BY <3>1, ConsumerIntact
  <2>3. CASE UNCHANGED vars
    BY <1>3, <2>3 DEF vars, sharedVars, brokerVars
  <2> QED
    BY <1>2, <2>1, <2>2, <2>3, QuietNext
<1> QED
  BY <1>4, <1>5

(* The expiry of its keys ends the only job. *)
LEMMA ExpiryEnds ==
  ASSUME TypeInv, Steady, Fresh, JobExpires, [Next]_vars
  PROVE  CompleteInv'
<1>1. /\ active # NoJob /\ active' = NoJob
      /\ UNCHANGED <<connected, chans, jobVars>>
  BY DEF JobExpires, brokerVars
<1>2. UNCHANGED <<workerVars, consumerVars>>
  BY <1>1, WorkerFrame, ConsumerFrame DEF Next, SchedulerCrash, redisVars, vars, sharedVars
<1>3. Started # {} /\ Started' = Started
  BY <1>1 DEF Fresh, Started, jobVars
<1>4. Steady' /\ Fresh'
  BY <1>1, <1>2, <1>3 DEF Steady, Prefetch, Fresh, jobVars, workerVars, consumerVars
<1>5. \A r \in Requests : active' # r
  BY <1>1, NullAssumption DEF NullAssumption
<1> QED
  BY <1>4, <1>5 DEF CompleteInv, Running

LEMMA CompleteStep ==
  ASSUME OnlyWorkersFail, FalsePositives = {}, DropPercent = 0,
         ForestInv, CompleteInv, [Next]_vars, Undisturbed'
  PROVE  CompleteInv'
<1>1. TypeInv /\ CurIngested /\ DepthInv /\ Steady /\ Fresh
  BY DEF ForestInv, CrawlTree, DepthsKept, CompleteInv
<1>a. JobExpires => CompleteInv'
  BY <1>1, ExpiryEnds
<1> SUFFICES ASSUME ~JobExpires PROVE CompleteInv'
  BY <1>a
<1>2. Steady' /\ Fresh'
  BY <1>1, SteadyStep, FreshStep
<1>3. ASSUME NEW r \in Requests, NEW level \in [Urls -> Nat], NEW above \in [Urls -> SUBSET Urls],
             Running(r, level, above)'
      PROVE  Undamaged(r)' /\ FrontierIntact(r, level, above)'
  <2>1. Started \subseteq {r} /\ active' = r
    BY <1>1, <1>3, StartedStep DEF Running
  <2>2. CASE Started = {}
    BY <1>1, <2>1, <2>2, JobStarts
  <2>3. CASE r \in Started
    <3>1. active = r
      BY <1>1, <2>1, <2>3, LockHeld
    <3>2. Running(r, level, above)
      BY <1>3, <2>1, <2>3, <3>1, ReqStep DEF Running, Layered
    <3>3. Undamaged(r) /\ FrontierIntact(r, level, above)
      BY <3>2 DEF CompleteInv
    <3> QED
      BY <1>1, <2>1, <3>2, <3>3, RunningStep
  <2> QED
    BY <2>1, <2>2, <2>3
<1> QED
  BY <1>2, <1>3 DEF CompleteInv

LEMMA CompleteInit == Init => CompleteInv
<1> SUFFICES ASSUME Init PROVE CompleteInv
  OBVIOUS
<1>1. Started = {}
  BY DEF Init, JobInit, Started, Procs
<1> QED
  BY <1>1, SteadyInit, FreshInit DEF CompleteInv, Running

(***************************************************************************)
(* A stored page's links are stored, too, when nobody has anything to do:   *)
(* by induction, so is every page within the depth.                         *)
(***************************************************************************)
LEMMA QuietIsComplete ==
  ASSUME LayeredWeb, ForestInv, CompleteInv, Undisturbed
  PROVE  CompleteAtQuiescence
<1> SUFFICES ASSUME NEW r \in Requests, pc[r] = "started", active = r, Quiescent
             PROVE  \A u \in PagesWithin(req[r].url, req[r].depth) : \E p \in ingested : p.url = u
  BY DEF CompleteAtQuiescence
<1> DEFINE s == req[r].url
           d == req[r].depth
<1>1. s \in Seeds /\ d \in Depths /\ s \in Urls /\ d \in Int /\ ingested \subseteq Result
  BY WebAssumption
  DEF WebAssumption, ForestInv, TypeInv, TypeOK, JobTypeOK, ConsumerTypeOK
<1> HIDE DEF s, d
<1>2. PICK level \in [Urls -> Nat], above \in [Urls -> SUBSET Urls] : Layered(s, d, level, above)
  BY <1>1 DEF LayeredWeb
<1>3. Started = {r}
  BY DEF Started, Undisturbed
<1>4. FrontierIntact(r, level, above)
  BY <1>2, <1>3 DEF CompleteInv, Running, s, d
<1>5. \A u \in bloom : \E p \in ingested : p.url = u
  <2>1. Added = {} /\ Asked = {} /\ ResultsInFlight = {}
    BY DEF Quiescent, Added, Asked
  <2> QED
    BY <1>4, <2>1 DEF FrontierIntact, Carried, Answered
<1>6. ASSUME NEW p \in ingested, p.depth < d, NEW v \in Range(Links[p.url]) PROVE v \in bloom
  <2>1. PICK i \in DOMAIN Links[p.url] : v = Links[p.url][i]
    BY DEF Range
  <2>2. ~Pending(p, i)
    BY DEF Quiescent, Pending
  <2> QED
    BY <1>4, <1>6, <2>1, <2>2 DEF FrontierIntact, Expanded, d
<1>7. \A p \in ingested : p.depth = level[p.url] /\ p.url \in Urls
  BY <1>1, <1>4 DEF FrontierIntact, OnLevel, Result
<1> DEFINE Stored(n) == {u \in Urls : \E p \in ingested : p.url = u /\ p.depth <= n}
           T == {n \in Nat : n <= d => PagesWithin(s, n) \subseteq Stored(n)}
<1>8. 0 \in T
  <2>1. s \in bloom /\ level[s] = 0
    BY <1>2, <1>4 DEF FrontierIntact, SeedFirst, Layered, s
  <2> QED
    BY <1>1, <1>5, <1>7, <2>1, WithinLevels
<1>9. ASSUME NEW n \in T PROVE n + 1 \in T
  <2> SUFFICES ASSUME n + 1 <= d, NEW u \in PagesWithin(s, n + 1)
               PROVE  u \in Stored(n + 1)
    OBVIOUS
  <2>1. n \in Nat /\ n < d /\ n <= d
    BY <1>1
  <2>2. PagesWithin(s, n) \subseteq Stored(n)
    BY <2>1
  <2>3. u \in PagesWithin(s, n) \/ \E v \in PagesWithin(s, n) : u \in Range(Links[v])
    BY <1>1, <2>1, WithinLevels DEF LinkedFrom
  <2>4. CASE u \in PagesWithin(s, n)
    <3>1. PICK p \in ingested : p.url = u /\ p.depth <= n
      BY <2>2, <2>4
    <3>2. u \in Urls /\ p.depth \in Nat
      BY <1>1, <3>1 DEF Result
    <3> QED
      BY <2>1, <3>1, <3>2
  <2>5. ASSUME NEW v \in PagesWithin(s, n), u \in Range(Links[v]) PROVE u \in Stored(n + 1)
    <3>1. PICK p \in ingested : p.url = v /\ p.depth <= n
      BY <2>2, <2>5
    <3>2. p.depth \in Nat /\ p.depth = level[v] /\ level[v] < d /\ v \in Urls
      BY <1>1, <1>7, <2>1, <3>1 DEF Result
    <3>3. u \in bloom
      BY <1>6, <2>5, <3>1, <3>2
    <3>4. PICK q \in ingested : q.url = u
      BY <1>5, <3>3
    <3>5. level[u] <= level[v] \/ level[u] = level[v] + 1
      BY <1>2, <2>5, <3>2 DEF Layered
    <3>6. q.depth \in Nat /\ q.depth = level[u] /\ u \in Urls
      BY <1>1, <1>7, <3>4 DEF Result
    <3>7. q.depth <= n + 1
      BY <2>1, <3>1, <3>2, <3>5, <3>6
    <3> QED
      BY <3>4, <3>6, <3>7
  <2> QED
    BY <2>3, <2>4, <2>5
<1>10. T = Nat
  <2>1. T \in SUBSET Nat
    OBVIOUS
  <2> HIDE DEF T
  <2> QED
    BY <1>8, <1>9, <2>1, Induction
<1>11. \A u \in PagesWithin(s, d) : \E p \in ingested : p.url = u
  <2>1. CASE d < 0
    <3>1. PagesWithin(s, d) = {s} /\ s \in bloom
      BY <1>1, <1>4, <2>1, WithinLevels DEF FrontierIntact, SeedFirst, s
    <3> QED
      BY <1>5, <3>1
  <2>2. CASE ~(d < 0)
    <3>1. d \in Nat /\ d <= d
      BY <1>1, <2>2
    <3>2. d \in T
      BY <1>10, <3>1
    <3> QED
      BY <3>1, <3>2
  <2> QED
    BY <2>1, <2>2
<1> QED
  BY <1>11 DEF s, d

(***************************************************************************)
(* The crawl is complete: once nothing is under way and the job still      *)
(* holds its lock, every page within the requested depth has been stored   *)
(* (API_REFERENCE.md, POST /crawl), however often workers die and tasks    *)
(* are redelivered, whoever stops the job or lets it expire. It needs that *)
(* no other fault occurs, that no queue overflows and no second job starts *)
(* (Undisturbed), that the Bloom filter has no false positives, that no    *)
(* link is dropped on purpose, and a web without shortcuts (Shortcut.cfg   *)
(* shows why: a page that is reached first on a long way is not expanded   *)
(* again when it is reached on a short one).                               *)
(***************************************************************************)
THEOREM CrawlIsComplete ==
  ASSUME OnlyWorkersFail, FalsePositives = {}, DropPercent = 0, LayeredWeb
  PROVE  Spec /\ []Undisturbed => []CompleteAtQuiescence
<1>1. Init => CompleteInv
  BY CompleteInit
<1>2. ForestInv /\ CompleteInv /\ [Next]_vars /\ Undisturbed' => CompleteInv'
  BY CompleteStep
<1>3. ForestInv /\ CompleteInv /\ Undisturbed => CompleteAtQuiescence
  BY QuietIsComplete
<1>4. Spec => []ForestInv
  BY ForestInvInit, ForestInvStep, PTL DEF Spec
<1> QED
  BY <1>1, <1>2, <1>3, <1>4, PTL DEF Spec

(***************************************************************************)
(* While a single job runs, whatever workers die and keys expire: messages  *)
(* and pages carry the level of their URL, each URL in the Bloom filter is  *)
(* stored, on its way or about to be published, and each link of a stored   *)
(* page above the last level is in the filter or still to be looked at, for *)
(* every way to see the web in levels. Redelivery checks it on a diamond.   *)
(***************************************************************************)
THEOREM CrawlStaysIntact ==
  ASSUME OnlyWorkersFail, FalsePositives = {}, DropPercent = 0,
         NEW level \in [Urls -> Nat], NEW above \in [Urls -> SUBSET Urls]
  PROVE  Spec /\ []Undisturbed => []IntactOn(level, above)
<1>1. Init => CompleteInv
  BY CompleteInit
<1>2. ForestInv /\ CompleteInv /\ [Next]_vars /\ Undisturbed' => CompleteInv'
  BY CompleteStep
<1>3. CompleteInv => IntactOn(level, above)
  BY DEF CompleteInv, IntactOn, JobIntact, FrontierIntact
<1>4. Spec => []ForestInv
  BY ForestInvInit, ForestInvStep, PTL DEF Spec
<1> QED
  BY <1>1, <1>2, <1>3, <1>4, PTL DEF Spec

(* Of a single job, no more than what lies within its depth is stored. *)
LEMMA NothingMore ==
  ASSUME ForestInv, StoredWithinDepth, NEW r \in Requests, Started = {r}
  PROVE  {p.url : p \in ingested} \subseteq PagesWithin(req[r].url, req[r].depth)
<1> SUFFICES ASSUME NEW p \in ingested
             PROVE  p.url \in PagesWithin(req[r].url, req[r].depth)
  OBVIOUS
<1>1. p.job \in Launched
  BY DEF ForestInv, JobsInv
<1>2. p.job = r
  BY <1>1 DEF Launched, Started
<1> QED
  BY <1>2 DEF StoredWithinDepth

(***************************************************************************)
(* Under the same hypotheses the crawl is exact: when nothing is under way, *)
(* the stored pages are those within the requested depth, and no others.    *)
(***************************************************************************)
THEOREM CrawlIsExact ==
  ASSUME OnlyWorkersFail, FalsePositives = {}, DropPercent = 0, LayeredWeb
  PROVE  Spec /\ []Undisturbed => []ExactAtQuiescence
<1>1. ASSUME ForestInv, StoredWithinDepth, CompleteAtQuiescence
      PROVE  ExactAtQuiescence
  <2> SUFFICES ASSUME NEW r \in Launched, Started = {r}, active = r, Quiescent
               PROVE  {p.url : p \in ingested} = PagesWithin(req[r].url, req[r].depth)
    BY DEF ExactAtQuiescence
  <2>1. \A u \in PagesWithin(req[r].url, req[r].depth) : \E p \in ingested : p.url = u
    BY <1>1 DEF CompleteAtQuiescence, Launched
  <2>2. {p.url : p \in ingested} \subseteq PagesWithin(req[r].url, req[r].depth)
    BY <1>1, NothingMore DEF Launched
  <2> QED
    BY <2>1, <2>2
<1>2. Spec => []ForestInv
  BY ForestInvInit, ForestInvStep, PTL DEF Spec
<1>3. Spec /\ []Undisturbed => []CompleteAtQuiescence
  BY CrawlIsComplete
<1> QED
  BY <1>1, <1>2, <1>3, NothingBeyondTheDepth, PTL
-------------------------------------------------------------------------------
(***************************************************************************)
(* What is published is not mislaid, unless a fault loses it.               *)
(***************************************************************************)
Kept == Prefetch /\ AckedLast /\ NothingMislaid

LEMMA NoLoss ==
  ASSUME HarmlessFaults
  PROVE  ~Fault("broker") /\ ~Fault("conn") /\ ~Fault("crash") /\ ~Fault("page")
BY DEF HarmlessFaults, Fault

(* What is asked or answered stays so, and the steps that add to it do. *)
LEMMA KeptIf ==
  ASSUME Kept, Asked \cup Answered \subseteq Asked' \cup Answered', UNCHANGED req,
         Prefetch', AckedLast',
         \A r \in Launched' : r \in Launched \/ req[r].url \in Asked',
         \A u \in Urls : enqueued'[u] > 0 => enqueued[u] > 0 \/ u \in Asked'
  PROVE  Kept'
<1>1. ASSUME NEW r \in Launched' PROVE req'[r].url \in Asked' \cup Answered'
  BY <1>1 DEF Kept, NothingMislaid
<1>2. ASSUME NEW u \in Urls, enqueued'[u] > 0 PROVE u \in Asked' \cup Answered'
  BY <1>2 DEF Kept, NothingMislaid
<1> QED
  BY <1>1, <1>2 DEF Kept, NothingMislaid

(* Without a /stop nothing is purged: job control only adds the seeds. *)
LEMMA SeedsOnly ==
  ASSUME HarmlessFaults, Stops = {}, TypeInv, JobNext
  PROVE  /\ UNCHANGED results
         /\ \/ UNCHANGED tasks /\ Launched' \subseteq Launched
            \/ \E r \in Requests : Enqueue(SeedTask(r)) /\ Launched' \subseteq Launched \cup {r}
<1> USE DEF sharedVars, brokerVars, redisVars
<1>1. pc \in [Procs -> Labels] /\ Requests \subseteq Procs /\ Watchdog \in Procs /\ Watchdog \notin Requests
  BY ProcessAssumption DEF ProcessAssumption, TypeInv, TypeOK, JobTypeOK, Procs
<1>2. ASSUME NEW p \in Procs, NEW l \in Labels \ {"started"}, Goto(p, l)
      PROVE  Launched' \subseteq Launched
  BY <1>1, <1>2 DEF Goto, Launched
<1>3. ASSUME NEW r \in Requests, InsertSeed(r)
      PROVE  /\ UNCHANGED results
             /\ \/ UNCHANGED tasks /\ Launched' \subseteq Launched
                \/ Enqueue(SeedTask(r)) /\ Launched' \subseteq Launched \cup {r}
  <2>1. CASE Enqueue(SeedTask(r)) /\ Goto(r, "started")
    BY <1>1, <1>3, <2>1 DEF InsertSeed, Goto, Launched
  <2>2. CASE UNCHANGED tasks /\ Goto(r, "del")
    BY <1>1, <1>2, <1>3, <2>2 DEF InsertSeed, Labels
  <2> QED
    BY <1>3, <2>1, <2>2, NoLoss
    DEF InsertSeed, InsertMessage, InsertFails, ForceCleanupJob, Delete
<1>4. ASSUME NEW p \in Procs, DelKey(p)
      PROVE  UNCHANGED <<tasks, results>> /\ Launched' \subseteq Launched
  <2>1. \E l \in Labels \ {"started"} : Goto(p, l)
    BY <1>4 DEF DelKey, AfterDelete, Labels, Ended
  <2> QED
    BY <1>2, <1>4, <2>1 DEF DelKey
<1>5. ASSUME NEW r \in Requests, Submit(r) \/ CrawlStep(r), ~InsertSeed(r), ~DelKey(r)
      PROVE  UNCHANGED <<tasks, results>> /\ Launched' \subseteq Launched
  <2>1. \E l \in Labels \ {"started"} : Goto(r, l)
    BY <1>5
    DEF CrawlStep, Submit, CheckActive, SetActive, SetDepth, SetLast, OpenChannel, AddSeed,
        ForceCleanupJob, Delete, Labels, Ended
  <2>2. UNCHANGED <<tasks, results>>
    BY <1>5 DEF CrawlStep, Submit, CheckActive, SetActive, SetDepth, SetLast, OpenChannel, AddSeed
  <2> QED
    BY <1>1, <1>2, <2>1, <2>2
<1>6. ASSUME WatchdogStep
      PROVE  UNCHANGED <<tasks, results>> /\ Launched' \subseteq Launched
  <2>1. CASE ~DelKey(Watchdog)
    <3>1. UNCHANGED pc \/ \E l \in Labels \ {"started"} : Goto(Watchdog, l)
      BY <1>6, <2>1
      DEF WatchdogStep, WatchdogTick, InspectQueue, CheckLastActivity, ForceCleanupJob, Delete,
          Labels, Ended
    <3>2. UNCHANGED <<tasks, results>>
      BY <1>6, <2>1 DEF WatchdogStep, WatchdogTick, InspectQueue, CheckLastActivity
    <3>3. CASE UNCHANGED pc
      BY <3>2, <3>3 DEF Launched
    <3> QED
      BY <1>1, <1>2, <3>1, <3>2, <3>3
  <2> QED
    BY <1>1, <1>4, <2>1
<1>7. ASSUME TimePasses \/ JobExpires
      PROVE  UNCHANGED <<tasks, results>> /\ Launched' \subseteq Launched
  BY <1>7 DEF TimePasses, JobExpires, jobVars, Launched
<1> QED
  BY <1>1, <1>3, <1>4, <1>5, <1>6, <1>7 DEF JobNext, CrawlStep

LEMMA JobKeeps ==
  ASSUME HarmlessFaults, Stops = {}, TypeInv, Kept, NoOverflow', JobNext,
         UNCHANGED <<req, workerVars, consumerVars>>
  PROVE  Kept'
<1>1. /\ UNCHANGED results
      /\ \/ UNCHANGED tasks /\ Launched' \subseteq Launched
         \/ \E r \in Requests : Enqueue(SeedTask(r)) /\ Launched' \subseteq Launched \cup {r}
  BY SeedsOnly
<1>2. UNCHANGED Answered
  BY <1>1 DEF Answered, ResultsInFlight, HeldResults, consumerVars
<1>3. Prefetch' /\ AckedLast'
  BY <1>2 DEF Kept, Prefetch, AckedLast, workerVars
<1>4. ASSUME NEW r \in Requests, Enqueue(SeedTask(r))
      PROVE  Asked' = Asked \cup {req[r].url}
  <2>1. SeedTask(r) \in Task /\ SeedTask(r).url = req[r].url
    BY WebAssumption DEF WebAssumption, SeedTask, Task, TypeInv, TypeOK, JobTypeOK
  <2>2. TasksInFlight' = TasksInFlight \cup {SeedTask(r)}
    BY <1>4, <2>1, EnqueuedTasks DEF TasksInFlight, HeldTasks, workerVars
  <2> QED
    BY <2>1, <2>2 DEF Asked
<1>5. UNCHANGED tasks => UNCHANGED Asked
  BY DEF Asked, TasksInFlight, QueuedTasks, HeldTasks, workerVars
<1>6. Asked \cup Answered \subseteq Asked' \cup Answered'
  BY <1>1, <1>2, <1>4, <1>5
<1>7. \A r \in Launched' : r \in Launched \/ req[r].url \in Asked'
  BY <1>1, <1>4
<1> QED
  BY <1>3, <1>6, <1>7, KeptIf DEF consumerVars

LEMMA WorkerKeeps ==
  ASSUME HarmlessFaults, TypeInv, Kept, NoOverflow', WorkerNext, UNCHANGED <<jobVars, consumerVars>>
  PROVE  Kept'
<1>1. PICK w \in Workers : WorkerStep(w) \/ WorkerLost(w)
  BY NoLoss DEF WorkerNext, CrawlFails
<1>2. /\ Answered \subseteq Answered'
      /\ Asked \subseteq Asked' \cup Answered'
      /\ AckedLast' /\ Prefetch'
  BY <1>1, NoLoss, WorkerCarries, OneTask DEF Kept
<1> QED
  BY <1>2, KeptIf DEF jobVars, consumerVars, Launched

LEMMA ConsumerKeeps ==
  ASSUME HarmlessFaults, TypeInv, Kept, NoOverflow', NEW c \in Consumers, Moves(c)
  PROVE  Kept'
<1>1. UNCHANGED <<req, Launched, wpc, unacked>>
  BY DEF Moves, jobVars, workerVars, Launched
<1>2. Answered \subseteq Answered'
  BY AnsweredKept
<1>3. Prefetch' /\ AckedLast'
  BY <1>1, <1>2 DEF Kept, Prefetch, AckedLast
<1>4. CASE InsertLink(c) /\ Enqueue(LinkTask(c))
  <2>1. cpc[c] = "insert" /\ NextUrl(c) \in Urls /\ enqueued \in [Urls -> Nat]
    BY <1>4, NextUrlType, TypeInvParts DEF InsertLink, ConsumerInv, ConsumerTypeOK
  <2>2. TasksInFlight \subseteq TasksInFlight' /\ NextUrl(c) \in Asked'
    BY <1>4, <2>1, LinkSent DEF Moves
  <2>3. Asked \subseteq Asked'
    BY <2>2 DEF Asked
  <2>4. \A u \in Urls \ {NextUrl(c)} : enqueued'[u] = enqueued[u]
    BY <1>4, <2>1 DEF InsertLink
  <2> QED
    BY <1>1, <1>2, <1>3, <2>2, <2>3, <2>4, KeptIf
<1>5. CASE InsertLink(c) /\ ~Enqueue(LinkTask(c))
  <2>1. UNCHANGED <<tasks, enqueued>>
    BY <1>5, NoLoss DEF InsertLink, InsertMessage, InsertFails
  <2>2. UNCHANGED Asked
    BY <1>1, <2>1 DEF Asked, TasksInFlight, QueuedTasks, HeldTasks
  <2> QED
    BY <1>1, <1>2, <1>3, <2>1, <2>2, KeptIf
<1>6. CASE ~InsertLink(c)
  <2>1. UNCHANGED Asked
    BY <1>6, OnlyInsertLinkSends DEF Asked
  <2>2. UNCHANGED enqueued
    BY <1>6
    DEF Moves, ConsumerStep, Consume, DeliverResult, TakeResult, Touch, ReadDepth, CheckLink, AddLink,
        consumerVars
  <2> QED
    BY <1>1, <1>2, <1>3, <2>1, <2>2, KeptIf
<1> QED
  BY <1>4, <1>5, <1>6

LEMMA QuietKeeps ==
  ASSUME Kept, UNCHANGED <<tasks, results, jobVars, workerVars, consumerVars>>
  PROVE  Kept'
BY DEF Kept, Prefetch, AckedLast, NothingMislaid, Launched, Asked, Answered, TasksInFlight, QueuedTasks,
       HeldTasks, ResultsInFlight, HeldResults, jobVars, workerVars, consumerVars

LEMMA KeptStep ==
  ASSUME HarmlessFaults, Stops = {}, TypeInv, Kept, [Next]_vars, NoOverflow'
  PROVE  Kept'
<1>1. CASE JobNext /\ UNCHANGED <<workerVars, consumerVars>>
  BY <1>1, JobKeeps, ReqStep
<1>2. CASE WorkerNext /\ UNCHANGED <<jobVars, consumerVars>>
  BY <1>2, WorkerKeeps
<1>3. CASE ConsumerNext /\ UNCHANGED <<jobVars, workerVars>>
  <2>1. CASE \E c \in Consumers : DeliverResult(c) \/ ConsumerStep(c)
    BY <1>3, <2>1, ConsumerKeeps DEF Moves
  <2>2. CASE Reconnect
    BY <1>3, <2>2, QuietKeeps DEF Reconnect
  <2> QED
    BY <1>3, <2>1, <2>2, NoLoss DEF ConsumerNext, ConnLost
<1>4. CASE UNCHANGED vars
  BY <1>4, QuietKeeps DEF vars, sharedVars, brokerVars
<1> QED
  BY <1>1, <1>2, <1>3, <1>4, NoLoss DEF Next, SchedulerCrash

LEMMA KeptInit == Init => Kept
BY DEF Init, JobInit, WorkerInit, ConsumerInit, Kept, Prefetch, AckedLast, NothingMislaid, Launched, Procs

(***************************************************************************)
(* A job that was answered "job started" has its seed, and every link that  *)
(* was published its page, queued, in work, answered or stored at any time, *)
(* though workers die, Redis fails and the job's keys expire: a task leaves *)
(* its queue for good only when its result is in the next one (worker       *)
(* broker.go, processMessage).  It needs that nobody stops a job, since     *)
(* that purges the queues, and that no queue overflows.  Crashes and        *)
(* connections of the scheduler do lose results: they are acknowledged      *)
(* when they are sent (autoAck).                                            *)
(***************************************************************************)
THEOREM NothingIsMislaid ==
  ASSUME HarmlessFaults, Stops = {}
  PROVE  Spec /\ []NoOverflow => []NothingMislaid
<1>1. TypeInv /\ Kept /\ [Next]_vars /\ NoOverflow' => Kept'
  BY KeptStep
<1>2. Kept => NothingMislaid
  BY DEF Kept
<1> QED
  BY <1>1, <1>2, KeptInit, TypeCorrect, PTL DEF Spec
===============================================================================

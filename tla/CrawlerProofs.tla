----------------------------- MODULE CrawlerProofs -----------------------------
(***************************************************************************)
(* Proofs about the whole system, for every web, every deployment, every    *)
(* number of requests and every pattern of faults.                          *)
(***************************************************************************)
EXTENDS Crawler, SequenceTheorems, TLAPS

(***************************************************************************)
(* A queue keeps its type when its head is dropped.                         *)
(***************************************************************************)
LEMMA TrimType ==
  ASSUME NEW S, NEW q \in Seq(S)
  PROVE  Trim(q) \in Seq(S)
<1>1. CASE Len(q) > MaxLength
  <2>1. q # <<>>
    BY <1>1, BrokerAssumption, EmptySeq
  <2> QED
    BY <2>1, HeadTailProperties DEF Trim
<1>2. CASE ~(Len(q) > MaxLength)
  BY <1>2 DEF Trim
<1> QED
  BY <1>1, <1>2

(***************************************************************************)
(* No more links are kept than were extracted.                              *)
(***************************************************************************)
LEMMA LimitBound ==
  ASSUME NEW n \in Nat
  PROVE  Limit(n) \in Int /\ Limit(n) <= n
<1> DEFINE k == 100 - DropPercent
<1>1. k \in 0..100
  BY WebAssumption
<1> HIDE DEF k
<1>2. n * k \in Nat /\ n * k <= n * 100
  BY <1>1
<1> DEFINE m == n * k
<1>3. m \in Nat /\ m <= n * 100
  BY <1>2
<1> HIDE DEF m
<1>4. (m \div 100) \in Int /\ (m \div 100) <= n
  BY <1>3
<1> QED
  BY <1>4 DEF Limit, k, m

(***************************************************************************)
(* The queues of the task exchange keep their type under a publish.         *)
(***************************************************************************)
LEMMA EnqueueType ==
  ASSUME SharedTypeOK, NEW t \in Task, Enqueue(t)
  PROVE  tasks' \in [Range(Queues) -> Seq(Task)]
<1>1. QueueOf[t.url] \in Range(Queues)
  BY BrokerAssumption DEF Task
<1>2. Append(tasks[QueueOf[t.url]], t) \in Seq(Task)
  BY <1>1, AppendProperties DEF SharedTypeOK
<1>3. Trim(Append(tasks[QueueOf[t.url]], t)) \in Seq(Task)
  BY <1>2, TrimType
<1> QED
  BY <1>3 DEF Enqueue, SharedTypeOK

LEMMA InsertMessageType ==
  ASSUME SharedTypeOK, NEW p, NEW t \in Task, InsertMessage(p, t) \/ InsertFails(p)
  PROVE  tasks' \in [Range(Queues) -> Seq(Task)] /\ faults' \in 0..MaxFaults
<1>1. tasks' \in [Range(Queues) -> Seq(Task)]
  BY EnqueueType DEF InsertMessage, InsertFails, SharedTypeOK
<1>2. faults' \in 0..MaxFaults
  BY NullAssumption DEF InsertMessage, InsertFails, SharedTypeOK, Fault, NoFault
<1> QED
  BY <1>1, <1>2
-------------------------------------------------------------------------------
(***************************************************************************)
(* The types of the variables of job control, with HasKeys.                 *)
(***************************************************************************)
JobInv == JobTypeOK /\ HasKeys

LEMMA GotoType ==
  ASSUME JobTypeOK, NEW p, NEW l \in Labels, Goto(p, l)
  PROVE  pc' \in [Procs -> Labels]
BY DEF JobTypeOK, Goto

(* Moving to a label other than "del" asks for no keys. *)
LEMMA GotoInv ==
  ASSUME JobInv, NEW p, NEW l \in Labels \ {"del"}, Goto(p, l),
         UNCHANGED <<req, del>>, qi' \in [Procs -> 1..(Len(Queues) + 1)]
  PROVE  JobInv'
<1>1. pc' \in [Procs -> Labels]
  BY GotoType DEF JobInv
<1> QED
  BY <1>1 DEF JobInv, JobTypeOK, HasKeys, Goto

(* Delete brings its keys along. *)
LEMMA DeleteInv ==
  ASSUME JobInv, NEW p, NEW ks \in Seq(Keys), ks # <<>>, Delete(p, ks),
         UNCHANGED <<req, qi>>
  PROVE  JobInv'
<1>1. pc' \in [Procs -> Labels]
  BY GotoType DEF JobInv, Delete, Labels
<1>2. del' \in [Procs -> Seq(Keys)]
  BY DEF JobInv, JobTypeOK, Delete
<1>3. HasKeys'
  BY DEF JobInv, JobTypeOK, HasKeys, Delete, Goto
<1> QED
  BY <1>1, <1>2, <1>3 DEF JobInv, JobTypeOK

LEMMA KeySequences ==
  /\ <<"active", "depth", "last">> \in Seq(Keys) /\ <<"active", "depth", "last">> # <<>>
  /\ <<"active">> \in Seq(Keys) /\ <<"active">> # <<>>
  /\ <<"active", "depth">> \in Seq(Keys) /\ <<"active", "depth">> # <<>>
BY DEF Keys

LEMMA ForceCleanupInv ==
  ASSUME JobInv, NEW p, ForceCleanupJob(p), UNCHANGED <<req, qi>>
  PROVE  JobInv'
BY DeleteInv, KeySequences DEF ForceCleanupJob

LEMMA DelKeyInv ==
  ASSUME JobInv, NEW p \in Procs, DelKey(p)
  PROVE  JobInv'
<1>1. del[p] \in Seq(Keys) /\ del[p] # <<>>
  BY DEF JobInv, JobTypeOK, HasKeys, DelKey
<1>2. Tail(del[p]) \in Seq(Keys)
  BY <1>1, HeadTailProperties
<1>3. del' \in [Procs -> Seq(Keys)]
  BY <1>2 DEF JobInv, JobTypeOK, DelKey
<1>4. AfterDelete(p) \in Labels \ {"del"}
  BY DEF AfterDelete, Labels, Ended
<1>5. pc' \in [Procs -> Labels]
  BY <1>4, GotoType DEF JobInv, DelKey, Labels
<1>6. HasKeys'
  BY <1>4 DEF JobInv, JobTypeOK, HasKeys, DelKey, Goto
<1> QED
  BY <1>3, <1>5, <1>6 DEF JobInv, JobTypeOK, DelKey

LEMMA CrawlInv ==
  ASSUME JobInv, NEW r \in Requests, Submit(r) \/ CrawlStep(r)
  PROVE  JobInv'
<1> USE DEF Labels, Ended
<1>1. qi \in [Procs -> 1..(Len(Queues) + 1)] /\ r \in Procs
  BY DEF JobInv, JobTypeOK, Procs
<1>2. CASE Submit(r)
  BY <1>1, <1>2, GotoInv DEF Submit
<1>3. CASE CheckActive(r)
  BY <1>1, <1>3, GotoInv DEF CheckActive
<1>4. CASE SetActive(r)
  BY <1>1, <1>4, GotoInv DEF SetActive
<1>5. CASE SetDepth(r)
  BY <1>1, <1>5, GotoInv, DeleteInv, KeySequences DEF SetDepth
<1>6. CASE SetLast(r)
  BY <1>1, <1>6, GotoInv, DeleteInv, KeySequences DEF SetLast
<1>7. CASE OpenChannel(r)
  BY <1>1, <1>7, GotoInv, ForceCleanupInv DEF OpenChannel
<1>8. CASE AddSeed(r)
  BY <1>1, <1>8, GotoInv DEF AddSeed
<1>9. CASE InsertSeed(r)
  BY <1>1, <1>9, GotoInv, ForceCleanupInv DEF InsertSeed
<1>10. CASE DelKey(r)
  BY <1>1, <1>10, DelKeyInv
<1> QED
  BY <1>2, <1>3, <1>4, <1>5, <1>6, <1>7, <1>8, <1>9, <1>10 DEF CrawlStep

LEMMA StopInv ==
  ASSUME JobInv, NEW s \in Stops, StopCheck(s) \/ StopStep(s)
  PROVE  JobInv'
<1> USE DEF Labels, Ended
<1>1. qi \in [Procs -> 1..(Len(Queues) + 1)] /\ s \in Procs
  BY DEF JobInv, JobTypeOK, Procs
<1>2. Len(Queues) \in Nat
  BY BrokerAssumption
<1>3. CASE StopCheck(s)
  BY <1>1, <1>3, GotoInv, ForceCleanupInv DEF StopCheck
<1>4. CASE OpenPurge(s)
  <2>1. qi' \in [Procs -> 1..(Len(Queues) + 1)]
    BY <1>1, <1>2, <1>4 DEF OpenPurge
  <2> QED
    BY <1>4, <2>1, GotoInv DEF OpenPurge
<1>5. CASE PurgeQueue(s)
  <2>1. CASE UNCHANGED pc
    <3>1. qi' \in [Procs -> 1..(Len(Queues) + 1)]
      BY <1>1, <1>2, <1>5, <2>1 DEF PurgeQueue
    <3> QED
      BY <1>5, <2>1, <3>1 DEF PurgeQueue, JobInv, JobTypeOK, HasKeys
  <2>2. CASE Goto(s, "stopped") \/ Goto(s, "failed")
    <3>1. qi' \in [Procs -> 1..(Len(Queues) + 1)]
      BY <1>1, <1>2, <1>5 DEF PurgeQueue
    <3> QED
      BY <1>5, <2>2, <3>1, GotoInv DEF PurgeQueue
  <2> QED
    BY <1>5, <2>1, <2>2 DEF PurgeQueue
<1>6. CASE DelKey(s)
  BY <1>1, <1>6, DelKeyInv
<1> QED
  BY <1>3, <1>4, <1>5, <1>6 DEF StopStep

LEMMA WatchdogInv ==
  ASSUME JobInv, WatchdogStep
  PROVE  JobInv'
<1> USE DEF Labels, Ended
<1>1. qi \in [Procs -> 1..(Len(Queues) + 1)] /\ Watchdog \in Procs
  BY DEF JobInv, JobTypeOK, Procs
<1>2. Len(Queues) \in Nat
  BY BrokerAssumption
<1>3. CASE WatchdogTick
  <2>1. qi' \in [Procs -> 1..(Len(Queues) + 1)]
    BY <1>1, <1>2, <1>3 DEF WatchdogTick
  <2> QED
    BY <1>3, <2>1, GotoInv DEF WatchdogTick
<1>4. CASE InspectQueue
  <2>1. qi' \in [Procs -> 1..(Len(Queues) + 1)]
    BY <1>1, <1>2, <1>4 DEF InspectQueue
  <2>2. CASE UNCHANGED pc
    BY <1>4, <2>1, <2>2 DEF InspectQueue, JobInv, JobTypeOK, HasKeys
  <2>3. CASE Goto(Watchdog, "lastActivity") \/ Goto(Watchdog, "idle")
    BY <1>4, <2>1, <2>3, GotoInv DEF InspectQueue
  <2> QED
    BY <1>4, <2>2, <2>3 DEF InspectQueue
<1>5. CASE CheckLastActivity
  BY <1>1, <1>5, GotoInv, ForceCleanupInv DEF CheckLastActivity
<1>6. CASE DelKey(Watchdog)
  BY <1>1, <1>6, DelKeyInv
<1> QED
  BY <1>3, <1>4, <1>5, <1>6 DEF WatchdogStep

LEMMA JobUnchanged ==
  ASSUME JobInv, UNCHANGED jobVars
  PROVE  JobInv'
BY DEF JobInv, JobTypeOK, HasKeys, jobVars

LEMMA JobCrashInv ==
  ASSUME JobInv, JobCrash
  PROVE  JobInv'
<1>1. pc' \in [Procs -> Labels]
  BY DEF JobInv, JobTypeOK, JobCrash, Labels, Ended
<1>2. \A p \in Procs : pc'[p] # "del"
  BY DEF JobCrash, Ended
<1>3. del' \in [Procs -> Seq(Keys)]
  BY EmptySeq DEF JobCrash
<1> QED
  BY <1>1, <1>2, <1>3 DEF JobInv, JobTypeOK, HasKeys, JobCrash
-------------------------------------------------------------------------------
(***************************************************************************)
(* The types of the shared variables.                                       *)
(***************************************************************************)
SharedInv == SharedTypeOK /\ chans \subseteq Procs \cup Consumers

LEMMA FaultType ==
  ASSUME SharedTypeOK, NEW k, Fault(k) \/ NoFault
  PROVE  faults' \in 0..MaxFaults
BY NullAssumption DEF SharedTypeOK, Fault, NoFault

LEMMA DelKeyShared ==
  ASSUME SharedInv, NEW p, DelKey(p)
  PROVE  SharedInv'
BY FaultType DEF SharedInv, SharedTypeOK, DelKey, brokerVars

LEMMA CrawlShared ==
  ASSUME SharedInv, JobInv, NEW r \in Requests, Submit(r) \/ CrawlStep(r)
  PROVE  SharedInv'
<1> USE DEF SharedInv, redisVars, brokerVars
<1>1. r \in Procs /\ req[r].url \in Urls /\ req[r].depth \in Int
  BY WebAssumption DEF JobInv, JobTypeOK, Procs
<1>2. CASE Submit(r)
  BY <1>2 DEF Submit, SharedTypeOK, sharedVars
<1>3. CASE CheckActive(r)
  BY <1>3, FaultType DEF CheckActive, SharedTypeOK
<1>4. CASE SetActive(r)
  BY <1>4, FaultType DEF SetActive, SetNX, SharedTypeOK
<1>5. CASE SetDepth(r)
  BY <1>1, <1>5, FaultType DEF SetDepth, SharedTypeOK
<1>6. CASE SetLast(r)
  BY <1>6, FaultType DEF SetLast, SharedTypeOK
<1>7. CASE OpenChannel(r)
  BY <1>1, <1>7, FaultType DEF OpenChannel, Channel, ChannelFails, SharedTypeOK
<1>8. CASE AddSeed(r)
  BY <1>1, <1>8, FaultType DEF AddSeed, AddToBloom, SharedTypeOK
<1>9. CASE InsertSeed(r)
  <2>1. SeedTask(r) \in Task
    BY <1>1 DEF SeedTask, Task
  <2>2. tasks' \in [Range(Queues) -> Seq(Task)] /\ faults' \in 0..MaxFaults
    BY <1>9, <2>1, InsertMessageType DEF InsertSeed
  <2> QED
    BY <1>9, <2>2 DEF InsertSeed, Close, SharedTypeOK
<1>10. CASE DelKey(r)
  BY <1>10, DelKeyShared
<1> QED
  BY <1>2, <1>3, <1>4, <1>5, <1>6, <1>7, <1>8, <1>9, <1>10 DEF CrawlStep

LEMMA StopShared ==
  ASSUME SharedInv, JobInv, NEW s \in Stops, StopCheck(s) \/ StopStep(s)
  PROVE  SharedInv'
<1> USE DEF SharedInv, redisVars, brokerVars
<1>1. s \in Procs
  BY DEF Procs
<1>2. CASE StopCheck(s)
  BY <1>2, FaultType DEF StopCheck, SharedTypeOK
<1>3. CASE OpenPurge(s)
  BY <1>1, <1>3, FaultType DEF OpenPurge, Channel, SharedTypeOK
<1>4. CASE PurgeQueue(s)
  <2>1. tasks' \in [Range(Queues) -> Seq(Task)]
    <3>1. tasks' = tasks \/ \E q : tasks' = [tasks EXCEPT ![q] = <<>>]
      BY <1>4 DEF PurgeQueue
    <3> QED
      BY <3>1, EmptySeq DEF SharedTypeOK
  <2>2. results' \in Seq(Result)
    BY <1>4, EmptySeq DEF PurgeQueue, SharedTypeOK
  <2> QED
    BY <1>4, <2>1, <2>2, FaultType DEF PurgeQueue, Close, SharedTypeOK
<1>5. CASE DelKey(s)
  BY <1>5, DelKeyShared
<1> QED
  BY <1>2, <1>3, <1>4, <1>5 DEF StopStep

LEMMA WatchdogShared ==
  ASSUME SharedInv, WatchdogStep
  PROVE  SharedInv'
<1> USE DEF SharedInv, redisVars, brokerVars
<1>1. Watchdog \in Procs
  BY DEF Procs
<1>2. CASE WatchdogTick
  BY <1>1, <1>2 DEF WatchdogTick, Channel, SharedTypeOK
<1>3. CASE InspectQueue
  BY <1>3, FaultType DEF InspectQueue, Close, SharedTypeOK
<1>4. CASE CheckLastActivity
  BY <1>4, FaultType DEF CheckLastActivity, Close, SharedTypeOK
<1>5. CASE DelKey(Watchdog)
  BY <1>5, DelKeyShared
<1> QED
  BY <1>2, <1>3, <1>4, <1>5 DEF WatchdogStep

LEMMA JobStep ==
  ASSUME SharedInv, JobInv, JobNext
  PROVE  SharedInv' /\ JobInv'
<1>1. CASE \E r \in Requests : Submit(r) \/ CrawlStep(r)
  BY <1>1, CrawlInv, CrawlShared
<1>2. CASE \E s \in Stops : StopCheck(s) \/ StopStep(s)
  BY <1>2, StopInv, StopShared
<1>3. CASE WatchdogStep
  BY <1>3, WatchdogInv, WatchdogShared
<1>4. CASE TimePasses
  <2>1. SharedInv'
    BY <1>4 DEF TimePasses, SharedInv, SharedTypeOK, brokerVars
  <2> QED
    BY <1>4, <2>1, JobUnchanged DEF TimePasses
<1>5. CASE JobExpires
  <2>1. SharedInv'
    BY <1>5, FaultType DEF JobExpires, SharedInv, SharedTypeOK, brokerVars
  <2> QED
    BY <1>5, <2>1, JobUnchanged DEF JobExpires
<1> QED
  BY <1>1, <1>2, <1>3, <1>4, <1>5 DEF JobNext
-------------------------------------------------------------------------------
(***************************************************************************)
(* The types of the workers' variables, with HasTask.                       *)
(***************************************************************************)
WorkerInv == WorkerTypeOK /\ HasTask

LEMMA DeliverInv ==
  ASSUME SharedInv, WorkerInv, NEW w \in Workers, Deliver(w)
  PROVE  SharedInv' /\ WorkerInv'
<1> DEFINE q == WorkerQueue[w]
<1>1. q \in Range(Queues)
  BY WorkerAssumption
<1>2. tasks[q] \in Seq(Task) /\ tasks[q] # <<>>
  BY <1>1 DEF Deliver, SharedInv, SharedTypeOK
<1>3. Head(tasks[q]) \in Task /\ Tail(tasks[q]) \in Seq(Task)
  BY <1>2, HeadTailProperties
<1>4. tasks' \in [Range(Queues) -> Seq(Task)]
  BY <1>3 DEF Deliver, SharedInv, SharedTypeOK
<1>5. unacked' \in [Workers -> Seq(Task)]
  BY <1>3 DEF Deliver, WorkerInv, WorkerTypeOK
<1>6. SharedInv'
  BY <1>4 DEF Deliver, SharedInv, SharedTypeOK, redisVars
<1>7. HasTask'
  BY DEF Deliver, WorkerInv, WorkerTypeOK, HasTask
<1> QED
  BY <1>5, <1>6, <1>7 DEF Deliver, WorkerInv, WorkerTypeOK

LEMMA PublishResultInv ==
  ASSUME SharedInv, WorkerInv, NEW w \in Workers, PublishResult(w)
  PROVE  SharedInv' /\ WorkerInv'
<1>1. unacked[w] \in Seq(Task) /\ unacked[w] # <<>>
  BY DEF PublishResult, WorkerInv, WorkerTypeOK, HasTask
<1>2. ResultOf(Head(unacked[w])) \in Result
  BY <1>1, HeadTailProperties DEF ResultOf, Task, Result
<1>3. Append(results, ResultOf(Head(unacked[w]))) \in Seq(Result)
  BY <1>2, AppendProperties DEF SharedInv, SharedTypeOK
<1>4. results' \in Seq(Result)
  BY <1>3, TrimType DEF PublishResult, SharedInv, SharedTypeOK
<1>5. SharedInv'
  BY <1>4, FaultType DEF PublishResult, SharedInv, SharedTypeOK, redisVars
<1>6. WorkerInv'
  BY DEF PublishResult, WorkerInv, WorkerTypeOK, HasTask
<1> QED
  BY <1>5, <1>6

LEMMA WorkerLostInv ==
  ASSUME SharedInv, WorkerInv, NEW w \in Workers, WorkerLost(w)
  PROVE  SharedInv' /\ WorkerInv'
<1> DEFINE q == WorkerQueue[w]
<1>1. q \in Range(Queues)
  BY WorkerAssumption
<1>2. tasks[q] \in Seq(Task) /\ unacked[w] \in Seq(Task)
  BY <1>1 DEF SharedInv, SharedTypeOK, WorkerInv, WorkerTypeOK
<1>3. Trim(unacked[w] \o tasks[q]) \in Seq(Task)
  BY <1>2, ConcatProperties, TrimType
<1>4. tasks' \in [Range(Queues) -> Seq(Task)]
  BY <1>3 DEF WorkerLost, Requeue, SharedInv, SharedTypeOK
<1>5. SharedInv'
  BY <1>4, FaultType DEF WorkerLost, Requeue, SharedInv, SharedTypeOK, redisVars
<1>6. unacked' \in [Workers -> Seq(Task)]
  BY EmptySeq DEF WorkerLost, Requeue, WorkerInv, WorkerTypeOK
<1>7. HasTask'
  BY DEF WorkerLost, Requeue, WorkerInv, WorkerTypeOK, HasTask
<1> QED
  BY <1>5, <1>6, <1>7 DEF WorkerLost, Requeue, WorkerInv, WorkerTypeOK

LEMMA WorkerStepInv ==
  ASSUME SharedInv, WorkerInv, WorkerNext
  PROVE  SharedInv' /\ WorkerInv'
<1> SUFFICES ASSUME NEW w \in Workers, WorkerStep(w) \/ CrawlFails(w) \/ WorkerLost(w)
             PROVE  SharedInv' /\ WorkerInv'
  BY DEF WorkerNext
<1>1. CASE Deliver(w)
  BY <1>1, DeliverInv
<1>2. CASE PublishResult(w)
  BY <1>2, PublishResultInv
<1>3. CASE Ack(w)
  <2>1. unacked' \in [Workers -> Seq(Task)]
    BY <1>3, EmptySeq DEF Ack, WorkerInv, WorkerTypeOK
  <2>2. SharedInv'
    BY <1>3 DEF Ack, SharedInv, SharedTypeOK, sharedVars, redisVars, brokerVars
  <2> QED
    BY <1>3, <2>1, <2>2 DEF Ack, WorkerInv, WorkerTypeOK, HasTask
<1>4. CASE CrawlFails(w)
  <2>1. SharedInv'
    BY <1>4, FaultType DEF CrawlFails, SharedInv, SharedTypeOK, redisVars, brokerVars
  <2> QED
    BY <1>4, <2>1 DEF CrawlFails, WorkerInv, WorkerTypeOK, HasTask
<1>5. CASE WorkerLost(w)
  BY <1>5, WorkerLostInv
<1> QED
  BY <1>1, <1>2, <1>3, <1>4, <1>5 DEF WorkerStep
-------------------------------------------------------------------------------
(***************************************************************************)
(* The types of the consumers' variables, with HasResult and HasLink.       *)
(***************************************************************************)
ConsumerInv == ConsumerTypeOK /\ HasResult /\ HasLink

LEMMA ConsumerUnchanged ==
  ASSUME ConsumerInv, UNCHANGED consumerVars
  PROVE  ConsumerInv'
BY DEF ConsumerInv, ConsumerTypeOK, HasResult, HasLink, consumerVars

(* The result of a consumer in its loop, and how many links it keeps. *)
LEMMA LoopType ==
  ASSUME ConsumerInv, NEW c \in Consumers, cpc[c] # "idle"
  PROVE  /\ cur[c] \in Result
         /\ Links[cur[c].url] \in Seq(Urls)
         /\ Limit(Len(Links[cur[c].url])) \in Int
         /\ Limit(Len(Links[cur[c].url])) <= Len(Links[cur[c].url])
<1>1. cur[c] \in Result
  BY DEF ConsumerInv, ConsumerTypeOK, HasResult
<1>2. Links[cur[c].url] \in Seq(Urls)
  BY <1>1, WebAssumption DEF Result
<1>3. Len(Links[cur[c].url]) \in Nat
  BY <1>2
<1> QED
  BY <1>1, <1>2, <1>3, LimitBound

(* The link that a consumer adds and publishes is one of its page. *)
LEMMA NextUrlType ==
  ASSUME ConsumerInv, NEW c \in Consumers, cpc[c] \in {"add", "insert"}
  PROVE  /\ NextUrl(c) \in Urls
         /\ NextUrl(c) \in Range(Links[cur[c].url])
         /\ LinkTask(c) \in Task
<1>1. /\ cur[c] \in Result
      /\ Links[cur[c].url] \in Seq(Urls)
      /\ Limit(Len(Links[cur[c].url])) \in Int
      /\ Limit(Len(Links[cur[c].url])) <= Len(Links[cur[c].url])
  BY LoopType
<1>2. link[c] \in 1..Len(Links[cur[c].url])
  BY <1>1 DEF ConsumerInv, ConsumerTypeOK, HasLink
<1>3. NextUrl(c) \in Urls
  BY <1>1, <1>2, ElementOfSeq DEF NextUrl
<1>4. NextUrl(c) \in Range(Links[cur[c].url])
  BY <1>1, <1>2 DEF NextUrl, Range
<1>5. LinkTask(c) \in Task
  BY <1>1, <1>3 DEF LinkTask, Task, Result, ConsumerInv, ConsumerTypeOK
<1> QED
  BY <1>3, <1>4, <1>5

(* Finish leaves nothing to have, Advance keeps what there is. *)
LEMMA FinishInv ==
  ASSUME ConsumerInv, NEW c \in Consumers, Finish(c), UNCHANGED <<inbox, ingested, enqueued>>
  PROVE  ConsumerInv'
BY DEF ConsumerInv, ConsumerTypeOK, ConsumerLabels, HasResult, HasLink, Finish

LEMMA AdvanceInv ==
  ASSUME ConsumerInv, NEW c \in Consumers, cpc[c] \in {"exists", "insert"}, Advance(c),
         UNCHANGED <<inbox, ingested>>, enqueued' \in [Urls -> Nat]
  PROVE  ConsumerInv'
BY DEF ConsumerInv, ConsumerTypeOK, ConsumerLabels, HasResult, HasLink, Advance

LEMMA ReceiveInv ==
  ASSUME SharedInv, ConsumerInv, NEW c \in Consumers,
         Consume(c) \/ DeliverResult(c) \/ TakeResult(c) \/ Touch(c)
  PROVE  SharedInv' /\ ConsumerInv'
<1> USE DEF redisVars, brokerVars
<1>1. CASE Consume(c)
  <2>1. SharedInv'
    BY <1>1 DEF Consume, Channel, SharedInv, SharedTypeOK
  <2> QED
    BY <1>1, <2>1, ConsumerUnchanged DEF Consume
<1>2. CASE DeliverResult(c)
  <2>1. Head(results) \in Result /\ Tail(results) \in Seq(Result)
    BY <1>2, HeadTailProperties DEF DeliverResult, SharedInv, SharedTypeOK
  <2>2. SharedInv'
    BY <1>2, <2>1 DEF DeliverResult, SharedInv, SharedTypeOK
  <2>3. Append(inbox[c], Head(results)) \in Seq(Result)
    BY <2>1, AppendProperties DEF ConsumerInv, ConsumerTypeOK
  <2>4. inbox' \in [Consumers -> Seq(Result)]
    BY <1>2, <2>3 DEF DeliverResult, ConsumerInv, ConsumerTypeOK
  <2> QED
    BY <1>2, <2>2, <2>4
    DEF DeliverResult, ConsumerInv, ConsumerTypeOK, HasResult, HasLink
<1>3. CASE TakeResult(c)
  <2>1. inbox[c] \in Seq(Result) /\ inbox[c] # <<>>
    BY <1>3 DEF TakeResult, ConsumerInv, ConsumerTypeOK
  <2>2. Head(inbox[c]) \in Result /\ Tail(inbox[c]) \in Seq(Result)
    BY <2>1, HeadTailProperties
  <2>3. ConsumerTypeOK'
    BY <1>3, <2>2 DEF TakeResult, ConsumerInv, ConsumerTypeOK, ConsumerLabels
  <2>4. HasResult' /\ HasLink'
    BY <1>3, <2>2, ConsumerAssumption
    DEF TakeResult, ConsumerInv, ConsumerTypeOK, HasResult, HasLink
  <2>5. SharedInv'
    BY <1>3 DEF TakeResult, SharedInv, SharedTypeOK, sharedVars
  <2> QED
    BY <2>3, <2>4, <2>5 DEF ConsumerInv
<1>4. CASE Touch(c)
  <2>1. SharedInv'
    BY <1>4, FaultType DEF Touch, SharedInv, SharedTypeOK
  <2> QED
    BY <1>4, <2>1
    DEF Touch, ConsumerInv, ConsumerTypeOK, ConsumerLabels, HasResult, HasLink
<1> QED
  BY <1>1, <1>2, <1>3, <1>4

LEMMA FollowInv ==
  ASSUME SharedInv, ConsumerInv, NEW c \in Consumers,
         ReadDepth(c) \/ CheckLink(c) \/ AddLink(c) \/ InsertLink(c)
  PROVE  SharedInv' /\ ConsumerInv'
<1> USE DEF redisVars, brokerVars
<1>1. CASE ReadDepth(c)
  <2>1. SharedInv'
    BY <1>1, FaultType DEF ReadDepth, SharedInv, SharedTypeOK
  <2>2. cur[c] \in Result /\ cur[c].depth \in Int /\ MaxDepthFor(c) \in Int
    BY <1>1, LoopType DEF ReadDepth, MaxDepthFor, Result, SharedInv, SharedTypeOK
  <2>3. ASSUME NEW max \in Int, FollowLinks(c, max)
        PROVE  ConsumerInv'
    <3>1. CASE ~Descends(cur[c].depth, max)
      BY <1>1, <2>3, <3>1, FinishInv DEF ReadDepth, FollowLinks
    <3>2. CASE Descends(cur[c].depth, max)
      <4>1. /\ cpc' = [cpc EXCEPT ![c] = "exists"]
            /\ cmax' = [cmax EXCEPT ![c] = max]
            /\ link' = [link EXCEPT ![c] = 1]
            /\ UNCHANGED <<cur, inbox, ingested, enqueued>>
        BY <1>1, <2>3, <3>2 DEF ReadDepth, FollowLinks
      <4>2. cpc[c] = "depth"
        BY <1>1 DEF ReadDepth
      <4> QED
        BY <2>3, <4>1, <4>2
        DEF ConsumerInv, ConsumerTypeOK, ConsumerLabels, HasResult, HasLink
    <3> QED
      BY <3>1, <3>2
  <2> QED
    BY <1>1, <2>1, <2>2, <2>3 DEF ReadDepth
<1>2. CASE CheckLink(c)
  <2>1. SharedInv'
    BY <1>2, FaultType DEF CheckLink, SharedInv, SharedTypeOK
  <2>2. CASE Finish(c)
    BY <1>2, <2>1, <2>2, FinishInv DEF CheckLink
  <2>3. CASE Advance(c)
    BY <1>2, <2>1, <2>3, AdvanceInv DEF CheckLink, ConsumerInv, ConsumerTypeOK
  <2>4. CASE /\ link[c] <= Limit(Len(Links[cur[c].url]))
             /\ cpc' = [cpc EXCEPT ![c] = "add"]
             /\ UNCHANGED <<cur, cmax, link>>
    BY <1>2, <2>1, <2>4
    DEF CheckLink, ConsumerInv, ConsumerTypeOK, ConsumerLabels, HasResult, HasLink
  <2> QED
    BY <1>2, <2>1, <2>2, <2>3, <2>4 DEF CheckLink
<1>3. CASE AddLink(c)
  <2>1. NextUrl(c) \in Urls
    BY <1>3, NextUrlType DEF AddLink
  <2>2. SharedInv'
    BY <1>3, <2>1, FaultType DEF AddLink, AddToBloom, SharedInv, SharedTypeOK
  <2> QED
    BY <1>3, <2>2
    DEF AddLink, ConsumerInv, ConsumerTypeOK, ConsumerLabels, HasResult, HasLink
<1>4. CASE InsertLink(c)
  <2>1. NextUrl(c) \in Urls /\ LinkTask(c) \in Task
    BY <1>4, NextUrlType DEF InsertLink
  <2>2. tasks' \in [Range(Queues) -> Seq(Task)] /\ faults' \in 0..MaxFaults
    BY <1>4, <2>1, InsertMessageType DEF InsertLink, SharedInv
  <2>3. SharedInv'
    BY <1>4, <2>2 DEF InsertLink, SharedInv, SharedTypeOK
  <2>4. enqueued' \in [Urls -> Nat]
    BY <1>4, <2>1 DEF InsertLink, ConsumerInv, ConsumerTypeOK
  <2> QED
    BY <1>4, <2>3, <2>4, AdvanceInv DEF InsertLink
<1> QED
  BY <1>1, <1>2, <1>3, <1>4

LEMMA ConsumerStepInv ==
  ASSUME SharedInv, ConsumerInv, ConsumerNext
  PROVE  SharedInv' /\ ConsumerInv'
<1>1. CASE \E c \in Consumers : DeliverResult(c) \/ ConsumerStep(c)
  BY <1>1, ReceiveInv, FollowInv DEF ConsumerStep
<1>2. CASE ConnLost
  <2>1. SharedInv'
    BY <1>2, FaultType DEF ConnLost, SharedInv, SharedTypeOK, redisVars
  <2>2. inbox' \in [Consumers -> Seq(Result)]
    BY <1>2, EmptySeq DEF ConnLost
  <2> QED
    BY <1>2, <2>1, <2>2 DEF ConnLost, ConsumerInv, ConsumerTypeOK, HasResult, HasLink
<1>3. CASE Reconnect
  <2>1. SharedInv'
    BY <1>3 DEF Reconnect, SharedInv, SharedTypeOK, redisVars
  <2> QED
    BY <1>3, <2>1, ConsumerUnchanged DEF Reconnect
<1> QED
  BY <1>1, <1>2, <1>3 DEF ConsumerNext

LEMMA ConsumerCrashInv ==
  ASSUME ConsumerInv, ConsumerCrash
  PROVE  ConsumerInv'
<1>1. inbox' \in [Consumers -> Seq(Result)]
  BY EmptySeq DEF ConsumerCrash
<1> QED
  BY <1>1 DEF ConsumerCrash, ConsumerInv, ConsumerTypeOK, ConsumerLabels, HasResult, HasLink
-------------------------------------------------------------------------------
LEMMA TypeInvParts == TypeInv <=> SharedInv /\ JobInv /\ WorkerInv /\ ConsumerInv
BY DEF TypeInv, TypeOK, SharedInv, JobInv, WorkerInv, ConsumerInv

LEMMA TypeInit == Init => TypeInv
<1> SUFFICES ASSUME Init PROVE TypeInv
  OBVIOUS
<1> USE DEF Init
<1>1. SharedInv
  BY EmptySeq, NullAssumption DEF SharedInit, SharedInv, SharedTypeOK
<1>2. JobInv
  <2>1. del \in [Procs -> Seq(Keys)]
    BY EmptySeq DEF JobInit
  <2>2. qi \in [Procs -> 1..(Len(Queues) + 1)]
    BY BrokerAssumption DEF JobInit
  <2> QED
    BY <2>1, <2>2 DEF JobInit, JobInv, JobTypeOK, HasKeys, Labels
<1>3. WorkerInv
  BY EmptySeq DEF WorkerInit, WorkerInv, WorkerTypeOK, HasTask
<1>4. ConsumerInv
  <2>1. inbox \in [Consumers -> Seq(Result)]
    BY EmptySeq DEF ConsumerInit
  <2> QED
    BY <2>1 DEF ConsumerInit, ConsumerInv, ConsumerTypeOK, ConsumerLabels, HasResult, HasLink
<1> QED
  BY <1>1, <1>2, <1>3, <1>4, TypeInvParts

LEMMA TypeStep == TypeInv /\ [Next]_vars => TypeInv'
<1> SUFFICES ASSUME SharedInv, JobInv, WorkerInv, ConsumerInv, [Next]_vars
             PROVE  SharedInv' /\ JobInv' /\ WorkerInv' /\ ConsumerInv'
  BY TypeInvParts, PTL
<1>1. ASSUME UNCHANGED workerVars PROVE WorkerInv'
  BY <1>1 DEF WorkerInv, WorkerTypeOK, HasTask, workerVars
<1>2. CASE JobNext /\ UNCHANGED <<workerVars, consumerVars>>
  BY <1>1, <1>2, JobStep, ConsumerUnchanged
<1>3. CASE WorkerNext /\ UNCHANGED <<jobVars, consumerVars>>
  BY <1>3, WorkerStepInv, JobUnchanged, ConsumerUnchanged
<1>4. CASE ConsumerNext /\ UNCHANGED <<jobVars, workerVars>>
  BY <1>1, <1>4, ConsumerStepInv, JobUnchanged
<1>5. CASE SchedulerCrash
  <2>1. SharedInv'
    BY <1>5, FaultType DEF SchedulerCrash, SharedInv, SharedTypeOK, redisVars
  <2> QED
    BY <1>1, <1>5, <2>1, JobCrashInv, ConsumerCrashInv DEF SchedulerCrash
<1>6. CASE UNCHANGED vars
  <2>1. SharedInv'
    BY <1>6 DEF vars, sharedVars, redisVars, brokerVars, SharedInv, SharedTypeOK
  <2> QED
    BY <1>1, <1>6, <2>1, JobUnchanged, ConsumerUnchanged DEF vars
<1> QED
  BY <1>2, <1>3, <1>4, <1>5, <1>6 DEF Next

(***************************************************************************)
(* The program never leaves its types: in particular no Head, Tail or       *)
(* NextUrls[i] is taken out of range, whatever fails.                       *)
(***************************************************************************)
THEOREM TypeCorrect == Spec => []TypeInv
BY TypeInit, TypeStep, PTL DEF Spec
-------------------------------------------------------------------------------
(***************************************************************************)
(* What the steps of one component leave alone in the others.               *)
(***************************************************************************)
LEMMA WorkerFrame ==
  ASSUME WorkerNext
  PROVE  UNCHANGED <<redisVars, connected, chans>>
BY DEF WorkerNext, WorkerStep, Deliver, PublishResult, Ack, CrawlFails, WorkerLost, Requeue,
       sharedVars, redisVars, brokerVars

LEMMA ConsumerFrame ==
  ASSUME ConsumerNext
  PROVE  UNCHANGED <<active, maxDepth>>
BY DEF ConsumerNext, ConsumerStep, Consume, DeliverResult, TakeResult, Touch, ReadDepth,
       CheckLink, AddLink, InsertLink, ConnLost, Reconnect, sharedVars, redisVars

(* The lock changes only by SETNX, DEL and expiry. *)
LEMMA LockFrame ==
  ASSUME JobNext
  PROVE  \/ UNCHANGED active
         \/ active' = NoJob
         \/ \E r \in Requests : SetActive(r)
<1> USE DEF sharedVars, redisVars, brokerVars
<1>1. CASE \E r \in Requests : Submit(r) \/ CrawlStep(r)
  BY <1>1 DEF CrawlStep, Submit, CheckActive, SetDepth, SetLast, OpenChannel, AddSeed,
              InsertSeed, DelKey
<1>2. CASE \E s \in Stops : StopCheck(s) \/ StopStep(s)
  BY <1>2 DEF StopStep, StopCheck, OpenPurge, PurgeQueue, DelKey
<1>3. CASE WatchdogStep
  BY <1>3 DEF WatchdogStep, WatchdogTick, InspectQueue, CheckLastActivity, DelKey
<1>4. CASE TimePasses \/ JobExpires
  BY <1>4 DEF TimePasses, JobExpires
<1> QED
  BY <1>1, <1>2, <1>3, <1>4 DEF JobNext

(***************************************************************************)
(* SETNX is the only way to take the lock, and it does not take it away     *)
(* from another request (db/redis.go, StartJob).                            *)
(***************************************************************************)
THEOREM LockExclusive == Spec => LockNeverStolen
<1>1. ASSUME [Next]_vars PROVE active # NoJob => active' \in {active, NoJob}
  <2>1. CASE JobNext
    BY <2>1, LockFrame DEF SetActive, SetNX
  <2>2. CASE WorkerNext \/ ConsumerNext
    BY <2>2, WorkerFrame, ConsumerFrame DEF redisVars
  <2>3. CASE SchedulerCrash \/ UNCHANGED vars
    BY <2>3 DEF SchedulerCrash, vars, sharedVars, redisVars
  <2> QED
    BY <1>1, <2>1, <2>2, <2>3 DEF Next
<1> QED
  BY <1>1, PTL DEF Spec, LockNeverStolen
-------------------------------------------------------------------------------
LEMMA LockInit == Init => LockInv
BY NullAssumption DEF Init, SharedInit, LockInv

(* LockInv depends on the lock and on where the requests are. *)
LEMMA LockUnchanged ==
  ASSUME LockInv, active' \in {active, NoJob},
         \A r \in Requests : pc'[r] = pc[r] /\ del'[r] = del[r]
  PROVE  LockInv'
BY NullAssumption DEF LockInv

(* Another goroutine moves, and does not take the lock. *)
LEMMA LockOther ==
  ASSUME TypeInv, LockInv, active' \in {active, NoJob},
         NEW p \in Procs \ Requests, NEW l, NEW ks,
         pc' = [pc EXCEPT ![p] = l] \/ UNCHANGED pc,
         del' = [del EXCEPT ![p] = ks] \/ UNCHANGED del
  PROVE  LockInv'
<1>1. \A r \in Requests : pc'[r] = pc[r] /\ del'[r] = del[r]
  BY DEF TypeInv, TypeOK, JobTypeOK, Procs
<1> QED
  BY <1>1, LockUnchanged

(* A request that does not delete moves to where it may hold the lock. *)
LEMMA LockGoto ==
  ASSUME TypeInv, LockInv, NEW r \in Requests, NEW l, Goto(r, l), UNCHANGED del,
         \/ /\ active' \in {active, r}
            /\ l \in {"setDepth", "setLast", "open", "addSeed", "insert", "started"}
         \/ active' = active /\ active # r
  PROVE  LockInv'
BY DEF LockInv, Goto, TypeInv, TypeOK, JobTypeOK, Procs

(* Its deletion starts with the lock. *)
LEMMA LockCleanup ==
  ASSUME TypeInv, LockInv, NEW r \in Requests, ForceCleanupJob(r), UNCHANGED active
  PROVE  LockInv'
<1>1. r \in Procs /\ Head(<<"active", "depth", "last">>) = "active"
  BY DEF Procs
<1> QED
  BY <1>1 DEF LockInv, ForceCleanupJob, Delete, Goto, TypeInv, TypeOK, JobTypeOK

LEMMA LockDelKey ==
  ASSUME TypeInv, LockInv, NEW p \in Procs, DelKey(p)
  PROVE  LockInv'
<1>1. active' \in {active, NoJob}
  BY DEF DelKey
<1>2. CASE p \notin Requests
  BY <1>1, <1>2, LockOther DEF DelKey, Goto
<1>3. CASE p \in Requests
  <2> SUFFICES ASSUME "redis" \notin FaultKinds, NEW r \in Requests, active' = r
               PROVE  \/ pc'[r] \in {"setDepth", "setLast", "open", "addSeed", "insert",
                                     "started", "crashed"}
                      \/ pc'[r] = "del" /\ Head(del'[r]) = "active"
    BY DEF LockInv
  <2>1. active = r
    BY <1>1, NullAssumption
  <2>2. p # r
    BY <2>1, NullAssumption DEF LockInv, DelKey, Fault
  <2>3. pc'[r] = pc[r] /\ del'[r] = del[r]
    BY <2>2 DEF DelKey, Goto, TypeInv, TypeOK, JobTypeOK, Procs
  <2> QED
    BY <2>1, <2>3 DEF LockInv
<1> QED
  BY <1>2, <1>3

LEMMA LockCrawl ==
  ASSUME TypeInv, LockInv, NEW r \in Requests, Submit(r) \/ CrawlStep(r)
  PROVE  LockInv'
<1> SUFFICES ASSUME "redis" \notin FaultKinds PROVE LockInv'
  BY DEF LockInv
<1> USE DEF redisVars
<1>1. pc[r] \in {"idle", "check", "setActive"} => active # r
  BY DEF LockInv
<1>2. CASE Submit(r)
  BY <1>1, <1>2, LockGoto DEF Submit, sharedVars
<1>3. CASE CheckActive(r)
  <2>1. \E l : Goto(r, l)
    BY <1>3 DEF CheckActive
  <2> QED
    BY <1>1, <1>3, <2>1, LockGoto DEF CheckActive
<1>4. CASE SetActive(r)
  <2>1. CASE active = NoJob
    BY <1>4, <2>1, LockGoto DEF SetActive, SetNX, Fault
  <2>2. CASE active # NoJob
    BY <1>1, <1>4, <2>2, LockGoto DEF SetActive, SetNX, Fault
  <2> QED
    BY <2>1, <2>2
<1>5. CASE SetDepth(r)
  BY <1>5, LockGoto DEF SetDepth, Fault
<1>6. CASE SetLast(r)
  BY <1>6, LockGoto DEF SetLast, Fault
<1>7. CASE OpenChannel(r)
  BY <1>7, LockGoto, LockCleanup DEF OpenChannel
<1>8. CASE AddSeed(r)
  BY <1>8, LockGoto DEF AddSeed
<1>9. CASE InsertSeed(r)
  BY <1>9, LockGoto, LockCleanup DEF InsertSeed
<1>10. CASE DelKey(r)
  BY <1>10, LockDelKey DEF Procs
<1> QED
  BY <1>2, <1>3, <1>4, <1>5, <1>6, <1>7, <1>8, <1>9, <1>10 DEF CrawlStep

LEMMA LockStep ==
  ASSUME TypeInv, LockInv, [Next]_vars
  PROVE  LockInv'
<1> USE DEF redisVars, jobVars
<1>1. CASE JobNext
  <2>1. CASE \E r \in Requests : Submit(r) \/ CrawlStep(r)
    BY <2>1, LockCrawl
  <2>2. ASSUME NEW s \in Stops, StopCheck(s) \/ StopStep(s)
        PROVE  LockInv'
    <3>1. s \in Procs \ Requests
      BY ProcessAssumption DEF Procs
    <3>2. CASE DelKey(s)
      BY <3>1, <3>2, LockDelKey
    <3>3. CASE StopCheck(s)
      BY <3>1, <3>3, LockOther DEF StopCheck, ForceCleanupJob, Delete, Goto
    <3>4. CASE OpenPurge(s)
      BY <3>1, <3>4, LockOther DEF OpenPurge, Goto
    <3>5. CASE PurgeQueue(s)
      BY <3>1, <3>5, LockOther DEF PurgeQueue, Goto
    <3> QED
      BY <2>2, <3>2, <3>3, <3>4, <3>5 DEF StopStep
  <2>3. CASE WatchdogStep
    <3>1. Watchdog \in Procs \ Requests
      BY ProcessAssumption DEF Procs
    <3>2. CASE DelKey(Watchdog)
      BY <3>1, <3>2, LockDelKey
    <3>3. CASE WatchdogTick
      BY <3>1, <3>3, LockOther DEF WatchdogTick, Goto
    <3>4. CASE InspectQueue
      BY <3>1, <3>4, LockOther DEF InspectQueue, Goto
    <3>5. CASE CheckLastActivity
      BY <3>1, <3>5, LockOther DEF CheckLastActivity, ForceCleanupJob, Delete, Goto
    <3> QED
      BY <2>3, <3>2, <3>3, <3>4, <3>5 DEF WatchdogStep
  <2>4. CASE TimePasses \/ JobExpires
    BY <2>4, LockUnchanged DEF TimePasses, JobExpires
  <2> QED
    BY <1>1, <2>1, <2>2, <2>3, <2>4 DEF JobNext
<1>2. CASE (WorkerNext \/ ConsumerNext) /\ UNCHANGED jobVars
  BY <1>2, WorkerFrame, ConsumerFrame, LockUnchanged
<1>3. CASE SchedulerCrash
  <2>1. \A r \in Requests :
          \/ pc'[r] = pc[r] /\ pc[r] # "del"
          \/ pc'[r] = "crashed"
    BY <1>3, ProcessAssumption DEF SchedulerCrash, JobCrash, Procs, Ended
  <2> QED
    BY <1>3, <2>1 DEF SchedulerCrash, LockInv
<1>4. CASE UNCHANGED vars
  BY <1>4, LockUnchanged DEF vars, sharedVars
<1> QED
  BY <1>1, <1>2, <1>3, <1>4 DEF Next

(***************************************************************************)
(* A /crawl request that was answered with an error does not hold the lock, *)
(* if Redis answers (handlers/crawl.go, MakeHandleCrawl).                   *)
(***************************************************************************)
THEOREM FailedCrawlReleases == Spec => []FailedCrawlLeavesNoLock
<1>1. TypeInv /\ LockInv /\ [Next]_vars => LockInv'
  BY LockStep
<1>2. LockInv => FailedCrawlLeavesNoLock
  BY DEF LockInv, FailedCrawlLeavesNoLock
<1> QED
  BY <1>1, <1>2, LockInit, TypeCorrect, PTL DEF Spec
===============================================================================

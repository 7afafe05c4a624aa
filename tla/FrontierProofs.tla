---------------------------- MODULE FrontierProofs ----------------------------
(***************************************************************************)
(* Proofs about the crawl frontier: where tasks come from, how deep they    *)
(* are, and how often a URL is published.                                   *)
(***************************************************************************)
EXTENDS CrawlerProofs, FiniteSetTheorems

(***************************************************************************)
(* The elements of a sequence after the operations of a queue.              *)
(***************************************************************************)
LEMMA RangeTail ==
  ASSUME NEW S, NEW q \in Seq(S), q # <<>>
  PROVE  Head(q) \in Range(q) /\ Range(Tail(q)) \subseteq Range(q)
<1>1. Len(q) \in Nat \ {0}
  BY EmptySeq
<1>2. Head(q) = q[1] /\ 1 \in DOMAIN q
  BY <1>1
<1>3. ASSUME NEW i \in DOMAIN Tail(q) PROVE Tail(q)[i] \in Range(q)
  <2>1. i \in 1..(Len(q) - 1) /\ Tail(q)[i] = q[i + 1]
    BY <1>1, <1>3, HeadTailProperties
  <2>2. i + 1 \in DOMAIN q
    BY <1>1, <2>1
  <2> QED
    BY <2>1, <2>2 DEF Range
<1> QED
  BY <1>2, <1>3 DEF Range

LEMMA RangeTrim ==
  ASSUME NEW S, NEW q \in Seq(S)
  PROVE  Range(Trim(q)) \subseteq Range(q)
<1>1. CASE Len(q) > MaxLength
  <2>1. q # <<>>
    BY <1>1, BrokerAssumption, EmptySeq
  <2> QED
    BY <2>1, RangeTail DEF Trim
<1>2. CASE ~(Len(q) > MaxLength)
  BY <1>2 DEF Trim
<1> QED
  BY <1>1, <1>2

LEMMA RangeAppend ==
  ASSUME NEW S, NEW q \in Seq(S), NEW e \in S
  PROVE  Range(Append(q, e)) \subseteq Range(q) \cup {e}
<1>1. ASSUME NEW i \in DOMAIN Append(q, e) PROVE Append(q, e)[i] \in Range(q) \cup {e}
  <2>1. i \in 1..(Len(q) + 1) /\ Len(q) \in Nat
    BY <1>1, AppendProperties
  <2>2. CASE i = Len(q) + 1
    BY <2>2, AppendProperties
  <2>3. CASE i # Len(q) + 1
    <3>1. i \in 1..Len(q)
      BY <2>1, <2>3
    <3>2. Append(q, e)[i] = q[i] /\ i \in DOMAIN q
      BY <3>1, AppendProperties
    <3> QED
      BY <3>2 DEF Range
  <2> QED
    BY <2>2, <2>3
<1> QED
  BY <1>1 DEF Range

LEMMA RangeConcat ==
  ASSUME NEW S, NEW p \in Seq(S), NEW q \in Seq(S)
  PROVE  Range(p \o q) \subseteq Range(p) \cup Range(q)
<1>1. ASSUME NEW i \in DOMAIN (p \o q) PROVE (p \o q)[i] \in Range(p) \cup Range(q)
  <2>1. i \in 1..(Len(p) + Len(q)) /\ Len(p) \in Nat /\ Len(q) \in Nat
    BY <1>1, ConcatProperties
  <2>2. CASE i <= Len(p)
    <3>1. (p \o q)[i] = p[i] /\ i \in DOMAIN p
      BY <2>1, <2>2, ConcatProperties
    <3> QED
      BY <3>1 DEF Range
  <2>3. CASE ~(i <= Len(p))
    <3>1. (p \o q)[i] = q[i - Len(p)] /\ i - Len(p) \in DOMAIN q
      BY <2>1, <2>3, ConcatProperties
    <3> QED
      BY <3>1 DEF Range
  <2> QED
    BY <2>2, <2>3
<1> QED
  BY <1>1 DEF Range

LEMMA RangeEmpty == Range(<<>>) = {}
BY DEF Range
-------------------------------------------------------------------------------
(***************************************************************************)
(* Which tasks and results a step can bring about.                          *)
(***************************************************************************)
LEMMA EnqueueTasks ==
  ASSUME TypeInv, NEW t \in Task, Enqueue(t)
  PROVE  QueuedTasks' \subseteq QueuedTasks \cup {t}
<1> DEFINE qt == QueueOf[t.url]
<1>1. qt \in Range(Queues)
  BY BrokerAssumption DEF Task
<1>2. tasks \in [Range(Queues) -> Seq(Task)]
  BY DEF TypeInv, TypeOK, SharedTypeOK
<1>3. Range(Append(tasks[qt], t)) \subseteq Range(tasks[qt]) \cup {t}
  BY <1>1, <1>2, RangeAppend
<1>4. Append(tasks[qt], t) \in Seq(Task)
  BY <1>1, <1>2, AppendProperties
<1>5. Range(Trim(Append(tasks[qt], t))) \subseteq Range(tasks[qt]) \cup {t}
  BY <1>3, <1>4, RangeTrim
<1>6. ASSUME NEW q \in Range(Queues) PROVE Range(tasks'[q]) \subseteq Range(tasks[q]) \cup {t}
  BY <1>1, <1>2, <1>5 DEF Enqueue
<1> QED
  BY <1>6 DEF QueuedTasks

(* Tasks move between the queues and the workers. *)
LEMMA WorkerTasks ==
  ASSUME TypeInv, WorkerNext
  PROVE  TasksInFlight' \subseteq TasksInFlight
<1> SUFFICES ASSUME NEW w \in Workers, WorkerStep(w) \/ CrawlFails(w) \/ WorkerLost(w)
             PROVE  TasksInFlight' \subseteq TasksInFlight
  BY DEF WorkerNext
<1> DEFINE wq == WorkerQueue[w]
<1>1. /\ tasks \in [Range(Queues) -> Seq(Task)]
      /\ unacked \in [Workers -> Seq(Task)]
      /\ wq \in Range(Queues)
  BY WorkerAssumption DEF TypeInv, TypeOK, SharedTypeOK, WorkerTypeOK
<1>2. CASE Deliver(w)
  <2>1. Head(tasks[wq]) \in Range(tasks[wq]) /\ Range(Tail(tasks[wq])) \subseteq Range(tasks[wq])
    BY <1>1, <1>2, RangeTail DEF Deliver
  <2>2. ASSUME NEW q \in Range(Queues) PROVE Range(tasks'[q]) \subseteq Range(tasks[q])
    BY <1>1, <1>2, <2>1 DEF Deliver
  <2>3. ASSUME NEW v \in Workers
        PROVE  Range(unacked'[v]) \subseteq Range(unacked[v]) \cup Range(tasks[wq])
    <3>1. Range(<<Head(tasks[wq])>>) = {Head(tasks[wq])}
      BY DEF Range
    <3> QED
      BY <1>1, <1>2, <2>1, <3>1 DEF Deliver
  <2>4. QueuedTasks' \subseteq QueuedTasks
    BY <2>2 DEF QueuedTasks
  <2>5. Range(tasks[wq]) \subseteq QueuedTasks
    BY <1>1 DEF QueuedTasks
  <2>6. HeldTasks' \subseteq HeldTasks \cup QueuedTasks
    BY <2>3, <2>5 DEF HeldTasks
  <2> QED
    BY <2>4, <2>6 DEF TasksInFlight
<1>3. CASE CrawlFails(w) \/ PublishResult(w)
  BY <1>3 DEF CrawlFails, PublishResult, brokerVars, TasksInFlight, QueuedTasks, HeldTasks
<1>4. CASE Ack(w)
  <2>1. tasks' = tasks /\ \A v \in Workers : Range(unacked'[v]) \subseteq Range(unacked[v])
    BY <1>1, <1>4, RangeEmpty DEF Ack, sharedVars, brokerVars
  <2> QED
    BY <2>1 DEF TasksInFlight, QueuedTasks, HeldTasks
<1>5. CASE WorkerLost(w)
  <2>1. unacked[w] \o tasks[wq] \in Seq(Task)
    BY <1>1, ConcatProperties
  <2>2. Range(Trim(unacked[w] \o tasks[wq])) \subseteq Range(unacked[w]) \cup Range(tasks[wq])
    <3>1. Range(unacked[w] \o tasks[wq]) \subseteq Range(unacked[w]) \cup Range(tasks[wq])
      BY <1>1, RangeConcat
    <3>2. Range(Trim(unacked[w] \o tasks[wq])) \subseteq Range(unacked[w] \o tasks[wq])
      BY <2>1, RangeTrim
    <3> QED
      BY <3>1, <3>2
  <2>3. ASSUME NEW q \in Range(Queues)
        PROVE  Range(tasks'[q]) \subseteq Range(tasks[q]) \cup Range(unacked[w])
    BY <1>1, <1>5, <2>2 DEF WorkerLost, Requeue
  <2>4. \A v \in Workers : Range(unacked'[v]) \subseteq Range(unacked[v])
    BY <1>1, <1>5, RangeEmpty DEF WorkerLost, Requeue
  <2>5. Range(unacked[w]) \subseteq HeldTasks
    BY DEF HeldTasks
  <2>6. QueuedTasks' \subseteq QueuedTasks \cup HeldTasks
    BY <2>3, <2>5 DEF QueuedTasks
  <2>7. HeldTasks' \subseteq HeldTasks
    BY <2>4 DEF HeldTasks
  <2> QED
    BY <2>6, <2>7 DEF TasksInFlight
<1> QED
  BY <1>2, <1>3, <1>4, <1>5 DEF WorkerStep

(* New tasks are seeds and links. *)
LinkTasks == {LinkTask(c) : c \in {d \in Consumers : cpc[d] = "insert"}}

SeedTasks == {SeedTask(r) : r \in {q \in Requests : pc'[q] = "started"}}

LEMMA ConsumerTasks ==
  ASSUME TypeInv, ConsumerNext, UNCHANGED workerVars
  PROVE  TasksInFlight' \subseteq TasksInFlight \cup LinkTasks
<1>1. UNCHANGED unacked
  BY DEF workerVars
<1>2. CASE \E c \in Consumers : InsertLink(c)
  <2> PICK c \in Consumers : InsertLink(c)
    BY <1>2
  <2>1. cpc[c] = "insert"
    BY DEF InsertLink
  <2>2. LinkTask(c) \in Task
    BY <2>1, NextUrlType, TypeInvParts
  <2>3. CASE UNCHANGED tasks
    BY <1>1, <2>3 DEF TasksInFlight, QueuedTasks, HeldTasks
  <2>4. CASE Enqueue(LinkTask(c))
    BY <1>1, <2>1, <2>2, <2>4, EnqueueTasks DEF TasksInFlight, HeldTasks, LinkTasks
  <2> QED
    BY <2>3, <2>4 DEF InsertLink, InsertMessage, InsertFails
<1>3. CASE ~\E c \in Consumers : InsertLink(c)
  <2>1. UNCHANGED tasks
    BY <1>3 DEF ConsumerNext, ConsumerStep, Consume, DeliverResult, TakeResult, Touch,
                ReadDepth, CheckLink, AddLink, ConnLost, Reconnect, sharedVars, brokerVars
  <2> QED
    BY <1>1, <2>1 DEF TasksInFlight, QueuedTasks, HeldTasks
<1> QED
  BY <1>2, <1>3

LEMMA JobTasks ==
  ASSUME TypeInv, JobNext, UNCHANGED workerVars
  PROVE  TasksInFlight' \subseteq TasksInFlight \cup SeedTasks
<1>1. UNCHANGED unacked
  BY DEF workerVars
<1>2. CASE \E r \in Requests : InsertSeed(r)
  <2> PICK r \in Requests : InsertSeed(r)
    BY <1>2
  <2>1. SeedTask(r) \in Task
    BY WebAssumption DEF SeedTask, Task, TypeInv, TypeOK, JobTypeOK
  <2>2. CASE UNCHANGED tasks
    BY <1>1, <2>2 DEF TasksInFlight, QueuedTasks, HeldTasks
  <2>3. CASE Enqueue(SeedTask(r)) /\ Goto(r, "started")
    <3>1. pc'[r] = "started"
      BY <2>3 DEF Goto, Procs, TypeInv, TypeOK, JobTypeOK
    <3> QED
      BY <1>1, <2>1, <2>3, <3>1, EnqueueTasks DEF TasksInFlight, HeldTasks, SeedTasks
  <2> QED
    BY <2>2, <2>3 DEF InsertSeed, InsertMessage, InsertFails
<1>3. CASE \E s \in Stops : PurgeQueue(s)
  <2>1. tasks' = tasks \/ \E q : tasks' = [tasks EXCEPT ![q] = <<>>]
    BY <1>3 DEF PurgeQueue
  <2>2. \A q \in Range(Queues) : Range(tasks'[q]) \subseteq Range(tasks[q])
    BY <2>1, RangeEmpty DEF TypeInv, TypeOK, SharedTypeOK
  <2> QED
    BY <1>1, <2>2 DEF TasksInFlight, QueuedTasks, HeldTasks
<1>4. CASE /\ ~\E r \in Requests : InsertSeed(r)
           /\ ~\E s \in Stops : PurgeQueue(s)
  <2>1. UNCHANGED tasks
    BY <1>4
    DEF JobNext, CrawlStep, StopStep, WatchdogStep, Submit, CheckActive, SetActive, SetDepth,
        SetLast, OpenChannel, AddSeed, DelKey, StopCheck, OpenPurge, WatchdogTick,
        InspectQueue, CheckLastActivity, TimePasses, JobExpires, sharedVars, brokerVars
  <2> QED
    BY <1>1, <2>1 DEF TasksInFlight, QueuedTasks, HeldTasks
<1> QED
  BY <1>2, <1>3, <1>4

LEMMA TasksStep ==
  ASSUME TypeInv, [Next]_vars
  PROVE  TasksInFlight' \subseteq TasksInFlight \cup SeedTasks \cup LinkTasks
<1>1. CASE SchedulerCrash \/ UNCHANGED vars
  BY <1>1 DEF SchedulerCrash, vars, sharedVars, brokerVars, workerVars, TasksInFlight, QueuedTasks, HeldTasks
<1> QED
  BY <1>1, JobTasks, WorkerTasks, ConsumerTasks DEF Next

(* Results come from the tasks that workers hold. *)
TaskResults == {ResultOf(t) : t \in HeldTasks}

LEMMA WorkerResults ==
  ASSUME TypeInv, WorkerNext, UNCHANGED consumerVars
  PROVE  ResultsInFlight' \subseteq ResultsInFlight \cup TaskResults
<1>1. UNCHANGED inbox
  BY DEF consumerVars
<1>2. CASE \E w \in Workers : PublishResult(w)
  <2> PICK w \in Workers : PublishResult(w)
    BY <1>2
  <2>1. unacked[w] \in Seq(Task) /\ unacked[w] # <<>>
    BY DEF PublishResult, TypeInv, TypeOK, WorkerTypeOK, HasTask
  <2> DEFINE res == ResultOf(Head(unacked[w]))
  <2>2. res \in TaskResults
    BY <2>1, RangeTail DEF TaskResults, HeldTasks
  <2>3. results \in Seq(Result) /\ res \in Result
    <3>1. Head(unacked[w]) \in Task
      BY <2>1, HeadTailProperties
    <3> QED
      BY <3>1 DEF ResultOf, Task, Result, TypeInv, TypeOK, SharedTypeOK
  <2>4. Range(Append(results, res)) \subseteq Range(results) \cup {res}
    BY <2>3, RangeAppend
  <2>5. Append(results, res) \in Seq(Result)
    BY <2>3, AppendProperties
  <2>6. Range(Trim(Append(results, res))) \subseteq Range(Append(results, res))
    BY <2>5, RangeTrim
  <2>7. results' = results \/ results' = Trim(Append(results, res))
    BY DEF PublishResult
  <2>8. Range(results') \subseteq Range(results) \cup TaskResults
    BY <2>2, <2>4, <2>6, <2>7
  <2> QED
    BY <1>1, <2>8 DEF ResultsInFlight, HeldResults
<1>3. CASE ~\E w \in Workers : PublishResult(w)
  <2>1. UNCHANGED results
    BY <1>3 DEF WorkerNext, WorkerStep, Deliver, Ack, CrawlFails, WorkerLost, Requeue,
                sharedVars, brokerVars
  <2> QED
    BY <1>1, <2>1 DEF ResultsInFlight, HeldResults
<1> QED
  BY <1>2, <1>3

(* They move to the consumers, which hand them on, or are lost. *)
LEMMA ConsumerResults ==
  ASSUME TypeInv, ConsumerNext
  PROVE  /\ ResultsInFlight' \subseteq ResultsInFlight
         /\ ingested \subseteq ingested'
         /\ ingested' \subseteq ingested \cup ResultsInFlight
<1>1. inbox \in [Consumers -> Seq(Result)] /\ results \in Seq(Result)
  BY DEF TypeInv, TypeOK, SharedTypeOK, ConsumerTypeOK
<1>2. CASE \E c \in Consumers : DeliverResult(c)
  <2> PICK c \in Consumers : DeliverResult(c)
    BY <1>2
  <2>1. Head(results) \in Range(results) /\ Range(Tail(results)) \subseteq Range(results)
    BY <1>1, RangeTail DEF DeliverResult
  <2>2. Head(results) \in Result
    BY <1>1, HeadTailProperties DEF DeliverResult
  <2>3. Range(Append(inbox[c], Head(results))) \subseteq Range(inbox[c]) \cup {Head(results)}
    BY <1>1, <2>2, RangeAppend
  <2>4. \A d \in Consumers : Range(inbox'[d]) \subseteq Range(inbox[d]) \cup Range(results)
    BY <1>1, <2>1, <2>3 DEF DeliverResult
  <2>5. HeldResults' \subseteq HeldResults \cup Range(results)
    BY <2>4 DEF HeldResults
  <2> QED
    BY <2>1, <2>5 DEF DeliverResult, ResultsInFlight
<1>3. CASE \E c \in Consumers : TakeResult(c)
  <2> PICK c \in Consumers : TakeResult(c)
    BY <1>3
  <2>1. Head(inbox[c]) \in Range(inbox[c]) /\ Range(Tail(inbox[c])) \subseteq Range(inbox[c])
    BY <1>1, RangeTail DEF TakeResult
  <2>2. \A d \in Consumers : Range(inbox'[d]) \subseteq Range(inbox[d])
    BY <1>1, <2>1 DEF TakeResult
  <2>3. HeldResults' \subseteq HeldResults /\ Head(inbox[c]) \in HeldResults
    BY <2>1, <2>2 DEF HeldResults
  <2> QED
    BY <2>3 DEF TakeResult, ResultsInFlight, sharedVars, brokerVars
<1>4. CASE ConnLost
  <2>1. HeldResults' = {}
    BY <1>4, RangeEmpty DEF ConnLost, HeldResults
  <2> QED
    BY <1>4, <2>1 DEF ConnLost, ResultsInFlight
<1>5. CASE /\ ~\E c \in Consumers : DeliverResult(c) \/ TakeResult(c)
           /\ ~ConnLost
  <2>1. UNCHANGED <<results, inbox, ingested>>
    BY <1>5 DEF ConsumerNext, ConsumerStep, Consume, Touch, ReadDepth, FollowLinks, Finish,
                CheckLink, AddLink, InsertLink, Reconnect, sharedVars, brokerVars, consumerVars
  <2> QED
    BY <2>1 DEF ResultsInFlight, HeldResults
<1> QED
  BY <1>2, <1>3, <1>4, <1>5

LEMMA JobResults ==
  ASSUME JobNext, UNCHANGED consumerVars
  PROVE  ResultsInFlight' \subseteq ResultsInFlight
<1>1. UNCHANGED inbox
  BY DEF consumerVars
<1>2. CASE \E s \in Stops : PurgeQueue(s)
  <2>1. Range(results') \subseteq Range(results)
    BY <1>2, RangeEmpty DEF PurgeQueue
  <2> QED
    BY <1>1, <2>1 DEF ResultsInFlight, HeldResults
<1>3. CASE ~\E s \in Stops : PurgeQueue(s)
  <2>1. UNCHANGED results
    BY <1>3
    DEF JobNext, CrawlStep, StopStep, WatchdogStep, Submit, CheckActive, SetActive, SetDepth,
        SetLast, OpenChannel, AddSeed, InsertSeed, DelKey, StopCheck, OpenPurge, WatchdogTick,
        InspectQueue, CheckLastActivity, TimePasses, JobExpires, sharedVars, brokerVars
  <2> QED
    BY <1>1, <2>1 DEF ResultsInFlight, HeldResults
<1> QED
  BY <1>2, <1>3

LEMMA ResultsStep ==
  ASSUME TypeInv, [Next]_vars
  PROVE  /\ ResultsInFlight' \subseteq ResultsInFlight \cup TaskResults
         /\ ingested \subseteq ingested'
         /\ ingested' \subseteq ingested \cup ResultsInFlight
<1>1. CASE SchedulerCrash
  <2>1. HeldResults' = {}
    BY <1>1, RangeEmpty DEF SchedulerCrash, ConsumerCrash, HeldResults
  <2> QED
    BY <1>1, <2>1 DEF SchedulerCrash, ConsumerCrash, ResultsInFlight
<1>2. CASE UNCHANGED vars
  BY <1>2
  DEF vars, sharedVars, brokerVars, consumerVars, ResultsInFlight, HeldResults
<1>3. CASE (JobNext \/ WorkerNext) /\ UNCHANGED consumerVars
  BY <1>3, JobResults, WorkerResults DEF consumerVars
<1> QED
  BY <1>1, <1>2, <1>3, ConsumerResults DEF Next

(* The requests' bodies never change. *)
LEMMA ReqStep ==
  ASSUME [Next]_vars
  PROVE  UNCHANGED req
<1>1. CASE JobNext
  BY <1>1
  DEF JobNext, CrawlStep, StopStep, WatchdogStep, Submit, CheckActive, SetActive, SetDepth,
      SetLast, OpenChannel, AddSeed, InsertSeed, DelKey, StopCheck, OpenPurge, PurgeQueue,
      WatchdogTick, InspectQueue, CheckLastActivity, TimePasses, JobExpires, jobVars
<1> QED
  BY <1>1 DEF Next, SchedulerCrash, JobCrash, vars, jobVars
-------------------------------------------------------------------------------
(***************************************************************************)
(* Provenance.                                                              *)
(***************************************************************************)
CrawlTree == Provenance /\ CurIngested

LEMMA CurIngestedStep ==
  ASSUME TypeInv, CurIngested, [Next]_vars
  PROVE  CurIngested'
<1>1. CASE ConsumerNext
  <2>1. CASE \E c \in Consumers : TakeResult(c)
    BY <2>1 DEF TakeResult, CurIngested, TypeInv, TypeOK, ConsumerTypeOK
  <2>2. CASE \E c \in Consumers : ReadDepth(c) \/ CheckLink(c)
    BY <2>2
    DEF ReadDepth, FollowLinks, Finish, CheckLink, Advance, CurIngested, TypeInv, TypeOK,
        ConsumerTypeOK
  <2>3. CASE \E c \in Consumers : AddLink(c) \/ InsertLink(c) \/ Touch(c)
    BY <2>3
    DEF AddLink, InsertLink, Advance, Touch, CurIngested, TypeInv, TypeOK, ConsumerTypeOK
  <2>4. CASE \/ \E c \in Consumers : Consume(c) \/ DeliverResult(c)
             \/ ConnLost \/ Reconnect
    BY <2>4 DEF Consume, DeliverResult, ConnLost, Reconnect, consumerVars, CurIngested
  <2> QED
    BY <1>1, <2>1, <2>2, <2>3, <2>4 DEF ConsumerNext, ConsumerStep
<1>2. CASE SchedulerCrash
  BY <1>2 DEF SchedulerCrash, ConsumerCrash, CurIngested
<1>3. CASE UNCHANGED consumerVars
  BY <1>3 DEF consumerVars, CurIngested
<1> QED
  BY <1>1, <1>2, <1>3 DEF Next, vars

LEMMA ProvenanceStep ==
  ASSUME TypeInv, CrawlTree, [Next]_vars
  PROVE  CrawlTree'
<1>1. ASSUME NEW m, Justified(m) PROVE Justified(m)'
  BY <1>1, ReqStep, ResultsStep DEF Justified
<1>2. \A m \in SeedTasks : Justified(m)
  BY DEF SeedTasks, SeedTask, Justified
<1>3. ASSUME NEW m \in LinkTasks PROVE Justified(m)
  <2> PICK c \in Consumers : cpc[c] = "insert" /\ m = LinkTask(c)
    BY <1>3 DEF LinkTasks
  <2>1. cur[c] \in ingested /\ NextUrl(c) \in Range(Links[cur[c].url])
    BY NextUrlType, TypeInvParts DEF CrawlTree, CurIngested
  <2> QED
    BY <2>1 DEF LinkTask, Justified
<1>4. ASSUME NEW m \in TaskResults PROVE Justified(m)
  <2> PICK t \in HeldTasks : m = ResultOf(t)
    BY <1>4 DEF TaskResults
  <2>1. Justified(t)
    BY DEF CrawlTree, Provenance, TasksInFlight
  <2> QED
    BY <2>1 DEF ResultOf, Justified
<1>5. \A m \in TasksInFlight \cup ResultsInFlight \cup ingested : Justified(m)
  BY DEF CrawlTree, Provenance
<1>6. \A m \in (TasksInFlight \cup ResultsInFlight \cup ingested)' : Justified(m)
  BY <1>2, <1>3, <1>4, <1>5, TasksStep, ResultsStep
<1>7. Provenance'
  BY <1>1, <1>6 DEF Provenance
<1> QED
  BY <1>7, CurIngestedStep DEF CrawlTree

LEMMA NothingInFlight == Init => TasksInFlight = {} /\ ResultsInFlight = {} /\ ingested = {}
BY RangeEmpty
DEF Init, SharedInit, WorkerInit, ConsumerInit, TasksInFlight, QueuedTasks, HeldTasks,
    ResultsInFlight, HeldResults

LEMMA CrawlTreeInit == Init => CrawlTree
BY NothingInFlight DEF CrawlTree, Provenance, CurIngested, Init, ConsumerInit

(***************************************************************************)
(* Every task, result and stored page goes back, through stored pages, to   *)
(* the seed of a requested job (broker.go, processResult; worker broker.go, *)
(* processMessage), whatever is lost, redelivered, dropped or purged.       *)
(***************************************************************************)
THEOREM CrawlIsTree == Spec => []Provenance
<1>1. Init => CrawlTree
  BY CrawlTreeInit
<1>2. TypeInv /\ CrawlTree /\ [Next]_vars => CrawlTree'
  BY ProvenanceStep
<1>3. CrawlTree => Provenance
  BY DEF CrawlTree
<1> QED
  BY <1>1, <1>2, <1>3, TypeCorrect, PTL DEF Spec
-------------------------------------------------------------------------------
(***************************************************************************)
(* Depth.                                                                   *)
(***************************************************************************)

(* Only its own handler moves a request, and the crash of the scheduler. *)
LEMMA RequestMoves ==
  ASSUME TypeInv, [Next]_vars, NEW r \in Requests
  PROVE  pc'[r] = pc[r] \/ Submit(r) \/ CrawlStep(r) \/ SchedulerCrash
<1>1. pc \in [Procs -> Labels] /\ r \in Procs
  BY DEF TypeInv, TypeOK, JobTypeOK, Procs
<1>2. ASSUME NEW p \in Procs, p # r, NEW l, Goto(p, l) PROVE pc'[r] = pc[r]
  BY <1>1, <1>2 DEF Goto
<1>3. ASSUME NEW p \in Requests, Submit(p) \/ CrawlStep(p), p # r
      PROVE  pc'[r] = pc[r]
  <2>1. \E l : Goto(p, l)
    BY <1>3
    DEF Submit, CrawlStep, CheckActive, SetActive, SetDepth, SetLast, OpenChannel, AddSeed,
        InsertSeed, DelKey, Delete, ForceCleanupJob
  <2> QED
    BY <1>2, <1>3, <2>1 DEF Procs
<1>4. ASSUME NEW p \in Stops, StopCheck(p) \/ StopStep(p)
      PROVE  pc'[r] = pc[r]
  <2>1. p \in Procs /\ p # r
    BY ProcessAssumption DEF Procs
  <2>2. UNCHANGED pc \/ \E l : Goto(p, l)
    BY <1>4
    DEF StopStep, StopCheck, OpenPurge, PurgeQueue, DelKey, Delete, ForceCleanupJob
  <2> QED
    BY <1>2, <2>1, <2>2
<1>5. CASE WatchdogStep
  <2>1. Watchdog \in Procs /\ Watchdog # r
    BY ProcessAssumption DEF Procs
  <2>2. UNCHANGED pc \/ \E l : Goto(Watchdog, l)
    BY <1>5
    DEF WatchdogStep, WatchdogTick, InspectQueue, CheckLastActivity, DelKey, Delete,
        ForceCleanupJob
  <2> QED
    BY <1>2, <2>1, <2>2
<1>6. CASE TimePasses \/ JobExpires
  BY <1>6 DEF TimePasses, JobExpires, jobVars
<1>7. CASE UNCHANGED jobVars
  BY <1>7 DEF jobVars
<1> QED
  BY <1>3, <1>4, <1>5, <1>6, <1>7 DEF Next, JobNext, vars

(* A request that has started stays so, and keeps its depth. *)
LEMMA StartedStep ==
  ASSUME TypeInv, [Next]_vars
  PROVE  Started \subseteq Started'
<1> SUFFICES ASSUME NEW r \in Requests,
                    pc[r] \notin {"idle", "check", "setActive", "rejected"}
             PROVE  pc'[r] \notin {"idle", "check", "setActive", "rejected"}
  BY DEF Started
<1>1. pc \in [Procs -> Labels] /\ r \in Procs
  BY DEF TypeInv, TypeOK, JobTypeOK, Procs
<1>2. ASSUME NEW l \in {"setDepth", "setLast", "open", "addSeed", "insert", "started",
                        "failed", "del"},
             Goto(r, l)
      PROVE  pc'[r] = l
  BY <1>1, <1>2 DEF Goto
<1>3. CASE Submit(r) \/ CheckActive(r) \/ SetActive(r)
  BY <1>3 DEF Submit, CheckActive, SetActive
<1>4. CASE SetDepth(r) \/ SetLast(r) \/ OpenChannel(r) \/ AddSeed(r) \/ InsertSeed(r)
  BY <1>2, <1>4
  DEF SetDepth, SetLast, OpenChannel, AddSeed, InsertSeed, Delete, ForceCleanupJob
<1>5. CASE DelKey(r)
  BY <1>2, <1>5 DEF DelKey, AfterDelete
<1>6. CASE SchedulerCrash
  BY <1>1, <1>6, ProcessAssumption DEF SchedulerCrash, JobCrash
<1> QED
  BY <1>3, <1>4, <1>5, <1>6, RequestMoves DEF CrawlStep

LEMMA AskedForStep ==
  ASSUME TypeInv, [Next]_vars, NEW d, AskedFor(d)
  PROVE  \E r \in Started' : d = req'[r].depth
BY StartedStep, ReqStep DEF AskedFor

LEMMA MaxDepthStep ==
  ASSUME TypeInv, DepthInv, [Next]_vars, maxDepth' # NoDepth
  PROVE  AskedFor(maxDepth)'
<1>1. CASE maxDepth' = maxDepth
  BY <1>1, AskedForStep DEF DepthInv, AskedFor
<1>2. CASE \E r \in Requests : SetDepth(r)
  <2> PICK r \in Requests : SetDepth(r)
    BY <1>2
  <2>1. r \in Started
    BY DEF SetDepth, Started
  <2> QED
    BY <1>1, <2>1, StartedStep, ReqStep DEF SetDepth, AskedFor
<1>3. ASSUME maxDepth' # maxDepth PROVE \E r \in Requests : SetDepth(r)
  <2>1. CASE JobNext
    BY <1>3, <2>1
    DEF JobNext, CrawlStep, StopStep, WatchdogStep, Submit, CheckActive, SetActive,
        SetLast, OpenChannel, AddSeed, InsertSeed, DelKey, StopCheck, OpenPurge, PurgeQueue,
        WatchdogTick, InspectQueue, CheckLastActivity, TimePasses, JobExpires,
        sharedVars, redisVars
  <2>2. CASE WorkerNext \/ ConsumerNext
    BY <1>3, <2>2, WorkerFrame, ConsumerFrame DEF redisVars
  <2> QED
    BY <1>3, <2>1, <2>2 DEF Next, SchedulerCrash, vars, sharedVars, redisVars
<1> QED
  BY <1>1, <1>2, <1>3

(* The depth that a consumer works with. *)
LoopDepth ==
  \A c \in Consumers : cpc[c] \in {"exists", "add", "insert"} =>
    cur[c].depth < cmax[c] /\ AskedFor(cmax[c])

LEMMA LoopDepthStep ==
  ASSUME TypeInv, DepthInv, [Next]_vars
  PROVE  LoopDepth'
<1>1. LoopDepth
  BY DEF DepthInv, LoopDepth
<1> DEFINE Loop == {"exists", "add", "insert"}
<1>10. ASSUME \A d \in Consumers : cpc'[d] \in Loop =>
               cpc[d] \in Loop /\ cur'[d] = cur[d] /\ cmax'[d] = cmax[d]
      PROVE  LoopDepth'
  BY <1>1, <1>10, AskedForStep DEF LoopDepth, AskedFor
<1>2. ASSUME UNCHANGED <<cpc, cur, cmax>> PROVE LoopDepth'
  BY <1>10, <1>2
<1>3. ASSUME NEW c \in Consumers, ConsumerStep(c)
      PROVE  LoopDepth'
  <2>1. /\ cpc \in [Consumers -> ConsumerLabels] /\ cmax \in [Consumers -> Int]
        /\ cur \in [Consumers -> Result \cup {NoResult}]
    BY DEF TypeInv, TypeOK, ConsumerTypeOK
  <2>2. CASE Consume(c)
    BY <1>2, <2>2 DEF Consume, consumerVars
  <2>3. CASE TakeResult(c) \/ Touch(c)
    BY <1>1, <2>1, <2>3, AskedForStep DEF TakeResult, Touch, LoopDepth, AskedFor
  <2>4. CASE ReadDepth(c)
    <3>1. cur[c] \in Result
      BY <2>4, LoopType, TypeInvParts DEF ReadDepth
    <3>2. \A max : FollowLinks(c, max) /\ cpc'[c] = "exists" =>
             cur[c].depth < max /\ cmax'[c] = max /\ cur' = cur
      BY <2>1 DEF FollowLinks, Descends, Finish
    <3>3. cpc'[c] = "exists" => cur[c].depth < maxDepth /\ cmax'[c] = maxDepth
                                /\ maxDepth # NoDepth /\ cur' = cur
      BY <2>4, <3>1, <3>2 DEF ReadDepth, MaxDepthFor, Result
    <3>4. cpc'[c] \in {"exists", "idle"}
      BY <2>1, <2>4 DEF ReadDepth, FollowLinks, Finish
    <3>5. \A d \in Consumers \ {c} : cpc'[d] = cpc[d] /\ cur'[d] = cur[d] /\ cmax'[d] = cmax[d]
      BY <2>1, <2>4 DEF ReadDepth, FollowLinks, Finish
    <3> QED
      BY <1>1, <3>3, <3>4, <3>5, AskedForStep DEF LoopDepth, DepthInv, AskedFor
  <2>5. CASE CheckLink(c)
    <3>1. \A d \in Consumers : cpc'[d] \in Loop =>
            cpc[d] \in Loop /\ cur'[d] = cur[d] /\ cmax'[d] = cmax[d]
      BY <2>1, <2>5 DEF CheckLink, Advance, Finish
    <3> QED
      BY <1>10, <3>1
  <2>6. CASE AddLink(c) \/ InsertLink(c)
    <3>1. \A d \in Consumers : cpc'[d] \in Loop =>
            cpc[d] \in Loop /\ cur'[d] = cur[d] /\ cmax'[d] = cmax[d]
      BY <2>1, <2>6 DEF AddLink, InsertLink, Advance
    <3> QED
      BY <1>10, <3>1
  <2> QED
    BY <1>3, <2>2, <2>3, <2>4, <2>5, <2>6 DEF ConsumerStep
<1>4. CASE \/ \E c \in Consumers : DeliverResult(c)
           \/ ConnLost \/ Reconnect
  BY <1>2, <1>4 DEF DeliverResult, ConnLost, Reconnect, consumerVars
<1>5. CASE SchedulerCrash
  BY <1>5 DEF SchedulerCrash, ConsumerCrash, LoopDepth
<1>6. CASE UNCHANGED consumerVars
  BY <1>2, <1>6 DEF consumerVars
<1> QED
  BY <1>3, <1>4, <1>5, <1>6 DEF Next, ConsumerNext, vars

DepthsKept == DepthBounded /\ DepthInv

LEMMA DepthStep ==
  ASSUME TypeInv, DepthsKept, [Next]_vars
  PROVE  DepthsKept'
<1>1. DepthInv'
  BY MaxDepthStep, LoopDepthStep DEF DepthsKept, DepthInv, LoopDepth
<1>2. ASSUME NEW t \in LinkTasks PROVE t.depth <= t.max /\ AskedFor(t.max)
  <2> PICK c \in Consumers : cpc[c] = "insert" /\ t = LinkTask(c)
    BY <1>2 DEF LinkTasks
  <2>1. cur[c].depth < cmax[c] /\ AskedFor(cmax[c])
    BY DEF DepthsKept, DepthInv
  <2>2. cur[c] \in Result /\ cmax[c] \in Int
    BY LoopType, TypeInvParts DEF TypeInv, TypeOK, ConsumerTypeOK
  <2> QED
    BY <2>1, <2>2 DEF LinkTask, Result
<1>3. \A t \in SeedTasks : t.depth = 0
  BY DEF SeedTasks, SeedTask
<1>4. \A t \in TasksInFlight : t.depth > 0 => t.depth <= t.max /\ AskedFor(t.max)
  BY DEF DepthsKept, DepthBounded, AskedFor
<1>5. \A t \in TasksInFlight' : t.depth > 0 => t.depth <= t.max /\ AskedFor(t.max)
  BY <1>2, <1>3, <1>4, TasksStep
<1>6. DepthBounded'
  BY <1>5, AskedForStep DEF DepthBounded, AskedFor
<1> QED
  BY <1>1, <1>6 DEF DepthsKept

LEMMA DepthsInit == Init => DepthsKept
BY NothingInFlight
DEF DepthsKept, DepthBounded, DepthInv, Init, SharedInit, ConsumerInit

(***************************************************************************)
(* No task lies deeper than a started job asked for (broker.go,             *)
(* processResult), also when results of one job meet the depth of another.  *)
(***************************************************************************)
THEOREM DepthIsBounded == Spec => []DepthBounded
<1>1. Init => DepthsKept
  BY DepthsInit
<1>2. TypeInv /\ DepthsKept /\ [Next]_vars => DepthsKept'
  BY DepthStep
<1>3. DepthsKept => DepthBounded
  BY DEF DepthsKept
<1> QED
  BY <1>1, <1>2, <1>3, TypeCorrect, PTL DEF Spec
-------------------------------------------------------------------------------
(***************************************************************************)
(* Deduplication.                                                           *)
(***************************************************************************)
DedupAt(u) ==
  /\ enqueued[u] + Cardinality(Publishing(u)) <= Cardinality(Consumers)
  /\ u \notin bloom =>
       enqueued[u] = 0 /\ \A c \in Publishing(u) : cpc[c] = "add"

LEMMA PublishingFinite ==
  ASSUME NEW u
  PROVE  /\ IsFiniteSet(Publishing(u))
         /\ Cardinality(Publishing(u)) \in Nat
         /\ Cardinality(Consumers) \in Nat
         /\ Cardinality(Publishing(u)) <= Cardinality(Consumers)
<1>1. Publishing(u) \subseteq Consumers /\ IsFiniteSet(Consumers)
  BY ConsumerAssumption DEF Publishing
<1> QED
  BY <1>1, FS_Subset, FS_CardinalityType

(* Nobody finds u new and nobody publishes it. *)
LEMMA DedupShrinks ==
  ASSUME TypeInv, NEW u \in Urls, DedupAt(u), enqueued'[u] = enqueued[u],
         bloom \subseteq bloom', Publishing(u)' \subseteq Publishing(u),
         u \notin bloom' => \A c \in Publishing(u)' : cpc'[c] = cpc[c]
  PROVE  DedupAt(u)'
<1>1. Cardinality(Publishing(u)') <= Cardinality(Publishing(u))
  BY PublishingFinite, FS_Subset
<1>2. Cardinality(Publishing(u)') \in Nat
  BY PublishingFinite, FS_Subset, FS_CardinalityType
<1>3. enqueued[u] \in Nat
  BY DEF TypeInv, TypeOK, ConsumerTypeOK
<1>4. enqueued'[u] + Cardinality(Publishing(u)') <= Cardinality(Consumers)
  BY <1>1, <1>2, <1>3, PublishingFinite DEF DedupAt
<1>5. u \notin bloom' => enqueued'[u] = 0 /\ \A c \in Publishing(u)' : cpc'[c] = "add"
  BY DEF DedupAt
<1> QED
  BY <1>4, <1>5 DEF DedupAt

(* A consumer finds u new. *)
LEMMA DedupCheck ==
  ASSUME TypeInv, "redis" \notin FaultKinds, NEW u \in Urls, DedupAt(u),
         NEW c \in Consumers, CheckLink(c)
  PROVE  DedupAt(u)'
<1>1. UNCHANGED <<bloom, enqueued>> /\ cpc \in [Consumers -> ConsumerLabels]
  BY DEF CheckLink, redisVars, TypeInv, TypeOK, ConsumerTypeOK
<1>2. CASE /\ ~CheckUrlDuplicate(NextUrl(c))
           /\ cpc' = [cpc EXCEPT ![c] = "add"]
           /\ UNCHANGED <<cur, cmax, link>>
  <2>1. CASE NextUrl(c) = u
    <3>1. u \notin bloom /\ enqueued[u] = 0
      BY <1>2, <2>1 DEF CheckUrlDuplicate, DedupAt
    <3>2. \A d \in Publishing(u)' : cpc'[d] = "add"
      BY <1>1, <1>2, <3>1 DEF Publishing, NextUrl, DedupAt
    <3>3. Cardinality(Publishing(u)') \in Nat
          /\ Cardinality(Publishing(u)') <= Cardinality(Consumers)
      <4>1. Publishing(u)' \subseteq Consumers /\ IsFiniteSet(Consumers)
        BY ConsumerAssumption DEF Publishing
      <4> QED
        BY <4>1, FS_Subset, FS_CardinalityType
    <3> QED
      BY <1>1, <3>1, <3>2, <3>3 DEF DedupAt
  <2>2. CASE NextUrl(c) # u
    <3>1. Publishing(u)' \subseteq Publishing(u)
          /\ \A d \in Publishing(u)' : cpc'[d] = cpc[d]
      BY <1>1, <1>2, <2>2 DEF Publishing, NextUrl
    <3> QED
      BY <1>1, <3>1, DedupShrinks
  <2> QED
    BY <2>1, <2>2
<1>3. CASE Finish(c) \/ Advance(c)
  <2>1. \A d \in Consumers : cpc'[d] \in {"add", "insert"} =>
          cpc'[d] = cpc[d] /\ cur'[d] = cur[d] /\ link'[d] = link[d]
    BY <1>1, <1>3 DEF Finish, Advance, TypeInv, TypeOK, ConsumerTypeOK
  <2>2. Publishing(u)' \subseteq Publishing(u)
        /\ \A d \in Publishing(u)' : cpc'[d] = cpc[d]
    BY <2>1 DEF Publishing, NextUrl
  <2> QED
    BY <1>1, <2>2, DedupShrinks
<1> QED
  BY <1>2, <1>3 DEF CheckLink, Fault

(* It adds the URL ... *)
LEMMA DedupAdd ==
  ASSUME TypeInv, "redis" \notin FaultKinds, NEW u \in Urls, DedupAt(u),
         NEW c \in Consumers, AddLink(c)
  PROVE  DedupAt(u)'
<1>1. UNCHANGED <<enqueued, cur, link>> /\ bloom' = bloom \cup {NextUrl(c)}
      /\ cpc[c] = "add" /\ cpc' = [cpc EXCEPT ![c] = "insert"]
  BY DEF AddLink, AddToBloom, Fault
<1>2. cpc \in [Consumers -> ConsumerLabels]
  BY DEF TypeInv, TypeOK, ConsumerTypeOK
<1>3. Publishing(u)' \subseteq Publishing(u)
  BY <1>1, <1>2 DEF Publishing, NextUrl
<1>4. u \notin bloom' => \A d \in Publishing(u)' : cpc'[d] = cpc[d]
  BY <1>1, <1>2 DEF Publishing, NextUrl
<1> QED
  BY <1>1, <1>3, <1>4, DedupShrinks

(* ... and publishes it. *)
LEMMA DedupInsert ==
  ASSUME TypeInv, NEW u \in Urls, DedupAt(u), NEW c \in Consumers, InsertLink(c)
  PROVE  DedupAt(u)'
<1>1. UNCHANGED <<bloom, cur>> /\ cpc[c] = "insert"
      /\ cpc' = [cpc EXCEPT ![c] = "exists"] /\ link' = [link EXCEPT ![c] = @ + 1]
  BY DEF InsertLink, Advance, redisVars
<1>2. cpc \in [Consumers -> ConsumerLabels] /\ link \in [Consumers -> Nat]
      /\ enqueued \in [Urls -> Nat]
  BY DEF TypeInv, TypeOK, ConsumerTypeOK
<1>3. Publishing(u)' = Publishing(u) \ {c}
      /\ \A d \in Publishing(u)' : cpc'[d] = cpc[d]
  BY <1>1, <1>2 DEF Publishing, NextUrl
<1>4. CASE enqueued'[u] = enqueued[u]
  BY <1>1, <1>3, <1>4, DedupShrinks
<1>5. CASE enqueued'[u] # enqueued[u]
  <2>1. NextUrl(c) = u /\ enqueued'[u] = enqueued[u] + 1
    BY <1>2, <1>5 DEF InsertLink
  <2>2. c \in Publishing(u) /\ u \in bloom
    BY <1>1, <2>1 DEF Publishing, DedupAt
  <2>3. Cardinality(Publishing(u) \ {c}) = Cardinality(Publishing(u)) - 1
    BY <2>2, PublishingFinite, FS_RemoveElement
  <2>4. Cardinality(Publishing(u)') = Cardinality(Publishing(u)) - 1
    BY <1>3, <2>3
  <2>5. enqueued'[u] + Cardinality(Publishing(u)') <= Cardinality(Consumers)
    BY <1>2, <2>1, <2>4, PublishingFinite DEF DedupAt
  <2> QED
    BY <1>1, <2>2, <2>5 DEF DedupAt
<1> QED
  BY <1>4, <1>5

LEMMA BloomGrows ==
  ASSUME [Next]_vars
  PROVE  bloom \subseteq bloom'
<1>1. CASE JobNext
  BY <1>1
  DEF JobNext, CrawlStep, StopStep, WatchdogStep, Submit, CheckActive, SetActive, SetDepth,
      SetLast, OpenChannel, AddSeed, InsertSeed, DelKey, StopCheck, OpenPurge, PurgeQueue,
      WatchdogTick, InspectQueue, CheckLastActivity, TimePasses, JobExpires, AddToBloom,
      sharedVars, redisVars
<1>2. CASE WorkerNext
  BY <1>2, WorkerFrame DEF redisVars
<1>3. CASE ConsumerNext
  BY <1>3
  DEF ConsumerNext, ConsumerStep, Consume, DeliverResult, TakeResult, Touch, ReadDepth,
      CheckLink, AddLink, AddToBloom, InsertLink, ConnLost, Reconnect, sharedVars, redisVars
<1> QED
  BY <1>1, <1>2, <1>3 DEF Next, SchedulerCrash, vars, sharedVars, redisVars

LEMMA DedupStep ==
  ASSUME TypeInv, "redis" \notin FaultKinds, NEW u \in Urls, DedupAt(u), [Next]_vars
  PROVE  DedupAt(u)'
<1>1. ASSUME enqueued' = enqueued,
             \A d \in Consumers : cpc'[d] \in {"add", "insert"} =>
               cpc'[d] = cpc[d] /\ cur'[d] = cur[d] /\ link'[d] = link[d]
      PROVE  DedupAt(u)'
  <2>1. Publishing(u)' \subseteq Publishing(u)
        /\ \A d \in Publishing(u)' : cpc'[d] = cpc[d]
    BY <1>1 DEF Publishing, NextUrl
  <2> QED
    BY <1>1, <2>1, BloomGrows, DedupShrinks
<1>2. CASE \E c \in Consumers : CheckLink(c) \/ AddLink(c) \/ InsertLink(c)
  BY <1>2, DedupCheck, DedupAdd, DedupInsert
<1>3. CASE \E c \in Consumers : TakeResult(c) \/ Touch(c) \/ ReadDepth(c)
  BY <1>1, <1>3
  DEF TakeResult, Touch, ReadDepth, FollowLinks, Finish, TypeInv, TypeOK, ConsumerTypeOK
<1>4. CASE \/ \E c \in Consumers : Consume(c) \/ DeliverResult(c)
           \/ ConnLost \/ Reconnect
  BY <1>1, <1>4 DEF Consume, DeliverResult, ConnLost, Reconnect, consumerVars
<1>5. CASE SchedulerCrash
  BY <1>1, <1>5 DEF SchedulerCrash, ConsumerCrash
<1>6. CASE UNCHANGED consumerVars
  BY <1>1, <1>6 DEF consumerVars
<1> QED
  BY <1>2, <1>3, <1>4, <1>5, <1>6 DEF Next, ConsumerNext, ConsumerStep, vars

LEMMA DedupInit == Init => DedupInv
<1> SUFFICES ASSUME Init, NEW u \in Urls
             PROVE  DedupAt(u)
  BY DEF DedupInv, DedupAt
<1>1. Publishing(u) = {} /\ enqueued[u] = 0
  BY DEF Init, ConsumerInit, Publishing
<1> QED
  BY <1>1, PublishingFinite, FS_EmptySet DEF DedupAt

(***************************************************************************)
(* The Bloom filter lets a URL through at most once per result consumer,    *)
(* over all jobs, if Redis answers (broker.go, processResult: BF.EXISTS     *)
(* and BF.ADD are two commands).                                            *)
(***************************************************************************)
THEOREM DuplicatesAreBounded == Spec => []BoundedDuplicates
<1>1. Init => DedupInv
  BY DedupInit
<1>2. TypeInv /\ DedupInv /\ [Next]_vars => DedupInv'
  BY DedupStep DEF DedupInv, DedupAt
<1>3. TypeInv /\ DedupInv => BoundedDuplicates
  <2> SUFFICES ASSUME TypeInv, DedupInv, "redis" \notin FaultKinds, NEW u \in Urls
               PROVE  enqueued[u] <= Cardinality(Consumers)
    BY DEF BoundedDuplicates
  <2> QED
    BY PublishingFinite DEF DedupInv, TypeInv, TypeOK, ConsumerTypeOK
<1> QED
  BY <1>1, <1>2, <1>3, TypeCorrect, PTL DEF Spec
===============================================================================

------------------------------- MODULE Crawler -------------------------------
(***************************************************************************)
(* The whole system: the scheduler (job control and result consumers) and   *)
(* the workers, around the Redis keys and the RabbitMQ queues they share.   *)
(***************************************************************************)
EXTENDS JobControl, Worker, ResultConsumer

ASSUME GoroutineAssumption == Consumers \cap Procs = {}

vars == <<sharedVars, jobVars, workerVars, consumerVars>>

TypeOK ==
  /\ SharedTypeOK
  /\ chans \subseteq Procs \cup Consumers
  /\ JobTypeOK
  /\ WorkerTypeOK
  /\ ConsumerTypeOK

Init == SharedInit /\ JobInit /\ WorkerInit /\ ConsumerInit

(* The scheduler process dies and is started again. *)
SchedulerCrash ==
  /\ Fault("crash")
  /\ JobCrash
  /\ ConsumerCrash
  /\ connected' = TRUE
  /\ chans' = {}
  /\ UNCHANGED <<redisVars, tasks, results, workerVars>>

Next ==
  \/ JobNext /\ UNCHANGED <<workerVars, consumerVars>>
  \/ WorkerNext /\ UNCHANGED <<jobVars, consumerVars>>
  \/ ConsumerNext /\ UNCHANGED <<jobVars, workerVars>>
  \/ SchedulerCrash

Spec == Init /\ [][Next]_vars

(***************************************************************************)
(* Every goroutine that can take a step eventually does, the broker         *)
(* eventually delivers to a consumer, and the clock runs.  Clients need not *)
(* send requests, and nothing has to fail.                                  *)
(***************************************************************************)
Fairness ==
  /\ \A r \in Requests : WF_vars(CrawlStep(r) /\ UNCHANGED <<workerVars, consumerVars>>)
  /\ \A s \in Stops : WF_vars(StopStep(s) /\ UNCHANGED <<workerVars, consumerVars>>)
  /\ WF_vars(WatchdogStep /\ UNCHANGED <<workerVars, consumerVars>>)
  /\ WF_vars(TimePasses /\ UNCHANGED <<workerVars, consumerVars>>)
  /\ \A w \in Workers : WF_vars(WorkerStep(w) /\ UNCHANGED <<jobVars, consumerVars>>)
  /\ \A c \in Consumers : WF_vars(ConsumerStep(c) /\ UNCHANGED <<jobVars, workerVars>>)
  /\ WF_vars((\E c \in Consumers : DeliverResult(c)) /\ UNCHANGED <<jobVars, workerVars>>)
  /\ WF_vars(Reconnect /\ UNCHANGED <<jobVars, workerVars>>)

FairSpec == Spec /\ Fairness
-------------------------------------------------------------------------------
(***************************************************************************)
(* Where the goroutines are, and what they hold there: a goroutine that is  *)
(* deleting has a key left, a busy worker has its task, and a consumer in   *)
(* its loop has a result and the index of one of its links.                 *)
(***************************************************************************)
HasKeys == \A p \in Procs : pc[p] = "del" => del[p] # <<>>

HasTask == \A w \in Workers : wpc[w] # "idle" => unacked[w] # <<>>

HasResult == \A c \in Consumers : cpc[c] # "idle" => cur[c] # NoResult

HasLink ==
  \A c \in Consumers :
    /\ cpc[c] \in {"exists", "add", "insert"} => link[c] >= 1
    /\ cpc[c] \in {"add", "insert"} => link[c] <= Limit(Len(Links[cur[c].url]))

TypeInv == TypeOK /\ HasKeys /\ HasTask /\ HasResult /\ HasLink
-------------------------------------------------------------------------------
(* Where tasks and results can be: in the broker, or sent and in a process. *)
QueuedTasks == UNION {Range(tasks[q]) : q \in Range(Queues)}

HeldTasks == UNION {Range(unacked[w]) : w \in Workers}

TasksInFlight == QueuedTasks \cup HeldTasks

HeldResults == UNION {Range(inbox[c]) : c \in Consumers}

ResultsInFlight == Range(results) \cup HeldResults

(* A page at this depth of this job has been stored, or is its seed. *)
Justified(m) ==
  \/ m.depth = 0 /\ m.url = req[m.job].url
  \/ \E p \in ingested :
       p.job = m.job /\ m.depth = p.depth + 1 /\ m.url \in Range(Links[p.url])

(***************************************************************************)
(* Every task, every result on its way and every stored page is the seed of *)
(* a requested job, or a link of a page that was stored before, one level   *)
(* up: whatever is lost, redelivered or purged, the crawl is a tree.        *)
(***************************************************************************)
Provenance ==
  \A m \in TasksInFlight \cup ResultsInFlight \cup ingested : Justified(m)

(* The requests that may have written crawler:max_depth. *)
Started == {r \in Requests : pc[r] \notin {"idle", "check", "setActive", "rejected"}}

(* The requests that have taken the lock and go on to publish their seed. *)
Starting == {r \in Requests : pc[r] \in {"setDepth", "setLast", "open", "addSeed", "insert"}}

(* The requests whose seed was published: 200 "job started". *)
Launched == {r \in Requests : pc[r] = "started"}

(***************************************************************************)
(* processResult follows no link below the depth that some started job      *)
(* asked for, and passes that depth on in the task.                         *)
(***************************************************************************)
DepthBounded ==
  \A t \in TasksInFlight : t.depth > 0 =>
    t.depth <= t.max /\ \E r \in Started : t.max = req[r].depth

(***************************************************************************)
(* The check-then-add of the Bloom filter lets a URL through once for every *)
(* consumer at most, over all jobs, if Redis answers.                       *)
(***************************************************************************)
BoundedDuplicates ==
  "redis" \notin FaultKinds => \A u \in Urls : enqueued[u] <= Cardinality(Consumers)

(***************************************************************************)
(* A /crawl request that is answered with an error does not keep the job    *)
(* lock, if Redis answers.                                                  *)
(***************************************************************************)
FailedCrawlLeavesNoLock ==
  "redis" \notin FaultKinds =>
    \A r \in Requests : pc[r] \in {"failed", "rejected"} => active # r

(***************************************************************************)
(* A job lock passes from one request to another only by way of a cleanup   *)
(* or its expiry, however /crawl requests interleave.                       *)
(***************************************************************************)
LockNeverStolen == [][active # NoJob => active' \in {active, NoJob}]_vars
-------------------------------------------------------------------------------
(***************************************************************************)
(* The queues, the workers, the consumers and their faults implement the    *)
(* forest of jobs: whatever interleaves, is lost or comes twice, a step     *)
(* launches one job, of a request that took the lock for it, hands one page *)
(* below another one to dbchan, or is not visible.                          *)
(***************************************************************************)
Forest == INSTANCE CrawlForest WITH
  asked <- req, lock <- active, begun <- Started, launched <- Launched,
  starting <- Starting, stored <- ingested

ImplementsForest == Forest!Spec
-------------------------------------------------------------------------------
(* Nothing is under way. *)
Quiescent ==
  /\ TasksInFlight = {}
  /\ ResultsInFlight = {}
  /\ \A c \in Consumers : cpc[c] = "idle"
  /\ \A r \in Requests : pc[r] \in Ended \cup {"idle"}

(* The pages that a link of one of the pages S leads to. *)
LinkedFrom(S) == UNION {Range(Links[u]) : u \in S}

(* The pages that at most d links lead to from page s. *)
PagesWithin(s, d) ==
  LET Reach[n \in Nat] ==
        IF n = 0 THEN {s} ELSE Reach[n - 1] \cup LinkedFrom(Reach[n - 1])
  IN Reach[IF d < 0 THEN 0 ELSE d]

(***************************************************************************)
(* Nothing is stored but what lies within the depth that some started job   *)
(* asked for, counted from the seed of its own job: the depths that         *)
(* messages carry are those of the web, whoever crashes or comes twice.     *)
(***************************************************************************)
StoredWithinDepth ==
  \A p \in ingested : \E r \in Started :
    p.url \in PagesWithin(req[p.job].url, req[r].depth)

(***************************************************************************)
(* When nothing is under way and the job still holds its lock, every page   *)
(* within the requested depth has been stored (API_REFERENCE.md: "traversing*)
(* the web starting from the specified seed URL up to a maximum depth").    *)
(***************************************************************************)
CompleteAtQuiescence ==
  \A r \in Requests : pc[r] = "started" /\ active = r /\ Quiescent =>
    \A u \in PagesWithin(req[r].url, req[r].depth) : \E p \in ingested : p.url = u

(***************************************************************************)
(* The watchdog, or the handler itself, eventually releases every job lock. *)
(***************************************************************************)
LockReleased == active # NoJob ~> active = NoJob

(***************************************************************************)
(* Every link that was published is eventually crawled and handed to        *)
(* dbchan, also when workers die (and nobody purges the queues).            *)
(***************************************************************************)
LinkStored ==
  \A u \in Urls : enqueued[u] > 0 ~> \E p \in ingested : p.url = u
-------------------------------------------------------------------------------
(***************************************************************************)
(* The strengthenings that make the invariants above inductive.             *)
(***************************************************************************)

(* A consumer's result has been handed to dbchan. *)
CurIngested == \A c \in Consumers : cpc[c] # "idle" => cur[c] \in ingested

(* A depth that a started job asked for. *)
AskedFor(d) == \E r \in Started : d = req[r].depth

(* The maximum depth in Redis, or that a consumer works with, was asked for. *)
DepthInv ==
  /\ maxDepth # NoDepth => AskedFor(maxDepth)
  /\ \A c \in Consumers : cpc[c] \in {"exists", "add", "insert"} =>
       cur[c].depth < cmax[c] /\ AskedFor(cmax[c])

(* A request that holds the lock is on its way, or is about to delete it. *)
LockInv ==
  "redis" \notin FaultKinds =>
    \A r \in Requests : active = r =>
      \/ pc[r] \in {"setDepth", "setLast", "open", "addSeed", "insert", "started", "crashed"}
      \/ pc[r] = "del" /\ Head(del[r]) = "active"

(* The consumers that have found u new and not published it yet. *)
Publishing(u) == {c \in Consumers : cpc[c] \in {"add", "insert"} /\ NextUrl(c) = u}

(* A URL that is not in the Bloom filter has not been published. *)
DedupInv ==
  "redis" \notin FaultKinds => \A u \in Urls :
    /\ enqueued[u] + Cardinality(Publishing(u)) <= Cardinality(Consumers)
    /\ u \notin bloom =>
         enqueued[u] = 0 /\ \A c \in Publishing(u) : cpc[c] = "add"

(***************************************************************************)
(* What is under way belongs to jobs that were launched, and no result is   *)
(* deeper than a started job asked for.                                     *)
(***************************************************************************)
JobsInv ==
  /\ \A m \in TasksInFlight \cup ResultsInFlight \cup ingested : m.job \in Launched
  /\ \A m \in ResultsInFlight : m.depth > 0 =>
       \E r \in Started : m.depth <= req[r].depth

IndInv ==
  /\ TypeInv
  /\ Provenance /\ CurIngested
  /\ DepthBounded /\ DepthInv
  /\ LockInv
  /\ DedupInv
  /\ JobsInv
-------------------------------------------------------------------------------
(***************************************************************************)
(* What the documentation says and the code does not keep.                  *)
(***************************************************************************)

(***************************************************************************)
(* The scheduler "enforces deduplication" (ARCHITECTURE.md): no URL is      *)
(* published twice as a link.  BF.EXISTS and BF.ADD are two commands.       *)
(***************************************************************************)
EnqueuedAtMostOnce == \A u \in Urls : enqueued[u] <= 1

(* A task or a result of job r is in a queue or in a process. *)
UnderWay(r) ==
  \/ \E m \in TasksInFlight \cup ResultsInFlight : m.job = r
  \/ \E c \in Consumers : cpc[c] # "idle" /\ cur[c].job = r

(***************************************************************************)
(* "Only one active job is allowed at a time" (API_REFERENCE.md): once job  *)
(* q holds the lock and is answered, and the watchdog is not in the middle  *)
(* of a tick, no later request r gets the lock while messages of q are      *)
(* under way.  The ready messages that the watchdog and PurgeQueues see are *)
(* not all there are.                                                       *)
(***************************************************************************)
OneJobAtATime ==
  \A q, r \in Requests :
    [](pc[q] = "started" /\ active = q /\ pc[Watchdog] = "idle" /\ pc[r] = "idle" =>
         [](pc[r] = "started" /\ active = r => ~UnderWay(q)))

(***************************************************************************)
(* When /crawl answers "job started" (API_REFERENCE.md), the job that it    *)
(* has started still holds the lock, and crawler:max_depth is "the maximum  *)
(* depth to traverse" that it was asked for.  A watchdog that finds no      *)
(* activity time yet, or the late DELs of an earlier job's cleanup, run     *)
(* between the commands of StartJob.                                        *)
(***************************************************************************)
AnsweredJobIsIntact ==
  [][\A r \in Requests : pc[r] = "insert" /\ pc'[r] = "started"
       => active = r /\ maxDepth = req[r].depth]_vars
===============================================================================

------------------------------ MODULE CrawlState ------------------------------
(***************************************************************************)
(* The state the scheduler and the workers share: the Redis keys of the    *)
(* crawl job, the Bloom filter, and the RabbitMQ queues.  The components    *)
(* JobControl, Worker and ResultConsumer extend this module; Crawler        *)
(* composes them.                                                           *)
(*                                                                          *)
(* The web is static: the links that the worker extracts from page u are    *)
(* always Links[u].                                                         *)
(***************************************************************************)
EXTENDS Integers, Sequences, FiniteSets, Functions

CONSTANTS
  Urls,           \* the URLs of the (finite) web that is crawled
  Links,          \* Links[u]: UrlData.NextUrls of page u, in document order
  Queues,         \* common.Queues, the names of the task queues in order
  QueueOf,        \* where the consistent-hash exchange routes each URL
  MaxLength,      \* x-max-length of every queue
  Requests,       \* POST /crawl requests
  Seeds,          \* the URLs that they may name
  Depths,         \* the depths that they may ask for
  FalsePositives, \* URLs that BF.EXISTS reports though they were never added
  DropPercent,    \* DROP_NEXT_URL_RATE in percent
  FaultKinds,     \* the kinds of fault that may occur ...
  MaxFaults,      \* ... and how many of them may
  NoJob,          \* crawler:active_job does not exist
  NoDepth         \* crawler:max_depth does not exist

ASSUME WebAssumption ==
  /\ Links \in [Urls -> Seq(Urls)]
  /\ Seeds \subseteq Urls
  /\ Depths \subseteq Int
  /\ FalsePositives \subseteq Urls
  /\ DropPercent \in 0..100

ASSUME BrokerAssumption ==
  /\ Queues \in Seq(Range(Queues)) /\ Len(Queues) > 0
  /\ QueueOf \in [Urls -> Range(Queues)]
  /\ MaxLength \in Nat \ {0}

ASSUME NullAssumption ==
  /\ NoJob \notin Requests
  /\ NoDepth \notin Int
  /\ MaxFaults \in Nat

VARIABLES
  active,     \* crawler:active_job: the request that holds the job lock
  maxDepth,   \* crawler:max_depth
  lastAct,    \* crawler:last_activity_time: "none", "recent" or "stale"
  bloom,      \* the URLs added to url_bloom
  tasks,      \* tasks[q]: the ready messages of task queue q
  results,    \* the ready messages of result_queue
  connected,  \* the scheduler's RabbitMQ connection is open
  chans,      \* the scheduler's goroutines with an open channel on it
  faults      \* the faults that occurred so far

redisVars  == <<active, maxDepth, lastAct, bloom>>
brokerVars == <<tasks, results, connected, chans>>
sharedVars == <<redisVars, brokerVars, faults>>

(***************************************************************************)
(* CrawlMessage and UrlData.  The field job is not in the program: it       *)
(* names the request from whose seed the page was reached.                  *)
(***************************************************************************)
Task   == [url : Urls, depth : Nat, max : Int, job : Requests]
Result == [url : Urls, depth : Nat, job : Requests]

SharedTypeOK ==
  /\ active \in Requests \cup {NoJob}
  /\ maxDepth \in Int \cup {NoDepth}
  /\ lastAct \in {"none", "recent", "stale"}
  /\ bloom \subseteq Urls
  /\ tasks \in [Range(Queues) -> Seq(Task)]
  /\ results \in Seq(Result)
  /\ connected \in BOOLEAN
  /\ faults \in 0..MaxFaults

SharedInit ==
  /\ active = NoJob
  /\ maxDepth = NoDepth
  /\ lastAct = "none"
  /\ bloom = {}
  /\ tasks = [q \in Range(Queues) |-> <<>>]
  /\ results = <<>>
  /\ connected = TRUE
  /\ chans = {}
  /\ faults = 0
-------------------------------------------------------------------------------
(* A fault of kind k happens in this step. *)
Fault(k) == k \in FaultKinds /\ faults < MaxFaults /\ faults' = faults + 1

NoFault == UNCHANGED faults

(* A queue at x-max-length drops its oldest ready message. *)
Trim(q) == IF Len(q) > MaxLength THEN Tail(q) ELSE q

(* Mutant: the check asks another filter than the one that links are added to. *)
KnownElsewhere(u) == u \in FalsePositives

(* BF.EXISTS *)
CheckUrlDuplicate(u) == u \in bloom \/ u \in FalsePositives

(* BF.ADD *)
AddToBloom(u) == bloom' = bloom \cup {u}

(* Mutant: the last link that is kept is not looked at. *)
LimitLessOne(n) == ((n * (100 - DropPercent)) \div 100) - 1

(* How many of n extracted links are kept. *)
Limit(n) == (n * (100 - DropPercent)) \div 100

(* The exchange appends t to the queue that its routing key hashes to. *)
Enqueue(t) == tasks' = [tasks EXCEPT ![QueueOf[t.url]] = Trim(Append(@, t))]

(***************************************************************************)
(* InsertMessage(t) by p returned nil.  There are no publisher confirms:    *)
(* the message can still be lost with the connection.                       *)
(***************************************************************************)
InsertMessage(p, t) ==
  /\ p \in chans
  /\ \/ Enqueue(t) /\ NoFault
     \/ Fault("broker") /\ UNCHANGED tasks

(* InsertMessage by p returned an error: nothing was published. *)
InsertFails(p) ==
  /\ UNCHANGED tasks
  /\ (p \notin chans /\ NoFault) \/ Fault("broker")

(* p opens a channel on the scheduler's connection. *)
Channel(p) == connected /\ chans' = chans \cup {p}

(* The connection is not ready, or opening the channel fails. *)
ChannelFails ==
  /\ (~connected /\ NoFault) \/ Fault("broker")
  /\ UNCHANGED chans

Close(p) == chans' = chans \ {p}
===============================================================================

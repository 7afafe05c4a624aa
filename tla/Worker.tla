-------------------------------- MODULE Worker --------------------------------
(***************************************************************************)
(* The goroutines of the worker processes that consume the task queues.     *)
(* Each has a channel of its own with prefetch count 1 and acknowledges its *)
(* task by hand, when processMessage returns.                               *)
(***************************************************************************)
EXTENDS CrawlState

CONSTANTS
  Workers,     \* the consumer goroutines of all worker processes
  WorkerQueue  \* the task queue that each of them consumes

ASSUME WorkerAssumption == WorkerQueue \in [Workers -> Range(Queues)]

VARIABLES
  wpc,     \* wpc[w]: "idle", "crawling" or "acking"
  unacked  \* unacked[w]: the tasks delivered to w and not acknowledged

workerVars == <<wpc, unacked>>

WorkerTypeOK ==
  /\ wpc \in [Workers -> {"idle", "crawling", "acking"}]
  /\ unacked \in [Workers -> Seq(Task)]

WorkerInit ==
  /\ wpc = [w \in Workers |-> "idle"]
  /\ unacked = [w \in Workers |-> <<>>]
-------------------------------------------------------------------------------
(* Mutant: the tasks are consumed with autoAck. *)
DeliverAutoAck(w) ==
  /\ unacked[w] = <<>>
  /\ tasks[WorkerQueue[w]] # <<>>
  /\ tasks' = [tasks EXCEPT ![WorkerQueue[w]] = Tail(@)]
  /\ wpc' = [wpc EXCEPT ![w] = "crawling"]
  /\ UNCHANGED <<redisVars, results, connected, chans, faults, unacked>>

(* The broker delivers the oldest task to w, which holds no other. *)
Deliver(w) ==
  /\ unacked[w] = <<>>
  /\ tasks[WorkerQueue[w]] # <<>>
  /\ unacked' = [unacked EXCEPT ![w] = <<Head(tasks[WorkerQueue[w]])>>]
  /\ tasks' = [tasks EXCEPT ![WorkerQueue[w]] = Tail(@)]
  /\ wpc' = [wpc EXCEPT ![w] = "crawling"]
  /\ UNCHANGED <<redisVars, results, connected, chans, faults>>

(* CrawlUrl, or encoding its result, fails: processMessage returns. *)
CrawlFails(w) ==
  /\ wpc[w] = "crawling"
  /\ Fault("page")
  /\ wpc' = [wpc EXCEPT ![w] = "acking"]
  /\ UNCHANGED <<redisVars, brokerVars, unacked>>

(* Mutant: the worker counts the level that the scheduler adds to the links. *)
ResultBelow(t) == [url |-> t.url, depth |-> t.depth + 1, job |-> t.job]

(* The UrlData of a task, with the depth that the task came with. *)
ResultOf(t) == [url |-> t.url, depth |-> t.depth, job |-> t.job]

(* w publishes the result.  An error, or a loss, leaves no result behind. *)
PublishResult(w) ==
  /\ wpc[w] = "crawling"
  /\ \/ NoFault /\ results' = Trim(Append(results, ResultOf(Head(unacked[w]))))
     \/ Fault("broker") /\ UNCHANGED results
  /\ wpc' = [wpc EXCEPT ![w] = "acking"]
  /\ UNCHANGED <<redisVars, tasks, connected, chans, unacked>>

(* The deferred d.Ack: the broker forgets the task. *)
Ack(w) ==
  /\ wpc[w] = "acking"
  /\ wpc' = [wpc EXCEPT ![w] = "idle"]
  /\ unacked' = [unacked EXCEPT ![w] = <<>>]
  /\ UNCHANGED sharedVars

(* Mutant: the broker does not put the task back. *)
NoRequeue(w) == UNCHANGED tasks

(* The broker puts the task of w back where it was. *)
Requeue(w) == tasks' = [tasks EXCEPT ![WorkerQueue[w]] = Trim(unacked[w] \o @)]

(***************************************************************************)
(* The worker process dies, or loses its connection, before it has          *)
(* acknowledged.  A goroutine that survives cannot publish on the closed    *)
(* channel any more, so that a new goroutine in its place is all that       *)
(* matters.                                                                 *)
(***************************************************************************)
WorkerLost(w) ==
  /\ unacked[w] # <<>>
  /\ Fault("worker")
  /\ Requeue(w)
  /\ unacked' = [unacked EXCEPT ![w] = <<>>]
  /\ wpc' = [wpc EXCEPT ![w] = "idle"]
  /\ UNCHANGED <<redisVars, results, connected, chans>>

WorkerStep(w) == Deliver(w) \/ PublishResult(w) \/ Ack(w)

WorkerNext == \E w \in Workers : WorkerStep(w) \/ CrawlFails(w) \/ WorkerLost(w)
===============================================================================

------------------------------ MODULE JobControl ------------------------------
(***************************************************************************)
(* The scheduler's control of the crawl job: the handlers of POST /crawl    *)
(* and POST /stop (a goroutine per request) and the watchdog goroutine.     *)
(* Every Redis or RabbitMQ command is a step of its own, because the other  *)
(* goroutines run between any two of them.                                  *)
(***************************************************************************)
EXTENDS CrawlState

CONSTANTS
  Stops,    \* POST /stop requests
  Watchdog  \* the watchdog goroutine

ASSUME ProcessAssumption ==
  /\ Requests \cap Stops = {}
  /\ Watchdog \notin Requests \cup Stops

VARIABLES
  pc,     \* pc[p]: what goroutine p does next, or how its request ended
  req,    \* req[r]: the body of crawl request r
  del,    \* del[p]: the Redis keys that p has still to delete
  qi      \* qi[p]: the queue that p inspects or purges next

jobVars == <<pc, req, del, qi>>

Procs == Requests \cup Stops \cup {Watchdog}

Ended == {"started", "rejected", "failed", "stopped", "noJob", "crashed"}

Labels == Ended \cup
  {"idle", "check", "setActive", "setDepth", "setLast", "open", "addSeed",
   "insert", "del", "openPurge", "purge", "inspect", "lastActivity"}

Keys == {"active", "depth", "last"}

JobTypeOK ==
  /\ pc \in [Procs -> Labels]
  /\ req \in [Requests -> [url : Seeds, depth : Depths]]
  /\ del \in [Procs -> Seq(Keys)]
  /\ qi \in [Procs -> 1..(Len(Queues) + 1)]

JobInit ==
  /\ pc = [p \in Procs |-> "idle"]
  /\ req \in [Requests -> [url : Seeds, depth : Depths]]
  /\ del = [p \in Procs |-> <<>>]
  /\ qi = [p \in Procs |-> 1]
-------------------------------------------------------------------------------
Goto(p, label) == pc' = [pc EXCEPT ![p] = label]

(* p begins to delete the keys ks, in this order. *)
Delete(p, ks) == Goto(p, "del") /\ del' = [del EXCEPT ![p] = ks]

ForceCleanupJob(p) == Delete(p, <<"active", "depth", "last">>)

(* What p does once the keys are gone. *)
AfterDelete(p) ==
  IF p \in Requests THEN "failed" ELSE IF p \in Stops THEN "openPurge" ELSE "idle"

(***************************************************************************)
(* One DEL.  Its error is ignored, so a fault leaves the key in place.      *)
(***************************************************************************)
DelKey(p) ==
  /\ pc[p] = "del"
  /\ \/ /\ NoFault
        /\ active' = IF Head(del[p]) = "active" THEN NoJob ELSE active
        /\ maxDepth' = IF Head(del[p]) = "depth" THEN NoDepth ELSE maxDepth
        /\ lastAct' = IF Head(del[p]) = "last" THEN "none" ELSE lastAct
     \/ Fault("redis") /\ UNCHANGED <<active, maxDepth, lastAct>>
  /\ del' = [del EXCEPT ![p] = Tail(@)]
  /\ Goto(p, IF Tail(del[p]) = <<>> THEN AfterDelete(p) ELSE "del")
  /\ UNCHANGED <<bloom, brokerVars, req, qi>>
-------------------------------------------------------------------------------
(* POST /crawl *)

Submit(r) ==
  /\ pc[r] = "idle"
  /\ Goto(r, "check")
  /\ UNCHANGED <<sharedVars, req, del, qi>>

(* EXISTS crawler:active_job *)
IsJobActive == active # NoJob

CheckActive(r) ==
  /\ pc[r] = "check"
  /\ \/ NoFault /\ Goto(r, IF IsJobActive THEN "rejected" ELSE "setActive")
     \/ Fault("redis") /\ Goto(r, "failed")
  /\ UNCHANGED <<redisVars, brokerVars, req, del, qi>>

(* Mutant: SET instead of SETNX. *)
SetAlways(r) == r

(***************************************************************************)
(* StartJob: SETNX crawler:active_job, then SET crawler:max_depth and SET   *)
(* crawler:last_activity_time.  A command that returns an error may or may  *)
(* not have taken effect; the SETs that fail undo the ones before them.     *)
(***************************************************************************)
SetNX(r) == IF active = NoJob THEN r ELSE active

SetActive(r) ==
  /\ pc[r] = "setActive"
  /\ \/ /\ NoFault
        /\ active' = SetNX(r)
        /\ Goto(r, IF active = NoJob THEN "setDepth" ELSE "rejected")
     \/ Fault("redis") /\ active' \in {active, SetNX(r)} /\ Goto(r, "failed")
  /\ UNCHANGED <<maxDepth, lastAct, bloom, brokerVars, req, del, qi>>

SetDepth(r) ==
  /\ pc[r] = "setDepth"
  /\ \/ /\ NoFault
        /\ maxDepth' = req[r].depth
        /\ Goto(r, "setLast")
        /\ UNCHANGED del
     \/ /\ Fault("redis")
        /\ maxDepth' \in {maxDepth, req[r].depth}
        /\ Delete(r, <<"active">>)
  /\ UNCHANGED <<active, lastAct, bloom, brokerVars, req, qi>>

SetLast(r) ==
  /\ pc[r] = "setLast"
  /\ \/ /\ NoFault
        /\ lastAct' = "recent"
        /\ Goto(r, "open")
        /\ UNCHANGED del
     \/ /\ Fault("redis")
        /\ lastAct' \in {lastAct, "recent"}
        /\ Delete(r, <<"active", "depth">>)
  /\ UNCHANGED <<active, maxDepth, bloom, brokerVars, req, qi>>

(* Mutant: the handler gives up without releasing the job. *)
OpenOrGiveUp(r) ==
  /\ pc[r] = "open"
  /\ \/ Channel(r) /\ NoFault /\ Goto(r, "addSeed")
     \/ ChannelFails /\ Goto(r, "failed")
  /\ UNCHANGED <<redisVars, tasks, results, connected, req, del, qi>>

(* The handler opens a channel, or gives the job up (500, 503). *)
OpenChannel(r) ==
  /\ pc[r] = "open"
  /\ \/ Channel(r) /\ NoFault /\ Goto(r, "addSeed") /\ UNCHANGED del
     \/ ChannelFails /\ ForceCleanupJob(r)
  /\ UNCHANGED <<redisVars, tasks, results, connected, req, qi>>

(* AddToBloom(seed); an error is only logged. *)
AddSeed(r) ==
  /\ pc[r] = "addSeed"
  /\ \/ NoFault /\ AddToBloom(req[r].url)
     \/ Fault("redis") /\ UNCHANGED bloom
  /\ Goto(r, "insert")
  /\ UNCHANGED <<active, maxDepth, lastAct, brokerVars, req, del, qi>>

SeedTask(r) ==
  [url |-> req[r].url, depth |-> 0, max |-> req[r].depth, job |-> r]

(* InsertMessage(seed, 0, depth): 200 "job started", or the job is given up. *)
InsertSeed(r) ==
  /\ pc[r] = "insert"
  /\ \/ InsertMessage(r, SeedTask(r)) /\ Goto(r, "started") /\ UNCHANGED del
     \/ InsertFails(r) /\ ForceCleanupJob(r)
  /\ Close(r)
  /\ UNCHANGED <<redisVars, results, connected, req, qi>>
-------------------------------------------------------------------------------
(* POST /stop *)

(* IsJobActive decides between 400 and ForceCleanupJob. *)
StopCheck(s) ==
  /\ pc[s] = "idle"
  /\ \/ IsJobActive /\ NoFault /\ ForceCleanupJob(s)
     \/ ~IsJobActive /\ NoFault /\ Goto(s, "noJob") /\ UNCHANGED del
     \/ Fault("redis") /\ Goto(s, "failed") /\ UNCHANGED del
  /\ UNCHANGED <<redisVars, brokerVars, req, qi>>

(* Without a connection /stop still answers 200 and purges nothing. *)
OpenPurge(s) ==
  /\ pc[s] = "openPurge"
  /\ \/ Channel(s) /\ NoFault /\ Goto(s, "purge")
     \/ ~connected /\ NoFault /\ Goto(s, "stopped") /\ UNCHANGED chans
     \/ Fault("broker") /\ Goto(s, "failed") /\ UNCHANGED chans
  /\ qi' = [qi EXCEPT ![s] = 1]
  /\ UNCHANGED <<redisVars, tasks, results, connected, req, del>>

(***************************************************************************)
(* PurgeQueues: one queue.purge, which drops the ready messages only; the   *)
(* result queue comes last.                                                 *)
(***************************************************************************)
PurgeQueue(s) ==
  /\ pc[s] = "purge"
  /\ \/ /\ s \in chans /\ NoFault /\ qi[s] <= Len(Queues)
        /\ tasks' = [tasks EXCEPT ![Queues[qi[s]]] = <<>>]
        /\ qi' = [qi EXCEPT ![s] = @ + 1]
        /\ UNCHANGED <<results, chans, pc>>
     \/ /\ s \in chans /\ NoFault /\ qi[s] = Len(Queues) + 1
        /\ results' = <<>>
        /\ Goto(s, "stopped")
        /\ Close(s)
        /\ UNCHANGED <<tasks, qi>>
     \/ /\ (s \notin chans /\ NoFault) \/ Fault("broker")
        /\ Goto(s, "failed")
        /\ Close(s)
        /\ UNCHANGED <<tasks, results, qi>>
  /\ UNCHANGED <<redisVars, connected, req, del>>
-------------------------------------------------------------------------------
(* The watchdog's checkJobStatus *)

(***************************************************************************)
(* A tick that finds an active job and opens a channel.  All other ticks    *)
(* return without any effect.                                               *)
(***************************************************************************)
WatchdogTick ==
  /\ pc[Watchdog] = "idle"
  /\ IsJobActive
  /\ Channel(Watchdog)
  /\ Goto(Watchdog, "inspect")
  /\ qi' = [qi EXCEPT ![Watchdog] = 1]
  /\ UNCHANGED <<redisVars, tasks, results, connected, faults, req, del>>

(* QueueDeclarePassive reports the ready messages, not the unacked ones. *)
ReadyMessages(i) ==
  IF i <= Len(Queues) THEN Len(tasks[Queues[i]]) ELSE Len(results)

(* The watchdog inspects one queue; it gives up if it is not empty. *)
InspectQueue ==
  /\ pc[Watchdog] = "inspect"
  /\ \/ /\ Watchdog \in chans /\ NoFault /\ ReadyMessages(qi[Watchdog]) = 0
        /\ IF qi[Watchdog] <= Len(Queues)
             THEN qi' = [qi EXCEPT ![Watchdog] = @ + 1] /\ UNCHANGED pc
             ELSE Goto(Watchdog, "lastActivity") /\ UNCHANGED qi
        /\ UNCHANGED chans
     \/ /\ \/ (Watchdog \notin chans \/ ReadyMessages(qi[Watchdog]) > 0) /\ NoFault
           \/ Fault("broker")
        /\ Goto(Watchdog, "idle")
        /\ Close(Watchdog)
        /\ UNCHANGED qi
  /\ UNCHANGED <<redisVars, tasks, results, connected, req, del>>

(* Mutant: without an activity time the watchdog leaves the job alone. *)
NeedLastActivity ==
  /\ pc[Watchdog] = "lastActivity"
  /\ \/ lastAct = "stale" /\ NoFault /\ ForceCleanupJob(Watchdog)
     \/ /\ (lastAct # "stale" /\ NoFault) \/ Fault("redis")
        /\ Goto(Watchdog, "idle") /\ UNCHANGED del
  /\ Close(Watchdog)
  /\ UNCHANGED <<redisVars, tasks, results, connected, req, qi>>

(***************************************************************************)
(* GET crawler:last_activity_time.  A missing key and a Redis error count   *)
(* as inactivity as well as a time more than idleTimeout ago.               *)
(***************************************************************************)
CheckLastActivity ==
  /\ pc[Watchdog] = "lastActivity"
  /\ \/ /\ (lastAct \in {"none", "stale"} /\ NoFault) \/ Fault("redis")
        /\ ForceCleanupJob(Watchdog)
     \/ lastAct = "recent" /\ NoFault /\ Goto(Watchdog, "idle") /\ UNCHANGED del
  /\ Close(Watchdog)
  /\ UNCHANGED <<redisVars, tasks, results, connected, req, qi>>
-------------------------------------------------------------------------------
(* idleTimeout seconds pass without a result. *)
TimePasses ==
  /\ lastAct = "recent"
  /\ lastAct' = "stale"
  /\ UNCHANGED <<active, maxDepth, bloom, brokerVars, faults, jobVars>>

(***************************************************************************)
(* TTL_JOB hours after StartJob its keys expire; only the activity time is  *)
(* ever refreshed.                                                          *)
(***************************************************************************)
JobExpires ==
  /\ active # NoJob
  /\ pc[active] \notin {"setDepth", "setLast"}
  /\ Fault("ttl")
  /\ active' = NoJob
  /\ maxDepth' = NoDepth
  /\ lastAct' \in {lastAct, "none"}
  /\ UNCHANGED <<bloom, brokerVars, jobVars>>

(* The steps of the handler of crawl request r, once it is submitted. *)
CrawlStep(r) ==
  \/ CheckActive(r) \/ SetActive(r) \/ SetDepth(r) \/ SetLast(r)
  \/ OpenChannel(r) \/ AddSeed(r) \/ InsertSeed(r) \/ DelKey(r)

(* The steps of the handler of stop request s, once IsJobActive answered. *)
StopStep(s) == DelKey(s) \/ OpenPurge(s) \/ PurgeQueue(s)

WatchdogStep ==
  WatchdogTick \/ InspectQueue \/ CheckLastActivity \/ DelKey(Watchdog)

JobNext ==
  \/ \E r \in Requests : Submit(r) \/ CrawlStep(r)
  \/ \E s \in Stops : StopCheck(s) \/ StopStep(s)
  \/ WatchdogStep
  \/ TimePasses
  \/ JobExpires

(* The scheduler process dies and restarts: its handlers are gone. *)
JobCrash ==
  /\ pc' = [p \in Procs |->
              IF pc[p] \in Ended \cup {"idle"} THEN pc[p]
              ELSE IF p = Watchdog THEN "idle" ELSE "crashed"]
  /\ del' = [p \in Procs |-> <<>>]
  /\ UNCHANGED <<req, qi>>
===============================================================================

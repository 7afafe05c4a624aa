---------------------------- MODULE ResultConsumer ----------------------------
(***************************************************************************)
(* The scheduler's goroutines that consume result_queue (processResult) and *)
(* the connection they share.  A result is acknowledged automatically when  *)
(* the broker sends it, so it is only in this process from then on.         *)
(***************************************************************************)
EXTENDS CrawlState

CONSTANTS
  Consumers,  \* the result consumer goroutines
  NoResult    \* a consumer that is processing nothing

ASSUME ConsumerAssumption == NoResult \notin Result /\ IsFiniteSet(Consumers)

VARIABLES
  inbox,     \* inbox[c]: the results sent to c that it has not looked at
  cpc,       \* cpc[c]: what c does next
  cur,       \* cur[c]: the result that c is processing
  cmax,      \* cmax[c]: the maximum depth that c read for it
  link,      \* link[c]: the index of the link that c handles next
  ingested,  \* history: the results handed to dbchan
  enqueued   \* history: how often each URL was published as a link

consumerVars == <<inbox, cpc, cur, cmax, link, ingested, enqueued>>

ConsumerLabels == {"idle", "touch", "depth", "exists", "add", "insert"}

ConsumerTypeOK ==
  /\ inbox \in [Consumers -> Seq(Result)]
  /\ cpc \in [Consumers -> ConsumerLabels]
  /\ cur \in [Consumers -> Result \cup {NoResult}]
  /\ cmax \in [Consumers -> Int]
  /\ link \in [Consumers -> Nat]
  /\ ingested \subseteq Result
  /\ enqueued \in [Urls -> Nat]

ConsumerInit ==
  /\ inbox = [c \in Consumers |-> <<>>]
  /\ cpc = [c \in Consumers |-> "idle"]
  /\ cur = [c \in Consumers |-> NoResult]
  /\ cmax = [c \in Consumers |-> 0]
  /\ link = [c \in Consumers |-> 0]
  /\ ingested = {}
  /\ enqueued = [u \in Urls |-> 0]
-------------------------------------------------------------------------------
(* c opens a channel and starts to consume. *)
Consume(c) ==
  /\ cpc[c] = "idle"
  /\ c \notin chans
  /\ Channel(c)
  /\ UNCHANGED <<redisVars, tasks, results, connected, faults, consumerVars>>

(* The broker sends the oldest result to c and forgets it (autoAck). *)
DeliverResult(c) ==
  /\ c \in chans
  /\ results # <<>>
  /\ inbox' = [inbox EXCEPT ![c] = Append(@, Head(results))]
  /\ results' = Tail(results)
  /\ UNCHANGED <<redisVars, tasks, connected, chans, faults,
                 cpc, cur, cmax, link, ingested, enqueued>>

(* processResult starts: dbchan <- body. *)
TakeResult(c) ==
  /\ cpc[c] = "idle"
  /\ inbox[c] # <<>>
  /\ cur' = [cur EXCEPT ![c] = Head(inbox[c])]
  /\ inbox' = [inbox EXCEPT ![c] = Tail(@)]
  /\ ingested' = ingested \cup {Head(inbox[c])}
  /\ cpc' = [cpc EXCEPT ![c] = "touch"]
  /\ UNCHANGED <<sharedVars, cmax, link, enqueued>>

(* SET crawler:last_activity_time; an error is only logged. *)
Touch(c) ==
  /\ cpc[c] = "touch"
  /\ \/ NoFault /\ lastAct' = "recent"
     \/ Fault("redis") /\ UNCHANGED lastAct
  /\ cpc' = [cpc EXCEPT ![c] = "depth"]
  /\ UNCHANGED <<active, maxDepth, bloom, brokerVars,
                 inbox, cur, cmax, link, ingested, enqueued>>

(* c is done with its result. *)
Finish(c) ==
  /\ cpc' = [cpc EXCEPT ![c] = "idle"]
  /\ cur' = [cur EXCEPT ![c] = NoResult]
  /\ cmax' = [cmax EXCEPT ![c] = 0]
  /\ link' = [link EXCEPT ![c] = 0]

(* Mutant: the pages at the maximum depth are expanded, too. *)
DescendsTooFar(d, max) == d <= max

(* The links of a page at depth d are followed in a job of depth max. *)
Descends(d, max) == d < max

(* Mutant: without crawler:max_depth the links are always followed. *)
MaxDepthBelow(c) == IF maxDepth = NoDepth THEN cur[c].depth + 1 ELSE maxDepth

(* Without crawler:max_depth the page's own depth stands in for it. *)
MaxDepthFor(c) == IF maxDepth = NoDepth THEN cur[c].depth ELSE maxDepth

FollowLinks(c, max) ==
  IF Descends(cur[c].depth, max)
    THEN /\ cpc' = [cpc EXCEPT ![c] = "exists"]
         /\ cmax' = [cmax EXCEPT ![c] = max]
         /\ link' = [link EXCEPT ![c] = 1]
         /\ UNCHANGED cur
    ELSE Finish(c)

(* GetMaxDepth; an error counts as a missing key. *)
ReadDepth(c) ==
  /\ cpc[c] = "depth"
  /\ \/ NoFault /\ FollowLinks(c, MaxDepthFor(c))
     \/ Fault("redis") /\ FollowLinks(c, cur[c].depth)
  /\ UNCHANGED <<redisVars, brokerVars, inbox, ingested, enqueued>>

(* The link that c handles. *)
NextUrl(c) == Links[cur[c].url][link[c]]

(* c goes on to the next link. *)
Advance(c) ==
  /\ cpc' = [cpc EXCEPT ![c] = "exists"]
  /\ link' = [link EXCEPT ![c] = @ + 1]
  /\ UNCHANGED <<cur, cmax>>

(* BF.EXISTS: a link that is known, or cannot be checked, is skipped. *)
CheckLink(c) ==
  /\ cpc[c] = "exists"
  /\ \/ link[c] > Limit(Len(Links[cur[c].url])) /\ NoFault /\ Finish(c)
     \/ /\ link[c] <= Limit(Len(Links[cur[c].url]))
        /\ (CheckUrlDuplicate(NextUrl(c)) /\ NoFault) \/ Fault("redis")
        /\ Advance(c)
     \/ /\ link[c] <= Limit(Len(Links[cur[c].url]))
        /\ ~CheckUrlDuplicate(NextUrl(c)) /\ NoFault
        /\ cpc' = [cpc EXCEPT ![c] = "add"]
        /\ UNCHANGED <<cur, cmax, link>>
  /\ UNCHANGED <<redisVars, brokerVars, inbox, ingested, enqueued>>

(* BF.ADD; an error is ignored. *)
AddLink(c) ==
  /\ cpc[c] = "add"
  /\ \/ NoFault /\ AddToBloom(NextUrl(c))
     \/ Fault("redis") /\ UNCHANGED bloom
  /\ cpc' = [cpc EXCEPT ![c] = "insert"]
  /\ UNCHANGED <<active, maxDepth, lastAct, brokerVars,
                 inbox, cur, cmax, link, ingested, enqueued>>

(* Mutant: the links of a page stay at its level. *)
LinkTaskSameLevel(c) == [url |-> NextUrl(c), depth |-> cur[c].depth,
                         max |-> cmax[c], job |-> cur[c].job]

(* The task of the link that c handles, one level below its page. *)
LinkTask(c) == [url |-> NextUrl(c), depth |-> cur[c].depth + 1,
                max |-> cmax[c], job |-> cur[c].job]

(* InsertMessage(link, depth + 1, maxDepth); an error is only logged. *)
InsertLink(c) ==
  /\ cpc[c] = "insert"
  /\ \/ /\ InsertMessage(c, LinkTask(c))
        /\ enqueued' = [enqueued EXCEPT ![NextUrl(c)] = @ + 1]
     \/ InsertFails(c) /\ UNCHANGED enqueued
  /\ Advance(c)
  /\ UNCHANGED <<redisVars, results, connected, chans, inbox, ingested>>
-------------------------------------------------------------------------------
(***************************************************************************)
(* The connection closes.  Its channels close with it, and the AMQP client  *)
(* drops the results that it has buffered.                                  *)
(***************************************************************************)
ConnLost ==
  /\ connected
  /\ Fault("conn")
  /\ connected' = FALSE
  /\ chans' = {}
  /\ inbox' = [c \in Consumers |-> <<>>]
  /\ UNCHANGED <<redisVars, tasks, results, cpc, cur, cmax, link, ingested, enqueued>>

(* The connection monitor reconnects and declares the topology again. *)
Reconnect ==
  /\ ~connected
  /\ connected' = TRUE
  /\ UNCHANGED <<redisVars, tasks, results, chans, faults, consumerVars>>

ConsumerStep(c) ==
  \/ Consume(c) \/ TakeResult(c) \/ Touch(c) \/ ReadDepth(c)
  \/ CheckLink(c) \/ AddLink(c) \/ InsertLink(c)

ConsumerNext ==
  \/ \E c \in Consumers : DeliverResult(c) \/ ConsumerStep(c)
  \/ ConnLost
  \/ Reconnect

(* The scheduler process dies: what its consumers held is lost. *)
ConsumerCrash ==
  /\ inbox' = [c \in Consumers |-> <<>>]
  /\ cpc' = [c \in Consumers |-> "idle"]
  /\ cur' = [c \in Consumers |-> NoResult]
  /\ cmax' = [c \in Consumers |-> 0]
  /\ link' = [c \in Consumers |-> 0]
  /\ UNCHANGED <<ingested, enqueued>>
===============================================================================

------------------------------ MODULE MCCrawler ------------------------------
(***************************************************************************)
(* Small webs and deployments for TLC.                                      *)
(***************************************************************************)
EXTENDS Completeness, TLC

CONSTANTS s, a, b, v, r1, r2, stop1, w1, w2, c1, c2, watchdog

OneQueue  == <<"queue_1">>
TwoQueues == <<"queue_1", "queue_2">>

(* Two pages at depth 1 that share a link: its discovery is a race. *)
Diamond == s :> <<a, b>> @@ a :> <<s, v>> @@ b :> <<v>> @@ v :> <<>>

(* Its levels, and the pages that every path to a page has passed. *)
DiamondLevel == s :> 0 @@ a :> 1 @@ b :> 1 @@ v :> 2
DiamondAbove == [u \in Urls |-> {s, u}]

(* b is linked from the seed and from a. *)
Shortcut == s :> <<a, b>> @@ a :> <<b>> @@ b :> <<v>> @@ v :> <<>>

(* A cycle of two pages. *)
Cycle == s :> <<a>> @@ a :> <<s>>

(* The consistent-hash exchange with one or with two queues. *)
OneQueueOf == [u \in Urls |-> "queue_1"]
TwoQueueOf == [u \in Urls |-> IF u = a THEN "queue_2" ELSE "queue_1"]

(* Goroutines that run the same code, workers on the same queue. *)
Symmetry == Permutations(Consumers) \cup Permutations(Workers) \cup Permutations(Requests)

OneQueueWorkers == [w \in Workers |-> "queue_1"]
TwoQueueWorkers == w1 :> "queue_1" @@ w2 :> "queue_2"

(* The inductive invariant of completeness, on the diamond. *)
DiamondInv ==
  /\ IntactOn(DiamondLevel, DiamondAbove)
  /\ \A r \in Requests : Layered(req[r].url, req[r].depth, DiamondLevel, DiamondAbove)
===============================================================================

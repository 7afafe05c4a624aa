------------------------------ MODULE RobotsCache ------------------------------
(***************************************************************************)
(* The robots.txt cache of a worker process.  An entry is the group of      *)
(* rules that applies to the crawler, or nil, which allows everything.      *)
(* Entries are written after the request, under a mutex of their own, and   *)
(* never removed.                                                           *)
(***************************************************************************)
EXTENDS Sites

VARIABLES
  cache,      \* cache[h]: "miss", "group" or "nil"
  robotsGets  \* history: how often the robots.txt of each host was requested

robotsVars == <<cache, robotsGets>>

RobotsTypeOK ==
  /\ cache \in [Hosts -> {"miss", "group", "nil"}]
  /\ robotsGets \in [Hosts -> Nat]

RobotsInit ==
  /\ cache = [h \in Hosts |-> "miss"]
  /\ robotsGets = [h \in Hosts |-> 0]
-------------------------------------------------------------------------------
(* What the site says. *)
Served(h) == IF h \in Rules THEN "group" ELSE "nil"

(* The entries that a request may lead to: nil also for an unreadable body. *)
Entries(h) == {Served(h)} \cup (IF h \in Garbling THEN {"nil"} ELSE {})

(* GET robots.txt is sent. *)
RequestRobots(h) ==
  /\ robotsGets' = [robotsGets EXCEPT ![h] = @ + 1]
  /\ UNCHANGED cache

(* Mutant: the entry is not written. *)
ForgetRobots(h, entry) == UNCHANGED robotsVars

(* The answer goes to the cache, over whatever is there. *)
CacheRobots(h, entry) ==
  /\ cache' = [cache EXCEPT ![h] = entry]
  /\ UNCHANGED robotsGets

(* The Crawl-delay of an entry, 0 if there is none. *)
DelayOf(h, entry) == IF entry = "group" THEN CrawlDelay[h] ELSE 0
===============================================================================

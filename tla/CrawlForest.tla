----------------------------- MODULE CrawlForest -----------------------------
(***************************************************************************)
(* What the crawler promises, whatever happens between its processes: a job *)
(* is launched once, by a request that has taken the free lock for it, and  *)
(* the pages of a launched job that reach the database's channel grow from  *)
(* its seed, link by link, no deeper than a request asked for.  The lock    *)
(* may be released at any time, so that jobs can overlap.  Queues, workers, *)
(* consumers and faults are not visible here.                               *)
(***************************************************************************)
EXTENDS Integers, Functions

CONSTANTS
  Urls,      \* the URLs of the web
  Links,     \* Links[u]: the links of page u
  Requests,  \* the requests to start a job
  NoJob      \* nobody holds the lock

VARIABLES
  asked,     \* asked[r]: the seed and the depth that request r names
  lock,      \* the request that holds the job lock
  begun,     \* the requests that may have written their depth
  starting,  \* the requests that have taken the lock and may launch their job
  launched,  \* the requests that were answered "job started"
  stored     \* the pages handed to dbchan, on their way to the database

vars == <<asked, lock, begun, starting, launched, stored>>

Page(u, d, r) == [url |-> u, depth |-> d, job |-> r]

Init ==
  /\ asked \in [Requests -> [url : Urls, depth : Int]]
  /\ lock = NoJob
  /\ begun = {}
  /\ starting = {}
  /\ launched = {}
  /\ stored = {}
-------------------------------------------------------------------------------
(* r takes the free lock, and may fail to learn of it. *)
Acquire(r) ==
  /\ lock = NoJob
  /\ lock' = r
  /\ begun' = begun \cup {r}
  /\ starting' \in {starting, starting \cup {r}}
  /\ UNCHANGED <<asked, launched, stored>>

(* The requests R come to an end without any job. *)
Abort(R) ==
  /\ begun' = begun \cup R
  /\ starting' = starting \ R
  /\ UNCHANGED <<asked, lock, launched, stored>>

(* The seed of r is published. *)
Launch(r) ==
  /\ r \in starting
  /\ starting' = starting \ {r}
  /\ launched' = launched \cup {r}
  /\ UNCHANGED <<asked, lock, begun, stored>>

Release ==
  /\ lock # NoJob
  /\ lock' = NoJob
  /\ UNCHANGED <<asked, begun, starting, launched, stored>>

StoreSeed(r) ==
  /\ r \in launched
  /\ stored' = stored \cup {Page(asked[r].url, 0, r)}
  /\ UNCHANGED <<asked, lock, begun, starting, launched>>

(* A page that p links to, one level below p. *)
StoreLink(p, u) ==
  /\ p \in stored
  /\ u \in Range(Links[p.url])
  /\ \E r \in begun : p.depth < asked[r].depth
  /\ stored' = stored \cup {Page(u, p.depth + 1, p.job)}
  /\ UNCHANGED <<asked, lock, begun, starting, launched>>

Next ==
  \/ \E r \in Requests : Acquire(r) \/ Launch(r) \/ StoreSeed(r)
  \/ \E R \in SUBSET Requests : Abort(R)
  \/ Release
  \/ \E p \in stored : \E u \in Range(Links[p.url]) : StoreLink(p, u)

Spec == Init /\ [][Next]_vars
===============================================================================

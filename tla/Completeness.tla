----------------------------- MODULE Completeness -----------------------------
(***************************************************************************)
(* When a crawl is complete: what CompleteAtQuiescence needs of the web and *)
(* of the run, and the inductive invariant behind it.                       *)
(***************************************************************************)
EXTENDS Crawler

(***************************************************************************)
(* The web below seed s falls into levels: down to depth d, a link leads    *)
(* one level down, or back to a page above its own, that is, one that every *)
(* path from the seed to it has passed (the home page, the parent, itself). *)
(***************************************************************************)
Layered(s, d, level, above) ==
  /\ level[s] = 0 /\ above[s] \subseteq {s}
  /\ \A u \in Urls : level[u] < d =>
       \A v \in Range(Links[u]) :
         \/ v \in above[u] /\ level[v] <= level[u]
         \/ level[v] = level[u] + 1 /\ above[v] \subseteq above[u] \cup {v}

LayeredWeb ==
  \A s \in Seeds, d \in Depths :
    \E level \in [Urls -> Nat], above \in [Urls -> SUBSET Urls] :
      Layered(s, d, level, above)

(* No queue is full, so that none drops a message. *)
NoOverflow ==
  /\ \A q \in Range(Queues) : Len(tasks[q]) < MaxLength
  /\ Len(results) < MaxLength

(* One job is started. *)
Undisturbed == NoOverflow /\ \A q, r \in Started : q = r

(***************************************************************************)
(* The pages that a single crawl has stored when nothing is under way are   *)
(* those within its depth, neither fewer nor more (API_REFERENCE.md, POST   *)
(* /crawl: "up to a maximum depth").                                        *)
(***************************************************************************)
ExactAtQuiescence ==
  \A r \in Launched : Started = {r} /\ active = r /\ Quiescent =>
    {p.url : p \in ingested} = PagesWithin(req[r].url, req[r].depth)
-------------------------------------------------------------------------------
(***************************************************************************)
(* The strengthening that makes StoredWithinDepth inductive: a stored page  *)
(* lies its own depth below its seed, and some started job asked for that.  *)
(***************************************************************************)
PathInv ==
  \A p \in ingested :
    /\ p.url \in PagesWithin(req[p.job].url, p.depth)
    /\ p.depth > 0 => \E r \in Started : p.depth <= req[r].depth
    /\ p.job \in Started
-------------------------------------------------------------------------------
(* Faults that lose no message: workers die, Redis fails, the keys expire. *)
HarmlessFaults == FaultKinds \subseteq {"worker", "redis", "ttl"}

Asked == {t.url : t \in TasksInFlight}

Answered == {m.url : m \in ResultsInFlight \cup ingested}

(***************************************************************************)
(* A seed that was answered with "job started", and a link that was         *)
(* published, is at any time in a task queue, with a worker, in the result  *)
(* queue, with a consumer, or stored: the worker publishes before it        *)
(* acknowledges, and its prefetch is one.                                   *)
(***************************************************************************)
NothingMislaid ==
  /\ \A r \in Launched : req[r].url \in Asked \cup Answered
  /\ \A u \in Urls : enqueued[u] > 0 => u \in Asked \cup Answered

(* A worker has one task at most. *)
Prefetch == \A w \in Workers : Len(unacked[w]) <= 1

(* A worker acknowledges a task that it has published the result of. *)
AckedLast == \A w \in Workers : wpc[w] = "acking" => Head(unacked[w]).url \in Answered
-------------------------------------------------------------------------------
(* No fault occurs, but workers may die, and the job's keys expire. *)
OnlyWorkersFail == FaultKinds \subseteq {"worker", "ttl"}

(* Who sends has a channel. *)
Steady ==
  /\ connected
  /\ \A r \in Requests : pc[r] \in {"addSeed", "insert"} => r \in chans
  /\ \A c \in Consumers : cpc[c] # "idle" \/ inbox[c] # <<>> => c \in chans
  /\ Prefetch

NothingSent == TasksInFlight = {} /\ ResultsInFlight = {} /\ ingested = {}

(* Before the first job there is nothing. *)
Fresh ==
  Started = {} =>
    /\ active = NoJob /\ bloom = {}
    /\ NothingSent
    /\ \A p \in Procs : pc[p] \notin {"del", "openPurge", "purge", "inspect", "lastActivity"}

(* Job r runs, and whoever is about to clean up begins with its lock. *)
Undamaged(r) ==
  /\ pc[r] \in {"setDepth", "setLast", "open", "addSeed", "insert", "started"}
  /\ pc[r] # "setDepth" => maxDepth = req[r].depth
  /\ \A p \in Procs :
       /\ pc[p] \notin {"openPurge", "purge"}
       /\ pc[p] = "del" => Head(del[p]) = "active"

(* The seed is the first that is in the Bloom filter, and then in a queue. *)
SeedFirst(r) ==
  /\ pc[r] # "started" =>
       NothingSent /\ bloom = IF pc[r] = "insert" THEN {req[r].url} ELSE {}
  /\ pc[r] = "started" => req[r].url \in bloom

(* Messages and pages are in the Bloom filter, and carry their level. *)
OnLevel(level) ==
  \A m \in TasksInFlight \cup ResultsInFlight \cup ingested :
    m.depth = level[m.url] /\ m.url \in bloom

(* A consumer follows new links only, in the depth that r asked for. *)
Descending(r, above) ==
  \A c \in Consumers :
    /\ cpc[c] \in {"exists", "add", "insert"} => cmax[c] = req[r].depth
    /\ cpc[c] \in {"add", "insert"} => NextUrl(c) \notin above[cur[c].url]
    /\ cpc[c] = "insert" => NextUrl(c) \in bloom

(* The links that a consumer has added and not published yet. *)
Added == {NextUrl(c) : c \in {k \in Consumers : cpc[k] = "insert"}}

(* What is in the Bloom filter is stored or under way. *)
Carried(r) ==
  /\ bloom \subseteq Answered \cup Asked \cup Added
                       \cup IF pc[r] = "insert" THEN {req[r].url} ELSE {}
  /\ AckedLast

(* A consumer will still look at link i of page p. *)
Pending(p, i) ==
  \E c \in Consumers :
    /\ cur[c] = p
    /\ \/ cpc[c] \in {"touch", "depth"}
       \/ cpc[c] \in {"exists", "add", "insert"} /\ link[c] <= i

(* The links of a stored page are in the Bloom filter, or looked at next. *)
Expanded(r) ==
  \A p \in ingested : p.depth < req[r].depth =>
    \A i \in DOMAIN Links[p.url] : Links[p.url][i] \in bloom \/ Pending(p, i)

(* The only job that was started, while it holds its lock. *)
Running(r, level, above) ==
  /\ Started = {r} /\ active = r
  /\ Layered(req[r].url, req[r].depth, level, above)

JobIntact(r, level, above) ==
  /\ Undamaged(r) /\ SeedFirst(r)
  /\ OnLevel(level) /\ (\A u \in bloom : above[u] \subseteq bloom)
  /\ Descending(r, above) /\ Carried(r) /\ Expanded(r)

(* What holds all along of a single crawl, for any way to see the web in levels. *)
IntactOn(level, above) ==
  /\ Steady /\ Fresh
  /\ \A r \in Requests : Running(r, level, above) => JobIntact(r, level, above)
===============================================================================

----------------------------- MODULE RequestTimes -----------------------------
(***************************************************************************)
(* PageCrawl with the time of the last request to each host, as long as the *)
(* machine is on time: only sleeping, and waiting for the answer to a       *)
(* request for robots.txt, takes time.                                      *)
(***************************************************************************)
EXTENDS PageCrawl

VARIABLES
  late,        \* history: the machine has not always been on time
  lastRequest  \* history: when h was last asked for a page, or NoSlot; not kept if late

timedVars == <<vars, late, lastRequest>>

TimedInit ==
  /\ Init
  /\ late = FALSE
  /\ lastRequest = [h \in Hosts |-> NoSlot]

(* f sleeps until later, waits for an answer, or has nothing to do. *)
Waiting(f) ==
  \/ fpc[f] \in {"idle", "delayRobots", "checkRobots"}
  \/ fpc[f] = "sleep" /\ now < slot[f]

(* The page that is being requested, if any. *)
Asked == requested' \ requested

TimedNext ==
  /\ Next
  /\ late' = (late \/ (now' # now /\ \E f \in Fetchers : ~Waiting(f)))
  /\ lastRequest' =
       [h \in Hosts |->
          IF late' THEN NoSlot
          ELSE IF \E p \in Asked : HostOf[p] = h THEN now ELSE lastRequest[h]]

(* The behaviours of Spec, with their histories. *)
TimedSpec == TimedInit /\ [][TimedNext]_timedVars
-------------------------------------------------------------------------------
(* The request for page p comes a full delay after the last one of its host. *)
InTime(p) ==
  lastRequest[HostOf[p]] # NoSlot => now - lastRequest[HostOf[p]] >= Spacing[HostOf[p]]

(***************************************************************************)
(* "A crawler must wait at least 3 seconds between successive requests to   *)
(* the same host domain" (README.md): while the machine is on time, not     *)
(* only the slots but the requests lie the delay apart, whatever goroutines *)
(* wait for between their lookups and whatever the cleaner forgets, if no   *)
(* request for the robots.txt of the host fails.                            *)
(***************************************************************************)
RequestsApart ==
  [][\A p \in Asked : HostOf[p] \notin Flaky => InTime(p)]_timedVars

(* Who sleeps will wake on time, and requests its page on its slot. *)
OnTime(f) ==
  fpc[f] # "idle" /\ Host(f) \notin Flaky =>
    /\ fpc[f] = "sleep" => slot[f] >= now
    /\ fpc[f] \in {"check", "get"} => slot[f] = now

(* The last request to a host was made on the slot of its page. *)
OnSlot ==
  \A h \in Hosts \ Flaky : lastRequest[h] # NoSlot =>
    \E p \in requested : HostOf[p] = h /\ lastRequest[h] = reserved[p]

(* What makes RequestsApart inductive, together with FetchInv. *)
Punctual ==
  /\ lastRequest \in [Hosts -> Nat \cup {NoSlot}]
  /\ late \in BOOLEAN
  /\ late => \A h \in Hosts : lastRequest[h] = NoSlot
  /\ ~late => \A f \in Fetchers : OnTime(f)
  /\ OnSlot
===============================================================================

------------------------------ MODULE Politeness ------------------------------
(***************************************************************************)
(* The politeness manager of a worker process: a map from hosts to the slot *)
(* that was last reserved for them, which its goroutines share under a      *)
(* mutex, and the cleaner that forgets hosts.  Time passes in whole units.  *)
(***************************************************************************)
EXTENDS Sites

CONSTANTS
  MaxAge,  \* the cleaner forgets a slot that is older than this
  MaxTime, \* the clock stops here
  NoSlot   \* the map has no entry for the host

ASSUME PolitenessAssumption ==
  /\ MaxAge \in Nat
  /\ MaxTime \in Nat
  /\ NoSlot \notin Int

VARIABLES
  now,             \* the clock
  lastScrapeTime,  \* lastScrapeTime[h]: the slot last reserved for h
  latest           \* history: the same, but never forgotten

politenessVars == <<now, lastScrapeTime, latest>>

PolitenessTypeOK ==
  /\ now \in 0..MaxTime
  /\ lastScrapeTime \in [Hosts -> Nat \cup {NoSlot}]
  /\ latest \in [Hosts -> Nat \cup {NoSlot}]

PolitenessInit ==
  /\ now = 0
  /\ lastScrapeTime = [h \in Hosts |-> NoSlot]
  /\ latest = [h \in Hosts |-> NoSlot]
-------------------------------------------------------------------------------
(* The next slot of h: delay after the last one, or now if that is over. *)
Slot(h, delay) ==
  IF lastScrapeTime[h] # NoSlot /\ now - lastScrapeTime[h] < delay
    THEN lastScrapeTime[h] + delay
    ELSE now

(* Mutant: the map keeps the time of the call, not the slot. *)
ReserveNow(h, delay) ==
  /\ lastScrapeTime' = [lastScrapeTime EXCEPT ![h] = now]
  /\ latest' = [latest EXCEPT ![h] = Slot(h, delay)]
  /\ UNCHANGED now

(* Enforce, up to the release of the mutex. *)
Reserve(h, delay) ==
  /\ lastScrapeTime' = [lastScrapeTime EXCEPT ![h] = Slot(h, delay)]
  /\ latest' = [latest EXCEPT ![h] = Slot(h, delay)]
  /\ UNCHANGED now

(* Mutant: the cleaner forgets hosts of any age. *)
AnyAge == {h \in Hosts : lastScrapeTime[h] # NoSlot}

(* The hosts that the cleaner would forget now. *)
Inactive == {h \in Hosts : lastScrapeTime[h] # NoSlot /\ now - lastScrapeTime[h] > MaxAge}

(* One sweep of the cleaner. *)
Sweep ==
  /\ Inactive # {}
  /\ lastScrapeTime' = [h \in Hosts |-> IF h \in Inactive THEN NoSlot ELSE lastScrapeTime[h]]
  /\ UNCHANGED <<now, latest>>

Tick ==
  /\ now < MaxTime
  /\ now' = now + 1
  /\ UNCHANGED <<lastScrapeTime, latest>>
===============================================================================

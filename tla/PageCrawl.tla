------------------------------- MODULE PageCrawl -------------------------------
(***************************************************************************)
(* CrawlUrl in the goroutines of a worker process, around the robots cache  *)
(* and the politeness manager that they share: crawl delay, slot, sleep,    *)
(* robots check, request.                                                   *)
(***************************************************************************)
EXTENDS Politeness, RobotsCache, FiniteSetsExt

CONSTANTS
  Fetchers,      \* the goroutines
  DefaultDelay,  \* DEFAULT_POLITENESS_DELAY
  NoPage         \* a goroutine that crawls nothing

ASSUME PageAssumption ==
  /\ DefaultDelay \in Nat \ {0}
  /\ NoPage \notin Pages
  /\ IsFiniteSet(Fetchers)

VARIABLES
  todo,      \* the pages that no goroutine has taken
  fpc,       \* fpc[f]: what f does next
  page,      \* page[f]: the page that f crawls
  delay,     \* delay[f]: its politeness delay
  slot,      \* slot[f]: the end of its sleep
  reserved,  \* history: reserved[p]: the slot that was reserved for page p
  requested  \* history: the pages that were requested

fetchVars == <<todo, fpc, page, delay, slot, reserved, requested>>

vars == <<politenessVars, robotsVars, fetchVars>>

FetchLabels ==
  {"idle", "delay", "delayRobots", "enforce", "sleep", "check", "checkRobots", "get"}

TypeOK ==
  /\ PolitenessTypeOK
  /\ RobotsTypeOK
  /\ todo \subseteq Pages
  /\ fpc \in [Fetchers -> FetchLabels]
  /\ page \in [Fetchers -> Pages \cup {NoPage}]
  /\ \A f \in Fetchers : fpc[f] # "idle" => page[f] \in Pages
  /\ delay \in [Fetchers -> Nat]
  /\ slot \in [Fetchers -> Nat]
  /\ reserved \in [Pages -> Nat \cup {NoSlot}]
  /\ requested \subseteq Pages

Init ==
  /\ PolitenessInit
  /\ RobotsInit
  /\ todo = Pages
  /\ fpc = [f \in Fetchers |-> "idle"]
  /\ page = [f \in Fetchers |-> NoPage]
  /\ delay = [f \in Fetchers |-> 0]
  /\ slot = [f \in Fetchers |-> 0]
  /\ reserved = [p \in Pages |-> NoSlot]
  /\ requested = {}
-------------------------------------------------------------------------------
Goto(f, label) == fpc' = [fpc EXCEPT ![f] = label]

Host(f) == HostOf[page[f]]

(* CrawlUrl returns, with a result or an error. *)
Return(f) ==
  /\ Goto(f, "idle")
  /\ page' = [page EXCEPT ![f] = NoPage]
  /\ delay' = [delay EXCEPT ![f] = 0]
  /\ slot' = [slot EXCEPT ![f] = 0]

TakePage(f) ==
  /\ fpc[f] = "idle"
  /\ \E p \in todo :
       /\ todo' = todo \ {p}
       /\ page' = [page EXCEPT ![f] = p]
  /\ Goto(f, "delay")
  /\ UNCHANGED <<politenessVars, robotsVars, delay, slot, reserved, requested>>

(* An unknown delay, or none, means the default. *)
OrDefault(d) == IF d > 0 THEN d ELSE DefaultDelay

SetDelay(f, d) == delay' = [delay EXCEPT ![f] = OrDefault(d)]

(* GetCrawlDelay: a hit gives the delay, a miss requests robots.txt. *)
GetCrawlDelay(f) ==
  /\ fpc[f] = "delay"
  /\ \/ /\ cache[Host(f)] # "miss"
        /\ SetDelay(f, DelayOf(Host(f), cache[Host(f)]))
        /\ Goto(f, "enforce")
        /\ UNCHANGED robotsVars
     \/ /\ cache[Host(f)] = "miss"
        /\ RequestRobots(Host(f))
        /\ Goto(f, "delayRobots")
        /\ UNCHANGED delay
  /\ UNCHANGED <<politenessVars, todo, page, slot, reserved, requested>>

(* Mutant: the entry is cached, but its delay is not read. *)
DelayUnread(f) ==
  /\ fpc[f] = "delayRobots"
  /\ \/ \E e \in Entries(Host(f)) : CacheRobots(Host(f), e)
     \/ Host(f) \in Flaky /\ UNCHANGED robotsVars
  /\ SetDelay(f, 0)
  /\ Goto(f, "enforce")
  /\ UNCHANGED <<politenessVars, todo, page, slot, reserved, requested>>

(* The answer: cached and then read from the cache, or the default delay. *)
DelayAnswer(f) ==
  /\ fpc[f] = "delayRobots"
  /\ \/ /\ \E e \in Entries(Host(f)) : CacheRobots(Host(f), e)
        /\ Goto(f, "delay")
        /\ UNCHANGED delay
     \/ /\ Host(f) \in Flaky
        /\ SetDelay(f, 0)
        /\ Goto(f, "enforce")
        /\ UNCHANGED robotsVars
  /\ UNCHANGED <<politenessVars, todo, page, slot, reserved, requested>>

(* Politeness.Enforce: a slot is reserved at once, and slept for afterwards. *)
Enforce(f) ==
  /\ fpc[f] = "enforce"
  /\ Reserve(Host(f), delay[f])
  /\ slot' = [slot EXCEPT ![f] = Slot(Host(f), delay[f])]
  /\ reserved' = [reserved EXCEPT ![page[f]] = slot'[f]]
  /\ Goto(f, "sleep")
  /\ UNCHANGED <<robotsVars, todo, page, delay, requested>>

(* Mutant: the slot is reserved and not slept for. *)
NoSleep(f) ==
  /\ fpc[f] = "sleep"
  /\ Goto(f, "check")
  /\ UNCHANGED <<politenessVars, robotsVars, todo, page, delay, slot, reserved, requested>>

(* time.After fires, at the slot or later. *)
Wake(f) ==
  /\ fpc[f] = "sleep"
  /\ now >= slot[f]
  /\ Goto(f, "check")
  /\ UNCHANGED <<politenessVars, robotsVars, todo, page, delay, slot, reserved, requested>>

(* An entry lets page p through.  nil allows everything. *)
Allows(entry, p) == entry = "nil" \/ p \notin Disallowed

(* group.Test decides between the request and an error. *)
Test(f, entry) ==
  IF Allows(entry, page[f])
    THEN Goto(f, "get") /\ UNCHANGED <<page, delay, slot>>
    ELSE Return(f)

(* Mutant: a page of a host that is not in the cache is let through. *)
AllowOnMiss(f) ==
  /\ fpc[f] = "check"
  /\ Test(f, IF cache[Host(f)] = "miss" THEN "nil" ELSE cache[Host(f)])
  /\ UNCHANGED <<politenessVars, robotsVars, todo, reserved, requested>>

(* IsAllowed: a hit is tested, a miss requests robots.txt. *)
IsAllowed(f) ==
  /\ fpc[f] = "check"
  /\ \/ /\ cache[Host(f)] # "miss"
        /\ Test(f, cache[Host(f)])
        /\ UNCHANGED robotsVars
     \/ /\ cache[Host(f)] = "miss"
        /\ RequestRobots(Host(f))
        /\ Goto(f, "checkRobots")
        /\ UNCHANGED <<page, delay, slot>>
  /\ UNCHANGED <<politenessVars, todo, reserved, requested>>

(* The answer: cached and tested as it came, or the page is given up. *)
CheckAnswer(f) ==
  /\ fpc[f] = "checkRobots"
  /\ \/ \E e \in Entries(Host(f)) : CacheRobots(Host(f), e) /\ Test(f, e)
     \/ Host(f) \in Flaky /\ Return(f) /\ UNCHANGED robotsVars
  /\ UNCHANGED <<politenessVars, todo, reserved, requested>>

(* The page is requested; whatever comes back, CrawlUrl returns. *)
Get(f) ==
  /\ fpc[f] = "get"
  /\ requested' = requested \cup {page[f]}
  /\ Return(f)
  /\ UNCHANGED <<politenessVars, robotsVars, todo, reserved>>

FetchStep(f) ==
  \/ TakePage(f) \/ GetCrawlDelay(f) \/ DelayAnswer(f) \/ Enforce(f) \/ Wake(f)
  \/ IsAllowed(f) \/ CheckAnswer(f) \/ Get(f)

Next ==
  \/ \E f \in Fetchers : FetchStep(f)
  \/ (Sweep \/ Tick) /\ UNCHANGED <<robotsVars, fetchVars>>

Spec == Init /\ [][Next]_vars
-------------------------------------------------------------------------------
(***************************************************************************)
(* Whichever goroutines ask, and whatever the cleaner forgets, a slot lies  *)
(* the delay it was asked for after all earlier slots of its host, or at    *)
(* least more than the age at which the cleaner forgets.                    *)
(***************************************************************************)
SlotsApart ==
  [][\A f \in Fetchers :
       fpc[f] = "enforce" /\ fpc'[f] = "sleep" =>
         \/ latest[Host(f)] = NoSlot
         \/ slot'[f] >= latest[Host(f)] + Min({delay[f], MaxAge + 1})]_vars

(* The delays that goroutines may use for h: a failed lookup is as good as none. *)
PossibleDelays(h) ==
  {OrDefault(DelayOf(h, e)) : e \in Entries(h) \cup IF h \in Flaky THEN {"nil"} ELSE {}}

(* How far apart the slots of a host are at least. *)
Spacing == [h \in Hosts |-> Min(PossibleDelays(h) \cup {MaxAge + 1})]

(***************************************************************************)
(* "A crawl delay of 3 seconds means that a crawler must wait at least 3    *)
(* seconds between successive requests to the same host domain"             *)
(* (README.md): up to any time, a worker process has not requested more     *)
(* pages of a host than fit into that time, although slots are reserved     *)
(* ahead, slept for side by side, and forgotten.                            *)
(***************************************************************************)
RequestRate ==
  \A h \in Hosts :
    Cardinality({p \in requested : HostOf[p] = h}) <= (now \div Spacing[h]) + 1

(***************************************************************************)
(* The goroutines, the robots cache, the politeness manager and its cleaner *)
(* implement the timetable: every page is requested by an appointment of    *)
(* its own, not before it is due, and never if its robots.txt, read as it   *)
(* is, disallows it.                                                        *)
(***************************************************************************)
Appointments == INSTANCE Timetable WITH
  Gap <- Spacing,
  Barred <- {p \in Disallowed : HostOf[p] \in Rules \ Garbling},
  None <- NoSlot, clock <- now, due <- reserved, visited <- requested

ImplementsTimetable == Appointments!Spec

(***************************************************************************)
(* A page that the robots.txt of its host disallows is never requested,     *)
(* however the two lookups of two goroutines interleave, if the host's      *)
(* robots.txt is read as it is.                                             *)
(***************************************************************************)
RobotsObeyed ==
  \A p \in requested : HostOf[p] \in Rules \ Garbling => p \notin Disallowed

(***************************************************************************)
(* Goroutines that miss the cache at the same time all request robots.txt,  *)
(* but each of them at most once, and none does afterwards, if no request   *)
(* fails.                                                                   *)
(***************************************************************************)
FewRobotsRequests ==
  \A h \in Hosts \ Flaky : robotsGets[h] <= Cardinality(Fetchers)

(* Past the lookup of the crawl delay. *)
Delayed(f) == fpc[f] \in {"enforce", "sleep", "check", "checkRobots", "get"}

(***************************************************************************)
(* A goroutine reserves its slot with the Crawl-delay that the host asks    *)
(* for, and does not wait for robots.txt between its slot and its request,  *)
(* unless requests for that robots.txt fail: whoever fetched it first, and  *)
(* whoever overwrites the entry meanwhile.                                  *)
(***************************************************************************)
DelayKnown ==
  \A f \in Fetchers : Delayed(f) /\ Host(f) \notin Flaky =>
    /\ fpc[f] # "checkRobots"
    /\ Host(f) \in Rules \ Garbling /\ CrawlDelay[Host(f)] > 0 =>
         delay[f] = CrawlDelay[Host(f)]
-------------------------------------------------------------------------------
(***************************************************************************)
(* The strengthenings that make the invariants above inductive.             *)
(***************************************************************************)

(* The map holds the latest slot of a host, unless that is older than MaxAge. *)
SlotInv ==
  \A h \in Hosts : latest[h] # NoSlot /\ lastScrapeTime[h] # latest[h] =>
    lastScrapeTime[h] = NoSlot /\ now - latest[h] > MaxAge

(* The cache agrees with the site, and a page about to be requested is allowed. *)
ObeyInv ==
  /\ \A h \in Hosts \ Garbling : cache[h] \in {"miss", Served(h)}
  /\ \A f \in Fetchers : fpc[f] = "get" /\ Host(f) \in Rules \ Garbling =>
       page[f] \notin Disallowed

(* The goroutines that wait for the robots.txt of h. *)
Requesting(h) ==
  {f \in Fetchers : fpc[f] \in {"delayRobots", "checkRobots"} /\ Host(f) = h}

(* Until the first answer, everyone who has requested robots.txt waits for it. *)
RequestInv ==
  \A h \in Hosts \ Flaky :
    cache[h] = "miss" => robotsGets[h] = Cardinality(Requesting(h))

(* Whoever is past the crawl delay has seen an entry, which is never removed. *)
CachedInv ==
  \A f \in Fetchers : Delayed(f) /\ Host(f) \notin Flaky => cache[Host(f)] # "miss"

(* Every page is with one goroutine at most, waiting before, requested after. *)
PageOnce ==
  /\ todo \cap requested = {}
  /\ \A f \in Fetchers : fpc[f] # "idle" =>
       /\ page[f] \notin todo \cup requested
       /\ \A g \in Fetchers \ {f} : fpc[g] # "idle" => page[g] # page[f]

(* The slot of a goroutine is that of its page, and over when it wakes. *)
SlotOfPage ==
  /\ \A p \in todo : reserved[p] = NoSlot
  /\ \A f \in Fetchers :
       /\ fpc[f] \in {"delay", "delayRobots", "enforce"} => reserved[page[f]] = NoSlot
       /\ fpc[f] \in {"sleep", "check", "checkRobots", "get"} => reserved[page[f]] = slot[f]
       /\ fpc[f] \in {"check", "checkRobots", "get"} => slot[f] <= now
  /\ \A p \in requested : reserved[p] # NoSlot /\ reserved[p] <= now

(* The delay of a goroutine is one that its host may have led to. *)
DelayPossible ==
  /\ \A h \in Hosts : cache[h] \in {"miss"} \cup Entries(h)
  /\ \A f \in Fetchers : Delayed(f) => delay[f] \in PossibleDelays(Host(f))

Reserved(h) == {p \in Pages : HostOf[p] = h /\ reserved[p] # NoSlot}

(* The latest slot is the latest, and any two slots of a host lie apart. *)
SpacedOut ==
  \A h \in Hosts : \A p \in Reserved(h) :
    /\ latest[h] # NoSlot /\ reserved[p] <= latest[h]
    /\ \A q \in Reserved(h) \ {p} :
         reserved[p] >= reserved[q] + Spacing[h] \/ reserved[q] >= reserved[p] + Spacing[h]

TimetableInv == PageOnce /\ SlotOfPage /\ DelayPossible /\ SpacedOut

FetchInv ==
  /\ TypeOK
  /\ TimetableInv /\ RequestRate
  /\ SlotInv
  /\ RobotsObeyed /\ ObeyInv
  /\ FewRobotsRequests /\ RequestInv
  /\ DelayKnown /\ CachedInv
===============================================================================

---------------------------- MODULE PageCrawlProofs ----------------------------
(***************************************************************************)
(* Proofs about PageCrawl and RequestTimes: slots, and requests, are kept   *)
(* apart, robots.txt is obeyed and rarely requested, for every web, every   *)
(* number of goroutines, and every interleaving with the cleaner.           *)
(***************************************************************************)
EXTENDS RequestTimes, FiniteSetTheorems, TLAPS

USE SiteAssumption, PolitenessAssumption, PageAssumption

(* A slot is a time, and no earlier than now. *)
LEMMA SlotNat ==
  ASSUME PolitenessTypeOK, NEW h \in Hosts, NEW d \in Nat
  PROVE  Slot(h, d) \in Nat /\ Slot(h, d) >= now
BY DEF PolitenessTypeOK, Slot

(* Every step of a goroutine is one of these. *)
LEMMA FetchType ==
  ASSUME TypeOK, NEW f \in Fetchers, FetchStep(f)
  PROVE  TypeOK'
<1> USE DEF TypeOK, FetchLabels
<1>1. CASE TakePage(f)
  BY <1>1 DEF TakePage, Goto, politenessVars, robotsVars, PolitenessTypeOK, RobotsTypeOK
<1>2. CASE GetCrawlDelay(f)
  <2> USE <1>2 DEF GetCrawlDelay
  <2>1. page[f] \in Pages /\ Host(f) \in Hosts
    BY DEF Host
  <2>2. PolitenessTypeOK' /\ todo' \subseteq Pages /\ slot' \in [Fetchers -> Nat]
        /\ reserved' \in [Pages -> Nat \cup {NoSlot}] /\ requested' \subseteq Pages
    BY DEF politenessVars, PolitenessTypeOK
  <2>3. RobotsTypeOK'
    BY <2>1 DEF RequestRobots, robotsVars, RobotsTypeOK
  <2>4. DelayOf(Host(f), cache[Host(f)]) \in Nat
    BY <2>1 DEF DelayOf
  <2>5. delay' \in [Fetchers -> Nat]
    BY <2>4 DEF SetDelay, OrDefault
  <2> QED
    BY <2>2, <2>3, <2>5 DEF Goto
<1>3. CASE DelayAnswer(f)
  <2> USE <1>3 DEF DelayAnswer
  <2>1. page[f] \in Pages /\ Host(f) \in Hosts
    BY DEF Host
  <2>2. PolitenessTypeOK' /\ todo' \subseteq Pages /\ slot' \in [Fetchers -> Nat]
        /\ reserved' \in [Pages -> Nat \cup {NoSlot}] /\ requested' \subseteq Pages
    BY DEF politenessVars, PolitenessTypeOK
  <2>3. RobotsTypeOK'
    BY <2>1 DEF CacheRobots, Entries, Served, robotsVars, RobotsTypeOK
  <2>4. delay' \in [Fetchers -> Nat]
    BY DEF SetDelay, OrDefault
  <2> QED
    BY <2>2, <2>3, <2>4 DEF Goto
<1>4. CASE Enforce(f)
  <2> USE <1>4 DEF Enforce
  <2>1. page[f] \in Pages /\ Host(f) \in Hosts
    BY DEF Host
  <2>2. Slot(Host(f), delay[f]) \in Nat
    BY <2>1, SlotNat
  <2>3. PolitenessTypeOK'
    BY <2>1, <2>2 DEF Reserve, PolitenessTypeOK
  <2>4. slot' \in [Fetchers -> Nat] /\ slot'[f] \in Nat
    BY <2>2
  <2>5. reserved' \in [Pages -> Nat \cup {NoSlot}]
    BY <2>1, <2>4
  <2> QED
    BY <2>3, <2>4, <2>5 DEF Goto, robotsVars, RobotsTypeOK
<1>5. CASE Wake(f)
  BY <1>5 DEF Wake, Goto, politenessVars, robotsVars, PolitenessTypeOK, RobotsTypeOK
<1>6. CASE IsAllowed(f)
  <2> USE <1>6 DEF IsAllowed
  <2>1. page[f] \in Pages /\ Host(f) \in Hosts
    BY DEF Host
  <2>2. PolitenessTypeOK' /\ todo' \subseteq Pages /\ requested' \subseteq Pages
    BY DEF politenessVars, PolitenessTypeOK
  <2>3. RobotsTypeOK'
    BY <2>1 DEF RequestRobots, robotsVars, RobotsTypeOK
  <2> QED
    BY <2>2, <2>3 DEF Goto, Test, Return
<1>7. CASE CheckAnswer(f)
  <2> USE <1>7 DEF CheckAnswer
  <2>1. page[f] \in Pages /\ Host(f) \in Hosts
    BY DEF Host
  <2>2. PolitenessTypeOK' /\ todo' \subseteq Pages /\ requested' \subseteq Pages
    BY DEF politenessVars, PolitenessTypeOK
  <2>3. RobotsTypeOK'
    BY <2>1 DEF CacheRobots, Entries, Served, robotsVars, RobotsTypeOK
  <2> QED
    BY <2>2, <2>3 DEF Goto, Test, Return
<1>8. CASE Get(f)
  BY <1>8 DEF Get, Return, Goto, politenessVars, robotsVars, PolitenessTypeOK, RobotsTypeOK
<1> QED
  BY <1>1, <1>2, <1>3, <1>4, <1>5, <1>6, <1>7, <1>8 DEF FetchStep

LEMMA TypeInit == Init => TypeOK
BY DEF Init, TypeOK, PolitenessInit, PolitenessTypeOK, RobotsInit, RobotsTypeOK, FetchLabels

(* Types are kept by every step. *)
LEMMA NextType ==
  ASSUME TypeOK, [Next]_vars
  PROVE  TypeOK'
<1>1. CASE \E f \in Fetchers : FetchStep(f)
  BY <1>1, FetchType
<1>2. CASE (Sweep \/ Tick) /\ UNCHANGED <<robotsVars, fetchVars>>
  BY <1>2 DEF Sweep, Tick, robotsVars, fetchVars, TypeOK, PolitenessTypeOK, RobotsTypeOK
<1>3. CASE UNCHANGED vars
  BY <1>3 DEF vars, politenessVars, robotsVars, fetchVars, TypeOK, PolitenessTypeOK, RobotsTypeOK
<1> QED
  BY <1>1, <1>2, <1>3 DEF Next
-------------------------------------------------------------------------------
(* Only Enforce touches the slots. *)
LEMMA FetchKeepsSlots ==
  ASSUME NEW f \in Fetchers, FetchStep(f)
  PROVE  Enforce(f) \/ UNCHANGED politenessVars
BY DEF FetchStep, TakePage, GetCrawlDelay, DelayAnswer, Wake, IsAllowed, CheckAnswer, Get

(* The map is exact, or the forgotten slot is older than MaxAge. *)
LEMMA SlotInvStep ==
  ASSUME TypeOK, SlotInv, [Next]_vars
  PROVE  SlotInv'
<1> USE DEF SlotInv
<1>1. ASSUME NEW f \in Fetchers, Enforce(f)
      PROVE  SlotInv'
  <2>1. Host(f) \in Hosts
    BY <1>1 DEF Enforce, Host, TypeOK
  <2>2. lastScrapeTime'[Host(f)] = latest'[Host(f)]
    BY <1>1, <2>1 DEF Enforce, Reserve, TypeOK, PolitenessTypeOK
  <2>3. \A h \in Hosts \ {Host(f)} :
          lastScrapeTime'[h] = lastScrapeTime[h] /\ latest'[h] = latest[h]
    BY <1>1 DEF Enforce, Reserve, TypeOK, PolitenessTypeOK
  <2> QED
    BY <1>1, <2>2, <2>3 DEF Enforce, Reserve
<1>2. CASE Sweep
  BY <1>2 DEF Sweep, Inactive, TypeOK, PolitenessTypeOK
<1>3. CASE Tick
  BY <1>3 DEF Tick, TypeOK, PolitenessTypeOK
<1>4. CASE UNCHANGED politenessVars
  BY <1>4 DEF politenessVars
<1> QED
  BY <1>1, <1>2, <1>3, <1>4, FetchKeepsSlots DEF Next, vars

(* The smaller of two integers. *)
LEMMA MinOfTwo ==
  ASSUME NEW a \in Int, NEW b \in Int
  PROVE  Min({a, b}) \in {a, b} /\ Min({a, b}) <= a /\ Min({a, b}) <= b
<1> DEFINE IsMin(m) == m \in {a, b} /\ \A n \in {a, b} : m <= n
<1>1. \E m : IsMin(m)
  <2>1. IsMin(a) \/ IsMin(b)
    OBVIOUS
  <2> QED
    BY <2>1
<1>2. IsMin(Min({a, b}))
  BY <1>1 DEF Min
<1> QED
  BY <1>2

(* A slot that is reserved lies the delay after the latest one, or MaxAge. *)
LEMMA ReservedApart ==
  ASSUME TypeOK, SlotInv, NEW f \in Fetchers, Enforce(f), latest[Host(f)] # NoSlot
  PROVE  slot'[f] >= latest[Host(f)] + Min({delay[f], MaxAge + 1})
<1>1. Host(f) \in Hosts
  BY DEF Enforce, Host, TypeOK
<1>2. latest[Host(f)] \in Nat /\ delay[f] \in Nat /\ now \in Nat
  BY <1>1 DEF TypeOK, PolitenessTypeOK
<1>3. slot'[f] = Slot(Host(f), delay[f])
  BY DEF Enforce, TypeOK
<1> DEFINE m == Min({delay[f], MaxAge + 1})
<1>4. m \in Int /\ m <= delay[f] /\ m <= MaxAge + 1
  <2>1. delay[f] \in Int /\ MaxAge + 1 \in Int
    BY <1>2
  <2>2. m \in {delay[f], MaxAge + 1} /\ m <= delay[f] /\ m <= MaxAge + 1
    BY ONLY <2>1, MinOfTwo, Zenon DEF m
  <2> QED
    BY <2>1, <2>2
<1> HIDE DEF m
<1>5. slot'[f] >= latest[Host(f)] + m
  <2>1. CASE lastScrapeTime[Host(f)] = latest[Host(f)]
    BY <1>2, <1>3, <1>4, <2>1 DEF Slot
  <2>2. CASE lastScrapeTime[Host(f)] # latest[Host(f)]
    <3>1. lastScrapeTime[Host(f)] = NoSlot /\ now - latest[Host(f)] > MaxAge
      BY <1>1, <2>2 DEF SlotInv
    <3> QED
      BY <1>2, <1>3, <1>4, <3>1 DEF Slot
  <2> QED
    BY <2>1, <2>2
<1> QED
  BY <1>5 DEF m

(* A goroutine that goes from "enforce" to "sleep" has taken the step Enforce. *)
LEMMA OnlyEnforceSleeps ==
  ASSUME TypeOK, [Next]_vars, NEW f \in Fetchers, fpc[f] = "enforce", fpc'[f] = "sleep"
  PROVE  Enforce(f)
<1>1. fpc' # fpc
  OBVIOUS
<1>2. PICK g \in Fetchers : FetchStep(g)
  BY <1>1 DEF Next, vars, fetchVars
<1>3. \A k \in Fetchers \ {g} : fpc'[k] = fpc[k]
  BY <1>2 DEF FetchStep, TakePage, GetCrawlDelay, DelayAnswer, Enforce, Wake, IsAllowed,
              CheckAnswer, Get, Test, Return, Goto, TypeOK
<1>4. g = f
  BY <1>3
<1> QED
  BY <1>2, <1>4 DEF FetchStep, TakePage, GetCrawlDelay, DelayAnswer, Wake, IsAllowed,
                    CheckAnswer, Get

(***************************************************************************)
(* The slots of a host lie apart, whichever goroutines reserve them and     *)
(* whatever the cleaner forgets.                                            *)
(***************************************************************************)
THEOREM SlotsKeptApart == Spec => SlotsApart
<1>1. Init => TypeOK /\ SlotInv
  BY DEF Init, TypeOK, SlotInv, PolitenessInit, PolitenessTypeOK, RobotsInit, RobotsTypeOK,
         FetchLabels
<1>2. TypeOK /\ SlotInv /\ [Next]_vars => TypeOK' /\ SlotInv'
  BY NextType, SlotInvStep
<1>3. ASSUME TypeOK, SlotInv, [Next]_vars
      PROVE  [\A f \in Fetchers :
                fpc[f] = "enforce" /\ fpc'[f] = "sleep" =>
                  \/ latest[Host(f)] = NoSlot
                  \/ slot'[f] >= latest[Host(f)] + Min({delay[f], MaxAge + 1})]_vars
  BY <1>3, OnlyEnforceSleeps, ReservedApart
<1> QED
  BY <1>1, <1>2, <1>3, PTL DEF Spec, SlotsApart
-------------------------------------------------------------------------------
(* What is read of a well-behaved host is what it serves. *)
LEMMA EntryServed ==
  ASSUME NEW h \in Hosts \ Garbling, NEW e \in Entries(h)
  PROVE  e = Served(h)
BY DEF Entries

(* The cache agrees with the site, and only allowed pages reach the request. *)
LEMMA ObeyStep ==
  ASSUME TypeOK, ObeyInv, RobotsObeyed, NEW f \in Fetchers, FetchStep(f)
  PROVE  ObeyInv' /\ RobotsObeyed'
<1> DEFINE Agrees == \A h \in Hosts \ Garbling : cache[h] \in {"miss", Served(h)}
           Allowed(g) == fpc[g] = "get" /\ Host(g) \in Rules \ Garbling => page[g] \notin Disallowed
<1>1. fpc[f] # "idle" => page[f] \in Pages /\ Host(f) \in Hosts
  BY DEF TypeOK, Host
<1>2. Agrees'
  <2>1. CASE \E e \in Entries(Host(f)) : CacheRobots(Host(f), e) /\ fpc[f] # "idle"
    BY <2>1, <1>1, EntryServed DEF ObeyInv, CacheRobots, TypeOK, RobotsTypeOK, Served
  <2>2. CASE UNCHANGED cache
    BY <2>2 DEF ObeyInv, Served
  <2> QED
    BY <2>1, <2>2 DEF FetchStep, TakePage, GetCrawlDelay, DelayAnswer, Enforce, Wake, IsAllowed,
                      CheckAnswer, Get, RequestRobots, robotsVars
<1>3. \A g \in Fetchers \ {f} : fpc'[g] = fpc[g] /\ page'[g] = page[g]
  BY DEF FetchStep, TakePage, GetCrawlDelay, DelayAnswer, Enforce, Wake, IsAllowed,
         CheckAnswer, Get, Test, Return, Goto, TypeOK
<1>4. \A g \in Fetchers \ {f} : Allowed(g)'
  BY <1>3 DEF ObeyInv, Host
<1>5. Allowed(f)'
  <2>1. CASE IsAllowed(f)
    <3>1. CASE cache[Host(f)] # "miss" /\ Test(f, cache[Host(f)])
      BY <2>1, <3>1, <1>1 DEF IsAllowed, ObeyInv, Test, Allows, Return, Goto, Served, Host, TypeOK
    <3>2. CASE Goto(f, "checkRobots")
      BY <3>2 DEF Goto, TypeOK
    <3> QED
      BY <2>1, <3>1, <3>2 DEF IsAllowed
  <2>2. CASE CheckAnswer(f)
    <3>1. ASSUME NEW e \in Entries(Host(f)), Test(f, e)
          PROVE  Allowed(f)'
      BY <2>2, <3>1, <1>1, EntryServed DEF CheckAnswer, Test, Allows, Return, Goto, Served, Host, TypeOK
    <3>2. CASE Return(f)
      BY <3>2 DEF Return, Goto, TypeOK
    <3> QED
      BY <2>2, <3>1, <3>2 DEF CheckAnswer
  <2> QED
    BY <2>1, <2>2 DEF FetchStep, TakePage, GetCrawlDelay, DelayAnswer, Enforce, Wake, Get, Return,
                      Goto, TypeOK
<1>6. RobotsObeyed'
  <2>1. CASE Get(f)
    BY <2>1, <1>1 DEF Get, RobotsObeyed, ObeyInv, Host
  <2>2. CASE UNCHANGED requested
    BY <2>2 DEF RobotsObeyed
  <2> QED
    BY <2>1, <2>2 DEF FetchStep, TakePage, GetCrawlDelay, DelayAnswer, Enforce, Wake, IsAllowed,
                      CheckAnswer
<1> QED
  BY <1>2, <1>4, <1>5, <1>6 DEF ObeyInv

(***************************************************************************)
(* No page is requested that a readable robots.txt of its host disallows.   *)
(***************************************************************************)
THEOREM ObeysRobots == Spec => []RobotsObeyed
<1> DEFINE Inv == TypeOK /\ ObeyInv /\ RobotsObeyed
<1>1. Init => Inv
  BY DEF Init, TypeOK, PolitenessInit, PolitenessTypeOK, RobotsInit, RobotsTypeOK,
         FetchLabels, ObeyInv, RobotsObeyed
<1>2. Inv /\ [Next]_vars => Inv'
  <2> SUFFICES ASSUME Inv, [Next]_vars
               PROVE  ObeyInv' /\ RobotsObeyed'
    BY NextType
  <2>1. CASE UNCHANGED <<robotsVars, fetchVars>>
    BY <2>1 DEF robotsVars, fetchVars, ObeyInv, RobotsObeyed, Served, Host
  <2> QED
    BY <2>1, ObeyStep DEF Next, vars
<1> QED
  BY <1>1, <1>2, PTL DEF Spec
-------------------------------------------------------------------------------
(* Nobody waits for a robots.txt twice, so at most everyone waits. *)
LEMMA RequestingBounded ==
  ASSUME NEW h
  PROVE  /\ IsFiniteSet(Requesting(h))
         /\ Cardinality(Requesting(h)) \in Nat
         /\ Cardinality(Requesting(h)) <= Cardinality(Fetchers)
BY FS_Subset, FS_CardinalityType DEF Requesting

(* A request for the robots.txt of a host that never fails. *)
LEMMA RequestStep ==
  ASSUME TypeOK, RequestInv, FewRobotsRequests, NEW f \in Fetchers, FetchStep(f)
  PROVE  RequestInv' /\ FewRobotsRequests'
<1> SUFFICES ASSUME NEW h \in Hosts \ Flaky
             PROVE  /\ cache'[h] = "miss" => robotsGets'[h] = Cardinality(Requesting(h)')
                    /\ robotsGets'[h] <= Cardinality(Fetchers)
  BY DEF RequestInv, FewRobotsRequests
<1>1. fpc[f] # "idle" => page[f] \in Pages /\ Host(f) \in Hosts
  BY DEF TypeOK, Host
<1>2. \A g \in Fetchers \ {f} : fpc'[g] = fpc[g] /\ page'[g] = page[g]
  BY DEF FetchStep, TakePage, GetCrawlDelay, DelayAnswer, Enforce, Wake, IsAllowed,
         CheckAnswer, Get, Test, Return, Goto, TypeOK
<1>3. CASE fpc[f] \in {"delay", "check"} /\ cache[Host(f)] = "miss" /\ Host(f) = h
  <2>1. /\ RequestRobots(h) /\ page' = page
        /\ fpc'[f] \in {"delayRobots", "checkRobots"}
    BY <1>3 DEF FetchStep, TakePage, GetCrawlDelay, DelayAnswer, Enforce, Wake, IsAllowed,
                CheckAnswer, Get, Goto, TypeOK
  <2>2. Requesting(h)' = Requesting(h) \cup {f} /\ f \notin Requesting(h)
    BY <1>2, <1>3, <2>1 DEF Requesting, Host
  <2>3. Cardinality(Requesting(h)') = Cardinality(Requesting(h)) + 1
    BY <2>2, RequestingBounded, FS_AddElement
  <2>4. Cardinality(Requesting(h)') <= Cardinality(Fetchers)
    BY <2>2, FS_Subset DEF Requesting
  <2>5. robotsGets'[h] = robotsGets[h] + 1 /\ robotsGets[h] = Cardinality(Requesting(h))
    BY <1>3, <2>1 DEF RequestRobots, RequestInv, TypeOK, RobotsTypeOK
  <2> QED
    BY <2>3, <2>4, <2>5
<1>4. CASE fpc[f] \in {"delayRobots", "checkRobots"} /\ Host(f) = h
  <2>1. PICK e \in Entries(h) : CacheRobots(h, e)
    BY <1>4 DEF FetchStep, TakePage, GetCrawlDelay, DelayAnswer, Enforce, Wake, IsAllowed,
                CheckAnswer, Get
  <2>2. cache'[h] # "miss" /\ robotsGets' = robotsGets
    BY <2>1 DEF CacheRobots, Entries, Served, TypeOK, RobotsTypeOK
  <2> QED
    BY <2>2 DEF FewRobotsRequests
<1>5. CASE ~(fpc[f] # "idle" /\ Host(f) = h)
  <2>1. cache'[h] = cache[h] /\ robotsGets'[h] = robotsGets[h]
    BY <1>1, <1>5 DEF FetchStep, TakePage, GetCrawlDelay, DelayAnswer, Enforce, Wake, IsAllowed,
                CheckAnswer, Get, RequestRobots, CacheRobots, robotsVars, TypeOK, RobotsTypeOK
  <2>2. f \notin Requesting(h)
    BY <1>5 DEF Requesting
  <2>3. f \notin Requesting(h)'
    BY <1>1, <1>5 DEF FetchStep, TakePage, GetCrawlDelay, DelayAnswer, Enforce, Wake, IsAllowed,
                CheckAnswer, Get, Test, Return, Goto, TypeOK, Requesting, Host
  <2>4. Requesting(h)' = Requesting(h)
    BY <1>2, <2>2, <2>3 DEF Requesting, Host
  <2> QED
    BY <2>1, <2>4 DEF RequestInv, FewRobotsRequests
<1>6. CASE /\ fpc[f] \notin {"idle", "delayRobots", "checkRobots"} /\ Host(f) = h
           /\ ~(fpc[f] \in {"delay", "check"} /\ cache[h] = "miss")
  <2>1. UNCHANGED robotsVars
    BY <1>6 DEF FetchStep, TakePage, GetCrawlDelay, DelayAnswer, Enforce, Wake, IsAllowed,
                CheckAnswer, Get
  <2>2. f \notin Requesting(h) /\ f \notin Requesting(h)'
    BY <1>6 DEF FetchStep, TakePage, GetCrawlDelay, DelayAnswer, Enforce, Wake, IsAllowed,
                CheckAnswer, Get, Test, Return, Goto, TypeOK, Requesting
  <2>3. Requesting(h)' = Requesting(h)
    BY <1>2, <2>2 DEF Requesting, Host
  <2> QED
    BY <2>1, <2>3 DEF RequestInv, FewRobotsRequests, robotsVars
<1> QED
  BY <1>3, <1>4, <1>5, <1>6

LEMMA RequestInit == Init => RequestInv /\ FewRobotsRequests
<1> SUFFICES ASSUME Init
             PROVE  RequestInv /\ FewRobotsRequests
  OBVIOUS
<1>1. \A h \in Hosts : Requesting(h) = {}
  BY DEF Init, Requesting
<1>2. RequestInv
  BY <1>1, FS_EmptySet DEF Init, RobotsInit, RequestInv
<1>3. FewRobotsRequests
  <2>1. Cardinality(Fetchers) \in Nat
    BY FS_CardinalityType
  <2>2. 0 <= Cardinality(Fetchers)
    BY <2>1
  <2>3. \A h \in Hosts : robotsGets[h] = 0
    BY DEF Init, RobotsInit
  <2> QED
    BY <2>2, <2>3 DEF FewRobotsRequests
<1> QED
  BY <1>2, <1>3

(***************************************************************************)
(* The robots.txt of a host that answers is requested at most once by each  *)
(* goroutine.                                                               *)
(***************************************************************************)
THEOREM RobotsRequestedRarely == Spec => []FewRobotsRequests
<1> DEFINE Inv == TypeOK /\ RequestInv /\ FewRobotsRequests
<1>1. Init => Inv
  BY TypeInit, RequestInit
<1>2. Inv /\ [Next]_vars => Inv'
  <2> SUFFICES ASSUME Inv, [Next]_vars
               PROVE  RequestInv' /\ FewRobotsRequests'
    BY NextType
  <2>1. CASE UNCHANGED <<robotsVars, fetchVars>>
    BY <2>1 DEF robotsVars, fetchVars, RequestInv, FewRobotsRequests, Requesting, Host
  <2> QED
    BY <2>1, RequestStep DEF Next, vars
<1> QED
  BY <1>1, <1>2, PTL DEF Spec
-------------------------------------------------------------------------------
(* Entries stay, and are never "miss". *)
LEMMA CacheKept ==
  ASSUME TypeOK, NEW f \in Fetchers, FetchStep(f), NEW h \in Hosts, cache[h] # "miss"
  PROVE  cache'[h] # "miss"
<1>1. CASE UNCHANGED cache
  BY <1>1
<1>2. CASE \E e \in Entries(Host(f)) : CacheRobots(Host(f), e)
  BY <1>2 DEF CacheRobots, Entries, Served, TypeOK, RobotsTypeOK
<1> QED
  BY <1>1, <1>2 DEF FetchStep, TakePage, GetCrawlDelay, DelayAnswer, Enforce, Wake, IsAllowed,
                    CheckAnswer, Get, RequestRobots, robotsVars

(* The delay of an entry that agrees with a host that names a delay. *)
LEMMA DelayStep ==
  ASSUME TypeOK, ObeyInv, DelayKnown, CachedInv, NEW f \in Fetchers, FetchStep(f)
  PROVE  DelayKnown' /\ CachedInv'
<1> DEFINE Known(g) ==
             Delayed(g) /\ Host(g) \notin Flaky =>
               /\ fpc[g] # "checkRobots"
               /\ cache[Host(g)] # "miss"
               /\ Host(g) \in Rules \ Garbling /\ CrawlDelay[Host(g)] > 0 =>
                    delay[g] = CrawlDelay[Host(g)]
<1>1. fpc[f] # "idle" => page[f] \in Pages /\ Host(f) \in Hosts
  BY DEF TypeOK, Host
<1>2. \A g \in Fetchers : Known(g)
  BY DEF DelayKnown, CachedInv
<1>3. ASSUME NEW g \in Fetchers \ {f} PROVE Known(g)'
  <2>1. fpc'[g] = fpc[g] /\ page'[g] = page[g] /\ delay'[g] = delay[g]
    BY <1>3 DEF FetchStep, TakePage, GetCrawlDelay, DelayAnswer, Enforce, Wake, IsAllowed,
                CheckAnswer, Get, Test, Return, SetDelay, Goto, TypeOK
  <2>2. Delayed(g) => Host(g) \in Hosts
    BY <1>3 DEF Delayed, TypeOK, Host
  <2>3. Host(g)' = Host(g) /\ (Delayed(g)' <=> Delayed(g))
    BY <2>1 DEF Host, Delayed
  <2>4. Delayed(g) /\ cache[Host(g)] # "miss" => cache'[Host(g)] # "miss"
    BY <2>2, CacheKept
  <2> QED
    BY <1>2, <1>3, <2>1, <2>3, <2>4
<1>4. Known(f)'
  <2>1. CASE TakePage(f)
    BY <2>1 DEF TakePage, Goto, Delayed, TypeOK
  <2>2. CASE GetCrawlDelay(f)
    <3>1. CASE cache[Host(f)] = "miss"
      BY <2>2, <3>1 DEF GetCrawlDelay, Goto, Delayed, TypeOK
    <3>2. CASE cache[Host(f)] # "miss"
      <4>1. Host(f)' = Host(f) /\ cache' = cache /\ fpc'[f] = "enforce"
        BY <2>2, <3>2 DEF GetCrawlDelay, Goto, Host, robotsVars, TypeOK
      <4>2. ASSUME Host(f) \in Rules \ Garbling, CrawlDelay[Host(f)] > 0
            PROVE  delay'[f] = CrawlDelay[Host(f)]
        <5>1. Host(f) \in Hosts /\ cache[Host(f)] = "group"
          BY <1>1, <2>2, <3>2, <4>2 DEF GetCrawlDelay, ObeyInv, Served
        <5>2. DelayOf(Host(f), cache[Host(f)]) = CrawlDelay[Host(f)]
          BY <5>1 DEF DelayOf
        <5> QED
          BY <2>2, <3>2, <4>2, <5>2 DEF GetCrawlDelay, SetDelay, OrDefault, TypeOK
      <4> QED
        BY <3>2, <4>1, <4>2
    <3> QED
      BY <3>1, <3>2
  <2>3. CASE DelayAnswer(f)
    BY <2>3 DEF DelayAnswer, Goto, Delayed, Host, TypeOK
  <2>4. CASE Enforce(f) \/ Wake(f)
    BY <1>2, <2>4 DEF Enforce, Wake, Goto, Delayed, Host, robotsVars, TypeOK
  <2>5. CASE IsAllowed(f)
    <3>1. CASE Host(f) \in Flaky /\ Goto(f, "checkRobots") /\ UNCHANGED page
      BY <3>1 DEF Goto, Host, TypeOK
    <3>2. CASE Goto(f, "get") /\ UNCHANGED <<page, delay, cache>>
      BY <1>2, <2>5, <3>2 DEF IsAllowed, Goto, Host, Delayed, TypeOK
    <3>3. CASE Return(f)
      BY <3>3 DEF Return, Goto, Delayed, TypeOK
    <3>4. cache[Host(f)] = "miss" => Host(f) \in Flaky
      BY <1>2, <2>5 DEF IsAllowed, Delayed
    <3> QED
      BY <2>5, <3>1, <3>2, <3>3, <3>4 DEF IsAllowed, Test, robotsVars
  <2>6. CASE CheckAnswer(f)
    <3>1. Host(f) \in Flaky
      BY <1>2, <2>6 DEF CheckAnswer, Delayed
    <3>2. CASE UNCHANGED page
      BY <3>1, <3>2 DEF Host
    <3>3. CASE Return(f)
      BY <3>3 DEF Return, Goto, Delayed, TypeOK
    <3> QED
      BY <2>6, <3>2, <3>3 DEF CheckAnswer, Test
  <2>7. CASE Get(f)
    BY <2>7 DEF Get, Return, Goto, Delayed, TypeOK
  <2> QED
    BY <2>1, <2>2, <2>3, <2>4, <2>5, <2>6, <2>7 DEF FetchStep
<1>5. \A g \in Fetchers : Known(g)'
  BY <1>3, <1>4
<1> QED
  BY <1>5 DEF DelayKnown, CachedInv

(***************************************************************************)
(* Slots are reserved with the delay that the host asks for, and nobody     *)
(* waits for its robots.txt after the slot, unless requests for it fail     *)
(* (crawler.go, CrawlUrl: GetCrawlDelay, Enforce, IsAllowed).               *)
(***************************************************************************)
THEOREM DelayIsKnown == Spec => []DelayKnown
<1> DEFINE Inv == TypeOK /\ ObeyInv /\ RobotsObeyed /\ DelayKnown /\ CachedInv
<1>1. Init => Inv
  BY DEF Init, TypeOK, PolitenessInit, PolitenessTypeOK, RobotsInit, RobotsTypeOK,
         FetchLabels, ObeyInv, RobotsObeyed, DelayKnown, CachedInv, Delayed
<1>2. Inv /\ [Next]_vars => Inv'
  <2> SUFFICES ASSUME Inv, [Next]_vars
               PROVE  ObeyInv' /\ RobotsObeyed' /\ DelayKnown' /\ CachedInv'
    BY NextType
  <2>1. CASE UNCHANGED <<robotsVars, fetchVars>>
    BY <2>1
    DEF robotsVars, fetchVars, ObeyInv, RobotsObeyed, DelayKnown, CachedInv, Delayed, Served, Host
  <2> QED
    BY <2>1, ObeyStep, DelayStep DEF Next, vars
<1> QED
  BY <1>1, <1>2, PTL DEF Spec
-------------------------------------------------------------------------------
(* A step of a goroutine leaves the others alone. *)
LEMMA OthersKeep ==
  ASSUME TypeOK, NEW f \in Fetchers, FetchStep(f)
  PROVE  \A g \in Fetchers \ {f} :
           fpc'[g] = fpc[g] /\ page'[g] = page[g] /\ delay'[g] = delay[g] /\ slot'[g] = slot[g]
BY DEF FetchStep, TakePage, GetCrawlDelay, DelayAnswer, Enforce, Wake, IsAllowed, CheckAnswer,
       Get, Test, Return, Goto, SetDelay, TypeOK

(* Every page is taken once and by one goroutine. *)
LEMMA PageOnceStep ==
  ASSUME TypeOK, PageOnce, NEW f \in Fetchers, FetchStep(f)
  PROVE  PageOnce'
<1>1. \A g \in Fetchers \ {f} : fpc'[g] = fpc[g] /\ page'[g] = page[g]
  BY OthersKeep
<1>2. CASE TakePage(f)
  <2>1. PICK p \in todo : todo' = todo \ {p} /\ page' = [page EXCEPT ![f] = p]
    BY <1>2 DEF TakePage
  <2>2. requested' = requested /\ page'[f] = p /\ p \in Pages
    BY <1>2, <2>1 DEF TakePage, TypeOK
  <2> QED
    BY <1>1, <2>1, <2>2 DEF PageOnce
<1>3. CASE Get(f)
  <2>1. /\ fpc[f] = "get" /\ fpc'[f] = "idle"
        /\ requested' = requested \cup {page[f]} /\ todo' = todo
    BY <1>3 DEF Get, Return, Goto, TypeOK
  <2> QED
    BY <1>1, <2>1 DEF PageOnce
<1>4. CASE ~TakePage(f) /\ ~Get(f)
  <2>1. /\ todo' = todo /\ requested' = requested /\ fpc[f] # "idle"
        /\ fpc'[f] = "idle" \/ page'[f] = page[f]
    BY <1>4 DEF FetchStep, GetCrawlDelay, DelayAnswer, Enforce, Wake, IsAllowed, CheckAnswer,
                Test, Return, Goto, TypeOK
  <2> QED
    BY <1>1, <2>1 DEF PageOnce
<1> QED
  BY <1>2, <1>3, <1>4

(* Slots are reserved for pages and over when their goroutine goes on. *)
LEMMA SlotOfPageStep ==
  ASSUME TypeOK, PageOnce, SlotOfPage, NEW f \in Fetchers, FetchStep(f)
  PROVE  SlotOfPage'
<1> DEFINE Unreserved(g) ==
             fpc[g] \in {"delay", "delayRobots", "enforce"} => reserved[page[g]] = NoSlot
           Has(g) == fpc[g] \in {"sleep", "check", "checkRobots", "get"} =>
                       reserved[page[g]] = slot[g]
           Over(g) == fpc[g] \in {"check", "checkRobots", "get"} => slot[g] <= now
           Good(g) == Unreserved(g) /\ Has(g) /\ Over(g)
           Rest == /\ \A p \in todo : reserved[p] = NoSlot
                   /\ \A p \in requested : reserved[p] # NoSlot /\ reserved[p] <= now
<1>1. \A g \in Fetchers \ {f} : fpc'[g] = fpc[g] /\ page'[g] = page[g] /\ slot'[g] = slot[g]
  BY OthersKeep
<1>2. fpc[f] # "idle" => page[f] \in Pages
  BY DEF TypeOK
<1>3. now' = now
  BY DEF FetchStep, TakePage, GetCrawlDelay, DelayAnswer, Enforce, Wake, IsAllowed, CheckAnswer,
         Get, Reserve, politenessVars
<1>4. CASE Enforce(f)
  <2>1. /\ fpc[f] = "enforce" /\ fpc'[f] = "sleep" /\ page' = page
        /\ todo' = todo /\ requested' = requested
        /\ reserved' = [reserved EXCEPT ![page[f]] = slot'[f]]
    BY <1>4 DEF Enforce, Goto, TypeOK
  <2>2. \A p \in Pages \ {page[f]} : reserved'[p] = reserved[p]
    BY <2>1 DEF TypeOK
  <2>3. Rest'
    BY <1>2, <1>3, <2>1, <2>2 DEF SlotOfPage, PageOnce, TypeOK
  <2>4. \A g \in Fetchers \ {f} : Good(g)'
    BY <1>1, <1>3, <2>1, <2>2 DEF SlotOfPage, PageOnce, TypeOK
  <2>5. Good(f)'
    BY <1>2, <2>1 DEF TypeOK
  <2> QED
    BY <2>3, <2>4, <2>5 DEF SlotOfPage
<1>5. CASE ~Enforce(f)
  <2>1. reserved' = reserved
    BY <1>5 DEF FetchStep, TakePage, GetCrawlDelay, DelayAnswer, Wake, IsAllowed, CheckAnswer, Get
  <2>2. \A g \in Fetchers \ {f} : Good(g)'
    BY <1>1, <1>3, <2>1 DEF SlotOfPage
  <2>3. Rest'
    <3>1. CASE Get(f)
      BY <1>2, <1>3, <2>1, <3>1 DEF Get, SlotOfPage, TypeOK
    <3>2. CASE ~Get(f)
      <4>1. todo' \subseteq todo /\ requested' = requested
        BY <1>5, <3>2 DEF FetchStep, TakePage, GetCrawlDelay, DelayAnswer, Wake, IsAllowed,
                          CheckAnswer
      <4> QED
        BY <1>3, <2>1, <4>1 DEF SlotOfPage
    <3> QED
      BY <3>1, <3>2
  <2>4. Good(f)'
    <3>1. CASE TakePage(f)
      BY <2>1, <3>1 DEF TakePage, Goto, SlotOfPage, TypeOK
    <3>2. CASE GetCrawlDelay(f) \/ DelayAnswer(f)
      BY <2>1, <3>2 DEF GetCrawlDelay, DelayAnswer, Goto, SlotOfPage, TypeOK
    <3>3. CASE Wake(f)
      BY <1>3, <2>1, <3>3 DEF Wake, Goto, SlotOfPage, TypeOK
    <3>4. CASE IsAllowed(f) \/ CheckAnswer(f) \/ Get(f)
      <4>1. \/ fpc'[f] = "idle"
            \/ /\ fpc[f] \in {"check", "checkRobots"} /\ fpc'[f] \in {"get", "checkRobots"}
               /\ page' = page /\ slot' = slot
        BY <3>4 DEF IsAllowed, CheckAnswer, Get, Test, Return, Goto, TypeOK
      <4> QED
        BY <1>3, <2>1, <4>1 DEF SlotOfPage
    <3> QED
      BY <1>5, <3>1, <3>2, <3>3, <3>4 DEF FetchStep
  <2> QED
    BY <2>2, <2>3, <2>4 DEF SlotOfPage
<1> QED
  BY <1>4, <1>5

(* A goroutine that finds an entry, or fails to, has a possible delay. *)
LEMMA DelayPossibleStep ==
  ASSUME TypeOK, DelayPossible, NEW f \in Fetchers, FetchStep(f)
  PROVE  DelayPossible'
<1> DEFINE Fine(g) == Delayed(g) => delay[g] \in PossibleDelays(Host(g))
<1>1. \A g \in Fetchers \ {f} : fpc'[g] = fpc[g] /\ page'[g] = page[g] /\ delay'[g] = delay[g]
  BY OthersKeep
<1>2. fpc[f] # "idle" => page[f] \in Pages /\ Host(f) \in Hosts
  BY DEF TypeOK, Host
<1>3. \A h \in Hosts : cache'[h] \in {"miss"} \cup Entries(h)
  <2>1. CASE \E e \in Entries(Host(f)) : CacheRobots(Host(f), e) /\ fpc[f] # "idle"
    BY <1>2, <2>1 DEF DelayPossible, CacheRobots, TypeOK, RobotsTypeOK
  <2>2. CASE UNCHANGED cache
    BY <2>2 DEF DelayPossible
  <2> QED
    BY <2>1, <2>2 DEF FetchStep, TakePage, GetCrawlDelay, DelayAnswer, Enforce, Wake, IsAllowed,
                      CheckAnswer, Get, RequestRobots, robotsVars
<1>4. \A g \in Fetchers \ {f} : Fine(g)'
  BY <1>1 DEF DelayPossible, Delayed, Host, PossibleDelays
<1>5. Fine(f)'
  <2>1. CASE GetCrawlDelay(f)
    <3>1. CASE fpc'[f] = "delayRobots"
      BY <3>1 DEF Delayed
    <3>2. CASE fpc'[f] # "delayRobots"
      <4>1. /\ fpc[f] = "delay" /\ cache[Host(f)] # "miss" /\ page' = page
            /\ delay'[f] = OrDefault(DelayOf(Host(f), cache[Host(f)]))
        BY <2>1, <3>2 DEF GetCrawlDelay, SetDelay, Goto, TypeOK
      <4>2. cache[Host(f)] \in Entries(Host(f))
        BY <1>2, <4>1 DEF DelayPossible
      <4> QED
        BY <4>1, <4>2 DEF PossibleDelays, Host
    <3> QED
      BY <3>1, <3>2
  <2>2. CASE DelayAnswer(f)
    <3>1. CASE fpc'[f] = "delay"
      BY <3>1 DEF Delayed
    <3>2. CASE fpc'[f] # "delay"
      <4>1. Host(f) \in Flaky /\ delay'[f] = OrDefault(0) /\ page' = page
        BY <2>2, <3>2 DEF DelayAnswer, SetDelay, Goto, TypeOK
      <4>2. DelayOf(Host(f), "nil") = 0
        BY DEF DelayOf
      <4> QED
        BY <4>1, <4>2 DEF PossibleDelays, Host
    <3> QED
      BY <3>1, <3>2
  <2>3. CASE TakePage(f)
    BY <2>3 DEF TakePage, Goto, Delayed, TypeOK
  <2>4. CASE Enforce(f) \/ Wake(f) \/ IsAllowed(f) \/ CheckAnswer(f) \/ Get(f)
    <3>1. \/ fpc'[f] = "idle"
          \/ Delayed(f) /\ page' = page /\ delay' = delay
      BY <2>4 DEF Enforce, Wake, IsAllowed, CheckAnswer, Get, Test, Return, Goto, Delayed, TypeOK
    <3> QED
      BY <3>1 DEF DelayPossible, Delayed, Host, PossibleDelays
  <2> QED
    BY <2>1, <2>2, <2>3, <2>4 DEF FetchStep
<1> QED
  BY <1>3, <1>4, <1>5 DEF DelayPossible
-------------------------------------------------------------------------------
(* Of two or three integers one is the smallest. *)
LEMMA MinOfThree ==
  ASSUME NEW a \in Int, NEW b \in Int, NEW c \in Int,
         NEW S \in SUBSET {a, b, c}, S # {}
  PROVE  Min(S) \in S /\ \A n \in S : Min(S) <= n
<1> DEFINE IsMin(m) == m \in S /\ \A n \in S : m <= n
<1>1. \E m : IsMin(m)
  <2>1. a \in S \/ b \in S \/ c \in S
    OBVIOUS
  <2>2. \A n \in S : n = a \/ n = b \/ n = c
    OBVIOUS
  <2>3. IsMin(a) \/ IsMin(b) \/ IsMin(c)
    <3>1. CASE a \in S /\ (b \in S => a <= b) /\ (c \in S => a <= c)
      BY <2>2, <3>1
    <3>2. CASE b \in S /\ (a \in S => b <= a) /\ (c \in S => b <= c)
      BY <2>2, <3>2
    <3>3. CASE c \in S /\ (a \in S => c <= a) /\ (b \in S => c <= b)
      BY <2>2, <3>3
    <3> QED
      BY <2>1, <3>1, <3>2, <3>3
  <2> QED
    BY <2>3
<1>2. IsMin(Min(S))
  BY <1>1 DEF Min
<1> QED
  BY <1>2

(* The spacing of a host is at most each delay that it may lead to. *)
LEMMA SpacingBounds ==
  ASSUME NEW h \in Hosts
  PROVE  /\ Spacing[h] \in Nat \ {0} /\ Spacing[h] <= MaxAge + 1
         /\ \A d \in PossibleDelays(h) : d \in Nat /\ Spacing[h] <= d
<1> DEFINE a == OrDefault(CrawlDelay[h])
           S == PossibleDelays(h) \cup {MaxAge + 1}
<1>1. a \in Nat \ {0} /\ MaxAge + 1 \in Nat \ {0} /\ DefaultDelay \in Nat \ {0}
  BY DEF OrDefault
<1>2. \A e : OrDefault(DelayOf(h, e)) \in {a, DefaultDelay}
  BY DEF OrDefault, DelayOf
<1>3. PossibleDelays(h) \subseteq {a, DefaultDelay}
  BY <1>2 DEF PossibleDelays
<1> HIDE DEF a
<1>4. S \in SUBSET {a, DefaultDelay, MaxAge + 1} /\ S # {}
  BY <1>3
<1>5. Min(S) \in S /\ \A n \in S : Min(S) <= n
  <2>1. a \in Int /\ DefaultDelay \in Int /\ MaxAge + 1 \in Int
    BY <1>1
  <2> HIDE DEF S
  <2> QED
    BY ONLY <1>4, <2>1, MinOfThree, Zenon
<1>6. Spacing[h] \in S /\ \A n \in S : Spacing[h] <= n
  BY <1>5 DEF Spacing
<1> QED
  BY <1>1, <1>3, <1>6

(* A new slot lies the spacing of its host after all earlier ones. *)
LEMMA SlotAfterAll ==
  ASSUME TypeOK, SlotInv, TimetableInv, NEW f \in Fetchers, Enforce(f)
  PROVE  \A q \in Reserved(Host(f)) : slot'[f] >= reserved[q] + Spacing[Host(f)]
<1> DEFINE h == Host(f)
<1>1. h \in Hosts /\ delay[f] \in Nat
  BY DEF Enforce, Host, TypeOK
<1>2. delay[f] \in PossibleDelays(h)
  BY DEF Enforce, TimetableInv, DelayPossible, Delayed
<1>3. ASSUME NEW q \in Reserved(h)
      PROVE  slot'[f] >= reserved[q] + Spacing[h]
  <2>1. /\ latest[h] # NoSlot /\ reserved[q] <= latest[h]
        /\ latest[h] \in Nat /\ reserved[q] \in Nat
    BY <1>1, <1>3 DEF TimetableInv, SpacedOut, Reserved, TypeOK, PolitenessTypeOK
  <2>2. slot'[f] >= latest[h] + Min({delay[f], MaxAge + 1})
    BY <2>1, ReservedApart DEF TimetableInv
  <2>3. Min({delay[f], MaxAge + 1}) \in Int /\ Min({delay[f], MaxAge + 1}) >= Spacing[h]
    <3>1. MaxAge + 1 \in Int /\ delay[f] \in Int
      BY <1>1
    <3>2. Min({delay[f], MaxAge + 1}) \in {delay[f], MaxAge + 1}
      BY ONLY <3>1, MinOfTwo, Zenon
    <3>3. Spacing[h] <= delay[f] /\ Spacing[h] <= MaxAge + 1
      BY <1>1, <1>2, SpacingBounds
    <3> QED
      BY <3>1, <3>2, <3>3
  <2>4. slot'[f] \in Int /\ Spacing[h] \in Nat
    BY <1>1, SpacingBounds, SlotNat DEF Enforce, TypeOK
  <2> HIDE DEF h
  <2> QED
    BY <2>1, <2>2, <2>3, <2>4
<1> QED
  BY <1>3

(* Slots that lie apart stay apart. *)
LEMMA SpacedOutStep ==
  ASSUME TypeOK, SlotInv, TimetableInv, NEW f \in Fetchers, FetchStep(f)
  PROVE  SpacedOut'
<1> DEFINE Apart(p, q, h) ==
      reserved[p] >= reserved[q] + Spacing[h] \/ reserved[q] >= reserved[p] + Spacing[h]
<1>1. \A h : Spacing[h]' = Spacing[h]
  BY DEF Spacing, PossibleDelays
<1>2. CASE Enforce(f)
  <2>1. page[f] \in Pages /\ Host(f) \in Hosts
    BY <1>2 DEF Enforce, Host, TypeOK
  <2> PICK k \in Hosts : k = Host(f)
    BY <2>1
  <2> PICK u \in Pages : u = page[f]
    BY <2>1
  <2> PICK t : t = Slot(k, delay[f])
    OBVIOUS
  <2>2. t = slot'[f] /\ t \in Nat /\ k = HostOf[u]
    BY <1>2, <2>1, SlotNat DEF Enforce, TypeOK, Host
  <2>3. /\ reserved' = [reserved EXCEPT ![u] = t]
        /\ latest' = [latest EXCEPT ![k] = t]
    BY <1>2, <2>2 DEF Enforce, Reserve
  <2>4. t # NoSlot /\ latest'[k] = t /\ reserved'[u] = t
    BY <2>1, <2>2, <2>3 DEF TypeOK, PolitenessTypeOK
  <2>5. \A q \in Reserved(k) : t >= reserved[q] + Spacing[k]
    BY <1>2, <2>2, SlotAfterAll
  <2>6. \A q \in Pages \ {u} : reserved'[q] = reserved[q]
    BY <2>3 DEF TypeOK
  <2>7. Spacing[k] \in Nat
    BY <2>1, SpacingBounds
  <2>8. \A q \in Reserved(k) : reserved[q] \in Nat /\ reserved[q] <= t
    BY <2>2, <2>5, <2>7 DEF Reserved, TypeOK
  <2>9. Reserved(k)' = Reserved(k) \cup {u} /\ u \notin Reserved(k)
    <3>1. reserved[u] = NoSlot
      BY <1>2 DEF Enforce, TimetableInv, SlotOfPage
    <3> QED
      BY <2>1, <2>2, <2>4, <2>6, <3>1 DEF Reserved
  <2>10. ASSUME NEW h \in Hosts \ {k}
         PROVE  Reserved(h)' = Reserved(h) /\ latest'[h] = latest[h]
                /\ \A q \in Reserved(h) : reserved'[q] = reserved[q]
    BY <2>1, <2>2, <2>3, <2>6 DEF Reserved, TypeOK, PolitenessTypeOK
  <2>11. ASSUME NEW p \in Reserved(k)'
         PROVE  /\ latest'[k] # NoSlot /\ reserved'[p] <= latest'[k]
                /\ \A q \in Reserved(k)' \ {p} : Apart(p, q, k)'
    <3>1. CASE p = u
      BY <1>1, <2>2, <2>4, <2>5, <2>6, <2>9, <3>1 DEF Reserved
    <3>2. CASE p # u
      <4>1. p \in Reserved(k) /\ reserved'[p] = reserved[p] /\ reserved[p] <= t
        BY <2>6, <2>8, <2>9, <3>2 DEF Reserved
      <4>2. Apart(p, u, k)'
        BY <1>1, <2>4, <2>5, <4>1
      <4>3. \A q \in Reserved(k) \ {p} : Apart(p, q, k)' 
        BY <1>1, <2>1, <2>6, <2>9, <4>1 DEF TimetableInv, SpacedOut, Reserved
      <4> QED
        BY <2>4, <2>9, <4>1, <4>2, <4>3
    <3> QED
      BY <3>1, <3>2
  <2>12. ASSUME NEW h \in Hosts \ {k}, NEW p \in Reserved(h)'
         PROVE  /\ latest'[h] # NoSlot /\ reserved'[p] <= latest'[h]
                /\ \A q \in Reserved(h)' \ {p} : Apart(p, q, h)'
    BY <1>1, <2>10, <2>12 DEF TimetableInv, SpacedOut
  <2> QED
    BY <2>11, <2>12 DEF SpacedOut
<1>3. CASE UNCHANGED <<politenessVars, reserved>>
  BY <1>1, <1>3 DEF TimetableInv, SpacedOut, Reserved, politenessVars
<1> QED
  BY <1>2, <1>3, FetchKeepsSlots DEF FetchStep, TakePage, GetCrawlDelay, DelayAnswer, Wake,
                                     IsAllowed, CheckAnswer, Get

(* All four parts are kept by every step. *)
LEMMA TimetableStep ==
  ASSUME TypeOK, SlotInv, TimetableInv, [Next]_vars
  PROVE  TimetableInv'
<1>1. ASSUME NEW f \in Fetchers, FetchStep(f)
      PROVE  TimetableInv'
  BY <1>1, PageOnceStep, SlotOfPageStep, DelayPossibleStep, SpacedOutStep DEF TimetableInv
<1>2. CASE UNCHANGED <<robotsVars, fetchVars, latest>> /\ now' >= now /\ now' \in Nat
  <2>1. PageOnce'
    BY <1>2 DEF TimetableInv, fetchVars, PageOnce
  <2>2. SlotOfPage'
    BY <1>2 DEF TimetableInv, fetchVars, SlotOfPage, TypeOK, PolitenessTypeOK
  <2>3. DelayPossible'
    BY <1>2 DEF TimetableInv, robotsVars, fetchVars, DelayPossible, Delayed, Host, PossibleDelays
  <2>4. SpacedOut'
    BY <1>2 DEF TimetableInv, fetchVars, SpacedOut, Reserved, Spacing, PossibleDelays
  <2> QED
    BY <2>1, <2>2, <2>3, <2>4 DEF TimetableInv
<1> QED
  BY <1>1, <1>2 DEF Next, vars, Sweep, Tick, politenessVars, TypeOK, PolitenessTypeOK

LEMMA TimetableInit == Init => TimetableInv
BY DEF Init, PolitenessInit, RobotsInit, TimetableInv, PageOnce, SlotOfPage, DelayPossible,
       Delayed, SpacedOut, Reserved

(* Numbers that lie n apart have different quotients by n. *)
LEMMA QuotientsDiffer ==
  ASSUME NEW n \in Nat \ {0}, NEW i \in Nat, NEW j \in Nat
  PROVE  /\ i \div n \in Nat
         /\ i <= j => i \div n <= j \div n
         /\ i >= j + n => i \div n # j \div n
<1> DEFINE a == i \div n
           b == j \div n
<1>1. a \in Int /\ b \in Int
  OBVIOUS
<1>2. /\ n * a <= i /\ i < n * a + n
      /\ n * b <= j /\ j < n * b + n
  OBVIOUS
<1> QED
  BY <1>1, <1>2

(* Requested pages have slots in the past that lie apart. *)
LEMMA RateFollows ==
  ASSUME TypeOK, TimetableInv
  PROVE  RequestRate
<1> SUFFICES ASSUME NEW h \in Hosts
             PROVE  Cardinality({p \in requested : HostOf[p] = h}) <= (now \div Spacing[h]) + 1
  BY DEF RequestRate
<1> DEFINE n == Spacing[h]
           S == {p \in requested : HostOf[p] = h}
           k == now \div n
           quotient == [p \in S |-> reserved[p] \div n]
<1>1. n \in Nat \ {0} /\ now \in Nat
  BY SpacingBounds DEF TypeOK, PolitenessTypeOK
<1>2. \A p \in S : p \in Reserved(h) /\ reserved[p] \in Nat /\ reserved[p] <= now
  BY DEF TimetableInv, SlotOfPage, Reserved, TypeOK
<1>3. \A p, q \in S : p # q =>
        reserved[p] >= reserved[q] + n \/ reserved[q] >= reserved[p] + n
  BY <1>2 DEF TimetableInv, SpacedOut
<1> HIDE DEF n, S
<1>4. k \in Nat
  BY <1>1, QuotientsDiffer
<1>5. \A p \in S : quotient[p] \in 0..k
  BY <1>1, <1>2, <1>4, QuotientsDiffer
<1>6. \A p, q \in S : p # q => quotient[p] # quotient[q]
  BY <1>1, <1>2, <1>3, QuotientsDiffer
<1>7. quotient \in Injection(S, 0..k)
  BY <1>5, <1>6 DEF Injection, IsInjective
<1>8. IsFiniteSet(0..k) /\ Cardinality(0..k) = k + 1
  BY <1>4, FS_Interval
<1>9. Cardinality(S) <= k + 1
  BY <1>7, <1>8, FS_Injection
<1> QED
  BY <1>9 DEF n, S

(***************************************************************************)
(* A worker process does not ask more often than the crawl delay allows,    *)
(* however its goroutines interleave (README.md: crawl delay).              *)
(***************************************************************************)
THEOREM RateIsKept == Spec => []RequestRate
<1> DEFINE Inv == TypeOK /\ SlotInv /\ TimetableInv
<1>1. Init => Inv
  BY TypeInit, TimetableInit DEF Init, SlotInv, PolitenessInit
<1>2. Inv /\ [Next]_vars => Inv'
  BY NextType, SlotInvStep, TimetableStep
<1>3. Inv => RequestRate
  BY RateFollows
<1> QED
  BY <1>1, <1>2, <1>3, PTL DEF Spec
-------------------------------------------------------------------------------
(***************************************************************************)
(* All of them together, with the strengthenings of each.                   *)
(***************************************************************************)
THEOREM FetchInvariant == Spec => []FetchInv
<1>1. Init => FetchInv
  BY TypeInit, RequestInit, TimetableInit, RateFollows
  DEF Init, FetchInv, PolitenessInit, RobotsInit, SlotInv, ObeyInv, RobotsObeyed, DelayKnown,
      CachedInv, Delayed
<1>2. TypeOK' /\ TimetableInv' => RequestRate'
  <2>1. TypeOK /\ TimetableInv => RequestRate
    BY RateFollows
  <2> QED
    BY <2>1, PTL
<1>3. FetchInv /\ [Next]_vars => FetchInv'
  <2> SUFFICES ASSUME FetchInv, [Next]_vars
               PROVE  FetchInv'
    OBVIOUS
  <2>1. TypeOK' /\ SlotInv' /\ TimetableInv'
    BY NextType, SlotInvStep, TimetableStep DEF FetchInv
  <2>2. RequestRate'
    BY <1>2, <2>1
  <2>3. CASE UNCHANGED <<robotsVars, fetchVars>>
    BY <2>1, <2>2, <2>3
    DEF FetchInv, robotsVars, fetchVars, ObeyInv, RobotsObeyed, FewRobotsRequests, RequestInv,
        Requesting, DelayKnown, CachedInv, Delayed, Served, Host
  <2>4. ASSUME NEW f \in Fetchers, FetchStep(f)
        PROVE  FetchInv'
    BY <2>1, <2>2, <2>4, ObeyStep, RequestStep, DelayStep DEF FetchInv
  <2> QED
    BY <2>3, <2>4 DEF Next, vars
<1> QED
  BY <1>1, <1>3, PTL DEF Spec
-------------------------------------------------------------------------------
(* A reservation is an appointment. *)
LEMMA EnforceBooks ==
  ASSUME TypeOK, SlotInv, TimetableInv, NEW f \in Fetchers, Enforce(f)
  PROVE  Appointments!Book(page[f])
<1> PICK p : p = page[f]
  OBVIOUS
<1>1. p \in Pages /\ Host(f) = HostOf[p] /\ HostOf[p] \in Hosts
  BY DEF Enforce, Host, TypeOK
<1>2. reserved[p] = NoSlot
  BY DEF Enforce, TimetableInv, SlotOfPage
<1>3. slot'[f] \in Nat /\ slot'[f] >= now
  BY <1>1, SlotNat DEF Enforce, TypeOK
<1>4. reserved' = [reserved EXCEPT ![p] = slot'[f]] /\ reserved'[p] = slot'[f]
  BY <1>1 DEF Enforce, TypeOK
<1>5. \A q \in Reserved(HostOf[p]) : reserved'[p] >= reserved[q] + Spacing[HostOf[p]]
  BY <1>1, <1>4, SlotAfterAll
<1>6. Appointments!Booked(HostOf[p]) = Reserved(HostOf[p])
  BY DEF Appointments!Booked, Reserved
<1>7. UNCHANGED <<now, requested>>
  BY DEF Enforce, Reserve
<1> QED
  BY <1>1, <1>2, <1>3, <1>4, <1>5, <1>6, <1>7 DEF Appointments!Book

(* A request keeps an appointment that is due, for a page that is allowed. *)
LEMMA GetVisits ==
  ASSUME TypeOK, ObeyInv, TimetableInv, NEW f \in Fetchers, Get(f)
  PROVE  Appointments!Visit(page[f])
<1>1. fpc[f] = "get" /\ page[f] \in Pages /\ slot[f] \in Nat
  BY DEF Get, TypeOK
<1>2. reserved[page[f]] = slot[f] /\ slot[f] <= now
  BY <1>1 DEF TimetableInv, SlotOfPage
<1>3. page[f] \notin requested
  BY <1>1 DEF TimetableInv, PageOnce
<1>4. HostOf[page[f]] \in Rules \ Garbling => page[f] \notin Disallowed
  BY <1>1 DEF ObeyInv, Host
<1> QED
  BY <1>1, <1>2, <1>3, <1>4 DEF Appointments!Visit, Get, politenessVars

(***************************************************************************)
(* The worker process keeps the timetable: every request has an             *)
(* appointment of its own, which is due, and the appointments of a host lie *)
(* apart (politeness.go, Enforce; crawler.go, CrawlUrl).                    *)
(***************************************************************************)
THEOREM CrawlerKeepsTimetable == Spec => ImplementsTimetable
<1> DEFINE Inv == TypeOK /\ SlotInv /\ ObeyInv /\ TimetableInv
<1>1. Spec => []Inv
  <2>1. FetchInv => Inv
    BY DEF FetchInv
  <2> QED
    BY <2>1, FetchInvariant, PTL
<1>2. Init => Appointments!Init
  BY DEF Init, PolitenessInit, Appointments!Init
<1>3. Inv /\ [Next]_vars => [Appointments!Next]_Appointments!vars
  <2> SUFFICES ASSUME Inv, [Next]_vars
               PROVE  [Appointments!Next]_Appointments!vars
    OBVIOUS
  <2>1. ASSUME NEW f \in Fetchers, FetchStep(f)
        PROVE  [Appointments!Next]_Appointments!vars
    <3>1. fpc[f] # "idle" => page[f] \in Pages
      BY DEF TypeOK
    <3>2. CASE Enforce(f)
      BY <3>1, <3>2, EnforceBooks DEF Enforce, Appointments!Next
    <3>3. CASE Get(f)
      BY <3>1, <3>3, GetVisits DEF Get, Appointments!Next
    <3>4. CASE ~Enforce(f) /\ ~Get(f)
      BY <2>1, <3>4 DEF FetchStep, TakePage, GetCrawlDelay, DelayAnswer, Wake, IsAllowed,
                        CheckAnswer, politenessVars, Appointments!vars
    <3> QED
      BY <3>2, <3>3, <3>4
  <2>2. CASE Sweep /\ UNCHANGED <<robotsVars, fetchVars>>
    BY <2>2 DEF Sweep, fetchVars, Appointments!vars
  <2>3. CASE Tick /\ UNCHANGED <<robotsVars, fetchVars>>
    BY <2>3 DEF Tick, fetchVars, Appointments!Pass, Appointments!Next
  <2>4. CASE UNCHANGED vars
    BY <2>4 DEF vars, politenessVars, fetchVars, Appointments!vars
  <2> QED
    BY <2>1, <2>2, <2>3, <2>4 DEF Next
<1> QED
  BY <1>1, <1>2, <1>3, PTL DEF Spec, ImplementsTimetable, Appointments!Spec
-------------------------------------------------------------------------------
(* A request is recorded with its time, as long as nobody was late. *)
LEMMA GetAsks ==
  ASSUME TypeOK, PageOnce, NEW f \in Fetchers, Get(f), TimedNext
  PROVE  /\ Asked = {page[f]} /\ page[f] \in Pages /\ HostOf[page[f]] \in Hosts
         /\ ~late' => lastRequest' =
              [h \in Hosts |-> IF h = Host(f) THEN now ELSE lastRequest[h]]
<1>1. fpc[f] = "get" /\ page[f] \in Pages /\ page[f] \notin requested
  BY DEF Get, TypeOK, PageOnce
<1>2. Asked = {page[f]}
  BY <1>1 DEF Asked, Get
<1>3. \A h \in Hosts : (\E p \in Asked : HostOf[p] = h) <=> h = Host(f)
  BY <1>2 DEF Host
<1> QED
  BY <1>1, <1>2, <1>3 DEF TimedNext

(* Steps that request no page leave the times alone. *)
LEMMA NothingAsked ==
  ASSUME lastRequest \in [Hosts -> Nat \cup {NoSlot}], requested' = requested, TimedNext
  PROVE  ~late' => lastRequest' = lastRequest
<1>1. Asked = {}
  BY DEF Asked
<1>2. ~late' => lastRequest' = [h \in Hosts |-> lastRequest[h]]
  BY <1>1 DEF TimedNext
<1> QED
  BY <1>2

(* Who was late once has no times any more, and stays late. *)
LEMMA LateForgets ==
  ASSUME Punctual, TimedNext
  PROVE  /\ late' \in BOOLEAN
         /\ late' => lastRequest' = [h \in Hosts |-> NoSlot]
         /\ ~late' => ~late /\ (now' # now => \A f \in Fetchers : Waiting(f))
BY DEF Punctual, TimedNext

(* Only Get requests a page. *)
LEMMA OnlyGetAsks ==
  ASSUME NEW f \in Fetchers, FetchStep(f), ~Get(f)
  PROVE  requested' = requested
BY DEF FetchStep, TakePage, GetCrawlDelay, DelayAnswer, Enforce, Wake, IsAllowed, CheckAnswer

(* Goroutines sleep for their slots, and wake on them. *)
LEMMA OnTimeStep ==
  ASSUME TypeOK, DelayKnown, NEW f \in Fetchers, FetchStep(f), \A g \in Fetchers : OnTime(g)
  PROVE  \A g \in Fetchers : OnTime(g)'
<1>1. now' = now /\ now \in Nat
  BY DEF FetchStep, TakePage, GetCrawlDelay, DelayAnswer, Enforce, Wake, IsAllowed, CheckAnswer,
         Get, Reserve, politenessVars, TypeOK, PolitenessTypeOK
<1>2. \A g \in Fetchers \ {f} : OnTime(g)'
  BY <1>1, OthersKeep DEF OnTime, Host
<1>3. OnTime(f)'
  <2>1. CASE Enforce(f)
    <3>1. Host(f) \in Hosts /\ delay[f] \in Nat
      BY <2>1 DEF Enforce, Host, TypeOK
    <3>2. fpc'[f] = "sleep" /\ slot'[f] = Slot(Host(f), delay[f])
      BY <2>1 DEF Enforce, Goto, TypeOK
    <3> QED
      BY <1>1, <3>1, <3>2, SlotNat DEF OnTime, TypeOK
  <2>2. CASE Wake(f)
    BY <1>1, <2>2 DEF Wake, Goto, OnTime, Host, TypeOK
  <2>3. CASE IsAllowed(f)
    BY <1>1, <2>3 DEF IsAllowed, Test, Return, Goto, OnTime, Host, TypeOK
  <2>4. CASE CheckAnswer(f)
    <3>1. Host(f) \in Flaky
      BY <2>4 DEF CheckAnswer, DelayKnown, Delayed
    <3>2. fpc'[f] = "idle" \/ page' = page
      BY <2>4 DEF CheckAnswer, Test, Return, Goto, TypeOK
    <3> QED
      BY <3>1, <3>2 DEF OnTime, Host
  <2>5. CASE TakePage(f) \/ GetCrawlDelay(f) \/ DelayAnswer(f) \/ Get(f)
    <3>1. fpc'[f] \notin {"sleep", "check", "get"}
      BY <2>5 DEF TakePage, GetCrawlDelay, DelayAnswer, Get, Return, Goto, TypeOK
    <3> QED
      BY <3>1 DEF OnTime
  <2> QED
    BY <2>1, <2>2, <2>3, <2>4, <2>5 DEF FetchStep
<1> QED
  BY <1>2, <1>3

(* The requests of a host are recorded with their slots. *)
LEMMA OnSlotStep ==
  ASSUME TypeOK, TimetableInv, Punctual, ~late, NEW f \in Fetchers, FetchStep(f), TimedNext,
         ~late'
  PROVE  lastRequest' \in [Hosts -> Nat \cup {NoSlot}] /\ OnSlot'
<1>1. CASE Get(f)
  <2>1. /\ page[f] \in Pages
        /\ lastRequest' = [h \in Hosts |-> IF h = Host(f) THEN now ELSE lastRequest[h]]
    BY <1>1, GetAsks DEF TimetableInv
  <2>2. fpc[f] = "get" /\ requested' = requested \cup {page[f]} /\ reserved' = reserved
    BY <1>1 DEF Get
  <2>3. Host(f) \notin Flaky => now = reserved[page[f]]
    BY <2>2 DEF Punctual, OnTime, TimetableInv, SlotOfPage
  <2>4. now \in Nat
    BY DEF TypeOK, PolitenessTypeOK
  <2> QED
    BY <2>1, <2>2, <2>3, <2>4 DEF Punctual, OnSlot, Host
<1>2. CASE ~Get(f)
  <2>1. requested' = requested /\ lastRequest' = lastRequest
    BY <1>2, OnlyGetAsks, NothingAsked DEF Punctual
  <2>2. \A p \in requested : reserved'[p] = reserved[p]
    <3>1. CASE Enforce(f)
      BY <3>1 DEF Enforce, TimetableInv, PageOnce, TypeOK
    <3>2. CASE ~Enforce(f)
      BY <1>2, <3>2 DEF FetchStep, TakePage, GetCrawlDelay, DelayAnswer, Wake, IsAllowed,
                        CheckAnswer
    <3> QED
      BY <3>1, <3>2
  <2> QED
    BY <2>1, <2>2 DEF Punctual, OnSlot
<1> QED
  BY <1>1, <1>2

(* While nobody is late, time passes only when all goroutines wait. *)
LEMMA PunctualStep ==
  ASSUME FetchInv, Punctual, [TimedNext]_timedVars
  PROVE  Punctual'
<1>1. TypeOK /\ TimetableInv /\ DelayKnown
  BY DEF FetchInv
<1>2. CASE TimedNext /\ late'
  BY <1>2, LateForgets DEF Punctual, OnSlot
<1>3. ASSUME NEW f \in Fetchers, FetchStep(f), TimedNext, ~late'
      PROVE  Punctual'
  <2>1. ~late /\ \A g \in Fetchers : OnTime(g)
    BY <1>3, LateForgets DEF Punctual
  <2> QED
    BY <1>1, <1>3, <2>1, OnTimeStep, OnSlotStep, LateForgets DEF Punctual
<1>4. CASE TimedNext /\ ~late' /\ (Sweep \/ Tick) /\ UNCHANGED <<robotsVars, fetchVars>>
  <2>1. ~late /\ lastRequest' = lastRequest
    BY <1>4, LateForgets, NothingAsked DEF fetchVars, Punctual
  <2>2. OnSlot'
    BY <1>4, <2>1 DEF fetchVars, Punctual, OnSlot
  <2>3. ASSUME NEW f \in Fetchers PROVE OnTime(f)'
    <3>1. now \in Nat /\ slot[f] \in Nat
      BY <1>1 DEF TypeOK, PolitenessTypeOK
    <3>2. fpc' = fpc /\ slot' = slot /\ Host(f)' = Host(f)
      BY <1>4 DEF fetchVars, Host
    <3>3. now' # now => now' = now + 1 /\ Waiting(f)
      BY <1>4, LateForgets DEF Sweep, Tick
    <3>4. OnTime(f)
      BY <2>1 DEF Punctual
    <3> QED
      BY <3>1, <3>2, <3>3, <3>4 DEF OnTime, Waiting
  <2> QED
    BY <1>4, <2>1, <2>2, <2>3, LateForgets DEF Punctual
<1>5. CASE UNCHANGED timedVars
  BY <1>5 DEF timedVars, vars, politenessVars, fetchVars, Punctual, OnTime, OnSlot, Host
<1> QED
  BY <1>2, <1>3, <1>4, <1>5 DEF TimedNext, Next

(* Two pages of a host are requested on slots that lie apart. *)
LEMMA InTimeStep ==
  ASSUME FetchInv, Punctual, [TimedNext]_timedVars, NEW p \in Asked, HostOf[p] \notin Flaky
  PROVE  InTime(p)
<1> DEFINE h == HostOf[p]
<1>1. TypeOK /\ TimetableInv
  BY DEF FetchInv
<1>2. SUFFICES ASSUME lastRequest[h] # NoSlot
               PROVE  now - lastRequest[h] >= Spacing[h]
  BY DEF InTime
<1>3. requested' # requested
  BY DEF Asked
<1>4. PICK f \in Fetchers : Get(f) /\ TimedNext
  BY <1>3, OnlyGetAsks DEF TimedNext, Next, timedVars, vars, fetchVars
<1>5. p = page[f] /\ p \in Pages /\ h \in Hosts
  BY <1>1, <1>4, GetAsks DEF TimetableInv
<1>6. fpc[f] = "get" /\ Host(f) = h /\ ~late
  BY <1>2, <1>4, <1>5 DEF Get, Host, Punctual
<1>7. reserved[p] = now /\ p \notin requested
  BY <1>1, <1>5, <1>6 DEF Punctual, OnTime, TimetableInv, SlotOfPage, PageOnce
<1>8. PICK q \in requested : HostOf[q] = h /\ lastRequest[h] = reserved[q]
  BY <1>2, <1>5 DEF Punctual, OnSlot
<1>9. now \in Nat /\ reserved[q] \in Nat /\ reserved[q] <= now
  BY <1>1, <1>8 DEF TypeOK, PolitenessTypeOK, TimetableInv, SlotOfPage
<1>10. p \in Reserved(h) /\ q \in Reserved(h) \ {p}
  BY <1>1, <1>5, <1>7, <1>8, <1>9 DEF TypeOK, Reserved
<1>11. now >= reserved[q] + Spacing[h] \/ reserved[q] >= now + Spacing[h]
  BY <1>1, <1>5, <1>7, <1>10 DEF TimetableInv, SpacedOut
<1> QED
  BY <1>5, <1>8, <1>9, <1>11, SpacingBounds

(* TimedSpec is Spec with histories. *)
LEMMA TimedIsSpec == TimedSpec => Spec
<1>1. TimedInit => Init
  BY DEF TimedInit
<1>2. [TimedNext]_timedVars => [Next]_vars
  BY DEF TimedNext, timedVars
<1> QED
  BY <1>1, <1>2, PTL DEF TimedSpec, Spec

(***************************************************************************)
(* Requests to a host whose robots.txt requests do not fail lie its delay   *)
(* apart, as long as the machine is on time (README.md, "must wait"; the    *)
(* order of calls in CrawlUrl).                                             *)
(***************************************************************************)
THEOREM RequestsKeptApart == TimedSpec => RequestsApart
<1>1. TimedSpec => []FetchInv
  BY TimedIsSpec, FetchInvariant, PTL
<1>2. TimedInit => Punctual
  BY DEF TimedInit, Init, Punctual, OnTime, OnSlot
<1>3. FetchInv /\ Punctual /\ [TimedNext]_timedVars => Punctual'
  BY PunctualStep
<1>4. FetchInv /\ Punctual /\ [TimedNext]_timedVars =>
        \A p \in Asked : HostOf[p] \notin Flaky => InTime(p)
  BY InTimeStep
<1> QED
  BY <1>1, <1>2, <1>3, <1>4, PTL DEF TimedSpec, RequestsApart

(* The invariant behind it, which TLC checks too. *)
THEOREM PunctualInvariant == TimedSpec => []Punctual
<1>1. TimedSpec => []FetchInv
  BY TimedIsSpec, FetchInvariant, PTL
<1>2. TimedInit => Punctual
  BY DEF TimedInit, Init, Punctual, OnTime, OnSlot
<1> QED
  BY <1>1, <1>2, PunctualStep, PTL DEF TimedSpec
===============================================================================

----------------------------- MODULE ForestProofs -----------------------------
(***************************************************************************)
(* The proof that the crawler implements the forest of jobs (CrawlForest).  *)
(***************************************************************************)
EXTENDS FrontierProofs

ForestInv == TypeInv /\ CrawlTree /\ DepthsKept /\ JobsInv

LEMMA LaunchedStep ==
  ASSUME TypeInv, [Next]_vars
  PROVE  Launched \subseteq Launched'
<1> SUFFICES ASSUME NEW r \in Requests, pc[r] = "started"
             PROVE  pc'[r] = "started"
  BY DEF Launched
<1>1. ~Submit(r) /\ ~CrawlStep(r)
  BY DEF Submit, CrawlStep, CheckActive, SetActive, SetDepth, SetLast, OpenChannel, AddSeed,
         InsertSeed, DelKey
<1>2. CASE SchedulerCrash
  BY <1>2 DEF SchedulerCrash, JobCrash, Procs, Ended
<1> QED
  BY <1>1, <1>2, RequestMoves

(***************************************************************************)
(* What is under way belongs to launched jobs.                              *)
(***************************************************************************)
LEMMA JobsStep ==
  ASSUME ForestInv, [Next]_vars
  PROVE  JobsInv'
<1> USE DEF ForestInv
<1>1. \A m \in SeedTasks : m.job \in Launched'
  BY DEF SeedTasks, SeedTask, Launched
<1>2. \A m \in LinkTasks : m.job \in Launched
  BY DEF LinkTasks, LinkTask, CrawlTree, CurIngested, JobsInv
<1>3. \A m \in TaskResults : m.job \in Launched
  BY DEF TaskResults, ResultOf, TasksInFlight, JobsInv
<1>4. ASSUME NEW m \in (TasksInFlight \cup ResultsInFlight \cup ingested)'
      PROVE  m.job \in Launched'
  BY <1>1, <1>2, <1>3, <1>4, TasksStep, ResultsStep, LaunchedStep DEF JobsInv
<1>5. ASSUME NEW m \in TaskResults, m.depth > 0
      PROVE  \E r \in Started : m.depth <= req[r].depth
  <2> PICK t \in HeldTasks : m = ResultOf(t)
    BY DEF TaskResults
  <2>1. m.depth = t.depth
    BY DEF ResultOf
  <2> QED
    BY <1>5, <2>1 DEF DepthsKept, DepthBounded, TasksInFlight
<1>6. ASSUME NEW m \in ResultsInFlight', m.depth > 0
      PROVE  \E r \in Started' : m.depth <= req'[r].depth
  <2>1. \E r \in Started : m.depth <= req[r].depth
    BY <1>5, <1>6, ResultsStep DEF JobsInv
  <2> QED
    BY <2>1, StartedStep, ReqStep
<1> QED
  BY <1>4, <1>6 DEF JobsInv

LEMMA ForestInvStep == ForestInv /\ [Next]_vars => ForestInv'
BY TypeStep, ProvenanceStep, DepthStep, JobsStep DEF ForestInv

LEMMA ForestInvInit == Init => ForestInv
BY TypeInit, CrawlTreeInit, DepthsInit, NothingInFlight DEF ForestInv, JobsInv
-------------------------------------------------------------------------------
(***************************************************************************)
(* The steps of job control.                                                *)
(***************************************************************************)

(* One request moves from one label to another. *)
LEMMA MoveOne ==
  ASSUME TypeInv, NEW r \in Requests, NEW l, Goto(r, l)
  PROVE  /\ Started' = IF l \in {"idle", "check", "setActive", "rejected"}
                         THEN Started \ {r} ELSE Started \cup {r}
         /\ Launched' = IF l = "started" THEN Launched \cup {r} ELSE Launched \ {r}
         /\ Starting' = IF l \in {"setDepth", "setLast", "open", "addSeed", "insert"}
                          THEN Starting \cup {r} ELSE Starting \ {r}
BY DEF Goto, Starting, Started, Launched, Procs, TypeInv, TypeOK, JobTypeOK

LEMMA MoveNone ==
  ASSUME TypeInv, NEW p \in Procs \ Requests, NEW l, UNCHANGED pc \/ Goto(p, l)
  PROVE  UNCHANGED <<Started, Starting, Launched>>
BY DEF Goto, Starting, Started, Launched, Procs, TypeInv, TypeOK, JobTypeOK

Hidden == UNCHANGED <<active, Started, Starting, Launched>>

(* What the outside sees of a step of the handler of r. *)
LEMMA CrawlVisible ==
  ASSUME TypeInv, NEW r \in Requests, Submit(r) \/ CrawlStep(r)
  PROVE  \/ Hidden
         \/ /\ active = NoJob /\ active' = r
            /\ Started' = Started \cup {r} /\ Launched' = Launched
            /\ Starting' \in {Starting, Starting \cup {r}}
         \/ /\ active' = active
            /\ Started' = Started \cup {r} /\ Launched' = Launched
            /\ Starting' = Starting \ {r}
         \/ /\ active' = active /\ r \in Starting
            /\ Started' = Started /\ Launched' = Launched \cup {r}
            /\ Starting' = Starting \ {r}
         \/ /\ active # NoJob /\ active' = NoJob
            /\ UNCHANGED <<Started, Starting, Launched>>
<1> USE DEF sharedVars, redisVars
<1>1. r \in Started <=> pc[r] \notin {"idle", "check", "setActive", "rejected"}
  BY DEF Started
<1>2. r \in Launched <=> pc[r] = "started"
  BY DEF Launched
<1>a. r \in Starting <=> pc[r] \in {"setDepth", "setLast", "open", "addSeed", "insert"}
  BY DEF Starting
<1>3. CASE Submit(r)
  BY <1>1, <1>2, <1>a, <1>3, MoveOne DEF Submit, Hidden
<1>4. CASE CheckActive(r)
  BY <1>1, <1>2, <1>a, <1>4, MoveOne DEF CheckActive, Hidden
<1>5. CASE SetActive(r)
  <2>1. active' \in {active, SetNX(r)}
    BY <1>5 DEF SetActive
  <2>2. CASE Goto(r, "failed")
    BY <1>1, <1>2, <1>a, <1>5, <2>1, <2>2, MoveOne DEF SetActive, SetNX
  <2>3. CASE Goto(r, "setDepth") /\ active = NoJob
    BY <1>1, <1>2, <1>a, <1>5, <2>1, <2>3, MoveOne DEF SetActive, SetNX
  <2>4. CASE Goto(r, "rejected") /\ active # NoJob
    BY <1>1, <1>2, <1>a, <1>5, <2>1, <2>4, MoveOne DEF SetActive, SetNX, Hidden
  <2> QED
    BY <1>5, <2>2, <2>3, <2>4 DEF SetActive
<1>6. CASE SetDepth(r) \/ SetLast(r) \/ OpenChannel(r) \/ AddSeed(r)
  <2>1. \E l \in {"setLast", "open", "addSeed", "insert", "del"} : Goto(r, l)
    BY <1>6 DEF SetDepth, SetLast, OpenChannel, AddSeed, Delete, ForceCleanupJob
  <2>2. pc[r] \in {"setDepth", "setLast", "open", "addSeed"} /\ active' = active
    BY <1>6 DEF SetDepth, SetLast, OpenChannel, AddSeed
  <2> QED
    BY <1>1, <1>2, <1>a, <2>1, <2>2, MoveOne DEF Hidden
<1>7. CASE InsertSeed(r)
  <2>1. pc[r] = "insert" /\ active' = active /\ (Goto(r, "started") \/ Goto(r, "del"))
    BY <1>7 DEF InsertSeed, Delete, ForceCleanupJob
  <2> QED
    BY <1>1, <1>2, <1>a, <2>1, MoveOne DEF Hidden
<1>8. CASE DelKey(r)
  <2>1. pc[r] = "del" /\ active' \in {active, NoJob} /\ (Goto(r, "failed") \/ Goto(r, "del"))
    BY <1>8 DEF DelKey, AfterDelete
  <2> QED
    BY <1>1, <1>2, <1>a, <2>1, MoveOne DEF Hidden
<1> QED
  BY <1>3, <1>4, <1>5, <1>6, <1>7, <1>8 DEF CrawlStep

(* And of a step of the other goroutines of job control. *)
LEMMA OtherVisible ==
  ASSUME TypeInv, JobNext, ~\E r \in Requests : Submit(r) \/ CrawlStep(r)
  PROVE  \/ Hidden
         \/ /\ active # NoJob /\ active' = NoJob
            /\ UNCHANGED <<Started, Starting, Launched>>
<1>1. active' \in {active, NoJob}
  BY LockFrame DEF CrawlStep
<1>2. UNCHANGED <<Started, Starting, Launched>>
  <2>1. CASE \E s \in Stops : StopCheck(s) \/ StopStep(s)
    <3> PICK s \in Stops : StopCheck(s) \/ StopStep(s)
      BY <2>1
    <3>1. s \in Procs \ Requests
      BY ProcessAssumption DEF Procs
    <3>2. UNCHANGED pc \/ \E l : Goto(s, l)
      BY DEF StopStep, StopCheck, OpenPurge, PurgeQueue, DelKey, Delete, ForceCleanupJob
    <3> QED
      BY <3>1, <3>2, MoveNone
  <2>2. CASE WatchdogStep
    <3>1. Watchdog \in Procs \ Requests
      BY ProcessAssumption DEF Procs
    <3>2. UNCHANGED pc \/ \E l : Goto(Watchdog, l)
      BY <2>2
      DEF WatchdogStep, WatchdogTick, InspectQueue, CheckLastActivity, DelKey, Delete,
          ForceCleanupJob
    <3> QED
      BY <3>1, <3>2, MoveNone
  <2>3. CASE TimePasses \/ JobExpires
    BY <2>3 DEF TimePasses, JobExpires, jobVars, Started, Starting, Launched
  <2> QED
    BY <2>1, <2>2, <2>3 DEF JobNext
<1> QED
  BY <1>1, <1>2 DEF Hidden

LEMMA JobForest ==
  ASSUME TypeInv, JobNext, UNCHANGED <<req, ingested>>
  PROVE  [Forest!Next]_(Forest!vars)
<1>1. CASE \E r \in Requests : Submit(r) \/ CrawlStep(r)
  <2> PICK r \in Requests : Submit(r) \/ CrawlStep(r)
    BY <1>1
  <2>1. CASE Hidden
    BY <2>1 DEF Hidden, Forest!vars
  <2>2. CASE /\ active = NoJob /\ active' = r
             /\ Started' = Started \cup {r} /\ Launched' = Launched
             /\ Starting' \in {Starting, Starting \cup {r}}
    BY <2>2 DEF Forest!Next, Forest!Acquire
  <2>3. CASE /\ active' = active
             /\ Started' = Started \cup {r} /\ Launched' = Launched
             /\ Starting' = Starting \ {r}
    <3>1. Forest!Abort({r})
      BY <2>3 DEF Forest!Abort
    <3> QED
      BY <3>1 DEF Forest!Next
  <2>4. CASE /\ active' = active /\ r \in Starting
             /\ Started' = Started /\ Launched' = Launched \cup {r}
             /\ Starting' = Starting \ {r}
    BY <2>4 DEF Forest!Next, Forest!Launch
  <2>5. CASE /\ active # NoJob /\ active' = NoJob
             /\ UNCHANGED <<Started, Starting, Launched>>
    BY <2>5 DEF Forest!Next, Forest!Release
  <2> QED
    BY <2>1, <2>2, <2>3, <2>4, <2>5, CrawlVisible
<1>2. CASE ~\E r \in Requests : Submit(r) \/ CrawlStep(r)
  BY <1>2, OtherVisible DEF Hidden, Forest!vars, Forest!Next, Forest!Release
<1> QED
  BY <1>1, <1>2
-------------------------------------------------------------------------------
(***************************************************************************)
(* The steps of the consumers: a page that is taken is stored.              *)
(***************************************************************************)
LEMMA TakeForest ==
  ASSUME ForestInv, NEW m \in ResultsInFlight, m \in Result,
         ingested' = ingested \cup {m}, UNCHANGED <<req, active, Started, Starting, Launched>>
  PROVE  Forest!Next
<1>1. m.job \in Launched /\ Justified(m)
  BY DEF ForestInv, JobsInv, CrawlTree, Provenance
<1>2. m = Forest!Page(m.url, m.depth, m.job)
  BY DEF Forest!Page, Result
<1>3. CASE m.depth = 0 /\ m.url = req[m.job].url
  <2>1. m = Forest!Page(req[m.job].url, 0, m.job)
    BY <1>2, <1>3
  <2>2. Forest!StoreSeed(m.job) /\ m.job \in Requests
    BY <1>1, <2>1 DEF Forest!StoreSeed, Launched
  <2> QED
    BY <2>2 DEF Forest!Next
<1>4. CASE \E p \in ingested :
             p.job = m.job /\ m.depth = p.depth + 1 /\ m.url \in Range(Links[p.url])
  <2> PICK p \in ingested :
             p.job = m.job /\ m.depth = p.depth + 1 /\ m.url \in Range(Links[p.url])
    BY <1>4
  <2>1. p.depth \in Nat
    BY DEF ForestInv, TypeInv, TypeOK, ConsumerTypeOK, Result
  <2>2. PICK r \in Started : m.depth <= req[r].depth
    BY <2>1 DEF ForestInv, JobsInv
  <2>3. req[r].depth \in Int
    BY WebAssumption DEF WebAssumption, ForestInv, TypeInv, TypeOK, JobTypeOK, Started
  <2>4. p.depth < req[r].depth
    BY <2>1, <2>2, <2>3
  <2>5. m = Forest!Page(m.url, p.depth + 1, p.job)
    BY <1>2
  <2>6. Forest!StoreLink(p, m.url)
    BY <2>2, <2>4, <2>5 DEF Forest!StoreLink, Forest!Range, Range
  <2> QED
    BY <2>6 DEF Forest!Next, Forest!Range, Range
<1> QED
  BY <1>1, <1>3, <1>4 DEF Justified

LEMMA ConsumerForest ==
  ASSUME ForestInv, ConsumerNext, UNCHANGED jobVars
  PROVE  [Forest!Next]_(Forest!vars)
<1>1. UNCHANGED <<req, active, Started, Starting, Launched>>
  BY ConsumerFrame DEF jobVars, Started, Starting, Launched
<1>2. CASE \E c \in Consumers : TakeResult(c)
  <2> PICK c \in Consumers : TakeResult(c)
    BY <1>2
  <2>1. inbox[c] \in Seq(Result) /\ inbox[c] # <<>>
    BY DEF TakeResult, ForestInv, TypeInv, TypeOK, ConsumerTypeOK
  <2>2. Head(inbox[c]) \in Result /\ Head(inbox[c]) \in ResultsInFlight
    BY <2>1, RangeTail, HeadTailProperties DEF ResultsInFlight, HeldResults
  <2> QED
    BY <1>1, <2>2, TakeForest DEF TakeResult
<1>3. CASE ~\E c \in Consumers : TakeResult(c)
  <2>1. UNCHANGED ingested
    BY <1>3 DEF ConsumerNext, ConsumerStep, Consume, DeliverResult, Touch, ReadDepth, CheckLink,
                AddLink, InsertLink, ConnLost, Reconnect, consumerVars
  <2> QED
    BY <1>1, <2>1 DEF Forest!vars
<1> QED
  BY <1>2, <1>3

LEMMA CrashForest ==
  ASSUME TypeInv, SchedulerCrash
  PROVE  Forest!Next
<1>1. UNCHANGED <<req, active, ingested>>
  BY DEF SchedulerCrash, JobCrash, ConsumerCrash, redisVars
<1>2. Launched' = Launched
  BY ProcessAssumption DEF SchedulerCrash, JobCrash, Launched, Procs, Ended
<1>a. Starting' = {}
  BY ProcessAssumption DEF SchedulerCrash, JobCrash, Starting, Procs, Ended
<1>3. Started \subseteq Started'
  BY StartedStep DEF Next
<1>4. Started' = Started \cup Started' /\ Started' \subseteq Requests
  BY <1>3 DEF Started
<1>5. Starting \subseteq Started'
  BY <1>3 DEF Starting, Started
<1>6. Forest!Abort(Started')
  BY <1>1, <1>2, <1>a, <1>4, <1>5 DEF Forest!Abort
<1> QED
  BY <1>4, <1>6 DEF Forest!Next

LEMMA ForestStep == ForestInv /\ [Next]_vars => [Forest!Next]_(Forest!vars)
<1> SUFFICES ASSUME ForestInv, [Next]_vars
             PROVE  [Forest!Next]_(Forest!vars)
  OBVIOUS
<1>1. CASE JobNext /\ UNCHANGED consumerVars
  BY <1>1, JobForest, ReqStep DEF consumerVars, ForestInv
<1>2. CASE WorkerNext /\ UNCHANGED <<jobVars, consumerVars>>
  BY <1>2, WorkerFrame
  DEF jobVars, consumerVars, redisVars, Forest!vars, Started, Starting, Launched
<1>3. CASE ConsumerNext /\ UNCHANGED jobVars
  BY <1>3, ConsumerForest
<1>4. CASE SchedulerCrash
  BY <1>4, CrashForest DEF ForestInv
<1>5. CASE UNCHANGED vars
  BY <1>5
  DEF vars, sharedVars, redisVars, jobVars, consumerVars, Forest!vars, Started, Starting, Launched
<1> QED
  BY <1>1, <1>2, <1>3, <1>4, <1>5 DEF Next

LEMMA ForestInit == Init => Forest!Init
<1> SUFFICES ASSUME Init PROVE Forest!Init
  OBVIOUS
<1>1. req \in [Requests -> [url : Urls, depth : Int]]
  BY WebAssumption DEF WebAssumption, Init, JobInit
<1>2. Started = {} /\ Starting = {} /\ Launched = {}
  BY DEF Init, JobInit, Started, Starting, Launched, Procs
<1> QED
  BY <1>1, <1>2 DEF Init, SharedInit, ConsumerInit, Forest!Init

(***************************************************************************)
(* Job control, workers and result consumers implement the forest of jobs   *)
(* (crawl.go; broker.go, processResult; worker broker.go, processMessage):  *)
(* for every web, deployment and fault, whatever is lost or comes twice, a  *)
(* request is answered "job started" only after it took the free lock       *)
(* itself, and a page is handed to dbchan only for such a job, as its seed  *)
(* or below a page that was, within a depth that was asked for.             *)
(***************************************************************************)
THEOREM CrawlerImplementsForest == Spec => ImplementsForest
<1>1. Spec => []ForestInv
  BY ForestInvInit, ForestInvStep, PTL DEF Spec
<1> QED
  BY <1>1, ForestInit, ForestStep, PTL DEF Spec, ImplementsForest, Forest!Spec

(***************************************************************************)
(* The conjunction that TLC checks on a small instance holds for all: the   *)
(* strengthenings of the invariants of the crawl.                           *)
(***************************************************************************)
THEOREM Inductive == Spec => []IndInv
<1>1. Spec => []ForestInv
  BY ForestInvInit, ForestInvStep, PTL DEF Spec
<1>2. ForestInv /\ LockInv /\ DedupInv => IndInv
  BY DEF ForestInv, CrawlTree, DepthsKept, IndInv
<1>3. TypeInv /\ LockInv /\ [Next]_vars => LockInv'
  BY LockStep
<1>4. TypeInv /\ DedupInv /\ [Next]_vars => DedupInv'
  BY DedupStep DEF DedupInv, DedupAt
<1> QED
  BY <1>1, <1>2, <1>3, <1>4, LockInit, DedupInit, TypeCorrect, PTL DEF Spec
===============================================================================

# A formal model of distributed-web-crawler

This directory holds TLA+ modules that model the crawler in `src/`, TLC
configurations that model-check them, and proofs checked by TLAPS. The model is
translated from the Go code; line numbers are in `PROJECT.json` under `map`.

    tlc -workers 2 -config Redelivery.cfg MCCrawler   # any of the *.cfg
    tlc -workers 2 -config Fetching.cfg MCPageCrawl
    tlc -workers 2 -config Batching.cfg MCBatcher
    tlc -workers 2 -config Recovery.cfg MCRecovery    # and PartialPool.cfg
    tlapm CrawlerProofs.tla    # FrontierProofs, ForestProofs, CompletenessProofs,
                               # PageCrawlProofs, BatcherProofs, RecoveryProofs

## 1. The system

A scheduler process and any number of worker processes share Redis, RabbitMQ and
MongoDB.

    POST /crawl ──> lock job in Redis ──> task queue ──> worker ──> result_queue
                                              ^                          │
                                              └── new links ── result consumer ──> dbchan ──> Mongo

### Inventory

| Component | State | Operations | Interacts through | Hard behaviour |
|---|---|---|---|---|
| Job control (`handlers/crawl.go`, `handlers/stop.go`, `db/redis.go`, watchdog in `scheduler/.../broker.go`) | Redis keys `crawler:active_job`, `crawler:max_depth`, `crawler:last_activity_time` | `POST /crawl`, `POST /stop`, watchdog tick | Redis, queue purge, seed task | several Redis commands per operation with no transaction; a watchdog that decides on what it read a moment ago; failures between the commands; key expiry |
| Frontier (`processResult`, `bloom/bloom.go`) | Bloom filter `url_bloom`, five goroutines each with a result, a depth and a position in its links | consume, hand to `dbchan`, touch activity time, expand links | result queue, task queues, Redis, `dbchan` | check-then-add from five goroutines, a depth read once, autoAck |
| Worker consumption (`worker/.../broker.go`) | the task of each goroutine, a manager per queue | spawn five goroutines, consume with prefetch 1, crawl, publish result, ack | task queues, result queue, connection | redelivery, failed crawls, lost publications; a manager that waits for all of its goroutines |
| Broker topology (`SetupBroker`, `common/constants.go`) | three task queues behind a consistent-hash exchange, a result queue | declare, bind | all of the above | `x-max-length` drops the oldest message |
| Connection management (`common/common.go`, both `main`s) | the RabbitMQ connection of each process, the declared queues | connect, watch, dial, swap, redeclare topology | every goroutine that opens a channel | connections that fail while they are dialled, swapped or set up; users that hold the old one; two processes that start in any order |
| Mongo batcher (`db/db.go`) | up to 100 buffered pages, the batch under way | append, flush on size or tick, insert | `dbchan`, MongoDB | a failed or hanging insert, a full channel, a crash |
| Politeness manager (`politeness.go`) | last slot per host | reserve a slot and sleep, evict | crawling goroutines | concurrent reservations, eviction |
| Page crawling and robots cache (`crawler.go`, `robots.go`) | robots group per host | fetch, parse, cache | web servers | double fetch, entries that never expire |
| Configuration, routing, metrics, logging, deployment | none that decides anything | | | |

What makes the core correct:

* *Job control*: a lock is passed on only through a cleanup or its expiry; a
  refused request leaves no lock; the lock is eventually released whatever fails;
  the keys of a running job are its own.
* *Frontier*: the crawl is a tree of stored pages below the seed, no deeper than
  asked; a URL is not published over and over; within the depth nothing is missed.
* *Workers*: a task is not lost with its worker, and every queue has a consumer again
  after a failure.
* *Connections*: none leaks, nobody stays on a replaced one, and all is connected and
  declared again once the broker stays up.
* *Batcher*: each page is written once and in order unless an insert fails or the
  scheduler dies, no page waits for ever, and no consumer is blocked for ever.
* *Politeness*: the slots of a host lie its delay apart, whoever asks, and so do the
  requests, as far as the code lets them.
* *Robots cache*: what a robots.txt disallows is never requested, and robots.txt
  itself is not requested over and over.

## 2. The modules

`CrawlState` declares what all components share; `JobControl`, `Worker` and
`ResultConsumer` extend it with a component each; `Crawler` composes them and
states the properties. `CrawlForest` is the abstract specification that `Crawler`
implements. `Completeness` says under which conditions a crawl is complete, and
carries the inductive invariants that say why. `MCCrawler` gives TLC its webs and
deployments. `CrawlerProofs`, `FrontierProofs`, `ForestProofs` and
`CompletenessProofs` hold the proofs, each on top of the one before.

Inside a worker process, `PageCrawl` composes `Politeness` and `RobotsCache` over
the sites that `Sites` declares. `Timetable` is the abstract specification that it
implements; `RequestTimes` adds the time of each request. `MCPageCrawl` and
`PageCrawlProofs` belong to them.
The two compositions are separate: what the queues see of `PageCrawl` is that a
crawl takes time and then fails or yields a result, which is `CrawlFails` and
`PublishResult` of `Worker`.

Two further compositions look closer at what `Crawler` abstracts. `Batcher` is what
happens to a result after `TakeResult` has handed it over; `Archive` is its abstract
specification. `Recovery`, on top of `Connections`, is what `ConnLost`, `Reconnect`,
`Consume` and `WorkerLost` stand for: the monitor of each process, the retries of the
result consumers and the managers of the worker queues. `Session` is the abstract
specification of connections and their users; `Recovery` implements it with monitors,
hooks and swaps, connection by connection. `Crawler` has the connection as a flag and a
set of channels, and takes for granted what `Session` says: nobody consumes on anything
but the current connection.

| Module | Code | State | Actions |
|---|---|---|---|
| `CrawlState` | Redis keys, Bloom filter, queues | `active`, `maxDepth`, `lastAct`, `bloom`, `tasks`, `results`, `connected`, `chans`, `faults` | helpers: `InsertMessage`, `CheckUrlDuplicate`, `Trim`, `Channel`, ... |
| `JobControl` | `MakeHandleCrawl`, `StartJob`, `ForceCleanupJob`, `MakeHandleStop`, `PurgeQueues`, `checkJobStatus` | `pc`, `req`, `del`, `qi` | `Submit` `CheckActive` `SetActive` `SetDepth` `SetLast` `OpenChannel` `AddSeed` `InsertSeed`; `StopCheck` `OpenPurge` `PurgeQueue`; `WatchdogTick` `InspectQueue` `CheckLastActivity`; `DelKey`; `TimePasses` `JobExpires` |
| `Worker` | `StartConsumers`, `processMessage` | `wpc`, `unacked` | `Deliver` `CrawlFails` `PublishResult` `Ack` `WorkerLost` |
| `ResultConsumer` | `StartResultConsumer`, `processResult`, the scheduler's connection | `inbox`, `cpc`, `cur`, `cmax`, `link`, histories `ingested` and `enqueued` | `Consume` `DeliverResult` `TakeResult` `Touch` `ReadDepth` `CheckLink` `AddLink` `InsertLink`; `ConnLost` `Reconnect` |
| `Crawler` | the processes together | | `SchedulerCrash` and all of the above |
| `Completeness` | properties and invariants of `Crawler` only | | |
| `CrawlForest` | abstract: the lock, the jobs and the tree of pages of each | `asked`, `lock`, `begun`, `starting`, `launched`, `stored` | `Acquire` `Abort` `Launch` `Release` `StoreSeed` `StoreLink` |
| `Sites` | the web servers | constants only | |
| `Politeness` | `Enforce`, `StartCleaner` | `lastScrapeTime`, `now`, history `latest` | `Reserve` `Sweep` `Tick` |
| `RobotsCache` | `RobotChecker` | `cache`, history `robotsGets` | `RequestRobots` `CacheRobots` |
| `PageCrawl` | `CrawlUrl`, `GetCrawlDelay`, `IsAllowed` | `todo`, `fpc`, `page`, `delay`, `slot`, histories `reserved` and `requested` | `TakePage` `GetCrawlDelay` `DelayAnswer` `Enforce` `Wake` `IsAllowed` `CheckAnswer` `Get` |
| `Timetable` | abstract: appointments of pages with their hosts | `clock`, `due`, `visited` | `Book` `Visit` `Pass` |
| `RequestTimes` | `PageCrawl`; `TimedSpec` has the behaviours of `Spec`, with histories | histories `late`, `lastRequest` | those of `PageCrawl` |
| `Archive` | abstract: a queue of pages in front of the database | `pending`, `stored`, `mishap` | `Accept` `Commit` `Fail` `Crash` |
| `Batcher` | `dbchan <- body`, `BatchInsert`, `Insert` | `arrivals`, `sending`, `dbchan`, `tick`, `data`, `documents`, `mongo`, `collection`, histories `accepted` and `mishap` | `Receive` `Send` `Tick` `OnTick` `OnResult` `Insert` `InsertFails` `MongoChanges` `SchedulerDies` |
| `Session` | abstract: connections and who consumes on them | `up`, `consuming` | `Renew` `LoseAll` `Consume` `End` |
| `Connections` | `ConnectAll`, `GetRabbitMQ`, `ReconnectRabbitMQ`, `StartConnectionMonitor`, `SetupBroker` in `main` and as hook | `brokerUp`, `declared`, `mpc`, `open`, `installed`, `dialled`, `faults` | `Connect` `Setup` `SetupExits` `Watch` `Redial` `Install` `Hook`; `BrokerFails` `BrokerRestarts` `ConnDrops` |
| `Recovery` | `StartResultConsumer`, `StartConsumers`: the goroutines and their managers | `cpc`, `ref`, `wait` | `Get` `Listen` `DeliveriesEnd` `ChannelCloses` `Spawn` `AllEnded` `ProcessDies` |

Conventions:

* One Redis or RabbitMQ command is one step, since any goroutine may run between
  two of them. What a goroutine does locally between commands belongs to the step.
* `active` holds the *request* that set the lock rather than the seed URL that the
  code stores; the code never reads the value back, it only tests that the key
  exists. The field `job` of tasks and results is likewise a history: it names the
  request that a page was reached from.
* "Stored", in the modules of the crawl and below, means handed to `dbchan` (`ingested`).
  What happens to a page from there on is the subject of `Batcher`.
* Not this program's code, and marked external in `map`: the death of a process, after
  which its container starts it again, and what the AMQP client does when a connection or
  a channel closes, for one that it drops the deliveries it has buffered (`ConnLost`).
* Time is abstracted: `lastAct` is `"none"`, `"recent"` or `"stale"`, and
  `TimePasses` makes it stale. TTL expiry is the fault `"ttl"`; it is not taken
  between `SETNX` and the two `SET`s that follow at once.
* The web is static, `Links[u]` are the links extracted from page `u`, already
  normalised. HTML is left out. URLs are model values, so a seed is taken to be
  in the normal form that the worker gives links.
* `Limit` computes the kept links with integers; the code uses `float32`.
* A step that lists `Fault(k)` may fail. `FaultKinds` and `MaxFaults` bound how
  often. `"redis"`: a command returns an error; a `SET` or `SETNX` may have taken
  effect all the same, a `DEL` has not. `"broker"`: a channel or publication
  fails, or the publication is lost (there are no confirms). `"conn"`: the
  scheduler's connection closes; its channels close with it and buffered results
  are dropped. `"crash"`: the scheduler dies and restarts. `"worker"`: a worker
  dies with an unacknowledged task. `"page"`: a crawl fails. `"ttl"`: the keys expire.
* In a handler, `chans` loses the goroutine's channel in the step that ends its use
  (the deferred `ch.Close`).
* In `PageCrawl` time is a clock of whole units. `Wake` may come later than its
  slot, as any timer. `GetCrawlDelay` calls `IsAllowed` after a miss, which looks into
  the cache again; the two looks are one step, since an entry that appears between
  them has the effect of one that appears before. A `robots.txt` is a set of disallowed
  pages and a delay. `Flaky` hosts may fail a request for it (an error, a 5xx, a
  redirect that is not followed): nothing is cached. `Garbling` hosts may answer with
  a 4xx or a body that does not parse: the code caches that as "allow all". A page
  stands for one task; a task that is delivered again is another page.
* In `Batcher` a document is a page; that `NextUrls` is cleared is left out. The mutex
  of the batcher is not modelled: only its one goroutine ever takes it. `mongo = FALSE`
  is a database that does not answer; an insert then fails after its timeout. A failed
  insert, or one under way when the scheduler dies, may have written any first part of
  its batch (`InsertMany` is ordered).
* In `Connections` the connections that a process dials are numbered, also over its
  restarts. `open` are those that are not closed. A broker that comes back may have lost
  its queues. `SetupBroker` is one step: it declares all queues, or fails after some.
  A process that exits is started again by its container.
* Operators whose comment starts with "Mutant:" are not part of the model. Each is
  a plausible bug of the definition that follows it; `PROJECT.json` pairs it with
  the property that catches it.

## 3. What is checked

Passing runs. `Fetching`, `Batching` and `Recovery` use the MC
modules of their own compositions, the others `MCCrawler`.

| Run | Instance | Shows |
|---|---|---|
| `Redelivery` | diamond `s -> a, b -> v` with a link `a -> s` back, depth 1 or 2, 1 worker that may die once, or keys that expire, 2 consumers | `CompleteAtQuiescence` and `ExactAtQuiescence` in spite of redelivery and reordered results, `BoundedDuplicates` when three results compete for `v`, and `DiamondInv`, the invariant of the completeness proof |
| `Jobs` | cycle `s <-> a`, 2 requests of depth 0 or 1, watchdog, one fault of the broker, the connection, the process or the TTL | `FailedCrawlLeavesNoLock`, `LockNeverStolen`, `StoredWithinDepth`, `ImplementsForest`, and `IndInv`, the inductive invariant of the proofs |
| `LockLiveness` | cycle, depth 1, 2 queues of length 1, 2 workers, 1 stop, any single fault, with fairness | `LockReleased`, and `TypeInv`, `Provenance`, `DepthBounded` under every kind of fault |
| `LinkLiveness` | cycle, depth 2, 2 consumers, two faults, each a worker that dies or a Redis command that fails, with fairness | `NothingMislaid`, `LinkStored` |
| `Fetching` | 2 goroutines; host `x` (2 pages, delay 3, robots requests may fail), `y` (1 page, default delay 1, robots.txt may be misread), `z` (2 pages, delay 2, always read); `x` and `y` disallow a page; cleaner age 1, clock up to 2 | `SlotsApart`, `RequestRate`, `ImplementsTimetable`, `RequestsApart`, `RobotsObeyed`, `FewRobotsRequests`, `DelayKnown`, and `FetchInv` and `Punctual`, the inductive invariants of the proofs |
| `Batching` | 5 results of 3 pages, 2 consumers, channel of 1, batches of 2, with fairness | `NothingLost`, `ImplementsArchive`, `SendersProceed`, `PagesFlushed`, `TypeOK` |
| `Recovery` | scheduler with 1 result consumer, worker with a team of 2, 2 queues, 2 faults, with fairness | `NoLeak`, `NoStaleConsumer`, `ImplementsSession`, `Recovered`, `QueueServed`, and `RecoveryInv`, the inductive invariant of the proofs |

The properties, in words:

* `Provenance`: every task, every result and every stored page is the seed of a
  requested job, or a link of a page stored before, one level up, of the same job.
* `DepthBounded`: no task lies below the depth that a started job asked for, though
  the depth is read from Redis, may be gone, and may be another job's.
* `BoundedDuplicates`: the Bloom filter race publishes a URL at most once per
  consumer, over all jobs, provided Redis answers.
* `LockNeverStolen`: the lock goes from one request to another only through "no job".
* `FailedCrawlLeavesNoLock`: a `/crawl` answered with an error does not hold the
  lock, provided Redis answers (the deletes' errors are ignored by the code).
* `CompleteAtQuiescence`: when nothing is under way and the job holds its lock, all
  pages within the depth are stored. `ExactAtQuiescence`: and, if it is the only job, no
  others. They hold if nothing fails but workers, keys may expire, and in webs without
  shortcuts, in which all ways from the seed to a page have one length, up to links that
  lead back (`Layered`); see `Shortcut` for the others.
* `StoredWithinDepth`: links of the web lead to a stored page from the seed of its job,
  no more of them than some started job asked for. `DepthBounded` is about the numbers
  that tasks carry; this is about the web, and about every fault.
* `NothingMislaid`: the seed of a job that was answered "job started", and a link that
  was published, is at any time in a task queue, with a worker, in the result queue, with
  a consumer, or stored.
* `ImplementsForest`: the whole system, seen through its lock, its requests and its
  stored pages, behaves like `CrawlForest`. A job is launched once at most, and only by a
  request that took the lock while it was free; a step launches one job, stores the seed
  of a launched job, stores one link of a stored page below it, or is not visible. It adds
  to `Provenance` that nothing is stored before its job was launched, and that what was
  stored never changes. It does not say that jobs come one after the other: the lock may
  be released under a job that starts or runs (`StartRace`, `TwoJobs`).
* `LockReleased`, `LinkStored`: see section 4.
* `SlotsApart`: a slot that a goroutine reserves lies its delay after *all* earlier
  slots of the host, although the cleaner forgets slots, or at least more than the
  cleaner's age (five minutes), for a host that asks for more.
* `RequestRate`: what `README.md:35` is for. Up to any time, a worker process has not
  requested more pages of a host than fit into that time at the host's delay, though the
  slots are reserved ahead by goroutines that sleep side by side. A failed lookup makes
  the default delay count too, and the cleaner's age bounds them all (`Spacing`).
* `ImplementsTimetable`: seen through the clock, the slots and the requested pages, the
  goroutines, the cache, the manager and the cleaner behave like `Timetable`: each page
  is requested once at most, by an appointment of its own that is due, the appointments
  of a host lie apart, and no page is requested that a readable robots.txt disallows.
* `RequestsApart`: not only slots, but requests lie the delay apart, as long as the
  machine has been on time, that is, only sleeping and waiting for an answer about
  robots.txt has taken time. It is about hosts whose robots.txt requests do not fail.
  For the others it would be false: after a failed request, a goroutine sleeps for its
  slot, asks for robots.txt again and waits, and its page may be requested together with
  the page of the next slot. There the sentence of `README.md:35` that the property quotes
  does not hold even on a machine that is on time.
* `RobotsObeyed`: `CrawlUrl` never requests a page that the robots.txt of its host
  disallows, unless that robots.txt was misread or answered with a 4xx.
* `FewRobotsRequests`: goroutines that miss the cache together request robots.txt at
  most once each, if no request fails.
* `DelayKnown`: a goroutine reserves its slot with the crawl delay that the host asks
  for and does not request robots.txt between its slot and its page, if requests for
  that robots.txt do not fail. So the page is requested when its slot says, whoever
  else fetched, or overwrote, the entry meanwhile.
* `NothingLost`: what was put into `dbchan` is in the collection, in the batch under way,
  in the buffer or in the channel, once and in that order, unless an insert has failed
  or the scheduler has died.
* `ImplementsArchive`: the same for what happens afterwards: a failed insert loses a part
  of its own batch only, a crash loses what is pending, and nothing is written twice.
* `SendersProceed`, `PagesFlushed`: see section 4.
* `NoLeak`: a process has one open connection, and a second one only between dialling
  it and swapping it in, whatever fails in the monitor, hook included.
* `NoStaleConsumer`: what a goroutine took from `GetRabbitMQ` before the monitor swapped
  is closed by then, so that the goroutine notices and takes the new one.
* `ImplementsSession`: seen through connections and those who consume on them, all of it behaves like `Session`: a goroutine begins on the current connection of
  its process, and a connection that is lost or replaced takes all its consumers along.
* `Recovered`, `QueueServed`: see section 4.

Bounds. Two goroutines per role are the fewest that race, and the goroutines of
a role run the same code. Depth 2 has a level that is expanded, one that is
expanded by other goroutines, and one that is not expanded. A diamond is the
smallest web in which two pages compete for a link, and its link back to the seed is one
that a consumer must skip; a cycle is the smallest that
leads back to a page already seen. Queues of length 1 (in place of 10000) make
the broker drop messages in `LockLiveness`. Three task queues become one or two: they
are treated alike, and the second one makes the watchdog's and the purge's loops over
queues matter. In `Fetching`, two pages of a host queue up slots on two goroutines, three
hosts have the three kinds of robots.txt, and the clock runs long enough for a slot of
time 0 to be forgotten while others are asleep. The delay of 3 is longer than the cleaner
remembers, the default delay is not, and that of 2 is just as long. In `Batching`, a batch of two is the
smallest that is filled by more than one result; five results are two batches and one
that only the ticker flushes, and with a channel of one both consumers block. In
`Recovery`, a team of two can lose one member and keep one; two faults let a second
one hit the recovery from the first (a hook that fails after the swap, a broker that
dies while its queues are declared). `MaxFaults` and `MaxTime` are the only bounds on
counters.
`CHECK_DEADLOCK FALSE` is set because the system rests when no client sends a
request.

### Where the code does not keep what is documented

Each of these runs finds a counterexample; `PROJECT.json` quotes the documentation.

| Run | Property | What happens |
|---|---|---|
| `DedupRace` | `EnqueuedAtMostOnce` | two consumers find the same link new before either adds it |
| `TwoJobs` | `OneJobAtATime` | a job has been answered "job started" before the watchdog's tick begins; its only task is with a worker, so that the tick finds no ready message and an old activity time and releases the lock. The next request gets it while the task, and then its result, are still under way: the first job's links are published within the second one's depth |
| `Shortcut` | `CompleteAtQuiescence` | a page is first found at the maximum depth, later by a shorter path: its links are lost |
| `StartRace` | `AnsweredJobIsIntact` | the watchdog runs between `SETNX` and the first activity time and takes the lock; the handler still answers "job started". Late `DEL`s of an earlier cleanup take the new job's depth in the same way |
| `PartialPool` | `FullTeams` | a worker goroutine consumes before the scheduler has declared the queues and returns; its manager waits for the others and never replaces it |

`ARCHITECTURE.md:96` says that a full buffer is inserted by a goroutine spawned for it;
the code inserts in the batcher's own goroutine, and `Batcher` models that.

## 4. Fairness

`FairSpec` adds weak fairness for each handler that has started, the watchdog,
each worker, each consumer, delivery of results, and reconnection: these are
goroutines and retry loops that keep running (the ticker of `StartWatchdog`, the
endless loops of `StartResultConsumer`, `StartConsumers` and
`StartConnectionMonitor`), and a broker that delivers to a consumer that is
ready. `TimePasses` is fair since the clock runs. Requests need not arrive and
faults need not happen. No strong fairness is assumed there.

`LockReleased` is the reason for treating a missing activity time as inactivity:
a scheduler that dies between `SETNX` and `SET last_activity_time` leaves a lock
with no time, and only that rule releases it before the TTL does (the expiry is
a fault here and need not happen). The same rule is what `StartRace` shows to
be too eager. `LinkStored` depends on the manual acknowledgement: a task is
requeued until a worker has published its result.

In `Batcher`, sending, the ticker and the batcher goroutine are weakly fair. `OnResult`
is strongly fair, since Go's `select` picks one of its ready cases at random: ticks that
are always ready do not keep results in the channel for ever. MongoDB need not answer:
`SendersProceed` and `PagesFlushed` hold because `InsertMany` has a timeout.

In `Recovery`, every goroutine is weakly fair, the broker and the faults (`ChannelCloses`,
`ConnDrops`, `ProcessDies`) are not: `Recovered` and
`QueueServed` say what happens if it stays up from some time on. `Recovered` needs the
hook to be retried and the result consumers to start over; `QueueServed` promises one
goroutine per queue, and `PartialPool` shows that it does not promise all of them.

## 5. What is proved

All proofs hold for every web, every number of goroutines and requests and every
mixture of faults, under the assumptions named in the modules
(`WebAssumption`, `BrokerAssumption`, `NullAssumption`, `ProcessAssumption`,
`WorkerAssumption`, `ConsumerAssumption`, `GoroutineAssumption`): finitely many
consumers, positive queue length, drop rate between 0 and 1, distinct names. For `Batcher`
(`BatcherAssumption`): a positive batch size, any channel and any sequence of results.
For `Recovery` (`ConnectionsAssumption`, `RecoveryAssumption`, `TeamAssumption`): any
processes, goroutines and teams, where a team belongs to one manager in one process. For `PageCrawl`
(`SiteAssumption`, `PolitenessAssumption`, `PageAssumption`): every page has a host,
delays are natural numbers, the default delay is positive, finitely many goroutines.

| Theorem | Statement |
|---|---|
| `TypeCorrect` | `Spec => []TypeInv` |
| `LockExclusive` | `Spec => LockNeverStolen` |
| `FailedCrawlReleases` | `Spec => []FailedCrawlLeavesNoLock` |
| `CrawlIsTree` | `Spec => []Provenance` |
| `DepthIsBounded` | `Spec => []DepthBounded` |
| `DuplicatesAreBounded` | `Spec => []BoundedDuplicates` |
| `SlotsKeptApart` | `Spec => SlotsApart` (of `PageCrawl`, as the next six) |
| `ObeysRobots` | `Spec => []RobotsObeyed` |
| `RobotsRequestedRarely` | `Spec => []FewRobotsRequests` |
| `DelayIsKnown`, `FetchInvariant` | `Spec => []DelayKnown`, `Spec => []FetchInv` |
| `RateIsKept` | `Spec => []RequestRate` |
| `CrawlerKeepsTimetable` | `Spec => ImplementsTimetable` |
| `RequestsKeptApart`, `PunctualInvariant` | `TimedSpec => RequestsApart`, `TimedSpec => []Punctual` (of `RequestTimes`) |
| `CrawlerImplementsForest` | `Spec => ImplementsForest` (of `Crawler`) |
| `Inductive` | `Spec => []IndInv` (of `Crawler`) |
| `NothingBeyondTheDepth` | `Spec => []StoredWithinDepth` (of `Crawler`, as the next five) |
| `CrawlIsComplete` | `Spec /\ []Undisturbed => []CompleteAtQuiescence`, if only workers fail or keys expire, and the web is layered |
| `CrawlStaysIntact` | `Spec /\ []Undisturbed => []IntactOn(level, above)` for all `level`, `above`, if only workers fail or keys expire |
| `CrawlIsExact` | `Spec /\ []Undisturbed => []ExactAtQuiescence`, under the same hypotheses |
| `NothingIsMislaid` | `Spec /\ []NoOverflow => []NothingMislaid`, if no fault loses messages and nobody stops a job |
| `BatcherTypeCorrect`, `BatcherLosesNothing` | `Spec => []TypeOK`, `Spec => []NothingLost` (of `Batcher`) |
| `BatcherImplementsArchive` | `Spec => ImplementsArchive` (of `Batcher`) |
| `ConnectionsDoNotLeak`, `ConsumersFollowTheMonitor` | `Spec => []NoLeak`, `Spec => []NoStaleConsumer` (of `Recovery`, as the next two) |
| `RecoveryInvariant` | `Spec => []RecoveryInv` |
| `RecoveryImplementsSession` | `Spec => ImplementsSession` |

The argument, in the order of the proof modules:

1. `TypeInv` is `TypeOK` with the facts that make the code's partial operations
   safe: a goroutine that deletes has a key left (`HasKeys`), a busy worker has its
   task (`HasTask`), a consumer in its loop has a result (`HasResult`) and a link
   (`HasLink`). It is inductive; there is one lemma per action, grouped by the
   component invariants `SharedInv`, `JobInv`, `WorkerInv`, `ConsumerInv`.
2. `LockNeverStolen` follows from what single steps write to `active`: `SETNX`
   writes only over `NoJob`.
3. `FailedCrawlLeavesNoLock` needs `LockInv`: the holder of the lock is between
   `SETNX` and its answer, or has crashed, or is about to delete the lock.
4. `Provenance` needs `CurIngested`: the result whose links a consumer publishes
   has been handed to `dbchan`. Messages otherwise only move.
5. `DepthBounded` needs `DepthInv`: the depth in Redis, and the depth in a
   consumer's hands, is that of some started request, and the consumer's page
   lies above it. The set `Started` only grows.
6. `BoundedDuplicates` needs `DedupInv`: copies already published plus consumers
   about to publish never exceed the consumers, since once the URL is in the
   filter nobody joins them, and before it is there nobody has published.

7. `ImplementsForest` needs `JobsInv`: all that is under way belongs to launched jobs,
   and no result is deeper than a started job asked for. Then each action of `Crawler`
   is mapped: `SetActive` to `Acquire` or `Abort`, `InsertSeed` to `Launch`, the steps
   that free the lock to `Release`, `TakeResult` to `StoreSeed` or `StoreLink` (by
   `Provenance`), a failing handler and a crash to `Abort`, everything else to a stutter.
   The requests that may `Launch` are those between `SETNX` and the answer (`Starting`).

`IndInv` is their conjunction, proved as `Inductive`; TLC checks it in `Jobs`.

For the completeness of a crawl, in `CompletenessProofs`:

8. `StoredWithinDepth` needs `PathInv`: a stored page lies its own depth below the seed of
   its job. The step uses `Provenance` and what `PagesWithin` gains from one level to the
   next (`WithinLevels`, `WithinGrows`, `WithinLink`).
9. `CompleteAtQuiescence` needs `CompleteInv`, which says `IntactOn` (`CrawlStaysIntact`) for
   every layering at once. While the only job runs, every message and
   page carries the depth of its level (`OnLevel`); what is in the Bloom filter is stored,
   on its way, or in the hands of a consumer that will publish it (`Carried`); each link
   of a stored page above the last level is in the filter or will still be looked at
   (`Expanded`); no consumer enters a page before those above it (`Descending`); nobody
   deletes the job's depth before its lock (`Undamaged`). `Steady` and `Fresh` say that
   senders have channels and that there is nothing before the first job. When nothing is
   under way, filter and stored pages agree and are closed under links above the last
   level, and then contain `PagesWithin`. The two inductions, over levels and over the
   recursive function inside `PagesWithin`, go through least counterexamples
   (`WellOrdered`, `Induction`, `Recursion`).
10. `NothingMislaid` needs that a worker holds one task (`Prefetch`) and acknowledges it
    when its result is published (`AckedLast`).
11. `ExactAtQuiescence` is 8 and 9 together.

The hypotheses of 9 and 10 are those without which TLC finds a counterexample, or the
code's own limits. `OnlyWorkersFail` excludes faults that lose messages or skip links;
`Undisturbed` excludes a full queue, which drops messages, and a second job, whose pages
the never cleared Bloom filter hides; `LayeredWeb` excludes shortcuts (`Shortcut`); false
positives and dropped links lose pages on purpose. `/stop`, the watchdog and the expiry of
the lock are not excluded by 9: they end the job, and with it the promise. By 10 the death of workers, failing Redis commands and the
expiry of the keys mislay nothing; a purge, a full queue, a lost publication, and results
that die with the scheduler's connection or process do, the last since they are
acknowledged when they are sent.

For `PageCrawl`, in `PageCrawlProofs`, with `FetchInv` as the conjunction:

12. `SlotsApart` needs `SlotInv`: the map holds the latest slot of a host, or nothing
   if that slot is older than `MaxAge`; then at least `MaxAge + 1` has passed anyway.
13. `RobotsObeyed` needs `ObeyInv`: the cache agrees with the site, and a goroutine
   about to request a page has passed the test for it.
14. `FewRobotsRequests` needs `RequestInv`: until the first answer is cached, the
   requests for a robots.txt are counted by the goroutines that wait for it; after
   it, nobody requests.
15. `DelayKnown` needs `CachedInv`: who is past the crawl delay has seen an entry of its
    host, and entries are overwritten but never removed.

16. `RequestRate` needs `TimetableInv`: a page is with one goroutine at a time
    (`PageOnce`), whose slot is the one reserved for the page and over when it wakes
    (`SlotOfPage`), every delay is one that the host may lead to (`DelayPossible`), and
    any two slots of a host lie its `Spacing` apart (`SpacedOut`, by `SlotInv`). Then
    slots divided by the spacing are different numbers between 0 and `now` divided by it:
    requested pages cannot be more than those (`RateFollows`).
17. `ImplementsTimetable` needs `TimetableInv` and `ObeyInv`. `Enforce` is `Book`, `Get` is
    `Visit`, `Tick` is `Pass`, everything else, the cleaner included, is a stutter.
18. `RequestsApart` needs `Punctual`, on top of `FetchInv`: until the machine is late, a
    goroutine past its sleep is on its slot, since by `DelayKnown` it does not wait for robots.txt there, and
    the last request of a host was made on the slot of its page. `SpacedOut` does the rest.

For `Batcher` and `Recovery`:

19. `NothingLost` and `ImplementsArchive` need `TypeOK` only: the length of the buffer and
    of the batch decide which end of `Pending` a step moves. `Send` is `Accept`, `Insert`
    is `Commit`, `InsertFails` is `Fail`, `SchedulerDies` is `Crash`, and the flushes, which
    move pages from the buffer to the batch, are stutters.
20. `NoLeak` and `NoStaleConsumer` need `NumbersGrow`: a connection that is being
    installed is newer than the installed one, and nobody has taken one that is newer.
21. `OneTeam`, a conjunct of `RecoveryInv`, says that a manager that does not wait has no
    goroutine left. It is inductive as it stands, by `TeamAssumption`: a process ends with
    whole teams, and the goroutines of two managers are different ones.
22. `ImplementsSession`: `Connect`, `Install`, `SetupExits`, `ConnDrops` of the
    installed connection and `ProcessDies` are `Renew`, `BrokerFails` is `LoseAll`. `Listen` is
    `Consume`, by `NoStaleConsumer`; `DeliveriesEnd` and `ChannelCloses` are `End`. Dialling a connection is not
    visible, since by `NumbersGrow` nobody has taken it, nor is `Spawn`, by `OneTeam`.

Only model-checked: the liveness properties `LockReleased`, `LinkStored`, `SendersProceed`,
`PagesFlushed`, `Recovered` and `QueueServed` (liveness under fairness is out of the
prover's reach), and the five violations. Every other property of a passing run is a
theorem, those of 9 to 11 under their hypotheses. `DiamondInv` is the instance of
`CrawlStaysIntact` for the levels of one web, which has to be a definition for TLC.

## 6. Not modelled

* Redirects: the HTTP client follows them to pages that neither the robots check nor the
  slot was for. In the model a page answers without; `RobotsObeyed` is about the
  pages that `CrawlUrl` itself asks for.
* Queries: `IsAllowed` tests the path of a URL alone, so that a rule of a robots.txt that
  names a query never matches. The pages of the model have no query; `RobotsObeyed` is
  about rules on paths.
* `Enforce` takes the host from the URL of the task, the robots cache from the
  normalised URL. They differ at most for a seed, see above.
* In `Crawler`, workers restart one by one and their connection is not a state of its own
  (`WorkerLost`); `Recovery` has both, but no messages.
* The connections to Redis and MongoDB: their clients reconnect by themselves. What a
  failing Redis does is the fault `"redis"`; what a failing MongoDB does is in `Batcher`.
  `Ping` and `Close` change nothing that another goroutine reads.
* HTML parsing, normalisation, HTTP, configuration, metrics, logging, routing,
  `/ping`, deployment files: no decision of the crawl depends on their state.
* Malformed messages: only this program publishes to its queues, and what it
  publishes it has marshalled.
* False positives and the drop rate are constants of the model, and of the proofs; the
  runs set them to none.

## 7. Plan

1. `CrawlState`, `JobControl`, `Worker`, `ResultConsumer`, `Crawler`: the job and the
   frontier, with their runs and proofs (done).
2. `Politeness`, `RobotsCache`, `PageCrawl`: what the goroutines of a worker share,
   with `Fetching` and their proofs (done). `Timetable` is what they
   promise to the web servers (done).
3. `Batcher` and `Archive`: the way of a page to MongoDB (done).
4. `Connections` and `Recovery`: the monitor and the goroutines that follow it (done).
   `Session` is what they promise (done). Left: messages on top of it,
   so that `Crawler`'s `WorkerLost` and the dropped inboxes of `ConnLost` are shown to be
   what `Recovery` does to the queues.
5. `CrawlForest`: the abstract specification and the refinement as a theorem (done).
6. `Completeness`: when a crawl stores what it should (done for a single job).
7. Runs with a Bloom filter that has false positives and with a drop rate; redirects.

SPECIFICATION FairSpec
CONSTANTS
  s = s  a = a  b = b  v = v
  r1 = r1  r2 = r2  stop1 = stop1
  w1 = w1  w2 = w2  c1 = c1  c2 = c2  watchdog = watchdog
  NoJob = NoJob  NoDepth = NoDepth  NoResult = NoResult
  Watchdog = watchdog
  Urls = {s, a}
  Links <- Cycle
  Queues <- TwoQueues
  QueueOf <- TwoQueueOf
  MaxLength = 1
  Requests = {r1}
  Seeds = {s}
  Depths = {1}
  FalsePositives = {}
  DropPercent = 0
  FaultKinds = {"redis", "broker", "conn", "crash", "ttl", "page", "worker"}
  MaxFaults = 1
  Stops = {stop1}
  Workers = {w1, w2}
  WorkerQueue <- TwoQueueWorkers
  Consumers = {c1}
INVARIANTS TypeInv Provenance DepthBounded
PROPERTIES LockReleased
CHECK_DEADLOCK FALSE

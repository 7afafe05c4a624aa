SPECIFICATION FairSpec
CONSTANTS
  s = s  a = a  b = b  v = v
  r1 = r1  r2 = r2  stop1 = stop1
  w1 = w1  w2 = w2  c1 = c1  c2 = c2  watchdog = watchdog
  NoJob = NoJob  NoDepth = NoDepth  NoResult = NoResult
  Watchdog = watchdog
  Urls = {s, a}
  Links <- Cycle
  Queues <- OneQueue
  QueueOf <- OneQueueOf
  MaxLength = 10
  Requests = {r1}
  Seeds = {s}
  Depths = {2}
  FalsePositives = {}
  DropPercent = 0
  FaultKinds = {"worker", "redis"}
  MaxFaults = 2
  Stops = {}
  Workers = {w1}
  WorkerQueue <- OneQueueWorkers
  Consumers = {c1, c2}
INVARIANTS NothingMislaid
PROPERTIES LinkStored
CHECK_DEADLOCK FALSE

SPECIFICATION FairSpec
CONSTANTS
  scheduler = scheduler  worker = worker
  c1 = c1  w1 = w1  w2 = w2  manager = manager
  Processes = {scheduler, worker}
  Scheduler = scheduler
  Queues = {"queue_1", "result_queue"}
  Consumers = {c1, w1, w2}
  ProcOf <- Processor
  QueueOf <- Consumed
  Managers = {manager}
  Team <- Goroutines
  MaxFaults = 2
INVARIANTS NoLeak NoStaleConsumer RecoveryInv
PROPERTIES Recovered QueueServed ImplementsSession
CHECK_DEADLOCK FALSE

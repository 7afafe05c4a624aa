SPECIFICATION FairSpec
CONSTANTS
  p1 = p1  p2 = p2  p3 = p3
  c1 = c1  c2 = c2
  Docs = {p1, p2, p3}
  Arrivals <- Deliveries
  Senders = {c1, c2}
  ChanSize = 1
  BatchSize = 2
  NoDoc = NoDoc
INVARIANTS TypeOK NothingLost
PROPERTIES ImplementsArchive SendersProceed PagesFlushed
CHECK_DEADLOCK FALSE

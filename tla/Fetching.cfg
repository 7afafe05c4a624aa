SPECIFICATION TimedSpec
CONSTANTS
  x = x  y = y  z = z
  x1 = x1  x2 = x2  y1 = y1  z1 = z1  z2 = z2
  f1 = f1  f2 = f2
  Hosts = {x, y, z}
  Rules = {x, y, z}
  CrawlDelay <- Delays
  Flaky = {x}
  Garbling = {y}
  Pages = {x1, x2, y1, z1, z2}
  HostOf <- HostOfPage
  Disallowed = {x2, y1}
  MaxAge = 1
  MaxTime = 2
  NoSlot = NoSlot
  Fetchers = {f1, f2}
  DefaultDelay = 1
  NoPage = NoPage
SYMMETRY FetcherSymmetry
INVARIANTS RobotsObeyed FewRobotsRequests DelayKnown RequestRate FetchInv Punctual
PROPERTIES SlotsApart ImplementsTimetable RequestsApart
CHECK_DEADLOCK FALSE

\* Two devices that may fall silent, Device rows edited at any time.
SPECIFICATION FairServerSpec
CONSTANTS
  d1 = d1
  d2 = d2
  t1 = t1
  t2 = t2
  A = A
  B = B
  Scheduler = sched
  NoPlays = NoPlays
  NoHash = NoHash
  Unknown = Unknown
  Devices = {d1, d2}
  Threads = {t1}
  Specs = {A}
  MaxJobs = 2
  MaxRequests = 0
  MaxAttempts = 1
  MaxTime = 0
  OperatorTypes = {}
  Edits <- NoEdits
  Environment = {"edit device", "lost"}
PROPERTIES
  EveryDeliveryEnds
\* Once the bounds are reached nothing need be left to do.
CHECK_DEADLOCK FALSE

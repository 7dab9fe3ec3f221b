\* Agents that check in and crash, with tunnels ahead of an apply.
SPECIFICATION FairSpec
CONSTANTS
  d1 = d1
  d2 = d2
  t1 = t1
  t2 = t2
  A = A
  B = B
  Scheduler = sched
  NoPlays = NoPlays
  NoHash = NoHash
  Unknown = Unknown
  Devices = {d1}
  Threads = {t1}
  Specs = {A}
  MaxJobs = 3
  MaxRequests = 2
  MaxAttempts = 1
  MaxTime = 0
  OperatorTypes = {"OPEN_TUNNEL"}
  Edits <- NoEdits
  Environment = {"crash"}
PROPERTIES
  EveryJobEnds
\* Once the bounds are reached nothing need be left to do.
CHECK_DEADLOCK FALSE

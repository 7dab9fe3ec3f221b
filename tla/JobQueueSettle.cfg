\* Agents that check in, responses and reports that get lost, one edit.
SPECIFICATION FairSpec
CONSTANTS
  d1 = d1
  d2 = d2
  t1 = t1
  t2 = t2
  A = A
  B = B
  Scheduler = sched
  NoPlays = NoPlays
  NoHash = NoHash
  Unknown = Unknown
  Devices = {d1}
  Threads = {t1}
  Specs = {A, B}
  MaxJobs = 4
  MaxRequests = 0
  MaxAttempts = 2
  MaxTime = 0
  OperatorTypes = {}
  Edits <- OneEdit
  Environment = {"lost"}
PROPERTIES
  DevicesSettle
\* Once the bounds are reached nothing need be left to do.
CHECK_DEADLOCK FALSE

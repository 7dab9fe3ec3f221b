\* One request at a time, edits that return to an earlier spec, scheduled applies.
SPECIFICATION Spec
CONSTANTS
  d1 = d1
  d2 = d2
  t1 = t1
  t2 = t2
  A = A
  B = B
  Scheduler = sched
  NoPlays = NoPlays
  NoHash = NoHash
  Unknown = Unknown
  Devices = {d1}
  Threads = {t1}
  Specs = {A, B}
  MaxJobs = 3
  MaxRequests = 1
  MaxAttempts = 1
  MaxTime = 1
  OperatorTypes = {"APPLY_CONFIG"}
  Edits <- BackAndForth
  Environment = {"crash"}
INVARIANTS
  ConvergedIsTrue
\* Once the bounds are reached nothing need be left to do.
CHECK_DEADLOCK FALSE

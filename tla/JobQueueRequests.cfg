\* Operators queue and cancel jobs of every kind while the agent works; roles come and go.
SPECIFICATION Spec
CONSTANTS
  d1 = d1
  d2 = d2
  t1 = t1
  t2 = t2
  A = A
  B = B
  Scheduler = sched
  NoPlays = NoPlays
  NoHash = NoHash
  Unknown = Unknown
  Devices = {d1}
  Threads = {t1, t2}
  Specs = {A}
  MaxJobs = 2
  MaxRequests = 2
  MaxAttempts = 1
  MaxTime = 0
  OperatorTypes = {"APPLY_CONFIG", "CHECK_CONFIG", "REBOOT", "AGENT_UPDATE"}
  Edits <- Unassigned
  Environment = {"cancel"}
SYMMETRY ThreadSymmetry
INVARIANTS
  NothingIsStranded
\* Once the bounds are reached nothing need be left to do.
CHECK_DEADLOCK FALSE

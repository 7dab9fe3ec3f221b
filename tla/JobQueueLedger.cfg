\* Every fault at once, a tunnel among the jobs.
SPECIFICATION Spec
CONSTANTS
  d1 = d1
  d2 = d2
  t1 = t1
  t2 = t2
  A = A
  B = B
  Scheduler = sched
  NoPlays = NoPlays
  NoHash = NoHash
  Unknown = Unknown
  Devices = {d1}
  Threads = {t1, t2}
  Specs = {A}
  MaxJobs = 2
  MaxRequests = 2
  MaxAttempts = 1
  MaxTime = 0
  OperatorTypes = {"OPEN_TUNNEL"}
  Edits <- NoEdits
  Environment = {"cancel", "lost", "crash", "restart", "prune"}
SYMMETRY ThreadSymmetry
INVARIANTS
  QueueInv
PROPERTIES
  TerminalIsFinal
  ImplementsWorkQueue
\* Once the bounds are reached nothing need be left to do.
CHECK_DEADLOCK FALSE

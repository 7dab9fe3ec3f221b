\* Overlapping check-ins of one device whose responses get lost, two specs, a rename.
SPECIFICATION Spec
CONSTANTS
  d1 = d1
  d2 = d2
  t1 = t1
  t2 = t2
  A = A
  B = B
  Scheduler = sched
  NoPlays = NoPlays
  NoHash = NoHash
  Unknown = Unknown
  Devices = {d1}
  Threads = {t1, t2}
  Specs = {A, B}
  MaxJobs = 4
  MaxRequests = 0
  MaxAttempts = 2
  MaxTime = 0
  OperatorTypes = {}
  Edits <- OneEdit
  Environment = {"lost", "edit device"}
SYMMETRY ThreadSymmetry
INVARIANTS
  TypeOK
  OneAutomaticApply
  RetriesAreEarned
  ExhaustedIsAlerted
\* Once the bounds are reached nothing need be left to do.
CHECK_DEADLOCK FALSE

\* Two browser connections of one session; no peer leaves.
SPECIFICATION Spec
CONSTANTS
  a1 = a1
  a2 = a2
  v1 = v1
  v2 = v2
  Agents = {a1}
  Viewers = {v1, v2}
  Expiry = expiry
  Operator = operator
  None = None
  MaxFrames = 0
  MaxBacklog = 0
  Environment = {}
INVARIANTS
  AuditIsTrue
\* A closed session needs nothing more.
CHECK_DEADLOCK FALSE

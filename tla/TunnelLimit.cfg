\* Two device connections, no browser; an operator may end the session.
SPECIFICATION FairSpec
CONSTANTS
  a1 = a1
  a2 = a2
  v1 = v1
  v2 = v2
  Agents = {a1, a2}
  Viewers = {}
  Expiry = expiry
  Operator = operator
  None = None
  MaxFrames = 0
  MaxBacklog = 0
  Environment = {"operator"}
PROPERTIES
  LimitEnforced
\* A closed session needs nothing more.
CHECK_DEADLOCK FALSE

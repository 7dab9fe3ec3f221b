\* One device connection, two browser connections; peers leave or are slow.
SPECIFICATION Spec
CONSTANTS
  a1 = a1
  a2 = a2
  v1 = v1
  v2 = v2
  Agents = {a1}
  Viewers = {v1, v2}
  Expiry = expiry
  Operator = operator
  None = None
  MaxFrames = 3
  MaxBacklog = 1
  Environment = {"leave", "slow", "restart"}
SYMMETRY Symmetry
INVARIANTS
  TypeOK
  FramesInOrder
  EveryPairingIsTimed
PROPERTIES
  AuditStands
\* A closed session needs nothing more.
CHECK_DEADLOCK FALSE

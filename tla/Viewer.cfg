SPECIFICATION FairSpec
CONSTANTS
  MaxSessions = 3
  MaxClicks = 3
  MaxFaults = 1
  Happenings = {"focus", "other tab", "disconnect", "leave"}
INVARIANTS ReadyToAttach
PROPERTIES OpenedOnPurpose WaitingEnds
CHECK_DEADLOCK FALSE

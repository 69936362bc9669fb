SPECIFICATION FairSpec
CONSTANTS
  Families = {inet, inet6}
  MaxCalls = 2
INVARIANTS
  NoSessionAfterCancel
  PortsReleased
PROPERTIES
  SessionReachesTab
  CancelEnds
CHECK_DEADLOCK FALSE

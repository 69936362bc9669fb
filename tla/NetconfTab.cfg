SPECIFICATION FairSpec
CONSTANTS
  AutoReconnect = TRUE
  MaxConnects = 2
  MaxSends = 2
INVARIANTS
  IdleTabOperable
  NoSessionUnattended
PROPERTIES
  LossIsShown
  ClosedTabReleasesSession
  RequestsEnd
CHECK_DEADLOCK FALSE

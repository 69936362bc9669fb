SPECIFICATION Spec
CONSTANTS
  running = running
  Startup = startup
  Datastores <- MCDatastores
  Offers <- MCOffers
  MaxConns = 2
  MaxSends = 3
  MaxDepth = 3
  MaxUnder = 1
  MaxBelow = 0
  MaxSchemas = 1
INVARIANTS
  LocksRemembered
  BoxesTellLocks
  CapabilitiesCurrent
  IdleOperable
PROPERTY
  RequestsSupported
CHECK_DEADLOCK FALSE

SPECIFICATION Spec
CONSTANTS
  running = running
  Startup = startup
  Datastores <- MCDatastores
  Offers <- MCOffers
  MaxConns = 1
  MaxSends = 1
  MaxDepth = 2
  MaxUnder = 1
  MaxBelow = 0
  MaxSchemas = 1
INVARIANT
  CopiesAsChosen
CHECK_DEADLOCK FALSE

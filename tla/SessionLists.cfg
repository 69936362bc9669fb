SPECIFICATION ListsSpec
CONSTANTS
  Cap = 2
  MaxRows = 3
INVARIANT
  PreviewShowsCurrent

  
CHECK_DEADLOCK FALSE

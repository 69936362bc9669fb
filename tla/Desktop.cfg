SPECIFICATION Spec
CONSTANTS
  MaxRefs = 4
  MaxTabs = 3
  MaxSuffix = 2
  MaxOps = 4
  Saved <- MCSaved
  Forms <- MCForms
  Labels <- MCLabels
INVARIANTS EditsReachSelected TabNamesDistinct
 
CHECK_DEADLOCK FALSE

SPECIFICATION Spec
CONSTANTS
  c1 = c1
  c2 = c2
  c3 = c3
  c4 = c4
  o1 = o1
  o2 = o2
  o3 = o3
  f1 = f1
  Cmds <- MCCmds
  Options <- MCOptions
  ConnName <- MCConnName
  Favs <- MCFavs
  MaxHistory = 2
  MaxRecents = 1
  Unset = Unset
  None = None
  MaxEdits = 3
  MaxStarts = 1
SYMMETRY MCSymmetry
 
PROPERTY StartRestores
CHECK_DEADLOCK FALSE

SPECIFICATION AgentSpec
CONSTANTS
  Names = {n1, n2}
  Items = {o1, o2}
  Procs = {p1, p2}
  NoItem = NoItem
  DEBUG = TRUE
  ResourceOf <- MCResourceOf
  res = lstar
  Cr0Res = {}
  Cr4Res = {}
  MsrListed = {}
  MsrUnlisted = {lstar}
  UNKNOWN = UNKNOWN
  NoPolicy = NoPolicy
  WriteActions <- MCWriteActions
  StickyVals <- MCStickyVals
SYMMETRY AgentSymmetry
INVARIANTS AgentTypeOK EnableIsTrue StickyIsLocked
PROPERTIES LockedIsFrozen
CHECK_DEADLOCK FALSE

SPECIFICATION AgentSpec
CONSTANTS
  Names = {n1}
  Items = {o1}
  Procs = {p1}
  NoItem = NoItem
  DEBUG = FALSE
  ResourceOf <- MCResourceOf
  res = wp
  Cr0Res = {wp}
  Cr4Res = {}
  MsrListed = {}
  MsrUnlisted = {}
  UNKNOWN = UNKNOWN
  NoPolicy = NoPolicy
  WriteActions <- MCWriteActions
  StickyVals <- MCStickyVals
INVARIANT LockedMeansSticky
CHECK_DEADLOCK FALSE

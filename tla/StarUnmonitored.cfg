SPECIFICATION Spec
CONSTANTS
  Cr0Res = {pe}
  Cr4Res = {}
  MsrListed = {efer}
  MsrUnlisted = {star}
  UNKNOWN = UNKNOWN
  NoPolicy = NoPolicy
  WriteActions <- MCWriteActions
  StickyVals <- MCStickyVals
INVARIANT EnabledIsMonitored
CHECK_DEADLOCK FALSE

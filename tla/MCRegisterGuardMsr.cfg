SPECIFICATION GSpec
CONSTANTS
  Cr0Res = {}
  Cr4Res = {smep}
  MsrListed = {efer}
  MsrUnlisted = {}
  OtherBits = {}
  UNKNOWN = UNKNOWN
  NoPolicy = NoPolicy
  WriteActions <- MCWriteActions
  StickyVals <- MCStickyVals
  MsrVals <- MCMsrVals
INVARIANT LogsTouchedPolicies
PROPERTIES PinnedForever SkippedKeeps
CHECK_DEADLOCK FALSE

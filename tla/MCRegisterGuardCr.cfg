SPECIFICATION GSpec
CONSTANTS
  Cr0Res = {pe, wp}
  Cr4Res = {}
  MsrListed = {}
  MsrUnlisted = {}
  OtherBits = {}
  UNKNOWN = UNKNOWN
  NoPolicy = NoPolicy
  WriteActions <- MCWriteActions
  StickyVals <- MCStickyVals
  MsrVals <- MCMsrVals
INVARIANTS GTypeOK ScanIsVerdict LogsTouchedPolicies
PROPERTIES PinnedForever SkippedKeeps
CHECK_DEADLOCK FALSE

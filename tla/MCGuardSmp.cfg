SPECIFICATION GuardSmpSpec
CONSTANTS
  Cpus = {c1}
  Serialised = TRUE
  MaxCount = 2
  MayRefuse = {}
  Cr0Res = {pe, wp}
  Cr4Res = {}
  MsrListed = {}
  MsrUnlisted = {}
  OtherBits = {}
  UNKNOWN = UNKNOWN
  NoPolicy = NoPolicy
  WriteActions <- MCWriteActions
  StickyVals <- MCStickyZero
  MsrVals <- MCMsrVals
SYMMETRY BitSymmetry
INVARIANTS
  GuardSmpTypeOK UniqueEntries WatchedHaveEntries UntouchedVerdict
PROPERTIES PinnedUnlessInFlight ImplementsStoreByField
CHECK_DEADLOCK FALSE

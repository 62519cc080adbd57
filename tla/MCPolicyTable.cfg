SPECIFICATION Spec
CONSTANTS
  Cr0Res = {pe}
  Cr4Res = {}
  MsrListed = {efer}
  MsrUnlisted = {star}
  UNKNOWN = UNKNOWN
  NoPolicy = NoPolicy
  WriteActions <- MCWriteActions
  StickyVals <- MCStickyVals
INVARIANTS TypeOK UniqueEntries NumEntriesExact NeverFull MonitoredExactly
PROPERTIES ImplementsStore
CHECK_DEADLOCK FALSE

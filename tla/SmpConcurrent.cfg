SPECIFICATION SmpSpec
CONSTANTS
  Cpus = {c1, c2}
  Serialised = FALSE
  MaxCount = 2
  Cr0Res = {pe, wp}
  Cr4Res = {}
  MsrListed = {}
  MsrUnlisted = {}
  UNKNOWN = UNKNOWN
  NoPolicy = NoPolicy
  WriteActions <- MCOneAction
  StickyVals <- MCStickyVals
SYMMETRY CpuSymmetry
INVARIANTS SmpTypeOK
PROPERTIES FrozenOnceQuiet
CHECK_DEADLOCK FALSE

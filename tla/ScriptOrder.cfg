SPECIFICATION ScriptSpec
CONSTANTS
  key = n1
  File <- MCFile
  DictOrder <- MCDictOrder
  shell = p1
  wp = wp
  Names = {n1}
  Items = {o1}
  Procs = {p1}
  NoItem = NoItem
  DEBUG = FALSE
  ResourceOf <- MCResourceOf
  Cr0Res = {wp}
  Cr4Res = {}
  MsrListed = {}
  MsrUnlisted = {}
  UNKNOWN = UNKNOWN
  NoPolicy = NoPolicy
  WriteActions <- MCWriteActions
  StickyVals <- MCStickyVals
INVARIANT FileIsEnforced
CHECK_DEADLOCK FALSE

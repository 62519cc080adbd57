SPECIFICATION Spec
CONSTANTS
  Cpus = {c1, c2}
  Buffers = {b1, b2, b3}
  LOG_PAGES_PER_CPU = 2
  BlockPages = 3
  NULL = NULL
INVARIANTS
  SetupTypeOK LogMemoryOwned ProtectedInBlocks LogInForce WritesLogged
  LogReadable
PROPERTIES StartLogEnds
CHECK_DEADLOCK FALSE

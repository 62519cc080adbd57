SPECIFICATION Spec
CONSTANTS
  NumCpus = 1
  LOGS_PER_CPU = 3
  UINT32 = 4
  Readers = {r1, r2}
  PageMin = 1
  PageMax = 2
  MaxSeq = 2
INVARIANT CountIsAvailable
CHECK_DEADLOCK FALSE

SPECIFICATION FairSpec
CONSTANTS
  NumCpus = 2
  LOGS_PER_CPU = 2
  UINT32 = 3
  Readers = {r1}
  PageMin = 1
  PageMax = 3
  MaxSeq = 3
INVARIANTS TypeOK RetainedWindow CursorBehindHead CountIsAvailable ReadsNewest EventsInOrder
PROPERTIES FirstCpuDelivered
CHECK_DEADLOCK FALSE

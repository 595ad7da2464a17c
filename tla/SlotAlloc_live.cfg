\* Three threads that only allocate, as the program does.
SPECIFICATION AllocSpec
CONSTANTS
  t1 = t1
  t2 = t2
  t3 = t3
  NULL = NULL
  Thread <- ThreeThreads
  SLOT_PAGE_NUM = 2
  SLOT_PAGE_SIZE = 2
  SLOT_SIZE = 2
  UINT_BIT_NUM = 2
  MaxSets = 6
  MaxHeld = 2
INVARIANTS OverAllocationBound
PROPERTY AllocReturns
CHECK_DEADLOCK FALSE

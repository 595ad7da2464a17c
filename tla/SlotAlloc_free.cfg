\* Allocation and freeing by two threads; sets of three slots whose bitmap
\* has two words of two bits, so one bit lies past SLOT_NUM.
SPECIFICATION Spec
CONSTANTS
  t1 = t1
  t2 = t2
  t3 = t3
  NULL = NULL
  Thread <- TwoThreads
  SLOT_PAGE_NUM = 3
  SLOT_PAGE_SIZE = 2
  SLOT_SIZE = 2
  UINT_BIT_NUM = 2
  MaxSets = 3
  MaxHeld = 3
SYMMETRY Symmetry
INVARIANTS TypeOK CountExact IdxIsZeroBetweenSets
PROPERTY ImplementsPool
CHECK_DEADLOCK FALSE

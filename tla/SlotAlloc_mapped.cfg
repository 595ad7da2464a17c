\* Two pages of slots in a set, of which slot_set_add maps one.
SPECIFICATION Spec
CONSTANTS
  t1 = t1
  t2 = t2
  t3 = t3
  NULL = NULL
  Thread <- TwoThreads
  SLOT_PAGE_NUM = 2
  SLOT_PAGE_SIZE = 4
  SLOT_SIZE = 2
  UINT_BIT_NUM = 2
  MaxSets = 3
  MaxHeld = 3
INVARIANTS SlotIsMapped
CHECK_DEADLOCK FALSE

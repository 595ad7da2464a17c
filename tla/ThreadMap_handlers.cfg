\* Three threads, two of them in one bucket, and an object to spare.
SPECIFICATION Spec
CONSTANTS
  n1 = n1
  n2 = n2
  n3 = n3
  n4 = n4
  NULL = NULL
  Tid = {1, 2, 3}
  Node = {n1, n2, n3, n4}
  THREAD_MAP_SIZE = 2
SYMMETRY Symmetry
CHECK_DEADLOCK FALSE
INVARIANTS TypeOK OneObjectPerTid AddIsNotRejected
PROPERTY SameObjectForEver

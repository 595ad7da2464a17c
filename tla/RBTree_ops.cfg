\* Every sequence of insertions and deletions of nine addresses.
SPECIFICATION Spec
CONSTANTS
  NULL = NULL
  Key = {1, 2, 3, 4, 5, 6, 7, 8, 9}
INVARIANTS TypeOK LinksMatch Balanced NeverFollowsNull WalkIsSorted
PROPERTIES ImplementsAddrSet OperationReturns
CHECK_DEADLOCK FALSE

\* A breakpoint that was created as enabled is resumed or deleted.
SPECIFICATION Spec
CONSTANTS
  b1 = b1
  b2 = b2
  b3 = b3
  b4 = b4
  b5 = b5
  CC = CC
  FF = FF
  NULL = NULL
  DEAD = DEAD
  tracee = tracee
  Bkpt <- MCBkpt
  Object <- MCObject
  ObjOf <- MCObjOf
  Offset <- MCOffset
  Byte <- MCByte
  WORD = 2
  Succ <- MCSucc
  EntryPoint = 1
INVARIANT AssertionHolds
CHECK_DEADLOCK FALSE

\* A breakpoint in a signal handler of the program.
SPECIFICATION Spec
CONSTANTS
  t1 = t1
  t2 = t2
  c1 = c1
  c2 = c2
  b1 = b1
  b2 = b2
  b3 = b3
  b4 = b4
  b5 = b5
  b6 = b6
  b7 = b7
  b8 = b8
  s1 = s1
  s2 = s2
  s3 = s3
  exe = exe
  dso = dso
  hook = hook
  BRK = BRK
  NULL = NULL
  ABSENT = ABSENT
  DEAD = DEAD
  main = t1
  lib = c1
  entry_bp = b1
  bkp = b2
  Thread = {t1}
  Ctl = {c1}
  Bkpt = {b1, b2, b8}
  Slot = {s1, s2, s3}
  Obj = {exe, dso, hook}
  NO_BKPT = {hook}
  NO_SLOT = {}
  SigThread = {t1}
  SigEntry = 11
  SigReturn = 12
  MaxCalls = 2
  Addr <- MCAddr
  ObjAt <- MCObjAt
  Succ <- ExeSucc
  Starts <- MCStarts
  Early <- MCEarly
  Enter <- MCEnter
  Use <- UseAll
INVARIANTS StepIsTheOneBegun
CHECK_DEADLOCK FALSE

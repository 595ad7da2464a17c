\* Two callers that patch different objects while two threads run into the breakpoints.
SPECIFICATION Spec
CONSTANTS
  t1 = t1
  t2 = t2
  c1 = c1
  c2 = c2
  b1 = b1
  b2 = b2
  b3 = b3
  b4 = b4
  b5 = b5
  b6 = b6
  b7 = b7
  b8 = b8
  s1 = s1
  s2 = s2
  s3 = s3
  exe = exe
  dso = dso
  hook = hook
  BRK = BRK
  NULL = NULL
  ABSENT = ABSENT
  DEAD = DEAD
  main = t1
  lib = c1
  entry_bp = b1
  bkp = b2
  Thread = {t1, t2}
  Ctl = {c1, c2}
  Bkpt = {b1, b2, b3}
  Slot = {s1, s2, s3}
  Obj = {exe, dso, hook}
  NO_BKPT = {hook}
  NO_SLOT = {}
  SigThread = {}
  SigEntry = 11
  SigReturn = 12
  MaxCalls = 2
  Addr <- MCAddr
  ObjAt <- MCObjAt
  Succ <- LoopSucc
  Starts <- MCStarts
  Early <- MCEarly
  Enter <- MCEnter
  Use <- OnePerCaller
SYMMETRY Symmetry
INVARIANTS NoFault AttrTellsText WritableWhilePatching
PROPERTY Transparent
CHECK_DEADLOCK FALSE

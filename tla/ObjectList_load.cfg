\* Two callers that load while a library is mapped.
SPECIFICATION Spec
CONSTANTS
  WORD_DIGITS = 2
  INT_BITS = 4
  l1 = l1
  l2 = l2
  Loader = {l1, l2}
  Region <- MCRegion
  Early <- MCEarly
  Self = 21
  Exe <- MCExe
  e_entry = 2
  MaxLoads = 2
SYMMETRY Symmetry
INVARIANTS TypeOK LinesReadBack LoadIsComplete ObjectsAreMappings BoundedDuplicates SelfIsMarked EntryBaseIsLowest
PROPERTY FileLookupIsStable
CHECK_DEADLOCK FALSE

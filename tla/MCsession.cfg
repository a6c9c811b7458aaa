SPECIFICATION Spec
CONSTANTS
  Obj = {o1, o2, o3}
  NoObj = NoObj
  Names = {"w"}
  CoreNames = {}
  Doubles = {2}
  Nulls = TRUE
  WordsHoldObjects = FALSE
  MaxStack = 2
  MaxLiterals = 1
  MaxItems = 2
  MaxNesting = 2
SYMMETRY Addresses
INVARIANT SessionTypeOK
INVARIANT NoDangling
INVARIANT ListWhole
INVARIANT CrashesOnNonObject
PROPERTY SweepIsExact
PROPERTY CollectorAdvances
PROPERTY ImplementsMemory
CHECK_DEADLOCK FALSE

CONSTANTS
  Obj = {o1, o2, o3}
  NoObj = NoObj
  Names = {"w"}
  CoreNames = {}
  Doubles = {0}
  Nulls = FALSE
  WordsHoldObjects = TRUE
  MaxStack = 2
  MaxLiterals = 1
  MaxItems = 2
  MaxNesting = 2
SPECIFICATION Spec
CHECK_DEADLOCK FALSE
INVARIANT NoDangling

SPECIFICATION MachineSpec
CONSTANTS
  Literals <- Strings
  LiteralType <- MCLiteralType
  Keywords = {"IF", "ELSE", "THEN", "BEGIN", "WHILE", "REPEAT", "RECURSE"}
  Words = {"DROP", "ABS", "DROPABS"}
  WordEffect <- MCWordEffect
  Interpreted <- MCInterpreted
  InlineBody <- DropAbsInline
  QuoteEffect <- MCQuoteEffect
  Declarations <- KnownInputs
  MaxWords = 6
  MaxNesting = 2
  WildOffsets <- MCWildOffsets
  WordCode <- MCWordCode
  MaxFrames = 3
INVARIANT CompilerTypeOK
INVARIANT BranchesResolved
INVARIANT ControlFlowStructured
INVARIANT CheckTypeOK
INVARIANT NothingLost
INVARIANT FixedPoint
PROPERTY EffectSettles
INVARIANT LayoutTypeOK
INVARIANT OptimizedFlowCovered
INVARIANT CodeMatchesList
INVARIANT ScanFindsLiterals
INVARIANT StackAsChecked
INVARIANT EffectKept
CHECK_DEADLOCK FALSE

SPECIFICATION MachineSpec
CONSTANTS
  Literals <- NumbersAndStrings
  LiteralType <- MCLiteralType
  Keywords = {"IF", "THEN", "RECURSE"}
  Words = {"DUP", "ABS", "MAX"}
  WordEffect <- MCWordEffect
  Interpreted <- MCInterpreted
  InlineBody <- NoInlines
  QuoteEffect <- MCQuoteEffect
  Declarations <- InlineAndNot
  MaxWords = 6
  MaxNesting = 2
  WildOffsets <- MCWildOffsets
  WordCode <- MCWordCode
  MaxFrames = 3
INVARIANT MachineTypeOK
INVARIANT MaxCoversEveryWord
INVARIANT CodeMatchesList
INVARIANT DisassemblesToList
INVARIANT RunsSafely
INVARIANT EffectKept
INVARIANT TailRecursionIsLoop
CHECK_DEADLOCK FALSE

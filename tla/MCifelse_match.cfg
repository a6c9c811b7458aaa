SPECIFICATION MachineSpec
CONSTANTS
  Literals <- NumbersAndMatches
  LiteralType <- MCLiteralType
  Keywords = {}
  Words = {"IFELSE"}
  WordEffect <- MCWordEffect
  Interpreted <- MCInterpreted
  InlineBody <- NoInlines
  QuoteEffect <- MCQuoteEffect
  Declarations <- OnlyPrompt
  MaxWords = 9
  MaxNesting = 2
  WildOffsets <- MCWildOffsets
  WordCode <- MCWordCode
  MaxFrames = 3
INVARIANT RunsSafely
CHECK_DEADLOCK FALSE

SPECIFICATION MachineSpec
CONSTANTS
  Literals <- Numbers
  LiteralType <- MCLiteralType
  Keywords = {"IF", "ELSE", "THEN"}
  Words = {"DROP"}
  WordEffect <- MCWordEffect
  Interpreted <- MCInterpreted
  InlineBody <- NoInlines
  QuoteEffect <- MCQuoteEffect
  Declarations <- Unbalanced
  MaxWords = 7
  MaxNesting = 1
  WildOffsets <- MCWildOffsets
  WordCode <- MCWordCode
  MaxFrames = 3
INVARIANT RunsSafely
CHECK_DEADLOCK FALSE

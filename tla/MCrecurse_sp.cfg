SPECIFICATION MachineSpec
CONSTANTS
  Literals <- Numbers
  LiteralType <- MCLiteralType
  Keywords = {"IF", "ELSE", "THEN", "RECURSE"}
  Words = {"DUP", "DROP"}
  WordEffect <- MCWordEffect
  Interpreted <- MCInterpreted
  InlineBody <- NoInlines
  QuoteEffect <- MCQuoteEffect
  Declarations <- Unbalanced
  MaxWords = 6
  MaxNesting = 1
  WildOffsets <- MCWildOffsets
  WordCode <- MCWordCode
  MaxFrames = 3
INVARIANT EffectKept
CHECK_DEADLOCK FALSE

SPECIFICATION MachineSpec
CONSTANTS
  Literals <- NumbersAndQuotes
  LiteralType <- MCLiteralType
  Keywords = {}
  Words = {"DUP", "SWAP", "MULT", "IFELSE"}
  WordEffect <- MCWordEffect
  Interpreted <- MCInterpreted
  InlineBody <- NoInlines
  QuoteEffect <- MCQuoteEffect
  Declarations <- DeclaredAndNot
  MaxWords = 6
  MaxNesting = 2
  WildOffsets <- MCWildOffsets
  WordCode <- MCWordCode
  MaxFrames = 3
INVARIANT EffectKept
INVARIANT RunsSafely
INVARIANT StackAsChecked
CHECK_DEADLOCK FALSE

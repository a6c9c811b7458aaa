SPECIFICATION GenSpec
CONSTANTS
  Literals <- Numbers
  LiteralType <- MCLiteralType
  Keywords = {"BEGIN", "WHILE", "REPEAT"}
  Words = {"DUP", "DROP"}
  WordEffect <- MCWordEffect
  Interpreted <- MCInterpreted
  InlineBody <- NoInlines
  QuoteEffect <- MCQuoteEffect
  Declarations <- OnlyNumberToNumber
  MaxWords = 6
  MaxNesting = 2
  WildOffsets <- MCWildOffsets
INVARIANT EndsWithReturn
CHECK_DEADLOCK FALSE

SPECIFICATION GenSpec
CONSTANTS
  Literals <- Numbers
  LiteralType <- MCLiteralType
  Keywords = {"IF", "THEN", "BEGIN", "WHILE", "REPEAT", "RECURSE"}
  Words = {"ABS"}
  WordEffect <- MCWordEffect
  Interpreted <- MCInterpreted
  InlineBody <- NoInlines
  QuoteEffect <- MCQuoteEffect
  Declarations <- OnlyNumberToNumber
  MaxWords = 6
  MaxNesting = 3
  WildOffsets <- MCWildOffsets
PROPERTY CheckTerminates
PROPERTY LayoutTerminates
CHECK_DEADLOCK FALSE

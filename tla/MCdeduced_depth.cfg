SPECIFICATION Spec
CONSTANTS
  Literals <- Numbers
  LiteralType <- MCLiteralType
  Keywords = {"IF", "ELSE", "THEN"}
  Words = {"DROP"}
  WordEffect <- MCWordEffect
  Interpreted <- MCInterpreted
  InlineBody <- NoInlines
  QuoteEffect <- MCQuoteEffect
  Declarations <- OnlyUndeclared
  MaxWords = 5
  MaxNesting = 1
INVARIANT DepthsBalanced
CHECK_DEADLOCK FALSE

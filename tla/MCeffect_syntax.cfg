SPECIFICATION EffectSpec
CONSTANTS
  Literals <- MCLiterals
  LiteralType <- MCLiteralType
  Texts <- MCTexts
INVARIANT EffectTypeOK
INVARIANT ReadsDeclaration
CHECK_DEADLOCK FALSE

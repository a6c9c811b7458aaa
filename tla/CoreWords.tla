----------------------------- MODULE CoreWords ------------------------------
(***************************************************************************)
(* The core vocabulary (core/core_words.cc): the stack effect every word   *)
(* declares, and the code of those that are interpreted.                  *)
(***************************************************************************)
EXTENDS StackEffects, Instructions

Any == AnyType
Num == {"Number"}
Addable == {"Number", "String", "Array"}

kBinEffect  == Effect(<<Num, Num>>, <<Out(Num)>>)
kRelEffect  == Effect(<<Any, Any>>, <<Out(Num)>>)
k0RelEffect == Effect(<<Any>>, <<Out(Num)>>)

\* The words source text may use, IFELSE and the reserved words apart.
CoreEffect ==
  [ NOP     |-> Effect(<<>>, <<>>),
    DUP     |-> Effect(<<Any>>, <<SameAs(Any, 0), SameAs(Any, 0)>>),
    DROP    |-> Effect(<<Any>>, <<>>),
    SWAP    |-> Effect(<<Any, Any>>, <<SameAs(Any, 0), SameAs(Any, 1)>>),
    OVER    |-> Effect(<<Any, Any>>,
                       <<SameAs(Any, 1), SameAs(Any, 0), SameAs(Any, 1)>>),
    ROT     |-> Effect(<<Any, Any, Any>>,
                       <<SameAs(Any, 1), SameAs(Any, 0), SameAs(Any, 2)>>),
    ZERO    |-> Effect(<<>>, <<Out(Num)>>),
    ONE     |-> Effect(<<>>, <<Out(Num)>>),
    PLUS    |-> Effect(<<Addable, Addable>>, <<SameAs(Addable, 0)>>),
    MINUS   |-> kBinEffect,  MULT |-> kBinEffect,
    DIV     |-> kBinEffect,  MOD  |-> kBinEffect,
    EQ      |-> kRelEffect,  NE   |-> kRelEffect,  GT |-> kRelEffect,
    GE      |-> kRelEffect,  LT   |-> kRelEffect,  LE |-> kRelEffect,
    EQ_ZERO |-> k0RelEffect, NE_ZERO |-> k0RelEffect,
    GT_ZERO |-> k0RelEffect, LT_ZERO |-> k0RelEffect,
    NULL_   |-> Effect(<<>>, <<Out({"Null"})>>),
    LENGTH  |-> Effect(<<{"String", "Array"}>>, <<Out(Num)>>),
    ABS     |-> WithMax(Effect(<<Num>>, <<Out(Num)>>), 1),
    MAX     |-> WithMax(Effect(<<Any, Any>>, <<Out(Any)>>), 2),
    MIN     |-> WithMax(Effect(<<Any, Any>>, <<Out(Any)>>), 2) ]

\* MAX and MIN drop the smaller or the greater of their inputs.
SelectCode(compare) ==
  <<OpCell("OVER"), OpCell("OVER"), OpCell(compare),
    OpCell("_ZBRANCH"), OffsetCell(1), OpCell("SWAP"),
    OpCell("DROP"), OpCell("_RETURN")>>

\* The interpreted words (INTERP_WORD adds the RETURN)
CoreCode ==
  [ ABS |-> <<OpCell("DUP"), OpCell("LT_ZERO"),
              OpCell("_ZBRANCH"), OffsetCell(3),
              OpCell("ZERO"), OpCell("SWAP"), OpCell("MINUS"),
              OpCell("_RETURN")>>,
    MAX |-> SelectCode("LT"),
    MIN |-> SelectCode("GT") ]
=============================================================================

------------------------------- MODULE Values -------------------------------
(***************************************************************************)
(* The 64 bits of a Value (values/nan_tagged.hh, values/value.cc).         *)
(*                                                                         *)
(* A bit pattern is split into the fields the code tells apart: the sign   *)
(* bit, whether all of kMagicBits (bits 50 to 62) are set, the two tag     *)
(* bits (48 and 49), and the pointer the low 48 bits hold.  The low bits   *)
(* of doubles and of inline strings are never looked at here and are kept  *)
(* at NoObj, the null pointer.                                             *)
(***************************************************************************)
EXTENDS Integers

CONSTANTS
  Obj,      \* the addresses malloc() may return
  NoObj     \* the null pointer

ASSUME NoObjAssumption == NoObj \notin Obj

Value ==
  [sign : {0, 1}, magic : BOOLEAN, tags : 0..3, low : Obj \cup {NoObj}]

kStringTag == 0
kArrayTag == 1
kQuoteTag == 2

\* kTypeMask compares the magic bits and the sign.
isDouble(v) == ~v.magic
isPointer(v) == v.magic /\ v.sign = 1
isInline(v) == v.magic /\ v.sign = 0
isNullPointer(v) == isPointer(v) /\ v.tags = 0 /\ v.low = NoObj

asPointer(v) == IF isPointer(v) THEN v.low ELSE NoObj

setTags(v, t) == [v EXCEPT !.tags = t]

setPointer(p) == [sign |-> 1, magic |-> TRUE, tags |-> 0, low |-> p]

setInline == [sign |-> 0, magic |-> TRUE, tags |-> 0, low |-> NoObj]

(***************************************************************************)
(* A double has its exponent and mantissa where the others have their      *)
(* tags, so its two tag bits are whatever its value makes them: 0 for 1    *)
(* and for 5, 1 for 17, 2 for 9, 3 for 19.   setDouble() turns a NaN into  *)
(* null, so that no double has all the magic bits.                         *)
(***************************************************************************)
Double(sign, t) == [sign |-> sign, magic |-> FALSE, tags |-> t, low |-> NoObj]

NullValue == setPointer(NoObj)

\* Constructors: a string of up to 6 bytes is inline.
InlineString == setInline
StringValue(p) == setPointer(p)
ArrayValue(p) == setTags(setPointer(p), kArrayTag)
QuoteValue(p) == setTags(setPointer(p), kQuoteTag)

\* type()
type(v) ==
  CASE isDouble(v)      -> "Number"
    [] isNullPointer(v) -> "Null"
    [] OTHER            -> <<"String", "Array", "Quote", "none">>[v.tags + 1]

isString(v) == (asPointer(v) # NoObj \/ isInline(v)) /\ v.tags = kStringTag
isArray(v) == asPointer(v) # NoObj /\ v.tags = kArrayTag
isQuote(v) == asPointer(v) # NoObj /\ v.tags = kQuoteTag

(***************************************************************************)
(* Value::mark() calls mark() of the object at asPointer() - for a string  *)
(* only if it is neither a double nor inline, for the other tags always.   *)
(***************************************************************************)
CallsMark(v) ==
  \/ v.tags = kStringTag /\ ~isDouble(v) /\ ~isInline(v)
  \/ v.tags \in {kArrayTag, kQuoteTag}

=============================================================================

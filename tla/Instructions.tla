---------------------------- MODULE Instructions ----------------------------
(***************************************************************************)
(* union Instruction (core/instruction.hh): one cell of a word's code is a *)
(* pointer to a native word, or a parameter of the one before it: a        *)
(* literal, a pc offset, or a pointer to an interpreted word.  The words   *)
(* of the INTERP family differ in how many words follow and in whether the *)
(* last one is jumped to.                                                  *)
(***************************************************************************)
OpCell(w) == [kind |-> "op", op |-> w]
LiteralCell(v) == [kind |-> "literal", literal |-> v]
OffsetCell(n) == [kind |-> "offset", offset |-> n]
WordCell(w) == [kind |-> "word", word |-> w]

\* kInterpWords[tail][count - 1], for count up to kMaxInterp
kMaxInterp == 4
InterpCell(count, tail) == [kind |-> "interp", count |-> count, tail |-> tail]
=============================================================================

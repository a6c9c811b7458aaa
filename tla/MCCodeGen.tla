----------------------------- MODULE MCCodeGen ------------------------------
(* Small instances of the whole compiler. *)
EXTENDS CodeGen, MCCompiler

MCWildOffsets == {-3, 0, 5}
=============================================================================

---------------------------- MODULE MCStackCheck ----------------------------
(* Small instances of the front end together with the stack checker. *)
EXTENDS StackCheck, MCCompiler
=============================================================================

------------------------------- MODULE MCRepl -------------------------------
(* Small instances of Repl for TLC. *)
EXTENDS Repl, TLC

\* The code never compares or orders addresses.
Addresses == Permutations(Obj)
=============================================================================

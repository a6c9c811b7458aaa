--------------------------- MODULE MCInterpreter ----------------------------
(* Small instances of the compiler together with the interpreter. *)
EXTENDS Interpreter, Disassembler, MCCompiler

MCWildOffsets == {-3, 0, 5}

\* The quotations of MCQuoteEffect as they are compiled
MCQuoteCode(q) ==
  CASE q = "{*}"        -> <<OpCell("MULT"), OpCell("_RETURN")>>
    [] q = "{DROP}"     -> <<OpCell("DROP"), OpCell("_RETURN")>>
    [] q = "{(x -- x)}" -> <<OpCell("_RETURN")>>

MCWordCode ==
  [w \in Interpreted \cup DOMAIN QuoteEffect |->
     IF w \in DOMAIN CoreCode THEN CoreCode[w] ELSE MCQuoteCode(w)]
=============================================================================

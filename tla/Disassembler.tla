---------------------------- MODULE Disassembler ----------------------------
(***************************************************************************)
(* The two readers of compiled code other than the interpreter:            *)
(* Disassembler (compiler/disassembler.hh), from which inlining takes the  *)
(* words it copies, and scanWord (values/gc.cc), which finds the literals  *)
(* a garbage collection has to mark.                                       *)
(***************************************************************************)
EXTENDS CodeGen

\* A WordRef; NOP stands in for the parameter of a word that has none.
WordRef(w, p) == [word |-> w, param |-> p]
NoParam == OpCell("NOP")

\* What comes of a read behind the end of the code, and of a cell that no
\* active vocabulary has a word for
Overrun == WordRef("overrun", NoParam)
Unknown == WordRef("unknown", NoParam)

\* Faulty variant: of the INTERP family only INTERP itself is known.
WordAtOne(k) ==
  IF instrs[k].kind = "interp" /\ instrs[k].count = 1 THEN k + 1 ELSE k

\* The cell looked up by _next() at k: behind a word of the INTERP family,
\* the first word that it calls.  The others are met by later calls.
WordAt(k) == IF instrs[k].kind = "interp" THEN k + 1 ELSE k

\* disassembleWord(), without `literal`: the WordRefs that next() returns
\* from cell 1 on.
Disassembled ==
  LET from[k \in 1..(Len(instrs) + 2)] ==
        LET w == WordAt(k)
        IN  IF k > Len(instrs) THEN <<Overrun>>
            ELSE CASE instrs[w].kind = "word" ->
                        <<WordRef(instrs[w].word, NoParam)>> \o from[w + 1]
                   [] instrs[w].kind = "op" ->
                        IF instrs[w].op = "_RETURN"
                          THEN <<WordRef("_RETURN", NoParam)>>
                        ELSE IF Parameters(instrs[w].op) = 1
                          THEN <<WordRef(instrs[w].op, instrs[w + 1])>>
                                 \o from[w + 2]
                        ELSE <<WordRef(instrs[w].op, NoParam)>> \o from[w + 1]
                   [] OTHER -> <<Unknown>>
  IN  from[1]

\* Faulty variant: the cell behind the literal is skipped as well.
BehindLiteralAndOne(k) == k + 3

\* The pc after a literal was marked
BehindLiteral(k) == k + 2

\* scanWord(): the literals whose mark() it calls.  It looks at every other
\* cell, offsets and words included.
Scanned ==
  LET from[k \in 1..(Len(instrs) + 3)] ==
        IF k > Len(instrs) \/ instrs[k] = OpCell("_RETURN") THEN <<>>
        ELSE IF instrs[k] = OpCell("_LITERAL")
          THEN <<instrs[k + 1].literal>> \o from[BehindLiteral(k)]
        ELSE from[k + 1]
  IN  from[1]

-----------------------------------------------------------------------------
(* Properties *)

\* Positions of words in the code, in order
LivePositions == SelectSeq([i \in DOMAIN words |-> i], LAMBDA i : i \in Live)

(***************************************************************************)
(* Disassembling is the inverse of emission: the words of the optimized    *)
(* list come back one by one, with their parameters, whatever groups the   *)
(* calls among them were put into (disassembler.hh:36-50).  Code without a *)
(* RETURN at its end has no end to the disassembler, see EndsWithReturn.   *)
(***************************************************************************)
DisassemblesToList ==
  phase = "compiled" /\ EndsWithReturn =>
    /\ Len(Disassembled) = Len(LivePositions)
    /\ \A n \in DOMAIN Disassembled :
         LET i == LivePositions[n]
             w == words[i].word
         IN  /\ Disassembled[n].word = w
             /\ Parameters(w) = 1 => Disassembled[n].param = instrs[CellOf(i) + 1]

(***************************************************************************)
(* The collector finds the literals of a word in its code, all of them and *)
(* in order, and takes no offset or call for one (gc.cc:50-57).            *)
(***************************************************************************)
ScanFindsLiterals ==
  phase = "compiled" /\ EndsWithReturn =>
    LET literals == SelectSeq(LivePositions, LAMBDA i : words[i].word = "_LITERAL")
    IN  Scanned = [n \in DOMAIN literals |-> words[literals[n]].lit]
=============================================================================

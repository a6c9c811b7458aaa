------------------------------ MODULE Compiler ------------------------------
(***************************************************************************)
(* The front end of the compiler: Compiler::parse (compiler/parser.cc)     *)
(* turning tokens into the list `_words`, with the control-flow stack that *)
(* IF, ELSE, THEN, BEGIN, WHILE and REPEAT share (compiler/compiler.cc).   *)
(*                                                                         *)
(* A Compiler object compiles one word or quotation.  A position in        *)
(* `_words` (a list iterator in the code) is an index; the last element is *)
(* always the NOP placeholder that the next word replaces.  Literals,      *)
(* nested quotations included, arrive as one token: a quotation is a       *)
(* literal whose effect its own Compiler has already computed.             *)
(***************************************************************************)
EXTENDS StackEffects

CONSTANTS
  Keywords,      \* the reserved words the source text may use
  Words,         \* the words its vocabularies know, IFELSE among them or not
  WordEffect,    \* the declared effect of each word but IFELSE
  Interpreted,   \* the words that are not native
  InlineBody,    \* the words with the Inline flag, and what they inline to
  QuoteEffect,   \* the effect of each literal that is a quotation
  Declarations,  \* how a Compiler may be set up before it parses
  MaxWords,      \* bound: the longest `_words` explored
  MaxNesting     \* bound: the deepest control-flow stack explored

ReservedWords ==
  {"IF", "ELSE", "THEN", "BEGIN", "WHILE", "REPEAT", "RECURSE"}

SpecialWords == {"_LITERAL", "_RETURN", "_BRANCH", "_ZBRANCH", "_RECURSE"}

(***************************************************************************)
(* struct WordRef: a word and its parameter, as add() takes it and         *)
(* Disassembler::next() returns it.  A branch's parameter is not its       *)
(* target; only the compiler's own branches get one.                       *)
(***************************************************************************)
PlainRef == [word : Words, lit : {NoLiteral}]
              \cup [word : {"_LITERAL"}, lit : Literals]
BranchRef == [word : {"_BRANCH", "_ZBRANCH", "_RECURSE"}, lit : {NoLiteral}]

Declaration == [effect : StackEffect, canAddInputs : BOOLEAN,
                canAddOutputs : BOOLEAN, inline : BOOLEAN]

ASSUME CompilerAssumption ==
  /\ Keywords \subseteq ReservedWords
  /\ Words \cap SpecialWords = {}
  /\ WordEffect \in [Words \ {"IFELSE"} -> StackEffect]
  /\ Interpreted \subseteq Words \ {"IFELSE"}
  /\ DOMAIN InlineBody \subseteq Words
  /\ \A w \in DOMAIN InlineBody : InlineBody[w] \in Seq(PlainRef \cup BranchRef)
  /\ DOMAIN QuoteEffect = {v \in Literals : LiteralType[v] = "Quote"}
  /\ \A q \in DOMAIN QuoteEffect : QuoteEffect[q] \in StackEffect
  /\ Declarations \subseteq Declaration
  /\ MaxWords \in Nat \ {0}
  /\ MaxNesting \in Nat

VARIABLES
  words,          \* _words
  controlStack,   \* _controlStack
  effect,         \* _effect
  canAddInputs,   \* _effectCanAddInputs
  canAddOutputs,  \* _effectCanAddOutputs
  inline,         \* the Inline bit of _flags
  phase,          \* how far generateInstructions() has come
  error           \* the exception thrown, when phase is "error"

setup == <<effect, canAddInputs, canAddOutputs, inline>>
compilerVars == <<words, controlStack, setup, phase, error>>

NoError == "none"

-----------------------------------------------------------------------------
(* The list of words *)

Ref(w) == [word |-> w, lit |-> NoLiteral]
LiteralRef(v) == [word |-> "_LITERAL", lit |-> v]

\* struct SourceWord; branchTo is 0 while there is no branch target.
SourceWord == [word : SpecialWords \cup Words \cup {"NOP"},
               lit : Literals \cup {NoLiteral},
               branchTo : Nat, isDst : BOOLEAN]

\* SourceWord(ref), with the isBranchDestination flag given
NewSourceWord(ref, dst) ==
  [word |-> ref.word, lit |-> ref.lit, branchTo |-> 0, isDst |-> dst]

Placeholder == NewSourceWord(Ref("NOP"), FALSE)

\* prev(_words.end()), the position of the next word to be added
Here(ws) == Len(ws)

\* add(ref): replaces the placeholder, keeping its isBranchDestination flag.
Add(ws, ref) ==
  Append([ws EXCEPT ![Here(ws)] = NewSourceWord(ref, @.isDst)], Placeholder)

\* addInline() of an interpreted word: add() for each word before its RETURN
AddAll(ws, refs) ==
  LET last == Here(ws) + Len(refs)
      ref(i) == refs[i - Here(ws) + 1]
  IN  IF refs = <<>> THEN ws
      ELSE [i \in 1..last |->
              IF i < Here(ws) THEN ws[i]
              ELSE IF i = last THEN Placeholder
              ELSE NewSourceWord(ref(i), i = Here(ws) /\ ws[i].isDst)]

\* ws[src].branchesTo(dst)
BranchesTo(ws, src, dst) ==
  [i \in DOMAIN ws |->
     [word |-> ws[i].word, lit |-> ws[i].lit,
      branchTo |-> IF i = src THEN dst ELSE ws[i].branchTo,
      isDst |-> (i = dst) \/ ws[i].isDst]]

\* Faulty variants of fixBranch(): the arguments of branchesTo() swapped, one
\* position too far, and an offset of the wrong sign in place of a position.
FixBranchSwapped(ws, src) == BranchesTo(ws, Here(ws), src)
FixBranchTooFar(ws, src) == BranchesTo(ws, src, Here(ws) + 1)
FixBranchOffset(ws, src) == BranchesTo(ws, src, src - Here(ws))

\* fixBranch(src)
FixBranch(ws, src) == BranchesTo(ws, src, Here(ws))

IsBranch(w) == w \in {"_BRANCH", "_ZBRANCH"}

-----------------------------------------------------------------------------
(* The control-flow stack *)

Control == [id : {"i", "e", "b", "w"}, at : Nat]

Push(id, at) == Append(controlStack, [id |-> id, at |-> at])

\* Whether popBranch(matching) finds the identifier it wants.
CanPop(ctrl, matching) ==
  /\ ctrl # <<>>
  /\ ctrl[Len(ctrl)].id \in matching

Top(ctrl) == ctrl[Len(ctrl)].at
Pop(ctrl) == SubSeq(ctrl, 1, Len(ctrl) - 1)

ElseMatches == {"i"}
ThenMatches == {"i", "e"}

-----------------------------------------------------------------------------
(* The token handlers of Compiler::parse *)

\* setStackEffect(), setInputStack() and setInline() precede parse().
Init ==
  /\ words = <<Placeholder>>
  /\ controlStack = <<>>
  /\ \E d \in Declarations :
       /\ effect = d.effect
       /\ canAddInputs = d.canAddInputs
       /\ canAddOutputs = d.canAddOutputs
       /\ inline = d.inline
  /\ phase = "parsing"
  /\ error = NoError

\* An exception destroys the Compiler and its lists.
Fail(what) ==
  /\ phase' = "error"
  /\ error' = what
  /\ words' = <<>>
  /\ controlStack' = <<>>
  /\ UNCHANGED setup

\* A token that leaves the list of words as ws and the control stack as ctrl.
Parsed(ws, ctrl) ==
  /\ phase = "parsing"
  /\ Len(ws) <= MaxWords
  /\ Len(ctrl) <= MaxNesting
  /\ words' = ws
  /\ controlStack' = ctrl
  /\ UNCHANGED <<setup, phase, error>>

ParseFails(what) ==
  /\ phase = "parsing"
  /\ Fail(what)

ParseLiteral(v) == Parsed(Add(words, LiteralRef(v)), controlStack)

ParseWord(w) ==
  /\ w \notin DOMAIN InlineBody
  /\ Parsed(Add(words, Ref(w)), controlStack)

ParseInlineWord(w) == Parsed(AddAll(words, InlineBody[w]), controlStack)

\* An unknown token, or a Magic word
ParseUnknownWord == ParseFails("unknown word")

ParseIf ==
  /\ "IF" \in Keywords
  /\ Parsed(Add(words, Ref("_ZBRANCH")), Push("i", Here(words)))

ParseElse ==
  /\ "ELSE" \in Keywords
  /\ CanPop(controlStack, ElseMatches)
  /\ Parsed(FixBranch(Add(words, Ref("_BRANCH")), Top(controlStack)),
            Append(Pop(controlStack), [id |-> "e", at |-> Here(words)]))

ParseThen ==
  /\ "THEN" \in Keywords
  /\ CanPop(controlStack, ThenMatches)
  /\ Parsed(FixBranch(words, Top(controlStack)), Pop(controlStack))

ParseBegin ==
  /\ "BEGIN" \in Keywords
  /\ Parsed(words, Push("b", Here(words)))

ParseWhile ==
  /\ "WHILE" \in Keywords
  /\ CanPop(controlStack, {"b"})
  /\ Parsed(Add(words, Ref("_ZBRANCH")), Push("w", Here(words)))

ParseRepeat ==
  /\ "REPEAT" \in Keywords
  /\ CanPop(controlStack, {"w"})
  /\ CanPop(Pop(controlStack), {"b"})
  /\ LET whilePos == Top(controlStack)
         beginPos == Top(Pop(controlStack))
         looped == BranchesTo(Add(words, Ref("_BRANCH")), Here(words), beginPos)
     IN  Parsed(FixBranch(looped, whilePos), Pop(Pop(controlStack)))

\* addRecurse()
ParseRecurse ==
  /\ "RECURSE" \in Keywords
  /\ Parsed(BranchesTo(Add(words, Ref("_RECURSE")), Here(words), 1),
            controlStack)

\* popBranch() throws, or WHILE finds no BEGIN.
ParseUnmatched ==
  /\ \/ "ELSE" \in Keywords /\ ~CanPop(controlStack, ElseMatches)
     \/ "THEN" \in Keywords /\ ~CanPop(controlStack, ThenMatches)
     \/ "WHILE" \in Keywords /\ ~CanPop(controlStack, {"b"})
     \/ "REPEAT" \in Keywords /\ ~CanPop(controlStack, {"w"})
  /\ ParseFails("no matching IF or WHILE")

(***************************************************************************)
(* finish() and the start of generateInstructions(): the placeholder       *)
(* becomes a new SourceWord for RETURN, its isBranchDestination flag clear.*)
(***************************************************************************)
AddReturn(ws) == [ws EXCEPT ![Here(ws)] = NewSourceWord(Ref("_RETURN"), FALSE)]

Finish ==
  /\ phase = "parsing"
  /\ controlStack = <<>>
  /\ words' = AddReturn(words)
  /\ phase' = "checking"
  /\ UNCHANGED <<controlStack, setup, error>>

FinishTooEarly ==
  /\ controlStack # <<>>
  /\ ParseFails("unfinished IF-ELSE-THEN or BEGIN-WHILE-REPEAT")

ParseToken ==
  \/ \E v \in Literals : ParseLiteral(v)
  \/ \E w \in Words : ParseWord(w)
  \/ \E w \in DOMAIN InlineBody : ParseInlineWord(w)
  \/ ParseUnknownWord
  \/ ParseIf \/ ParseElse \/ ParseThen
  \/ ParseBegin \/ ParseWhile \/ ParseRepeat
  \/ ParseRecurse
  \/ ParseUnmatched

ParseNext == ParseToken \/ Finish \/ FinishTooEarly

ParseSpec == Init /\ [][ParseNext]_compilerVars

-----------------------------------------------------------------------------
(* Properties *)

CompilerTypeOK ==
  /\ words \in Seq(SourceWord)
  /\ controlStack \in Seq(Control)
  /\ effect \in StackEffect
  /\ canAddInputs \in BOOLEAN
  /\ canAddOutputs \in BOOLEAN
  /\ inline \in BOOLEAN

\* The positions whose branch is still open according to a control stack
OpenBranches(ctrl) ==
  {ctrl[k].at : k \in {k \in DOMAIN ctrl : ctrl[k].id # "b"}}

Resolved(ws, ctrl) ==
  \A i \in DOMAIN ws :
    IsBranch(ws[i].word) /\ ws[i].branchTo = 0 <=> i \in OpenBranches(ctrl)

(***************************************************************************)
(* A branch has no target exactly while the control stack will still       *)
(* provide one, so that computeEffect() finds a target at every BRANCH and *)
(* 0BRANCH it reaches (assert(i->branchTo)).                               *)
(***************************************************************************)
BranchesResolved == Resolved(words, controlStack)

\* The words a forward branch jumps over
Skips(i) == (i + 1)..(words[i].branchTo - 1)

\* The body of the loop that a backward BRANCH closes
Loop(i) == words[i].branchTo..i

(***************************************************************************)
(* Control flow is structured: what two forward branches skip is nested or *)
(* disjoint, no branch enters a loop other than at its BEGIN, and a branch *)
(* out of a loop goes to the word after its REPEAT.  (The optimizations    *)
(* that rewrite the list later follow chains of branches.)                 *)
(***************************************************************************)
ControlFlowStructured ==
  phase \in {"parsing", "checking", "error"} =>
  LET branches == {i \in DOMAIN words : IsBranch(words[i].word)}
      resolved == {i \in branches : words[i].branchTo # 0}
      forward  == {i \in resolved : words[i].branchTo > i}
  IN  /\ \A i, j \in forward :
           \/ Skips(i) \cap Skips(j) = {}
           \/ Skips(i) \subseteq Skips(j)
           \/ Skips(j) \subseteq Skips(i)
      /\ \A r \in resolved \ forward : \A i \in resolved :
           IF i \in Loop(r)
             THEN words[i].branchTo \in Loop(r) \cup {r + 1}
             ELSE words[i].branchTo \notin Loop(r) \ {words[r].branchTo}
=============================================================================

------------------------------ MODULE CodeGen -------------------------------
(***************************************************************************)
(* Code generation, the rest of Compiler::generateInstructions             *)
(* (compiler/compiler.cc): the layout loop that drops unreachable words,   *)
(* turns tail recursion into a loop, follows chains of branches, groups    *)
(* calls of interpreted words and assigns every word its pc; then the      *)
(* emission of the instructions.                                           *)
(*                                                                         *)
(* One step is one iteration of the layout's loop, of its inner loop that  *)
(* follows a chain of branches, or of the loop that emits.  The code array *)
(* starts at pc 0; `instrs` is a sequence, so pc p is instrs[p + 1].       *)
(***************************************************************************)
EXTENDS StackCheck, Instructions

LOCAL INSTANCE SequencesExt

CONSTANT
  WildOffsets    \* what a read of a freed word's pc may make of an offset

ASSUME CodeGenAssumption == WildOffsets \subseteq Int

VARIABLES
  pos,           \* i, the position of the layout or the emission loop
  pc,            \* the pc of the next instruction
  afterBranch,   \* the last word laid out is a BRANCH
  interpCount,   \* how many calls the current group holds
  firstInterp,   \* the position of its first call
  chase,         \* dst while a chain of branches is followed, else 0
  erased,        \* the positions erased from _words
  pcOf,          \* SourceWord::pc, a function of the positions laid out
  interpWord,    \* SourceWord::interpWord, a function of positions
  recursive,     \* the Recursive bit of _flags
  instrs         \* the instructions

layoutVars == <<pos, pc, afterBranch, interpCount, firstInterp, chase,
                erased, pcOf, interpWord, recursive>>
genVars == <<vars, layoutVars, instrs>>

IsNative(w) == w \notin Interpreted

\* Word::parameters()
Parameters(w) ==
  IF w \in {"_LITERAL", "_BRANCH", "_ZBRANCH", "_RECURSE"} THEN 1 ELSE 0

Updated(f, i, v) == [j \in DOMAIN f \cup {i} |-> IF j = i THEN v ELSE f[j]]

-----------------------------------------------------------------------------
(* The layout loop *)

GenInit ==
  /\ CheckInit
  /\ pos = 0 /\ pc = 0 /\ afterBranch = FALSE
  /\ interpCount = 0 /\ firstInterp = 0 /\ chase = 0
  /\ erased = {} /\ pcOf = NothingKnown /\ interpWord = NothingKnown
  /\ recursive = FALSE
  /\ instrs = <<>>

StartLayout ==
  /\ phase = "checked"
  /\ phase' = "layout"
  /\ pos' = 1
  /\ UNCHANGED <<words, controlStack, setup, error, checkVars, instrs>>
  /\ UNCHANGED <<pc, afterBranch, interpCount, firstInterp, chase, erased,
                 pcOf, interpWord, recursive>>

\* The loop is at a position, and not inside the inner loop.
AtWord ==
  /\ phase = "layout"
  /\ chase = 0
  /\ pos <= Len(words)

\* Faulty variant: branch destinations are not spared.
UnreachableAll(i) == afterBranch

Unreachable(i) == afterBranch /\ ~words[i].isDst

EraseUnreachable ==
  /\ AtWord
  /\ Unreachable(pos)
  /\ erased' = erased \cup {pos}
  /\ pos' = pos + 1
  /\ UNCHANGED <<vars, instrs, pc, afterBranch, interpCount, firstInterp,
                 chase, pcOf, interpWord, recursive>>

\* The end of an iteration for the native word w, laid out at the present pc.
NativeDone(w) ==
  /\ pcOf' = Updated(pcOf, pos, pc)
  /\ interpCount' = 0
  /\ pc' = pc + Parameters(w) + 1
  /\ afterBranch' = (w = "_BRANCH")
  /\ pos' = pos + 1
  /\ UNCHANGED <<firstInterp, erased, interpWord, instrs>>

LayoutNative ==
  /\ AtWord
  /\ ~Unreachable(pos)
  /\ IsNative(words[pos].word)
  /\ words[pos].branchTo = 0
  /\ NativeDone(words[pos].word)
  /\ UNCHANGED <<vars, chase, recursive>>

\* Faulty variants: what follows RECURSE is not looked at, and the Recursive
\* flag is not set.
TailRecursionAlways(ws, i) == ws[i].word = "_RECURSE"
NeedsCStackNever(w) == FALSE

\* RECURSE followed by RETURN becomes a BRANCH.
TailRecursion(ws, i) ==
  ws[i].word = "_RECURSE" /\ ReturnsImmediately(ws, i + 1)

\* The words that make the Recursive flag be set
NeedsCStack(w) == w = "_RECURSE"

LayoutBranch ==
  /\ AtWord
  /\ ~Unreachable(pos)
  /\ words[pos].branchTo # 0
  /\ words' = IF TailRecursion(words, pos)
                THEN [words EXCEPT ![pos].word = "_BRANCH"] ELSE words
  /\ recursive' = (recursive \/ NeedsCStack(words'[pos].word))
  /\ chase' = words[pos].branchTo
  /\ UNCHANGED <<controlStack, setup, phase, error, checkVars, instrs>>
  /\ UNCHANGED <<pos, pc, afterBranch, interpCount, firstInterp, erased,
                 pcOf, interpWord>>

\* Faulty variant: the branch being laid out instead of the one reached
NextInChainSame(dst) == words[pos].branchTo

NextInChain(dst) == words[dst].branchTo

FollowChain ==
  /\ phase = "layout" /\ chase # 0
  /\ words[chase].word = "_BRANCH"
  /\ chase' = NextInChain(chase)
  /\ UNCHANGED <<vars, instrs, pos, pc, afterBranch, interpCount, firstInterp,
                 erased, pcOf, interpWord, recursive>>

EndOfChain ==
  /\ phase = "layout" /\ chase # 0
  /\ words[chase].word # "_BRANCH"
  /\ words' = [words EXCEPT ![pos].branchTo = chase]
  /\ chase' = 0
  /\ NativeDone(words[pos].word)
  /\ UNCHANGED <<controlStack, setup, phase, error, checkVars, recursive>>

\* Faulty variants: a fifth call joins, and so does a branch destination.
StartsGroupLate(i) ==
  interpCount = 0 \/ interpCount > kMaxInterp \/ words[i].isDst
StartsGroupAnywhere(i) == interpCount = 0 \/ interpCount >= kMaxInterp

\* A call starts a group of its own, or joins the one before it.
StartsGroup(i) ==
  interpCount = 0 \/ interpCount >= kMaxInterp \/ words[i].isDst

LayoutInterp ==
  /\ AtWord
  /\ ~Unreachable(pos)
  /\ ~IsNative(words[pos].word)
  /\ LET starts == StartsGroup(pos)
         first == IF starts THEN pos ELSE firstInterp
         count == IF starts THEN 1 ELSE interpCount + 1
     IN  /\ firstInterp' = first
         /\ interpCount' = count
         /\ pc' = pc + IF starts THEN 2 ELSE 1
         /\ interpWord' = Updated(interpWord, first,
                            [tail |-> ReturnsImmediately(words, pos + 1),
                             count |-> count])
  /\ pcOf' = Updated(pcOf, pos, pc)
  /\ afterBranch' = FALSE
  /\ pos' = pos + 1
  /\ UNCHANGED <<vars, instrs, chase, erased, recursive>>

-----------------------------------------------------------------------------
(* Emission *)

\* Branches keep an iterator; the word it points to may have been erased.
Dangling(i) == words[i].branchTo \in erased

\* Faulty variant: the offset counted from the parameter, not from behind it
OffsetTooFar(i, wild) ==
  IF Dangling(i) THEN wild ELSE pcOf[words[i].branchTo] - pcOf[i] - 1

Offset(i, wild) ==
  IF Dangling(i) THEN wild ELSE pcOf[words[i].branchTo] - pcOf[i] - 2

\* The parameter of the native word at i.  A RECURSE copied by inlining has
\* no target, and keeps whatever parameter it was copied with.
ParameterCell(i, wild) ==
  IF words[i].word = "_LITERAL" THEN LiteralCell(words[i].lit)
  ELSE OffsetCell(IF words[i].branchTo = 0 THEN wild ELSE Offset(i, wild))

\* The instructions for the word at i
Cells(i, wild) ==
  LET w == words[i].word
  IN  IF i \in erased THEN <<>>
      ELSE IF IsNative(w)
        THEN IF Parameters(w) = 0 THEN <<OpCell(w)>>
             ELSE <<OpCell(w), ParameterCell(i, wild)>>
      ELSE IF i \in DOMAIN interpWord
        THEN <<InterpCell(interpWord[i].count, interpWord[i].tail), WordCell(w)>>
        ELSE <<WordCell(w)>>

StartEmission ==
  /\ phase = "layout" /\ chase = 0 /\ pos = Len(words) + 1
  /\ phase' = "emitting"
  /\ pos' = 1
  /\ UNCHANGED <<words, controlStack, setup, error, checkVars, instrs>>
  /\ UNCHANGED <<pc, afterBranch, interpCount, firstInterp, chase, erased,
                 pcOf, interpWord, recursive>>

EmitWord ==
  /\ phase = "emitting" /\ pos <= Len(words)
  /\ \E wild \in WildOffsets : instrs' = instrs \o Cells(pos, wild)
  /\ pos' = pos + 1
  /\ UNCHANGED <<vars, pc, afterBranch, interpCount, firstInterp, chase, erased,
                 pcOf, interpWord, recursive>>

EndEmission ==
  /\ phase = "emitting" /\ pos = Len(words) + 1
  /\ phase' = "compiled"
  /\ UNCHANGED <<words, controlStack, setup, error, checkVars, layoutVars, instrs>>

GenStep ==
  \/ StartLayout
  \/ EraseUnreachable
  \/ LayoutNative
  \/ LayoutBranch \/ FollowChain \/ EndOfChain
  \/ LayoutInterp
  \/ StartEmission \/ EmitWord \/ EndEmission

GenNext == (Next /\ UNCHANGED <<layoutVars, instrs>>) \/ GenStep

\* The compiler runs to its end; only parsing waits for the source text.
GenSpec ==
  GenInit /\ [][GenNext]_genVars
    /\ WF_genVars(GenStep \/ (CheckStep /\ UNCHANGED <<layoutVars, instrs>>))

-----------------------------------------------------------------------------
(* Properties *)

LayoutTypeOK ==
  /\ phase \in {"parsing", "checking", "checked", "layout", "emitting",
                "compiled", "error"}
  /\ pos \in 0..(MaxWords + 1)
  /\ pc \in Nat
  /\ interpCount \in 0..kMaxInterp
  /\ firstInterp \in 0..MaxWords
  /\ chase \in 0..MaxWords
  /\ erased \subseteq DOMAIN words
  /\ DOMAIN pcOf \subseteq DOMAIN words
  /\ DOMAIN interpWord \subseteq DOMAIN pcOf
  /\ {afterBranch, recursive} \subseteq BOOLEAN

\* The words that end up in the code
Live == DOMAIN words \ erased

(***************************************************************************)
(* The optimized list is still a program the stack checker approves: from  *)
(* a word that stays and was visited, control goes to words that stay and  *)
(* were visited, and every branch, whether redirected to the end of a      *)
(* chain or made from a tail RECURSE, leads to a word whose memoized stack *)
(* covers the stack it is reached with.  (Whether RETURN stays is the      *)
(* subject of EndsWithReturn.)                                             *)
(***************************************************************************)
OptimizedFlowCovered ==
  phase = "compiled" /\ ~canAddInputs =>
    /\ 1 \in Live
    /\ \A i \in Live \cap DOMAIN known : \A j \in Successors(i) :
         /\ j \in Live \cup {Len(words)}
         /\ j \in DOMAIN known
         /\ Covers(known[j], Outcome(i, known[i]))

\* Where the instruction for the word at i begins, as an index of instrs
StartOf(i) == pcOf[i] + 1

\* The cell that holds the word at i itself
CellOf(i) == IF i \in DOMAIN interpWord THEN StartOf(i) + 1 ELSE StartOf(i)

\* The calls in the group whose header is at h
Group(h) == (h + 1)..(h + instrs[h].count)

(***************************************************************************)
(* The code says what the optimized list says, and the count of cells is   *)
(* the one the layout predicted (assert(instrs.size() == pc)).  Every live *)
(* word is where its pc says; an offset leads to the start of an           *)
(* instruction, the one for the branch's target; a call lies in exactly    *)
(* one group of at most four, which holds nothing else and jumps to its    *)
(* last call only if a RETURN would follow.                                *)
(***************************************************************************)
CodeMatchesList ==
  phase = "compiled" =>
    /\ Len(instrs) = pc
    /\ \A i \in Live :
         LET w == words[i].word
             k == CellOf(i)
         IN  /\ IsNative(w) =>
                  /\ instrs[k] = OpCell(w)
                  /\ words[i].branchTo # 0 /\ ~Dangling(i) =>
                       k + 2 + instrs[k + 1].offset = StartOf(words[i].branchTo)
             /\ ~IsNative(w) =>
                  /\ instrs[k] = WordCell(w)
                  /\ \E h \in 1..(k - 1) :
                       /\ instrs[h].kind = "interp" /\ k \in Group(h)
                       /\ instrs[h].count <= kMaxInterp
                       /\ \A c \in Group(h) : instrs[c].kind = "word"
                       /\ k = h + instrs[h].count =>
                            instrs[h].tail = ReturnsImmediately(words, i + 1)
             /\ words[i].branchTo # 0 /\ ~Dangling(i) =>
                  instrs[StartOf(words[i].branchTo)].kind \in {"op", "interp"}

\* Every interpreted word ends with RETURN (core_words.cc).
EndsWithReturn ==
  phase = "compiled" => Last(instrs) = OpCell("_RETURN")

(***************************************************************************)
(* The layout comes to an end, although following a chain of branches is a *)
(* loop of its own, for every word that does not start with RECURSE.       *)
(***************************************************************************)
LayoutTerminates ==
  phase = "checked" /\ words[1].word # "_RECURSE" ~> phase = "compiled"
=============================================================================

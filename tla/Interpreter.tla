---------------------------- MODULE Interpreter -----------------------------
(***************************************************************************)
(* The interpreter: the native words (core/core_words.cc), which run the   *)
(* code the compiler made.  Compiling and running a word is what run()     *)
(* does in repl.cc and test.cc: the data stack holds the word's inputs and *)
(* is made larger by exactly the max of its effect; nothing checks the     *)
(* stack at run time.                                                      *)
(*                                                                         *)
(* `call` is the C stack: a frame is where the caller goes on.  Values     *)
(* are abstracted to their type, a quotation to the literal it comes from; *)
(* what depends on more than that is a choice.                             *)
(***************************************************************************)
EXTENDS CodeGen

CONSTANTS
  WordCode,    \* the code of the interpreted words and of the quotations
  MaxFrames    \* bound: the deepest C stack explored

Quotes == DOMAIN QuoteEffect

ASSUME InterpreterAssumption ==
  /\ DOMAIN WordCode = Interpreted \cup Quotes
  /\ Interpreted \cap Quotes = {}
  /\ "main" \notin Interpreted \cup Quotes
  /\ Quotes \cap Types = {}
  /\ MaxFrames \in Nat

VARIABLES
  status,    \* "idle", "running", "returned", or what went wrong
  mem,       \* the data stack's memory, bottom first, as far as written
  sp,        \* how many values are on the stack
  at,        \* pc: the word being run and the index of its next cell
  group,     \* the calls left of the INTERP word being run, and its kind
  frames     \* the C stack

machineVars == <<status, mem, sp, at, group, frames>>
allVars == <<genVars, machineVars>>

-----------------------------------------------------------------------------
(* Values *)

Values == {"Null", "Number", "String", "Array"} \cup Quotes

TypeOf(v) == IF v \in Quotes THEN "Quote" ELSE v

LiteralValue(v) == IF v \in Quotes THEN v ELSE LiteralType[v]

\* operator bool: a number may be zero.
Truths(v) == CASE v = "Number" -> BOOLEAN [] v = "Null" -> {FALSE}
               [] OTHER -> {TRUE}

\* - * / %: NaN, and a modulus of zero, become null.
Arithmetic(a, b) ==
  IF a = "Number" /\ b = "Number" THEN {"Number", "Null"} ELSE {"Null"}

\* operator+
Sums(a, b) ==
  IF "Number" \in {a, b} THEN Arithmetic(a, b)
  ELSE IF a = "String" /\ b = "String" THEN {"String"}
  ELSE IF a = "Array" THEN {"Array"}
  ELSE {"Null"}

\* length()
Lengths(a) == IF a \in {"String", "Array"} THEN {"Number"} ELSE {"Null"}

-----------------------------------------------------------------------------
(* The native words that only work on the stack *)

BinaryWords == {"MINUS", "MULT", "DIV", "MOD"}
RelationWords == {"EQ", "NE", "GT", "GE", "LT", "LE"}
ZeroRelationWords == {"EQ_ZERO", "NE_ZERO", "GT_ZERO", "LT_ZERO"}

StackWords ==
  {"NOP", "DUP", "DROP", "SWAP", "OVER", "ROT", "ZERO", "ONE", "NULL_",
   "PLUS", "LENGTH"} \cup BinaryWords \cup RelationWords \cup ZeroRelationWords

\* How many items the word replaces
Arity(w) ==
  CASE w \in {"NOP", "ZERO", "ONE", "NULL_"} -> 0
    [] w \in {"DUP", "DROP", "LENGTH"} \cup ZeroRelationWords -> 1
    [] w = "ROT" -> 3
    [] OTHER -> 2

\* What it may replace them by, bottom first; a[1] is the lowest of them.
Results(w, a) ==
  CASE w \in {"NOP", "DROP"}      -> {<<>>}
    [] w = "DUP"                  -> {<<a[1], a[1]>>}
    [] w = "SWAP"                 -> {<<a[2], a[1]>>}
    [] w = "OVER"                 -> {<<a[1], a[2], a[1]>>}
    [] w = "ROT"                  -> {<<a[2], a[3], a[1]>>}
    [] w \in {"ZERO", "ONE"}      -> {<<"Number">>}
    [] w = "NULL_"                -> {<<"Null">>}
    [] w = "PLUS"                 -> {<<v>> : v \in Sums(a[1], a[2])}
    [] w \in BinaryWords          -> {<<v>> : v \in Arithmetic(a[1], a[2])}
    [] w = "LENGTH"               -> {<<v>> : v \in Lengths(a[1])}
    [] OTHER                      -> {<<"Number">>}

-----------------------------------------------------------------------------
(* The state of a run *)

NoGroup == [left |-> 0, tail |-> FALSE]

\* stack.resize(depth + word.stackEffect().max())
Capacity == Len(effect.ins) + effect.max

CodeOf(w) == IF w = "main" THEN instrs ELSE WordCode[w]

\* There is an instruction at pc; a wild branch may lead elsewhere.
Fetchable ==
  /\ at.cell \in DOMAIN CodeOf(at.word)
  /\ CodeOf(at.word)[at.cell].kind \in {"op", "interp"}

Cell == CodeOf(at.word)[at.cell]
Param == CodeOf(at.word)[at.cell + 1]

Running == status = "running"

\* The native word op is the next to run.
Fetch(op) ==
  /\ Running /\ group.left = 0
  /\ Fetchable
  /\ Cell.kind = "op"
  /\ Cell.op = op

Skip(n) == at' = [at EXCEPT !.cell = @ + n]

\* The target of the branch at pc
BranchTarget == [at EXCEPT !.cell = @ + 2 + Param.offset]

\* The values written from index lo upwards
Written(m, lo, vs) ==
  [k \in 1..(IF Len(m) >= lo + Len(vs) - 1 THEN Len(m) ELSE lo + Len(vs) - 1) |->
     IF k \in lo..(lo + Len(vs) - 1) THEN vs[k - lo + 1] ELSE m[k]]

\* Replaces the n topmost values by vs, or leaves the bounds of the stack.
Replace(n, vs) ==
  /\ status' = IF sp < n THEN "underflow"
               ELSE IF sp - n + Len(vs) > Capacity THEN "overflow"
               ELSE "running"
  /\ sp' = IF status' = "running" THEN sp - n + Len(vs) ELSE sp
  /\ mem' = IF status' = "running" THEN Written(mem, sp - n + 1, vs) ELSE mem

-----------------------------------------------------------------------------
(* Running *)

MachineInit ==
  /\ GenInit
  /\ status = "idle"
  /\ mem = <<>> /\ sp = 0
  /\ at = [word |-> "main", cell |-> 1]
  /\ group = NoGroup
  /\ frames = <<>>

\* run(): the inputs are on the stack, and have the types declared.
StartRun ==
  /\ phase = "compiled" /\ status = "idle"
  /\ status' = "running"
  /\ \E inputs \in [DOMAIN effect.ins -> Values] :
       /\ \A k \in DOMAIN inputs : TypeOf(inputs[k]) \in effect.ins[k]
       /\ mem' = inputs
       /\ sp' = Len(inputs)
  /\ UNCHANGED <<genVars, at, group, frames>>

\* pc leads to something that is no instruction.
RunWild ==
  /\ Running /\ group.left = 0
  /\ ~Fetchable
  /\ status' = "wild"
  /\ UNCHANGED <<genVars, mem, sp, at, group, frames>>

RunStackWord ==
  \E w \in StackWords :
    /\ Fetch(w)
    /\ IF sp < Arity(w)
         THEN Replace(Arity(w), <<>>)
         ELSE \E vs \in Results(w, SubSeq(mem, sp - Arity(w) + 1, sp)) :
                Replace(Arity(w), vs)
    /\ Skip(1)
    /\ UNCHANGED <<genVars, group, frames>>

RunLiteral ==
  /\ Fetch("_LITERAL")
  /\ Replace(0, <<LiteralValue(Param.literal)>>)
  /\ Skip(2)
  /\ UNCHANGED <<genVars, group, frames>>

RunBranch ==
  /\ Fetch("_BRANCH")
  /\ at' = BranchTarget
  /\ UNCHANGED <<genVars, status, mem, sp, group, frames>>

RunZBranch ==
  /\ Fetch("_ZBRANCH")
  /\ Replace(1, <<>>)
  /\ IF sp = 0 THEN Skip(2)
     ELSE \E truth \in Truths(mem[sp]) :
            IF truth THEN Skip(2) ELSE at' = BranchTarget
  /\ UNCHANGED <<genVars, group, frames>>

\* Where the caller goes on; `sp` is what its own sp is, if not the result.
Frame(where, g, savedSp) == [at |-> where, group |-> g, sp |-> savedSp]
ResultSp == -1

PushFrame(frame) ==
  /\ Len(frames) < MaxFrames
  /\ frames' = Append(frames, frame)

\* RECURSE ignores the sp that its call returns.
RecurseFrame(where) == Frame(where, NoGroup, sp)

RunRecurse ==
  /\ Fetch("_RECURSE")
  /\ PushFrame(RecurseFrame([at EXCEPT !.cell = @ + 2]))
  /\ at' = BranchTarget
  /\ UNCHANGED <<genVars, status, mem, sp, group>>

\* The words of the INTERP family: the calls follow one by one.
RunInterp ==
  /\ Running /\ group.left = 0
  /\ Fetchable
  /\ Cell.kind = "interp"
  /\ group' = [left |-> Cell.count, tail |-> Cell.tail]
  /\ Skip(1)
  /\ UNCHANGED <<genVars, status, mem, sp, frames>>

CallInGroup ==
  /\ Running /\ group.left > 0
  /\ IF group.tail /\ group.left = 1
       THEN UNCHANGED frames
       ELSE PushFrame(Frame([at EXCEPT !.cell = @ + 1],
                            [group EXCEPT !.left = @ - 1], ResultSp))
  /\ at' = [word |-> Cell.word, cell |-> 1]
  /\ group' = NoGroup
  /\ UNCHANGED <<genVars, status, mem, sp>>

\* The quotation asQuote() finds; the stack checker promises there is one.
RunIfElse ==
  /\ Fetch("IFELSE")
  /\ IF sp < 3 \/ {mem[sp - 1], mem[sp]} \subseteq Quotes
       THEN /\ Replace(3, <<>>)
            /\ IF sp < 3 THEN UNCHANGED <<at, frames>>
               ELSE /\ PushFrame(Frame([at EXCEPT !.cell = @ + 1],
                                       NoGroup, ResultSp))
                    /\ \E truth \in Truths(mem[sp - 2]) :
                         at' = [word |-> IF truth THEN mem[sp - 1] ELSE mem[sp],
                                cell |-> 1]
       ELSE /\ status' = "not a quotation"
            /\ UNCHANGED <<mem, sp, at, frames>>
  /\ UNCHANGED <<genVars, group>>

RunReturn ==
  /\ Fetch("_RETURN")
  /\ IF frames = <<>>
       THEN /\ status' = "returned"
            /\ UNCHANGED <<sp, at, group, frames>>
       ELSE LET frame == frames[Len(frames)]
            IN  /\ at' = frame.at
                /\ group' = frame.group
                /\ sp' = IF frame.sp = ResultSp THEN sp ELSE frame.sp
                /\ frames' = SubSeq(frames, 1, Len(frames) - 1)
                /\ UNCHANGED status
  /\ UNCHANGED <<genVars, mem>>

MachineStep ==
  \/ StartRun \/ RunWild
  \/ RunStackWord \/ RunLiteral
  \/ RunBranch \/ RunZBranch
  \/ RunRecurse \/ RunInterp \/ CallInGroup \/ RunIfElse \/ RunReturn

MachineNext == (GenNext /\ UNCHANGED machineVars) \/ MachineStep

MachineSpec == MachineInit /\ [][MachineNext]_allVars

-----------------------------------------------------------------------------
(* Properties *)

MachineTypeOK ==
  /\ status \in {"idle", "running", "returned", "underflow", "overflow",
                 "wild", "not a quotation"}
  /\ mem \in Seq(Values)
  /\ sp \in 0..Len(mem)
  /\ group.left \in 0..kMaxInterp
  /\ Len(frames) <= MaxFrames

\* The word ends with the RETURN it should (EndsWithReturn).
Complete == instrs # <<>> /\ instrs[Len(instrs)] = OpCell("_RETURN")

(***************************************************************************)
(* No word the checker accepted leaves the stack it was given, runs into   *)
(* something that is no instruction, or finds IFELSE without quotations.   *)
(***************************************************************************)
RunsSafely ==
  Complete => status \in {"idle", "running", "returned"}

\* A word that ran to its RETURN had the effect on the depth it declares.
EffectKept ==
  Complete /\ status = "returned" => sp = Len(effect.outs)

\* The positions of the list whose instruction is next, in the outermost
\* activation of the word compiled
AtPosition(i) ==
  /\ Running /\ frames = <<>> /\ group.left = 0
  /\ at.word = "main"
  /\ i \in Live
  /\ at.cell = StartOf(i)

\* The value v is one that item describes; arithmetic may make null of NaN.
Describes(item, v) ==
  /\ TypeOf(v) \in item.types \cup {"Null"}
  /\ item.lit \in Quotes => v = item.lit

(***************************************************************************)
(* The stack at run time is the one the checker memoized: as deep, its     *)
(* values of the types expected, and a quotation known to be a literal is  *)
(* that literal -- on every path, after every call, and after the          *)
(* optimizations.                                                          *)
(***************************************************************************)
StackAsChecked ==
  Complete /\ ~canAddInputs =>
    \A i \in DOMAIN words : AtPosition(i) =>
      /\ i \in DOMAIN known
      /\ sp = Len(known[i])
      /\ \A k \in 1..sp : Describes(known[i][k], mem[k])

(***************************************************************************)
(* A word that is not flagged Recursive needs no C stack to recurse: tail  *)
(* recursion is a loop, and only the word it calls last has a frame below. *)
(***************************************************************************)
TailRecursionIsLoop == ~recursive => Len(frames) <= 1
=============================================================================

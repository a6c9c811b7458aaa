-------------------------------- MODULE Repl --------------------------------
(***************************************************************************)
(* A session at the prompt (repl.cc): lines are read into code whose       *)
(* literals are objects (compiler/parser.cc, with a nested Compiler for    *)
(* every quotation), run on a stack that lives on from line to line, and   *)
(* followed by a garbage collection (module Heap); DEFINE keeps code in a  *)
(* vocabulary (compiler/vocabulary.cc).                                    *)
(*                                                                         *)
(* Of the code only the literals are kept, and a run may execute any of    *)
(* the words whose operands are on the stack, in any order: which one      *)
(* comes next, and that its operands are there, is what modules StackCheck *)
(* and Interpreter are about.                                              *)
(***************************************************************************)
EXTENDS Heap

CONSTANTS
  Names,              \* names DEFINE may be given
  CoreNames,          \* those among them the core vocabulary has as well
  Doubles,            \* tag bits of the numbers that occur
  Nulls,              \* whether words yield null, as NULL or as a NaN
  WordsHoldObjects,   \* whether a word with objects in its code is DEFINEd
  MaxStack,           \* bound: values on the stack
  MaxLiterals,        \* bound: literals of a word, items of an array literal
  MaxItems,           \* bound: items of any array
  MaxNesting          \* bound: the line, and quotations and arrays in it

ASSUME ReplAssumption ==
  /\ CoreNames \subseteq Names
  /\ Doubles \subseteq 0..3
  /\ {Nulls, WordsHoldObjects} \subseteq BOOLEAN
  /\ {MaxStack, MaxLiterals, MaxItems, MaxNesting} \subseteq Nat

VARIABLES
  phase,      \* where main() is
  stack,      \* its stack, bottom first
  frames,     \* the calls of parse() and parseArray() that are active, or
              \* the code that runs
  defined,    \* the names in the default vocabulary
  code        \* the literals of the words they name

promptVars == <<phase, stack, frames, defined, code>>
vars == <<heapVars, promptVars>>

Phases == {"prompt", "parse", "run", "collect", "exit", "terminated", "crashed"}

Frame == [kind     : {"line", "quote", "array"},
          array    : Obj \cup {NoObj},
          literals : Seq(Value)]

Call(k, p) == [kind |-> k, array |-> p, literals |-> <<>>]

Top == frames[Len(frames)]
Callers == SubSeq(frames, 1, Len(frames) - 1)

Init ==
  /\ HeapInit
  /\ phase = "prompt"
  /\ stack = <<>>
  /\ frames = <<>>
  /\ defined = {}
  /\ code = [n \in Names |-> <<>>]

-----------------------------------------------------------------------------
(* The prompt *)

\* Control-D.
EndOfInput ==
  /\ phase = "prompt"
  /\ phase' = "exit"
  /\ UNCHANGED <<heapVars, stack, frames, defined, code>>

\* An empty line.  What was on the stack waits for the next collection.
ClearStack ==
  /\ phase = "prompt"
  /\ stack # <<>>
  /\ stack' = <<>>
  /\ UNCHANGED <<heapVars, phase, frames, defined, code>>

\* eval(): a Compiler that knows the types on the stack.
ReadLine ==
  /\ phase = "prompt"
  /\ phase' = "parse"
  /\ frames' = <<Call("line", NoObj)>>
  /\ UNCHANGED <<heapVars, stack, defined, code>>

-----------------------------------------------------------------------------
(* Parsing *)

\* Room for another literal or item, and for another call
HasRoom(f) ==
  Len(IF f.kind = "array" THEN holds[f.array] ELSE f.literals) < MaxLiterals

\* add({_LITERAL, v}), or push_back(v) in parseArray(): in the innermost of
\* the calls fs, when the objects hold h.
AddValue(v, fs, h) ==
  LET f == fs[Len(fs)]
  IN  IF f.kind = "array"
      THEN /\ holds' = [h EXCEPT ![f.array] = Append(@, v)]
           /\ frames' = fs
      ELSE /\ holds' = h
           /\ frames' = [fs EXCEPT ![Len(fs)].literals = Append(@, v)]

SameObjects ==
  UNCHANGED <<allocated, objType, sInstanceCount, older, links, marked,
              gcState, agenda, locals>>

\* A number, or a string of at most six bytes.
SimpleLiteral ==
  /\ phase = "parse"
  /\ HasRoom(Top)
  /\ \E v \in {Double(0, t) : t \in Doubles} \cup {InlineString} :
       AddValue(v, frames, holds)
  /\ SameObjects
  /\ UNCHANGED <<phase, stack, defined, code>>

StringLiteral ==
  /\ phase = "parse"
  /\ HasRoom(Top)
  /\ \E p \in Obj :
       /\ NewObject(p, "String")
       /\ AddValue(StringValue(p), frames, [holds EXCEPT ![p] = <<>>])
  /\ UNCHANGED <<phase, stack, defined, code>>

\* parseArray() creates the array before it reads its items.
OpenArray ==
  /\ phase = "parse"
  /\ HasRoom(Top)
  /\ Len(frames) < MaxNesting
  /\ \E p \in Obj :
       /\ NewObject(p, "Array")
       /\ holds' = [holds EXCEPT ![p] = <<>>]
       /\ frames' = Append(frames, Call("array", p))
  /\ UNCHANGED <<phase, stack, defined, code>>

CloseArray ==
  /\ phase = "parse"
  /\ Top.kind = "array"
  /\ AddValue(ArrayValue(Top.array), Callers, holds)
  /\ SameObjects
  /\ UNCHANGED <<phase, stack, defined, code>>

\* parseQuote(): a Compiler of its own.  Arrays cannot contain quotations.
OpenQuote ==
  /\ phase = "parse"
  /\ HasRoom(Top)
  /\ Top.kind # "array"
  /\ Len(frames) < MaxNesting
  /\ frames' = Append(frames, Call("quote", NoObj))
  /\ UNCHANGED <<heapVars, phase, stack, defined, code>>

\* The closing brace: the nested Compiler becomes the word of a new Quote.
CloseQuote ==
  /\ phase = "parse"
  /\ Top.kind = "quote"
  /\ \E p \in Obj :
       /\ NewObject(p, "Quote")
       /\ AddValue(QuoteValue(p), Callers,
                   [holds EXCEPT ![p] = Top.literals])
  /\ UNCHANGED <<phase, stack, defined, code>>

\* A compile_error, thrown at any token or by the checks at the end of a
\* quotation or of the line.  main() catches it and collects nothing.
CompileError ==
  /\ phase = "parse"
  /\ phase' = "prompt"
  /\ frames' = <<>>
  /\ UNCHANGED <<heapVars, stack, defined, code>>

\* A runtime_error: the values on the stack and those the line leaves are
\* more entries than an effect has room for, in setInputStack() or in the
\* checker, or a declared effect does not parse.  main() does not catch it.
Uncaught ==
  /\ phase = "parse"
  /\ phase' = "terminated"
  /\ frames' = <<>>
  /\ UNCHANGED <<heapVars, stack, defined, code>>

-----------------------------------------------------------------------------
(* Running *)

\* The end of the line, outside quotations and arrays: run() begins.
BeginRun ==
  /\ phase = "parse"
  /\ Len(frames) = 1
  /\ phase' = "run"
  /\ UNCHANGED <<heapVars, stack, frames, defined, code>>

\* VocabularyStack::lookup() tries the core vocabulary first.
Callable(n) == n \in defined /\ n \notin CoreNames

\* LITERAL, in the line, in a word it calls, or in a quotation IFELSE calls.
\* A word this line has defined is among them, though only a later line can
\* call it.
RunLiterals ==
  Range(frames[1].literals)
    \cup (UNION {Range(code[n]) : n \in {m \in Names : Callable(m)}})
    \cup (UNION {Range(holds[asPointer(v)]) :
                   v \in {w \in Range(stack) : isQuote(w)}})

RunLiteral ==
  /\ phase = "run"
  /\ Len(stack) < MaxStack
  /\ \E v \in RunLiterals : stack' = Append(stack, v)
  /\ UNCHANGED <<heapVars, phase, frames, defined, code>>

Peek(i) == stack[Len(stack) - i]
Pop(n) == SubSeq(stack, 1, Len(stack) - n)

\* DUP
RunDup ==
  /\ phase = "run"
  /\ Len(stack) \in 1..(MaxStack - 1)
  /\ stack' = Append(stack, Peek(0))
  /\ UNCHANGED <<heapVars, phase, frames, defined, code>>

RunDrop ==
  /\ phase = "run"
  /\ stack # <<>>
  /\ stack' = Pop(1)
  /\ UNCHANGED <<heapVars, phase, frames, defined, code>>

RunSwap ==
  /\ phase = "run"
  /\ Len(stack) >= 2
  /\ stack' = Pop(2) \o <<Peek(0), Peek(1)>>
  /\ UNCHANGED <<heapVars, phase, frames, defined, code>>

Addable(v) == type(v) \in {"Number", "String", "Array"}

\* NULL
RunNull ==
  /\ phase = "run"
  /\ Nulls
  /\ Len(stack) < MaxStack
  /\ stack' = Append(stack, NullValue)
  /\ UNCHANGED <<heapVars, phase, frames, defined, code>>

\* Operators on numbers.  Where the result is a NaN the constructor of Value
\* makes it null, and operator+ on values that do not go together is null.
RunArithmetic ==
  /\ phase = "run"
  /\ Len(stack) >= 2
  /\ Addable(Peek(0)) /\ Addable(Peek(1))
  /\ \/ /\ isDouble(Peek(0)) /\ isDouble(Peek(1))
        /\ \E t \in Doubles : stack' = Append(Pop(2), Double(0, t))
     \/ /\ Nulls
        /\ \/ isDouble(Peek(0))
           \/ isDouble(Peek(1))
           \/ isString(Peek(1)) /\ isArray(Peek(0))
        /\ stack' = Append(Pop(2), NullValue)
  /\ UNCHANGED <<heapVars, phase, frames, defined, code>>

\* operator+ on strings: one of them if the other is empty, else a new one,
\* which is inline if they are short; an empty or a short one is inline.
RunConcat ==
  /\ phase = "run"
  /\ Len(stack) >= 2
  /\ isString(Peek(0)) /\ isString(Peek(1))
  /\ \/ /\ \E i \in 0..1 : isInline(Peek(i)) /\ stack' = Append(Pop(2), Peek(1 - i))
        /\ UNCHANGED heapVars
     \/ \E p \in Obj :
          /\ NewObject(p, "String")
          /\ holds' = [holds EXCEPT ![p] = <<>>]
          /\ stack' = Append(Pop(2), StringValue(p))
  /\ UNCHANGED <<phase, frames, defined, code>>

\* operator+ on an array: a copy with one more item.
RunAddItem ==
  /\ phase = "run"
  /\ Len(stack) >= 2
  /\ isArray(Peek(1)) /\ Addable(Peek(0)) /\ ~isDouble(Peek(0))
  /\ Len(holds[asPointer(Peek(1))]) < MaxItems
  /\ \E p \in Obj :
       /\ NewObject(p, "Array")
       /\ holds' = [holds EXCEPT ![p] = Append(holds[asPointer(Peek(1))], Peek(0))]
       /\ stack' = Append(Pop(2), ArrayValue(p))
  /\ UNCHANGED <<phase, frames, defined, code>>

\* DEFINE: the new CompiledWord copies the quotation's code and adds itself
\* to the current vocabulary, the default one, under the name unless that is
\* empty; insert() does nothing if the vocabulary has the name.
RunDefine ==
  /\ phase = "run"
  /\ Len(stack) >= 2
  /\ isString(Peek(0)) /\ isQuote(Peek(1))
  /\ LET literals == holds[asPointer(Peek(1))]
     IN  /\ WordsHoldObjects \/ Targets(Range(literals)) = {}
         /\ \/ UNCHANGED <<defined, code>>
            \/ \E n \in Names \ defined :
                 /\ defined' = defined \cup {n}
                 /\ code' = [code EXCEPT ![n] = literals]
  /\ stack' = Pop(2)
  /\ UNCHANGED <<heapVars, phase, frames>>

-----------------------------------------------------------------------------
(* After the run *)

(***************************************************************************)
(* The active vocabularies are 1, the core one, and 2, the default one.    *)
(* begin() and end() of VocabularyStack both give an iterator whose _iVoc  *)
(* is active.begin(), and != compares _iVoc only.                          *)
(***************************************************************************)
BeginVocabulary == 1
EndVocabulary == 1

\* The literals in the words gcScan() visits; the core words have no objects
\* in theirs.
ScannedLiterals ==
  IF 2 \in BeginVocabulary..(EndVocabulary - 1)
  THEN UNION {Range(code[n]) : n \in defined} ELSE {}

\* An unordered_map is visited in any order.
Orders(S) == {s \in [1..Cardinality(S) -> S] : Range(s) = S}

\* Faulty variant: the top of the stack is not scanned.
ScannedStackBelowTop == Pop(1)

\* scanStack(), from the bottom to the top inclusive
ScannedStack == stack

\* RETURN from the line's word, which is destroyed; then garbageCollect().
EndRun ==
  /\ phase = "run"
  /\ phase' = "collect"
  /\ frames' = <<>>
  /\ \E literals \in Orders(ScannedLiterals) : BeginMark(literals \o ScannedStack)
  /\ UNCHANGED <<stack, defined, code>>

Collect ==
  /\ phase = "collect"
  /\ CollectStep
  /\ phase' = CASE gcState' = "idle"  -> "prompt"
                [] gcState' = "fault" -> "crashed"
                [] OTHER              -> "collect"
  /\ UNCHANGED <<stack, frames, defined, code>>

Prompt == EndOfInput \/ ClearStack \/ ReadLine

Parse == \/ SimpleLiteral \/ StringLiteral \/ OpenArray \/ CloseArray
         \/ OpenQuote \/ CloseQuote \/ CompileError \/ Uncaught \/ BeginRun

Run == \/ RunLiteral \/ RunDup \/ RunDrop \/ RunSwap \/ RunNull
       \/ RunArithmetic \/ RunConcat \/ RunAddItem \/ RunDefine \/ EndRun

Next == Prompt \/ Parse \/ Run \/ Collect

Spec == Init /\ [][Next]_vars

-----------------------------------------------------------------------------
(* Properties *)

SessionTypeOK ==
  /\ allocated \subseteq Obj
  /\ objType \in [Obj -> ObjTypes]
  /\ marked \in [Obj -> BOOLEAN]
  /\ next \in [Obj -> Obj \cup {NoObj}]
  /\ holds \in [Obj -> Seq(Value)]
  /\ {sFirst, o, prev} \subseteq Obj \cup {NoObj}
  /\ {sInstanceCount, kept, freed} \subseteq Nat
  /\ gcState \in GCStates
  /\ fixLink \in BOOLEAN
  /\ older \subseteq Obj \X Obj
  /\ {agenda, stack} \subseteq Seq(Value)
  /\ phase \in Phases
  /\ frames \in Seq(Frame)
  /\ defined \subseteq Names
  /\ code \in [Names -> Seq(Value)]

\* Everything the program may dereference: the stack, the literals of the
\* code being compiled or run, the array being read, the words it defined
HeldValues ==
  Range(stack)
    \cup (UNION {Range(frames[i].literals) : i \in DOMAIN frames})
    \cup {ArrayValue(frames[i].array) :
             i \in {j \in DOMAIN frames : frames[j].kind = "array"}}
    \cup (UNION {Range(code[n]) : n \in defined})

(***************************************************************************)
(* No value the program can get at, from line to line and through any      *)
(* number of objects, refers to memory that was freed or that has become   *)
(* an object of another type (gc.cc:60-90: a sweep frees whatever the      *)
(* scans of repl.cc:108-112 did not mark).                                 *)
(***************************************************************************)
NoDangling ==
  /\ \A v \in HeldValues : Sound(v)
  /\ \A p \in Reachable(HeldValues) : \A v \in Range(holds[p]) : Sound(v)

(***************************************************************************)
(* A collection is exact: when it ends, the objects that exist are those   *)
(* that can be reached from the stack and the words, however they were     *)
(* left behind - dropped, cleared, or made by a line that failed.          *)
(***************************************************************************)
SweepIsExact ==
  [][gcState = "sweep" /\ gcState' = "idle" =>
       allocated' = Reachable(HeldValues)']_vars

(***************************************************************************)
(* If the collector crashes then on a value that is no object: null, or a  *)
(* number whose bits look like the tag of an array or a quotation          *)
(* (value.cc:153-167), never on a freed object.                            *)
(***************************************************************************)
CrashesOnNonObject ==
  phase = "crashed" => asPointer(Head(agenda)) = NoObj

\* Objects that marking has not reached, and that sweeping has not
Unmarked == {p \in allocated : ~marked[p]}
Unswept == {p \in allocated : ~Passed(p)}

(***************************************************************************)
(* Every collection ends, whatever refers to what: a call of mark() either *)
(* marks one more object or leaves one call less to make, and an iteration *)
(* of sweep() leaves one object less ahead (gc.cc:72-87).                  *)
(***************************************************************************)
CollectorAdvances ==
  [][/\ gcState = "mark" /\ gcState' = "mark" =>
          \/ Unmarked' \subseteq Unmarked /\ Unmarked' # Unmarked
          \/ Unmarked' = Unmarked /\ Len(agenda') < Len(agenda)
     /\ gcState = "sweep" /\ gcState' = "sweep" =>
          Unswept' \subseteq Unswept /\ Unswept' # Unswept]_vars

\* The heap as the program sees it: a sweep that has begun has taken place.
AsMemory == INSTANCE Memory WITH
  heap <- Survivors,
  refs <- [p \in Obj |-> IF p \in Survivors THEN Targets(Range(holds[p])) ELSE {}],
  held <- Targets(HeldValues)

(***************************************************************************)
(* The collector, which marks and sweeps object by object, implements the  *)
(* heap that collects in one step.                                         *)
(***************************************************************************)
ImplementsMemory == AsMemory!Spec

=============================================================================

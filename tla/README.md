# A verification project for Tails

Tails is a small Forth-like language in C++: a compiler that turns source text
into threaded code, a compile-time stack checker that is meant to make run-time
checks unnecessary, and an interpreter whose instructions are tail-called native
functions. This directory holds TLA+ models of it, the TLC configurations that
check them on small instances, and TLAPS proofs of the central results.

All paths below are relative to the repository root; its program lives in `src/`.

## 1. The system

| Part | Where | State | Operations |
|---|---|---|---|
| Stack effects | `core/stack_effect.hh` | inputs, outputs (at most 8 together), max | construct, add entries at either end, `withMax` |
| Front end | `compiler/parser.cc`, `compiler.cc` | list `_words` with a NOP placeholder at its end, `_controlStack` | one handler per kind of token, `add`, `addInline`, `addRecurse`, `fixBranch`, `pushBranch`, `popBranch` |
| Stack checker | `compiler/compiler+stackcheck.hh` | memoized `knownStack` at each word, `_effect` with its two "can add" flags, its own C++ call stack | `computeEffect` and `EffectStack` |
| Code generation | `compiler/compiler.cc` | pcs, INTERP groups, the list being rewritten | `generateInstructions` |
| Core words, interpreter | `core/core_words.cc`, `core/instruction.hh` | data stack and `sp`, `pc`, the C stack | the native words, `call`, `NEXT` |
| Values | `values/value.*`, `nan_tagged.hh` | 64 bits: a double, or magic bits with a tag and a pointer or inline bytes | constructors, type tests, operators, `mark` |
| Garbage collector | `values/gc.*` | the list of all objects with their mark bits, `sInstanceCount` | `object::object`, `mark`, `scanStack`, `scanWord`, `gcScan`, `sweep` |
| Vocabularies | `compiler/vocabulary.*` | maps of names, the stack of active ones | `add`, `lookup`, iteration, `use`, `setCurrent`, `DEFINE` |
| Stack effect parser | `compiler/stack_effect_parser.hh` | the entry being read, the names of the inputs | text to effect, one character at a time |
| Disassembler | `compiler/disassembler.hh` | a pc | code to `WordRef`s |
| REPL | `repl.cc` | the stack between lines | `eval`, `run`, `garbageCollect`, end of input |
| Further words, I/O | `more_words.cc`, `io.hh` | none | printing |

How they interact: the REPL gives the types on its stack to a `Compiler`, which
parses a line (recursively, with a `Compiler` per quotation), looks words up in
the active vocabularies, checks, optimizes and emits; `run()` then makes the
stack larger by the effect's `max` and calls the code, which trusts the checker
completely; after each line the collector scans stack and vocabularies.

The system is single-threaded. What is hard is not concurrency but: memoized
state used before a later path changes it (the checker), passes that rewrite a
list other decisions have been made about (code generation), loops whose end
rests on a monotonicity nobody states, resource limits that are computed and
never checked, arithmetic on pcs, objects that are reachable only from a place
the collector does not scan, and a sweep that relinks a list while it walks it.
The hazards, each with its line, are in `PROJECT.json`.

What makes each part correct:

* front end: every branch gets exactly one target, and the resulting control
  flow is structured;
* checker: it terminates; what it approves is balanced and type-correct on every
  path; `max` bounds the growth of the stack; the effect does not change once a
  caller may rely on it;
* code generation: it terminates; the optimized code has the control flow that
  was approved; offsets, groups and counts agree; the code ends with RETURN;
* interpreter: the stack stays within its allotment, agrees with what the checker
  predicted, and the declared effect is kept; tail recursion needs no C stack;
* effect parser: the effect it returns is the one the declaration's tokens say,
  and every other text is refused;
* disassembler, `scanWord`: they read back from the code what was compiled;
* collector: nothing the program can get at is freed, everything else is; the
  list of objects stays whole; every collection ends;
* REPL: all of this holds from line to line, lines that fail included.

## 2. The modules

```
StackEffects ─── Compiler ─── StackCheck ─── CodeGen ─── Interpreter
   │    │            │             │            │  │           │
   │    │            MCCompiler    MCStackCheck │  Disassembler │
   │    │            │                          MCCodeGen  └─ MCInterpreter
   │    │            └ CompilerProofs ─ StackCheckProofs ─ CodeGenProofs ─ InterpreterProofs
   │    ├ EffectParser ─ MCEffectParser
   │    │        └ EffectParserProofs
   └ StackEffectProofs: used by StackCheckProofs and EffectParserProofs
Instructions, CoreWords: used by CodeGen and the MC modules

Values ─── Heap ─── Repl ─── MCRepl
            │         │  implements Memory
                      └ ReplProofs ─ CollectorProofs
```

In the first family each module EXTENDS the one before it: a behaviour of
`Interpreter` parses a word token by token, checks it, lays it out, emits it and
runs it. Nothing is assumed about the word that the program's own earlier phases
do not establish. The second family is a whole session, line after line, seen
from the objects: of the code it keeps the literals, and a run executes any words
whose operands are there. The first family says that only such words are
executed; the second relies on no more than that.

* **StackEffects** - `TypeSet`, `StackEffect` and `EffectStack`. A type set is a
  set of types; the input match that outputs carry in their high bits is a field
  of its own. Sequences run from the bottom of the stack to the top, and
  `FromTop` is the indexing of the C++ views. `max` is a uint16 that ends at
  `kUnknownMax`. `Covers` is the order that merging climbs.
* **Compiler** - `_words` is a sequence whose last element is the placeholder; an
  iterator is an index. One action per token handler, error exits included, then
  `Finish`. `add()` keeps the placeholder's branch-destination flag; the RETURN
  that replaces the last placeholder does not, as in the code.
  A nested quotation or an array is one literal token.
* **StackCheck** - one step is one iteration of `computeEffect`'s loop. `work` is
  the C++ call stack of `computeEffect`: at a 0BRANCH the caller is left waiting
  at the branch target while the call follows the fall-through. `known` is
  `knownStack`. `returnsImmediately()` is stated without recursion, so that the
  module can be proved about: a chain of branches from a position reaches RETURN
  exactly if every set of positions that has the position and is closed under
  following branches (`BranchClosed`) has a RETURN in it.
* **CodeGen** - one step is one iteration of the layout loop or of the inner loop
  over a chain of branches; emission is one step per word of the list. Words erased from the list are
  the set `erased`, and an offset computed through an iterator to an erased word
  is a choice from `WildOffsets`.
* **Instructions**, **CoreWords** - the cells of the code; the declared effects of
  the core vocabulary, and the code of ABS, MAX and MIN.
* **Interpreter** - one action per native word or family. Values are their types,
  quotations the literal they come from; a number's truth and whether arithmetic
  yields null (NaN) are choices. `frames` is the C stack. A frame records the
  `sp` the caller goes on with where that is not the result of the call, as for
  RECURSE. Overflow, underflow, a pc that leads to no instruction and an IFELSE
  without quotations are statuses the machine can reach, not things it avoids.

* **EffectParser** - `_parseStackEffect`, one step per iteration of its loop over
  the characters, with the entry under construction, the pointers into the text
  kept as names, the jump over the second `-` and every exit. The second half of
  the module is the reference: the tokens of a text, by positions, and what they
  declare.
* **Disassembler** - `Disassembler::next` and `scanWord` as recursive functions of
  the code that `CodeGen` emits.
* **Values** - the 64 bits of a `Value` as the fields the code tells apart: sign,
  magic bits, the two tag bits, the pointer. Type tests and `Value::mark` look at
  these fields as the code does, so that a number whose bits 48 and 49 look like
  the tag of an array is one.
* **Heap** - the linked list of objects, creation, the recursion of `mark` as an
  explicit agenda in the order of the calls, and one step per iteration of
  `sweep`, whose locals are variables. `older`, the order of creation, is a
  history variable for the properties.
* **Repl** - `main()`: the prompt, the nested calls of `parse` and `parseArray` with
  the objects they create on the way, compile errors and exceptions nothing
  catches at any of these points, the words that move and create objects, DEFINE,
  the collection after a run with its roots. `BeginVocabulary` and
  `EndVocabulary` are the iterators of `VocabularyStack`, which are equal from the
  start: `gcScan` visits no word. Where a NaN, an empty string or a short one
  makes a difference, all outcomes are possible.
* **Memory** - the abstract heap: the program changes what refers to what with
  nothing but what it can get at, and a collection removes the rest in one step.

Definitions commented "Faulty variant" are never used by a specification. They
are plausible mistakes in the definition that follows; substituting one for its
original makes TLC report a violation of the property `PROJECT.json` names.

## 3. The runs

In the runs of the compiler TLC chooses the program text: all token sequences
over a small vocabulary up to `MaxWords` words (the final RETURN included) with
control structures nested up to `MaxNesting`. Deadlock checking is off
everywhere, since a compilation, a run, a parse and a session really do end. No
symmetry is used there: words and literals have fixed meanings.

| Run | Module | Bounds | Shows |
|---|---|---|---|
| `terminates` | MCCodeGen | 6 words, nesting 3, loops, RECURSE, an interpreted word: loops whose merge changes a stack, chains of branches | `CheckTerminates`, `LayoutTerminates` |
| `run_safe` | MCInterpreter | 6 words, Inline or not, IF...THEN, RECURSE, interpreted words, C stack of 3 | `MaxCoversEveryWord`, `CodeMatchesList`, `DisassemblesToList`, `RunsSafely`, `EffectKept`, `TailRecursionIsLoop` |
| `run_as_checked` | MCInterpreter | 6 words, nesting 2, all keywords, an interpreted and an inline word, string literals, a declared word and a prompt line | the front end: `BranchesResolved`, `ControlFlowStructured`; the checker: `NothingLost`, `FixedPoint`, `EffectSettles`; the code and its run: `OptimizedFlowCovered`, `CodeMatchesList`, `ScanFindsLiterals`, `StackAsChecked`, `EffectKept` |
| `run_quotes` | MCInterpreter | 6 words, IFELSE on stacks shuffled by DUP and SWAP; declared words and undeclared quotations | `EffectKept`, `RunsSafely`, `StackAsChecked` |
| `effect_syntax` | MCEffectParser | texts of up to 5 of 9 pieces (names, symbols, a digit, a bad character, blanks, half and whole separators), and long ones with 0 to 9 inputs and outputs | `ReadsDeclaration` |
| `session` | MCRepl | 3 objects, 2 values on the stack, one literal to a word, arrays of 2 items, a quotation or array in a line, one name | `NoDangling`, `ListWhole`, `SweepIsExact`, `CrashesOnNonObject`, `CollectorAdvances`, `ImplementsMemory` |

Six words are enough for: a loop inside a conditional and the reverse, two merges
at one word, a loop that changes a type on its second pass, a branch that leads
to a branch, RECURSE in tail and in other positions, a group of four calls with
a fifth behind it, a branch into the middle of a group. `MaxFrames` bounds the
depth of recursion explored, not what the code allows.

Sessions are not bounded in length: the state space is finite because the bounds
are on what exists at a time. Three objects are enough for an array in an array
next to a string, for garbage at the head, inside and at the tail of the list,
for every address to be reused after it was freed, and for the remains of a line
that failed to be met by the collection of a later one. Addresses are
interchangeable (`SYMMETRY`), since the code never compares them. The numbers
that occur all have the bits that `Value::mark` takes for a quotation (`9` is
one); numbers it skips behave like inline strings. `WordsHoldObjects = FALSE`
keeps objects out of the code of DEFINEd words, because of `gc_words` below.

`RunsSafely`, `EffectKept` and `StackAsChecked` are stated for code that ends
with RETURN, because of the first of the following disagreements;
`DisassemblesToList` and `ScanFindsLiterals` too. The scope is narrowed exactly
there, and these have runs of their own, in which TLC finds the program that
shows them:

| Run | The code | The documentation |
|---|---|---|
| `return_erased` | `compiler.cc:185` loses the branch-destination flag; after REPEAT the RETURN is erased | "Every interpreted word ends with this." (`core_words.cc:48`) |
| `recurse_sp` | `core_words.cc:215` ignores the `sp` its call returns | "ensure that the stack doesn't get unbalanced" (`Syntax.md:90`) |
| `ifelse_match` | `compiler+stackcheck.hh:337-339` adds three inputs and keeps the input matches of the quotations' effects in that of IFELSE, where they name other inputs: `7 1 5 1 {(x -- x)} {(x -- x)} IFELSE {(x -- x)} IFELSE` is approved and calls a number | "there aren't any type mismatches" (`Syntax.md:90`) |
| `max_dropped` | `compiler+stackcheck.hh:221` returns when the stack of a path equals the memoized one, and drops the path's maximum: `IF ELSE 5 5 DROP DROP THEN` has max 0 and runs over its stack | "know that it won't overflow or underflow" (`README.md:179`) |
| `deduced_depth` | `compiler+stackcheck.hh:254-264` adds deduced inputs to the stack of one path and to the effect, not to the copy kept for the other branch: `IF DROP THEN`, undeclared, is accepted as taking two inputs and leaving none, though the path that skips DROP leaves one | the checker "rejects ... inconsistent stack depths in the two branches of an `IF`...`ELSE`" (`README.md:177`) |
| `gc_words` | `begin()` and `end()` of `VocabularyStack` are equal, so the literals of a DEFINEd word are freed while the word is in use | `scanWord` "Marks all object literals found in a word" (`gc.hh:30`) |

The passing runs keep clear of them: `run_safe`, where `MaxCoversEveryWord` is
checked, has no ELSE; where inputs are deduced (`run_quotes`) no word branches, so
that `EffectKept` says what `DepthsBalanced` is there for.

Further disagreements met while modelling, without a run of their own; the
instances above keep clear of the first four, and the fifth is part of `session`:

* `core_words.cc:265-266` gives `+` the output `/0`, the type of its top operand,
  while "the output type is the same as the first parameter's type"
  (`Syntax.md:114`), and `operator+` (`value.cc:247`) makes an array if the *first*
  operand is one: after `[] "str" +` the checker takes the array for a string. No
  run of the interpreter has PLUS, and the proofs about execution leave it out.
* `compiler+stackcheck.hh:322` adds the deeper inputs of IFELSE's second quotation
  on top of the merged ones, not below them: with inputs of different types the
  wrong value must have the wrong type. The quotations of `run_quotes` have no such
  inputs, and `QuotesAgree` keeps them out of the proofs.
* `compiler.cc:123` copies the branches of an Inline word without their targets
  (`assert(i->branchTo)`, `compiler+stackcheck.hh:279`): the inline words of the
  instances are straight.
* `compiler.cc:213` follows a branch to itself forever when a word begins with
  RECURSE, while "the recursion is reduced to a loop" (`README.md:134`):
  `LayoutTerminates` leaves these words out.
* `Value::mark` (`value.cc:153-167`) dereferences a null pointer for null, and for
  numbers whose bits 48 and 49 are 1 or 2, although `value.hh:96` and `repl.cc:149`
  have the collector called on any stack: the line `9` ends the session.
  `CrashesOnNonObject` says that nothing else does.
* RECURSE is accepted in a word whose effect was not declared once a RETURN has
  been traced (`compiler+stackcheck.hh:273` clears what line 237 tests), while
  `README.md:189` says "you have to give its stack effect up front".
* An output that is declared to have the type of an input is only checked against
  its types (`compiler+stackcheck.hh:128-148`): `(x -- x)` is accepted for code that
  leaves something else. Callers that rely on it are not covered by the proofs
  about recursion (`RecursionBalanced`).
* More than eight values on the stack, and declarations that do not parse, throw
  `std::runtime_error`, which `repl.cc:168` does not catch (action `Uncaught`).
* DEFINE under a name that exists, or that a core word has, silently has no effect
  (`vocabulary.cc:43`, `75-80`; `Syntax.md:58` says otherwise).
* An output matches an input that has the same text if it "contains alphanumerics"
  (`stack_effect_parser.hh:70`, `79`), but `_isalpha` (line 124) looks for letters
  only: in `(1 -- 1)` the output gets no match. `ReadsDeclaration` takes
  alphanumerics to be letters and digits, and asks for the matches of texts whose
  names all have a letter (`NamesHaveLetters`); what is accepted, and what is not, it
  says of all texts. `Syntax.md:114` has no such condition at all ("an output token
  exactly matches an input token"), so `(#? -- #?)` should match by it, and does
  not by the comment, which the reference follows.
* `(x --y)` loses the `y` (`stack_effect_parser.hh:114`): `ReadsDeclaration` is
  about texts whose `--` stands alone. The comment at lines 51-52 of that file
  swaps the symbols of arrays and quotations.

**Fairness.** Weak fairness of the compiler's own steps only (`CheckStep` in
`Spec`, `CheckStep` or `GenStep` in `GenSpec`): a function that has been called
keeps running. Parsing is not fair, since the text may end anywhere, and the
interpreter is not either. That collections end is stated without fairness, by
`CollectorAdvances`: every step of one decreases a measure, so that a collector
that keeps running must end.

**Refinement.** `ImplementsMemory` maps the heap of a session to `Memory`: the
abstract heap has the objects that are left once a sweep under way has ended, so
the abstract collection happens in the step that begins the sweep, marking and
the iterations of the sweep are stutters, and all else is a `Mutate`.

## 4. The proofs

The proofs hold for all literals, vocabularies, effects, declarations and
bounds that satisfy the modules' assumptions. Those about the compiler assume
`InlinesAreStraight`: no Inline word contains a branch, without which
`BranchesResolved` is false. Those about execution have hypotheses of their own,
given with them below. Those about what the collector frees assume
`~WordsHoldObjects`: DEFINE is given no quotation with objects in its code,
without which `NoDangling` is false (`gc_words`). Nothing bounds the number of
objects, the length of the session or the graph the objects form.

* `CompilerProofs`: `ParseTypeCorrect`, `ParseResolvesBranches` and
  `ParseStructured`. The inductive
  invariant `ListsOK` (`WellFormed` while parsing, `Finished` after) adds to the
  types: the list ends with the placeholder, entries of the control-flow stack
  lie in the list, those that await a target below the placeholder and no two at
  the same word, and targets lie in the list. `BranchesResolved` is not inductive
  without them, since resolving one entry must not resolve another.
  `ControlFlowStructured` needs more, `Nested`: the control-flow stack is ordered
  as the words it names, and no resolved branch crosses one that is still open
  or the target of a BEGIN that is. For the use of the code
  generator it is also proved here where branches lead (`Targets`) and that no
  list begins with a BRANCH (`FirstPlain`).
* `StackCheckProofs`: `CheckTypeCorrect`, `NothingIsLost`, `CheckerSound` and
  `EffectsSettle`.
  `FixedPoint` speaks of the moment of approval only. Its inductive form is
  `NothingLost`: where control goes from a word visited, with the stack *now*
  memoized there, is covered by a memoized stack or by that of an active call.
  A step that changes a memoized stack at i makes the outcomes of i larger, and
  the calls it makes or continues cover exactly those; a call that ends because
  its stack is memoized was covered by what is memoized; merging only enlarges
  stacks, so what was covered stays covered. When no call is active only
  memoized stacks are left to cover, which is the fixed point. The proof needs
  the type invariant `CheckLists`: positions of calls lie in the list, every
  effect used is well formed, IFELSE's merged one included.
  `EffectsSettle` is an action property: once the first RETURN has settled
  the outputs, or the inputs are no longer deduced, no step changes them, and max
  never shrinks.
* `CodeGenProofs`: `LayoutTypeCorrect`, `OptimizationsSound` and `CodeCorrect`, the
  three invariants about the list while it is rewritten and about the code that
  comes of it. `OptimizedFlowCovered` starts as the checker's `FixedPoint` and must
  survive three rewrites. The invariant is `Laid(p)`, p being the word the pass is
  at. `LayoutShape` and `LayoutTargets`: an erased word is nobody's destination, and
  nothing but a BRANCH stands before one. `LayoutFixed`: the memoized
  stacks are a fixed point of the list *as rewritten*; redirecting a branch past a
  BRANCH keeps it because a BRANCH has the same stack on both sides, and making
  RECURSE a BRANCH because a chain from its successor to RETURN keeps the depth.
  `Coded`: the pcs given so far are those of the sizes before them, groups of INTERP
  have one to four adjacent calls and no destination inside, and what
  `returnsImmediately()` answered is still its answer, although branches of the
  chain have changed since. `Emitted` relates the cells written to these places.
* `InterpreterProofs`: what running compiled code does, for words of any length.
  The argument is modular. A *certificate* of a code (`Certifies`) is a set of
  states of an activation - where it is, the inputs it was given, its part of the
  stack - that has the start in it and is closed under the steps of the machine, a
  call being one step that has the effect its callee declares (`After`). The
  memoized stacks are a certificate of the word compiled (`MainStates`): by
  `CodeMatchesList` the instruction at a cell is that of the word the layout put
  there, and by `OptimizedFlowCovered` what it leaves is described by the stack
  memoized where it goes. If the words and quotations it calls have certificates as
  well, every activation on the C stack stays within its own (`RunsWell`, by
  induction over the frames), whatever is called in between. From this:
  `StacksAsMemoized` (`StackAsChecked`), `EffectsKept` (`EffectKept`),
  `NothingButOverflow` (no underflow, no wild pc, IFELSE always finds quotations) and
  `SizedRunsAreSafe` (`RunsSafely`, if max covers the stack of every word and
  recursion loops). `MachineTypeCorrect` and `LoopsNeedNoStack` add that groups and
  frames are as they should be where the words called call no others.
  `CoreWordsKeepEffects` discharges the hypotheses about callees: ABS, MAX and MIN,
  whose code and effects `core_words.cc` writes down by hand and nothing checks, have
  certificates and stay within their max, and so has every quotation of native words
  for which depths can be written at its cells (`Steady`). `CoreProgramsRun` puts it
  all together for programs of the core vocabulary.

  The hypotheses, each one an exception that a run or the list above shows, or the
  honor system of the code:
  - about the constants: `NativesAsDeclared` (native words have the effects of
    `core_words.cc`; PLUS is left out, see above), `QuotesAgree` (quotations with
    the same net effect do what IFELSE's merged effect says of them; false with
    input matches, `ifelse_match`), `WordsKeepEffects` (callees have certificates),
    `LeavesOnly` (they call no others). `CoreProgram` is about code only and implies
    the last two. The constants of `run_safe`, `run_as_checked` and `run_quotes` are
    instances of it, those of `ifelse_match` are not;
  - about the word: its inputs are not deduced (`~canAddInputs`), its code ends with
    RETURN (`Complete`, `return_erased`), and if it recurses its net effect is zero
    and no output is promised to be an input (`RecursionBalanced`, `recurse_sp`);
  - for the size of the stack, `MaxSuffices` (`max_dropped`) and `~recursive`, since
    the checker knows no bound for other recursion.
* `EffectParserProofs`: `EffectTypeCorrect` and `DeclarationsRead`. A token that has
  begun has room (`checkNotFull()` came first), and the inputs' names and the
  inputs go together; that is what keeps the ninth entry out and every input match
  on an input. For what the loop reads the invariant is `ReadingInv`: behind it lie
  exactly the tokens that start before a frontier (where the current token starts,
  or the character that comes next), the inputs in order before the first
  separator, the outputs behind it, and each entry of the effect and each name is
  that of its token. "In order" is a list (`Listed`), and `ListedCounts` makes its
  nth member the `Nth` token of the definition, which counts. At every exit of the
  loop the text is then shown to be a declaration, with this effect, or not to
  be one. That the loop's names are tokens with letters and the declaration's are
  tokens with alphanumerics makes no difference where names have letters, and only
  there: the invariant speaks of letters, and the last step brings the two
  together.
* `StackEffectProofs`: the lemmas about numbers, merging, covering and making
  effects that the others rest on.
* `ReplProofs`: `SessionTypeCorrect`, `ListStaysWhole`, `CollectorProgress`.
  `HeapOK` is the inductive invariant of the list, and every operation of module
  Heap keeps it. `ListWhole` is not inductive during a sweep: while `fixLink` is set
  the last object kept still points at one that was freed. `HeapOK` says where the
  list is broken (at `prev`, and nowhere else), that `older` orders the objects
  strictly, and that what the sweep has passed is unmarked.
  `SessionOK` adds to `HeapOK` the types and how the phase of `main()`, the
  collector's state and the active calls of the parser go together.
* `CollectorProofs`: `NothingDangles`, `NoCrashOnObjects`, `CollectionIsExact` and
  `HeapImplementsMemory`.
  `MemoryOK` says what the program may dereference is allocated with the type its
  tag says; while marking, that what the stack or a marked object refers to is
  marked or on the agenda (no marked object refers to one that would be missed);
  while sweeping, that the survivors are closed under references. For exactness
  `ExactOK` adds the converse: every set that has the roots and is closed under
  references has all that is marked or on the agenda.
  The refinement follows from these invariants. The steps of the program are all shown to be `Mutate`s by one lemma (`Mutates`): what they
  leave on the stack, in the parser's frames and in the objects that changed was
  accessible before or is new. `BeginSweep` is `Collect`, since with an empty
  agenda the marked objects are closed (`MarkOK`) and least (`ExactOK`).

Model-checked only:

* liveness (`CheckTerminates`, `LayoutTerminates`), which is beyond the prover used;
* `MaxCoversEveryWord`, which does not hold of every program (`max_dropped`), only of
  those `run_safe` admits;
* execution beyond the hypotheses above: words whose inputs are deduced
  (`run_quotes`), and the properties of `run_safe` where no `MaxSuffices` is
  assumed;
* the readers of compiled code (`DisassemblesToList`, `ScanFindsLiterals`): they
  are recursive, and what a recursive definition computes needs induction over
  data.

## 5. What is not modelled

Tokenizing and number syntax (functions of text that keep no state); contents
and comparison of strings and arrays; printing, line editing and terminal I/O;
`CALL`, which is Magic and cannot be reached from source text; removing a
vocabulary from the active ones and `use` by name, which no program of the
repository calls; the unit tests. `PROJECT.json` lists every part with its status.

The two families of modules are not composed into one: a session whose lines are
checked and executed word by word has too many states to be of use. In `Repl` a
run may execute more than compiled code would, so what holds there holds of the
code; in `Interpreter` values have no addresses, so nothing there depends on the
collector.

## 6. The plan

Done: the path from tokens to execution for one word; the collector with all
that creates, moves and drops objects, and its proof down to the refinement; the
parser of effects; the readers of compiled code; the compiler's proofs from the
list that is parsed to the cells that are emitted and the stacks they run on.

Left, what carries most risk first:

1. Nested quotations in the first family: a stack of `Compiler`s, effects of
   quotations deduced rather than given, with their certificates from the same
   proof as that of the word compiled.
2. An abstract machine that runs the source list on the checker's stacks, and the
   compiler with the interpreter as an implementation of it.
3. Proofs: a bound for `max` in words without ELSE; the readers of compiled code,
   once they are written as recursive functions that an induction can use.
4. Runs for the disagreements that have none: PLUS, Inline words with branches, and
   quotations of different inputs. Three of the hazards in `PROJECT.json` that
   list no property are these; the other two end the session in `Repl` and stay so.

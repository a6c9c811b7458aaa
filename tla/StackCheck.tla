----------------------------- MODULE StackCheck -----------------------------
(***************************************************************************)
(* The stack checker, Compiler::computeEffect                              *)
(* (compiler/compiler+stackcheck.hh).  It traces the control flow of the   *)
(* finished list of words on a simulated stack, memoizing the stack at     *)
(* every word, and computes the word's effect on the way.                  *)
(*                                                                         *)
(* computeEffect calls itself for the fall-through of a 0BRANCH before it  *)
(* follows the branch; `work` is that call stack, its last element the     *)
(* position and simulated stack of the innermost call.  One step is one    *)
(* iteration of the while loop.                                            *)
(***************************************************************************)
EXTENDS Compiler

VARIABLES
  work,    \* the active calls of computeEffect: their i and curStack
  known    \* knownStack: the memoized items, a function of visited positions

checkVars == <<work, known>>
vars == <<compilerVars, checkVars>>

WorkItem == [at : Nat, stack : EffectStack]

NothingKnown == [i \in {} |-> <<>>]

Current == work[Len(work)]
Callers == SubSeq(work, 1, Len(work) - 1)

-----------------------------------------------------------------------------
(* The effect of the word at a position *)

\* A set of positions that following a BRANCH does not leave
BranchClosed(ws, C) ==
  \A p \in C : ws[p].word = "_BRANCH" => ws[p].branchTo \in C

(***************************************************************************)
(* returnsImmediately(pos): the chain of BRANCHes from pos ends at a       *)
(* RETURN.  The positions on the chain are the least closed set that holds *)
(* pos, so a RETURN is among them exactly if every such set has one.       *)
(***************************************************************************)
ReturnsImmediately(ws, pos) ==
  \A C \in SUBSET (DOMAIN ws) :
    pos \in C /\ BranchClosed(ws, C) => \E p \in C : ws[p].word = "_RETURN"

\* The effect RECURSE has at position i; non-tail recursion makes max unknown.
RecurseEffect(i) ==
  IF ReturnsImmediately(words, i + 1) THEN effect ELSE WithUnknownMax(effect)

IsQuote(v) == v \in DOMAIN QuoteEffect

\* Bitwise or of two input-match fields
MatchOr(m, n) ==
  LET bit(b) == IF (m \div b) % 2 = 1 \/ (n \div b) % 2 = 1 THEN b ELSE 0
  IN  bit(1) + bit(2) + bit(4)

\* Faulty variant: the deeper inputs of b are forgotten.
IfElseInputsShallow(a, b) ==
  [i \in DOMAIN a |->
     IF Len(a) - i < Len(b) THEN a[i] \cap FromTop(b, Len(a) - i) ELSE a[i]]

(***************************************************************************)
(* The merged inputs of the quotations a and b of an IFELSE: entries of    *)
(* the same depth are intersected, and the deeper entries of b are added,  *)
(* each on top of the ones before (addInput).                              *)
(***************************************************************************)
IfElseInputs(a, b) ==
  LET n == AtMost(Len(a), Len(b))
  IN  [i \in DOMAIN a |->
         IF Len(a) - i < n THEN a[i] \cap FromTop(b, Len(a) - i) ELSE a[i]]
      \o [i \in 1..(Len(b) - n) |-> FromTop(b, n + i - 1)]

\* The same for the outputs, whose flags are united (addOutput).
IfElseOutputs(a, b) ==
  LET n == AtMost(Len(a), Len(b))
      union(o, p) == [types |-> o.types \cup p.types,
                      match |-> MatchOr(o.match, p.match)]
  IN  [i \in DOMAIN a |->
         IF Len(a) - i < n THEN union(a[i], FromTop(b, Len(a) - i)) ELSE a[i]]
      \o [i \in 1..(Len(b) - n) |-> FromTop(b, n + i - 1)]

\* effectOfIFELSE(), for quotations with effects a and b
IfElseEffect(a, b) ==
  WithMax([ins  |-> IfElseInputs(a.ins, b.ins)
                      \o <<AnyType, {"Quote"}, {"Quote"}>>,
           outs |-> IfElseOutputs(a.outs, b.outs),
           max  |-> a.max],
          AtLeast(0, AtLeast(a.max, b.max) - 3))

\* The exception effectOfIFELSE() throws, if any.
IfElseError(items) ==
  LET q1 == LiteralAt(items, 1)
      q2 == LiteralAt(items, 0)
      a == QuoteEffect[q1]
      b == QuoteEffect[q2]
  IN  IF ~(IsQuote(q1) /\ IsQuote(q2)) THEN "IFELSE needs two quotations"
      ELSE IF Net(a) # Net(b) THEN "IFELSE quotes have inconsistent depths"
      ELSE IF \E i \in DOMAIN IfElseInputs(a.ins, b.ins) :
                IfElseInputs(a.ins, b.ins)[i] = {}
        THEN "IFELSE quotes have incompatible parameters"
      ELSE IF Overfull(IfElseEffect(a, b)) THEN "too many stack entries"
      ELSE NoError

\* The exception thrown while determining the effect of the word at i.
EffectError(i, items) ==
  IF words[i].word = "_RECURSE"
    THEN IF canAddInputs \/ canAddOutputs
           THEN "RECURSE requires an explicit stack effect declaration"
         ELSE IF inline /\ ~ReturnsImmediately(words, i + 1)
           THEN "illegal recursion in an inline word"
         ELSE NoError
  ELSE IF words[i].word = "IFELSE" THEN IfElseError(items)
  ELSE NoError

\* nextEffect: what calling the word at i does to the stack.
NextEffect(i, items) ==
  LET w == words[i].word
  IN  IF w = "_RECURSE" THEN RecurseEffect(i)
      ELSE IF w = "IFELSE" THEN IfElseEffect(QuoteEffect[LiteralAt(items, 1)],
                                             QuoteEffect[LiteralAt(items, 0)])
      ELSE IF w = "_ZBRANCH" THEN Effect(<<AnyType>>, <<>>)
      ELSE IF w \in {"_BRANCH", "_RETURN"} THEN Effect(<<>>, <<>>)
      ELSE WordEffect[w]

\* Faulty variant: _effectCanAddInputs is not asked.
MissingInputsAlways(callee, stack) ==
  IF Len(callee.ins) > Depth(stack)
    THEN SubSeq(callee.ins, 1, Len(callee.ins) - Depth(stack))
    ELSE <<>>

(***************************************************************************)
(* The inputs to add to the word being compiled: those entries of the      *)
(* callee's inputs that lie below the bottom of the stack.                 *)
(***************************************************************************)
MissingInputs(callee, stack) ==
  IF canAddInputs /\ Len(callee.ins) > Depth(stack)
    THEN SubSeq(callee.ins, 1, Len(callee.ins) - Depth(stack))
    ELSE <<>>

-----------------------------------------------------------------------------
(* One iteration of computeEffect's loop *)

Checking == phase = "checking" /\ work # <<>>

\* Already handled this control flow and these types.
IsMemoized(at, stack) == at \in DOMAIN known /\ known[at] = stack.items

Inconsistent(at, stack) ==
  at \in DOMAIN known /\ DOMAIN known[at] # DOMAIN stack.items

\* Faulty variant: the stack that came last wins.
JoinedNot(at, stack) == stack

\* curStack once it is merged with the memoized stack, if there is one.
Joined(at, stack) ==
  IF at \in DOMAIN known THEN MergeWith(stack, known[at]) ELSE stack

Memoize(at, stack) ==
  known' = [i \in DOMAIN known \cup {at} |->
              IF i = at THEN stack.items ELSE known[i]]

CheckFails(what) ==
  /\ Fail(what)
  /\ work' = <<>>
  /\ known' = NothingKnown

\* Faulty variant: the loop goes on where it should return.
ReturnNot == work' = work

\* A call of computeEffect returns to the one that made it.
Return == work' = Callers

\* The current call goes on at position at; `deferred` is what it leaves for
\* after the call it makes first.
GoOn(deferred, at, stack) ==
  work' = Callers \o Append(deferred, [at |-> at, stack |-> stack])

\* computeEffect()
StartCheck ==
  /\ phase = "checking" /\ work = <<>> /\ known = NothingKnown
  /\ work' = <<[at |-> 1, stack |-> InitialStack(effect)]>>
  /\ UNCHANGED <<compilerVars, known>>

CheckMemoized ==
  /\ Checking
  /\ IsMemoized(Current.at, Current.stack)
  /\ Return
  /\ UNCHANGED <<compilerVars, known>>

CheckInconsistent ==
  /\ Checking
  /\ Inconsistent(Current.at, Current.stack)
  /\ CheckFails("inconsistent stack depth")

\* The loop reaches position i and memoizes the stack it has there.
Arrive(i, stack) ==
  /\ Checking
  /\ i = Current.at
  /\ ~IsMemoized(i, Current.stack)
  /\ ~Inconsistent(i, Current.stack)
  /\ stack = Joined(i, Current.stack)

CheckLiteral(i, stack) ==
  /\ Arrive(i, stack)
  /\ words[i].word = "_LITERAL"
  /\ Memoize(i, stack)
  /\ GoOn(<<>>, i + 1, AddLiteral(stack, words[i].lit))
  /\ UNCHANGED compilerVars

\* Any word but a literal, once its effect is known and missing inputs are
\* added: the stack that curStack.add(word, nextEffect) is applied to.
Extended(i, stack) ==
  AddAtBottom(stack, MissingInputs(NextEffect(i, stack.items), stack))

ExtendedEffect(i, stack) ==
  AddInputsAtBottom(effect, MissingInputs(NextEffect(i, stack.items), stack))

\* The exception thrown at i before or while its effect is applied.
CallError(i, stack) ==
  IF EffectError(i, stack.items) # NoError THEN EffectError(i, stack.items)
  ELSE IF Overfull(ExtendedEffect(i, stack)) THEN "too many stack entries"
  ELSE IF Len(NextEffect(i, stack.items).ins) > Depth(Extended(i, stack))
    THEN "would underflow"
  ELSE IF ~Accepts(NextEffect(i, stack.items), Extended(i, stack).items)
    THEN "type mismatch"
  ELSE NoError

CheckCallFails(i, stack) ==
  /\ Arrive(i, stack)
  /\ words[i].word # "_LITERAL"
  /\ CallError(i, stack) # NoError
  /\ CheckFails(CallError(i, stack))

\* curStack after curStack.add(word, nextEffect)
Called(i, stack) == AddCall(Extended(i, stack), NextEffect(i, stack.items))

Call(i, stack) ==
  /\ Arrive(i, stack)
  /\ words[i].word # "_LITERAL"
  /\ CallError(i, stack) = NoError
  /\ Memoize(i, stack)
  /\ UNCHANGED <<words, controlStack, canAddInputs, inline, error>>

CheckWord(i, stack) ==
  /\ words[i].word \notin {"_RETURN", "_BRANCH", "_ZBRANCH"}
  /\ Call(i, stack)
  /\ effect' = ExtendedEffect(i, stack)
  /\ GoOn(<<>>, i + 1, Called(i, stack))
  /\ UNCHANGED <<canAddOutputs, phase>>

CheckBranch(i, stack) ==
  /\ words[i].word = "_BRANCH"
  /\ Call(i, stack)
  /\ GoOn(<<>>, words[i].branchTo, Called(i, stack))
  /\ UNCHANGED <<effect, canAddOutputs, phase>>

CheckZBranch(i, stack) ==
  /\ words[i].word = "_ZBRANCH"
  /\ Call(i, stack)
  /\ effect' = ExtendedEffect(i, stack)
  /\ GoOn(<<[at |-> words[i].branchTo, stack |-> Called(i, stack)]>>,
          i + 1, Called(i, stack))
  /\ UNCHANGED <<canAddOutputs, phase>>

\* The exception checkOutputs() throws, if any.
OutputError(stack) ==
  LET outs == effect.outs
      extra == Depth(stack) - Len(outs)
  IN  IF extra < 0 THEN "insufficient outputs"
      ELSE IF ~TypeCheck(stack.items, OutputTypes(outs))
        THEN "output type mismatch"
      ELSE IF extra > 0 /\ ~canAddOutputs THEN "too many outputs"
      ELSE IF Len(effect.ins) + Depth(stack) > kMaxEntries /\ extra > 0
        THEN "too many stack entries"
      ELSE NoError

\* Faulty variants: the items below the declared outputs are dropped, or
\* taken for inputs passed through.
EffectWithOutputsDropped(stack) == effect
EffectWithOutputsMatched(stack) ==
  AddOutputsAtBottom(effect,
    [k \in 1..(Depth(stack) - Len(effect.outs)) |->
       SameAs(stack.items[k].types, k - 1)])

\* The items below the declared outputs become outputs themselves.
EffectWithOutputs(stack) ==
  AddOutputsAtBottom(effect,
    [k \in 1..(Depth(stack) - Len(effect.outs)) |-> Out(stack.items[k].types)])

\* RETURN settles the outputs, and max if the stack grew beyond it.
FinalEffect(stack) ==
  IF MaxGrowth(stack) > effect.max
    THEN WithMax(EffectWithOutputs(stack), MaxGrowth(stack))
    ELSE EffectWithOutputs(stack)

CheckReturn(i, stack) ==
  /\ words[i].word = "_RETURN"
  /\ Call(i, stack)
  /\ OutputError(Called(i, stack)) = NoError
  /\ effect' = FinalEffect(Called(i, stack))
  /\ canAddOutputs' = FALSE
  /\ Return
  /\ UNCHANGED phase

CheckReturnFails(i, stack) ==
  /\ Arrive(i, stack)
  /\ words[i].word = "_RETURN"
  /\ OutputError(Called(i, stack)) # NoError
  /\ CheckFails(OutputError(Called(i, stack)))

\* The outermost call has returned: generateInstructions() goes on.
CheckDone ==
  /\ phase = "checking" /\ work = <<>> /\ known # NothingKnown
  /\ phase' = "checked"
  /\ UNCHANGED <<words, controlStack, setup, error, checkVars>>

CheckStep ==
  \/ StartCheck
  \/ CheckMemoized
  \/ CheckInconsistent
  \/ Checking /\ LET i == Current.at
                     s == Joined(i, Current.stack)
                 IN  \/ CheckLiteral(i, s)
                     \/ CheckCallFails(i, s)
                     \/ CheckWord(i, s)
                     \/ CheckBranch(i, s)
                     \/ CheckZBranch(i, s)
                     \/ CheckReturn(i, s)
                     \/ CheckReturnFails(i, s)
  \/ CheckDone

CheckInit == Init /\ work = <<>> /\ known = NothingKnown

Next == (ParseNext /\ UNCHANGED checkVars) \/ CheckStep

\* computeEffect runs to its end once it is called; parsing may stop anywhere.
Spec == CheckInit /\ [][Next]_vars /\ WF_vars(CheckStep)

-----------------------------------------------------------------------------
(* Properties *)

CheckTypeOK ==
  /\ CompilerTypeOK
  /\ work \in Seq(WorkItem)
  /\ known \in [DOMAIN known -> Seq(Item)]
  /\ DOMAIN known \subseteq DOMAIN words

\* Where control may go from position i.
Successors(i) ==
  (IF words[i].word \in {"_RETURN", "_BRANCH"} THEN {} ELSE {i + 1})
    \cup (IF IsBranch(words[i].word) THEN {words[i].branchTo} ELSE {})

\* The items on the stack after the word at i, given those before it.
Outcome(i, items) ==
  IF words[i].word = "_LITERAL"
    THEN Append(items, LiteralItem(words[i].lit))
    ELSE ItemsAfter(NextEffect(i, items), items)

\* The word at i accepts its memoized stack, IFELSE finds two quotations there
\* that it can merge, and RETURN leaves the outputs.
CheckedAt(i) ==
  /\ words[i].word # "_LITERAL" =>
       Accepts(NextEffect(i, known[i]), known[i])
  /\ words[i].word = "IFELSE" => IfElseError(known[i]) = NoError
  /\ words[i].word = "_RETURN" =>
       /\ Len(known[i]) = Len(effect.outs)
       /\ TypeCheck(known[i], OutputTypes(effect.outs))

\* A stack of these items at j is or will be taken care of: the memoized
\* stack or that of an active call covers it.
CoveredAt(j, items) ==
  \/ j \in DOMAIN known /\ Covers(known[j], items)
  \/ \E k \in DOMAIN work : /\ work[k].at = j
                            /\ Covers(work[k].stack.items, items)

(***************************************************************************)
(* While computeEffect runs for a word whose inputs are declared, nothing  *)
(* it has seen is lost: where control goes from a word already visited,    *)
(* with the stack now memoized for that word, is covered by what is        *)
(* memoized or by a call still to be continued.                            *)
(***************************************************************************)
NothingLost ==
  phase \in {"checking", "checked"} /\ ~canAddInputs =>
    /\ work # <<>> \/ known # NothingKnown =>
         CoveredAt(1, InitialStack(effect).items)
    /\ \A i \in DOMAIN known :
         /\ CheckedAt(i)
         /\ words[i].word = "_RECURSE" => ~canAddOutputs
         /\ \A j \in Successors(i) : CoveredAt(j, Outcome(i, known[i]))

(***************************************************************************)
(* What the checker's approval means for a word whose inputs are declared: *)
(* the memoized stacks are a fixed point.  The first word's stack covers   *)
(* the declared inputs, every word visited accepts the final stack         *)
(* memoized for it, every successor's memoized stack covers the outcome,   *)
(* and RETURN sees exactly the outputs -- whatever order the branches and  *)
(* loops were traced in, and however often a merge changed a stack that    *)
(* had already been used.                                                  *)
(***************************************************************************)
FixedPoint ==
  phase = "checked" /\ ~canAddInputs =>
    /\ 1 \in DOMAIN known
    /\ Covers(known[1], InitialStack(effect).items)
    /\ \A i \in DOMAIN known :
         /\ CheckedAt(i)
         /\ \A j \in Successors(i) :
              /\ j \in DOMAIN known
              /\ Covers(known[j], Outcome(i, known[i]))

\* How deep the stack gets while the word at i runs.
Peak(i) ==
  Len(known[i]) + IF words[i].word = "_LITERAL" THEN 1
                                                ELSE NextEffect(i, known[i]).max

(***************************************************************************)
(* The effect's max, unless it is "unknown", covers the growth of the      *)
(* stack at every word visited.  run() (repl.cc, test.cc) allocates no     *)
(* more than this, and no word checks the stack as it runs.                *)
(***************************************************************************)
MaxCoversEveryWord ==
  phase = "checked" /\ effect.max # kUnknownMax =>
    \A i \in DOMAIN known : Peak(i) - Len(effect.ins) <= effect.max

\* The net effect of the word at i
NetAt(i) == IF words[i].word = "_LITERAL" THEN 1
                                          ELSE Net(NextEffect(i, known[i]))

\* The positions, with their stack depth, on the paths from the start.
DepthsReached ==
  LET after[n \in 0..(2 * Len(words))] ==
        IF n = 0 THEN {<<1, Len(effect.ins)>>}
        ELSE LET reached == after[n - 1]
             IN  reached \cup
                   UNION {{<<j, p[2] + NetAt(p[1])>> : j \in Successors(p[1])} :
                            p \in reached}
  IN  after[2 * Len(words)]

(***************************************************************************)
(* An accepted word, its inputs declared or deduced, is balanced on every  *)
(* path control can take: no word finds fewer items than it needs, and     *)
(* RETURN finds exactly the outputs.                                       *)
(***************************************************************************)
DepthsBalanced ==
  phase = "checked" =>
    \A p \in DepthsReached :
      LET i == p[1] IN
        /\ i \in DOMAIN known
        /\ words[i].word # "_LITERAL" =>
             p[2] >= Len(NextEffect(i, known[i]).ins)
        /\ words[i].word = "_RETURN" => p[2] = Len(effect.outs)

(***************************************************************************)
(* The effect a caller may already rely on never changes: outputs are      *)
(* settled by the first RETURN, inputs only grow while they are being      *)
(* deduced, and max never shrinks.                                         *)
(***************************************************************************)
EffectSettles ==
  [][/\ ~canAddOutputs => effect'.outs = effect.outs /\ ~canAddOutputs'
     /\ ~canAddInputs => effect'.ins = effect.ins /\ ~canAddInputs'
     /\ effect'.max >= effect.max]_vars

(***************************************************************************)
(* computeEffect terminates, although loops lead it back to words it has   *)
(* already been at and merging makes it trace them again.                  *)
(***************************************************************************)
CheckTerminates == phase = "checking" ~> phase # "checking"
=============================================================================

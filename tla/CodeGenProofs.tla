--------------------------- MODULE CodeGenProofs ----------------------------
(***************************************************************************)
(* Proofs about code generation: the layout loop's types, that the list it *)
(* leaves is still one the stack checker approves of, and that the code    *)
(* that is emitted says what that list says.                               *)
(*                                                                         *)
(* During the layout the invariant Laid(pos) speaks of the positions       *)
(* before pos; during the emission, when pos runs through the list again,  *)
(* Laid(Len(words) + 1) holds and Emitted speaks of the positions before   *)
(* pos.                                                                    *)
(***************************************************************************)
EXTENDS CodeGen, StackCheckProofs

-----------------------------------------------------------------------------
(* The inductive invariant *)

\* The layout has not begun.
NotStarted ==
  /\ pos = 0 /\ pc = 0 /\ afterBranch = FALSE
  /\ interpCount = 0 /\ firstInterp = 0 /\ chase = 0
  /\ erased = {} /\ pcOf = NothingKnown /\ interpWord = NothingKnown
  /\ recursive = FALSE
  /\ instrs = <<>>

\* Up to the end of the check: the invariants of the front end and of the
\* checker, and what the layout will need of the list.
BeforeLayout ==
  /\ CheckLists /\ NothingLost /\ CheckEnds
  /\ Targets(words) /\ FirstPlain(words) /\ Len(words) <= MaxWords
  /\ NotStarted

\* The state of the layout loop: the positions before p have a pc or are
\* erased.
LayoutShape(p) ==
  /\ Finished(words) /\ Len(words) <= MaxWords
  /\ effect \in StackEffect
  /\ known \in [DOMAIN known -> Seq(Item)]
  /\ DOMAIN known \subseteq DOMAIN words
  /\ p \in 1..(Len(words) + 1)
  /\ pc \in Nat /\ afterBranch \in BOOLEAN /\ recursive \in BOOLEAN
  /\ erased \subseteq 1..(p - 1)
  /\ DOMAIN pcOf = 1..(p - 1) \ erased
  /\ DOMAIN interpWord \subseteq DOMAIN pcOf
  /\ interpCount \in 0..kMaxInterp
  /\ firstInterp \in 0..MaxWords
  /\ interpCount # 0 => firstInterp \in DOMAIN pcOf
  /\ chase \in 0..Len(words)
  /\ chase # 0 => p \in DOMAIN words /\ words[p].branchTo # 0

\* Where a branch may lead: the layout erases nothing else that is a target.
Destination(t) == words[t].isDst \/ t = Len(words)

\* What is erased is no destination, and nothing falls through into it.
LayoutTargets(p) ==
  /\ \A i \in DOMAIN words :
       words[i].branchTo # 0 => Destination(words[i].branchTo)
  /\ \A i \in DOMAIN words :
       i >= p /\ words[i].word = "_RECURSE" => words[i].branchTo \in {0, 1}
  /\ chase # 0 => Destination(chase)
  /\ \A i \in erased : ~words[i].isDst
  /\ 1 \notin erased
  /\ \A i \in DOMAIN words \ erased :
       i + 1 \in erased => words[i].word = "_BRANCH"
  /\ afterBranch =>
       p > 1 /\ (p - 1 \in erased \/ words[p - 1].word = "_BRANCH")

\* The memoized stacks are a fixed point of the list as it is now.
StillFixed ==
  /\ 1 \in DOMAIN known
  /\ Covers(known[1], InitialStack(effect).items)
  /\ \A i \in DOMAIN known :
       /\ CheckedAt(i)
       /\ \A j \in Successors(i) :
            j \in DOMAIN known /\ Covers(known[j], Outcome(i, known[i]))

\* The branch whose chain is followed may lead where the chain has led.
ChaseCovered(p) ==
  chase # 0 /\ p \in DOMAIN known /\ IsBranch(words[p].word) =>
    chase \in DOMAIN known /\ Covers(known[chase], Outcome(p, known[p]))

LayoutFixed(p) == ~canAddInputs => StillFixed /\ ChaseCovered(p)

\* Only branches and RECURSE have targets, and they are native words; the
\* first word can be a BRANCH only as a loop to itself.
BranchWords ==
  /\ \A i \in DOMAIN words :
       words[i].branchTo # 0 =>
         words[i].word \in {"_BRANCH", "_ZBRANCH", "_RECURSE"}
  /\ words[1].word = "_BRANCH" => words[1].branchTo = 1

\* The branch at i reaches t by a chain of BRANCHes.
Reaches(ws, i, t) ==
  /\ \A C \in SUBSET (DOMAIN ws) :
       BranchClosed(ws, C) /\ ws[i].branchTo \in C => t \in C
  /\ \E I \in SUBSET (DOMAIN ws) :
       /\ ws[i].branchTo \in I \cup {t}
       /\ \A p \in I : ws[p].word = "_BRANCH" /\ ws[p].branchTo \in I \cup {t}

\* The chain that is followed starts at the word being laid out.
ChainFollowed(p) == chase # 0 => Reaches(words, p, chase)

\* The calls of the group that starts at h
Members(h) == h..(h + interpWord[h].count - 1)

\* The group that starts at h: calls next to each other, the first behind the
\* INTERP word, that jump to the last one exactly if it returns.
GroupAt(h) ==
  /\ interpWord[h].count \in 1..kMaxInterp
  /\ \A m \in Members(h) :
       /\ m \in DOMAIN pcOf /\ ~IsNative(words[m].word)
       /\ m # h => m \notin DOMAIN interpWord
       /\ pcOf[m] = pcOf[h] + (m - h) + IF m = h THEN 0 ELSE 1
  /\ interpWord[h].tail = ReturnsImmediately(words, h + interpWord[h].count)

\* Every call is in a group, at its start if branches lead there.
Groups ==
  /\ \A h \in DOMAIN interpWord : GroupAt(h)
  /\ \A i \in DOMAIN pcOf : ~IsNative(words[i].word) =>
       /\ \E h \in DOMAIN interpWord : i \in Members(h)
       /\ words[i].isDst => i \in DOMAIN interpWord

\* The group that may still grow ends right before p.
OpenGroup(p) ==
  interpCount # 0 =>
    /\ firstInterp \in DOMAIN interpWord
    /\ interpWord[firstInterp].count = interpCount
    /\ firstInterp + interpCount = p
    /\ pc = pcOf[firstInterp] + interpCount + 1
    /\ ~afterBranch

\* How many cells the word at i takes
Size(i) ==
  IF i \in erased THEN 0
  ELSE IF IsNative(words[i].word) THEN Parameters(words[i].word) + 1
  ELSE IF i \in DOMAIN interpWord THEN 2
  ELSE 1

\* Every word starts where the one before it ends, the next one at pc.
PlacedBy(start, p) ==
  /\ start \in [Nat -> Nat]
  /\ start[1] = 0 /\ start[p] = pc
  /\ \A i \in 1..(p - 1) : start[i + 1] = start[i] + Size(i)
  /\ \A i \in DOMAIN pcOf : pcOf[i] = start[i]

\* What the layout knows of the code to come
Coded(p) ==
  /\ BranchWords /\ ChainFollowed(p)
  /\ Groups /\ OpenGroup(p)
  /\ \E start : PlacedBy(start, p)

\* The cells of a word's code
Instruction ==
  LET names == SpecialWords \cup Words \cup {"NOP"}
  IN  {OpCell(w) : w \in names} \cup {WordCell(w) : w \in names}
        \cup {LiteralCell(v) : v \in Literals \cup {NoLiteral}}
        \cup {OffsetCell(n) : n \in Int}
        \cup {InterpCell(c, t) : c \in Nat, t \in BOOLEAN}

\* The word at i is in the code, at its pc.
EmittedAt(i) ==
  /\ pcOf[i] + Size(i) <= Len(instrs)
  /\ \E wild \in WildOffsets :
       \A k \in 1..Size(i) : instrs[pcOf[i] + k] = Cells(i, wild)[k]

\* The words before pos are, and nothing else.
Emitted ==
  /\ instrs \in Seq(Instruction)
  /\ \E start : PlacedBy(start, Len(words) + 1) /\ Len(instrs) = start[pos]
  /\ \A i \in 1..(pos - 1) \ erased : EmittedAt(i)

\* The words before p are laid out.
Laid(p) == LayoutShape(p) /\ LayoutTargets(p) /\ LayoutFixed(p) /\ Coded(p)

\* The optimizations are done, and the words are being emitted.
Emission ==
  /\ Laid(Len(words) + 1)
  /\ pos \in 1..(Len(words) + 1)
  /\ phase = "compiled" => pos = Len(words) + 1
  /\ Emitted

GenInv ==
  IF phase = "layout" THEN Laid(pos) /\ instrs = <<>>
  ELSE IF phase \in {"emitting", "compiled"} THEN Emission
  ELSE BeforeLayout

-----------------------------------------------------------------------------
(* Changing one word of the finished list *)

\* The list stays finished when a branch gets another target, or a RECURSE
\* becomes a branch.
LEMMA ChangedList ==
  ASSUME NEW ws, Finished(ws), NEW i \in DOMAIN ws,
         NEW new \in Seq(SourceWord), Len(new) = Len(ws),
         \A j \in DOMAIN ws : j # i => new[j] = ws[j],
         new[i].branchTo \in 1..Len(ws), new[i].lit = ws[i].lit,
         \/ new[i].word = ws[i].word
         \/ ws[i].word = "_RECURSE" /\ new[i].word = "_BRANCH"
  PROVE  Finished(new)
<1> DEFINE n == Len(ws)
<1>1. /\ ws \in Seq(SourceWord) /\ n \in Nat /\ n >= 1 /\ DOMAIN ws = 1..n
      /\ ws[n].word = "_RETURN"
      /\ \A j \in 1..(n - 1) : Stored(ws[j])
      /\ \A j \in 1..n : ws[j].branchTo \in 0..n
      /\ Resolved(ws, <<>>)
  BY DEF Finished
<1>2. /\ DOMAIN new = 1..n
      /\ \A j \in 1..n : j # i => new[j] = ws[j]
  <2>1. DOMAIN new = 1..Len(new)
    OBVIOUS
  <2>2. QED
    BY <1>1, <2>1
<1>3. new[n].word = "_RETURN"
  <2>1. n \in 1..n
    BY <1>1
  <2>2. ws[n].word # "_RECURSE"
    BY <1>1
  <2>3. QED
    BY <1>1, <1>2, <2>1, <2>2
<1>4. ASSUME NEW j \in 1..(n - 1) PROVE Stored(new[j])
  <2>1. Stored(ws[j]) /\ j \in 1..n
    BY <1>1
  <2>2. QED
    BY <1>2, <2>1 DEF Stored
<1>5. ASSUME NEW j \in 1..n PROVE new[j].branchTo \in 0..n
  <2>1. new[i].branchTo \in 0..n
    BY <1>1
  <2>2. QED
    BY <1>1, <1>2, <2>1
<1>6. Resolved(new, <<>>)
  <2>1. OpenBranches(<<>>) = {}
    BY DEF OpenBranches
  <2>2. \A j \in 1..n : ~(IsBranch(ws[j].word) /\ ws[j].branchTo = 0)
    BY <1>1, <2>1 DEF Resolved
  <2>3. new[i].branchTo # 0
    BY <1>1
  <2>4. QED
    BY <1>2, <2>1, <2>2, <2>3 DEF Resolved
<1>7. QED
  BY <1>1, <1>3, <1>4, <1>5, <1>6 DEF Finished

\* The two ways the layout changes a word: a branch is redirected, and a
\* RECURSE becomes a BRANCH.
Redirect(ws, i, t) == [ws EXCEPT ![i].branchTo = t]
MakeBranch(ws, i) == [ws EXCEPT ![i].word = "_BRANCH"]

\* The branch at i redirected to t
LEMMA Redirected ==
  ASSUME NEW ws, Finished(ws), NEW i \in DOMAIN ws, NEW t \in 1..Len(ws),
         NEW new, new = Redirect(ws, i, t)
  PROVE  /\ Finished(new) /\ Len(new) = Len(ws) /\ DOMAIN new = DOMAIN ws
         /\ new[i].branchTo = t
         /\ \A j \in DOMAIN ws :
              /\ new[j].word = ws[j].word /\ new[j].lit = ws[j].lit
              /\ new[j].isDst = ws[j].isDst
              /\ j # i => new[j].branchTo = ws[j].branchTo
<1> DEFINE sw == [ws[i] EXCEPT !.branchTo = t]
<1>1. ws \in Seq(SourceWord) /\ ws[i] \in SourceWord /\ t \in Nat
  BY DEF Finished
<1>2. /\ sw \in SourceWord /\ sw.branchTo = t /\ sw.word = ws[i].word
      /\ sw.lit = ws[i].lit /\ sw.isDst = ws[i].isDst
  <2> DEFINE r == ws[i]
  <2> HIDE DEF r
  <2>1. ASSUME r \in SourceWord
        PROVE  /\ [r EXCEPT !.branchTo = t] \in SourceWord
               /\ [r EXCEPT !.branchTo = t].branchTo = t
               /\ [r EXCEPT !.branchTo = t].word = r.word
               /\ [r EXCEPT !.branchTo = t].lit = r.lit
               /\ [r EXCEPT !.branchTo = t].isDst = r.isDst
    BY <1>1, <2>1 DEF SourceWord
  <2>2. QED
    BY <1>1, <2>1 DEF r
<1>3. new = [ws EXCEPT ![i] = sw]
  BY DEF Redirect
<1> HIDE DEF sw
<1>4. /\ new \in Seq(SourceWord) /\ Len(new) = Len(ws)
      /\ DOMAIN new = DOMAIN ws /\ new[i] = sw
      /\ \A j \in DOMAIN ws : j # i => new[j] = ws[j]
  BY <1>1, <1>2, <1>3
<1>5. Finished(new)
  <2>1. new[i].branchTo \in 1..Len(ws)
    BY <1>2, <1>4
  <2>2. QED
    BY <1>2, <1>4, <2>1, ChangedList
<1>6. QED
  BY <1>2, <1>4, <1>5

\* The RECURSE at i made a BRANCH
LEMMA MadeBranch ==
  ASSUME NEW ws, Finished(ws), NEW i \in DOMAIN ws, ws[i].branchTo # 0,
         ws[i].word = "_RECURSE", NEW new,
         new = MakeBranch(ws, i)
  PROVE  /\ Finished(new) /\ Len(new) = Len(ws) /\ DOMAIN new = DOMAIN ws
         /\ new[i].word = "_BRANCH"
         /\ \A j \in DOMAIN ws :
              /\ new[j].lit = ws[j].lit
              /\ new[j].isDst = ws[j].isDst
              /\ new[j].branchTo = ws[j].branchTo
              /\ j # i => new[j].word = ws[j].word
<1> DEFINE sw == [ws[i] EXCEPT !.word = "_BRANCH"]
<1>1. /\ ws \in Seq(SourceWord) /\ ws[i] \in SourceWord
      /\ ws[i].branchTo \in 1..Len(ws)
  BY DEF Finished
<1>2. /\ sw \in SourceWord /\ sw.branchTo = ws[i].branchTo
      /\ sw.word = "_BRANCH" /\ sw.lit = ws[i].lit /\ sw.isDst = ws[i].isDst
  <2> DEFINE r == ws[i]
  <2> HIDE DEF r
  <2>1. ASSUME r \in SourceWord
        PROVE  /\ [r EXCEPT !.word = "_BRANCH"] \in SourceWord
               /\ [r EXCEPT !.word = "_BRANCH"].branchTo = r.branchTo
               /\ [r EXCEPT !.word = "_BRANCH"].word = "_BRANCH"
               /\ [r EXCEPT !.word = "_BRANCH"].lit = r.lit
               /\ [r EXCEPT !.word = "_BRANCH"].isDst = r.isDst
    BY <2>1 DEF SourceWord, SpecialWords
  <2>2. QED
    BY <1>1, <2>1 DEF r
<1>3. new = [ws EXCEPT ![i] = sw]
  BY DEF MakeBranch
<1> HIDE DEF sw
<1>4. /\ new \in Seq(SourceWord) /\ Len(new) = Len(ws)
      /\ DOMAIN new = DOMAIN ws /\ new[i] = sw
      /\ \A j \in DOMAIN ws : j # i => new[j] = ws[j]
  BY <1>1, <1>2, <1>3
<1>5. Finished(new)
  BY <1>1, <1>2, <1>4, ChangedList
<1>6. QED
  BY <1>2, <1>4, <1>5

-----------------------------------------------------------------------------
(* Up to the end of the check *)

\* The front end and the checker are at work in two phases.
LEMMA NextPhases ==
  ASSUME Next
  PROVE  /\ phase \in {"parsing", "checking"}
         /\ phase' \in {"parsing", "checking", "checked", "error"}
<1>1. CASE ParseNext
  BY <1>1 DEF ParseNext, ParseToken, ParseLiteral, ParseWord,
    ParseInlineWord, ParseUnknownWord, ParseIf, ParseElse, ParseThen,
    ParseBegin, ParseWhile, ParseRepeat, ParseRecurse, ParseUnmatched,
    Finish, FinishTooEarly, Parsed, ParseFails, Fail
<1>2. CASE CheckStep
  BY <1>2 DEF CheckStep, StartCheck, CheckMemoized, Checking,
    CheckInconsistent, CheckLiteral, CheckCallFails, CheckWord,
    CheckBranch, CheckZBranch, CheckReturn, CheckReturnFails, Call,
    CheckFails, Fail, compilerVars, CheckDone
<1>3. QED
  BY <1>1, <1>2 DEF Next

\* The checker changes no word.
LEMMA CheckKeepsWords ==
  ASSUME CheckStep
  PROVE  words' = words \/ words' = <<>>
BY DEF CheckStep, StartCheck, CheckMemoized, CheckInconsistent, CheckLiteral,
    CheckCallFails, CheckWord, CheckBranch, CheckZBranch, CheckReturn,
    CheckReturnFails, Call, CheckFails, Fail, compilerVars, CheckDone

\* Every step before the layout keeps its part of the invariant.
LEMMA BeforeLayoutKept ==
  ASSUME InlinesAreStraight, BeforeLayout, [Next]_vars,
         UNCHANGED <<layoutVars, instrs>>
  PROVE  BeforeLayout'
<1>1. CheckLists' /\ NothingLost' /\ CheckEnds'
  BY NextKeeps, CheckEndsKept DEF BeforeLayout
<1>2. NotStarted'
  BY DEF BeforeLayout, NotStarted, layoutVars
<1>3. Targets(words)' /\ FirstPlain(words)' /\ Len(words') <= MaxWords
  <2>1. CASE ParseNext
    BY <2>1, ParseKeepsTargets, ParseKeepsFirst DEF BeforeLayout, CheckLists
  <2>2. CASE CheckStep \/ UNCHANGED vars
    <3>1. CASE words' = words
      BY <3>1 DEF BeforeLayout
    <3>2. CASE words' = <<>>
      BY <3>2, CompilerAssumption DEF Targets, FirstPlain
    <3>3. QED
      BY <2>2, <3>1, <3>2, CheckKeepsWords DEF vars, compilerVars
  <2>3. QED
    BY <2>1, <2>2 DEF Next
<1>4. QED
  BY <1>1, <1>2, <1>3 DEF BeforeLayout

\* The layout starts on a list the checker has approved of.
LEMMA StartLayoutKept ==
  ASSUME BeforeLayout, StartLayout
  PROVE  LayoutShape(pos)' /\ LayoutTargets(pos)' /\ LayoutFixed(pos)'
<1>1. /\ phase = "checked" /\ phase' = "layout" /\ pos' = 1
      /\ UNCHANGED <<words, effect, canAddInputs, known, pc, afterBranch,
                     interpCount, firstInterp, chase, erased, pcOf,
                     interpWord, recursive>>
  BY DEF StartLayout, setup, checkVars
<1>2. /\ Finished(words) /\ effect \in StackEffect
      /\ known \in [DOMAIN known -> Seq(Item)] /\ DOMAIN known \subseteq DOMAIN words
      /\ Targets(words) /\ Len(words) <= MaxWords /\ NotStarted
  BY <1>1 DEF BeforeLayout, CheckLists, ListsOK, SetupOK
<1>3. FixedPoint
  BY CheckedFixed DEF BeforeLayout
<1>4. words \in Seq(SourceWord) /\ Len(words) \in Nat /\ Len(words) >= 1
  BY <1>2 DEF Finished
<1>5. LayoutShape(pos)'
  <2>1. DOMAIN NothingKnown = {}
    BY DEF NothingKnown
  <2>2. 1..(1 - 1) = {} /\ 0 \in 0..kMaxInterp /\ 0 \in 0..MaxWords
        /\ 0 \in 0..Len(words) /\ 1 \in 1..(Len(words) + 1)
    BY <1>4, CompilerAssumption DEF kMaxInterp
  <2>3. QED
    BY <1>1, <1>2, <2>1, <2>2 DEF LayoutShape, NotStarted
<1>6. LayoutTargets(pos)'
  <2>1. /\ chase' = 0 /\ erased' = {} /\ afterBranch' = FALSE
    BY <1>1, <1>2 DEF NotStarted
  <2>2. QED
    BY <1>1, <1>2, <2>1 DEF LayoutTargets, Destination, Targets
<1>7. LayoutFixed(pos)'
  <2>1. chase' = 0
    BY <1>1, <1>2 DEF NotStarted
  <2>2. ~canAddInputs => StillFixed
    BY <1>1, <1>3 DEF FixedPoint, StillFixed
  <2>3. StillFixed => StillFixed'
    BY <1>1 DEF StillFixed, CheckedAt, Successors, Outcome, NextEffect,
                RecurseEffect
  <2>4. QED
    BY <1>1, <2>1, <2>2, <2>3 DEF LayoutFixed, ChaseCovered
<1>8. QED
  BY <1>5, <1>6, <1>7

-----------------------------------------------------------------------------
(* The steps of the layout loop *)

\* What the layout loop knows of its bounds
LEMMA ShapeFacts ==
  ASSUME NEW p, LayoutShape(p)
  PROVE  /\ words \in Seq(SourceWord) /\ Len(words) \in Nat /\ Len(words) >= 1
         /\ DOMAIN words = 1..Len(words)
         /\ MaxWords \in Nat /\ Len(words) <= MaxWords
         /\ p \in 1..(Len(words) + 1)
         /\ erased \subseteq 1..(p - 1)
BY CompilerAssumption DEF LayoutShape, Finished

\* A position that has been passed
LEMMA Passed ==
  ASSUME NEW n \in Nat, NEW p \in 1..n
  PROVE  /\ p + 1 \in 1..(n + 1)
         /\ (p + 1) - 1 = p
         /\ 1..p = 1..(p - 1) \cup {p}
         /\ p \notin 1..(p - 1)
         /\ 1..(p - 1) \subseteq 1..p
OBVIOUS

\* A word given its pc joins those that have one.
LEMMA UpdatedDomain ==
  ASSUME NEW f, NEW i, NEW v
  PROVE  DOMAIN Updated(f, i, v) = DOMAIN f \cup {i}
BY DEF Updated

\* The fixed point does not depend on the state of the layout.
LEMMA FixedStays ==
  ASSUME UNCHANGED <<words, effect, known, canAddInputs>>,
         ~canAddInputs => StillFixed
  PROVE  ~canAddInputs' => StillFixed'
BY DEF StillFixed, CheckedAt, Successors, Outcome, NextEffect, RecurseEffect

\* A step that leaves all of it alone
LEMMA LayoutUnchanged ==
  ASSUME NEW p, LayoutShape(p), LayoutTargets(p), LayoutFixed(p),
         UNCHANGED <<words, effect, known, canAddInputs, pc, afterBranch,
                     interpCount, firstInterp, chase, erased, pcOf,
                     interpWord, recursive>>
  PROVE  LayoutShape(p)' /\ LayoutTargets(p)' /\ LayoutFixed(p)'
<1>1. LayoutShape(p)'
  BY DEF LayoutShape
<1>2. LayoutTargets(p)'
  BY DEF LayoutTargets, Destination
<1>3. ~canAddInputs' => StillFixed'
  BY FixedStays DEF LayoutFixed
<1>4. ~canAddInputs' => ChaseCovered(p)'
  BY DEF LayoutFixed, ChaseCovered, Outcome, NextEffect, RecurseEffect
<1>5. QED
  BY <1>1, <1>2, <1>3, <1>4 DEF LayoutFixed

\* The end of an iteration keeps the shape.
LEMMA DoneShape ==
  ASSUME LayoutShape(pos), pos \in DOMAIN words, Finished(words'),
         Len(words') = Len(words), UNCHANGED <<effect, known>>, NEW w,
         NativeDone(w), chase' = 0, recursive' \in BOOLEAN
  PROVE  LayoutShape(pos)'
<1> DEFINE n == Len(words)
<1>1. /\ n \in Nat /\ DOMAIN words = 1..n /\ pos \in 1..n
      /\ n <= MaxWords /\ pc \in Nat
      /\ erased \subseteq 1..(pos - 1)
      /\ DOMAIN pcOf = 1..(pos - 1) \ erased
      /\ DOMAIN interpWord \subseteq DOMAIN pcOf
      /\ firstInterp \in 0..MaxWords
  BY ShapeFacts DEF LayoutShape
<1>2. /\ pcOf' = Updated(pcOf, pos, pc) /\ interpCount' = 0
      /\ pc' = pc + Parameters(w) + 1 /\ pos' = pos + 1
      /\ afterBranch' \in BOOLEAN
      /\ firstInterp' = firstInterp /\ erased' = erased
      /\ interpWord' = interpWord
  BY DEF NativeDone
<1>3. pc' \in Nat
  BY <1>1, <1>2 DEF Parameters
<1>4. DOMAIN pcOf' = DOMAIN pcOf \cup {pos}
  BY <1>2, UpdatedDomain
<1>5. /\ pos' \in 1..(n + 1) /\ pos' - 1 = pos
      /\ 1..pos = 1..(pos - 1) \cup {pos} /\ pos \notin 1..(pos - 1)
  BY <1>1, <1>2, Passed
<1>6. DOMAIN words' = DOMAIN words
  <2>1. words' \in Seq(SourceWord)
    BY DEF Finished
  <2>2. DOMAIN words' = 1..Len(words')
    BY <2>1
  <2>3. QED
    BY <1>1, <2>2
<1>7. DOMAIN pcOf' = 1..(pos' - 1) \ erased' /\ erased' \subseteq 1..(pos' - 1)
  BY <1>1, <1>2, <1>4, <1>5
<1>8. interpCount' \in 0..kMaxInterp
  BY <1>2 DEF kMaxInterp
<1>9. DOMAIN interpWord' \subseteq DOMAIN pcOf'
  BY <1>1, <1>2, <1>4
<1>10. chase' \in 0..Len(words')
  BY <1>1
<1>11. /\ effect' \in StackEffect /\ known' \in [DOMAIN known' -> Seq(Item)]
       /\ DOMAIN known' \subseteq DOMAIN words'
  BY <1>6 DEF LayoutShape
<1>12. QED
  BY <1>1, <1>2, <1>3, <1>5, <1>7, <1>8, <1>9, <1>10, <1>11 DEF LayoutShape

\* The end of an iteration keeps what is known of destinations.
LEMMA DoneTargets ==
  ASSUME LayoutShape(pos), LayoutTargets(pos), pos \in DOMAIN words,
         Len(words') = Len(words), DOMAIN words' = DOMAIN words,
         \A i \in DOMAIN words : /\ words'[i].word = words[i].word
                                 /\ words'[i].isDst = words[i].isDst
                                 /\ i # pos => words'[i].branchTo = words[i].branchTo,
         words'[pos].branchTo # 0 =>
           words'[pos].branchTo \in DOMAIN words /\ Destination(words'[pos].branchTo),
         chase' = 0, erased' = erased, pos' = pos + 1,
         afterBranch' => words[pos].word = "_BRANCH"
  PROVE  LayoutTargets(pos)'
<1> DEFINE n == Len(words)
<1>1. /\ n \in Nat /\ DOMAIN words = 1..n /\ pos \in 1..n
      /\ erased \subseteq 1..(pos - 1)
      /\ \A i \in DOMAIN words : words[i].branchTo \in 0..n
  BY ShapeFacts DEF LayoutShape, Finished
<1>2. ASSUME NEW i \in DOMAIN words, words'[i].branchTo # 0
      PROVE  Destination(words[i].branchTo)'
  <2>1. words'[i].branchTo \in DOMAIN words /\ Destination(words'[i].branchTo)
    <3>1. CASE i = pos
      BY <1>2, <3>1
    <3>2. CASE i # pos
      <4>1. words'[i].branchTo = words[i].branchTo
        BY <3>2
      <4>2. Destination(words[i].branchTo)
        BY <1>2, <4>1 DEF LayoutTargets
      <4>3. words[i].branchTo \in 1..n
        BY <1>1, <1>2, <4>1
      <4>4. QED
        BY <1>1, <4>1, <4>2, <4>3
    <3>3. QED
      BY <3>1, <3>2
  <2>2. QED
    BY <2>1 DEF Destination
<1>3. ASSUME NEW i \in DOMAIN words, i >= pos', words'[i].word = "_RECURSE"
      PROVE  words'[i].branchTo \in {0, 1}
  <2>1. i >= pos /\ i # pos
    BY <1>1, <1>3
  <2>2. QED
    BY <1>3, <2>1 DEF LayoutTargets
<1>4. \A i \in erased : i \in DOMAIN words
  BY <1>1
<1>5. \A i \in erased' : ~words'[i].isDst
  BY <1>4 DEF LayoutTargets
<1>6. \A i \in DOMAIN words' \ erased' :
        i + 1 \in erased' => words'[i].word = "_BRANCH"
  BY DEF LayoutTargets
<1>7. afterBranch' => pos' > 1 /\ words'[pos' - 1].word = "_BRANCH"
  BY <1>1
<1>8. 1 \notin erased'
  BY DEF LayoutTargets
<1>9. QED
  BY <1>2, <1>3, <1>5, <1>6, <1>7, <1>8 DEF LayoutTargets

\* A native word that is no branch is laid out.
LEMMA NativeKept ==
  ASSUME LayoutShape(pos), LayoutTargets(pos), LayoutFixed(pos), LayoutNative
  PROVE  LayoutShape(pos)' /\ LayoutTargets(pos)' /\ LayoutFixed(pos)'
<1>1. /\ pos \in DOMAIN words /\ words[pos].branchTo = 0
      /\ UNCHANGED <<words, effect, known, canAddInputs, chase, recursive>>
      /\ chase = 0 /\ NativeDone(words[pos].word)
  BY ShapeFacts DEF LayoutNative, AtWord, vars, compilerVars, setup, checkVars
<1>2. LayoutShape(pos)'
  <2>1. Finished(words') /\ recursive' \in BOOLEAN
    BY <1>1 DEF LayoutShape
  <2>2. QED
    BY <1>1, <2>1, DoneShape
<1>3. LayoutTargets(pos)'
  BY <1>1, DoneTargets DEF NativeDone
<1>4. LayoutFixed(pos)'
  BY <1>1, FixedStays DEF LayoutFixed, ChaseCovered
<1>5. QED
  BY <1>2, <1>3, <1>4

\* An unreachable word is erased.
LEMMA EraseKept ==
  ASSUME LayoutShape(pos), LayoutTargets(pos), LayoutFixed(pos), EraseUnreachable
  PROVE  LayoutShape(pos)' /\ LayoutTargets(pos)' /\ LayoutFixed(pos)'
<1> DEFINE n == Len(words)
<1>1. /\ n \in Nat /\ DOMAIN words = 1..n /\ pos \in 1..n
      /\ UNCHANGED <<words, effect, known, canAddInputs, pc, afterBranch,
                     interpCount, firstInterp, chase, pcOf, interpWord,
                     recursive>>
      /\ chase = 0 /\ afterBranch /\ ~words[pos].isDst
      /\ erased' = erased \cup {pos} /\ pos' = pos + 1
      /\ erased \subseteq 1..(pos - 1)
  BY ShapeFacts DEF EraseUnreachable, Unreachable, AtWord, vars, compilerVars,
                    setup, checkVars
<1>2. /\ pos' \in 1..(n + 1) /\ pos' - 1 = pos
      /\ 1..pos = 1..(pos - 1) \cup {pos} /\ pos \notin 1..(pos - 1)
  BY <1>1, Passed
<1>3. LayoutShape(pos)'
  <2>1. erased' \subseteq 1..(pos' - 1)
        /\ 1..(pos' - 1) \ erased' = 1..(pos - 1) \ erased
    BY <1>1, <1>2
  <2>2. QED
    BY <1>1, <1>2, <2>1 DEF LayoutShape
<1>4. LayoutTargets(pos)'
  <2>1. pos > 1 /\ (pos - 1 \in erased \/ words[pos - 1].word = "_BRANCH")
    BY <1>1 DEF LayoutTargets
  <2>2. 1 \notin erased'
    BY <1>1, <2>1 DEF LayoutTargets
  <2>3. ASSUME NEW i \in DOMAIN words \ erased', i + 1 \in erased'
        PROVE  words[i].word = "_BRANCH"
    <3>1. CASE i + 1 = pos
      BY <1>1, <2>1, <2>3, <3>1
    <3>2. CASE i + 1 # pos
      BY <1>1, <2>3, <3>2 DEF LayoutTargets
    <3>3. QED
      BY <3>1, <3>2
  <2>4. ASSUME NEW i \in DOMAIN words, i >= pos', words[i].word = "_RECURSE"
        PROVE  words[i].branchTo \in {0, 1}
    <3>1. i >= pos
      BY <1>1, <2>4
    <3>2. QED
      BY <2>4, <3>1 DEF LayoutTargets
  <2>5. pos' > 1 /\ pos' - 1 \in erased'
    BY <1>1
  <2>6. \A i \in erased' : ~words[i].isDst
    BY <1>1 DEF LayoutTargets
  <2>7. \A i \in DOMAIN words :
          words[i].branchTo # 0 => Destination(words[i].branchTo)
    BY DEF LayoutTargets
  <2>8. QED
    BY <1>1, <2>2, <2>3, <2>4, <2>5, <2>6, <2>7 DEF LayoutTargets, Destination
<1>5. LayoutFixed(pos)'
  BY <1>1, FixedStays DEF LayoutFixed, ChaseCovered
<1>6. QED
  BY <1>3, <1>4, <1>5

\* A call of an interpreted word starts a group or joins one.
LEMMA InterpKept ==
  ASSUME LayoutShape(pos), LayoutTargets(pos), LayoutFixed(pos), LayoutInterp
  PROVE  LayoutShape(pos)' /\ LayoutTargets(pos)' /\ LayoutFixed(pos)'
<1> DEFINE n == Len(words)
           first == IF StartsGroup(pos) THEN pos ELSE firstInterp
           count == IF StartsGroup(pos) THEN 1 ELSE interpCount + 1
           cell == [tail |-> ReturnsImmediately(words, pos + 1),
                    count |-> count]
<1>1. /\ n \in Nat /\ DOMAIN words = 1..n /\ pos \in 1..n /\ n <= MaxWords
      /\ MaxWords \in Nat
      /\ UNCHANGED <<words, effect, known, canAddInputs, chase, erased,
                     recursive>>
      /\ chase = 0 /\ afterBranch' = FALSE
      /\ pos' = pos + 1 /\ pcOf' = Updated(pcOf, pos, pc)
  BY ShapeFacts DEF LayoutInterp, AtWord, vars, compilerVars, setup, checkVars
<1>2. /\ firstInterp' = first /\ interpCount' = count
      /\ interpWord' = Updated(interpWord, first, cell)
      /\ pc' = pc + (IF StartsGroup(pos) THEN 2 ELSE 1)
  BY DEF LayoutInterp
<1>3. /\ pc \in Nat /\ erased \subseteq 1..(pos - 1)
      /\ DOMAIN pcOf = 1..(pos - 1) \ erased
      /\ DOMAIN interpWord \subseteq DOMAIN pcOf
      /\ interpCount \in 0..kMaxInterp /\ firstInterp \in 0..MaxWords
      /\ interpCount # 0 => firstInterp \in DOMAIN pcOf
  BY DEF LayoutShape
<1>4. first \in DOMAIN pcOf \cup {pos} /\ first \in 0..MaxWords
  BY <1>1, <1>3 DEF StartsGroup
<1>5. count \in 0..kMaxInterp
  BY <1>3 DEF StartsGroup, kMaxInterp
<1>6. pc' \in Nat
  BY <1>2, <1>3
<1> HIDE DEF first, count, cell
<1>7. /\ DOMAIN pcOf' = DOMAIN pcOf \cup {pos}
      /\ DOMAIN interpWord' = DOMAIN interpWord \cup {first}
  BY <1>1, <1>2, UpdatedDomain
<1>8. /\ pos' \in 1..(n + 1) /\ pos' - 1 = pos
      /\ 1..pos = 1..(pos - 1) \cup {pos} /\ pos \notin 1..(pos - 1)
  BY <1>1, Passed
<1>9. LayoutShape(pos)'
  <2>1. DOMAIN pcOf' = 1..(pos' - 1) \ erased' /\ erased' \subseteq 1..(pos' - 1)
    BY <1>1, <1>3, <1>7, <1>8
  <2>2. DOMAIN interpWord' \subseteq DOMAIN pcOf' /\ firstInterp' \in DOMAIN pcOf'
    BY <1>2, <1>3, <1>4, <1>7
  <2>3. QED
    BY <1>1, <1>2, <1>4, <1>5, <1>6, <1>8, <2>1, <2>2 DEF LayoutShape
<1>10. LayoutTargets(pos)'
  <2>1. words[pos].branchTo # 0 =>
          /\ words[pos].branchTo \in DOMAIN words
          /\ Destination(words[pos].branchTo)
    <3>1. words[pos].branchTo \in 0..n
      BY <1>1 DEF LayoutShape, Finished
    <3>2. QED
      BY <1>1, <3>1 DEF LayoutTargets
  <2>2. QED
    BY <1>1, <2>1, DoneTargets
<1>11. LayoutFixed(pos)'
  BY <1>1, FixedStays DEF LayoutFixed, ChaseCovered
<1>12. QED
  BY <1>9, <1>10, <1>11

-----------------------------------------------------------------------------
(* Branches *)

\* Where the word stays the same, so does what the checker said of it.
LEMMA SameCheckedAt ==
  ASSUME effect \in StackEffect, UNCHANGED <<effect, known>>, NEW i,
         words'[i].word = words[i].word, words'[i].lit = words[i].lit
  PROVE  /\ CheckedAt(i) => CheckedAt(i)'
         /\ Outcome(i, known[i])' = Outcome(i, known[i])
<1>1. \A items :
        /\ Outcome(i, items)' = Outcome(i, items)
        /\ Accepts(NextEffect(i, items), items)' <=>
             Accepts(NextEffect(i, items), items)
  BY OutcomeStable
<1>2. QED
  BY <1>1 DEF CheckedAt

\* A BRANCH accepts any stack and leaves it as it is.
LEMMA BranchLeaves ==
  ASSUME NEW i, words[i].word = "_BRANCH", NEW items \in Seq(Item)
  PROVE  /\ Outcome(i, items) = items
         /\ Accepts(NextEffect(i, items), items)
<1>1. NextEffect(i, items) = Effect(<<>>, <<>>)
  BY DEF NextEffect
<1>2. Outcome(i, items) = items
  BY <1>1, NoEffect DEF Outcome
<1>3. Effect(<<>>, <<>>).ins = <<>>
  <2>1. /\ <<>> \in Seq(TypeSet) /\ <<>> \in Seq(Output)
        /\ \A k \in DOMAIN <<>> : <<>>[k].match <= Len(<<>>)
    OBVIOUS
  <2>2. QED
    BY <2>1, EffectOK
<1>4. Accepts(Effect(<<>>, <<>>), items)
  BY <1>3 DEF Accepts, TypeCheck
<1>5. QED
  BY <1>1, <1>2, <1>4

\* The next branch of a chain leads where the one before it may lead.
LEMMA FollowKept ==
  ASSUME LayoutShape(pos), LayoutTargets(pos), LayoutFixed(pos), FollowChain
  PROVE  LayoutShape(pos)' /\ LayoutTargets(pos)' /\ LayoutFixed(pos)'
<1> DEFINE t == words[chase].branchTo
<1>1. /\ chase # 0 /\ chase \in DOMAIN words /\ words[chase].word = "_BRANCH"
      /\ chase' = t
      /\ UNCHANGED <<words, effect, known, canAddInputs, pos, pc, afterBranch,
                     interpCount, firstInterp, erased, pcOf, interpWord,
                     recursive>>
  <2>1. chase \in 0..Len(words)
    BY DEF LayoutShape
  <2>2. QED
    BY <2>1, ShapeFacts DEF FollowChain, NextInChain, vars, compilerVars,
                            setup, checkVars
<1>2. t \in DOMAIN words /\ t # 0
  <2>1. t \in DOMAIN words
    BY <1>1, FlowInside DEF LayoutShape, IsBranch
  <2>2. QED
    BY <2>1, ShapeFacts
<1> HIDE DEF t
<1>3. LayoutShape(pos)'
  <2>1. t \in 0..Len(words)
    BY <1>2, ShapeFacts
  <2>2. chase # 0 => pos \in DOMAIN words /\ words[pos].branchTo # 0
    BY DEF LayoutShape
  <2>3. QED
    BY <1>1, <1>2, <2>1, <2>2 DEF LayoutShape
<1>4. LayoutTargets(pos)'
  <2>1. Destination(t)
    BY <1>1, <1>2 DEF LayoutTargets, t
  <2>2. QED
    BY <1>1, <2>1 DEF LayoutTargets, Destination
<1>5. LayoutFixed(pos)'
  <2>1. ~canAddInputs' => StillFixed'
    BY <1>1, FixedStays DEF LayoutFixed
  <2>2. ASSUME ~canAddInputs, pos \in DOMAIN known, IsBranch(words[pos].word)
        PROVE  t \in DOMAIN known /\ Covers(known[t], Outcome(pos, known[pos]))
    <3>1. /\ chase \in DOMAIN known
          /\ Covers(known[chase], Outcome(pos, known[pos]))
      BY <1>1, <2>2 DEF LayoutFixed, ChaseCovered
    <3>2. t \in Successors(chase)
      BY <1>1 DEF Successors, IsBranch, t
    <3>3. t \in DOMAIN known /\ Covers(known[t], Outcome(chase, known[chase]))
      BY <2>2, <3>1, <3>2 DEF LayoutFixed, StillFixed
    <3>4. known[chase] \in Seq(Item)
      BY <3>1 DEF LayoutShape
    <3>5. Outcome(chase, known[chase]) = known[chase]
      BY <1>1, <3>4, BranchLeaves
    <3>6. QED
      BY <3>1, <3>3, <3>5, CoversTransitive
  <2>3. Outcome(pos, known[pos])' = Outcome(pos, known[pos])
    BY <1>1 DEF Outcome, NextEffect, RecurseEffect
  <2>4. QED
    BY <1>1, <2>1, <2>2, <2>3 DEF LayoutFixed, ChaseCovered
<1>6. QED
  BY <1>3, <1>4, <1>5

\* The branch is redirected to the end of its chain.
LEMMA EndKept ==
  ASSUME LayoutShape(pos), LayoutTargets(pos), LayoutFixed(pos), EndOfChain
  PROVE  LayoutShape(pos)' /\ LayoutTargets(pos)' /\ LayoutFixed(pos)'
<1>1. /\ chase # 0 /\ words' = [words EXCEPT ![pos].branchTo = chase]
      /\ chase' = 0 /\ NativeDone(words[pos].word)
      /\ UNCHANGED <<effect, known, canAddInputs, recursive>>
  BY DEF EndOfChain, setup, checkVars
<1>2. /\ pos \in DOMAIN words /\ chase \in 1..Len(words) /\ chase \in DOMAIN words
      /\ Finished(words) /\ Destination(chase)
  BY <1>1, ShapeFacts DEF LayoutShape, LayoutTargets
<1>3. /\ Finished(words') /\ Len(words') = Len(words)
      /\ DOMAIN words' = DOMAIN words
      /\ words'[pos].branchTo = chase
      /\ \A j \in DOMAIN words :
           /\ words'[j].word = words[j].word /\ words'[j].lit = words[j].lit
           /\ words'[j].isDst = words[j].isDst
           /\ j # pos => words'[j].branchTo = words[j].branchTo
  <2>1. words' = Redirect(words, pos, chase)
    BY <1>1 DEF Redirect
  <2>2. QED
    BY <1>2, <2>1, Redirected
<1>4. LayoutShape(pos)'
  <2>1. recursive' \in BOOLEAN
    BY <1>1 DEF LayoutShape
  <2>2. QED
    BY <1>1, <1>2, <1>3, <2>1, DoneShape
<1>5. LayoutTargets(pos)'
  BY <1>1, <1>2, <1>3, DoneTargets DEF NativeDone
<1>6. ASSUME ~canAddInputs PROVE StillFixed'
  <2>1. /\ StillFixed /\ ChaseCovered(pos) /\ effect \in StackEffect
        /\ DOMAIN known \subseteq DOMAIN words
    BY <1>6 DEF LayoutFixed, LayoutShape
  <2>2. 1 \in DOMAIN known' /\ Covers(known'[1], InitialStack(effect').items)
    BY <1>1, <2>1 DEF StillFixed
  <2>3. ASSUME NEW i \in DOMAIN known
        PROVE  /\ CheckedAt(i)'
               /\ \A j \in Successors(i)' :
                    j \in DOMAIN known /\ Covers(known[j], Outcome(i, known[i])')
    <3>1. i \in DOMAIN words
      BY <2>1
    <3>2. /\ CheckedAt(i) => CheckedAt(i)'
          /\ Outcome(i, known[i])' = Outcome(i, known[i])
      BY <1>1, <1>3, <2>1, <3>1, SameCheckedAt
    <3>3. /\ CheckedAt(i)
          /\ \A j \in Successors(i) :
               j \in DOMAIN known /\ Covers(known[j], Outcome(i, known[i]))
      BY <2>1 DEF StillFixed
    <3>4. CASE i # pos
      <4>1. Successors(i)' = Successors(i)
        BY <1>3, <3>1, <3>4 DEF Successors
      <4>2. QED
        BY <3>2, <3>3, <4>1
    <3>5. CASE i = pos
      <4>1. \A j \in Successors(i)' : j \in Successors(i) \/
              (j = chase /\ IsBranch(words[i].word))
        BY <1>3, <3>1, <3>5 DEF Successors
      <4>2. IsBranch(words[i].word) =>
              chase \in DOMAIN known /\ Covers(known[chase], Outcome(i, known[i]))
        BY <1>1, <2>1, <3>5 DEF ChaseCovered
      <4>3. QED
        BY <3>2, <3>3, <4>1, <4>2
    <3>6. QED
      BY <3>4, <3>5
  <2>4. QED
    BY <1>1, <2>2, <2>3 DEF StillFixed
<1>7. LayoutFixed(pos)'
  BY <1>1, <1>6 DEF LayoutFixed, ChaseCovered
<1>8. QED
  BY <1>4, <1>5, <1>7

\* RECURSE has the effect of the word it is in, but for max.
LEMMA RecurseInOut ==
  ASSUME effect \in StackEffect, NEW i
  PROVE  RecurseEffect(i).ins = effect.ins /\ RecurseEffect(i).outs = effect.outs
<1>1. kUnknownMax \in Int
  BY MaxNat
<1>2. /\ WithMax(effect, kUnknownMax).ins = effect.ins
      /\ WithMax(effect, kUnknownMax).outs = effect.outs
  BY <1>1, WithMaxOK
<1>3. QED
  BY <1>2 DEF RecurseEffect, WithUnknownMax

(***************************************************************************)
(* Tail recursion may become a loop.  The stack has the same depth all     *)
(* along the chain of branches behind the RECURSE, at its end the outputs  *)
(* of the word; so RECURSE found nothing below the inputs, and the first   *)
(* word accepts any inputs of the declared types.                          *)
(***************************************************************************)
LEMMA TailCovered ==
  ASSUME LayoutShape(pos), StillFixed, NEW p \in DOMAIN known,
         words[p].word = "_RECURSE", ReturnsImmediately(words, p + 1)
  PROVE  Covers(known[1], known[p])
<1> DEFINE items == known[p]
           next == known[p + 1]
           ins == effect.ins
           outs == effect.outs
           C == {q \in DOMAIN known : Len(known[q]) = Len(next)}
<1>1. /\ Finished(words) /\ effect \in StackEffect /\ p \in DOMAIN words
      /\ DOMAIN known \subseteq DOMAIN words
      /\ \A q \in DOMAIN known : known[q] \in Seq(Item)
  BY DEF LayoutShape
<1>2. /\ ins \in Seq(TypeSet) /\ Len(ins) \in Nat /\ Len(outs) \in Nat
      /\ DOMAIN ins = 1..Len(ins)
  BY <1>1, EffectFields
<1>3. Accepts(effect, items) /\ Outcome(p, items) = ItemsAfter(effect, items)
  <2>1. NextEffect(p, items) = RecurseEffect(p)
    BY DEF NextEffect
  <2>2. RecurseEffect(p).ins = effect.ins /\ RecurseEffect(p).outs = effect.outs
    BY <1>1, RecurseInOut
  <2>3. /\ Accepts(RecurseEffect(p), items) <=> Accepts(effect, items)
        /\ ItemsAfter(RecurseEffect(p), items) = ItemsAfter(effect, items)
    BY <2>2, MaxIrrelevant
  <2>4. Accepts(NextEffect(p, items), items)
    BY DEF StillFixed, CheckedAt
  <2>5. QED
    BY <2>1, <2>3, <2>4 DEF Outcome
<1>4. /\ p + 1 \in DOMAIN known
      /\ Covers(next, ItemsAfter(effect, items))
  <2>1. p + 1 \in Successors(p)
    BY DEF Successors
  <2>2. QED
    BY <1>3, <2>1 DEF StillFixed
<1>5. BranchClosed(words, C)
  <2> SUFFICES ASSUME NEW q \in C, words[q].word = "_BRANCH"
               PROVE  words[q].branchTo \in C
    BY DEF BranchClosed
  <2> DEFINE t == words[q].branchTo
  <2>1. t \in Successors(q) /\ q \in DOMAIN known /\ Len(known[q]) = Len(next)
    BY DEF Successors, IsBranch
  <2>2. t \in DOMAIN known /\ Covers(known[t], Outcome(q, known[q]))
    BY <2>1 DEF StillFixed
  <2>3. Outcome(q, known[q]) = known[q]
    BY <1>1, <2>1, BranchLeaves
  <2>4. Len(known[t]) = Len(known[q])
    BY <1>1, <2>1, <2>2, <2>3, CoversLen
  <2>5. QED
    BY <2>1, <2>2, <2>4
<1>6. PICK q \in C : words[q].word = "_RETURN"
  <2>1. C \in SUBSET (DOMAIN words) /\ p + 1 \in C
    BY <1>1, <1>4
  <2> HIDE DEF C
  <2>2. QED
    BY <1>5, <2>1 DEF ReturnsImmediately
<1>7. Len(next) = Len(outs)
  BY <1>6 DEF StillFixed, CheckedAt
<1>8. Len(items) = Len(ins)
  <2>1. items \in Seq(Item) /\ next \in Seq(Item)
    BY <1>1, <1>4
  <2>2. /\ ItemsAfter(effect, items) \in Seq(Item)
        /\ Len(ItemsAfter(effect, items)) = Len(items) - Len(ins) + Len(outs)
    BY <1>1, <1>3, <2>1, ItemsAfterOK
  <2>3. Len(ItemsAfter(effect, items)) = Len(next)
    BY <1>4, <2>1, <2>2, CoversLen
  <2>4. Len(items) \in Nat
    BY <2>1
  <2>5. QED
    BY <1>2, <1>7, <2>2, <2>3, <2>4
<1>9. items \in Seq(Item) /\ DOMAIN items = 1..Len(ins)
  BY <1>1, <1>8
<1>10. ASSUME NEW k \in 1..Len(ins) PROVE items[k].types \subseteq ins[k]
  <2>1. \A i \in 0..(Len(ins) - 1) :
          items[Len(items) - i].types \subseteq ins[Len(ins) - i]
    BY <1>3 DEF Accepts, TypeCheck, FromTop
  <2>2. /\ Len(ins) - k \in 0..(Len(ins) - 1)
        /\ Len(ins) - (Len(ins) - k) = k
    BY <1>2
  <2> HIDE DEF items, ins
  <2>3. QED
    BY <1>8, <2>1, <2>2
<1>11. /\ DOMAIN known[1] = 1..Len(ins)
       /\ \A k \in 1..Len(ins) : ItemCovers(known[1][k], TypeItem(ins[k]))
  <2>1. InitialStack(effect).items = [i \in DOMAIN ins |-> TypeItem(ins[i])]
    BY DEF InitialStack
  <2>2. Covers(known[1], InitialStack(effect).items)
    BY DEF StillFixed
  <2>3. QED
    BY <1>2, <2>1, <2>2 DEF Covers
<1>12. ASSUME NEW k \in 1..Len(ins) PROVE ItemCovers(known[1][k], items[k])
  <2>1. \A a, b, types : /\ ItemCovers(b, TypeItem(types))
                         /\ a.types \subseteq types
                         => ItemCovers(b, a)
    BY DEF ItemCovers, TypeItem
  <2>2. QED
    BY <1>10, <1>11, <2>1
<1>13. QED
  BY <1>9, <1>11, <1>12 DEF Covers

\* A branch's chain is started; a RECURSE in tail position becomes a branch.
LEMMA BranchKept ==
  ASSUME LayoutShape(pos), LayoutTargets(pos), LayoutFixed(pos), LayoutBranch
  PROVE  LayoutShape(pos)' /\ LayoutTargets(pos)' /\ LayoutFixed(pos)'
<1> DEFINE n == Len(words)
           t == words[pos].branchTo
<1>1. /\ n \in Nat /\ n >= 1 /\ DOMAIN words = 1..n /\ pos \in DOMAIN words
      /\ t # 0 /\ chase' = t /\ chase = 0
      /\ UNCHANGED <<effect, known, canAddInputs, pos, pc, afterBranch,
                     interpCount, firstInterp, erased, pcOf, interpWord>>
      /\ Finished(words) /\ erased \subseteq 1..(pos - 1)
      /\ effect \in StackEffect /\ DOMAIN known \subseteq DOMAIN words
  BY ShapeFacts DEF LayoutBranch, AtWord, setup, checkVars, LayoutShape
<1>2. t \in 1..n /\ Destination(t)
  BY <1>1 DEF Finished, LayoutTargets
<1>3. /\ words' = IF TailRecursion(words, pos) THEN MakeBranch(words, pos) ELSE words
      /\ recursive' \in BOOLEAN
  BY DEF LayoutBranch, MakeBranch, LayoutShape
<1> DEFINE tail == TailRecursion(words, pos)
<1>4. /\ Finished(words') /\ Len(words') = n /\ DOMAIN words' = DOMAIN words
      /\ \A j \in DOMAIN words :
           /\ words'[j].lit = words[j].lit
           /\ words'[j].isDst = words[j].isDst
           /\ words'[j].branchTo = words[j].branchTo
           /\ ~(tail /\ j = pos) => words'[j].word = words[j].word
      /\ tail => words'[pos].word = "_BRANCH"
  <2>1. CASE tail
    <3>1. words[pos].word = "_RECURSE" /\ words' = MakeBranch(words, pos)
      BY <1>3, <2>1 DEF TailRecursion
    <3>2. QED
      BY <1>1, <2>1, <3>1, MadeBranch
  <2>2. CASE ~tail
    BY <1>1, <1>3, <2>2
  <2>3. QED
    BY <2>1, <2>2
<1>5. tail => words[pos].word = "_RECURSE" /\ ReturnsImmediately(words, pos + 1)
  BY DEF TailRecursion
<1> HIDE DEF tail, t, n
<1>6. LayoutShape(pos)'
  <2>1. t \in 0..n
    BY <1>1, <1>2
  <2>2. words'[pos].branchTo # 0
    BY <1>1, <1>4 DEF t
  <2>3. QED
    BY <1>1, <1>3, <1>4, <2>1, <2>2 DEF LayoutShape, n
<1>7. LayoutTargets(pos)'
  <2>1. \A i \in DOMAIN words : words[i].branchTo \in 0..n
    BY <1>1 DEF Finished, n
  <2>2. ASSUME NEW d \in 1..n, Destination(d) PROVE Destination(d)'
    BY <1>1, <1>4, <2>2 DEF Destination, n
  <2>3. ASSUME NEW i \in DOMAIN words, words'[i].branchTo # 0
        PROVE  Destination(words[i].branchTo)'
    <3> DEFINE d == words[i].branchTo
    <3>1. words'[i].branchTo = d /\ d \in 1..n /\ Destination(d)
      BY <1>1, <1>4, <2>1, <2>3 DEF LayoutTargets
    <3>2. QED
      BY <1>1, <1>4, <3>1 DEF Destination, n
  <2>4. ASSUME NEW i \in DOMAIN words, i >= pos, words'[i].word = "_RECURSE"
        PROVE  words'[i].branchTo \in {0, 1}
    BY <1>4, <2>4 DEF LayoutTargets
  <2>5. Destination(chase)'
    BY <1>1, <1>2, <1>4 DEF Destination, n
  <2>6. \A i \in erased : i \in DOMAIN words
    BY <1>1, ShapeFacts
  <2>7. \A i \in erased : ~words'[i].isDst
    BY <1>4, <2>6 DEF LayoutTargets
  <2>8. ASSUME NEW i \in DOMAIN words \ erased, i + 1 \in erased
        PROVE  words'[i].word = "_BRANCH"
    BY <1>4, <2>8 DEF LayoutTargets
  <2>9. ASSUME afterBranch
        PROVE  pos > 1 /\ (pos - 1 \in erased \/ words'[pos - 1].word = "_BRANCH")
    <3>1. pos > 1 /\ (pos - 1 \in erased \/ words[pos - 1].word = "_BRANCH")
      BY <2>9 DEF LayoutTargets
    <3>2. pos - 1 \in DOMAIN words /\ pos - 1 # pos
      BY <1>1, <3>1
    <3>3. QED
      BY <1>4, <3>1, <3>2
  <2>10. 1 \notin erased
    BY DEF LayoutTargets
  <2>11. QED
    BY <1>1, <1>4, <2>3, <2>4, <2>5, <2>7, <2>8, <2>9, <2>10 DEF LayoutTargets
<1>8. ASSUME ~canAddInputs PROVE StillFixed' /\ ChaseCovered(pos)'
  <2>1. StillFixed
    BY <1>8 DEF LayoutFixed
  <2>2. \A i \in DOMAIN known : known[i] \in Seq(Item) /\ i \in DOMAIN words
    BY <1>1 DEF LayoutShape
  <2>3. 1 \in DOMAIN known' /\ Covers(known'[1], InitialStack(effect').items)
    BY <1>1, <2>1 DEF StillFixed
  <2>4. ASSUME NEW i \in DOMAIN known
        PROVE  /\ CheckedAt(i)'
               /\ \A j \in Successors(i)' :
                    j \in DOMAIN known /\ Covers(known[j], Outcome(i, known[i])')
    <3>1. /\ CheckedAt(i)
          /\ \A j \in Successors(i) :
               j \in DOMAIN known /\ Covers(known[j], Outcome(i, known[i]))
      BY <2>1 DEF StillFixed
    <3>2. CASE ~(tail /\ i = pos)
      <4>1. /\ CheckedAt(i) => CheckedAt(i)'
            /\ Outcome(i, known[i])' = Outcome(i, known[i])
        BY <1>1, <1>4, <2>2, <3>2, SameCheckedAt
      <4>2. Successors(i)' = Successors(i)
        BY <1>4, <2>2, <3>2 DEF Successors
      <4>3. QED
        BY <3>1, <4>1, <4>2
    <3>3. CASE tail /\ i = pos
      <4>1. Covers(known[1], known[i])
        BY <1>5, <2>1, <3>3, TailCovered
      <4>2. words[i].word = "_RECURSE" /\ i >= pos
        BY <1>1, <1>5, <3>3
      <4>3. t = 1
        BY <1>1, <1>2, <2>2, <3>3, <4>2 DEF LayoutTargets, t
      <4>4. words'[i].word = "_BRANCH" /\ words'[i].branchTo = 1
        BY <1>1, <1>4, <3>3, <4>3 DEF t
      <4>5. Successors(i)' = {1}
        BY <4>4 DEF Successors, IsBranch
      <4>6. known[i] \in Seq(Item) /\ known' = known
        BY <1>1, <2>2
      <4>7. NextEffect(i, known[i])' = Effect(<<>>, <<>>)
        BY <4>4 DEF NextEffect
      <4>8. /\ Outcome(i, known[i])' = known[i]
            /\ Accepts(NextEffect(i, known[i]), known[i])'
        <5>1. /\ <<>> \in Seq(TypeSet) /\ <<>> \in Seq(Output)
              /\ \A k \in DOMAIN <<>> : <<>>[k].match <= Len(<<>>)
          OBVIOUS
        <5>2. Effect(<<>>, <<>>).ins = <<>>
          BY <5>1, EffectOK
        <5>3. ItemsAfter(Effect(<<>>, <<>>), known[i]) = known[i]
          BY <4>6, NoEffect
        <5>4. Accepts(Effect(<<>>, <<>>), known[i])
          BY <4>6, <5>2 DEF Accepts, TypeCheck
        <5>5. QED
          BY <4>4, <4>6, <4>7, <5>3, <5>4 DEF Outcome
      <4>9. CheckedAt(i)'
        BY <4>4, <4>8 DEF CheckedAt
      <4>10. QED
        BY <2>1, <4>1, <4>5, <4>8, <4>9 DEF StillFixed
    <3>4. QED
      BY <3>2, <3>3
  <2>5. StillFixed'
    BY <1>1, <2>3, <2>4 DEF StillFixed
  <2>6. ChaseCovered(pos)'
    <3> SUFFICES ASSUME pos \in DOMAIN known, IsBranch(words'[pos].word)
                 PROVE  /\ t \in DOMAIN known
                        /\ Covers(known[t], Outcome(pos, known[pos])')
      BY <1>1 DEF ChaseCovered
    <3>1. t \in Successors(pos)'
      BY <1>1, <1>4 DEF Successors, t
    <3>2. QED
      BY <1>1, <2>4, <3>1
  <2>7. QED
    BY <2>5, <2>6
<1>9. QED
  BY <1>1, <1>6, <1>7, <1>8 DEF LayoutFixed

-----------------------------------------------------------------------------
(* What the layout settles of the code *)

\* Tail recursion made a loop changes no answer of returnsImmediately(): the
\* chain that now goes on to the first word found no RETURN before and finds
\* none there.
LEMMA TailReturns ==
  ASSUME NEW ws, NEW new, DOMAIN new = DOMAIN ws, NEW i \in DOMAIN ws,
         1 \in DOMAIN ws, ws[1].word # "_RETURN",
         ws[1].word = "_BRANCH" => ws[1].branchTo = 1,
         ws[i].word = "_RECURSE", ws[i].branchTo = 1,
         new[i].word = "_BRANCH",
         \A j \in DOMAIN ws : /\ new[j].branchTo = ws[j].branchTo
                              /\ j # i => new[j].word = ws[j].word,
         NEW q
  PROVE  ReturnsImmediately(new, q) = ReturnsImmediately(ws, q)
<1>1. ASSUME ReturnsImmediately(new, q),
             NEW C \in SUBSET (DOMAIN ws), q \in C, BranchClosed(ws, C)
      PROVE  \E p \in C : ws[p].word = "_RETURN"
  <2> DEFINE D == C \cup {1}
  <2>1. CASE i \notin C
    <3>1. BranchClosed(new, C)
      BY <1>1, <2>1 DEF BranchClosed
    <3>2. \E p \in C : new[p].word = "_RETURN"
      BY <1>1, <3>1 DEF ReturnsImmediately
    <3>3. QED
      BY <2>1, <3>2
  <2>2. CASE i \in C
    <3>1. ASSUME NEW p \in D, new[p].word = "_BRANCH" PROVE new[p].branchTo \in D
      <4>1. CASE p = i
        BY <4>1
      <4>2. CASE p # i
        BY <1>1, <3>1, <4>2 DEF BranchClosed
      <4>3. QED
        BY <4>1, <4>2
    <3>2. D \in SUBSET (DOMAIN new) /\ q \in D /\ BranchClosed(new, D)
      BY <1>1, <3>1 DEF BranchClosed
    <3> HIDE DEF D
    <3>3. PICK p \in D : new[p].word = "_RETURN"
      BY <1>1, <3>2 DEF ReturnsImmediately
    <3>4. p # i /\ ws[p].word = "_RETURN"
      BY <3>2, <3>3
    <3>5. QED
      BY <3>3, <3>4 DEF D
  <2>3. QED
    BY <2>1, <2>2
<1>2. ASSUME ReturnsImmediately(ws, q),
             NEW C \in SUBSET (DOMAIN ws), q \in C, BranchClosed(new, C)
      PROVE  \E p \in C : new[p].word = "_RETURN"
  <2>1. BranchClosed(ws, C)
    BY <1>2 DEF BranchClosed
  <2>2. PICK p \in C : ws[p].word = "_RETURN"
    BY <1>2, <2>1 DEF ReturnsImmediately
  <2>3. p # i
    BY <2>2
  <2>4. QED
    BY <2>2, <2>3
<1>3. QED
  BY <1>1, <1>2 DEF ReturnsImmediately

\* Nor does a branch redirected along its chain.
LEMMA RedirectReturns ==
  ASSUME NEW ws, NEW new, DOMAIN new = DOMAIN ws, NEW i \in DOMAIN ws,
         NEW t, Reaches(ws, i, t), new[i].branchTo = t,
         \A j \in DOMAIN ws : /\ new[j].word = ws[j].word
                              /\ j # i => new[j].branchTo = ws[j].branchTo,
         NEW q
  PROVE  ReturnsImmediately(new, q) = ReturnsImmediately(ws, q)
<1>1. ASSUME ReturnsImmediately(new, q),
             NEW C \in SUBSET (DOMAIN ws), q \in C, BranchClosed(ws, C)
      PROVE  \E p \in C : ws[p].word = "_RETURN"
  <2>1. ASSUME NEW p \in C, new[p].word = "_BRANCH" PROVE new[p].branchTo \in C
    <3>1. ws[p].branchTo \in C
      BY <1>1, <2>1 DEF BranchClosed
    <3>2. CASE p = i
      BY <1>1, <3>1, <3>2 DEF Reaches
    <3>3. CASE p # i
      BY <3>1, <3>3
    <3>4. QED
      BY <3>2, <3>3
  <2>2. BranchClosed(new, C)
    BY <2>1 DEF BranchClosed
  <2>3. PICK p \in C : new[p].word = "_RETURN"
    BY <1>1, <2>2 DEF ReturnsImmediately
  <2>4. QED
    BY <2>3
<1>2. ASSUME ReturnsImmediately(ws, q),
             NEW C \in SUBSET (DOMAIN ws), q \in C, BranchClosed(new, C)
      PROVE  \E p \in C : new[p].word = "_RETURN"
  <2>1. CASE i \in C /\ ws[i].word = "_BRANCH"
    <3>1. PICK I \in SUBSET (DOMAIN ws) :
            /\ ws[i].branchTo \in I \cup {t}
            /\ \A p \in I : ws[p].word = "_BRANCH" /\ ws[p].branchTo \in I \cup {t}
      BY DEF Reaches
    <3> DEFINE D == C \cup I
    <3>2. t \in C
      BY <1>2, <2>1 DEF BranchClosed
    <3>3. ASSUME NEW p \in D, ws[p].word = "_BRANCH" PROVE ws[p].branchTo \in D
      <4>1. CASE p \in I \/ p = i
        BY <3>1, <3>2, <4>1
      <4>2. CASE p \in C /\ p # i
        BY <1>2, <3>3, <4>2 DEF BranchClosed
      <4>3. QED
        BY <4>1, <4>2
    <3>4. D \in SUBSET (DOMAIN ws) /\ q \in D /\ BranchClosed(ws, D)
      BY <1>2, <3>3 DEF BranchClosed
    <3> HIDE DEF D
    <3>5. PICK p \in D : ws[p].word = "_RETURN"
      BY <1>2, <3>4 DEF ReturnsImmediately
    <3>6. p \in C
      BY <3>1, <3>5 DEF D
    <3>7. QED
      BY <3>5, <3>6
  <2>2. CASE ~(i \in C /\ ws[i].word = "_BRANCH")
    <3>1. BranchClosed(ws, C)
      BY <1>2, <2>2 DEF BranchClosed
    <3>2. PICK p \in C : ws[p].word = "_RETURN"
      BY <1>2, <3>1 DEF ReturnsImmediately
    <3>3. QED
      BY <3>2
  <2>3. QED
    BY <2>1, <2>2
<1>3. QED
  BY <1>1, <1>2 DEF ReturnsImmediately

\* A word that has a target is native.
LEMMA BranchNative ==
  ASSUME NEW w \in SpecialWords
  PROVE  IsNative(w)
BY CompilerAssumption DEF IsNative

\* LayoutBranch changes no answer of returnsImmediately(), and starts a chain.
LEMMA BranchCode ==
  ASSUME LayoutShape(pos), LayoutTargets(pos), BranchWords, LayoutBranch
  PROVE  /\ BranchWords' /\ ChainFollowed(pos)'
         /\ \A q : ReturnsImmediately(words', q) = ReturnsImmediately(words, q)
         /\ Len(words') = Len(words) /\ DOMAIN words' = DOMAIN words
         /\ \A j \in DOMAIN words :
              /\ words'[j].isDst = words[j].isDst
              /\ j # pos => words'[j].word = words[j].word
<1> DEFINE n == Len(words)
           t == words[pos].branchTo
           tail == TailRecursion(words, pos)
<1>1. /\ n \in Nat /\ n >= 1 /\ DOMAIN words = 1..n /\ pos \in DOMAIN words
      /\ t # 0 /\ chase' = t /\ pos' = pos /\ Finished(words)
      /\ words[n].word = "_RETURN"
      /\ \A j \in 1..(n - 1) : Stored(words[j])
  BY ShapeFacts DEF LayoutBranch, AtWord, LayoutShape, Finished
<1>2. words' = IF tail THEN MakeBranch(words, pos) ELSE words
  BY DEF LayoutBranch, MakeBranch
<1>3. tail => words[pos].word = "_RECURSE" /\ t = 1
  BY <1>1 DEF TailRecursion, LayoutTargets
<1>4. /\ Len(words') = n /\ DOMAIN words' = DOMAIN words
      /\ \A j \in DOMAIN words :
           /\ words'[j].isDst = words[j].isDst
           /\ words'[j].branchTo = words[j].branchTo
           /\ ~(tail /\ j = pos) => words'[j].word = words[j].word
      /\ tail => words'[pos].word = "_BRANCH"
  <2>1. CASE tail
    <3>1. words[pos].word = "_RECURSE" /\ words' = MakeBranch(words, pos)
      BY <1>2, <1>3, <2>1
    <3>2. QED
      BY <1>1, <2>1, <3>1, MadeBranch
  <2>2. CASE ~tail
    BY <1>1, <1>2, <2>2
  <2>3. QED
    BY <2>1, <2>2
<1> HIDE DEF tail, t
<1>5. BranchWords'
  <2>1. ASSUME NEW j \in DOMAIN words, words'[j].branchTo # 0
        PROVE  words'[j].word \in {"_BRANCH", "_ZBRANCH", "_RECURSE"}
    BY <1>4, <2>1 DEF BranchWords
  <2>2. ASSUME words'[1].word = "_BRANCH" PROVE words'[1].branchTo = 1
    <3>1. 1 \in DOMAIN words
      BY <1>1
    <3>2. CASE tail /\ pos = 1
      BY <1>3, <1>4, <3>1, <3>2 DEF t
    <3>3. CASE ~(tail /\ pos = 1)
      BY <1>4, <2>2, <3>1, <3>3 DEF BranchWords
    <3>4. QED
      BY <3>2, <3>3
  <2>3. QED
    BY <1>4, <2>1, <2>2 DEF BranchWords
<1>6. ChainFollowed(pos)'
  <2>1. words'[pos].branchTo = t
    BY <1>1, <1>4 DEF t
  <2>2. {} \in SUBSET (DOMAIN words')
    OBVIOUS
  <2>3. Reaches(words', pos, t)
    BY <2>1, <2>2 DEF Reaches
  <2>4. QED
    BY <1>1, <2>3 DEF ChainFollowed
<1>7. ASSUME NEW q
      PROVE  ReturnsImmediately(words', q) = ReturnsImmediately(words, q)
  <2>1. CASE ~tail
    BY <1>2, <2>1
  <2>2. CASE tail
    <3>1. words[pos].word = "_RECURSE" /\ words[pos].branchTo = 1
      BY <1>3, <2>2 DEF t
    <3>2. 1 \in DOMAIN words /\ words[1].word # "_RETURN"
      <4>1. n # pos
        BY <1>1, <3>1
      <4>2. 1 \in 1..(n - 1)
        BY <1>1, <4>1
      <4>3. Stored(words[1])
        BY <1>1, <4>2
      <4>4. QED
        BY <1>1, <4>3, CompilerAssumption DEF Stored, SpecialWords
    <3>3. words[1].word = "_BRANCH" => words[1].branchTo = 1
      BY DEF BranchWords
    <3>4. QED
      BY <1>1, <1>4, <2>2, <3>1, <3>2, <3>3, TailReturns
  <2>3. QED
    BY <2>1, <2>2
<1>8. QED
  BY <1>1, <1>4, <1>5, <1>6, <1>7

\* FollowChain goes one branch further.
LEMMA FollowCode ==
  ASSUME LayoutShape(pos), ChainFollowed(pos), FollowChain
  PROVE  ChainFollowed(pos)'
<1> DEFINE t == words[chase].branchTo
<1>1. /\ chase # 0 /\ chase \in DOMAIN words /\ words[chase].word = "_BRANCH"
      /\ chase' = t /\ words' = words /\ pos' = pos
  <2>1. chase \in 0..Len(words) /\ DOMAIN words = 1..Len(words)
    BY ShapeFacts DEF LayoutShape
  <2>2. QED
    BY <2>1, ShapeFacts DEF FollowChain, NextInChain, vars, compilerVars
<1>2. Reaches(words, pos, chase)
  BY <1>1 DEF ChainFollowed
<1>3. ASSUME NEW C \in SUBSET (DOMAIN words), BranchClosed(words, C),
             words[pos].branchTo \in C
      PROVE  t \in C
  BY <1>1, <1>2, <1>3 DEF Reaches, BranchClosed
<1>4. PICK I \in SUBSET (DOMAIN words) :
        /\ words[pos].branchTo \in I \cup {chase}
        /\ \A p \in I : /\ words[p].word = "_BRANCH"
                        /\ words[p].branchTo \in I \cup {chase}
  BY <1>2 DEF Reaches
<1> DEFINE J == I \cup {chase}
<1>5. /\ J \in SUBSET (DOMAIN words) /\ words[pos].branchTo \in J \cup {t}
      /\ \A p \in J : words[p].word = "_BRANCH" /\ words[p].branchTo \in J \cup {t}
  BY <1>1, <1>4
<1> HIDE DEF J, t
<1>6. Reaches(words, pos, t)
  BY <1>3, <1>5 DEF Reaches
<1>7. QED
  BY <1>1, <1>6 DEF ChainFollowed

\* EndOfChain changes no answer of returnsImmediately() either.
LEMMA EndCode ==
  ASSUME LayoutShape(pos), BranchWords, ChainFollowed(pos), EndOfChain
  PROVE  /\ BranchWords' /\ ChainFollowed(pos)'
         /\ \A q : ReturnsImmediately(words', q) = ReturnsImmediately(words, q)
         /\ Len(words') = Len(words) /\ DOMAIN words' = DOMAIN words
         /\ \A j \in DOMAIN words : /\ words'[j].isDst = words[j].isDst
                                    /\ words'[j].word = words[j].word
         /\ pos \in DOMAIN words /\ IsNative(words[pos].word)
<1>1. /\ chase # 0 /\ words' = Redirect(words, pos, chase) /\ chase' = 0
      /\ words[chase].word # "_BRANCH"
  BY DEF EndOfChain, Redirect
<1>2. /\ pos \in DOMAIN words /\ chase \in 1..Len(words) /\ Finished(words)
      /\ 1 \in DOMAIN words /\ words[pos].branchTo # 0
      /\ Reaches(words, pos, chase)
  BY <1>1, ShapeFacts DEF LayoutShape, ChainFollowed
<1>3. /\ Len(words') = Len(words) /\ DOMAIN words' = DOMAIN words
      /\ words'[pos].branchTo = chase
      /\ \A j \in DOMAIN words :
           /\ words'[j].word = words[j].word /\ words'[j].isDst = words[j].isDst
           /\ j # pos => words'[j].branchTo = words[j].branchTo
  BY <1>1, <1>2, Redirected
<1>4. BranchWords'
  <2>1. ASSUME NEW j \in DOMAIN words, words'[j].branchTo # 0
        PROVE  words'[j].word \in {"_BRANCH", "_ZBRANCH", "_RECURSE"}
    BY <1>2, <1>3, <2>1 DEF BranchWords
  <2>2. ASSUME words'[1].word = "_BRANCH" PROVE words'[1].branchTo = 1
    <3>1. words[1].word = "_BRANCH" /\ words[1].branchTo = 1
      BY <1>2, <1>3, <2>2 DEF BranchWords
    <3>2. pos # 1
      <4> SUFFICES ASSUME pos = 1 PROVE FALSE
        OBVIOUS
      <4>1. {1} \in SUBSET (DOMAIN words) /\ BranchClosed(words, {1})
        BY <1>2, <3>1 DEF BranchClosed
      <4>2. chase \in {1}
        BY <1>2, <3>1, <4>1 DEF Reaches
      <4>3. QED
        BY <1>1, <3>1, <4>2
    <3>3. QED
      BY <1>2, <1>3, <3>1, <3>2
  <2>3. QED
    BY <1>3, <2>1, <2>2 DEF BranchWords
<1>5. ASSUME NEW q
      PROVE  ReturnsImmediately(words', q) = ReturnsImmediately(words, q)
  <2>1. /\ DOMAIN words' = DOMAIN words /\ pos \in DOMAIN words
        /\ Reaches(words, pos, chase) /\ words'[pos].branchTo = chase
    BY <1>2, <1>3
  <2>2. \A j \in DOMAIN words :
          /\ words'[j].word = words[j].word
          /\ j # pos => words'[j].branchTo = words[j].branchTo
    BY <1>3
  <2>3. QED
    BY <2>1, <2>2, RedirectReturns
<1>6. IsNative(words[pos].word)
  <2>1. words[pos].word \in SpecialWords
    BY <1>2 DEF BranchWords, SpecialWords
  <2>2. QED
    BY <2>1, BranchNative
<1>7. QED
  BY <1>1, <1>2, <1>3, <1>4, <1>5, <1>6 DEF ChainFollowed

\* The groups stay what they are while native words are laid out.
LEMMA GroupsGrow ==
  ASSUME Groups, interpWord' = interpWord, DOMAIN interpWord \subseteq DOMAIN pcOf,
         \A i \in DOMAIN pcOf :
           /\ words'[i].word = words[i].word /\ words'[i].isDst = words[i].isDst
           /\ i \in DOMAIN pcOf' /\ pcOf'[i] = pcOf[i],
         \A i \in DOMAIN pcOf' : i \in DOMAIN pcOf \/ IsNative(words'[i].word),
         \A q : ReturnsImmediately(words', q) = ReturnsImmediately(words, q)
  PROVE  Groups'
<1>1. ASSUME NEW h \in DOMAIN interpWord PROVE GroupAt(h)' /\ Members(h)' = Members(h)
  <2>1. GroupAt(h) /\ h \in DOMAIN pcOf
    BY DEF Groups
  <2>2. Members(h)' = Members(h)
    BY DEF Members
  <2>3. interpWord'[h].tail = ReturnsImmediately(words', h + interpWord'[h].count)
    BY <2>1 DEF GroupAt
  <2>4. \A m \in Members(h) :
          /\ m \in DOMAIN pcOf' /\ ~IsNative(words'[m].word)
          /\ m # h => m \notin DOMAIN interpWord'
          /\ pcOf'[m] = pcOf'[h] + (m - h) + IF m = h THEN 0 ELSE 1
    BY <2>1 DEF GroupAt
  <2>5. QED
    BY <2>1, <2>2, <2>3, <2>4 DEF GroupAt
<1>2. ASSUME NEW i \in DOMAIN pcOf', ~IsNative(words'[i].word)
      PROVE  /\ \E h \in DOMAIN interpWord' : i \in Members(h)'
             /\ words'[i].isDst => i \in DOMAIN interpWord'
  <2>1. i \in DOMAIN pcOf /\ ~IsNative(words[i].word)
    BY <1>2
  <2>2. /\ \E h \in DOMAIN interpWord : i \in Members(h)
        /\ words[i].isDst => i \in DOMAIN interpWord
    BY <2>1 DEF Groups
  <2>3. QED
    BY <1>1, <2>1, <2>2
<1>3. QED
  BY <1>1, <1>2 DEF Groups

\* A call joins the open group, or starts one.
LEMMA InterpGroups ==
  ASSUME LayoutShape(pos), Groups, OpenGroup(pos), LayoutInterp,
         \A i \in DOMAIN pcOf : pcOf[i] \in Nat
  PROVE  Groups' /\ OpenGroup(pos)'
<1> DEFINE starts == StartsGroup(pos)
           head == IF starts THEN pos ELSE firstInterp
           count == IF starts THEN 1 ELSE interpCount + 1
           tail == ReturnsImmediately(words, pos + 1)
           cell == [tail |-> tail, count |-> count]
<1> PICK first : first = head
  OBVIOUS
<1>1. /\ pos \in DOMAIN words /\ pos \in Nat /\ words' = words /\ erased' = erased
      /\ ~IsNative(words[pos].word) /\ afterBranch' = FALSE
      /\ pos' = pos + 1 /\ pcOf' = Updated(pcOf, pos, pc)
      /\ firstInterp' = first /\ interpCount' = count
      /\ interpWord' = Updated(interpWord, first, cell)
      /\ pc' = pc + (IF starts THEN 2 ELSE 1)
  BY ShapeFacts DEF LayoutInterp, AtWord, vars, compilerVars
<1>2. /\ pc \in Nat /\ DOMAIN pcOf = 1..(pos - 1) \ erased
      /\ DOMAIN interpWord \subseteq DOMAIN pcOf
      /\ interpCount \in 0..kMaxInterp
  BY DEF LayoutShape
<1>3. ~starts => /\ interpCount \in 1..3 /\ firstInterp \in DOMAIN interpWord
                 /\ interpWord[firstInterp].count = interpCount
                 /\ firstInterp + interpCount = pos
                 /\ pc = pcOf[firstInterp] + interpCount + 1
                 /\ ~words[pos].isDst
  BY <1>2 DEF StartsGroup, OpenGroup, kMaxInterp
<1>4. /\ cell.tail = tail /\ cell.count = count
  OBVIOUS
<1>5. /\ pos \notin DOMAIN pcOf /\ \A i \in DOMAIN pcOf : i \in Nat /\ i < pos
  BY <1>1, <1>2
<1> HIDE DEF cell, starts
<1>6. /\ first \in Nat /\ count \in 1..kMaxInterp /\ first + count = pos + 1
      /\ first \in DOMAIN interpWord \cup {pos}
      /\ first = pos <=> starts
  <2>1. CASE starts
    BY <1>1, <2>1 DEF kMaxInterp
  <2>2. CASE ~starts
    <3>1. firstInterp \in Nat /\ firstInterp # pos
      BY <1>2, <1>3, <1>5, <2>2
    <3>2. QED
      BY <1>1, <1>3, <2>2, <3>1 DEF kMaxInterp
  <2>3. QED
    BY <2>1, <2>2
<1>7. /\ DOMAIN pcOf' = DOMAIN pcOf \cup {pos} /\ pcOf'[pos] = pc
      /\ \A i \in DOMAIN pcOf : pcOf'[i] = pcOf[i]
  BY <1>1, <1>5 DEF Updated
<1>8. /\ DOMAIN interpWord' = DOMAIN interpWord \cup {first}
      /\ interpWord'[first] = cell
      /\ \A h \in DOMAIN interpWord : h # first => interpWord'[h] = interpWord[h]
  BY <1>1 DEF Updated
<1>9. ASSUME NEW h \in DOMAIN interpWord, h # first
      PROVE  GroupAt(h)' /\ Members(h)' = Members(h)
  <2>1. GroupAt(h) /\ h \in DOMAIN pcOf
    BY <1>2 DEF Groups
  <2>2. interpWord'[h] = interpWord[h]
    BY <1>8, <1>9
  <2>3. Members(h)' = Members(h)
    BY <2>2 DEF Members
  <2>4. ASSUME NEW m \in Members(h), m # h PROVE m \notin DOMAIN interpWord'
    <3>1. m \notin DOMAIN interpWord /\ m \in DOMAIN pcOf
      BY <2>1, <2>4 DEF GroupAt
    <3>2. QED
      BY <1>5, <1>6, <1>8, <3>1
  <2>5. \A m \in Members(h) :
          /\ m \in DOMAIN pcOf' /\ ~IsNative(words'[m].word)
          /\ pcOf'[m] = pcOf'[h] + (m - h) + IF m = h THEN 0 ELSE 1
    BY <1>1, <1>7, <2>1 DEF GroupAt
  <2>6. interpWord'[h].tail = ReturnsImmediately(words', h + interpWord'[h].count)
    BY <1>1, <2>1, <2>2 DEF GroupAt
  <2>7. QED
    BY <2>1, <2>2, <2>3, <2>4, <2>5, <2>6 DEF GroupAt
<1>10. Members(first)' = first..pos
  <2>1. Members(first)' = first..(first + count - 1)
    BY <1>4, <1>8 DEF Members
  <2>2. first + count - 1 = pos
    BY <1>1, <1>6 DEF kMaxInterp
  <2>3. QED
    BY <2>1, <2>2
<1>11. GroupAt(first)'
  <2>1. interpWord'[first].count \in 1..kMaxInterp
    BY <1>4, <1>6, <1>8
  <2>2. interpWord'[first].tail = ReturnsImmediately(words', first + interpWord'[first].count)
    BY <1>1, <1>4, <1>6, <1>8
  <2>3. ASSUME NEW m \in first..pos
        PROVE  /\ m \in DOMAIN pcOf' /\ ~IsNative(words'[m].word)
               /\ m # first => m \notin DOMAIN interpWord'
               /\ pcOf'[m] = pcOf'[first] + (m - first) + IF m = first THEN 0 ELSE 1
    <3>1. CASE starts
      <4>1. m = pos /\ first = pos
        BY <1>1, <1>6, <2>3, <3>1
      <4>2. pc = pc + (pos - pos) + 0
        BY <1>1, <1>2
      <4>3. QED
        BY <1>1, <1>7, <4>1, <4>2
    <3>2. CASE ~starts /\ m = pos
      <4>1. first = firstInterp /\ first # pos /\ first \in DOMAIN pcOf
        BY <1>2, <1>3, <1>6, <3>2
      <4>2. pos \notin DOMAIN interpWord'
        BY <1>2, <1>5, <1>6, <1>8, <3>2
      <4>3. pcOf'[first] = pcOf[first] /\ pcOf[first] \in Nat
        BY <1>7, <4>1
      <4>4. pc = pcOf[first] + (pos - first) + 1
        BY <1>1, <1>3, <1>6, <3>2, <4>1, <4>3
      <4>5. QED
        BY <1>1, <1>7, <3>2, <4>1, <4>2, <4>3, <4>4
    <3>3. CASE ~starts /\ m # pos
      <4>1. first = firstInterp /\ first \in DOMAIN interpWord
        BY <1>3, <1>6, <3>3
      <4>2. GroupAt(first) /\ first \in DOMAIN pcOf
        BY <1>2, <4>1 DEF Groups
      <4>3. m \in Members(first)
        <5>1. m \in first..(first + interpCount - 1)
          BY <1>1, <1>3, <1>6, <2>3, <3>3, <4>1
        <5>2. QED
          BY <1>3, <3>3, <4>1, <5>1 DEF Members
      <4>4. /\ m \in DOMAIN pcOf /\ ~IsNative(words[m].word)
            /\ m # first => m \notin DOMAIN interpWord
            /\ pcOf[m] = pcOf[first] + (m - first) + IF m = first THEN 0 ELSE 1
        BY <4>2, <4>3 DEF GroupAt
      <4>5. QED
        BY <1>1, <1>7, <1>8, <4>2, <4>4
    <3>4. QED
      BY <3>1, <3>2, <3>3
  <2>4. QED
    BY <1>10, <2>1, <2>2, <2>3 DEF GroupAt
<1>12. Groups'
  <2>1. ASSUME NEW i \in DOMAIN pcOf', ~IsNative(words'[i].word)
        PROVE  /\ \E h \in DOMAIN interpWord' : i \in Members(h)'
               /\ words'[i].isDst => i \in DOMAIN interpWord'
    <3>1. CASE i = pos
      <4>1. pos \in first..pos
        BY <1>1, <1>6 DEF kMaxInterp
      <4>2. words[pos].isDst => starts
        BY DEF StartsGroup, starts
      <4>3. QED
        BY <1>1, <1>6, <1>8, <1>10, <3>1, <4>1, <4>2
    <3>2. CASE i # pos
      <4>1. i \in DOMAIN pcOf /\ ~IsNative(words[i].word)
        BY <1>1, <1>7, <2>1, <3>2
      <4>2. PICK h \in DOMAIN interpWord : i \in Members(h)
        BY <4>1 DEF Groups
      <4>3. words[i].isDst => i \in DOMAIN interpWord
        BY <4>1 DEF Groups
      <4>4. CASE h # first
        BY <1>1, <1>8, <1>9, <4>2, <4>3, <4>4
      <4>5. CASE h = first
        <5>1. ~starts /\ first = firstInterp
          BY <1>2, <1>5, <1>6, <4>2, <4>5
        <5>2. i \in first..(first + interpCount - 1)
          BY <1>3, <4>2, <4>5, <5>1 DEF Members
        <5>3. i \in first..pos
          BY <1>1, <1>3, <1>6, <5>1, <5>2
        <5>4. QED
          BY <1>1, <1>8, <1>10, <4>3, <5>3
      <4>6. QED
        BY <4>4, <4>5
    <3>3. QED
      BY <3>1, <3>2
  <2>2. \A h \in DOMAIN interpWord' : GroupAt(h)'
    BY <1>8, <1>9, <1>11
  <2>3. QED
    BY <2>1, <2>2 DEF Groups
<1>13. OpenGroup(pos)'
  <2>1. first \in DOMAIN pcOf' /\ pcOf'[first] \in Nat
    BY <1>2, <1>6, <1>7
  <2>2. pc' = pcOf'[first] + count + 1
    <3>1. CASE starts
      BY <1>1, <1>2, <1>6, <1>7, <3>1
    <3>2. CASE ~starts
      <4>1. first = firstInterp /\ first \in DOMAIN pcOf /\ pcOf[first] \in Nat
        BY <1>2, <1>3, <3>2
      <4>2. pcOf'[first] = pcOf[first] /\ count = interpCount + 1 /\ pc' = pc + 1
        BY <1>1, <1>7, <3>2, <4>1
      <4>3. QED
        BY <1>2, <1>3, <3>2, <4>1, <4>2
    <3>3. QED
      BY <3>1, <3>2
  <2>3. QED
    BY <1>1, <1>4, <1>6, <1>8, <2>2 DEF OpenGroup
<1>14. QED
  BY <1>12, <1>13

\* A word is laid out, or erased, at pc.
LEMMA PlaceNext ==
  ASSUME LayoutShape(pos), NEW k, k = pos, pos' = k + 1,
         NEW start, PlacedBy(start, pos),
         \A i \in 1..(k - 1) : Size(i)' = Size(i),
         Size(k)' \in Nat, pc' = pc + Size(k)',
         DOMAIN pcOf' \subseteq DOMAIN pcOf \cup {k},
         \A i \in DOMAIN pcOf : pcOf'[i] = pcOf[i],
         k \in DOMAIN pcOf' => pcOf'[k] = pc
  PROVE  \E next : PlacedBy(next, pos)'
<1> DEFINE next == [start EXCEPT ![k + 1] = pc']
<1>1. /\ k \in Nat /\ k >= 1 /\ pc \in Nat /\ DOMAIN pcOf \subseteq 1..(k - 1)
  BY ShapeFacts DEF LayoutShape
<1>2. /\ start \in [Nat -> Nat] /\ start[1] = 0 /\ start[k] = pc
      /\ \A i \in 1..(k - 1) : start[i + 1] = start[i] + Size(i)
      /\ \A i \in DOMAIN pcOf : pcOf[i] = start[i]
  BY DEF PlacedBy
<1>3. pc' \in Nat
  BY <1>1
<1>4. /\ next \in [Nat -> Nat] /\ next[k + 1] = pc'
      /\ \A i \in Nat : i # k + 1 => next[i] = start[i]
  BY <1>1, <1>2, <1>3
<1> HIDE DEF next
<1>5. \A i \in 1..k : next[i] = start[i]
  BY <1>1, <1>4
<1>6. next[1] = 0
  BY <1>1, <1>2, <1>5
<1>7. ASSUME NEW i \in 1..k PROVE next[i + 1] = next[i] + Size(i)'
  <2>1. CASE i = k
    BY <1>1, <1>2, <1>4, <1>5, <2>1
  <2>2. CASE i # k
    <3>1. i \in 1..(k - 1) /\ i + 1 \in 1..k
      BY <1>1, <2>2
    <3>2. QED
      BY <1>2, <1>5, <3>1
  <2>3. QED
    BY <2>1, <2>2
<1>8. ASSUME NEW i \in DOMAIN pcOf' PROVE pcOf'[i] = next[i]
  <2>1. CASE i = k
    BY <1>1, <1>2, <1>5, <2>1
  <2>2. CASE i # k
    <3>1. i \in DOMAIN pcOf /\ i \in 1..k
      BY <1>1, <2>2
    <3>2. QED
      BY <1>2, <1>5, <3>1
  <2>3. QED
    BY <2>1, <2>2
<1>9. pos' - 1 = k
  BY <1>1
<1>10. QED
  BY <1>4, <1>6, <1>7, <1>8, <1>9 DEF PlacedBy

\* The words that are laid out have a pc.
LEMMA CodedPcs ==
  ASSUME NEW p, LayoutShape(p), Coded(p)
  PROVE  \A i \in DOMAIN pcOf : i \in Nat /\ pcOf[i] \in Nat
<1>1. \A i \in DOMAIN pcOf : i \in Nat
  BY DEF LayoutShape
<1>2. QED
  BY <1>1 DEF Coded, PlacedBy

\* A native word takes a cell, and one for its parameter.
LEMMA NativeCoded ==
  ASSUME LayoutShape(pos), Coded(pos), BranchWords', ChainFollowed(pos)',
         pos \in DOMAIN words, DOMAIN words' = DOMAIN words,
         \A j \in DOMAIN words : /\ words'[j].isDst = words[j].isDst
                                 /\ words'[j].word = words[j].word,
         \A q : ReturnsImmediately(words', q) = ReturnsImmediately(words, q),
         IsNative(words[pos].word), NativeDone(words[pos].word)
  PROVE  Coded(pos)'
<1>1. PICK k : k = pos
  OBVIOUS
<1> DEFINE w == words[k].word
<1>2. /\ pcOf' = Updated(pcOf, k, pc) /\ interpCount' = 0
      /\ pc' = pc + Parameters(w) + 1 /\ pos' = k + 1
      /\ erased' = erased /\ interpWord' = interpWord
  BY <1>1 DEF NativeDone
<1>3. /\ DOMAIN words = 1..Len(words) /\ k \in 1..Len(words) /\ Len(words) \in Nat
      /\ DOMAIN pcOf = 1..(k - 1) \ erased /\ erased \subseteq 1..(k - 1)
      /\ DOMAIN interpWord \subseteq DOMAIN pcOf /\ pc \in Nat
  BY <1>1, ShapeFacts DEF LayoutShape
<1>4. /\ k \notin 1..(k - 1) /\ 1..(k - 1) \subseteq DOMAIN words
  BY <1>3
<1>5. /\ DOMAIN pcOf' = DOMAIN pcOf \cup {k} /\ pcOf'[k] = pc
      /\ \A i \in DOMAIN pcOf : pcOf'[i] = pcOf[i]
  BY <1>2, <1>3, <1>4 DEF Updated
<1>6. Groups'
  <2>1. \A i \in DOMAIN pcOf :
          /\ words'[i].word = words[i].word /\ words'[i].isDst = words[i].isDst
          /\ i \in DOMAIN pcOf' /\ pcOf'[i] = pcOf[i]
    BY <1>3, <1>4, <1>5
  <2>2. \A i \in DOMAIN pcOf' : i \in DOMAIN pcOf \/ IsNative(words'[i].word)
    BY <1>1, <1>5
  <2>3. QED
    BY <1>2, <1>3, <2>1, <2>2, GroupsGrow DEF Coded
<1>7. OpenGroup(pos)'
  BY <1>2 DEF OpenGroup
<1>8. ASSUME NEW i \in 1..(k - 1) PROVE Size(i)' = Size(i)
  BY <1>2, <1>4 DEF Size
<1>9. Size(k)' = Parameters(w) + 1 /\ Size(k)' \in Nat /\ pc' = pc + Size(k)'
  <2>1. Size(k)' = Parameters(w) + 1
    BY <1>1, <1>2, <1>3, <1>4 DEF Size
  <2>2. Parameters(w) \in Nat
    BY DEF Parameters
  <2> HIDE DEF w
  <2>3. QED
    BY <1>2, <1>3, <2>1, <2>2
<1>10. PICK start : PlacedBy(start, pos)
  BY DEF Coded
<1>11. \E next : PlacedBy(next, pos)'
  BY <1>1, <1>2, <1>5, <1>8, <1>9, <1>10, PlaceNext
<1>12. QED
  BY <1>6, <1>7, <1>11 DEF Coded

\* Steps that leave the list and the loop's place alone
LEMMA CodedUnchanged ==
  ASSUME NEW p, Coded(p),
         UNCHANGED <<words, pc, afterBranch, interpCount, firstInterp, chase,
                     erased, pcOf, interpWord>>
  PROVE  Coded(p)'
<1>1. BranchWords' /\ ChainFollowed(p)'
  BY DEF Coded, BranchWords, ChainFollowed
<1>2. Groups' /\ OpenGroup(p)'
  BY DEF Coded, Groups, GroupAt, Members, OpenGroup
<1>3. \A i : Size(i)' = Size(i)
  BY DEF Size
<1>4. \A start : PlacedBy(start, p) => PlacedBy(start, p)'
  BY <1>3 DEF PlacedBy
<1>5. QED
  BY <1>1, <1>2, <1>4 DEF Coded

\* Nothing is laid out yet.
LEMMA StartCoded ==
  ASSUME BeforeLayout, StartLayout
  PROVE  Coded(pos)'
<1>1. /\ phase = "checked" /\ pos' = 1
      /\ UNCHANGED <<words, pc, afterBranch, interpCount, firstInterp, chase,
                     erased, pcOf, interpWord>>
  BY DEF StartLayout
<1>2. /\ Finished(words) /\ Targets(words) /\ FirstPlain(words) /\ NotStarted
  BY <1>1 DEF BeforeLayout, CheckLists, ListsOK
<1>3. /\ chase' = 0 /\ interpCount' = 0 /\ pc' = 0
      /\ DOMAIN pcOf' = {} /\ DOMAIN interpWord' = {}
  BY <1>1, <1>2 DEF NotStarted, NothingKnown
<1>4. BranchWords'
  <2>1. words # <<>>
    BY <1>2 DEF Finished
  <2>2. QED
    BY <1>1, <1>2, <2>1 DEF BranchWords, Targets, FirstPlain
<1>5. ChainFollowed(pos)' /\ Groups' /\ OpenGroup(pos)'
  BY <1>3 DEF ChainFollowed, Groups, OpenGroup
<1>6. PlacedBy([i \in Nat |-> 0], pos)'
  BY <1>1, <1>3 DEF PlacedBy
<1>7. QED
  BY <1>4, <1>5, <1>6 DEF Coded

LEMMA LayoutNativeCoded ==
  ASSUME LayoutShape(pos), Coded(pos), LayoutNative
  PROVE  Coded(pos)'
<1>1. /\ pos \in DOMAIN words /\ IsNative(words[pos].word)
      /\ words' = words /\ chase' = chase /\ chase = 0
      /\ NativeDone(words[pos].word)
  BY ShapeFacts DEF LayoutNative, AtWord, vars, compilerVars
<1>2. BranchWords' /\ ChainFollowed(pos)'
  BY <1>1 DEF Coded, BranchWords, ChainFollowed
<1>3. QED
  BY <1>1, <1>2, NativeCoded

LEMMA EraseCoded ==
  ASSUME LayoutShape(pos), Coded(pos), EraseUnreachable
  PROVE  Coded(pos)'
<1>1. PICK k : k = pos
  OBVIOUS
<1>2. /\ UNCHANGED <<words, pc, afterBranch, interpCount, firstInterp, chase,
                     pcOf, interpWord>>
      /\ chase = 0 /\ afterBranch
      /\ erased' = erased \cup {k} /\ pos' = k + 1
  BY <1>1 DEF EraseUnreachable, Unreachable, AtWord, vars, compilerVars
<1>3. /\ BranchWords' /\ ChainFollowed(pos)'
  BY <1>2 DEF Coded, BranchWords, ChainFollowed
<1>4. Groups' /\ OpenGroup(pos)'
  BY <1>2 DEF Coded, Groups, GroupAt, Members, OpenGroup
<1>5. /\ DOMAIN pcOf = 1..(k - 1) \ erased /\ k \in Nat /\ pc \in Nat
  BY <1>1, ShapeFacts DEF LayoutShape
<1>6. k \notin 1..(k - 1)
  BY <1>5
<1>7. ASSUME NEW i \in 1..(k - 1) PROVE Size(i)' = Size(i)
  BY <1>2, <1>6 DEF Size
<1>8. Size(k)' = 0 /\ pc' = pc + Size(k)'
  BY <1>2, <1>5 DEF Size
<1>9. PICK start : PlacedBy(start, pos)
  BY DEF Coded
<1>10. k \notin DOMAIN pcOf'
  BY <1>2, <1>5, <1>6
<1>11. \E next : PlacedBy(next, pos)'
  BY <1>1, <1>2, <1>7, <1>8, <1>9, <1>10, PlaceNext
<1>12. QED
  BY <1>3, <1>4, <1>11 DEF Coded

LEMMA BranchCoded ==
  ASSUME LayoutShape(pos), LayoutTargets(pos), Coded(pos), LayoutBranch
  PROVE  Coded(pos)'
<1>1. /\ BranchWords' /\ ChainFollowed(pos)'
      /\ \A q : ReturnsImmediately(words', q) = ReturnsImmediately(words, q)
      /\ DOMAIN words' = DOMAIN words
      /\ \A j \in DOMAIN words : /\ words'[j].isDst = words[j].isDst
                                 /\ j # pos => words'[j].word = words[j].word
  BY BranchCode DEF Coded
<1>2. PICK k : k = pos
  OBVIOUS
<1>3. UNCHANGED <<pos, pc, afterBranch, interpCount, firstInterp, erased, pcOf,
                  interpWord>>
  BY DEF LayoutBranch
<1>4. /\ DOMAIN words = 1..Len(words) /\ Len(words) \in Nat
      /\ k \in 1..(Len(words) + 1)
      /\ DOMAIN pcOf = 1..(k - 1) \ erased
      /\ DOMAIN interpWord \subseteq DOMAIN pcOf
  BY <1>2, ShapeFacts DEF LayoutShape
<1>5. ASSUME NEW i \in 1..(k - 1) PROVE i \in DOMAIN words /\ i # pos
  BY <1>2, <1>4
<1>6. Groups'
  <2>1. \A i \in DOMAIN pcOf :
          /\ words'[i].word = words[i].word /\ words'[i].isDst = words[i].isDst
          /\ i \in DOMAIN pcOf' /\ pcOf'[i] = pcOf[i]
    BY <1>1, <1>3, <1>4, <1>5
  <2>2. \A i \in DOMAIN pcOf' : i \in DOMAIN pcOf \/ IsNative(words'[i].word)
    BY <1>3
  <2>3. QED
    BY <1>1, <1>3, <1>4, <2>1, <2>2, GroupsGrow DEF Coded
<1>7. OpenGroup(pos)'
  BY <1>3 DEF Coded, OpenGroup
<1>8. ASSUME NEW i \in 1..(k - 1) PROVE Size(i)' = Size(i)
  BY <1>1, <1>3, <1>5 DEF Size
<1>9. PICK start : PlacedBy(start, pos)
  BY DEF Coded
<1>10. PlacedBy(start, pos)'
  BY <1>2, <1>3, <1>8, <1>9 DEF PlacedBy
<1>11. QED
  BY <1>1, <1>6, <1>7, <1>10 DEF Coded

LEMMA FollowCoded ==
  ASSUME LayoutShape(pos), Coded(pos), FollowChain
  PROVE  Coded(pos)'
<1>1. UNCHANGED <<words, pos, pc, afterBranch, interpCount, firstInterp, erased,
                  pcOf, interpWord>>
  BY DEF FollowChain, vars, compilerVars
<1>2. ChainFollowed(pos)'
  BY FollowCode DEF Coded
<1>3. BranchWords' /\ Groups' /\ OpenGroup(pos)'
  BY <1>1 DEF Coded, BranchWords, Groups, GroupAt, Members, OpenGroup
<1>4. \A i : Size(i)' = Size(i)
  BY <1>1 DEF Size
<1>5. PICK start : PlacedBy(start, pos)
  BY DEF Coded
<1>6. PlacedBy(start, pos)'
  BY <1>1, <1>4, <1>5 DEF PlacedBy
<1>7. QED
  BY <1>2, <1>3, <1>6 DEF Coded

LEMMA EndCoded ==
  ASSUME LayoutShape(pos), Coded(pos), EndOfChain
  PROVE  Coded(pos)'
<1>1. /\ BranchWords' /\ ChainFollowed(pos)'
      /\ \A q : ReturnsImmediately(words', q) = ReturnsImmediately(words, q)
      /\ DOMAIN words' = DOMAIN words
      /\ \A j \in DOMAIN words : /\ words'[j].isDst = words[j].isDst
                                 /\ words'[j].word = words[j].word
      /\ pos \in DOMAIN words /\ IsNative(words[pos].word)
  BY EndCode DEF Coded
<1>2. NativeDone(words[pos].word)
  BY DEF EndOfChain
<1>3. QED
  BY <1>1, <1>2, NativeCoded

LEMMA InterpCoded ==
  ASSUME LayoutShape(pos), Coded(pos), LayoutInterp
  PROVE  Coded(pos)'
<1>1. PICK k : k = pos
  OBVIOUS
<1> DEFINE starts == StartsGroup(pos)
<1>2. /\ words' = words /\ erased' = erased /\ chase' = chase /\ chase = 0
      /\ ~IsNative(words[k].word)
      /\ pos' = k + 1 /\ pcOf' = Updated(pcOf, k, pc)
      /\ \E v : interpWord' = Updated(interpWord, IF starts THEN k ELSE firstInterp, v)
      /\ pc' = pc + (IF starts THEN 2 ELSE 1)
  BY <1>1 DEF LayoutInterp, AtWord, vars, compilerVars
<1>3. /\ DOMAIN pcOf = 1..(k - 1) \ erased /\ erased \subseteq 1..(k - 1)
      /\ DOMAIN interpWord \subseteq DOMAIN pcOf /\ pc \in Nat /\ k \in Nat
  BY <1>1, ShapeFacts DEF LayoutShape
<1>4. k \notin 1..(k - 1)
  BY <1>3
<1>5. ~starts => firstInterp \in DOMAIN interpWord
  BY DEF Coded, OpenGroup, StartsGroup
<1> HIDE DEF starts
<1>6. BranchWords' /\ ChainFollowed(pos)'
  BY <1>2 DEF Coded, BranchWords, ChainFollowed
<1>7. Groups' /\ OpenGroup(pos)'
  BY CodedPcs, InterpGroups DEF Coded
<1>8. /\ DOMAIN pcOf' = DOMAIN pcOf \cup {k} /\ pcOf'[k] = pc
      /\ \A i \in DOMAIN pcOf : pcOf'[i] = pcOf[i]
  BY <1>2, <1>3, <1>4 DEF Updated
<1>9. DOMAIN interpWord' = DOMAIN interpWord \cup IF starts THEN {k} ELSE {}
  BY <1>2, <1>5 DEF Updated
<1>10. ASSUME NEW i \in 1..(k - 1) PROVE Size(i)' = Size(i)
  BY <1>2, <1>4, <1>9 DEF Size
<1>11. Size(k)' = (IF starts THEN 2 ELSE 1)
  BY <1>2, <1>3, <1>4, <1>9 DEF Size
<1>12. PICK start : PlacedBy(start, pos)
  BY DEF Coded
<1>13. Size(k)' \in Nat /\ pc' = pc + Size(k)'
  BY <1>2, <1>11
<1>14. \E next : PlacedBy(next, pos)'
  BY <1>1, <1>2, <1>8, <1>10, <1>12, <1>13, PlaceNext
<1>15. QED
  BY <1>6, <1>7, <1>14 DEF Coded

-----------------------------------------------------------------------------
(* Emission *)

\* Where a branch leads if the target is still there
LEMMA TargetLaid ==
  ASSUME LayoutShape(Len(words) + 1), LayoutTargets(Len(words) + 1),
         Coded(Len(words) + 1), NEW i \in DOMAIN words,
         words[i].branchTo # 0, ~Dangling(i)
  PROVE  /\ words[i].branchTo \in DOMAIN pcOf
         /\ ~IsNative(words[words[i].branchTo].word) =>
              words[i].branchTo \in DOMAIN interpWord
<1> DEFINE n == Len(words)
           t == words[i].branchTo
<1>1. /\ n \in Nat /\ n >= 1 /\ DOMAIN words = 1..n /\ Finished(words)
      /\ DOMAIN pcOf = 1..((n + 1) - 1) \ erased
  BY ShapeFacts DEF LayoutShape
<1>2. t \in 1..n /\ t \notin erased
  BY <1>1 DEF Finished, Dangling
<1>3. t \in DOMAIN pcOf
  BY <1>1, <1>2
<1>4. ASSUME ~IsNative(words[t].word) PROVE words[t].isDst
  <2>1. words[n].word = "_RETURN" /\ "_RETURN" \in SpecialWords
    BY <1>1 DEF Finished, SpecialWords
  <2>2. t # n
    BY <1>4, <2>1, BranchNative
  <2>3. QED
    BY <2>2 DEF LayoutTargets, Destination
<1>5. QED
  BY <1>3, <1>4 DEF Coded, Groups

\* The instructions of a word are as many as the layout reckoned.
LEMMA CellsShape ==
  ASSUME LayoutShape(Len(words) + 1), LayoutTargets(Len(words) + 1),
         Coded(Len(words) + 1), NEW i \in DOMAIN words, NEW wild \in WildOffsets
  PROVE  /\ Cells(i, wild) \in Seq(Instruction) /\ Len(Cells(i, wild)) = Size(i)
         /\ Size(i) \in Nat
<1> DEFINE w == words[i].word
           cells == Cells(i, wild)
<1>1. /\ words[i] \in SourceWord /\ words[i].branchTo \in Nat
      /\ w \in SpecialWords \cup Words \cup {"NOP"}
      /\ words[i].lit \in Literals \cup {NoLiteral}
  <2>1. words \in Seq(SourceWord)
    BY ShapeFacts
  <2>2. words[i] \in SourceWord
    BY <2>1
  <2>3. QED
    BY <2>2 DEF SourceWord
<1>2. wild \in Int
  BY CodeGenAssumption
<1>3. OpCell(w) \in Instruction /\ WordCell(w) \in Instruction
  BY <1>1 DEF Instruction
<1>4. LiteralCell(words[i].lit) \in Instruction
  BY <1>1 DEF Instruction
<1>5. \A m \in Int : OffsetCell(m) \in Instruction
  BY DEF Instruction
<1>6. ASSUME IsNative(w), i \notin erased PROVE ParameterCell(i, wild) \in Instruction
  <2>1. CASE w = "_LITERAL"
    BY <1>4, <2>1 DEF ParameterCell
  <2>2. CASE w # "_LITERAL" /\ (words[i].branchTo = 0 \/ Dangling(i))
    BY <1>2, <1>5, <2>2 DEF ParameterCell, Offset
  <2>3. CASE w # "_LITERAL" /\ words[i].branchTo # 0 /\ ~Dangling(i)
    <3>1. words[i].branchTo \in DOMAIN pcOf
      BY <2>3, TargetLaid
    <3>2. i \in DOMAIN pcOf
      <4>1. DOMAIN pcOf = 1..((Len(words) + 1) - 1) \ erased
            /\ DOMAIN words = 1..Len(words) /\ Len(words) \in Nat
        BY ShapeFacts DEF LayoutShape
      <4>2. QED
        BY <1>6, <4>1
    <3>3. pcOf[words[i].branchTo] \in Nat /\ pcOf[i] \in Nat
      BY <3>1, <3>2, CodedPcs
    <3>4. Offset(i, wild) \in Int
      BY <2>3, <3>3 DEF Offset
    <3>5. QED
      BY <1>5, <2>3, <3>4 DEF ParameterCell
  <2>4. QED
    BY <2>1, <2>2, <2>3
<1>7. ASSUME i \in DOMAIN interpWord
      PROVE  InterpCell(interpWord[i].count, interpWord[i].tail) \in Instruction
  <2>1. GroupAt(i)
    BY <1>7 DEF Coded, Groups
  <2>2. interpWord[i].count \in Nat
    BY <2>1 DEF GroupAt
  <2>3. interpWord[i].tail \in BOOLEAN
    BY <2>1 DEF GroupAt, ReturnsImmediately
  <2>4. QED
    BY <2>2, <2>3 DEF Instruction
<1>8. Parameters(w) \in {0, 1}
  BY DEF Parameters
<1> HIDE DEF w, cells
<1>9. cells = IF i \in erased THEN <<>>
              ELSE IF IsNative(w)
                THEN IF Parameters(w) = 0 THEN <<OpCell(w)>>
                     ELSE <<OpCell(w), ParameterCell(i, wild)>>
              ELSE IF i \in DOMAIN interpWord
                THEN <<InterpCell(interpWord[i].count, interpWord[i].tail), WordCell(w)>>
                ELSE <<WordCell(w)>>
  BY DEF Cells, cells, w
<1>10. Size(i) = IF i \in erased THEN 0
                 ELSE IF IsNative(w) THEN Parameters(w) + 1
                 ELSE IF i \in DOMAIN interpWord THEN 2 ELSE 1
  BY DEF Size, w
<1>11. ASSUME NEW a \in Instruction, NEW b \in Instruction
       PROVE  /\ <<>> \in Seq(Instruction) /\ Len(<<>>) = 0
              /\ <<a>> \in Seq(Instruction) /\ Len(<<a>>) = 1
              /\ <<a, b>> \in Seq(Instruction) /\ Len(<<a, b>>) = 2
  OBVIOUS
<1>12. CASE i \in erased
  BY <1>9, <1>10, <1>12 DEF cells
<1>13. CASE i \notin erased /\ IsNative(w)
  <2>1. OpCell(w) \in Instruction /\ ParameterCell(i, wild) \in Instruction
    BY <1>3, <1>6, <1>13 DEF w
  <2>2. QED
    BY <1>8, <1>9, <1>10, <1>11, <1>13, <2>1 DEF cells
<1>14. CASE i \notin erased /\ ~IsNative(w)
  <2>1. WordCell(w) \in Instruction
    BY <1>3 DEF w
  <2>2. QED
    BY <1>7, <1>9, <1>10, <1>11, <1>14, <2>1 DEF cells
<1>15. QED
  BY <1>12, <1>13, <1>14

\* Cells are added at the end.
LEMMA CellsAdded ==
  ASSUME NEW S, NEW s \in Seq(S), NEW t \in Seq(S)
  PROVE  /\ s \o t \in Seq(S) /\ Len(s \o t) = Len(s) + Len(t) /\ Len(s) \in Nat
         /\ \A j \in 1..Len(s) : (s \o t)[j] = s[j]
         /\ \A j \in 1..Len(t) : (s \o t)[Len(s) + j] = t[j]
<1>1. /\ s \o t \in Seq(S) /\ Len(s \o t) = Len(s) + Len(t) /\ Len(s) \in Nat
      /\ Len(t) \in Nat
  OBVIOUS
<1>2. ASSUME NEW j \in 1..Len(s) PROVE (s \o t)[j] = s[j]
  OBVIOUS
<1>3. ASSUME NEW j \in 1..Len(t) PROVE (s \o t)[Len(s) + j] = t[j]
  OBVIOUS
<1>4. QED
  BY <1>1, <1>2, <1>3

\* One more word is emitted.
LEMMA EmitKept ==
  ASSUME LayoutShape(Len(words) + 1), LayoutTargets(Len(words) + 1),
         Coded(Len(words) + 1), Emitted, EmitWord, pos \in DOMAIN words
  PROVE  Emitted'
<1>1. PICK k : k = pos
  OBVIOUS
<1>2. PICK wild \in WildOffsets : instrs' = instrs \o Cells(k, wild)
  BY <1>1 DEF EmitWord
<1> DEFINE cells == Cells(k, wild)
<1>3. /\ pos' = k + 1
      /\ UNCHANGED <<words, pc, erased, pcOf, interpWord>>
  BY <1>1 DEF EmitWord, vars, compilerVars
<1>4. /\ cells \in Seq(Instruction) /\ Len(cells) = Size(k) /\ Size(k) \in Nat
  BY <1>1, CellsShape
<1>5. instrs \in Seq(Instruction) /\ instrs' = instrs \o cells
  BY <1>2 DEF Emitted
<1> HIDE DEF cells
<1>6. /\ instrs' \in Seq(Instruction) /\ Len(instrs') = Len(instrs) + Size(k)
      /\ Len(instrs) \in Nat
      /\ \A j \in 1..Len(instrs) : instrs'[j] = instrs[j]
      /\ \A j \in 1..Size(k) : instrs'[Len(instrs) + j] = cells[j]
  <2> DEFINE old == instrs
             both == old \o cells
  <2>1. old \in Seq(Instruction) /\ cells \in Seq(Instruction)
    BY <1>4, <1>5
  <2> HIDE DEF old
  <2>2. /\ both \in Seq(Instruction) /\ Len(both) = Len(old) + Len(cells)
        /\ Len(old) \in Nat
        /\ \A j \in 1..Len(old) : both[j] = old[j]
        /\ \A j \in 1..Len(cells) : both[Len(old) + j] = cells[j]
    BY <2>1, CellsAdded
  <2>3. instrs' = both
    BY <1>5 DEF old
  <2> HIDE DEF both
  <2>4. QED
    BY <1>4, <2>2, <2>3 DEF old
<1>7. /\ DOMAIN words = 1..Len(words) /\ Len(words) \in Nat /\ k \in 1..Len(words)
      /\ DOMAIN pcOf = 1..((Len(words) + 1) - 1) \ erased
  BY <1>1, ShapeFacts DEF LayoutShape
<1>8. \A i : Size(i)' = Size(i)
  BY <1>3 DEF Size
<1>9. \A i, wd : Cells(i, wd)' = Cells(i, wd)
  BY <1>3 DEF Cells, ParameterCell, Offset, Dangling
<1>10. PICK start : PlacedBy(start, Len(words) + 1) /\ Len(instrs) = start[k]
  BY <1>1 DEF Emitted
<1>11. PlacedBy(start, Len(words) + 1)' /\ Len(instrs') = start[pos']
  <2>1. PlacedBy(start, Len(words) + 1)'
    BY <1>3, <1>8, <1>10 DEF PlacedBy
  <2>2. k \in 1..((Len(words) + 1) - 1)
    BY <1>7
  <2>3. start[k + 1] = start[k] + Size(k)
    BY <1>10, <2>2 DEF PlacedBy
  <2>4. QED
    BY <1>3, <1>6, <1>10, <2>1, <2>3
<1>12. ASSUME NEW i \in 1..k \ erased PROVE EmittedAt(i)'
  <2>1. i \in DOMAIN pcOf /\ pcOf[i] \in Nat
    BY <1>7, CodedPcs
  <2>2. CASE i = k
    <3>1. pcOf[k] = Len(instrs)
      BY <1>10, <2>1, <2>2 DEF PlacedBy
    <3>2. \A j \in 1..Size(k) : instrs'[pcOf[k] + j] = Cells(k, wild)[j]
      BY <1>6, <3>1 DEF cells
    <3>3. QED
      BY <1>3, <1>6, <1>8, <1>9, <2>2, <3>1, <3>2 DEF EmittedAt
  <2>3. CASE i # k
    <3>1. i \in 1..(pos - 1) \ erased
      BY <1>1, <1>7, <2>3
    <3>2. EmittedAt(i)
      BY <3>1 DEF Emitted
    <3>3. PICK wd \in WildOffsets :
            \A j \in 1..Size(i) : instrs[pcOf[i] + j] = Cells(i, wd)[j]
      BY <3>2 DEF EmittedAt
    <3>4. Size(i) \in Nat /\ pcOf[i] + Size(i) <= Len(instrs)
      BY <1>7, <2>1, <3>2, <3>3, CellsShape DEF EmittedAt
    <3>5. ASSUME NEW j \in 1..Size(i) PROVE instrs'[pcOf[i] + j] = Cells(i, wd)[j]
      <4>1. pcOf[i] + j \in 1..Len(instrs)
        BY <1>6, <2>1, <3>4
      <4>2. QED
        BY <1>6, <3>3, <4>1
    <3>6. pcOf[i] + Size(i) <= Len(instrs')
      BY <1>4, <1>6, <2>1, <3>4
    <3>7. QED
      BY <1>3, <1>8, <1>9, <3>5, <3>6 DEF EmittedAt
  <2>4. QED
    BY <2>2, <2>3
<1>13. pos' - 1 = k
  BY <1>3, <1>7
<1>14. QED
  BY <1>3, <1>6, <1>11, <1>12, <1>13 DEF Emitted

\* The code does not change by itself.
LEMMA EmittedUnchanged ==
  ASSUME Emitted,
         UNCHANGED <<words, pc, erased, pcOf, interpWord, pos, instrs>>
  PROVE  Emitted'
<1>1. \A i : Size(i)' = Size(i)
  BY DEF Size
<1>2. \A i, wild : Cells(i, wild)' = Cells(i, wild)
  BY DEF Cells, ParameterCell, Offset, Dangling
<1>3. \A i : EmittedAt(i)' <=> EmittedAt(i)
  BY <1>1, <1>2 DEF EmittedAt
<1>4. \A start : PlacedBy(start, Len(words) + 1) =>
                  PlacedBy(start, Len(words) + 1)'
  BY <1>1 DEF PlacedBy
<1>5. QED
  BY <1>3, <1>4 DEF Emitted

\* What is in the cells of a word that has been emitted
LEMMA EmittedCells ==
  ASSUME LayoutShape(Len(words) + 1), LayoutTargets(Len(words) + 1),
         Coded(Len(words) + 1), NEW i \in DOMAIN words \ erased, EmittedAt(i)
  PROVE  /\ i \in DOMAIN pcOf /\ pcOf[i] \in Nat
         /\ IsNative(words[i].word) =>
              /\ i \notin DOMAIN interpWord
              /\ instrs[pcOf[i] + 1] = OpCell(words[i].word)
              /\ words[i].branchTo # 0 =>
                   \E wild \in WildOffsets :
                     instrs[pcOf[i] + 2] = OffsetCell(Offset(i, wild))
         /\ ~IsNative(words[i].word) =>
              IF i \in DOMAIN interpWord
                THEN /\ instrs[pcOf[i] + 1] =
                          InterpCell(interpWord[i].count, interpWord[i].tail)
                     /\ instrs[pcOf[i] + 2] = WordCell(words[i].word)
                ELSE instrs[pcOf[i] + 1] = WordCell(words[i].word)
<1> DEFINE w == words[i].word
<1>1. i \in DOMAIN pcOf
  <2>1. DOMAIN pcOf = 1..((Len(words) + 1) - 1) \ erased
        /\ DOMAIN words = 1..Len(words) /\ Len(words) \in Nat
    BY ShapeFacts DEF LayoutShape
  <2>2. QED
    BY <2>1
<1>2. pcOf[i] \in Nat
  BY <1>1, CodedPcs
<1>3. PICK wild \in WildOffsets :
        \A k \in 1..Size(i) : instrs[pcOf[i] + k] = Cells(i, wild)[k]
  BY DEF EmittedAt
<1>4. CASE IsNative(w)
  <2>1. i \notin DOMAIN interpWord
    <3> SUFFICES ASSUME i \in DOMAIN interpWord PROVE FALSE
      OBVIOUS
    <3>1. GroupAt(i)
      BY DEF Coded, Groups
    <3>2. i \in Members(i)
      <4>1. interpWord[i].count \in Nat /\ interpWord[i].count >= 1 /\ i \in Nat
        BY <1>1, <3>1, CodedPcs DEF GroupAt
      <4>2. QED
        BY <4>1 DEF Members
    <3>3. QED
      BY <1>4, <3>1, <3>2 DEF GroupAt
  <2>2. Parameters(w) \in {0, 1} /\ Size(i) = Parameters(w) + 1
    BY <1>4 DEF Parameters, Size
  <2>3. Cells(i, wild) = IF Parameters(w) = 0 THEN <<OpCell(w)>>
                         ELSE <<OpCell(w), ParameterCell(i, wild)>>
    BY <1>4 DEF Cells
  <2>4. 1 \in 1..Size(i) /\ Cells(i, wild)[1] = OpCell(w)
    <3> HIDE DEF w
    <3>1. QED
      BY <2>2, <2>3
  <2>5. ASSUME words[i].branchTo # 0
        PROVE  instrs[pcOf[i] + 2] = OffsetCell(Offset(i, wild))
    <3>1. w \in {"_BRANCH", "_ZBRANCH", "_RECURSE"}
      BY <2>5 DEF Coded, BranchWords
    <3>2. Parameters(w) = 1 /\ w # "_LITERAL"
      BY <3>1 DEF Parameters
    <3>3. ParameterCell(i, wild) = OffsetCell(Offset(i, wild))
      BY <2>5, <3>2 DEF ParameterCell
    <3> HIDE DEF w
    <3>4. 2 \in 1..Size(i) /\ Cells(i, wild)[2] = ParameterCell(i, wild)
      BY <2>2, <2>3, <3>2
    <3>5. QED
      BY <1>3, <3>3, <3>4
  <2>6. QED
    BY <1>1, <1>2, <1>3, <1>4, <2>1, <2>4, <2>5
<1>5. CASE ~IsNative(w) /\ i \in DOMAIN interpWord
  <2> DEFINE head == InterpCell(interpWord[i].count, interpWord[i].tail)
  <2>1. Size(i) = 2 /\ Cells(i, wild) = <<head, WordCell(w)>>
    BY <1>5 DEF Cells, Size
  <2> HIDE DEF head, w
  <2>2. /\ 1 \in 1..Size(i) /\ Cells(i, wild)[1] = head
        /\ 2 \in 1..Size(i) /\ Cells(i, wild)[2] = WordCell(w)
    BY <2>1
  <2>3. instrs[pcOf[i] + 1] = head /\ instrs[pcOf[i] + 2] = WordCell(w)
    BY <1>3, <2>2
  <2>4. QED
    BY <1>1, <1>2, <1>5, <2>3 DEF head, w
<1>6. CASE ~IsNative(w) /\ i \notin DOMAIN interpWord
  <2>1. Size(i) = 1 /\ Cells(i, wild) = <<WordCell(w)>>
    BY <1>6 DEF Cells, Size
  <2> HIDE DEF w
  <2>2. 1 \in 1..Size(i) /\ Cells(i, wild)[1] = WordCell(w)
    BY <2>1
  <2>3. instrs[pcOf[i] + 1] = WordCell(w)
    BY <1>3, <2>2
  <2>4. QED
    BY <1>1, <1>2, <1>6, <2>3 DEF w
<1>7. QED
  BY <1>4, <1>5, <1>6

\* The kinds of cells
LEMMA CellKinds ==
  ASSUME NEW w, NEW m, NEW c, NEW t
  PROVE  /\ OpCell(w).kind = "op" /\ WordCell(w).kind = "word"
         /\ OffsetCell(m).offset = m
         /\ InterpCell(c, t).kind = "interp" /\ InterpCell(c, t).count = c
         /\ InterpCell(c, t).tail = t
BY DEF OpCell, WordCell, OffsetCell, InterpCell

\* When everything is emitted, the code says what the list says.
LEMMA EmittedMatches ==
  ASSUME LayoutShape(Len(words) + 1), LayoutTargets(Len(words) + 1),
         Coded(Len(words) + 1), Emitted, pos = Len(words) + 1
  PROVE  CodeMatchesList
<1> DEFINE n == Len(words)
<1>1. /\ n \in Nat /\ DOMAIN words = 1..n
      /\ DOMAIN pcOf = 1..((n + 1) - 1) \ erased
  BY ShapeFacts DEF LayoutShape
<1>2. (n + 1) - 1 = n
  BY <1>1
<1>3. \A i \in DOMAIN words \ erased : EmittedAt(i)
  BY <1>1, <1>2 DEF Emitted
<1>4. Len(instrs) = pc
  BY DEF Emitted, PlacedBy
<1>5. \A m \in DOMAIN pcOf : m \in DOMAIN words \ erased
  BY <1>1, <1>2
\* Where the call m of the group at h is
<1>6. ASSUME NEW h \in DOMAIN interpWord, NEW m \in Members(h)
      PROVE  /\ m \in DOMAIN words \ erased /\ ~IsNative(words[m].word)
             /\ h \in Nat /\ m \in Nat /\ pcOf[h] \in Nat
             /\ CellOf(m) = pcOf[h] + 2 + (m - h)
             /\ instrs[CellOf(m)] = WordCell(words[m].word)
  <2>1. GroupAt(h) /\ h \in DOMAIN pcOf
    BY DEF Coded, Groups, LayoutShape
  <2>2. /\ m \in DOMAIN pcOf /\ ~IsNative(words[m].word)
        /\ m # h => m \notin DOMAIN interpWord
        /\ pcOf[m] = pcOf[h] + (m - h) + IF m = h THEN 0 ELSE 1
    BY <2>1 DEF GroupAt
  <2>3. m \in DOMAIN words \ erased /\ EmittedAt(m)
    BY <1>3, <1>5, <2>2
  <2>4. IF m \in DOMAIN interpWord
          THEN instrs[pcOf[m] + 2] = WordCell(words[m].word)
          ELSE instrs[pcOf[m] + 1] = WordCell(words[m].word)
    BY <2>2, <2>3, EmittedCells
  <2>5. /\ h \in Nat /\ m \in Nat /\ pcOf[h] \in Nat /\ pcOf[m] \in Nat
    BY <2>1, <2>2, CodedPcs
  <2>6. CASE m = h
    <3>1. CellOf(m) = pcOf[m] + 1 + 1 /\ m \in DOMAIN interpWord
      BY <2>6 DEF CellOf, StartOf
    <3>2. CellOf(m) = pcOf[m] + 2 /\ CellOf(m) = pcOf[h] + 2 + (m - h)
      BY <2>2, <2>5, <2>6, <3>1
    <3>3. QED
      BY <2>2, <2>3, <2>4, <2>5, <3>1, <3>2
  <2>7. CASE m # h
    <3>1. CellOf(m) = pcOf[m] + 1 /\ m \notin DOMAIN interpWord
      BY <2>2, <2>7 DEF CellOf, StartOf
    <3>2. CellOf(m) = pcOf[h] + 2 + (m - h)
      BY <2>2, <2>5, <2>7, <3>1
    <3>3. QED
      BY <2>2, <2>3, <2>4, <2>5, <3>1, <3>2
  <2>8. QED
    BY <2>6, <2>7
\* The INTERP word of a group
<1>7. ASSUME NEW h \in DOMAIN interpWord
      PROVE  /\ instrs[pcOf[h] + 1] =
                  InterpCell(interpWord[h].count, interpWord[h].tail)
             /\ interpWord[h].count \in 1..kMaxInterp
  <2>1. GroupAt(h)
    BY DEF Coded, Groups
  <2>2. h \in Members(h)
    <3>1. interpWord[h].count \in Nat /\ interpWord[h].count >= 1 /\ h \in Nat
      BY <2>1, CodedPcs DEF GroupAt, LayoutShape
    <3>2. QED
      BY <3>1 DEF Members
  <2>3. h \in DOMAIN words \ erased /\ ~IsNative(words[h].word) /\ EmittedAt(h)
    BY <1>3, <1>6, <2>2
  <2>4. QED
    BY <2>1, <2>3, EmittedCells DEF GroupAt
<1>8. ASSUME NEW i \in DOMAIN words \ erased, IsNative(words[i].word)
      PROVE  /\ instrs[CellOf(i)] = OpCell(words[i].word)
             /\ words[i].branchTo # 0 /\ ~Dangling(i) =>
                  CellOf(i) + 2 + instrs[CellOf(i) + 1].offset
                    = StartOf(words[i].branchTo)
  <2>1. /\ i \notin DOMAIN interpWord /\ pcOf[i] \in Nat
        /\ instrs[pcOf[i] + 1] = OpCell(words[i].word)
    BY <1>3, <1>8, EmittedCells
  <2>2. CellOf(i) = pcOf[i] + 1
    BY <2>1 DEF CellOf, StartOf
  <2>3. ASSUME words[i].branchTo # 0, ~Dangling(i)
        PROVE  CellOf(i) + 2 + instrs[CellOf(i) + 1].offset
                 = StartOf(words[i].branchTo)
    <3> DEFINE t == words[i].branchTo
    <3>1. PICK wild \in WildOffsets :
            instrs[pcOf[i] + 2] = OffsetCell(Offset(i, wild))
      BY <1>3, <1>8, <2>3, EmittedCells
    <3>2. instrs[pcOf[i] + 2].offset = pcOf[t] - pcOf[i] - 2
      BY <2>3, <3>1, CellKinds DEF Offset
    <3>3. pcOf[t] \in Nat
      BY <2>3, TargetLaid, CodedPcs
    <3>4. CellOf(i) + 1 = pcOf[i] + 2
      BY <2>1, <2>2
    <3>5. pcOf[i] + 1 + 2 + (pcOf[t] - pcOf[i] - 2) = pcOf[t] + 1
      BY <2>1, <3>3
    <3>6. QED
      BY <2>2, <3>2, <3>4, <3>5 DEF StartOf
  <2>4. QED
    BY <2>1, <2>2, <2>3
<1>9. ASSUME NEW i \in DOMAIN words \ erased, ~IsNative(words[i].word)
      PROVE  /\ instrs[CellOf(i)] = WordCell(words[i].word)
             /\ \E h \in 1..(CellOf(i) - 1) :
                  /\ instrs[h].kind = "interp" /\ CellOf(i) \in Group(h)
                  /\ instrs[h].count <= kMaxInterp
                  /\ \A c \in Group(h) : instrs[c].kind = "word"
                  /\ CellOf(i) = h + instrs[h].count =>
                       instrs[h].tail = ReturnsImmediately(words, i + 1)
  <2>1. i \in DOMAIN pcOf
    BY <1>1, <1>2
  <2>2. PICK g \in DOMAIN interpWord : i \in Members(g)
    BY <1>9, <2>1 DEF Coded, Groups
  <2> DEFINE count == interpWord[g].count
             h == pcOf[g] + 1
  <2>3. /\ g \in Nat /\ i \in Nat /\ pcOf[g] \in Nat
        /\ CellOf(i) = pcOf[g] + 2 + (i - g)
        /\ instrs[CellOf(i)] = WordCell(words[i].word)
    BY <1>6, <2>2
  <2>4. count \in Nat /\ count <= kMaxInterp /\ i \in g..(g + count - 1)
    BY <1>7, <2>2 DEF Members, kMaxInterp
  <2>5. /\ instrs[h].kind = "interp" /\ instrs[h].count = count
        /\ instrs[h].tail = interpWord[g].tail
    BY <1>7, CellKinds
  <2>6. Group(h) = (h + 1)..(h + count)
    BY <2>5 DEF Group
  <2>7. ASSUME NEW c \in Group(h) PROVE instrs[c].kind = "word"
    <3> DEFINE m == g + (c - (pcOf[g] + 2))
    <3>1. c \in (pcOf[g] + 1 + 1)..(pcOf[g] + 1 + count)
      BY <2>6, <2>7
    <3> HIDE DEF count
    <3>2. m \in g..(g + count - 1) /\ c = pcOf[g] + 2 + (m - g)
      <4> DEFINE b == pcOf[g]
      <4>1. /\ b \in Nat /\ g \in Nat /\ count \in Nat
            /\ c \in (b + 1 + 1)..(b + 1 + count)
        BY <2>3, <2>4, <3>1
      <4> HIDE DEF b
      <4>2. /\ g + (c - (b + 2)) \in g..(g + count - 1)
            /\ c = b + 2 + ((g + (c - (b + 2))) - g)
        BY <4>1
      <4>3. QED
        BY <4>2 DEF b
    <3>3. m \in Members(g)
      BY <3>2 DEF Members, count
    <3> HIDE DEF m
    <3>4. CellOf(m) = c /\ instrs[CellOf(m)] = WordCell(words[m].word)
      BY <1>6, <3>2, <3>3
    <3>5. QED
      BY <3>4, CellKinds
  <2>8. interpWord[g].tail = ReturnsImmediately(words, g + count)
    BY DEF Coded, Groups, GroupAt
  <2> HIDE DEF count
  <2>9. /\ h \in 1..(CellOf(i) - 1) /\ CellOf(i) \in (h + 1)..(h + count)
        /\ CellOf(i) = h + count => g + count = i + 1
    <3> DEFINE b == pcOf[g]
               k == CellOf(i)
    <3>1. /\ b \in Nat /\ g \in Nat /\ count \in Nat /\ i \in g..(g + count - 1)
          /\ k = b + 2 + (i - g)
      BY <2>3, <2>4
    <3> HIDE DEF b, k
    <3>2. /\ b + 1 \in 1..(k - 1) /\ k \in ((b + 1) + 1)..((b + 1) + count)
          /\ k = (b + 1) + count => g + count = i + 1
      BY <3>1
    <3>3. QED
      BY <3>2 DEF b, k
  <2> HIDE DEF h
  <2>10. QED
    BY <2>3, <2>4, <2>5, <2>6, <2>7, <2>8, <2>9
<1>10. ASSUME NEW i \in DOMAIN words, words[i].branchTo # 0, ~Dangling(i)
       PROVE  instrs[StartOf(words[i].branchTo)].kind \in {"op", "interp"}
  <2> DEFINE t == words[i].branchTo
  <2>1. /\ t \in DOMAIN pcOf
        /\ ~IsNative(words[t].word) => t \in DOMAIN interpWord
    BY <1>10, TargetLaid
  <2>2. t \in DOMAIN words \ erased /\ EmittedAt(t)
    BY <1>3, <1>5, <2>1
  <2> HIDE DEF t
  <2>3. CASE IsNative(words[t].word)
    <3>1. instrs[pcOf[t] + 1] = OpCell(words[t].word)
      BY <2>2, <2>3, EmittedCells
    <3>2. QED
      BY <3>1, CellKinds DEF StartOf, t
  <2>4. CASE ~IsNative(words[t].word)
    <3>1. instrs[pcOf[t] + 1] = InterpCell(interpWord[t].count, interpWord[t].tail)
      BY <1>7, <2>1, <2>4
    <3>2. QED
      BY <3>1, CellKinds DEF StartOf, t
  <2>5. QED
    BY <2>3, <2>4
<1>11. QED
  BY <1>4, <1>8, <1>9, <1>10 DEF CodeMatchesList, Live

-----------------------------------------------------------------------------
(* The theorems *)

LEMMA GenInitOK == GenInit => GenInv
<1> SUFFICES ASSUME GenInit PROVE GenInv
  OBVIOUS
<1>1. CheckInit /\ NotStarted
  BY DEF GenInit, NotStarted
<1>2. phase = "parsing" /\ words = <<Placeholder>>
  BY <1>1 DEF CheckInit, Init
<1>3. CheckLists /\ NothingLost
  BY <1>1, CheckInitOK
<1>4. CheckEnds
  BY <1>2 DEF CheckEnds
<1>5. Targets(words) /\ FirstPlain(words) /\ Len(words) <= MaxWords
  <2>1. /\ Placeholder.word = "NOP" /\ Placeholder.branchTo = 0
    BY DEF Placeholder, NewSourceWord, Ref
  <2>2. /\ DOMAIN words = {1} /\ words[1] = Placeholder /\ Len(words) = 1
    BY <1>2
  <2>3. QED
    BY <2>1, <2>2, CompilerAssumption DEF Targets, FirstPlain
<1>6. QED
  BY <1>1, <1>2, <1>3, <1>4, <1>5 DEF GenInv, BeforeLayout

\* Every step keeps the invariant.
LEMMA GenNextOK ==
  ASSUME InlinesAreStraight, GenInv, [GenNext]_genVars
  PROVE  GenInv'
<1> DEFINE Late == phase \in {"layout", "emitting", "compiled"}
           Kept == UNCHANGED <<words, effect, known, canAddInputs, pc,
                               afterBranch, interpCount, firstInterp, chase,
                               erased, pcOf, interpWord, recursive>>
<1>1. ASSUME Kept, NEW p, Laid(p) PROVE Laid(p)'
  BY <1>1, LayoutUnchanged, CodedUnchanged DEF Laid
<1>2. CASE Next /\ UNCHANGED <<layoutVars, instrs>>
  <2>1. ~Late /\ ~Late'
    BY <1>2, NextPhases
  <2>2. BeforeLayout'
    BY <1>2, <2>1, BeforeLayoutKept DEF GenInv
  <2>3. QED
    BY <2>1, <2>2 DEF GenInv
<1>3. CASE UNCHANGED genVars
  <2>1. Kept /\ UNCHANGED <<pos, phase, vars, layoutVars, instrs>>
    BY <1>3 DEF genVars, vars, compilerVars, setup, checkVars, layoutVars
  <2>2. CASE phase = "layout"
    <3>1. PICK p : p = pos
      OBVIOUS
    <3>2. Laid(p)' /\ p = pos'
      BY <1>1, <2>1, <2>2, <3>1 DEF GenInv
    <3>3. QED
      BY <2>1, <2>2, <3>2 DEF GenInv
  <2>3. CASE phase \in {"emitting", "compiled"}
    <3>1. PICK p : p = Len(words) + 1
      OBVIOUS
    <3>2. Emission
      BY <2>3 DEF GenInv
    <3>3. Laid(p)' /\ p = Len(words') + 1
      BY <1>1, <2>1, <3>1, <3>2 DEF Emission
    <3>4. Emitted'
      BY <2>1, <3>2, EmittedUnchanged DEF Emission
    <3>5. QED
      BY <2>1, <2>3, <3>2, <3>3, <3>4 DEF GenInv, Emission
  <2>4. CASE ~Late
    BY <2>1, <2>4, BeforeLayoutKept DEF GenInv
  <2>5. QED
    BY <2>2, <2>3, <2>4
<1>4. CASE GenStep
  <2>1. CASE StartLayout
    <3>1. phase = "checked" /\ phase' = "layout" /\ instrs' = instrs
      BY <2>1 DEF StartLayout
    <3>2. BeforeLayout /\ instrs = <<>>
      BY <3>1 DEF GenInv, BeforeLayout, NotStarted
    <3>3. QED
      BY <2>1, <3>1, <3>2, StartLayoutKept, StartCoded DEF GenInv, Laid
  <2>2. ASSUME phase = "layout"
        PROVE  /\ LayoutShape(pos) /\ LayoutTargets(pos) /\ LayoutFixed(pos)
               /\ Coded(pos) /\ instrs = <<>>
    BY <2>2 DEF GenInv, Laid
  <2>3. ASSUME phase' = "layout", LayoutShape(pos)', LayoutTargets(pos)',
               LayoutFixed(pos)', Coded(pos)', instrs' = <<>>
        PROVE  GenInv'
    BY <2>3 DEF GenInv, Laid
  <2>4. CASE EraseUnreachable
    <3>1. phase = "layout" /\ phase' = phase /\ instrs' = instrs
      BY <2>4 DEF EraseUnreachable, AtWord, vars, compilerVars
    <3>2. QED
      BY <2>2, <2>3, <2>4, <3>1, EraseKept, EraseCoded
  <2>5. CASE LayoutNative
    <3>1. phase = "layout" /\ phase' = phase /\ instrs' = instrs
      BY <2>5 DEF LayoutNative, AtWord, NativeDone, vars, compilerVars
    <3>2. QED
      BY <2>2, <2>3, <2>5, <3>1, NativeKept, LayoutNativeCoded
  <2>6. CASE LayoutBranch
    <3>1. phase = "layout" /\ phase' = phase /\ instrs' = instrs
      BY <2>6 DEF LayoutBranch, AtWord
    <3>2. QED
      BY <2>2, <2>3, <2>6, <3>1, BranchKept, BranchCoded
  <2>7. CASE FollowChain
    <3>1. phase = "layout" /\ phase' = phase /\ instrs' = instrs
      BY <2>7 DEF FollowChain, vars, compilerVars
    <3>2. QED
      BY <2>2, <2>3, <2>7, <3>1, FollowKept, FollowCoded
  <2>8. CASE EndOfChain
    <3>1. phase = "layout" /\ phase' = phase /\ instrs' = instrs
      BY <2>8 DEF EndOfChain, NativeDone
    <3>2. QED
      BY <2>2, <2>3, <2>8, <3>1, EndKept, EndCoded
  <2>9. CASE LayoutInterp
    <3>1. phase = "layout" /\ phase' = phase /\ instrs' = instrs
      BY <2>9 DEF LayoutInterp, AtWord, vars, compilerVars
    <3>2. QED
      BY <2>2, <2>3, <2>9, <3>1, InterpKept, InterpCoded
  <2>10. CASE StartEmission
    <3>1. /\ phase = "layout" /\ phase' = "emitting" /\ pos = Len(words) + 1
          /\ pos' = 1 /\ instrs' = instrs /\ Kept
      BY <2>10 DEF StartEmission, setup, checkVars
    <3>2. PICK p : p = pos
      OBVIOUS
    <3>3. Laid(p) /\ p = Len(words') + 1 /\ instrs = <<>>
      BY <3>1, <3>2 DEF GenInv
    <3>4. Laid(p)'
      BY <1>1, <3>1, <3>3
    <3>5. LayoutShape(p) /\ Coded(p)'
      BY <3>3, <3>4 DEF Laid
    <3>6. pos' \in 1..(Len(words') + 1)
      BY <3>1, <3>3, <3>5, ShapeFacts
    <3>7. Emitted'
      <4>1. instrs' \in Seq(Instruction) /\ Len(instrs') = 0
        BY <3>1, <3>3
      <4>2. PICK start : PlacedBy(start, p)'
        BY <3>5 DEF Coded
      <4>3. start[1] = 0
        BY <4>2 DEF PlacedBy
      <4>4. 1..(pos' - 1) = {}
        BY <3>1
      <4>5. QED
        BY <3>1, <3>3, <4>1, <4>2, <4>3, <4>4 DEF Emitted
    <3>8. QED
      BY <3>1, <3>3, <3>4, <3>6, <3>7 DEF GenInv, Emission
  <2>11. CASE EmitWord \/ EndEmission
    <3>1. phase = "emitting" /\ phase' \in {"emitting", "compiled"} /\ Kept
      BY <2>11 DEF EmitWord, EndEmission, setup, checkVars, layoutVars, vars,
                   compilerVars
    <3>2. Emission
      BY <3>1 DEF GenInv
    <3>3. PICK p : p = Len(words) + 1
      OBVIOUS
    <3>4. Laid(p) /\ Laid(p)' /\ p = Len(words') + 1
      BY <1>1, <3>1, <3>2, <3>3 DEF Emission
    <3>5. Len(words) \in Nat /\ DOMAIN words = 1..Len(words)
      BY <3>4, ShapeFacts DEF Laid
    <3>6. /\ pos' \in 1..(Len(words') + 1)
          /\ phase' = "compiled" => pos' = Len(words') + 1
          /\ Emitted'
      <4>1. CASE EmitWord
        <5>1. /\ pos \in DOMAIN words /\ pos' \in 1..(Len(words') + 1)
              /\ phase' = "emitting"
          BY <3>1, <3>2, <3>5, <4>1 DEF EmitWord, Emission, vars, compilerVars
        <5>2. QED
          BY <3>2, <4>1, <5>1, EmitKept DEF Emission, Laid
      <4>2. CASE EndEmission
        <5>1. UNCHANGED <<pos, instrs>> /\ pos = Len(words) + 1
          BY <4>2 DEF EndEmission, layoutVars
        <5>2. Emitted'
          BY <3>1, <3>2, <5>1, EmittedUnchanged DEF Emission
        <5>3. QED
          BY <3>1, <3>2, <5>1, <5>2 DEF Emission
      <4>3. QED
        BY <2>11, <4>1, <4>2
    <3>7. QED
      BY <3>1, <3>4, <3>6 DEF GenInv, Emission
  <2>12. QED
    BY <1>4, <2>1, <2>4, <2>5, <2>6, <2>7, <2>8, <2>9, <2>10, <2>11 DEF GenStep
<1>5. QED
  BY <1>2, <1>3, <1>4 DEF GenNext

\* The invariant implies the types.
LEMMA GenInvTypes == GenInv => LayoutTypeOK
<1> SUFFICES ASSUME GenInv PROVE LayoutTypeOK
  OBVIOUS
<1>1. CASE phase \in {"layout", "emitting", "compiled"}
  <2> DEFINE n == Len(words)
  <2>1. PICK p : LayoutShape(p)
    BY <1>1 DEF GenInv, Emission, Laid
  <2>2. /\ n \in Nat /\ DOMAIN words = 1..n /\ MaxWords \in Nat /\ n <= MaxWords
        /\ p \in 1..(n + 1) /\ erased \subseteq 1..(p - 1)
    BY <2>1, ShapeFacts
  <2>3. pos \in 1..(n + 1)
    BY <1>1, ShapeFacts DEF GenInv, Emission, Laid
  <2>4. 1..(p - 1) \subseteq 1..n
    BY <2>2
  <2>5. pos \in 0..(MaxWords + 1)
    BY <2>2, <2>3
  <2>6. chase \in 0..MaxWords
    BY <2>1, <2>2 DEF LayoutShape
  <2>7. QED
    BY <1>1, <2>1, <2>2, <2>4, <2>5, <2>6 DEF LayoutShape, LayoutTypeOK
<1>2. CASE phase \notin {"layout", "emitting", "compiled"}
  <2>1. CheckLists /\ NotStarted
    BY <1>2 DEF GenInv, BeforeLayout
  <2>2. phase \in {"parsing", "checking", "checked", "error"}
    BY <2>1 DEF CheckLists
  <2>3. DOMAIN NothingKnown = {}
    BY DEF NothingKnown
  <2>4. /\ 0 \in 0..(MaxWords + 1) /\ 0 \in 0..MaxWords /\ 0 \in 0..kMaxInterp
    BY CompilerAssumption DEF kMaxInterp
  <2>5. QED
    BY <2>1, <2>2, <2>3, <2>4 DEF NotStarted, LayoutTypeOK
<1>3. QED
  BY <1>1, <1>2

\* The invariant implies that control stays where the checker has been.
LEMMA GenInvFlow == GenInv => OptimizedFlowCovered
<1> SUFFICES ASSUME GenInv, phase = "compiled", ~canAddInputs
             PROVE  /\ 1 \in Live
                    /\ \A i \in Live \cap DOMAIN known : \A j \in Successors(i) :
                         /\ j \in Live \cup {Len(words)}
                         /\ j \in DOMAIN known
                         /\ Covers(known[j], Outcome(i, known[i]))
  BY DEF OptimizedFlowCovered
<1>1. PICK p : LayoutShape(p) /\ LayoutTargets(p) /\ StillFixed
  BY DEF GenInv, Emission, Laid, LayoutFixed
<1>2. Finished(words)
  BY <1>1 DEF LayoutShape
<1>3. 1 \in Live
  BY <1>1, ShapeFacts DEF LayoutTargets, Live
<1>4. ASSUME NEW i \in Live, NEW j \in Successors(i)
      PROVE  j \in Live \cup {Len(words)}
  <2>1. i \in DOMAIN words /\ i \notin erased
    BY DEF Live
  <2>2. j \in DOMAIN words
    BY <1>2, <2>1, SuccessorsInside
  <2>3. CASE j = i + 1 /\ words[i].word # "_BRANCH"
    BY <1>1, <2>1, <2>2, <2>3 DEF LayoutTargets, Live
  <2>4. CASE j = words[i].branchTo
    <3>1. j # 0
      BY <1>1, <2>2, ShapeFacts
    <3>2. Destination(j)
      BY <1>1, <2>1, <2>4, <3>1 DEF LayoutTargets
    <3>3. j \in erased => ~words[j].isDst
      BY <1>1 DEF LayoutTargets
    <3>4. QED
      BY <2>2, <3>2, <3>3 DEF Destination, Live
  <2>5. QED
    BY <2>3, <2>4 DEF Successors
<1>5. QED
  BY <1>1, <1>3, <1>4 DEF StillFixed

\* And it implies that the code matches the list.
LEMMA GenInvCode == GenInv => CodeMatchesList
<1> SUFFICES ASSUME GenInv, phase = "compiled" PROVE CodeMatchesList
  BY DEF CodeMatchesList
<1>1. Emission
  BY DEF GenInv
<1>2. QED
  BY <1>1, EmittedMatches DEF Emission, Laid

(***************************************************************************)
(* The layout loop keeps its types, whatever the checker let through: the  *)
(* loop and the chains of branches it follows stay inside the list, and a  *)
(* group of calls never exceeds the family of INTERP words.                *)
(***************************************************************************)
THEOREM LayoutTypeCorrect ==
  ASSUME InlinesAreStraight
  PROVE  GenSpec => []LayoutTypeOK
<1>1. GenInv /\ [GenNext]_genVars => GenInv'
  BY GenNextOK
<1>2. QED
  BY <1>1, GenInitOK, GenInvTypes, PTL DEF GenSpec

(***************************************************************************)
(* The optimizations of generateInstructions() preserve the checker's      *)
(* verdict, for a word of any length: erasing unreachable words, following *)
(* chains of branches and turning tail recursion into a loop leave a list  *)
(* in which control only goes to words that stay, with stacks they were    *)
(* checked for.                                                            *)
(***************************************************************************)
THEOREM OptimizationsSound ==
  ASSUME InlinesAreStraight
  PROVE  GenSpec => []OptimizedFlowCovered
<1>1. GenInv /\ [GenNext]_genVars => GenInv'
  BY GenNextOK
<1>2. QED
  BY <1>1, GenInitOK, GenInvFlow, PTL DEF GenSpec

(***************************************************************************)
(* The code says what the list says, for a word of any length: as many     *)
(* cells as the layout reckoned (assert(instrs.size() == pc)), every word  *)
(* at its pc, every offset leading to the start of its target's            *)
(* instruction, and every call in one group of at most four that is        *)
(* entered only at its start and jumps to its last call exactly if that    *)
(* returns.                                                                *)
(***************************************************************************)
THEOREM CodeCorrect ==
  ASSUME InlinesAreStraight
  PROVE  GenSpec => []CodeMatchesList
<1>1. GenInv /\ [GenNext]_genVars => GenInv'
  BY GenNextOK
<1>2. QED
  BY <1>1, GenInitOK, GenInvCode, PTL DEF GenSpec
=============================================================================

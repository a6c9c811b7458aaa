-------------------------- MODULE StackCheckProofs --------------------------
(***************************************************************************)
(* Proofs about the stack checker: its type correctness, and that what it  *)
(* approves of is a fixed point.                                           *)
(***************************************************************************)
EXTENDS StackCheck, CompilerProofs, StackEffectProofs

-----------------------------------------------------------------------------
(* The effects of the words *)

\* The united match of two outputs stays within the merged inputs, because
\* IFELSE adds three of its own.
LEMMA MatchOrOK ==
  ASSUME NEW m \in 0..7, NEW n \in 0..7
  PROVE  /\ MatchOr(m, n) \in 0..7
         /\ m <= 3 /\ n <= 3 => MatchOr(m, n) <= 3
<1> DEFINE bit(b) == IF (m \div b) % 2 = 1 \/ (n \div b) % 2 = 1 THEN b ELSE 0
<1>1. bit(1) \in {0, 1} /\ bit(2) \in {0, 2} /\ bit(4) \in {0, 4}
  OBVIOUS
<1>2. m <= 3 /\ n <= 3 => bit(4) = 0
  <2>1. m <= 3 => m \div 4 = 0
    OBVIOUS
  <2>2. n <= 3 => n \div 4 = 0
    OBVIOUS
  <2>3. QED
    BY <2>1, <2>2
<1>3. MatchOr(m, n) = bit(1) + bit(2) + bit(4)
  BY DEF MatchOr
<1> HIDE DEF bit
<1>4. QED
  BY <1>1, <1>2, <1>3

\* The merged inputs of an IFELSE's quotations
LEMMA IfElseInputsOK ==
  ASSUME NEW a \in Seq(TypeSet), NEW b \in Seq(TypeSet)
  PROVE  /\ IfElseInputs(a, b) \in Seq(TypeSet)
         /\ Len(IfElseInputs(a, b)) >= Len(a)
         /\ Len(IfElseInputs(a, b)) >= Len(b)
<1> DEFINE n == AtMost(Len(a), Len(b))
           el(i) == IF Len(a) - i < n THEN a[i] \cap FromTop(b, Len(a) - i)
                                      ELSE a[i]
           ex(i) == FromTop(b, n + i - 1)
           p == [i \in DOMAIN a |-> el(i)]
           q == [i \in 1..(Len(b) - n) |-> ex(i)]
<1>1. Len(a) \in Nat /\ Len(b) \in Nat /\ DOMAIN a = 1..Len(a)
  OBVIOUS
<1>2. n \in Nat /\ n <= Len(a) /\ n <= Len(b)
  BY <1>1 DEF AtMost
<1>3. IfElseInputs(a, b) = p \o q
  BY DEF IfElseInputs
<1> HIDE DEF n
<1>4. ASSUME NEW i \in DOMAIN a PROVE el(i) \in TypeSet
  <2>1. a[i] \in TypeSet
    OBVIOUS
  <2>2. ASSUME Len(a) - i < n PROVE FromTop(b, Len(a) - i) \in TypeSet
    <3>1. Len(b) - (Len(a) - i) \in 1..Len(b)
      BY <1>1, <1>2, <2>2
    <3>2. QED
      BY <3>1 DEF FromTop
  <2>3. QED
    BY <2>1, <2>2, TypeSetClosed
<1>5. ASSUME NEW i \in 1..(Len(b) - n) PROVE ex(i) \in TypeSet
  <2>1. i \in Int /\ 1 <= i /\ i <= Len(b) - n
    BY <1>1, <1>2
  <2>2. Len(b) - (n + i - 1) \in 1..Len(b)
    BY <1>1, <1>2, <2>1
  <2>3. QED
    BY <2>2 DEF FromTop
<1> HIDE DEF el, ex
<1>6. p \in Seq(TypeSet) /\ Len(p) = Len(a)
  BY <1>1, <1>4
<1>7. q \in Seq(TypeSet) /\ Len(q) = Len(b) - n
  <2>1. Len(b) - n \in Nat
    BY <1>1, <1>2
  <2>2. QED
    BY <1>5, <2>1
<1> HIDE DEF p, q
<1>8. p \o q \in Seq(TypeSet) /\ Len(p \o q) = Len(a) + (Len(b) - n)
  <2>1. p \o q \in Seq(TypeSet) /\ Len(p \o q) = Len(p) + Len(q)
    BY <1>6, <1>7, ConcatProperties
  <2>2. QED
    BY <1>6, <1>7, <2>1
<1>9. QED
  BY <1>1, <1>2, <1>3, <1>8

\* Their merged outputs
LEMMA IfElseOutputsOK ==
  ASSUME NEW a \in Seq(Output), NEW b \in Seq(Output),
         NEW la \in Nat, NEW lb \in Nat, NEW l \in Nat, l >= la, l >= lb,
         \A i \in DOMAIN a : a[i].match <= la,
         \A i \in DOMAIN b : b[i].match <= lb
  PROVE  /\ IfElseOutputs(a, b) \in Seq(Output)
         /\ \A i \in DOMAIN IfElseOutputs(a, b) :
              IfElseOutputs(a, b)[i].match <= l + 3
<1> DEFINE n == AtMost(Len(a), Len(b))
           union(o, p) == [types |-> o.types \cup p.types,
                           match |-> MatchOr(o.match, p.match)]
           el(i) == IF Len(a) - i < n THEN union(a[i], FromTop(b, Len(a) - i))
                                      ELSE a[i]
           ex(i) == FromTop(b, n + i - 1)
           p == [i \in DOMAIN a |-> el(i)]
           q == [i \in 1..(Len(b) - n) |-> ex(i)]
           Good(o) == o \in Output /\ o.match <= l + 3
<1>1. Len(a) \in Nat /\ Len(b) \in Nat /\ DOMAIN a = 1..Len(a)
      /\ DOMAIN b = 1..Len(b)
  OBVIOUS
<1>2. n \in Nat /\ n <= Len(a) /\ n <= Len(b)
  BY <1>1 DEF AtMost
<1>3. IfElseOutputs(a, b) = p \o q
  BY DEF IfElseOutputs
<1>4. ASSUME NEW o \in Output, NEW r \in Output, o.match <= la, r.match <= lb
      PROVE  Good(union(o, r))
  <2> DEFINE m == MatchOr(o.match, r.match)
  <2>1. o.match \in 0..7 /\ r.match \in 0..7 /\ o.types \cup r.types \in TypeSet
    BY TypeSetClosed DEF Output
  <2>2. m \in 0..7 /\ (o.match <= 3 /\ r.match <= 3 => m <= 3)
    BY <2>1, MatchOrOK
  <2> HIDE DEF m
  <2>3. m <= l + 3
    BY <1>4, <2>1, <2>2
  <2>4. QED
    BY <2>1, <2>2, <2>3 DEF Output, m
<1>5. ASSUME NEW o \in Output, o.match <= la \/ o.match <= lb PROVE Good(o)
  <2>1. o.match \in 0..7
    BY DEF Output
  <2>2. QED
    BY <1>5, <2>1
<1> HIDE DEF n, union, Good
<1>6. ASSUME NEW i \in DOMAIN a PROVE Good(el(i))
  <2>1. a[i] \in Output /\ a[i].match <= la
    OBVIOUS
  <2>2. CASE Len(a) - i < n
    <3>1. Len(b) - (Len(a) - i) \in DOMAIN b
      BY <1>1, <1>2, <2>2
    <3>2. FromTop(b, Len(a) - i) \in Output /\ FromTop(b, Len(a) - i).match <= lb
      BY <3>1 DEF FromTop
    <3>3. QED
      BY <1>4, <2>1, <2>2, <3>2
  <2>3. CASE ~(Len(a) - i < n)
    BY <1>5, <2>1, <2>3
  <2>4. QED
    BY <2>2, <2>3
<1>7. ASSUME NEW i \in 1..(Len(b) - n) PROVE Good(ex(i))
  <2>1. Len(b) - (n + i - 1) \in DOMAIN b
    BY <1>1, <1>2
  <2>2. ex(i) \in Output /\ ex(i).match <= lb
    BY <2>1 DEF FromTop
  <2>3. QED
    BY <1>5, <2>2
<1> HIDE DEF el, ex
<1>8. p \in Seq(Output) /\ Len(p) = Len(a) /\ \A i \in 1..Len(a) : Good(p[i])
  BY <1>1, <1>6 DEF Good
<1>9. q \in Seq(Output) /\ Len(q) = Len(b) - n /\ \A i \in 1..Len(q) : Good(q[i])
  BY <1>1, <1>2, <1>7 DEF Good
<1> HIDE DEF p, q
<1>10. p \o q \in Seq(Output) /\ Len(p \o q) = Len(p) + Len(q)
  BY <1>8, <1>9, ConcatProperties
<1>11. ASSUME NEW i \in 1..(Len(p) + Len(q)) PROVE Good((p \o q)[i])
  <2>1. CASE i \in 1..Len(p)
    BY <1>8, <1>9, <2>1
  <2>2. CASE i \in (Len(p) + 1)..(Len(p) + Len(q))
    <3>1. i - Len(p) \in 1..Len(q) /\ (p \o q)[i] = q[i - Len(p)]
      BY <1>8, <1>9, <2>2
    <3>2. QED
      BY <1>9, <3>1
  <2>3. QED
    BY <1>1, <1>8, <1>9, <2>1, <2>2
<1>12. QED
  BY <1>3, <1>10, <1>11 DEF Good

\* effectOfIFELSE() returns a stack effect.
LEMMA IfElseEffectOK ==
  ASSUME NEW a \in StackEffect, NEW b \in StackEffect
  PROVE  IfElseEffect(a, b) \in StackEffect
<1> DEFINE i1 == IfElseInputs(a.ins, b.ins)
           three == <<AnyType, {"Quote"}, {"Quote"}>>
           ins == i1 \o three
           outs == IfElseOutputs(a.outs, b.outs)
           m == AtLeast(0, AtLeast(a.max, b.max) - 3)
           e == [ins |-> ins, outs |-> outs, max |-> a.max]
<1>1. /\ a.ins \in Seq(TypeSet) /\ Len(a.ins) \in Nat
      /\ a.outs \in Seq(Output) /\ a.max \in 0..kUnknownMax
      /\ \A i \in DOMAIN a.outs : a.outs[i].match <= Len(a.ins)
  BY EffectFields
<1>2. /\ b.ins \in Seq(TypeSet) /\ Len(b.ins) \in Nat
      /\ b.outs \in Seq(Output) /\ b.max \in 0..kUnknownMax
      /\ \A i \in DOMAIN b.outs : b.outs[i].match <= Len(b.ins)
  BY EffectFields
<1>3. /\ i1 \in Seq(TypeSet)
      /\ Len(i1) >= Len(a.ins) /\ Len(i1) >= Len(b.ins)
  BY <1>1, <1>2, IfElseInputsOK
<1>4. three \in Seq(TypeSet) /\ Len(three) = 3
  BY TypeSetClosed
<1> HIDE DEF i1, three
<1>5. Len(i1) \in Nat
  BY <1>3
<1>6. ins \in Seq(TypeSet) /\ Len(ins) = Len(i1) + 3
  <2>1. ins \in Seq(TypeSet) /\ Len(ins) = Len(i1) + Len(three)
    BY <1>3, <1>4, ConcatProperties
  <2>2. QED
    BY <1>4, <2>1
<1>7. /\ outs \in Seq(Output)
      /\ \A i \in DOMAIN outs : outs[i].match <= Len(i1) + 3
  BY <1>1, <1>2, <1>3, <1>5, IfElseOutputsOK
<1> HIDE DEF ins, outs
<1>8. e \in StackEffect
  BY <1>1, <1>6, <1>7, EffectFrom
<1>9. m \in Int
  BY <1>1, <1>2 DEF AtLeast
<1>10. IfElseEffect(a, b) = WithMax(e, m)
  BY DEF IfElseEffect, ins, i1, three, outs
<1> HIDE DEF e, m
<1>11. QED
  BY <1>8, <1>9, <1>10, WithMaxOK

-----------------------------------------------------------------------------
(* The invariant, and one iteration of computeEffect's loop *)

\* The types of the checker's state, with what links its parts
CheckLists ==
  /\ ListsOK
  /\ SetupOK
  /\ phase \in {"parsing", "checking", "checked", "error"}
  /\ work \in Seq(WorkItem)
  /\ \A k \in DOMAIN work : work[k].at \in DOMAIN words
  /\ known \in [DOMAIN known -> Seq(Item)]
  /\ DOMAIN known \subseteq DOMAIN words
  /\ phase # "checking" => work = <<>>
  /\ phase \in {"parsing", "error"} => known = NothingKnown

\* Control never leaves the finished list.
LEMMA FlowInside ==
  ASSUME Finished(words), NEW i \in DOMAIN words
  PROVE  /\ words[i].word # "_RETURN" => i + 1 \in DOMAIN words
         /\ words[i].word = "_RETURN" => i = Len(words)
         /\ IsBranch(words[i].word) => words[i].branchTo \in DOMAIN words
         /\ words[i].word = "_LITERAL" => words[i].lit \in Literals
         /\ words[i].word \in Words \cup SpecialWords
<1>1. /\ words \in Seq(SourceWord) /\ Len(words) \in Nat /\ Len(words) >= 1
      /\ words[Len(words)].word = "_RETURN"
      /\ \A j \in 1..(Len(words) - 1) : Stored(words[j])
      /\ \A j \in 1..Len(words) : words[j].branchTo \in 0..Len(words)
      /\ Resolved(words, <<>>)
      /\ DOMAIN words = 1..Len(words)
  BY DEF Finished
<1>2. IsBranch(words[i].word) => words[i].branchTo \in DOMAIN words
  <2>1. OpenBranches(<<>>) = {}
    BY DEF OpenBranches
  <2>2. IsBranch(words[i].word) => words[i].branchTo # 0
    BY <1>1, <2>1 DEF Resolved
  <2>3. QED
    BY <1>1, <2>2
<1>3. CASE i = Len(words)
  BY <1>1, <1>2, <1>3 DEF SpecialWords
<1>4. CASE i # Len(words)
  <2>1. i \in 1..(Len(words) - 1) /\ i + 1 \in DOMAIN words
    BY <1>1, <1>4
  <2>2. Stored(words[i])
    BY <1>1, <2>1
  <2>3. words[i].word # "_RETURN"
    BY <2>2, CompilerAssumption DEF Stored, SpecialWords
  <2>4. QED
    BY <1>2, <2>1, <2>2, <2>3 DEF Stored, SpecialWords
<1>5. QED
  BY <1>3, <1>4

\* The effect of the word at a position is a stack effect, if no exception
\* is thrown on the way to it.
LEMMA NextEffectTyped ==
  ASSUME Finished(words), effect \in StackEffect, NEW i \in DOMAIN words,
         NEW items, words[i].word # "_LITERAL",
         words[i].word = "IFELSE" => IfElseError(items) = NoError
  PROVE  NextEffect(i, items) \in StackEffect
<1> DEFINE w == words[i].word
<1>1. w \in Words \cup SpecialWords
  BY FlowInside
<1>2. CASE w = "_RECURSE"
  <2>1. effect \in StackEffect /\ kUnknownMax \in Int
    BY DEF kUnknownMax
  <2>2. WithMax(effect, kUnknownMax) \in StackEffect
    BY <2>1, WithMaxOK
  <2>3. RecurseEffect(i) \in StackEffect
    BY <2>1, <2>2 DEF RecurseEffect, WithUnknownMax
  <2>4. QED
    BY <1>2, <2>3 DEF NextEffect
<1>3. CASE w = "IFELSE"
  <2> DEFINE a == LiteralAt(items, 1)
             b == LiteralAt(items, 0)
  <2>1. IfElseError(items) = NoError
    BY <1>3
  <2>2. IsQuote(a) /\ IsQuote(b)
    BY <2>1 DEF IfElseError, NoError
  <2>3. QuoteEffect[a] \in StackEffect /\ QuoteEffect[b] \in StackEffect
    BY <2>2, CompilerAssumption DEF IsQuote
  <2>4. IfElseEffect(QuoteEffect[a], QuoteEffect[b]) \in StackEffect
    BY <2>3, IfElseEffectOK
  <2>5. QED
    BY <1>3, <2>4 DEF NextEffect
<1>4. CASE w = "_ZBRANCH"
  <2>1. /\ <<AnyType>> \in Seq(TypeSet) /\ <<>> \in Seq(Output)
        /\ \A k \in DOMAIN <<>> : <<>>[k].match <= Len(<<AnyType>>)
    BY TypeSetClosed
  <2>2. Effect(<<AnyType>>, <<>>) \in StackEffect
    BY <2>1, EffectOK
  <2>3. QED
    BY <1>4, <2>2 DEF NextEffect
<1>5. CASE w \in {"_BRANCH", "_RETURN"}
  <2>1. /\ <<>> \in Seq(TypeSet) /\ <<>> \in Seq(Output)
        /\ \A k \in DOMAIN <<>> : <<>>[k].match <= Len(<<>>)
    OBVIOUS
  <2>2. Effect(<<>>, <<>>) \in StackEffect
    BY <2>1, EffectOK
  <2>3. QED
    BY <1>5, <2>2 DEF NextEffect
<1>6. CASE w \notin {"_RECURSE", "IFELSE", "_ZBRANCH", "_BRANCH", "_RETURN"}
  <2>1. w \in Words \ {"IFELSE"}
    BY <1>1, <1>6 DEF SpecialWords
  <2>2. WordEffect[w] \in StackEffect
    BY <2>1, CompilerAssumption
  <2>3. QED
    BY <1>6, <2>2 DEF NextEffect
<1>7. QED
  BY <1>2, <1>3, <1>4, <1>5, <1>6

LEMMA NextEffectOK ==
  ASSUME Finished(words), SetupOK, NEW i \in DOMAIN words, NEW items,
         words[i].word # "_LITERAL", EffectError(i, items) = NoError
  PROVE  NextEffect(i, items) \in StackEffect
BY NextEffectTyped DEF SetupOK, EffectError

\* The fields of a simulated stack
LEMMA StackFields ==
  ASSUME NEW s \in EffectStack
  PROVE  /\ s.items \in Seq(Item) /\ Len(s.items) \in Nat
         /\ s.initial \in Nat /\ s.max \in Nat
         /\ s = [items |-> s.items, initial |-> s.initial, max |-> s.max]
BY DEF EffectStack

\* A stack with other items is a stack again.
LEMMA StackFrom ==
  ASSUME NEW s \in EffectStack, NEW items \in Seq(Item)
  PROVE  /\ [s EXCEPT !.items = items] \in EffectStack
         /\ [s EXCEPT !.items = items].items = items
BY DEF EffectStack

\* The stack the loop has when it arrives at a position it will trace
LEMMA ArriveOK ==
  ASSUME CheckLists, NEW i, NEW stack, Arrive(i, stack)
  PROVE  /\ phase = "checking" /\ Finished(words)
         /\ work # <<>> /\ Len(work) \in DOMAIN work
         /\ i \in DOMAIN words /\ i = work[Len(work)].at
         /\ stack \in EffectStack
         /\ Covers(stack.items, work[Len(work)].stack.items)
         /\ i \in DOMAIN known => Covers(stack.items, known[i])
<1> DEFINE cur == work[Len(work)]
<1>1. /\ phase = "checking" /\ work # <<>> /\ i = cur.at
      /\ ~Inconsistent(i, cur.stack) /\ stack = Joined(i, cur.stack)
  BY DEF Arrive, Checking, Current
<1>2. Finished(words)
  BY <1>1 DEF CheckLists, ListsOK
<1>3. work \in Seq(WorkItem) /\ Len(work) \in DOMAIN work
  BY <1>1 DEF CheckLists
<1>4. cur \in WorkItem /\ cur.at \in DOMAIN words
  BY <1>3 DEF CheckLists
<1>5. cur.stack \in EffectStack
  BY <1>4 DEF WorkItem
<1> HIDE DEF cur
<1>6. cur.stack.items \in Seq(Item)
  BY <1>5, StackFields
<1>7. CASE i \in DOMAIN known
  <2>1. known[i] \in Seq(Item) /\ DOMAIN known[i] = DOMAIN cur.stack.items
    BY <1>1, <1>7 DEF CheckLists, Inconsistent
  <2> DEFINE m == Merge(cur.stack.items, known[i])
  <2>2. m \in Seq(Item) /\ Covers(m, cur.stack.items) /\ Covers(m, known[i])
    BY <1>6, <2>1, MergeCovers
  <2>3. stack = [cur.stack EXCEPT !.items = m]
    BY <1>1, <1>7 DEF Joined, MergeWith
  <2> HIDE DEF m
  <2>4. stack \in EffectStack /\ stack.items = m
    BY <1>5, <2>2, <2>3, StackFrom
  <2>5. QED
    BY <1>1, <1>2, <1>3, <1>4, <2>2, <2>4 DEF cur
<1>8. CASE i \notin DOMAIN known
  <2>1. stack = cur.stack
    BY <1>1, <1>8 DEF Joined
  <2>2. Covers(stack.items, cur.stack.items)
    BY <2>1, CoversReflexive
  <2>3. QED
    BY <1>1, <1>2, <1>3, <1>4, <1>5, <1>8, <2>1, <2>2 DEF cur
<1>9. QED
  BY <1>7, <1>8

\* The missing inputs a call adds are type sets; there are none to add to a
\* word whose inputs are declared.
LEMMA MissingInputsOK ==
  ASSUME NEW callee \in StackEffect, NEW stack \in EffectStack
  PROVE  /\ MissingInputs(callee, stack) \in Seq(TypeSet)
         /\ ~canAddInputs => MissingInputs(callee, stack) = <<>>
<1>1. callee.ins \in Seq(TypeSet) /\ Len(callee.ins) \in Nat
  BY EffectFields
<1>2. Depth(stack) \in Nat
  BY StackFields DEF Depth
<1>3. CASE canAddInputs /\ Len(callee.ins) > Depth(stack)
  <2>1. SubSeq(callee.ins, 1, Len(callee.ins) - Depth(stack)) \in Seq(TypeSet)
    BY <1>1, <1>2
  <2>2. QED
    BY <1>3, <2>1 DEF MissingInputs
<1>4. CASE ~(canAddInputs /\ Len(callee.ins) > Depth(stack))
  BY <1>4 DEF MissingInputs
<1>5. QED
  BY <1>3, <1>4

\* addAtBottom() puts items of these types below the stack.
LEMMA AddAtBottomOK ==
  ASSUME NEW stack \in EffectStack, NEW types \in Seq(TypeSet)
  PROVE  /\ AddAtBottom(stack, types) \in EffectStack
         /\ types = <<>> => AddAtBottom(stack, types).items = stack.items
<1> DEFINE el(i) == TypeItem(types[i])
           below == [i \in DOMAIN types |-> el(i)]
           max == AtLeast(stack.max, Depth(stack) + Len(types))
<1>1. /\ stack.items \in Seq(Item) /\ Depth(stack) \in Nat /\ stack.max \in Nat
      /\ Len(types) \in Nat /\ DOMAIN types = 1..Len(types)
  BY StackFields DEF Depth
<1>2. ASSUME NEW i \in DOMAIN types PROVE el(i) \in Item
  <2>1. types[i] \in TypeSet
    OBVIOUS
  <2>2. QED
    BY <2>1 DEF TypeItem, Item
<1> HIDE DEF el
<1>3. below \in Seq(Item) /\ Len(below) = Len(types)
  BY <1>1, <1>2
<1>4. max \in Nat
  BY <1>1 DEF AtLeast
<1>5. AddAtBottom(stack, types) =
        [stack EXCEPT !.items = below \o stack.items, !.max = max]
  BY DEF AddAtBottom, el
<1> DEFINE items == below \o stack.items
<1> HIDE DEF below, max
<1>6. items \in Seq(Item)
  BY <1>1, <1>3, ConcatProperties
<1> HIDE DEF items
<1>7. AddAtBottom(stack, types) \in EffectStack
      /\ AddAtBottom(stack, types).items = items
  <2>1. AddAtBottom(stack, types) = [stack EXCEPT !.items = items, !.max = max]
    BY <1>5 DEF items
  <2>2. QED
    BY <1>4, <1>6, <2>1 DEF EffectStack
<1>8. ASSUME types = <<>> PROVE items = stack.items
  <2>1. below = <<>>
    BY <1>3, <1>8
  <2>2. QED
    BY <1>1, <2>1, ConcatEmptySeq DEF items
<1>9. QED
  BY <1>7, <1>8

\* add(word, effect) of a word that accepts the stack
LEMMA AddCallOK ==
  ASSUME NEW stack \in EffectStack, NEW e \in StackEffect,
         Accepts(e, stack.items)
  PROVE  /\ AddCall(stack, e) \in EffectStack
         /\ AddCall(stack, e).items = ItemsAfter(e, stack.items)
<1> DEFINE items == ItemsAfter(e, stack.items)
           max == AtLeast(stack.max, Depth(stack) + e.max)
<1>1. stack.items \in Seq(Item) /\ Depth(stack) \in Nat /\ stack.max \in Nat
  BY StackFields DEF Depth
<1>2. items \in Seq(Item)
  BY <1>1, ItemsAfterOK
<1>3. max \in Nat
  <2>1. e.max \in Nat
    BY EffectFields
  <2>2. QED
    BY <1>1, <2>1 DEF AtLeast
<1>4. AddCall(stack, e) = [stack EXCEPT !.items = items, !.max = max]
  BY DEF AddCall
<1> HIDE DEF items, max
<1>5. AddCall(stack, e) \in EffectStack /\ AddCall(stack, e).items = items
  BY <1>2, <1>3, <1>4 DEF EffectStack
<1>6. QED
  BY <1>5 DEF items

\* add(value)
LEMMA AddLiteralOK ==
  ASSUME NEW stack \in EffectStack, NEW v \in Literals
  PROVE  /\ AddLiteral(stack, v) \in EffectStack
         /\ AddLiteral(stack, v).items = Append(stack.items, LiteralItem(v))
<1> DEFINE items == Append(stack.items, LiteralItem(v))
           max == AtLeast(stack.max, Depth(stack) + 1)
<1>1. stack.items \in Seq(Item) /\ Depth(stack) \in Nat /\ stack.max \in Nat
  BY StackFields DEF Depth
<1>2. LiteralItem(v) \in Item
  BY LiteralsAssumption DEF LiteralItem, Item, TypeSet
<1>3. items \in Seq(Item)
  BY <1>1, <1>2
<1>4. max \in Nat
  BY <1>1 DEF AtLeast
<1>5. AddLiteral(stack, v) = [stack EXCEPT !.items = items, !.max = max]
  BY DEF AddLiteral
<1> HIDE DEF items, max
<1>6. AddLiteral(stack, v) \in EffectStack /\ AddLiteral(stack, v).items = items
  BY <1>3, <1>4, <1>5 DEF EffectStack
<1>7. QED
  BY <1>6 DEF items

\* A call that throws no exception: the effect and the stack it leaves
LEMMA CallOK ==
  ASSUME CheckLists, NEW i, NEW stack, Arrive(i, stack),
         words[i].word # "_LITERAL", CallError(i, stack) = NoError
  PROVE  /\ EffectError(i, stack.items) = NoError
         /\ NextEffect(i, stack.items) \in StackEffect
         /\ Called(i, stack) \in EffectStack
         /\ ExtendedEffect(i, stack) \in StackEffect
         /\ ExtendedEffect(i, stack).outs = effect.outs
         /\ ExtendedEffect(i, stack).max = effect.max
         /\ ~canAddInputs =>
              /\ Accepts(NextEffect(i, stack.items), stack.items)
              /\ Called(i, stack).items =
                   ItemsAfter(NextEffect(i, stack.items), stack.items)
              /\ ExtendedEffect(i, stack) = effect
<1> DEFINE e == NextEffect(i, stack.items)
           missing == MissingInputs(e, stack)
           ext == Extended(i, stack)
<1>1. Finished(words) /\ i \in DOMAIN words /\ stack \in EffectStack
  BY ArriveOK
<1>2. /\ EffectError(i, stack.items) = NoError
      /\ Accepts(e, ext.items)
  BY DEF CallError, NoError
<1>3. SetupOK /\ effect \in StackEffect
  BY DEF CheckLists, SetupOK
<1>4. e \in StackEffect
  BY <1>1, <1>2, <1>3, NextEffectOK
<1>5. missing \in Seq(TypeSet) /\ (~canAddInputs => missing = <<>>)
  BY <1>1, <1>4, MissingInputsOK
<1>6. ext = AddAtBottom(stack, missing)
  BY DEF Extended
<1>7. ext \in EffectStack /\ (~canAddInputs => ext.items = stack.items)
  BY <1>1, <1>5, <1>6, AddAtBottomOK
<1>8. Called(i, stack) = AddCall(ext, e)
  BY DEF Called
<1>9. ExtendedEffect(i, stack) = [effect EXCEPT !.ins = missing \o effect.ins]
  BY DEF ExtendedEffect, AddInputsAtBottom
<1> HIDE DEF e, missing, ext
<1>10. /\ Called(i, stack) \in EffectStack
       /\ Called(i, stack).items = ItemsAfter(e, ext.items)
  BY <1>2, <1>4, <1>7, <1>8, AddCallOK
<1>11. /\ effect.ins \in Seq(TypeSet) /\ Len(effect.ins) \in Nat
       /\ effect.outs \in Seq(Output) /\ effect.max \in 0..kUnknownMax
       /\ \A k \in DOMAIN effect.outs : /\ effect.outs[k].match \in 0..7
                                        /\ effect.outs[k].match <= Len(effect.ins)
       /\ effect = [ins |-> effect.ins, outs |-> effect.outs, max |-> effect.max]
  BY <1>3, EffectFields
<1> DEFINE ins == missing \o effect.ins
<1>12. /\ ins \in Seq(TypeSet) /\ Len(ins) = Len(missing) + Len(effect.ins)
       /\ Len(missing) \in Nat
  BY <1>5, <1>11, ConcatProperties
<1>13. missing = <<>> => ins = effect.ins
  BY <1>11, ConcatEmptySeq
<1> HIDE DEF ins
<1>14. ExtendedEffect(i, stack) =
         [ins |-> ins, outs |-> effect.outs, max |-> effect.max]
  BY <1>9, <1>11 DEF ins
<1>15. ExtendedEffect(i, stack) \in StackEffect
  <2>1. ASSUME NEW k \in DOMAIN effect.outs
        PROVE  effect.outs[k].match <= Len(ins)
    <3> DEFINE m == effect.outs[k].match
    <3>1. m \in 0..7 /\ m <= Len(effect.ins)
      BY <1>11
    <3> HIDE DEF m
    <3>2. m <= Len(ins)
      BY <1>11, <1>12, <3>1
    <3>3. QED
      BY <3>2 DEF m
  <2>2. QED
    BY <1>11, <1>12, <1>14, <2>1, EffectFrom
<1>16. ~canAddInputs => ExtendedEffect(i, stack) = effect
  BY <1>5, <1>11, <1>13, <1>14
<1>17. /\ ExtendedEffect(i, stack).outs = effect.outs
       /\ ExtendedEffect(i, stack).max = effect.max
  BY <1>14
<1>18. QED
  BY <1>2, <1>4, <1>7, <1>10, <1>15, <1>16, <1>17 DEF e

\* RETURN: the effect it settles agrees with the stack it finds.
LEMMA ReturnOK ==
  ASSUME CheckLists, NEW i, NEW stack, Arrive(i, stack),
         words[i].word = "_RETURN", CallError(i, stack) = NoError,
         OutputError(Called(i, stack)) = NoError
  PROVE  LET s == Called(i, stack)
             e == FinalEffect(s)
         IN  /\ e \in StackEffect
             /\ e.ins = effect.ins
             /\ Len(e.outs) = Len(s.items)
             /\ TypeCheck(s.items, OutputTypes(e.outs))
             /\ ~canAddOutputs => e.outs = effect.outs
             /\ effect.max <= e.max
<1> DEFINE s == Called(i, stack)
           n == Len(effect.outs)
           extra == Depth(s) - n
           el(k) == Out(s.items[k].types)
           added == [k \in 1..extra |-> el(k)]
           outs == added \o effect.outs
           e == EffectWithOutputs(s)
<1>1. s \in EffectStack
  BY CallOK
<1>2. /\ ~(extra < 0) /\ TypeCheck(s.items, OutputTypes(effect.outs))
      /\ extra > 0 => canAddOutputs
  BY DEF OutputError, NoError
<1>3. /\ effect.ins \in Seq(TypeSet) /\ effect.outs \in Seq(Output)
      /\ n \in Nat /\ effect.max \in 0..kUnknownMax /\ Len(effect.ins) \in Nat
      /\ \A k \in DOMAIN effect.outs : /\ effect.outs[k] \in Output
                                       /\ effect.outs[k].match <= Len(effect.ins)
      /\ effect = [ins |-> effect.ins, outs |-> effect.outs, max |-> effect.max]
  <2>1. effect \in StackEffect
    BY DEF CheckLists, SetupOK
  <2>2. QED
    BY <2>1, EffectFields
<1>4. e = [effect EXCEPT !.outs = outs]
  BY DEF EffectWithOutputs, AddOutputsAtBottom
<1>5. /\ s.items \in Seq(Item) /\ Depth(s) = Len(s.items) /\ Depth(s) \in Nat
      /\ MaxGrowth(s) \in Int
  BY <1>1, StackFields DEF Depth, MaxGrowth
<1> HIDE DEF s, e
<1>6. extra \in Nat
  BY <1>2, <1>3, <1>5
<1>7. ASSUME NEW k \in 1..extra
      PROVE  el(k) \in Output /\ el(k).match = 0 /\ el(k).types = s.items[k].types
  <2>1. k \in 1..Len(s.items)
    BY <1>3, <1>5, <1>6
  <2>2. s.items[k] \in Item
    BY <1>5, <2>1
  <2>3. QED
    BY <2>2 DEF Item, Out, Output
<1> HIDE DEF el
<1>8. added \in Seq(Output) /\ Len(added) = extra
  BY <1>6, <1>7
<1>9. \A k \in 1..extra : added[k] = el(k)
  OBVIOUS
<1> HIDE DEF added
<1>10. /\ outs \in Seq(Output) /\ Len(outs) = Len(added) + n
       /\ \A k \in 1..(Len(added) + n) :
            outs[k] = IF k <= Len(added) THEN added[k]
                                         ELSE effect.outs[k - Len(added)]
  BY <1>3, <1>8, ConcatProperties
<1>11. extra = 0 => outs = effect.outs
  <2>1. extra = 0 => added = <<>>
    BY <1>8
  <2>2. QED
    BY <1>3, <2>1, ConcatEmptySeq
<1> HIDE DEF outs
<1>12. Len(outs) = Len(s.items) /\ Len(outs) = extra + n
  BY <1>3, <1>5, <1>8, <1>10
<1> HIDE DEF extra
<1>13. ASSUME NEW k \in 1..Len(outs)
       PROVE  /\ k <= extra => outs[k] = el(k)
              /\ k > extra => /\ k - extra \in 1..n
                              /\ outs[k] = effect.outs[k - extra]
  BY <1>3, <1>6, <1>8, <1>9, <1>10, <1>12
<1>14. ASSUME NEW k \in DOMAIN outs PROVE outs[k].match <= Len(effect.ins)
  <2>1. k \in 1..Len(outs)
    BY <1>10
  <2>2. CASE k <= extra
    BY <1>3, <1>6, <1>7, <1>13, <2>1, <2>2
  <2>3. CASE k > extra
    BY <1>3, <1>13, <2>1, <2>3
  <2>4. QED
    BY <1>6, <2>1, <2>2, <2>3
<1>15. /\ e \in StackEffect
       /\ e.ins = effect.ins /\ e.outs = outs /\ e.max = effect.max
  <2>1. e = [ins |-> effect.ins, outs |-> outs, max |-> effect.max]
    BY <1>3, <1>4
  <2>2. QED
    BY <1>3, <1>10, <1>14, <2>1, EffectFrom
<1>16. TypeCheck(s.items, OutputTypes(outs))
  <2> SUFFICES ASSUME NEW j \in 0..(Len(OutputTypes(outs)) - 1)
               PROVE  FromTop(s.items, j).types \subseteq
                        FromTop(OutputTypes(outs), j)
    BY DEF TypeCheck
  <2>1. /\ Len(OutputTypes(outs)) = Len(outs)
        /\ \A k \in 1..Len(outs) : OutputTypes(outs)[k] = outs[k].types
    BY <1>10 DEF OutputTypes
  <2>2. /\ Len(OutputTypes(effect.outs)) = n
        /\ \A k \in 1..n : OutputTypes(effect.outs)[k] = effect.outs[k].types
    BY <1>3 DEF OutputTypes
  <2> DEFINE p == Len(outs) - j
  <2>3. p \in 1..Len(outs)
    BY <1>12, <1>3, <1>6, <2>1
  <2>4. /\ FromTop(s.items, j) = s.items[p]
        /\ FromTop(OutputTypes(outs), j) = outs[p].types
    BY <1>12, <2>1, <2>3 DEF FromTop
  <2>5. CASE p <= extra
    <3>1. p \in 1..extra
      BY <1>6, <2>3, <2>5
    <3>2. QED
      BY <1>7, <1>13, <2>3, <2>4, <2>5, <3>1
  <2>6. CASE p > extra
    <3>1. j \in 0..(n - 1) /\ p - extra = n - j
      BY <1>3, <1>6, <1>12, <2>1, <2>3, <2>6
    <3>2. FromTop(s.items, j).types \subseteq FromTop(OutputTypes(effect.outs), j)
      BY <1>2, <2>2, <3>1 DEF TypeCheck
    <3>3. FromTop(OutputTypes(effect.outs), j) = effect.outs[n - j].types
      BY <1>3, <2>2, <3>1 DEF FromTop
    <3>4. outs[p] = effect.outs[n - j]
      BY <1>13, <2>3, <2>6, <3>1
    <3>5. QED
      BY <2>4, <3>2, <3>3, <3>4
  <2>7. QED
    BY <1>6, <2>3, <2>5, <2>6
<1>17. /\ FinalEffect(s) \in StackEffect
       /\ FinalEffect(s).ins = e.ins
       /\ FinalEffect(s).outs = e.outs
       /\ effect.max <= FinalEffect(s).max
  <2>1. /\ WithMax(e, MaxGrowth(s)) \in StackEffect
        /\ WithMax(e, MaxGrowth(s)).ins = e.ins
        /\ WithMax(e, MaxGrowth(s)).outs = e.outs
        /\ effect.max <= WithMax(e, MaxGrowth(s)).max
    BY <1>5, <1>15, WithMaxOK
  <2>2. effect.max <= effect.max
    BY <1>3, MaxNat
  <2>3. QED
    BY <1>15, <2>1, <2>2 DEF FinalEffect, e
<1>18. ~canAddOutputs => outs = effect.outs
  BY <1>2, <1>6, <1>11
<1>19. QED
  BY <1>12, <1>15, <1>16, <1>17, <1>18 DEF s

\* The list of calls w when the current one is replaced by those in new
Replaced(w, new) == SubSeq(w, 1, Len(w) - 1) \o new

\* It holds the calls in new and those of w but the last.
LEMMA WorkAfter ==
  ASSUME NEW w \in Seq(WorkItem), w # <<>>, NEW new \in Seq(WorkItem),
         NEW w2, w2 = Replaced(w, new)
  PROVE  /\ w2 \in Seq(WorkItem)
         /\ \A k \in DOMAIN w : \/ k = Len(w)
                                \/ \E m \in DOMAIN w2 : w2[m] = w[k]
         /\ \A k \in DOMAIN new : \E m \in DOMAIN w2 : w2[m] = new[k]
         /\ \A m \in DOMAIN w2 : \/ \E k \in DOMAIN w : w2[m] = w[k]
                                 \/ \E k \in DOMAIN new : w2[m] = new[k]
<1> DEFINE callers == SubSeq(w, 1, Len(w) - 1)
           l == Len(w) - 1
<1>1. l \in Nat /\ Len(w) = l + 1 /\ DOMAIN w = 1..(l + 1)
      /\ Len(new) \in Nat /\ DOMAIN new = 1..Len(new)
  OBVIOUS
<1>2. callers \in Seq(WorkItem) /\ Len(callers) = l
      /\ \A k \in 1..l : callers[k] = w[k]
  <2>1. callers = [k \in 1..l |-> w[k]]
    BY <1>1
  <2> HIDE DEF callers, l
  <2>2. QED
    BY <1>1, <2>1
<1> HIDE DEF callers, l
<1>3. /\ w2 \in Seq(WorkItem) /\ Len(w2) = Len(callers) + Len(new)
      /\ \A k \in 1..(Len(callers) + Len(new)) :
           w2[k] = IF k <= Len(callers) THEN callers[k] ELSE new[k - Len(callers)]
  BY <1>2, ConcatProperties DEF callers, Replaced
<1>4. /\ DOMAIN w2 = 1..(l + Len(new))
      /\ \A k \in 1..l : w2[k] = w[k] /\ k \in DOMAIN w2
      /\ \A k \in 1..Len(new) : w2[l + k] = new[k] /\ l + k \in DOMAIN w2
  <2>1. DOMAIN w2 = 1..(l + Len(new))
    BY <1>1, <1>2, <1>3
  <2>2. ASSUME NEW k \in 1..l PROVE w2[k] = w[k] /\ k \in DOMAIN w2
    BY <1>1, <1>2, <1>3, <2>1
  <2>3. ASSUME NEW k \in 1..Len(new)
        PROVE  w2[l + k] = new[k] /\ l + k \in DOMAIN w2
    <3>1. l + k \in 1..(l + Len(new)) /\ ~(l + k <= l) /\ (l + k) - l = k
      BY <1>1
    <3>2. QED
      BY <1>2, <1>3, <2>1, <3>1
  <2>4. QED
    BY <2>1, <2>2, <2>3
<1>5. ASSUME NEW m \in DOMAIN w2
      PROVE  m \in 1..l \/ (m - l \in 1..Len(new) /\ w2[m] = new[m - l])
  BY <1>1, <1>2, <1>3, <1>4
<1>6. ASSUME NEW k \in DOMAIN w, k # Len(w)
      PROVE  \E m \in DOMAIN w2 : w2[m] = w[k]
  <2>1. k \in 1..l
    BY <1>1, <1>6
  <2>2. QED
    BY <1>4, <2>1
<1>7. ASSUME NEW k \in DOMAIN new PROVE \E m \in DOMAIN w2 : w2[m] = new[k]
  BY <1>1, <1>4
<1>8. ASSUME NEW m \in DOMAIN w2
      PROVE  \/ \E k \in DOMAIN w : w2[m] = w[k]
             \/ \E k \in DOMAIN new : w2[m] = new[k]
  <2>1. CASE m \in 1..l
    <3>1. m \in DOMAIN w /\ w2[m] = w[m]
      BY <1>1, <1>4, <2>1
    <3>2. QED
      BY <3>1
  <2>2. CASE m - l \in 1..Len(new) /\ w2[m] = new[m - l]
    BY <1>1, <2>2
  <2>3. QED
    BY <1>5, <2>1, <2>2
<1>9. QED
  BY <1>3, <1>6, <1>7, <1>8

\* An iteration that memoizes its stack and replaces the current call
LEMMA TracedLists ==
  ASSUME CheckLists, NEW i, NEW stack, Arrive(i, stack), Memoize(i, stack),
         NEW new \in Seq(WorkItem),
         \A k \in DOMAIN new : new[k].at \in DOMAIN words,
         work' = Callers \o new, SetupOK',
         UNCHANGED <<words, controlStack, phase>>
  PROVE  CheckLists'
<1>1. /\ phase = "checking" /\ i \in DOMAIN words /\ stack \in EffectStack
      /\ work # <<>>
  BY ArriveOK
<1>2. stack.items \in Seq(Item)
  BY <1>1, StackFields
<1>3. /\ known' \in [DOMAIN known' -> Seq(Item)]
      /\ DOMAIN known' \subseteq DOMAIN words
  <2>1. known' = [k \in DOMAIN known \cup {i} |->
                    IF k = i THEN stack.items ELSE known[k]]
    BY DEF Memoize
  <2>2. /\ known \in [DOMAIN known -> Seq(Item)]
        /\ DOMAIN known \subseteq DOMAIN words
    BY DEF CheckLists
  <2>3. QED
    BY <1>1, <1>2, <2>1, <2>2
<1>4. work \in Seq(WorkItem) /\ \A k \in DOMAIN work : work[k].at \in DOMAIN words
  BY DEF CheckLists
<1>5. /\ work' \in Seq(WorkItem)
      /\ \A m \in DOMAIN work' : \/ \E k \in DOMAIN work : work'[m] = work[k]
                                 \/ \E k \in DOMAIN new : work'[m] = new[k]
  <2>1. work' = Replaced(work, new)
    BY DEF Callers, Replaced
  <2>2. QED
    BY <1>1, <1>4, <2>1, WorkAfter
<1>6. \A m \in DOMAIN work' : work'[m].at \in DOMAIN words
  BY <1>4, <1>5
<1>7. ListsOK'
  BY DEF CheckLists, ListsOK
<1>8. QED
  BY <1>1, <1>3, <1>5, <1>6, <1>7 DEF CheckLists

\* One item of work, or two
LEMMA WorkItems ==
  ASSUME NEW a \in DOMAIN words, NEW b \in DOMAIN words,
         DOMAIN words \subseteq Nat, NEW s \in EffectStack
  PROVE  LET x == [at |-> a, stack |-> s]
             y == [at |-> b, stack |-> s]
         IN  /\ Append(<<>>, x) \in Seq(WorkItem)
             /\ DOMAIN Append(<<>>, x) = {1} /\ Append(<<>>, x)[1] = x
             /\ Append(<<y>>, x) \in Seq(WorkItem)
             /\ DOMAIN Append(<<y>>, x) = {1, 2}
             /\ Append(<<y>>, x)[1] = y /\ Append(<<y>>, x)[2] = x
<1> DEFINE x == [at |-> a, stack |-> s]
           y == [at |-> b, stack |-> s]
<1>1. x \in WorkItem /\ y \in WorkItem
  BY DEF WorkItem
<1> HIDE DEF x, y
<1>2. /\ <<>> \in Seq(WorkItem) /\ Len(<<>>) = 0
      /\ <<y>> \in Seq(WorkItem) /\ Len(<<y>>) = 1 /\ <<y>>[1] = y
  BY <1>1
<1>3. /\ Append(<<>>, x) \in Seq(WorkItem) /\ Len(Append(<<>>, x)) = 1
      /\ Append(<<>>, x)[1] = x
  BY <1>1, <1>2
<1> DEFINE two == Append(<<y>>, x)
<1>4. two \in Seq(WorkItem) /\ Len(two) = 2 /\ two[1] = y /\ two[2] = x
  BY <1>1, <1>2
<1> HIDE DEF two
<1>5. DOMAIN Append(<<>>, x) = {1} /\ DOMAIN two = {1, 2}
  BY <1>3, <1>4
<1>6. QED
  BY <1>3, <1>4, <1>5 DEF x, y, two

\* What an iteration that traces a word does: where it goes on, and with
\* which stack and effect.  Calls are described for declared inputs only.
Traces(i, stack, new) ==
  /\ Arrive(i, stack)
  /\ Memoize(i, stack)
  /\ new \in Seq(WorkItem)
  /\ \A k \in DOMAIN new : new[k].at \in DOMAIN words
  /\ work' = Callers \o new
  /\ UNCHANGED <<words, controlStack, phase, canAddInputs, inline>>
  /\ SetupOK'
  /\ ~canAddInputs =>
       /\ effect'.ins = effect.ins
       /\ ~canAddOutputs => effect'.outs = effect.outs /\ ~canAddOutputs'
       /\ words[i].word # "_RETURN" =>
            effect' = effect /\ canAddOutputs' = canAddOutputs
       /\ words[i].word = "_RECURSE" => ~canAddOutputs
       /\ words[i].word # "_LITERAL" =>
            Accepts(NextEffect(i, stack.items), stack.items)
       /\ words[i].word = "IFELSE" => IfElseError(stack.items) = NoError
       /\ words[i].word = "_RETURN" =>
            /\ Len(stack.items) = Len(effect'.outs)
            /\ TypeCheck(stack.items, OutputTypes(effect'.outs))
       /\ \A j \in Successors(i) : \E k \in DOMAIN new :
            /\ new[k].at = j
            /\ new[k].stack.items = Outcome(i, stack.items)

\* The successors of a word lie in the list.
LEMMA SuccessorsInside ==
  ASSUME Finished(words), NEW i \in DOMAIN words
  PROVE  Successors(i) \subseteq DOMAIN words
BY FlowInside DEF Successors, IsBranch

\* A literal is traced.
LEMMA LiteralTraces ==
  ASSUME CheckLists, NEW i, NEW stack, CheckLiteral(i, stack)
  PROVE  \E new : Traces(i, stack, new)
<1> DEFINE s == AddLiteral(stack, words[i].lit)
           x == [at |-> i + 1, stack |-> s]
           new == Append(<<>>, x)
<1>1. /\ Arrive(i, stack) /\ words[i].word = "_LITERAL" /\ Memoize(i, stack)
      /\ work' = Callers \o new /\ UNCHANGED compilerVars
  BY DEF CheckLiteral, GoOn
<1>2. Finished(words) /\ i \in DOMAIN words /\ stack \in EffectStack
  BY <1>1, ArriveOK
<1>3. i + 1 \in DOMAIN words /\ words[i].lit \in Literals
  BY <1>1, <1>2, FlowInside
<1>4. /\ s \in EffectStack
      /\ s.items = Append(stack.items, LiteralItem(words[i].lit))
  BY <1>2, <1>3, AddLiteralOK
<1>5. DOMAIN words \subseteq Nat
  BY <1>2 DEF Finished
<1> HIDE DEF s
<1>6. new \in Seq(WorkItem) /\ DOMAIN new = {1} /\ new[1] = x
  BY <1>3, <1>4, <1>5, WorkItems
<1>7. x.at = i + 1 /\ x.stack.items = Outcome(i, stack.items)
  BY <1>1, <1>4 DEF Outcome
<1>8. Successors(i) = {i + 1}
  BY <1>1 DEF Successors, IsBranch
<1> HIDE DEF new, x
<1>9. SetupOK'
  BY <1>1 DEF CheckLists, SetupOK, compilerVars, setup
<1>10. Traces(i, stack, new)
  BY <1>1, <1>3, <1>6, <1>7, <1>8, <1>9 DEF Traces, compilerVars, setup
<1>11. QED
  BY <1>10

\* A word other than a literal, a branch or RETURN is traced.
LEMMA WordTraces ==
  ASSUME CheckLists, NEW i, NEW stack, CheckWord(i, stack)
  PROVE  \E new : Traces(i, stack, new)
<1> DEFINE s == Called(i, stack)
           x == [at |-> i + 1, stack |-> s]
           new == Append(<<>>, x)
<1>1. /\ Arrive(i, stack) /\ words[i].word # "_LITERAL" /\ Memoize(i, stack)
      /\ words[i].word \notin {"_RETURN", "_BRANCH", "_ZBRANCH"}
      /\ CallError(i, stack) = NoError
      /\ work' = Callers \o new /\ effect' = ExtendedEffect(i, stack)
      /\ UNCHANGED <<words, controlStack, canAddInputs, inline, error,
                     canAddOutputs, phase>>
  BY DEF CheckWord, Call, GoOn
<1>2. Finished(words) /\ i \in DOMAIN words /\ stack \in EffectStack
  BY <1>1, ArriveOK
<1>3. i + 1 \in DOMAIN words
  BY <1>1, <1>2, FlowInside
<1>4. /\ EffectError(i, stack.items) = NoError
      /\ s \in EffectStack /\ ExtendedEffect(i, stack) \in StackEffect
      /\ ~canAddInputs =>
           /\ Accepts(NextEffect(i, stack.items), stack.items)
           /\ s.items = ItemsAfter(NextEffect(i, stack.items), stack.items)
           /\ ExtendedEffect(i, stack) = effect
  BY <1>1, CallOK
<1>5. DOMAIN words \subseteq Nat
  BY <1>2 DEF Finished
<1> HIDE DEF s
<1>6. new \in Seq(WorkItem) /\ DOMAIN new = {1} /\ new[1] = x
  BY <1>3, <1>4, <1>5, WorkItems
<1>7. x.at = i + 1 /\ (~canAddInputs => x.stack.items = Outcome(i, stack.items))
  BY <1>1, <1>4 DEF Outcome
<1>8. Successors(i) = {i + 1}
  BY <1>1 DEF Successors, IsBranch
<1>9. /\ words[i].word = "_RECURSE" => ~canAddOutputs
      /\ words[i].word = "IFELSE" => IfElseError(stack.items) = NoError
  BY <1>4 DEF EffectError, NoError
<1> HIDE DEF new, x
<1>10. SetupOK'
  BY <1>1, <1>4 DEF CheckLists, SetupOK
<1>11. Traces(i, stack, new)
  BY <1>1, <1>3, <1>4, <1>6, <1>7, <1>8, <1>9, <1>10 DEF Traces
<1>12. QED
  BY <1>11

\* BRANCH is traced.
LEMMA BranchTraces ==
  ASSUME CheckLists, NEW i, NEW stack, CheckBranch(i, stack)
  PROVE  \E new : Traces(i, stack, new)
<1> DEFINE s == Called(i, stack)
           to == words[i].branchTo
           x == [at |-> to, stack |-> s]
           new == Append(<<>>, x)
<1>1. /\ Arrive(i, stack) /\ words[i].word = "_BRANCH" /\ Memoize(i, stack)
      /\ words[i].word # "_LITERAL"
      /\ CallError(i, stack) = NoError
      /\ work' = Callers \o new
      /\ UNCHANGED <<words, controlStack, canAddInputs, inline, error, effect,
                     canAddOutputs, phase>>
  BY DEF CheckBranch, Call, GoOn
<1>2. Finished(words) /\ i \in DOMAIN words /\ stack \in EffectStack
  BY <1>1, ArriveOK
<1>3. to \in DOMAIN words
  BY <1>1, <1>2, FlowInside DEF IsBranch
<1>4. /\ s \in EffectStack
      /\ ~canAddInputs =>
           /\ Accepts(NextEffect(i, stack.items), stack.items)
           /\ s.items = ItemsAfter(NextEffect(i, stack.items), stack.items)
  BY <1>1, CallOK
<1>5. DOMAIN words \subseteq Nat
  BY <1>2 DEF Finished
<1>6. Successors(i) = {to}
  BY <1>1 DEF Successors, IsBranch
<1> HIDE DEF s, to
<1>7. new \in Seq(WorkItem) /\ DOMAIN new = {1} /\ new[1] = x
  BY <1>3, <1>4, <1>5, WorkItems
<1>8. x.at = to /\ (~canAddInputs => x.stack.items = Outcome(i, stack.items))
  BY <1>1, <1>4 DEF Outcome
<1> HIDE DEF new, x
<1>9. SetupOK'
  BY <1>1 DEF CheckLists, SetupOK
<1>10. Traces(i, stack, new)
  BY <1>1, <1>3, <1>4, <1>6, <1>7, <1>8, <1>9 DEF Traces
<1>11. QED
  BY <1>10

\* 0BRANCH is traced, both ways.
LEMMA ZBranchTraces ==
  ASSUME CheckLists, NEW i, NEW stack, CheckZBranch(i, stack)
  PROVE  \E new : Traces(i, stack, new)
<1> DEFINE s == Called(i, stack)
           to == words[i].branchTo
           x == [at |-> i + 1, stack |-> s]
           y == [at |-> to, stack |-> s]
           new == Append(<<y>>, x)
<1>1. /\ Arrive(i, stack) /\ words[i].word = "_ZBRANCH" /\ Memoize(i, stack)
      /\ words[i].word # "_LITERAL"
      /\ CallError(i, stack) = NoError
      /\ work' = Callers \o new /\ effect' = ExtendedEffect(i, stack)
      /\ UNCHANGED <<words, controlStack, canAddInputs, inline, error,
                     canAddOutputs, phase>>
  BY DEF CheckZBranch, Call, GoOn
<1>2. Finished(words) /\ i \in DOMAIN words /\ stack \in EffectStack
  BY <1>1, ArriveOK
<1>3. to \in DOMAIN words /\ i + 1 \in DOMAIN words
  BY <1>1, <1>2, FlowInside DEF IsBranch
<1>4. /\ s \in EffectStack /\ ExtendedEffect(i, stack) \in StackEffect
      /\ ~canAddInputs =>
           /\ Accepts(NextEffect(i, stack.items), stack.items)
           /\ s.items = ItemsAfter(NextEffect(i, stack.items), stack.items)
           /\ ExtendedEffect(i, stack) = effect
  BY <1>1, CallOK
<1>5. DOMAIN words \subseteq Nat
  BY <1>2 DEF Finished
<1>6. Successors(i) = {i + 1, to}
  BY <1>1 DEF Successors, IsBranch
<1> HIDE DEF s, to
<1>7. /\ new \in Seq(WorkItem) /\ DOMAIN new = {1, 2}
      /\ new[1] = y /\ new[2] = x
  BY <1>3, <1>4, <1>5, WorkItems
<1>8. /\ x.at = i + 1 /\ y.at = to
      /\ ~canAddInputs => /\ x.stack.items = Outcome(i, stack.items)
                          /\ y.stack.items = Outcome(i, stack.items)
  BY <1>1, <1>4 DEF Outcome
<1> HIDE DEF new, x, y
<1>9. SetupOK'
  BY <1>1, <1>4 DEF CheckLists, SetupOK
<1>10. \A k \in DOMAIN new : new[k].at \in DOMAIN words
  BY <1>3, <1>7, <1>8
<1>11. ~canAddInputs => \A j \in Successors(i) : \E k \in DOMAIN new :
         new[k].at = j /\ new[k].stack.items = Outcome(i, stack.items)
  BY <1>6, <1>7, <1>8
<1>12. Traces(i, stack, new)
  BY <1>1, <1>4, <1>7, <1>9, <1>10, <1>11 DEF Traces
<1>13. QED
  BY <1>12

\* BRANCH and RETURN leave the stack as it is.
LEMMA NoEffect ==
  ASSUME NEW items \in Seq(Item)
  PROVE  ItemsAfter(Effect(<<>>, <<>>), items) = items
<1> DEFINE e == Effect(<<>>, <<>>)
           out(i) == IF e.outs[i].match = 0 THEN TypeItem(e.outs[i].types)
                     ELSE FromTop(items, e.outs[i].match - 1)
           above == [i \in DOMAIN e.outs |-> out(i)]
<1>1. e.ins = <<>> /\ e.outs = <<>>
  <2>1. /\ <<>> \in Seq(TypeSet) /\ <<>> \in Seq(Output)
        /\ \A k \in DOMAIN <<>> : <<>>[k].match <= Len(<<>>)
    OBVIOUS
  <2>2. QED
    BY <2>1, EffectOK
<1>2. ItemsAfter(e, items) = SubSeq(items, 1, Len(items) - Len(e.ins)) \o above
  BY DEF ItemsAfter
<1> HIDE DEF e, out
<1>3. above = <<>>
  BY <1>1
<1>4. SubSeq(items, 1, Len(items) - Len(e.ins)) = items
  BY <1>1
<1>5. QED
  BY <1>2, <1>3, <1>4, ConcatEmptySeq DEF e

\* RETURN is traced.
LEMMA ReturnTraces ==
  ASSUME CheckLists, NEW i, NEW stack, CheckReturn(i, stack)
  PROVE  \E new : Traces(i, stack, new)
<1> DEFINE s == Called(i, stack)
           e == FinalEffect(s)
<1>1. /\ Arrive(i, stack) /\ words[i].word = "_RETURN" /\ Memoize(i, stack)
      /\ words[i].word # "_LITERAL"
      /\ CallError(i, stack) = NoError /\ OutputError(s) = NoError
      /\ work' = Callers /\ effect' = e /\ canAddOutputs' = FALSE
      /\ UNCHANGED <<words, controlStack, canAddInputs, inline, error, phase>>
  BY DEF CheckReturn, Call, Return
<1>2. /\ Finished(words) /\ i \in DOMAIN words /\ stack \in EffectStack
      /\ work # <<>>
  BY <1>1, ArriveOK
<1>3. ~canAddInputs =>
        /\ Accepts(NextEffect(i, stack.items), stack.items)
        /\ s.items = ItemsAfter(NextEffect(i, stack.items), stack.items)
  BY <1>1, CallOK
<1>4. /\ e \in StackEffect /\ e.ins = effect.ins
      /\ Len(e.outs) = Len(s.items)
      /\ TypeCheck(s.items, OutputTypes(e.outs))
      /\ ~canAddOutputs => e.outs = effect.outs
  BY <1>1, ReturnOK
<1> HIDE DEF s, e
<1>5. ~canAddInputs => s.items = stack.items
  <2>1. NextEffect(i, stack.items) = Effect(<<>>, <<>>)
    BY <1>1 DEF NextEffect
  <2>2. stack.items \in Seq(Item)
    BY <1>2, StackFields
  <2>3. QED
    BY <1>3, <2>1, <2>2, NoEffect
<1>6. work' = Callers \o <<>>
  <2>1. Callers \in Seq(WorkItem)
    BY <1>2 DEF Callers, CheckLists
  <2>2. QED
    BY <1>1, <2>1, ConcatEmptySeq
<1>7. Successors(i) = {}
  BY <1>1 DEF Successors, IsBranch
<1>8. SetupOK'
  BY <1>1, <1>4 DEF CheckLists, SetupOK
<1>9. <<>> \in Seq(WorkItem) /\ DOMAIN <<>> = {}
  OBVIOUS
<1>10. Traces(i, stack, <<>>)
  BY <1>1, <1>3, <1>4, <1>5, <1>6, <1>7, <1>8, <1>9 DEF Traces
<1>11. QED
  BY <1>10

-----------------------------------------------------------------------------
(* Nothing is lost *)

\* CoveredAt for given values of known and work
CoveredIn(kn, wk, j, items) ==
  \/ j \in DOMAIN kn /\ Covers(kn[j], items)
  \/ \E k \in DOMAIN wk : wk[k].at = j /\ Covers(wk[k].stack.items, items)

\* Tracing a word uncovers nothing: the stack it memoizes covers the one it
\* replaces and the one it was called with.
LEMMA TraceKeepsCovered ==
  ASSUME CheckLists, NEW i, NEW stack, NEW new, Traces(i, stack, new),
         NEW j, NEW items, CoveredIn(known, work, j, items)
  PROVE  CoveredIn(known', work', j, items)
<1>1. /\ Arrive(i, stack) /\ Memoize(i, stack) /\ new \in Seq(WorkItem)
      /\ work' = Replaced(work, new)
  BY DEF Traces, Callers, Replaced
<1>2. /\ work # <<>> /\ i = work[Len(work)].at
      /\ Covers(stack.items, work[Len(work)].stack.items)
      /\ i \in DOMAIN known => Covers(stack.items, known[i])
  BY <1>1, ArriveOK
<1>3. /\ DOMAIN known' = DOMAIN known \cup {i}
      /\ known'[i] = stack.items
      /\ \A k \in DOMAIN known : k # i => known'[k] = known[k]
  BY <1>1 DEF Memoize
<1>4. work \in Seq(WorkItem)
  BY DEF CheckLists
<1>5. \A k \in DOMAIN work : \/ k = Len(work)
                             \/ \E m \in DOMAIN work' : work'[m] = work[k]
  BY <1>1, <1>2, <1>4, WorkAfter
<1>6. CASE j \in DOMAIN known /\ Covers(known[j], items)
  <2>1. CASE j = i
    <3>1. Covers(stack.items, items)
      BY <1>2, <1>6, <2>1, CoversTransitive
    <3>2. QED
      BY <1>3, <2>1, <3>1 DEF CoveredIn
  <2>2. CASE j # i
    BY <1>3, <1>6, <2>2 DEF CoveredIn
  <2>3. QED
    BY <2>1, <2>2
<1>7. ASSUME NEW k \in DOMAIN work, work[k].at = j,
             Covers(work[k].stack.items, items)
      PROVE  CoveredIn(known', work', j, items)
  <2>1. CASE k = Len(work)
    <3>1. Covers(stack.items, items) /\ j = i
      BY <1>2, <1>7, <2>1, CoversTransitive
    <3>2. QED
      BY <1>3, <3>1 DEF CoveredIn
  <2>2. CASE k # Len(work)
    <3>1. PICK m \in DOMAIN work' : work'[m] = work[k]
      BY <1>5, <2>2
    <3>2. QED
      BY <1>7, <3>1 DEF CoveredIn
  <2>3. QED
    BY <2>1, <2>2
<1>8. QED
  BY <1>6, <1>7 DEF CoveredIn

\* What a word visited accepts and leaves stays the same, although RETURN may
\* still settle the outputs: RECURSE is not visited before that.
LEMMA OutcomeStable ==
  ASSUME NEW k, NEW items, effect'.ins = effect.ins,
         words'[k].word = words[k].word, words'[k].lit = words[k].lit,
         effect \in StackEffect, effect' \in StackEffect,
         words[k].word = "_RECURSE" => effect'.outs = effect.outs
  PROVE  /\ Outcome(k, items)' = Outcome(k, items)
         /\ Accepts(NextEffect(k, items), items)' <=>
              Accepts(NextEffect(k, items), items)
<1>1. CASE words[k].word # "_RECURSE"
  <2>1. NextEffect(k, items)' = NextEffect(k, items)
    BY <1>1 DEF NextEffect
  <2>2. QED
    BY <2>1 DEF Outcome, Accepts
<1>2. CASE words[k].word = "_RECURSE"
  <2> DEFINE e == RecurseEffect(k)
  <2>1. kUnknownMax \in Int
    BY DEF kUnknownMax
  <2>2. /\ WithMax(effect, kUnknownMax).ins = effect.ins
        /\ WithMax(effect, kUnknownMax).outs = effect.outs
        /\ WithMax(effect', kUnknownMax).ins = effect'.ins
        /\ WithMax(effect', kUnknownMax).outs = effect'.outs
    BY <2>1, WithMaxOK
  <2>3. /\ e.ins = effect.ins /\ e.outs = effect.outs
    BY <2>2 DEF RecurseEffect, WithUnknownMax
  <2>4. /\ e'.ins = effect'.ins /\ e'.outs = effect'.outs
    BY <2>2 DEF RecurseEffect, WithUnknownMax
  <2>5. NextEffect(k, items) = e /\ NextEffect(k, items)' = e'
    BY <1>2 DEF NextEffect
  <2> HIDE DEF e
  <2>6. /\ Accepts(e', items) <=> Accepts(e, items)
        /\ ItemsAfter(e', items) = ItemsAfter(e, items)
    BY <1>2, <2>3, <2>4, MaxIrrelevant
  <2>7. QED
    BY <1>2, <2>5, <2>6 DEF Outcome
<1>3. QED
  BY <1>1, <1>2

\* An iteration that traces a word keeps the invariant.
LEMMA TraceKeeps ==
  ASSUME CheckLists, NothingLost, NEW i, NEW stack, NEW new,
         Traces(i, stack, new)
  PROVE  CheckLists' /\ NothingLost'
<1>1. CheckLists'
  BY TracedLists DEF Traces
<1>2. CASE canAddInputs
  BY <1>1, <1>2 DEF Traces, NothingLost
<1>3. CASE ~canAddInputs
  <2>1. /\ phase = "checking" /\ work # <<>> /\ i \in DOMAIN words
    BY ArriveOK DEF Traces
  <2>2. /\ UNCHANGED <<words, phase, canAddInputs>>
        /\ effect'.ins = effect.ins
        /\ ~canAddOutputs => effect'.outs = effect.outs /\ ~canAddOutputs'
    BY <1>3 DEF Traces
  <2>3. effect \in StackEffect /\ effect' \in StackEffect
    BY <1>1 DEF CheckLists, SetupOK
  <2>4. /\ DOMAIN known' = DOMAIN known \cup {i}
        /\ known'[i] = stack.items
        /\ \A k \in DOMAIN known : k # i => known'[k] = known[k]
    BY DEF Traces, Memoize
  <2>5. /\ CoveredAt(1, InitialStack(effect).items)
        /\ \A k \in DOMAIN known :
             /\ CheckedAt(k)
             /\ words[k].word = "_RECURSE" => ~canAddOutputs
             /\ \A j \in Successors(k) : CoveredAt(j, Outcome(k, known[k]))
    BY <1>3, <2>1 DEF NothingLost
  <2>6. \A j, items : CoveredIn(known, work, j, items) =>
                        CoveredIn(known', work', j, items)
    BY TraceKeepsCovered
  <2>7. CoveredAt(1, InitialStack(effect).items)'
    <3>1. CoveredIn(known', work', 1, InitialStack(effect).items)
      BY <2>5, <2>6 DEF CoveredAt, CoveredIn
    <3>2. InitialStack(effect').items = InitialStack(effect).items
      BY <2>2 DEF InitialStack
    <3>3. QED
      BY <3>1, <3>2 DEF CoveredAt, CoveredIn
  <2>8. ASSUME NEW k \in DOMAIN known'
        PROVE  /\ CheckedAt(k)'
               /\ words'[k].word = "_RECURSE" => ~canAddOutputs'
               /\ \A j \in Successors(k)' : CoveredAt(j, Outcome(k, known[k]))'
    <3>1. Successors(k)' = Successors(k)
      BY <2>2 DEF Successors
    <3>2. ASSUME words[k].word = "_RECURSE" PROVE ~canAddOutputs
      <4>1. CASE k = i
        BY <1>3, <3>2, <4>1 DEF Traces
      <4>2. CASE k # i
        BY <2>4, <2>5, <3>2, <4>2
      <4>3. QED
        BY <4>1, <4>2
    <3>3. \A items :
            /\ Outcome(k, items)' = Outcome(k, items)
            /\ Accepts(NextEffect(k, items), items)' <=>
                 Accepts(NextEffect(k, items), items)
      BY <2>2, <2>3, <3>2, OutcomeStable
    <3>4. CASE k = i
      <4>1. /\ words[k].word # "_LITERAL" =>
                 Accepts(NextEffect(k, stack.items), stack.items)
            /\ words[k].word = "IFELSE" => IfElseError(stack.items) = NoError
            /\ words[k].word = "_RETURN" =>
                 /\ Len(stack.items) = Len(effect'.outs)
                 /\ TypeCheck(stack.items, OutputTypes(effect'.outs))
            /\ \A j \in Successors(k) : \E m \in DOMAIN new :
                 /\ new[m].at = j
                 /\ new[m].stack.items = Outcome(k, stack.items)
        BY <1>3, <3>4 DEF Traces
      <4>2. CheckedAt(k)'
        BY <2>2, <2>4, <3>3, <3>4, <4>1 DEF CheckedAt
      <4>3. ASSUME NEW j \in Successors(k)
            PROVE  CoveredIn(known', work', j, Outcome(k, stack.items))
        <5>1. PICK m \in DOMAIN new :
                /\ new[m].at = j
                /\ new[m].stack.items = Outcome(k, stack.items)
          BY <4>1
        <5>2. new \in Seq(WorkItem) /\ work' = Replaced(work, new)
          BY DEF Traces, Callers, Replaced
        <5>3. PICK n \in DOMAIN work' : work'[n] = new[m]
          <6>1. work \in Seq(WorkItem)
            BY DEF CheckLists
          <6>2. QED
            BY <2>1, <5>2, <6>1, WorkAfter
        <5>4. Covers(work'[n].stack.items, Outcome(k, stack.items))
          BY <5>1, <5>3, CoversReflexive
        <5>5. QED
          BY <5>1, <5>3, <5>4 DEF CoveredIn
      <4>4. \A j \in Successors(k)' : CoveredAt(j, Outcome(k, known[k]))'
        BY <2>4, <3>1, <3>3, <3>4, <4>3 DEF CoveredAt, CoveredIn
      <4>5. QED
        BY <2>2, <3>2, <4>2, <4>4
    <3>5. CASE k # i
      <4>1. k \in DOMAIN known /\ known'[k] = known[k]
        BY <2>4, <3>5
      <4>2. CheckedAt(k)'
        <5>1. CheckedAt(k)
          BY <2>5, <4>1
        <5>2. words[k].word = "_RETURN" => effect' = effect
          <6>1. Finished(words) /\ k \in DOMAIN words
            BY <2>1, <4>1 DEF CheckLists, ListsOK
          <6>2. words[k].word = "_RETURN" => words[i].word # "_RETURN"
            BY <2>1, <3>5, <6>1, FlowInside
          <6>3. QED
            BY <1>3, <6>2 DEF Traces
        <5>3. QED
          BY <2>2, <3>3, <4>1, <5>1, <5>2 DEF CheckedAt
      <4>3. ASSUME NEW j \in Successors(k)
            PROVE  CoveredIn(known', work', j, Outcome(k, known[k]))
        <5>1. CoveredAt(j, Outcome(k, known[k]))
          BY <2>5, <4>1
        <5>2. CoveredIn(known, work, j, Outcome(k, known[k]))
          BY <5>1 DEF CoveredAt, CoveredIn
        <5>3. QED
          BY <2>6, <5>2
      <4>4. \A j \in Successors(k)' : CoveredAt(j, Outcome(k, known[k]))'
        BY <3>1, <3>3, <4>1, <4>3 DEF CoveredAt, CoveredIn
      <4>5. QED
        BY <2>2, <3>2, <4>2, <4>4
    <3>6. QED
      BY <3>4, <3>5
  <2>9. QED
    BY <1>1, <2>7, <2>8 DEF NothingLost
<1>4. QED
  BY <1>1, <1>2, <1>3

\* A call that finds its stack memoized returns, and uncovers nothing.
LEMMA MemoizedKeeps ==
  ASSUME CheckLists, NothingLost, CheckMemoized
  PROVE  CheckLists' /\ NothingLost'
<1> DEFINE new == <<>>
<1>1. /\ phase = "checking" /\ work # <<>> /\ UNCHANGED <<compilerVars, known>>
      /\ work' = Callers
      /\ work[Len(work)].at \in DOMAIN known
      /\ known[work[Len(work)].at] = work[Len(work)].stack.items
  BY DEF CheckMemoized, Checking, IsMemoized, Return, Current
<1>2. /\ work \in Seq(WorkItem)
      /\ \A k \in DOMAIN work : work[k].at \in DOMAIN words
  BY DEF CheckLists
<1>3. work' = Replaced(work, new)
  <2>1. Callers \in Seq(WorkItem)
    BY <1>1, <1>2 DEF Callers
  <2>2. QED
    BY <1>1, <2>1, ConcatEmptySeq DEF Replaced, Callers
<1>4. new \in Seq(WorkItem) /\ DOMAIN new = {}
  OBVIOUS
<1> HIDE DEF new
<1>5. /\ work' \in Seq(WorkItem)
      /\ \A k \in DOMAIN work : \/ k = Len(work)
                                \/ \E m \in DOMAIN work' : work'[m] = work[k]
      /\ \A m \in DOMAIN work' : \/ \E k \in DOMAIN work : work'[m] = work[k]
                                 \/ \E k \in DOMAIN new : work'[m] = new[k]
  <2>1. work # <<>> /\ work \in Seq(WorkItem) /\ new \in Seq(WorkItem)
    BY <1>1, <1>2, <1>4
  <2>2. QED
    BY <1>3, <2>1, WorkAfter
<1>6. \A m \in DOMAIN work' : work'[m].at \in DOMAIN words
  BY <1>2, <1>4, <1>5
<1>7. CheckLists'
  <2>1. ListsOK' /\ SetupOK'
    BY <1>1 DEF CheckLists, ListsOK, SetupOK, compilerVars, setup
  <2>2. QED
    BY <1>1, <1>5, <1>6, <2>1 DEF CheckLists, compilerVars, setup
<1>8. ASSUME NEW j, NEW items, CoveredIn(known, work, j, items)
      PROVE  CoveredIn(known', work', j, items)
  <2>1. CASE j \in DOMAIN known /\ Covers(known[j], items)
    BY <1>1, <2>1 DEF CoveredIn
  <2>2. ASSUME NEW k \in DOMAIN work, work[k].at = j,
               Covers(work[k].stack.items, items)
        PROVE  CoveredIn(known', work', j, items)
    <3>1. CASE k = Len(work)
      BY <1>1, <2>2, <3>1 DEF CoveredIn
    <3>2. CASE k # Len(work)
      <4>1. PICK m \in DOMAIN work' : work'[m] = work[k]
        BY <1>5, <3>2
      <4>2. QED
        BY <2>2, <4>1 DEF CoveredIn
    <3>3. QED
      BY <3>1, <3>2
  <2>3. QED
    BY <1>8, <2>1, <2>2 DEF CoveredIn
<1>9. ASSUME ~canAddInputs PROVE NothingLost'
  <2>1. /\ CoveredAt(1, InitialStack(effect).items)
        /\ \A k \in DOMAIN known :
             /\ CheckedAt(k)
             /\ words[k].word = "_RECURSE" => ~canAddOutputs
             /\ \A j \in Successors(k) : CoveredAt(j, Outcome(k, known[k]))
    BY <1>1, <1>9 DEF NothingLost
  <2>2. UNCHANGED <<words, effect, known, canAddOutputs>>
    BY <1>1 DEF compilerVars, setup
  <2>3. CoveredAt(1, InitialStack(effect).items)'
    <3>1. CoveredIn(known', work', 1, InitialStack(effect).items)
      BY <1>8, <2>1 DEF CoveredAt, CoveredIn
    <3>2. QED
      BY <2>2, <3>1 DEF CoveredAt, CoveredIn
  <2>4. ASSUME NEW k \in DOMAIN known'
        PROVE  /\ CheckedAt(k)'
               /\ words'[k].word = "_RECURSE" => ~canAddOutputs'
               /\ \A j \in Successors(k)' : CoveredAt(j, Outcome(k, known[k]))'
    <3>1. /\ k \in DOMAIN known /\ Successors(k)' = Successors(k)
          /\ Outcome(k, known[k])' = Outcome(k, known[k])
      BY <2>2 DEF Successors, Outcome, NextEffect, RecurseEffect
    <3>2. CheckedAt(k)'
      BY <2>1, <2>2, <3>1 DEF CheckedAt, NextEffect, RecurseEffect
    <3>3. ASSUME NEW j \in Successors(k)
          PROVE  CoveredIn(known', work', j, Outcome(k, known[k]))
      <4>1. CoveredAt(j, Outcome(k, known[k]))
        BY <2>1, <3>1
      <4>2. CoveredIn(known, work, j, Outcome(k, known[k]))
        BY <4>1 DEF CoveredAt, CoveredIn
      <4>3. QED
        BY <1>8, <4>2
    <3>4. \A j \in Successors(k)' : CoveredAt(j, Outcome(k, known[k]))'
      BY <3>1, <3>3 DEF CoveredAt, CoveredIn
    <3>5. QED
      BY <2>1, <2>2, <3>1, <3>2, <3>4
  <2>5. QED
    BY <2>3, <2>4 DEF NothingLost
<1>10. QED
  BY <1>1, <1>7, <1>9 DEF NothingLost, compilerVars, setup

\* The first call of computeEffect starts with the declared inputs.
LEMMA StartKeeps ==
  ASSUME CheckLists, NothingLost, StartCheck
  PROVE  CheckLists' /\ NothingLost'
<1> DEFINE s == InitialStack(effect)
           x == [at |-> 1, stack |-> s]
<1>1. /\ phase = "checking" /\ known = NothingKnown
      /\ work' = <<x>> /\ UNCHANGED <<compilerVars, known>>
  BY DEF StartCheck
<1>2. Finished(words) /\ 1 \in DOMAIN words
  BY <1>1 DEF CheckLists, ListsOK, Finished
<1>3. s \in EffectStack
  <2> DEFINE el(k) == TypeItem(effect.ins[k])
             items == [k \in DOMAIN effect.ins |-> el(k)]
  <2>1. effect.ins \in Seq(TypeSet) /\ Len(effect.ins) \in Nat
    BY EffectFields DEF CheckLists, SetupOK
  <2>2. ASSUME NEW k \in DOMAIN effect.ins PROVE el(k) \in Item
    <3>1. effect.ins[k] \in TypeSet
      BY <2>1
    <3>2. QED
      BY <3>1 DEF TypeItem, Item
  <2> HIDE DEF el
  <2>3. items \in Seq(Item)
    BY <2>1, <2>2
  <2>4. s = [items |-> items, initial |-> Len(effect.ins),
             max |-> Len(effect.ins)]
    BY DEF InitialStack, el
  <2> HIDE DEF items, s
  <2>5. QED
    BY <2>1, <2>3, <2>4 DEF EffectStack
<1> HIDE DEF s
<1>4. x \in WorkItem /\ x.at = 1 /\ x.stack = s
  BY <1>3 DEF WorkItem
<1> HIDE DEF x
<1>5. work' \in Seq(WorkItem) /\ DOMAIN work' = {1} /\ work'[1] = x
  BY <1>1, <1>4
<1>6. CheckLists'
  <2>1. ListsOK' /\ SetupOK'
    BY <1>1 DEF CheckLists, ListsOK, SetupOK, compilerVars, setup
  <2>2. \A k \in DOMAIN work' : work'[k].at \in DOMAIN words
    BY <1>2, <1>4, <1>5
  <2>3. QED
    BY <1>1, <1>5, <2>1, <2>2 DEF CheckLists, compilerVars, setup
<1>7. DOMAIN known' = {}
  BY <1>1 DEF NothingKnown
<1>8. CoveredAt(1, InitialStack(effect).items)'
  <2>1. Covers(work'[1].stack.items, s.items)
    BY <1>4, <1>5, CoversReflexive
  <2>2. InitialStack(effect') = s
    BY <1>1 DEF s, compilerVars, setup
  <2>3. QED
    BY <1>4, <1>5, <2>1, <2>2 DEF CoveredAt
<1>9. QED
  BY <1>6, <1>7, <1>8 DEF NothingLost

\* An exception leaves nothing to be checked.
LEMMA FailKeeps ==
  ASSUME CheckLists, NEW what, CheckFails(what)
  PROVE  CheckLists' /\ NothingLost'
<1>1. /\ phase' = "error" /\ words' = <<>> /\ controlStack' = <<>>
      /\ UNCHANGED setup /\ work' = <<>> /\ known' = NothingKnown
  BY DEF CheckFails, Fail
<1>2. ListsOK' /\ SetupOK'
  BY <1>1 DEF CheckLists, ListsOK, SetupOK, setup
<1>3. /\ work' \in Seq(WorkItem) /\ DOMAIN work' = {}
      /\ known' \in [DOMAIN known' -> Seq(Item)] /\ DOMAIN known' = {}
  BY <1>1 DEF NothingKnown
<1>4. QED
  BY <1>1, <1>2, <1>3 DEF CheckLists, NothingLost

\* The end of computeEffect only changes the phase.
LEMMA DoneKeeps ==
  ASSUME CheckLists, NothingLost, CheckDone
  PROVE  CheckLists' /\ NothingLost'
<1>1. /\ phase = "checking" /\ phase' = "checked" /\ work = <<>>
      /\ UNCHANGED <<words, controlStack, effect, canAddInputs, canAddOutputs,
                     inline, work, known>>
  BY DEF CheckDone, setup, checkVars
<1>2. CheckLists'
  BY <1>1 DEF CheckLists, ListsOK, SetupOK
<1>3. NothingLost'
  BY <1>1 DEF NothingLost, CoveredAt, CheckedAt, Successors, Outcome,
              NextEffect, RecurseEffect
<1>4. QED
  BY <1>2, <1>3

\* Parsing: there is nothing to check yet.
LEMMA ParseKeeps ==
  ASSUME InlinesAreStraight, CheckLists, ParseNext, UNCHANGED checkVars
  PROVE  CheckLists' /\ NothingLost'
<1>1. ListsOK' /\ UNCHANGED setup
  BY ParseKeepsLists, ParseKeepsSetup DEF CheckLists
<1>2. SetupOK'
  BY <1>1 DEF CheckLists, SetupOK, setup
<1>3. /\ phase = "parsing" /\ phase' \in {"parsing", "checking", "error"}
  BY DEF ParseNext, ParseToken, ParseLiteral, ParseWord, ParseInlineWord,
    ParseUnknownWord, ParseIf, ParseElse, ParseThen, ParseBegin, ParseWhile,
    ParseRepeat, ParseRecurse, ParseUnmatched, Finish, FinishTooEarly, Parsed,
    ParseFails, Fail
<1>4. work = <<>> /\ known = NothingKnown /\ work' = <<>> /\ known' = NothingKnown
  BY <1>3 DEF CheckLists, checkVars
<1>5. /\ work' \in Seq(WorkItem) /\ DOMAIN work' = {}
      /\ known' \in [DOMAIN known' -> Seq(Item)] /\ DOMAIN known' = {}
  BY <1>4 DEF NothingKnown
<1>6. QED
  BY <1>1, <1>2, <1>3, <1>4, <1>5 DEF CheckLists, NothingLost

-----------------------------------------------------------------------------
(* The theorems *)

\* Every step keeps the invariant.
LEMMA NextKeeps ==
  ASSUME InlinesAreStraight, CheckLists, NothingLost, [Next]_vars
  PROVE  CheckLists' /\ NothingLost'
<1>1. ASSUME NEW i, NEW s,
             \/ CheckLiteral(i, s) \/ CheckWord(i, s) \/ CheckBranch(i, s)
             \/ CheckZBranch(i, s) \/ CheckReturn(i, s)
      PROVE  CheckLists' /\ NothingLost'
  <2>1. \E new : Traces(i, s, new)
    BY <1>1, LiteralTraces, WordTraces, BranchTraces, ZBranchTraces,
       ReturnTraces
  <2>2. QED
    BY <2>1, TraceKeeps
<1>2. ASSUME NEW i, NEW s, CheckCallFails(i, s) \/ CheckReturnFails(i, s)
      PROVE  CheckLists' /\ NothingLost'
  BY <1>2, FailKeeps DEF CheckCallFails, CheckReturnFails
<1>3. CASE CheckInconsistent
  BY <1>3, FailKeeps DEF CheckInconsistent
<1>4. CASE StartCheck \/ CheckMemoized \/ CheckDone
  BY <1>4, StartKeeps, MemoizedKeeps, DoneKeeps
<1>5. CASE CheckStep
  BY <1>1, <1>2, <1>3, <1>4, <1>5 DEF CheckStep
<1>6. CASE ParseNext /\ UNCHANGED checkVars
  BY <1>6, ParseKeeps
<1>7. CASE UNCHANGED vars
  <2>1. UNCHANGED <<words, controlStack, effect, canAddInputs, canAddOutputs,
                    inline, phase, work, known>>
    BY <1>7 DEF vars, compilerVars, setup, checkVars
  <2>2. CheckLists'
    BY <2>1 DEF CheckLists, ListsOK, SetupOK
  <2>3. NothingLost'
    BY <2>1 DEF NothingLost, CoveredAt, CheckedAt, Successors, Outcome,
                NextEffect, RecurseEffect
  <2>4. QED
    BY <2>2, <2>3
<1>8. QED
  BY <1>5, <1>6, <1>7 DEF Next

\* The invariant holds before anything is parsed.
LEMMA CheckInitOK == CheckInit => CheckLists /\ NothingLost
<1> SUFFICES ASSUME CheckInit PROVE CheckLists /\ NothingLost
  OBVIOUS
<1>1. ListsOK /\ SetupOK
  BY InitOK DEF CheckInit
<1>2. phase = "parsing" /\ work = <<>> /\ known = NothingKnown
  BY DEF CheckInit, Init
<1>3. /\ work \in Seq(WorkItem) /\ DOMAIN work = {}
      /\ known \in [DOMAIN known -> Seq(Item)] /\ DOMAIN known = {}
  BY <1>2 DEF NothingKnown
<1>4. QED
  BY <1>1, <1>2, <1>3 DEF CheckLists, NothingLost

(***************************************************************************)
(* The state of the stack checker keeps its types, whatever is compiled:   *)
(* in particular every memoized position and every stack effect computed   *)
(* is one the later phases can use.                                        *)
(***************************************************************************)
THEOREM CheckTypeCorrect ==
  ASSUME InlinesAreStraight
  PROVE  Spec => []CheckTypeOK
<1>1. CheckLists => CheckTypeOK
  BY ListsTypeOK DEF CheckLists, CheckTypeOK
<1>2. CheckLists /\ NothingLost /\ [Next]_vars => (CheckLists /\ NothingLost)'
  BY NextKeeps
<1>3. QED
  BY <1>1, <1>2, CheckInitOK, PTL DEF Spec

(***************************************************************************)
(* At every moment of computeEffect, for every list of words: where        *)
(* control goes from a word visited is covered by a memoized stack or by a *)
(* call still active.                                                      *)
(***************************************************************************)
THEOREM NothingIsLost ==
  ASSUME InlinesAreStraight
  PROVE  Spec => []NothingLost
<1>1. CheckLists /\ NothingLost /\ [Next]_vars => (CheckLists /\ NothingLost)'
  BY NextKeeps
<1>2. QED
  BY <1>1, CheckInitOK, PTL DEF Spec

\* One step leaves what is settled of the effect alone.
LEMMA StepSettles ==
  ASSUME InlinesAreStraight, CheckLists, [Next]_vars
  PROVE  /\ ~canAddOutputs => effect'.outs = effect.outs /\ ~canAddOutputs'
         /\ ~canAddInputs => effect'.ins = effect.ins /\ ~canAddInputs'
         /\ effect'.max >= effect.max
<1>1. effect.max >= effect.max
  <2>1. effect \in StackEffect
    BY DEF CheckLists, SetupOK
  <2>2. effect.max \in Nat
    BY <2>1, EffectFields
  <2>3. QED
    BY <2>2
<1>2. CASE UNCHANGED setup
  BY <1>1, <1>2 DEF setup
<1>3. ASSUME NEW i, NEW s, CheckWord(i, s) \/ CheckZBranch(i, s)
      PROVE  /\ effect' = ExtendedEffect(i, s)
             /\ UNCHANGED <<canAddInputs, canAddOutputs>>
             /\ ExtendedEffect(i, s).outs = effect.outs
             /\ ExtendedEffect(i, s).max = effect.max
             /\ ~canAddInputs => ExtendedEffect(i, s) = effect
  <2>1. /\ Arrive(i, s) /\ words[i].word # "_LITERAL"
        /\ CallError(i, s) = NoError
        /\ effect' = ExtendedEffect(i, s)
        /\ UNCHANGED <<canAddInputs, canAddOutputs>>
    BY <1>3 DEF CheckWord, CheckZBranch, Call
  <2>2. QED
    BY <2>1, CallOK
<1>4. ASSUME NEW i, NEW s, CheckReturn(i, s)
      PROVE  /\ effect'.ins = effect.ins
             /\ ~canAddOutputs => effect'.outs = effect.outs
             /\ effect'.max >= effect.max
             /\ ~canAddOutputs' /\ canAddInputs' = canAddInputs
  <2> DEFINE e == FinalEffect(Called(i, s))
  <2>1. /\ Arrive(i, s) /\ words[i].word = "_RETURN"
        /\ CallError(i, s) = NoError /\ OutputError(Called(i, s)) = NoError
        /\ effect' = e /\ ~canAddOutputs' /\ canAddInputs' = canAddInputs
    BY <1>4 DEF CheckReturn, Call
  <2>2. /\ e.ins = effect.ins /\ (~canAddOutputs => e.outs = effect.outs)
        /\ effect.max <= e.max /\ e \in StackEffect
    BY <2>1, ReturnOK
  <2> HIDE DEF e
  <2>3. effect \in StackEffect
    BY DEF CheckLists, SetupOK
  <2>4. effect.max \in Nat /\ e.max \in Nat
    BY <2>2, <2>3, EffectFields
  <2>5. QED
    BY <2>1, <2>2, <2>4
<1>5. ASSUME NEW i, NEW s,
             \/ CheckLiteral(i, s) \/ CheckBranch(i, s)
             \/ CheckCallFails(i, s) \/ CheckReturnFails(i, s)
      PROVE  UNCHANGED setup
  BY <1>5 DEF CheckLiteral, CheckBranch, Call, CheckCallFails,
              CheckReturnFails, CheckFails, Fail, compilerVars, setup
<1>6. StartCheck \/ CheckMemoized \/ CheckInconsistent \/ CheckDone
        => UNCHANGED setup
  BY DEF StartCheck, CheckMemoized, CheckInconsistent, CheckDone, CheckFails,
         Fail, compilerVars
<1>7. CASE CheckStep
  BY <1>1, <1>2, <1>3, <1>4, <1>5, <1>6, <1>7 DEF CheckStep
<1>8. CASE ParseNext /\ UNCHANGED checkVars
  BY <1>2, <1>8, ParseKeepsSetup
<1>9. CASE UNCHANGED vars
  BY <1>2, <1>9 DEF vars, compilerVars
<1>10. QED
  BY <1>7, <1>8, <1>9 DEF Next

(***************************************************************************)
(* What a caller may rely on of an effect stays as it is, for every list   *)
(* of words: computeEffect() adds inputs only while they are being         *)
(* deduced, settles the outputs at the first RETURN, and never lowers max. *)
(***************************************************************************)
THEOREM EffectsSettle ==
  ASSUME InlinesAreStraight
  PROVE  Spec => EffectSettles
<1>1. CheckLists /\ NothingLost /\ [Next]_vars => (CheckLists /\ NothingLost)'
  BY NextKeeps
<1>2. CheckLists /\ [Next]_vars =>
        [/\ ~canAddOutputs => effect'.outs = effect.outs /\ ~canAddOutputs'
         /\ ~canAddInputs => effect'.ins = effect.ins /\ ~canAddInputs'
         /\ effect'.max >= effect.max]_vars
  BY StepSettles
<1>3. QED
  BY <1>1, <1>2, CheckInitOK, PTL DEF Spec, EffectSettles

\* computeEffect ends only after it has memoized something.
CheckEnds == phase = "checked" => known # NothingKnown

\* Every step keeps it so.
LEMMA CheckEndsKept ==
  ASSUME CheckEnds, [Next]_vars
  PROVE  CheckEnds'
<1>1. CASE CheckDone
  BY <1>1 DEF CheckDone, checkVars, CheckEnds
<1>2. CASE CheckStep /\ ~CheckDone
  <2>1. phase = "checking"
    BY <1>2 DEF CheckStep, StartCheck, CheckMemoized, CheckInconsistent,
                Checking
  <2>2. phase' \in {"checking", "error"}
    BY <1>2, <2>1 DEF CheckStep, StartCheck, CheckMemoized,
      CheckInconsistent, CheckLiteral, CheckCallFails, CheckWord,
      CheckBranch, CheckZBranch, CheckReturn, CheckReturnFails, Call,
      CheckFails, Fail, compilerVars
  <2>3. QED
    BY <2>2 DEF CheckEnds
<1>3. CASE ParseNext /\ UNCHANGED checkVars
  <2>1. phase' \in {"parsing", "checking", "error"}
    BY <1>3 DEF ParseNext, ParseToken, ParseLiteral, ParseWord,
      ParseInlineWord, ParseUnknownWord, ParseIf, ParseElse, ParseThen,
      ParseBegin, ParseWhile, ParseRepeat, ParseRecurse, ParseUnmatched,
      Finish, FinishTooEarly, Parsed, ParseFails, Fail
  <2>2. QED
    BY <2>1 DEF CheckEnds
<1>4. CASE UNCHANGED vars
  BY <1>4 DEF vars, compilerVars, checkVars, CheckEnds
<1>5. QED
  BY <1>1, <1>2, <1>3, <1>4 DEF Next

\* Once no call is active, what is covered is covered by a memoized stack.
LEMMA CheckedFixed ==
  ASSUME CheckLists, NothingLost, CheckEnds
  PROVE  FixedPoint
<1> SUFFICES ASSUME phase = "checked", ~canAddInputs
             PROVE  /\ 1 \in DOMAIN known
                    /\ Covers(known[1], InitialStack(effect).items)
                    /\ \A i \in DOMAIN known :
                         /\ CheckedAt(i)
                         /\ \A j \in Successors(i) :
                              /\ j \in DOMAIN known
                              /\ Covers(known[j], Outcome(i, known[i]))
  BY DEF FixedPoint
<1>1. DOMAIN work = {} /\ known # NothingKnown
  BY DEF CheckLists, CheckEnds
<1>2. /\ CoveredAt(1, InitialStack(effect).items)
      /\ \A i \in DOMAIN known :
           /\ CheckedAt(i)
           /\ \A j \in Successors(i) : CoveredAt(j, Outcome(i, known[i]))
  BY <1>1 DEF NothingLost
<1>3. \A j, items : CoveredAt(j, items) =>
                      j \in DOMAIN known /\ Covers(known[j], items)
  BY <1>1 DEF CoveredAt
<1>4. QED
  BY <1>2, <1>3

(***************************************************************************)
(* The approval of the stack checker means something: for a word of any    *)
(* length, with any nesting of IF and BEGIN and any declared inputs, the   *)
(* memoized stacks of an accepted word are a fixed point of its control    *)
(* flow.                                                                   *)
(***************************************************************************)
THEOREM CheckerSound ==
  ASSUME InlinesAreStraight
  PROVE  Spec => []FixedPoint
<1>1. CheckInit => CheckEnds
  BY DEF CheckInit, Init, CheckEnds
<1>2. CheckLists /\ NothingLost /\ [Next]_vars => (CheckLists /\ NothingLost)'
  BY NextKeeps
<1>3. CheckEnds /\ [Next]_vars => CheckEnds'
  BY CheckEndsKept
<1>4. CheckLists /\ NothingLost /\ CheckEnds => FixedPoint
  BY CheckedFixed
<1>5. QED
  BY <1>1, <1>2, <1>3, <1>4, CheckInitOK, PTL DEF Spec
=============================================================================

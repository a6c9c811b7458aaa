------------------------- MODULE StackEffectProofs --------------------------
(***************************************************************************)
(* Lemmas about natural numbers, the simulated stack and the order Covers. *)
(***************************************************************************)
EXTENDS StackEffects, SequenceTheorems, WellFoundedInduction, TLAPS

-----------------------------------------------------------------------------
(* Natural numbers *)

\* The library's facts about well-founded relations, for the order of Nat
LEMMA NaturalsWellFounded ==
  \E R : /\ IsWellFoundedOn(R, Nat)
         /\ \A x, y \in Nat : x < y => <<x, y>> \in R
<1>1. IsWellFoundedOn(OpToRel(<, Nat), Nat)
  BY NatLessThanWellFounded
<1>2. \A x, y \in Nat : x < y => <<x, y>> \in OpToRel(<, Nat)
  BY DEF OpToRel
<1> QED BY <1>1, <1>2, Zenon

LEMMA LeastNatural ==
  ASSUME NEW T \in SUBSET Nat, T # {}
  PROVE  \E x \in T : \A y \in T : x <= y
<1>1. PICK R : /\ IsWellFoundedOn(R, Nat)
               /\ \A x, y \in Nat : x < y => <<x, y>> \in R
  BY NaturalsWellFounded
<1>2. \E x \in T : \A y \in T : ~(<<y, x>> \in R)
  <2>1. T \subseteq Nat /\ T # {}
    OBVIOUS
  <2>2. IsWellFoundedOn(R, Nat)
    BY <1>1
  <2> HIDE <1>1
  <2> QED BY <2>1, <2>2, WFMin, ZenonT(20)
<1>3. PICK x \in T : \A y \in T : ~(<<y, x>> \in R)
  BY <1>2
<1>4. \A y \in T : ~(y < x)
  BY <1>1, <1>3
<1>5. \A y \in T : x <= y
  <2> SUFFICES ASSUME NEW y \in T PROVE x <= y
    OBVIOUS
  <2>1. y \in Nat /\ x \in Nat
    OBVIOUS
  <2> QED BY <1>4, <2>1
<1> QED BY <1>5

\* Induction from m to n, for a property given as a set
LEMMA Induction ==
  ASSUME NEW T, NEW m \in Nat, NEW n \in Nat, m \in T,
         \A k \in m..(n - 1) : k \in T => k + 1 \in T
  PROVE  \A k \in m..n : k \in T
<1> DEFINE U == (m..n) \ T
<1> SUFFICES ASSUME U # {} PROVE FALSE
  OBVIOUS
<1>1. PICK x \in U : \A y \in U : x <= y
  <2>1. U \in SUBSET Nat
    OBVIOUS
  <2> HIDE DEF U
  <2> QED BY <2>1, LeastNatural
<1>2. x # m /\ x - 1 \in m..(n - 1) /\ (x - 1) + 1 = x
  OBVIOUS
<1>3. x - 1 \in T
  BY <1>1, <1>2
<1> QED BY <1>2, <1>3

LEMMA GreatestBelow ==
  ASSUME NEW n \in Nat, NEW T \in SUBSET (1..n), T # {}
  PROVE  \E x \in T : \A y \in T : y <= x
<1> DEFINE U == {n - x : x \in T}
<1>1. U \in SUBSET Nat /\ U # {}
  <2>1. \A x \in T : n - x \in Nat
    OBVIOUS
  <2> QED BY <2>1
<1>2. PICK u \in U : \A v \in U : u <= v
  <2> HIDE DEF U
  <2> QED BY <1>1, LeastNatural
<1>3. PICK x \in T : u = n - x
  OBVIOUS
<1>4. \A y \in T : n - x <= n - y
  BY <1>2, <1>3
<1>5. ASSUME NEW y \in T PROVE y <= x
  <2>1. n - x <= n - y /\ x \in Nat /\ y \in Nat
    BY <1>4
  <2> QED BY <2>1
<1> QED BY <1>5

-----------------------------------------------------------------------------
(* The simulated stack *)

\* Type sets are closed under union and intersection.
LEMMA TypeSetClosed ==
  /\ \A s, t \in TypeSet : s \cup t \in TypeSet /\ s \cap t \in TypeSet
  /\ AnyType \in TypeSet
  /\ {"Quote"} \in TypeSet
BY DEF TypeSet, AnyType, Types

\* A stack covers itself.
LEMMA CoversReflexive ==
  ASSUME NEW a
  PROVE  Covers(a, a)
BY DEF Covers, ItemCovers

\* What a covers, everything that covers a covers too.
LEMMA CoversTransitive ==
  ASSUME NEW a, NEW b, NEW c, Covers(b, a), Covers(c, b)
  PROVE  Covers(c, a)
<1> SUFFICES ASSUME NEW i \in DOMAIN a PROVE ItemCovers(c[i], a[i])
  BY DEF Covers
<1>1. ItemCovers(b[i], a[i]) /\ ItemCovers(c[i], b[i])
  BY DEF Covers
<1>2. QED
  BY <1>1 DEF ItemCovers

\* Merging stacks of the same depth covers both, and is a stack again.
LEMMA MergeCovers ==
  ASSUME NEW a \in Seq(Item), NEW b \in Seq(Item), DOMAIN a = DOMAIN b
  PROVE  /\ Merge(a, b) \in Seq(Item)
         /\ Covers(Merge(a, b), a)
         /\ Covers(Merge(a, b), b)
<1> DEFINE el(i) == IF b[i] = a[i] THEN a[i]
                    ELSE TypeItem(a[i].types \cup b[i].types)
<1>1. ASSUME NEW i \in DOMAIN a
      PROVE  el(i) \in Item /\ ItemCovers(el(i), a[i]) /\ ItemCovers(el(i), b[i])
  <2>1. a[i] \in Item /\ b[i] \in Item
    OBVIOUS
  <2>2. QED
    BY <2>1, TypeSetClosed DEF Item, TypeItem, ItemCovers
<1>2. Merge(a, b) = [i \in DOMAIN a |-> el(i)]
  BY DEF Merge
<1> HIDE DEF el
<1>3. DOMAIN a = 1..Len(a) /\ Len(a) \in Nat
  OBVIOUS
<1>4. Merge(a, b) \in Seq(Item)
  BY <1>1, <1>2, <1>3
<1>5. QED
  BY <1>1, <1>2, <1>4 DEF Covers

\* The greatest value of a uint16_t
LEMMA MaxNat == kUnknownMax \in Nat
BY DEF kUnknownMax

\* The fields of a stack effect
LEMMA EffectFields ==
  ASSUME NEW e \in StackEffect
  PROVE  /\ e.ins \in Seq(TypeSet) /\ Len(e.ins) \in Nat
         /\ e.outs \in Seq(Output) /\ Len(e.outs) \in Nat
         /\ e.max \in 0..kUnknownMax /\ e.max \in Nat
         /\ \A i \in DOMAIN e.outs :
              /\ e.outs[i] \in Output
              /\ e.outs[i].match \in 0..7
              /\ e.outs[i].match <= Len(e.ins)
         /\ e = [ins |-> e.ins, outs |-> e.outs, max |-> e.max]
<1>1. /\ e \in [ins : Seq(TypeSet), outs : Seq(Output), max : 0..kUnknownMax]
      /\ \A i \in DOMAIN e.outs : e.outs[i].match <= Len(e.ins)
  BY DEF StackEffect
<1>2. ASSUME NEW i \in DOMAIN e.outs PROVE e.outs[i] \in Output
  <2>1. e.outs \in Seq(Output)
    BY <1>1
  <2>2. QED
    BY <2>1
<1>3. \A o \in Output : o.match \in 0..7
  BY DEF Output
<1>4. e.max \in 0..kUnknownMax /\ e.max \in Nat
  BY <1>1, MaxNat
<1>5. QED
  BY <1>1, <1>2, <1>3, <1>4

\* How a stack effect is put together
LEMMA EffectFrom ==
  ASSUME NEW ins \in Seq(TypeSet), NEW outs \in Seq(Output),
         NEW m \in 0..kUnknownMax,
         \A i \in DOMAIN outs : outs[i].match <= Len(ins)
  PROVE  [ins |-> ins, outs |-> outs, max |-> m] \in StackEffect
BY DEF StackEffect

\* setMax() changes nothing but max, and never lowers it.
LEMMA WithMaxOK ==
  ASSUME NEW e \in StackEffect, NEW m \in Int
  PROVE  /\ WithMax(e, m) \in StackEffect
         /\ WithMax(e, m).ins = e.ins
         /\ WithMax(e, m).outs = e.outs
         /\ e.max <= WithMax(e, m).max
<1> DEFINE max == AtMost(AtLeast(AtLeast(m, Net(e)), e.max), kUnknownMax)
<1>1. /\ e.ins \in Seq(TypeSet) /\ e.outs \in Seq(Output)
      /\ e.max \in 0..kUnknownMax /\ Len(e.ins) \in Nat /\ Len(e.outs) \in Nat
      /\ \A i \in DOMAIN e.outs : e.outs[i].match <= Len(e.ins)
      /\ e = [ins |-> e.ins, outs |-> e.outs, max |-> e.max]
  BY EffectFields
<1>2. max \in 0..kUnknownMax /\ e.max <= max
  BY <1>1, MaxNat DEF AtMost, AtLeast, Net
<1>3. WithMax(e, m) = [e EXCEPT !.max = max]
  BY DEF WithMax
<1> HIDE DEF max
<1>4. WithMax(e, m) = [ins |-> e.ins, outs |-> e.outs, max |-> max]
  BY <1>1, <1>3
<1>5. WithMax(e, m) \in StackEffect
  BY <1>1, <1>2, <1>4, EffectFrom
<1>6. QED
  BY <1>2, <1>4, <1>5

\* The constructor makes a stack effect of its inputs and outputs.
LEMMA EffectOK ==
  ASSUME NEW ins \in Seq(TypeSet), NEW outs \in Seq(Output),
         \A i \in DOMAIN outs : outs[i].match <= Len(ins)
  PROVE  /\ Effect(ins, outs) \in StackEffect
         /\ Effect(ins, outs).ins = ins
         /\ Effect(ins, outs).outs = outs
<1> DEFINE e == [ins |-> ins, outs |-> outs, max |-> 0]
<1>1. e \in StackEffect /\ e.ins = ins /\ e.outs = outs
  BY EffectFrom, MaxNat
<1>2. Effect(ins, outs) = WithMax(e, 0)
  BY DEF Effect
<1> HIDE DEF e
<1>3. 0 \in Int
  OBVIOUS
<1>4. /\ WithMax(e, 0) \in StackEffect
      /\ WithMax(e, 0).ins = e.ins
      /\ WithMax(e, 0).outs = e.outs
  BY <1>1, <1>3, WithMaxOK
<1>5. QED
  BY <1>1, <1>2, <1>4

\* What an effect accepts and leaves does not depend on its max.
LEMMA MaxIrrelevant ==
  ASSUME NEW e, NEW f, e.ins = f.ins, e.outs = f.outs, NEW items
  PROVE  /\ Accepts(e, items) <=> Accepts(f, items)
         /\ ItemsAfter(e, items) = ItemsAfter(f, items)
BY DEF Accepts, ItemsAfter

\* The stack after a word that accepts the stack before it
LEMMA ItemsAfterOK ==
  ASSUME NEW e \in StackEffect, NEW items \in Seq(Item), Accepts(e, items)
  PROVE  /\ ItemsAfter(e, items) \in Seq(Item)
         /\ Len(ItemsAfter(e, items)) = Len(items) - Len(e.ins) + Len(e.outs)
<1> DEFINE below == SubSeq(items, 1, Len(items) - Len(e.ins))
           out(i) == IF e.outs[i].match = 0 THEN TypeItem(e.outs[i].types)
                     ELSE FromTop(items, e.outs[i].match - 1)
           above == [i \in DOMAIN e.outs |-> out(i)]
<1>1. /\ e.outs \in Seq(Output) /\ Len(e.ins) \in Nat /\ Len(e.outs) \in Nat
      /\ \A i \in DOMAIN e.outs : /\ e.outs[i] \in Output
                                  /\ e.outs[i].match \in 0..7
                                  /\ e.outs[i].match <= Len(e.ins)
  BY EffectFields
<1>2. Len(e.ins) <= Len(items) /\ Len(items) \in Nat
  BY DEF Accepts
<1>3. ASSUME NEW i \in DOMAIN e.outs PROVE out(i) \in Item
  <2>1. CASE e.outs[i].match = 0
    <3>1. e.outs[i].types \in TypeSet
      BY <1>1 DEF Output
    <3>2. QED
      BY <2>1, <3>1 DEF TypeItem, Item
  <2>2. CASE e.outs[i].match # 0
    <3> DEFINE m == e.outs[i].match
    <3>1. m \in 0..7 /\ m <= Len(e.ins) /\ m # 0
      BY <1>1, <2>2
    <3> HIDE DEF m
    <3>2. Len(items) - (m - 1) \in 1..Len(items)
      BY <1>1, <1>2, <3>1
    <3>3. QED
      BY <2>2, <3>2 DEF FromTop, m
  <2>3. QED
    BY <2>1, <2>2
<1> HIDE DEF out
<1>4. above \in Seq(Item) /\ Len(above) = Len(e.outs)
  BY <1>1, <1>3
<1>5. below \in Seq(Item) /\ Len(below) = Len(items) - Len(e.ins)
  <2> DEFINE m == Len(items) - Len(e.ins)
  <2>1. m \in Nat /\ m <= Len(items)
    BY <1>1, <1>2
  <2> HIDE DEF m
  <2>2. SubSeq(items, 1, m) \in Seq(Item) /\ Len(SubSeq(items, 1, m)) = m
    BY <1>2, <2>1
  <2>3. QED
    BY <2>2 DEF m
<1>6. ItemsAfter(e, items) = below \o above
  BY DEF ItemsAfter, out
<1> HIDE DEF below, above
<1>7. below \o above \in Seq(Item) /\ Len(below \o above) = Len(below) + Len(above)
  BY <1>4, <1>5, ConcatProperties
<1>8. QED
  BY <1>4, <1>5, <1>6, <1>7

\* Stacks of which one covers the other are of the same depth.
LEMMA CoversLen ==
  ASSUME NEW a \in Seq(Item), NEW b \in Seq(Item), Covers(b, a)
  PROVE  Len(a) = Len(b)
<1>1. Len(a) \in Nat /\ Len(b) \in Nat /\ 1..Len(a) = 1..Len(b)
  BY DEF Covers
<1>2. \A m, n \in Nat : 1..m = 1..n => m = n
  <2> SUFFICES ASSUME NEW m \in Nat, NEW n \in Nat, 1..m = 1..n PROVE m = n
    OBVIOUS
  <2>1. m # 0 => m \in 1..m
    OBVIOUS
  <2>2. n # 0 => n \in 1..n
    OBVIOUS
  <2>3. m # 0 => m <= n
    BY <2>1
  <2>4. n # 0 => n <= m
    BY <2>2
  <2>5. QED
    BY <2>3, <2>4
<1>3. QED
  BY <1>1, <1>2
=============================================================================

---------------------------- MODULE StackEffects ----------------------------
(***************************************************************************)
(* Stack effects and the simulated stack of the compile-time checker:      *)
(* TypeSet and StackEffect (core/stack_effect.hh) and                      *)
(* Compiler::EffectStack (compiler/compiler+stackcheck.hh).                *)
(*                                                                         *)
(* All sequences of types or items run from the bottom of the stack to the *)
(* top, as `_entries` and `_stack` do; the C++ views index from the top,   *)
(* which is FromTop here.                                                  *)
(***************************************************************************)
EXTENDS Integers, Sequences

CONSTANTS
  Literals,        \* the literal values the source text may contain
  LiteralType      \* the Value::type() of each of them

\* Value::Type
Types == {"Null", "Number", "String", "Array", "Quote"}

\* A TypeSet, without the input match that only outputs have
TypeSet == SUBSET Types

AnyType == Types

NoLiteral == "no literal"

ASSUME LiteralsAssumption ==
  /\ NoLiteral \notin Literals
  /\ LiteralType \in [Literals -> Types]

kMaxEntries == 8
kUnknownMax == 65535

-----------------------------------------------------------------------------
(* StackEffect *)

(***************************************************************************)
(* One output: its types and the three high bits of TypeSet::_flags, 0 for *)
(* none and n + 1 for "the same type as input n", counted from the top.    *)
(***************************************************************************)
Output == [types : TypeSet, match : 0..7]

(***************************************************************************)
(* StackEffectParser gives an output the match of an input it has parsed,  *)
(* so a match never refers below the inputs.  _max is a uint16_t.           *)
(***************************************************************************)
StackEffect ==
  {e \in [ins : Seq(TypeSet), outs : Seq(Output), max : 0..kUnknownMax] :
     \A i \in DOMAIN e.outs : e.outs[i].match <= Len(e.ins)}

AtMost(m, n) == IF m <= n THEN m ELSE n
AtLeast(m, n) == IF m >= n THEN m ELSE n

\* Element i of a stack-ordered sequence counted from the top, i = 0 first.
FromTop(s, i) == s[Len(s) - i]

Net(effect) == Len(effect.outs) - Len(effect.ins)

\* withMax / setMax: never below zero, the net effect or the current max.
WithMax(effect, m) ==
  [effect EXCEPT !.max =
     AtMost(AtLeast(AtLeast(m, Net(effect)), @), kUnknownMax)]

WithUnknownMax(effect) == WithMax(effect, kUnknownMax)

\* The StackEffect(inputs, outputs) constructor.
Effect(inputs, outputs) ==
  WithMax([ins |-> inputs, outs |-> outputs, max |-> 0], 0)

Out(types) == [types |-> types, match |-> 0]

\* types / inputNo
SameAs(types, inputNo) == [types |-> types, match |-> inputNo + 1]

\* addInput(), addInputAtBottom(), addOutput() and addOutputAtBottom() for a
\* sequence of entries; the callers check Overfull.
AddInputs(effect, types) == [effect EXCEPT !.ins = @ \o types]
AddInputsAtBottom(effect, types) == [effect EXCEPT !.ins = types \o @]
AddOutputs(effect, outs) == [effect EXCEPT !.outs = @ \o outs]
AddOutputsAtBottom(effect, outs) == [effect EXCEPT !.outs = outs \o @]

\* insert() throws rather than store a ninth entry.
Overfull(effect) == Len(effect.ins) + Len(effect.outs) > kMaxEntries

-----------------------------------------------------------------------------
(* EffectStack *)

\* A variant<TypeSet,Value>: a literal also carries the type it has.
Item == [types : TypeSet, lit : Literals \cup {NoLiteral}]

TypeItem(types) == [types |-> types, lit |-> NoLiteral]
LiteralItem(v) == [types |-> {LiteralType[v]}, lit |-> v]

EffectStack == [items : Seq(Item), initial : Nat, max : Nat]

\* EffectStack(const StackEffect&)
InitialStack(effect) ==
  [items   |-> [i \in DOMAIN effect.ins |-> TypeItem(effect.ins[i])],
   initial |-> Len(effect.ins),
   max     |-> Len(effect.ins)]

Depth(stack) == Len(stack.items)

MaxGrowth(stack) == stack.max - stack.initial

\* literalAt(i)
LiteralAt(items, i) ==
  IF i < Len(items) THEN FromTop(items, i).lit ELSE NoLiteral

\* typeCheck(): no item can have a type its entry does not allow.
TypeCheck(items, types) ==
  \A i \in 0..(Len(types) - 1) :
     FromTop(items, i).types \subseteq FromTop(types, i)

OutputTypes(outs) == [i \in DOMAIN outs |-> outs[i].types]

\* Whether add(word, effect) accepts the items on the stack as its inputs.
Accepts(effect, items) ==
  /\ Len(effect.ins) <= Len(items)
  /\ TypeCheck(items, effect.ins)

\* Faulty variant: input matches counted from the bottom of the stack
ItemsAfterFromBottom(effect, items) ==
  SubSeq(items, 1, Len(items) - Len(effect.ins)) \o
  [i \in DOMAIN effect.outs |->
     IF effect.outs[i].match = 0
       THEN TypeItem(effect.outs[i].types)
       ELSE items[effect.outs[i].match]]

\* The items add(word, effect) leaves: the inputs popped, the outputs pushed,
\* an output with an input match as a copy of that input's item.
ItemsAfter(effect, items) ==
  SubSeq(items, 1, Len(items) - Len(effect.ins)) \o
  [i \in DOMAIN effect.outs |->
     IF effect.outs[i].match = 0
       THEN TypeItem(effect.outs[i].types)
       ELSE FromTop(items, effect.outs[i].match - 1)]

\* Faulty variant: the depth after the call counts, not that during it.
AddCallDepthAfter(stack, effect) ==
  [stack EXCEPT !.items = ItemsAfter(effect, @),
                !.max   = AtLeast(@, Len(ItemsAfter(effect, stack.items)))]

\* add(word, effect)
AddCall(stack, effect) ==
  [stack EXCEPT !.items = ItemsAfter(effect, @),
                !.max   = AtLeast(@, Depth(stack) + effect.max)]

\* add(value)
AddLiteral(stack, v) ==
  [stack EXCEPT !.items = Append(@, LiteralItem(v)),
                !.max   = AtLeast(@, Depth(stack) + 1)]

\* addAtBottom(), for a sequence of entries
AddAtBottom(stack, types) ==
  [stack EXCEPT !.items = [i \in DOMAIN types |-> TypeItem(types[i])] \o @,
                !.max   = AtLeast(@, Depth(stack) + Len(types))]

\* Faulty variant: items that differ lose their literal and nothing else.
MergeFirst(items, others) ==
  [i \in DOMAIN items |->
     IF others[i] = items[i] THEN items[i] ELSE TypeItem(items[i].types)]

\* mergeWith(): items that differ lose their literal and unite their types.
Merge(items, others) ==
  [i \in DOMAIN items |->
     IF others[i] = items[i]
       THEN items[i]
       ELSE TypeItem(items[i].types \cup others[i].types)]

MergeWith(stack, others) == [stack EXCEPT !.items = Merge(@, others)]

-----------------------------------------------------------------------------
(* The order of abstract stacks that merging climbs *)

(***************************************************************************)
(* b describes at least the values a does: it is the same item, or a plain *)
(* TypeSet that allows every type a may have.                              *)
(***************************************************************************)
ItemCovers(b, a) ==
  \/ a = b
  \/ /\ b.lit = NoLiteral
     /\ a.types \subseteq b.types

Covers(b, a) ==
  /\ DOMAIN a = DOMAIN b
  /\ \A i \in DOMAIN a : ItemCovers(b[i], a[i])
=============================================================================

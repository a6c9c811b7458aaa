------------------------- MODULE InterpreterProofs --------------------------
(***************************************************************************)
(* Proofs about running compiled code: it keeps the effect the checker     *)
(* approved of, on the stacks the checker memoized, and leaves neither its *)
(* stack nor its code.                                                     *)
(*                                                                         *)
(* The argument is modular.  A certificate of a word's code is a set of    *)
(* states of an activation that contains its start and is closed under the *)
(* steps of the machine, a call being one step that has the effect its     *)
(* callee declares.  The memoized stacks are a certificate of the word     *)
(* compiled; if the words it calls have certificates too, every activation *)
(* on the C stack stays within its own.                                    *)
(***************************************************************************)
EXTENDS Interpreter, CodeGenProofs, CoreWords

-----------------------------------------------------------------------------
(* Effects, as promises about values *)

\* The n topmost values of a stack, and what is below them
Args(s, n) == SubSeq(s, Len(s) - n + 1, Len(s))
Below(s, n) == SubSeq(s, 1, Len(s) - n)

\* The values s on top of others
Upon(base, s) == base \o s

\* Arithmetic makes null of what is not a number.
Fits(types, v) == TypeOf(v) \in types \cup {"Null"}

\* The values a are inputs that the effect e allows.
Suits(e, a) ==
  /\ a \in Seq(Values)
  /\ Len(a) = Len(e.ins)
  /\ \A k \in 1..Len(a) : Fits(e.ins[k], a[k])

\* An output that is to be the same as an input
Same(v, r) == r = v \/ (r = "Null" /\ v \notin Quotes)

\* The values r are outputs that the effect e promises for the inputs a.
Keeps(e, a, r) ==
  /\ r \in Seq(Values)
  /\ Len(r) = Len(e.outs)
  /\ \A k \in 1..Len(r) :
       IF e.outs[k].match = 0
         THEN Fits(e.outs[k].types, r[k])
         ELSE Same(FromTop(a, e.outs[k].match - 1), r[k])

\* A word of effect e may be called on the stack s, which then becomes one of
\* After(e, s).
Ready(e, s) == Len(e.ins) <= Len(s) /\ Suits(e, Args(s, Len(e.ins)))

After(e, s) ==
  {Upon(Below(s, Len(e.ins)), r) :
     r \in {q \in Seq(Values) : Keeps(e, Args(s, Len(e.ins)), q)}}

-----------------------------------------------------------------------------
(* Certificates of code *)

\* A state of an activation: where it is, how many calls of a group are left,
\* the inputs it was called with and its part of the stack
State == [cell : Int, left : Nat, tail : BOOLEAN,
          ins : Seq(Values), cur : Seq(Values)]

Entry(a) == [cell |-> 1, left |-> 0, tail |-> FALSE, ins |-> a, cur |-> a]

Moved(x, c, s) == [x EXCEPT !.cell = c, !.cur = s]

Target(code, c) == c + 2 + code[c + 1].offset

Ops == StackWords \cup {"IFELSE"} \cup SpecialWords

\* The steps of the native word op from state x stay in R.
OpStays(R, code, e, x, op) ==
  /\ op \in Ops
  /\ op \in StackWords =>
       /\ Arity(op) <= Len(x.cur)
       /\ \A vs \in Results(op, Args(x.cur, Arity(op))) :
            Moved(x, x.cell + 1, Upon(Below(x.cur, Arity(op)), vs)) \in R
  /\ op = "_LITERAL" =>
       LET v == LiteralValue(code[x.cell + 1].literal)
       IN  v \in Values /\ Moved(x, x.cell + 2, Upon(x.cur, <<v>>)) \in R
  /\ op = "_BRANCH" => Moved(x, Target(code, x.cell), x.cur) \in R
  /\ op = "_ZBRANCH" =>
       /\ 1 <= Len(x.cur)
       /\ \A truth \in Truths(x.cur[Len(x.cur)]) :
            Moved(x, IF truth THEN x.cell + 2 ELSE Target(code, x.cell),
                  Below(x.cur, 1)) \in R
  /\ op = "_RETURN" => Keeps(e, x.ins, x.cur)
  /\ op = "IFELSE" =>
       /\ 3 <= Len(x.cur)
       /\ \A k \in {Len(x.cur) - 1, Len(x.cur)} :
            /\ x.cur[k] \in Quotes
            /\ Ready(QuoteEffect[x.cur[k]], Below(x.cur, 3))
            /\ \A s \in After(QuoteEffect[x.cur[k]], Below(x.cur, 3)) :
                 Moved(x, x.cell + 1, s) \in R
  /\ op = "_RECURSE" =>
       /\ Target(code, x.cell) = 1
       /\ Len(e.ins) = Len(e.outs)
       /\ Ready(e, x.cur)
       /\ \A s \in After(e, x.cur) : Moved(x, x.cell + 2, s) \in R

\* The steps of a call in a group stay in R; the last call of a group may be
\* jumped to, and then returns for its caller.
CallStays(R, code, e, x) ==
  LET w == code[x.cell].word
  IN  /\ code[x.cell].kind = "word" /\ w \in Interpreted
      /\ Ready(WordEffect[w], x.cur)
      /\ \A s \in After(WordEffect[w], x.cur) :
           IF x.tail /\ x.left = 1
             THEN Keeps(e, x.ins, s)
             ELSE [Moved(x, x.cell + 1, s) EXCEPT !.left = x.left - 1] \in R

StepStays(R, code, e, x) ==
  /\ x.cell \in DOMAIN code
  /\ IF x.left > 0 THEN CallStays(R, code, e, x)
     ELSE /\ code[x.cell].kind \in {"op", "interp"}
          /\ code[x.cell].kind = "op" =>
               OpStays(R, code, e, x, code[x.cell].op)
          /\ code[x.cell].kind = "interp" =>
               [x EXCEPT !.cell = x.cell + 1, !.left = code[x.cell].count,
                         !.tail = code[x.cell].tail] \in R

\* R certifies that the code has the effect e.
Certifies(R, code, e) ==
  /\ R \subseteq State
  /\ \A a : Suits(e, a) => Entry(a) \in R
  /\ \A x \in R : StepStays(R, code, e, x)

IsOp(cell, op) == cell.kind = "op" /\ cell.op = op

\* In the states of R the code stays within the max of e, and so do the words
\* it calls; it does not call itself.
Bounded(R, code, e) ==
  \A x \in R :
    LET limit == Len(x.ins) + e.max
    IN  /\ Len(x.cur) <= limit
        /\ x.left > 0 =>
             Len(x.cur) + WordEffect[code[x.cell].word].max <= limit
        /\ x.left = 0 /\ IsOp(code[x.cell], "IFELSE") =>
             \A k \in {Len(x.cur) - 1, Len(x.cur)} :
               Len(x.cur) - 3 + QuoteEffect[x.cur[k]].max <= limit
        /\ x.left = 0 => ~IsOp(code[x.cell], "_RECURSE")

-----------------------------------------------------------------------------
(* What is assumed of the vocabulary *)

(***************************************************************************)
(* The native words have the effects they are declared with.  PLUS is left *)
(* out: its output is declared to have the type of the upper operand, and  *)
(* has that of the lower one (core_words.cc:265).                          *)
(***************************************************************************)
NativesAsDeclared ==
  \A w \in Words \ (Interpreted \cup {"IFELSE"}) :
    /\ w \in StackWords \ {"PLUS"}
    /\ w \in DOMAIN CoreEffect
    /\ WordEffect[w] = CoreEffect[w]

\* The effect a word other than the one being compiled declares
DeclaredEffect(w) == IF w \in Interpreted THEN WordEffect[w] ELSE QuoteEffect[w]

\* The interpreted words and the quotations have the effects they declare, and
\* stay within their max.
WordsKeepEffects ==
  \A w \in DOMAIN WordCode : \E R : Certifies(R, WordCode[w], DeclaredEffect(w))

WordsBounded ==
  \A w \in DOMAIN WordCode : \E R : /\ Certifies(R, WordCode[w], DeclaredEffect(w))
                                    /\ Bounded(R, WordCode[w], DeclaredEffect(w))

(***************************************************************************)
(* A quotation of effect q does what an effect with these inputs and       *)
(* outputs says: what it does not touch counts as output as it was input.  *)
(***************************************************************************)
Implements(q, ins, outs) ==
  LET extra == Len(ins) - Len(q.ins)
  IN  /\ extra >= 0 /\ Len(outs) = Len(q.outs) + extra
      /\ \A k \in 1..Len(q.ins) : ins[extra + k] \subseteq q.ins[k]
      /\ \A k \in 1..Len(outs) :
           /\ outs[k].match = 0
           /\ IF k <= extra
                THEN ins[k] \subseteq outs[k].types
                ELSE /\ q.outs[k - extra].match = 0
                     /\ q.outs[k - extra].types \subseteq outs[k].types

(***************************************************************************)
(* For any two quotations that effectOfIFELSE() merges, each of them does  *)
(* what the merged effect says.  It is not so if outputs have input        *)
(* matches, which the merge keeps although there are three more inputs.    *)
(***************************************************************************)
QuotesAgree ==
  \A a, b \in Quotes :
    Net(QuoteEffect[a]) = Net(QuoteEffect[b]) =>
      LET ea == QuoteEffect[a]
          eb == QuoteEffect[b]
      IN  \A e \in {ea, eb} : Implements(e, IfElseInputs(ea.ins, eb.ins),
                                         IfElseOutputs(ea.outs, eb.outs))

-----------------------------------------------------------------------------
(* The certificate of the word compiled *)

\* checkOutputs() compares types only, so no input match is promised.
Promise ==
  [ins  |-> effect.ins,
   outs |-> [k \in DOMAIN effect.outs |-> Out(effect.outs[k].types)],
   max  |-> effect.max]

\* The stack s is one the checker's items describe.
Described(items, s) ==
  /\ Len(s) = Len(items)
  /\ \A k \in 1..Len(s) : Describes(items[k], s[k])

\* The machine is at the word at i: before it or the group it starts, or
\* inside a group.
MachineAt(i, x) ==
  \/ /\ x.left = 0
     /\ x.cell = StartOf(i)
     /\ IsNative(words[i].word) \/ i \in DOMAIN interpWord
  \/ \E h \in DOMAIN interpWord :
       /\ i \in Members(h)
       /\ x.cell = CellOf(i)
       /\ x.left = h + interpWord[h].count - i
       /\ x.tail = interpWord[h].tail

MainStates ==
  {x \in State : /\ Suits(Promise, x.ins)
                 /\ \E i \in Live \cap DOMAIN known :
                      MachineAt(i, x) /\ Described(known[i], x.cur)}

\* RECURSE goes on with the sp it had, so the effect must be balanced; and
\* input matches are not checked, so there must be none to rely on.
RecursionBalanced ==
  \A i \in Live :
    words[i].word = "_RECURSE" =>
      /\ Len(effect.ins) = Len(effect.outs)
      /\ \A k \in DOMAIN effect.outs : effect.outs[k].match = 0

\* The word compiled is one the checker vouches for: its inputs are declared
\* and its code ends with RETURN.
Vouched == phase = "compiled" /\ ~canAddInputs /\ Complete /\ RecursionBalanced

\* Its max covers the stack of every word, and it recurses by looping only.
Sized ==
  /\ WordsBounded
  /\ ~recursive
  /\ \A i \in DOMAIN known : Peak(i) <= Capacity

-----------------------------------------------------------------------------
(* The invariant of a run *)

Codes == DOMAIN WordCode \cup {"main"}

CertOf(w) ==
  IF w = "main" THEN MainStates
  ELSE CHOOSE R : /\ Certifies(R, WordCode[w], DeclaredEffect(w))
                  /\ WordsBounded => Bounded(R, WordCode[w], DeclaredEffect(w))

EffectOf(w) == IF w = "main" THEN Promise ELSE DeclaredEffect(w)

(* The surroundings `env` of an activation are a record: the code, the effect *)
(* and the certificate of every word, how deep the stack may get, and what    *)
(* the outermost activation leaves.                                           *)

\* An activation of the word w, in state x of its certificate and above the
\* part `base` of the stack, leaves a stack of Q when it returns; `depth` is the
\* number of frames below.
Activation(env, w, x, base, Q, depth) ==
  /\ w \in Codes /\ x \in env.cert[w] /\ base \in Seq(Values)
  /\ \A r : Keeps(env.eff[w], x.ins, r) => Upon(base, r) \in Q
  /\ depth = 0 /\ w = "main" => base = <<>>
  /\ Len(base) + Len(x.ins) + env.eff[w].max \in env.room

\* The activation's state is the one it has at `here` with the stack s.
StateAt(x, base, here, g, s) ==
  /\ x.cell = here.cell /\ x.left = g.left
  /\ g.left > 0 => x.tail = g.tail
  /\ s = Upon(base, x.cur)

Resumes(env, here, g, s, Q, depth) ==
  \E x, base : /\ Activation(env, here.word, x, base, Q, depth)
               /\ StateAt(x, base, here, g, s)

\* Every activation on the C stack can go on with whatever the one it called
\* leaves.
Linked(env, P, fs) ==
  /\ P \in [0..Len(fs) -> SUBSET Seq(Values)]
  /\ P[0] \subseteq env.finals
  /\ \A k \in 1..Len(fs) : \A s \in P[k] :
       /\ Resumes(env, fs[k].at, fs[k].group, s, P[k - 1], k - 1)
       /\ fs[k].sp # ResultSp => fs[k].sp = Len(s)

Chain(env, fs, here, g, s) ==
  \E P : Linked(env, P, fs) /\ Resumes(env, here, g, s, P[Len(fs)], Len(fs))

\* The callee's surroundings: effects as declared, certified code, and a bound
\* on the stack's depth that the certificates respect
Sound(env) ==
  /\ \A w \in Codes :
       /\ env.eff[w].ins \in Seq(TypeSet) /\ env.eff[w].outs \in Seq(Output)
       /\ env.eff[w].max \in Nat
       /\ Certifies(env.cert[w], env.code[w], env.eff[w])
       /\ env.room # Int => Bounded(env.cert[w], env.code[w], env.eff[w])
  /\ \A w \in Interpreted : w \in Codes /\ env.eff[w] = WordEffect[w]
  /\ \A q \in Quotes : q \in Codes /\ env.eff[q] = QuoteEffect[q]
  /\ env.room \subseteq Int
  /\ \A n \in env.room : \A m \in Int : m <= n => m \in env.room

FrameSet == [at : [word : Codes, cell : Int],
             group : [left : Nat, tail : BOOLEAN], sp : Int]

\* The data stack
Used(m, p) == SubSeq(m, 1, p)
Stack == Used(mem, sp)

-----------------------------------------------------------------------------
(* Stacks of values *)

LEMMA ConcatCells ==
  ASSUME NEW a \in Seq(Values), NEW b \in Seq(Values)
  PROVE  /\ a \o b \in Seq(Values)
         /\ Len(a \o b) = Len(a) + Len(b)
         /\ \A k \in 1..Len(a) : (a \o b)[k] = a[k]
         /\ \A k \in 1..Len(b) : (a \o b)[Len(a) + k] = b[k]
<1>1. \A k \in 1..Len(a) : k \in 1..(Len(a) + Len(b)) /\ k <= Len(a)
  OBVIOUS
<1>2. \A k \in 1..Len(b) :
        /\ Len(a) + k \in 1..(Len(a) + Len(b)) /\ ~(Len(a) + k <= Len(a))
        /\ Len(a) + k - Len(a) = k
  OBVIOUS
<1> QED BY <1>1, <1>2, ConcatProperties

LEMMA BelowCells ==
  ASSUME NEW s \in Seq(Values), NEW n \in 0..Len(s)
  PROVE  /\ Below(s, n) \in Seq(Values) /\ Len(Below(s, n)) = Len(s) - n
         /\ \A k \in 1..(Len(s) - n) : Below(s, n)[k] = s[k]
BY DEF Below

LEMMA StackParts ==
  ASSUME NEW base \in Seq(Values), NEW cur \in Seq(Values),
         NEW n \in 0..Len(cur)
  PROVE  /\ Args(base \o cur, n) = Args(cur, n)
         /\ Args(cur, n) \in Seq(Values) /\ Len(Args(cur, n)) = n
         /\ Below(base \o cur, n) = base \o Below(cur, n)
         /\ Below(cur, n) \in Seq(Values) /\ Len(Below(cur, n)) = Len(cur) - n
         /\ base \o cur \in Seq(Values)
         /\ Len(base \o cur) = Len(base) + Len(cur)
<1> DEFINE s == base \o cur
<1>1. s \in Seq(Values) /\ Len(s) = Len(base) + Len(cur)
  BY ConcatCells
<1>2. \A k \in 1..Len(cur) : s[Len(base) + k] = cur[k]
  BY ConcatCells
<1>3. \A k \in 1..Len(base) : s[k] = base[k]
  BY ConcatCells
<1>4. /\ Args(cur, n) \in Seq(Values) /\ Len(Args(cur, n)) = n
      /\ \A k \in 1..n : Args(cur, n)[k] = cur[Len(cur) - n + k]
  BY DEF Args
<1>5. /\ Args(s, n) \in Seq(Values) /\ Len(Args(s, n)) = n
      /\ \A k \in 1..n : Args(s, n)[k] = s[Len(s) - n + k]
  <2> HIDE DEF s
  <2> QED BY <1>1 DEF Args
<1>6. \A k \in 1..n : Args(s, n)[k] = Args(cur, n)[k]
  <2> SUFFICES ASSUME NEW k \in 1..n PROVE Args(s, n)[k] = Args(cur, n)[k]
    OBVIOUS
  <2>1. Len(cur) - n + k \in 1..Len(cur)
    OBVIOUS
  <2>2. Len(s) - n + k = Len(base) + (Len(cur) - n + k)
    BY <1>1
  <2> HIDE DEF s
  <2> QED BY <1>2, <1>4, <1>5, <2>1, <2>2
<1>7. Args(s, n) = Args(cur, n)
  <2> HIDE DEF s
  <2> QED BY <1>4, <1>5, <1>6, SeqEqual
<1>8. /\ Below(cur, n) \in Seq(Values) /\ Len(Below(cur, n)) = Len(cur) - n
      /\ \A k \in 1..(Len(cur) - n) : Below(cur, n)[k] = cur[k]
  BY DEF Below
<1>9. /\ Below(s, n) \in Seq(Values) /\ Len(Below(s, n)) = Len(s) - n
      /\ \A k \in 1..(Len(s) - n) : Below(s, n)[k] = s[k]
  <2> HIDE DEF s
  <2> QED BY <1>1 DEF Below
<1> DEFINE t == base \o Below(cur, n)
<1>10. /\ t \in Seq(Values) /\ Len(t) = Len(base) + (Len(cur) - n)
       /\ \A k \in 1..Len(base) : t[k] = base[k]
       /\ \A k \in 1..(Len(cur) - n) : t[Len(base) + k] = cur[k]
  <2> DEFINE b == Below(cur, n)
  <2>1. b \in Seq(Values) /\ Len(b) = Len(cur) - n
        /\ \A k \in 1..Len(b) : b[k] = cur[k]
    BY <1>8
  <2> HIDE DEF b
  <2>2. base \o b \in Seq(Values) /\ Len(base \o b) = Len(base) + Len(b)
        /\ (\A k \in 1..Len(base) : (base \o b)[k] = base[k])
        /\ \A k \in 1..Len(b) : (base \o b)[Len(base) + k] = b[k]
    BY <2>1, ConcatCells
  <2> QED BY <2>1, <2>2 DEF b
<1>11. \A k \in 1..(Len(s) - n) : Below(s, n)[k] = t[k]
  <2> SUFFICES ASSUME NEW k \in 1..(Len(s) - n) PROVE Below(s, n)[k] = t[k]
    OBVIOUS
  <2> HIDE DEF s, t
  <2>1. CASE k <= Len(base)
    BY <1>1, <1>3, <1>9, <1>10, <2>1
  <2>2. CASE k > Len(base)
    <3>1. PICK j \in 1..(Len(cur) - n) : k = Len(base) + j
      <4>1. k - Len(base) \in 1..(Len(cur) - n)
        BY <1>1, <2>2
      <4> QED BY <4>1
    <3>2. s[k] = cur[j]
      <4>1. j \in 1..Len(cur)
        <5>1. Len(cur) \in Nat /\ n \in Nat /\ n <= Len(cur) /\ j \in 1..(Len(cur) - n)
          BY <1>1
        <5>2. PICK l : l = Len(cur)
          OBVIOUS
        <5>3. l \in Nat /\ j \in 1..(l - n)
          BY <5>1, <5>2
        <5>4. j \in 1..l
          BY <5>1, <5>2, <5>3
        <5> QED BY <5>2, <5>4
      <4> QED BY <1>2, <3>1, <4>1
    <3>3. t[k] = cur[j]
      BY <1>10, <3>1
    <3> QED BY <1>9, <3>2, <3>3
  <2> QED BY <2>1, <2>2
<1>12. Below(s, n) = t
  <2>1. PICK b, u, l : b = Below(s, n) /\ u = t /\ l = Len(s) - n
    OBVIOUS
  <2>2. b \in Seq(Values) /\ Len(b) = l /\ \A k \in 1..l : b[k] = u[k]
    BY <1>9, <1>11, <2>1, Zenon
  <2>3. u \in Seq(Values)
    BY <1>10, <2>1, Zenon
  <2>4. Len(u) = l
    <3>1. Len(t) = Len(base) + (Len(cur) - n) /\ Len(s) = Len(base) + Len(cur)
      BY <1>1, <1>10, Zenon
    <3> HIDE DEF s, t
    <3> QED BY <2>1, <3>1
  <2>5. b = u
    BY <2>2, <2>3, <2>4, SeqEqual, Zenon
  <2> QED BY <2>1, <2>5, Zenon
<1> QED BY <1>1, <1>4, <1>7, <1>8, <1>12

LEMMA SeqSplit ==
  ASSUME NEW s \in Seq(Values), NEW n \in 0..Len(s)
  PROVE  s = SubSeq(s, 1, Len(s) - n) \o SubSeq(s, Len(s) - n + 1, Len(s))
<1> DEFINE k == Len(s) - n
<1>1. /\ 1 \in 1..(Len(s) + 1) /\ k \in 1 - 1 .. Len(s) /\ Len(s) \in k..Len(s)
  OBVIOUS
<1> HIDE DEF k
<1>2. SubSeq(s, 1, k) \o SubSeq(s, k + 1, Len(s)) = SubSeq(s, 1, Len(s))
  BY <1>1, ConcatAdjacentSubSeq
<1> QED BY <1>2, SubSeqFull DEF k

LEMMA Regroup ==
  ASSUME NEW a \in Seq(Values), NEW b \in Seq(Values), NEW c \in Seq(Values)
  PROVE  (a \o b) \o c = a \o (b \o c)
BY ConcatAssociative

\* Replacing the n topmost values writes the new ones above what is below.
LEMMA WrittenStack ==
  ASSUME NEW m \in Seq(Values), NEW p \in 0..Len(m), NEW n \in 0..p,
         NEW vs \in Seq(Values)
  PROVE  LET w == Written(m, p - n + 1, vs)
         IN  /\ w \in Seq(Values)
             /\ p - n + Len(vs) \in 0..Len(w)
             /\ SubSeq(w, 1, p - n + Len(vs)) = Below(SubSeq(m, 1, p), n) \o vs
<1> DEFINE lo == p - n + 1
           w == Written(m, lo, vs)
           top == p - n + Len(vs)
           s == SubSeq(m, 1, p)
           t == Below(s, n) \o vs
<1>1. Len(vs) \in Nat /\ Len(m) \in Nat /\ lo \in 1..(Len(m) + 1) /\ top \in Nat
      /\ lo + Len(vs) - 1 = top
  OBVIOUS
<1>2. PICK big \in Nat : /\ big = IF Len(m) >= top THEN Len(m) ELSE top
                         /\ w = [k \in 1..big |-> IF k \in lo..top THEN vs[k - lo + 1] ELSE m[k]]
  BY <1>1 DEF Written
<1>3. \A k \in lo..top : k - lo + 1 \in 1..Len(vs)
  BY <1>1
<1>4. \A k \in 1..big : k \notin lo..top => k \in 1..Len(m)
  BY <1>1, <1>2
<1>5. w \in Seq(Values) /\ Len(w) = big
  <2>1. \A k \in 1..big : (IF k \in lo..top THEN vs[k - lo + 1] ELSE m[k]) \in Values
    <3> HIDE DEF lo, top
    <3> QED BY <1>3, <1>4, ElementOfSeq
  <2>2. w \in [1..big -> Values]
    <3> HIDE DEF lo, top, w
    <3> QED BY <1>2, <2>1
  <2> HIDE DEF w
  <2> QED BY <2>2
<1>6. top \in 0..Len(w)
  <2> HIDE DEF w, top
  <2> QED BY <1>1, <1>2, <1>5
<1>7. s \in Seq(Values) /\ Len(s) = p /\ \A k \in 1..p : s[k] = m[k]
  OBVIOUS
<1>8. /\ Below(s, n) \in Seq(Values) /\ Len(Below(s, n)) = p - n
      /\ \A k \in 1..(p - n) : Below(s, n)[k] = m[k]
  <2> HIDE DEF s
  <2> QED BY <1>7 DEF Below
<1>9. /\ t \in Seq(Values) /\ Len(t) = top
      /\ \A k \in 1..(p - n) : t[k] = m[k]
      /\ \A k \in 1..Len(vs) : t[p - n + k] = vs[k]
  <2> DEFINE b == Below(s, n)
  <2>1. b \in Seq(Values) /\ Len(b) = p - n /\ \A k \in 1..(p - n) : b[k] = m[k]
    BY <1>8
  <2> HIDE DEF b
  <2>2. b \o vs \in Seq(Values) /\ Len(b \o vs) = Len(b) + Len(vs)
        /\ (\A k \in 1..Len(b) : (b \o vs)[k] = b[k])
        /\ \A k \in 1..Len(vs) : (b \o vs)[Len(b) + k] = vs[k]
    BY <2>1, ConcatCells
  <2> QED BY <2>1, <2>2 DEF b
<1>10. /\ SubSeq(w, 1, top) \in Seq(Values) /\ Len(SubSeq(w, 1, top)) = top
       /\ \A k \in 1..top : SubSeq(w, 1, top)[k] = w[k]
  <2> HIDE DEF w, top
  <2> QED BY <1>1, <1>5, <1>6
<1>11. \A k \in 1..top : w[k] = t[k]
  <2> SUFFICES ASSUME NEW k \in 1..top PROVE w[k] = t[k]
    OBVIOUS
  <2>1. k \in 1..big
    BY <1>2, <1>5, <1>6
  <2>2. w[k] = IF k \in lo..top THEN vs[k - lo + 1] ELSE m[k]
    <3> HIDE DEF w, lo, top
    <3> QED BY <1>2, <2>1
  <2>3. CASE k <= p - n
    <3>1. k \notin lo..top
      BY <2>3
    <3>2. t[k] = m[k]
      <4> HIDE DEF t
      <4> QED BY <1>9, <2>3
    <3> HIDE DEF w, t, lo, top
    <3> QED BY <2>2, <3>1, <3>2
  <2>4. CASE k > p - n
    <3>1. k \in lo..top /\ k - lo + 1 \in 1..Len(vs) /\ p - n + (k - lo + 1) = k
      BY <2>4, <1>3
    <3>2. t[k] = vs[k - lo + 1]
      <4> HIDE DEF t, lo, top
      <4> QED BY <1>9, <3>1
    <3> HIDE DEF w, t, lo, top
    <3> QED BY <2>2, <3>1, <3>2
  <2>5. k <= p - n \/ k > p - n
    BY <1>1
  <2> HIDE DEF w, t
  <2> QED BY <2>3, <2>4, <2>5
<1>12. SubSeq(w, 1, top) = t
  <2> HIDE DEF w, t, top
  <2> QED BY <1>1, <1>9, <1>10, <1>11, SeqEqual
<1> HIDE DEF w, t, s, top, lo
<1> QED BY <1>5, <1>6, <1>12 DEF w, t, s, top, lo

LEMMA UponCells ==
  ASSUME NEW a \in Seq(Values), NEW b \in Seq(Values)
  PROVE  /\ Upon(a, b) \in Seq(Values)
         /\ Len(Upon(a, b)) = Len(a) + Len(b)
         /\ \A k \in 1..Len(a) : Upon(a, b)[k] = a[k]
         /\ \A k \in 1..Len(b) : Upon(a, b)[Len(a) + k] = b[k]
BY ConcatCells DEF Upon

LEMMA UponParts ==
  ASSUME NEW base \in Seq(Values), NEW cur \in Seq(Values),
         NEW n \in 0..Len(cur)
  PROVE  /\ Args(Upon(base, cur), n) = Args(cur, n)
         /\ Args(cur, n) \in Seq(Values) /\ Len(Args(cur, n)) = n
         /\ Below(Upon(base, cur), n) = Upon(base, Below(cur, n))
         /\ Below(cur, n) \in Seq(Values) /\ Len(Below(cur, n)) = Len(cur) - n
         /\ Upon(base, cur) \in Seq(Values)
         /\ Len(Upon(base, cur)) = Len(base) + Len(cur)
         /\ Upon(Below(cur, n), Args(cur, n)) = cur
<1>1. Upon(Below(cur, n), Args(cur, n)) = cur
  <2>1. SubSeq(cur, 1, Len(cur) - n) \o SubSeq(cur, Len(cur) - n + 1, Len(cur)) = cur
    BY SeqSplit
  <2> QED BY <2>1, Zenon DEF Upon, Below, Args
<1>2. /\ Args(base \o cur, n) = Args(cur, n)
      /\ Args(cur, n) \in Seq(Values) /\ Len(Args(cur, n)) = n
      /\ Below(base \o cur, n) = base \o Below(cur, n)
      /\ Below(cur, n) \in Seq(Values) /\ Len(Below(cur, n)) = Len(cur) - n
      /\ base \o cur \in Seq(Values)
      /\ Len(base \o cur) = Len(base) + Len(cur)
  BY StackParts
<1> QED BY <1>1, <1>2, Zenon DEF Upon

LEMMA BelowNone ==
  ASSUME NEW s \in Seq(Values)
  PROVE  Below(s, 0) = s
<1>1. Len(s) - 0 = Len(s)
  OBVIOUS
<1> QED BY <1>1, SubSeqFull DEF Below

LEMMA UponNone ==
  ASSUME NEW s \in Seq(Values)
  PROVE  Upon(s, <<>>) = s
BY ConcatEmptySeq DEF Upon

LEMMA NoneBelow ==
  ASSUME NEW s \in Seq(Values)
  PROVE  Upon(<<>>, s) = s
BY ConcatEmptySeq DEF Upon

\* The topmost values, where they are in the stack's memory
LEMMA ArgsOfUsed ==
  ASSUME NEW m \in Seq(Values), NEW p \in 0..Len(m), NEW n \in 0..p
  PROVE  SubSeq(m, p - n + 1, p) = Args(Used(m, p), n)
<1> DEFINE u == SubSeq(m, 1, p)
           lo == p - n + 1
<1>1. u \in Seq(Values) /\ Len(u) = p /\ \A k \in 1..p : u[k] = m[k]
  OBVIOUS
<1> HIDE DEF u
<1>2. lo \in 1..(Len(m) + 1) /\ p - lo + 1 = n
  OBVIOUS
<1>3. /\ SubSeq(m, lo, p) \in Seq(Values) /\ Len(SubSeq(m, lo, p)) = n
      /\ \A k \in 1..n : SubSeq(m, lo, p)[k] = m[p - n + k]
  OBVIOUS
<1>4. /\ SubSeq(u, lo, p) \in Seq(Values) /\ Len(SubSeq(u, lo, p)) = n
      /\ \A k \in 1..n : SubSeq(u, lo, p)[k] = u[p - n + k]
  BY <1>1
<1>5. \A k \in 1..n : SubSeq(u, lo, p)[k] = SubSeq(m, lo, p)[k]
  <2> SUFFICES ASSUME NEW k \in 1..n
               PROVE  SubSeq(u, lo, p)[k] = SubSeq(m, lo, p)[k]
    OBVIOUS
  <2>1. p - n + k \in 1..p
    OBVIOUS
  <2> HIDE DEF lo
  <2> QED BY <1>1, <1>3, <1>4, <2>1
<1>6. SubSeq(u, lo, p) = SubSeq(m, lo, p)
  <2> HIDE DEF lo
  <2> QED BY <1>3, <1>4, <1>5, SeqEqual
<1>7. Args(u, n) = SubSeq(u, lo, p)
  BY <1>1 DEF Args
<1> QED BY <1>6, <1>7 DEF u, Used

LEMMA UponRegroup ==
  ASSUME NEW a \in Seq(Values), NEW b \in Seq(Values), NEW c \in Seq(Values)
  PROVE  Upon(Upon(a, b), c) = Upon(a, Upon(b, c))
BY Regroup DEF Upon

LEMMA WrittenUpon ==
  ASSUME NEW m \in Seq(Values), NEW p \in 0..Len(m), NEW n \in 0..p,
         NEW vs \in Seq(Values)
  PROVE  LET w == Written(m, p - n + 1, vs)
         IN  /\ w \in Seq(Values)
             /\ p - n + Len(vs) \in 0..Len(w)
             /\ Used(w, p - n + Len(vs)) = Upon(Below(Used(m, p), n), vs)
BY WrittenStack, Zenon DEF Upon, Used

-----------------------------------------------------------------------------
(* The C stack *)

LEMMA SoundStates ==
  ASSUME NEW env, Sound(env), NEW w \in Codes, NEW x \in env.cert[w]
  PROVE  /\ x \in State
         /\ StepStays(env.cert[w], env.code[w], env.eff[w], x)
BY DEF Sound, Certifies

\* A call of the word v, on the stack Upon(base, s)
LEMMA ActivationEnters ==
  ASSUME NEW env, Sound(env), NEW v \in Codes, NEW s \in Seq(Values),
         NEW base \in Seq(Values), NEW Q, NEW depth \in Nat,
         NEW g, g.left = 0, Ready(env.eff[v], s),
         \A t \in After(env.eff[v], s) : Upon(base, t) \in Q,
         depth = 0 => v # "main",
         Len(base) + Len(s) + env.eff[v].max \in env.room
  PROVE  Resumes(env, [word |-> v, cell |-> 1], g, Upon(base, s), Q, depth)
<1> DEFINE e == env.eff[v]
           n == Len(e.ins)
           a == Args(s, n)
           low == Below(s, n)
           x == Entry(a)
<1>1. e.ins \in Seq(TypeSet) /\ e.max \in Nat
  BY DEF Sound
<1>2. n \in 0..Len(s)
  BY <1>1 DEF Ready
<1>3. Suits(e, a)
  BY DEF Ready
<1>4. a \in Seq(Values) /\ Len(a) = n /\ low \in Seq(Values) /\ Len(low) = Len(s) - n
  <2> HIDE DEF n
  <2> QED BY <1>2, UponParts
<1>5. x \in env.cert[v]
  BY <1>3 DEF Sound, Certifies
<1>6. x.ins = a /\ x.cur = a /\ x.cell = 1 /\ x.left = 0
  BY DEF Entry
<1>7. Upon(low, a) = s
  <2> HIDE DEF n
  <2>1. Len(s) - n \in 0..Len(s)
    BY <1>2
  <2> QED BY <1>2, UponParts
<1>8. Upon(base, s) = Upon(Upon(base, low), a)
  <2> HIDE DEF low, a, n, e
  <2> QED BY <1>4, <1>7, UponRegroup
<1>9. Upon(base, low) \in Seq(Values) /\ Len(Upon(base, low)) = Len(base) + (Len(s) - n)
  <2> HIDE DEF low, a, n, e
  <2> QED BY <1>4, UponCells
<1>10. \A r : Keeps(e, a, r) => Upon(Upon(base, low), r) \in Q
  <2> SUFFICES ASSUME NEW r, Keeps(e, a, r) PROVE Upon(Upon(base, low), r) \in Q
    OBVIOUS
  <2>1. r \in Seq(Values)
    BY DEF Keeps
  <2>2. Upon(low, r) \in After(e, s)
    BY <2>1 DEF After
  <2> HIDE DEF low
  <2> QED BY <1>4, <2>1, <2>2, UponRegroup
<1>11. Len(Upon(base, low)) + Len(a) + e.max \in env.room
  <2>1. Len(Upon(base, low)) + Len(a) + e.max = Len(base) + Len(s) + e.max
    <3> HIDE DEF low, a, n, e
    <3> QED BY <1>1, <1>2, <1>4, <1>9
  <2> QED BY <2>1
<1>12. Activation(env, v, x, Upon(base, low), Q, depth)
  <2> HIDE DEF x, low, a
  <2> QED BY <1>5, <1>6, <1>9, <1>10, <1>11 DEF Activation
<1>13. StateAt(x, Upon(base, low), [word |-> v, cell |-> 1], g, Upon(base, s))
  <2> HIDE DEF x, low, a
  <2> QED BY <1>6, <1>8 DEF StateAt
<1> HIDE DEF x, low
<1> QED BY <1>12, <1>13 DEF Resumes

LEMMA ChainPush ==
  ASSUME NEW env, NEW P, NEW fs \in Seq(FrameSet), Linked(env, P, fs),
         NEW Q \in SUBSET Seq(Values), NEW f \in FrameSet,
         \A t \in Q : /\ Resumes(env, f.at, f.group, t, P[Len(fs)], Len(fs))
                      /\ f.sp # ResultSp => f.sp = Len(t),
         NEW here, NEW g, NEW s, Resumes(env, here, g, s, Q, Len(fs) + 1)
  PROVE  Chain(env, Append(fs, f), here, g, s)
<1> DEFINE fs2 == Append(fs, f)
           P2 == [k \in 0..(Len(fs) + 1) |-> IF k <= Len(fs) THEN P[k] ELSE Q]
<1>1. /\ fs2 \in Seq(FrameSet) /\ Len(fs2) = Len(fs) + 1 /\ fs2 # <<>>
      /\ fs2[Len(fs) + 1] = f
      /\ \A k \in 1..Len(fs) : fs2[k] = fs[k]
  OBVIOUS
<1>2. Len(fs) \in Nat
  OBVIOUS
<1>3. /\ P \in [0..Len(fs) -> SUBSET Seq(Values)]
      /\ P[0] \subseteq env.finals
      /\ \A k \in 1..Len(fs) : \A t \in P[k] :
           /\ Resumes(env, fs[k].at, fs[k].group, t, P[k - 1], k - 1)
           /\ fs[k].sp # ResultSp => fs[k].sp = Len(t)
  BY DEF Linked
<1>4. /\ P2 \in [0..Len(fs2) -> SUBSET Seq(Values)]
      /\ \A k \in 0..Len(fs) : P2[k] = P[k]
      /\ P2[Len(fs) + 1] = Q
  <2> HIDE DEF fs2
  <2> QED BY <1>1, <1>2, <1>3
<1> HIDE DEF fs2, P2
<1>5. ASSUME NEW k \in 1..Len(fs2), NEW t \in P2[k]
      PROVE  /\ Resumes(env, fs2[k].at, fs2[k].group, t, P2[k - 1], k - 1)
             /\ fs2[k].sp # ResultSp => fs2[k].sp = Len(t)
  <2>1. CASE k <= Len(fs)
    <3>1. k \in 1..Len(fs) /\ k \in 0..Len(fs) /\ k - 1 \in 0..Len(fs)
      BY <1>1, <1>2, <2>1
    <3>2. fs2[k] = fs[k] /\ P2[k] = P[k] /\ P2[k - 1] = P[k - 1]
      BY <1>1, <1>4, <3>1
    <3> QED BY <1>3, <1>5, <3>1, <3>2
  <2>2. CASE k > Len(fs)
    <3>1. k = Len(fs) + 1
      BY <1>1, <1>2, <2>2
    <3>2. fs2[k] = f /\ P2[k] = Q
      BY <1>1, <1>4, <3>1
    <3>3. P2[k - 1] = P[Len(fs)]
      <4>1. k - 1 = Len(fs) /\ k - 1 \in 0..Len(fs)
        BY <1>2, <3>1
      <4> QED BY <1>4, <4>1
    <3>4. k - 1 = Len(fs)
      BY <3>1, <1>2
    <3> QED BY <1>5, <3>2, <3>3, <3>4
  <2> QED BY <1>1, <1>2, <2>1, <2>2
<1>6. P2[0] \subseteq env.finals
  <2>1. 0 \in 0..Len(fs)
    BY <1>2
  <2> QED BY <1>3, <1>4, <2>1
<1>7. Linked(env, P2, fs2)
  BY <1>4, <1>5, <1>6 DEF Linked
<1>8. Resumes(env, here, g, s, P2[Len(fs2)], Len(fs2))
  BY <1>1, <1>4
<1> QED BY <1>7, <1>8 DEF Chain, fs2

LEMMA ChainPop ==
  ASSUME NEW env, NEW P, NEW fs \in Seq(FrameSet), Linked(env, P, fs),
         fs # <<>>, NEW s \in P[Len(fs)]
  PROVE  LET f == fs[Len(fs)]
         IN  /\ Chain(env, SubSeq(fs, 1, Len(fs) - 1), f.at, f.group, s)
             /\ f.sp # ResultSp => f.sp = Len(s)
<1> DEFINE n == Len(fs)
           fs2 == SubSeq(fs, 1, n - 1)
           P2 == [k \in 0..(n - 1) |-> P[k]]
<1>1. n \in Nat \ {0}
  OBVIOUS
<1>2. /\ fs2 \in Seq(FrameSet) /\ Len(fs2) = n - 1
      /\ \A k \in 1..(n - 1) : fs2[k] = fs[k]
  <2> DEFINE m == n - 1
  <2>1. m \in 0..Len(fs)
    BY <1>1
  <2> HIDE DEF m
  <2>2. /\ SubSeq(fs, 1, m) \in Seq(FrameSet) /\ Len(SubSeq(fs, 1, m)) = m
        /\ \A k \in 1..m : SubSeq(fs, 1, m)[k] = fs[k]
    BY <2>1
  <2> QED BY <2>2 DEF m
<1>4. /\ P \in [0..n -> SUBSET Seq(Values)]
      /\ P[0] \subseteq env.finals
      /\ \A k \in 1..n : \A t \in P[k] :
           /\ Resumes(env, fs[k].at, fs[k].group, t, P[k - 1], k - 1)
           /\ fs[k].sp # ResultSp => fs[k].sp = Len(t)
  BY DEF Linked
<1> HIDE DEF fs2, n
<1>5. /\ P2 \in [0..(n - 1) -> SUBSET Seq(Values)]
      /\ \A k \in 0..(n - 1) : P2[k] = P[k]
  BY <1>1, <1>4
<1> HIDE DEF P2
<1>6. Linked(env, P2, fs2)
  <2>1. P2[0] \subseteq env.finals
    <3>1. 0 \in 0..(n - 1)
      BY <1>1
    <3> QED BY <1>4, <1>5, <3>1
  <2>2. ASSUME NEW k \in 1..Len(fs2), NEW t \in P2[k]
        PROVE  /\ Resumes(env, fs2[k].at, fs2[k].group, t, P2[k - 1], k - 1)
               /\ fs2[k].sp # ResultSp => fs2[k].sp = Len(t)
    <3>1. k \in 1..n /\ k \in 1..(n - 1) /\ k \in 0..(n - 1) /\ k - 1 \in 0..(n - 1)
      BY <1>1, <1>2
    <3>2. fs2[k] = fs[k] /\ P2[k] = P[k] /\ P2[k - 1] = P[k - 1]
      BY <1>2, <1>5, <3>1
    <3> QED BY <1>4, <2>2, <3>1, <3>2
  <2> QED BY <1>2, <1>5, <2>1, <2>2 DEF Linked
<1>7. n \in 1..n /\ n - 1 \in 0..(n - 1)
  BY <1>1
<1>8. /\ Resumes(env, fs[n].at, fs[n].group, s, P[n - 1], n - 1)
      /\ fs[n].sp # ResultSp => fs[n].sp = Len(s)
  BY <1>4, <1>7 DEF n
<1>9. Resumes(env, fs[n].at, fs[n].group, s, P2[Len(fs2)], Len(fs2))
  <2>1. P2[Len(fs2)] = P[n - 1]
    BY <1>2, <1>5, <1>7
  <2> QED BY <1>2, <1>8, <2>1
<1>10. Chain(env, fs2, fs[n].at, fs[n].group, s)
  BY <1>6, <1>9 DEF Chain
<1> QED BY <1>8, <1>10 DEF fs2, n

-----------------------------------------------------------------------------
(* The steps of the machine *)

\* The machine's variables have their types.
Shaped(m, p, a, g, fs) ==
  /\ m \in Seq(Values) /\ p \in 0..Len(m)
  /\ a \in [word : Codes, cell : Int]
  /\ g \in [left : Nat, tail : BOOLEAN]
  /\ fs \in Seq(FrameSet)

\* A run that has begun is going well, or has left a stack of env.finals, or
\* has overflowed the stack, and its depth was not bounded.
RunsWell(env, st, m, p, a, g, fs) ==
  /\ st \in {"running", "returned", "overflow"}
  /\ st # "overflow" => Shaped(m, p, a, g, fs)
  /\ st = "running" => Chain(env, fs, a, g, Used(m, p))
  /\ st = "returned" => Used(m, p) \in env.finals
  /\ st = "overflow" => env.room = Int

\* The surroundings are those of the machine.
Surrounds(env) ==
  /\ Sound(env)
  /\ \A w \in Codes : CodeOf(w) = env.code[w]
  /\ env.room # Int => \A n \in env.room : n <= Capacity
  /\ Capacity \in Int

LEMMA StackLen ==
  ASSUME NEW m \in Seq(Values), NEW p \in 0..Len(m)
  PROVE  /\ Used(m, p) \in Seq(Values) /\ Len(Used(m, p)) = p
         /\ \A k \in 1..p : Used(m, p)[k] = m[k]
BY DEF Used

\* The part of the stack that belongs to an activation
LEMMA ActivationStack ==
  ASSUME NEW env, Sound(env), NEW w, NEW x, NEW base, NEW Q,
         NEW depth \in Nat, Activation(env, w, x, base, Q, depth)
  PROVE  /\ w \in Codes /\ base \in Seq(Values) /\ x \in State
         /\ x.cur \in Seq(Values) /\ x.ins \in Seq(Values)
         /\ x.cell \in Int /\ x.left \in Nat
         /\ env.eff[w].max \in Nat
         /\ env.room # Int =>
              Len(base) + Len(x.cur) <= Len(base) + Len(x.ins) + env.eff[w].max
         /\ Len(base) + Len(x.cur) \in env.room
<1>1. w \in Codes /\ base \in Seq(Values) /\ x \in env.cert[w]
      /\ Len(base) + Len(x.ins) + env.eff[w].max \in env.room
  BY DEF Activation
<1>2. x \in State
  BY <1>1, SoundStates
<1>3. x.cur \in Seq(Values) /\ x.ins \in Seq(Values) /\ x.cell \in Int /\ x.left \in Nat
  BY <1>2 DEF State
<1>4. env.eff[w].max \in Nat
  BY <1>1 DEF Sound
<1>5. env.room # Int => Len(x.cur) <= Len(x.ins) + env.eff[w].max
  BY <1>1 DEF Sound, Bounded
<1>6. Len(base) \in Nat /\ Len(x.cur) \in Nat /\ Len(x.ins) \in Nat
  BY <1>1, <1>3
<1> DEFINE a == Len(base)
           b == Len(x.cur)
           c == Len(x.ins)
           d == env.eff[w].max
<1>7. env.room # Int => a + b <= a + c + d
  <2>1. env.room # Int => b <= c + d
    BY <1>5
  <2>2. a \in Nat /\ b \in Nat /\ c \in Nat /\ d \in Nat
    BY <1>4, <1>6
  <2> HIDE DEF a, b, c, d
  <2> QED BY <2>1, <2>2
<1>8. a + b \in env.room
  <2>1. CASE env.room = Int
    BY <1>6, <2>1
  <2>2. CASE env.room # Int
    <3>1. a + b \in Int /\ a + c + d \in env.room /\ a + b <= a + c + d
      BY <1>1, <1>6, <1>7, <2>2
    <3> HIDE DEF a, b, c, d
    <3> QED BY <3>1 DEF Sound
  <2> QED BY <2>1, <2>2
<1> QED BY <1>1, <1>2, <1>3, <1>4, <1>7, <1>8

LEMMA Replaces ==
  ASSUME mem \in Seq(Values), sp \in 0..Len(mem), Capacity \in Int,
         NEW n \in 0..sp, NEW vs \in Seq(Values), Replace(n, vs)
  PROVE  \/ /\ status' = "overflow" /\ sp - n + Len(vs) > Capacity
         \/ /\ status' = "running"
            /\ mem' \in Seq(Values) /\ sp' \in 0..Len(mem')
            /\ Used(mem', sp') = Upon(Below(Stack, n), vs)
<1>1. ~(sp < n)
  OBVIOUS
<1>2. CASE sp - n + Len(vs) > Capacity
  BY <1>1, <1>2 DEF Replace
<1>3. CASE ~(sp - n + Len(vs) > Capacity)
  <2>1. status' = "running" /\ sp' = sp - n + Len(vs)
        /\ mem' = Written(mem, sp - n + 1, vs)
    BY <1>1, <1>3 DEF Replace
  <2>2. /\ mem' \in Seq(Values) /\ sp' \in 0..Len(mem')
        /\ Used(mem', sp') = Upon(Below(Used(mem, sp), n), vs)
    BY <2>1, WrittenUpon
  <2> QED BY <2>1, <2>2 DEF Stack
<1> QED BY <1>2, <1>3

LEMMA RunReplaces ==
  ASSUME NEW CONSTANT env, Surrounds(env),
         Shaped(mem, sp, at, group, frames), group.left = 0,
         NEW CONSTANT P, Linked(env, P, frames),
         NEW CONSTANT x, NEW CONSTANT base,
         Activation(env, at.word, x, base, P[Len(frames)], Len(frames)),
         StateAt(x, base, at, group, Stack),
         NEW CONSTANT n \in 0..Len(x.cur), NEW CONSTANT vs \in Seq(Values),
         NEW CONSTANT y \in env.cert[at.word],
         y.ins = x.ins, y.left = 0, y.cur = Upon(Below(x.cur, n), vs),
         Replace(n, vs), at' = [at EXCEPT !.cell = y.cell],
         UNCHANGED <<group, frames>>
  PROVE  RunsWell(env, status', mem', sp', at', group', frames')
<1> DEFINE Q == P[Len(frames)]
           depth == Len(frames)
<1>1. depth \in Nat
  OBVIOUS
<1>a. Activation(env, at.word, x, base, Q, depth)
  OBVIOUS
<1> HIDE DEF Q, depth
<1>2. Sound(env) /\ Capacity \in Int
  BY DEF Surrounds
<1>3. /\ at.word \in Codes /\ base \in Seq(Values) /\ x.cur \in Seq(Values)
  BY <1>1, <1>2, <1>a, ActivationStack
<1>4. /\ mem \in Seq(Values) /\ sp \in 0..Len(mem)
      /\ at \in [word : Codes, cell : Int] /\ group \in [left : Nat, tail : BOOLEAN]
      /\ frames \in Seq(FrameSet)
  BY DEF Shaped
<1>5. Stack = Upon(base, x.cur) /\ Len(Stack) = sp /\ Stack \in Seq(Values)
  <2>1. Stack = Upon(base, x.cur)
    BY DEF StateAt
  <2>2. Len(Stack) = sp /\ Stack \in Seq(Values)
    BY <1>4, StackLen DEF Stack
  <2> QED BY <2>1, <2>2
<1>6. Below(Stack, n) = Upon(base, Below(x.cur, n)) /\ Below(x.cur, n) \in Seq(Values)
      /\ sp = Len(base) + Len(x.cur) /\ Len(Below(x.cur, n)) = Len(x.cur) - n
  <2> DEFINE c == x.cur
  <2>1. c \in Seq(Values) /\ n \in 0..Len(c)
    BY <1>3
  <2> HIDE DEF c
  <2>2. /\ Below(Upon(base, c), n) = Upon(base, Below(c, n))
        /\ Below(c, n) \in Seq(Values) /\ Len(Below(c, n)) = Len(c) - n
        /\ Len(Upon(base, c)) = Len(base) + Len(c)
    BY <1>3, <2>1, UponParts
  <2> QED BY <1>5, <2>2 DEF c
<1>7. n \in 0..sp
  <2>1. Len(base) \in Nat /\ Len(x.cur) \in Nat
    BY <1>3
  <2> QED BY <1>6, <2>1
<1>9. Activation(env, at.word, y, base, Q, depth)
  BY <1>a DEF Activation
<1>8. y.cell \in Int /\ y.cur \in Seq(Values)
  BY <1>1, <1>2, <1>9, ActivationStack
<1>10. Upon(Below(Stack, n), vs) = Upon(base, y.cur)
  <2> DEFINE b == Below(x.cur, n)
  <2>1. b \in Seq(Values) /\ Below(Stack, n) = Upon(base, b) /\ y.cur = Upon(b, vs)
    BY <1>6
  <2> HIDE DEF b
  <2> QED BY <1>3, <2>1, UponRegroup
<1>11. Len(base) + Len(y.cur) = sp - n + Len(vs)
  <2>1. Len(y.cur) = Len(x.cur) - n + Len(vs)
    <3> DEFINE b == Below(x.cur, n)
    <3>1. b \in Seq(Values) /\ Len(b) = Len(x.cur) - n /\ y.cur = Upon(b, vs)
      BY <1>6
    <3> HIDE DEF b
    <3>2. Len(Upon(b, vs)) = Len(b) + Len(vs)
      BY <3>1, UponCells
    <3> QED BY <3>1, <3>2
  <2>2. Len(base) \in Nat /\ Len(x.cur) \in Nat /\ Len(vs) \in Nat
    BY <1>3
  <2> QED BY <1>6, <2>1, <2>2
<1>12. CASE status' = "overflow" /\ sp - n + Len(vs) > Capacity
  <2>1. Len(base) + Len(y.cur) \in env.room
    BY <1>1, <1>2, <1>9, ActivationStack
  <2>2. env.room = Int
    <3> SUFFICES ASSUME env.room # Int PROVE FALSE
      OBVIOUS
    <3>1. Len(base) + Len(y.cur) <= Capacity
      BY <2>1 DEF Surrounds
    <3>2. Len(base) + Len(y.cur) \in Int
      BY <1>3, <1>8
    <3> QED BY <1>2, <1>11, <1>12, <3>1, <3>2
  <2> QED BY <1>12, <2>2 DEF RunsWell
<1>13. CASE /\ status' = "running"
            /\ mem' \in Seq(Values) /\ sp' \in 0..Len(mem')
            /\ Used(mem', sp') = Upon(Below(Stack, n), vs)
  <2>1. at' \in [word : Codes, cell : Int] /\ at'.word = at.word /\ at'.cell = y.cell
    BY <1>4, <1>8
  <2>2. Shaped(mem', sp', at', group', frames')
    BY <1>4, <1>13, <2>1 DEF Shaped
  <2>3. StateAt(y, base, at', group', Used(mem', sp'))
    <3>1. y.left = group'.left /\ ~(group'.left > 0)
      BY <1>4
    <3> QED BY <1>10, <1>13, <2>1, <3>1 DEF StateAt
  <2>4. Resumes(env, at', group', Used(mem', sp'), Q, depth)
    <3> QED BY <1>9, <2>1, <2>3 DEF Resumes
  <2>5. Chain(env, frames', at', group', Used(mem', sp'))
    BY <2>4 DEF Chain, Q, depth
  <2> QED BY <1>13, <2>2, <2>5 DEF RunsWell
<1> QED BY <1>2, <1>4, <1>7, <1>12, <1>13, Replaces

\* The run is going well.
Going(env) ==
  /\ Surrounds(env)
  /\ Shaped(mem, sp, at, group, frames)
  /\ Chain(env, frames, at, group, Stack)

LEMMA RunParts ==
  ASSUME NEW CONSTANT env, Going(env)
  PROVE  \E P, x, base :
           /\ Linked(env, P, frames)
           /\ Activation(env, at.word, x, base, P[Len(frames)], Len(frames))
           /\ StateAt(x, base, at, group, Stack)
BY DEF Going, Chain, Resumes

LEMMA RunFacts ==
  ASSUME NEW CONSTANT env, Going(env),
         NEW CONSTANT x, NEW CONSTANT base, NEW CONSTANT Q,
         Activation(env, at.word, x, base, Q, Len(frames)),
         StateAt(x, base, at, group, Stack)
  PROVE  /\ at.word \in Codes /\ x \in env.cert[at.word] /\ x \in State
         /\ CodeOf(at.word) = env.code[at.word]
         /\ x.cell = at.cell /\ x.left = group.left
         /\ group.left > 0 => x.tail = group.tail
         /\ Stack = Upon(base, x.cur) /\ Len(Stack) = sp /\ Stack \in Seq(Values)
         /\ base \in Seq(Values) /\ x.cur \in Seq(Values) /\ x.ins \in Seq(Values)
         /\ sp = Len(base) + Len(x.cur)
         /\ Len(base) + Len(x.cur) \in env.room
         /\ StepStays(env.cert[at.word], env.code[at.word], env.eff[at.word], x)
<1>1. Sound(env) /\ Shaped(mem, sp, at, group, frames)
  BY DEF Going, Surrounds
<1>2. Len(frames) \in Nat
  BY <1>1 DEF Shaped
<1>3. /\ at.word \in Codes /\ base \in Seq(Values) /\ x \in State
      /\ x.cur \in Seq(Values) /\ x.ins \in Seq(Values)
      /\ Len(base) + Len(x.cur) \in env.room
  BY <1>1, <1>2, ActivationStack
<1>4. x \in env.cert[at.word]
  BY DEF Activation
<1>5. StepStays(env.cert[at.word], env.code[at.word], env.eff[at.word], x)
  BY <1>1, <1>3, <1>4, SoundStates
<1>6. CodeOf(at.word) = env.code[at.word]
  BY <1>3 DEF Going, Surrounds
<1>7. Len(Stack) = sp /\ Stack \in Seq(Values)
  BY <1>1, StackLen DEF Shaped, Stack
<1>8. /\ x.cell = at.cell /\ x.left = group.left
      /\ group.left > 0 => x.tail = group.tail
      /\ Stack = Upon(base, x.cur)
  BY DEF StateAt
<1>9. sp = Len(base) + Len(x.cur)
  BY <1>3, <1>7, <1>8, UponCells
<1> QED BY <1>3, <1>4, <1>5, <1>6, <1>7, <1>8, <1>9

LEMMA FetchedOp ==
  ASSUME NEW CONSTANT env, Going(env),
         NEW CONSTANT x, NEW CONSTANT base, NEW CONSTANT Q,
         Activation(env, at.word, x, base, Q, Len(frames)),
         StateAt(x, base, at, group, Stack), NEW CONSTANT op, Fetch(op)
  PROVE  /\ OpStays(env.cert[at.word], env.code[at.word], env.eff[at.word], x, op)
         /\ x.left = 0 /\ group.left = 0
         /\ env.code[at.word][x.cell].kind = "op"
         /\ env.code[at.word][x.cell].op = op
         /\ at.cell + 1 = x.cell + 1
         /\ Param = env.code[at.word][x.cell + 1]
<1>1. /\ StepStays(env.cert[at.word], env.code[at.word], env.eff[at.word], x)
      /\ CodeOf(at.word) = env.code[at.word]
      /\ x.cell = at.cell /\ x.left = group.left
  BY RunFacts
<1>2. group.left = 0 /\ env.code[at.word][x.cell].kind = "op"
      /\ env.code[at.word][x.cell].op = op
  BY <1>1 DEF Fetch, Cell
<1>3. OpStays(env.cert[at.word], env.code[at.word], env.eff[at.word], x, op)
  BY <1>1, <1>2 DEF StepStays
<1>4. Param = env.code[at.word][x.cell + 1]
  BY <1>1 DEF Param
<1> QED BY <1>1, <1>2, <1>3, <1>4

LEMMA WildNever ==
  ASSUME NEW CONSTANT env, Going(env), RunWild
  PROVE  FALSE
<1>1. PICK P, x, base :
           /\ Linked(env, P, frames)
           /\ Activation(env, at.word, x, base, P[Len(frames)], Len(frames))
           /\ StateAt(x, base, at, group, Stack)
  BY RunParts
<1>2. /\ StepStays(env.cert[at.word], env.code[at.word], env.eff[at.word], x)
      /\ CodeOf(at.word) = env.code[at.word]
      /\ x.cell = at.cell /\ x.left = group.left
  BY <1>1, RunFacts
<1>3. group.left = 0 /\ ~Fetchable
  BY DEF RunWild
<1>4. ~(x.left > 0)
  BY <1>2, <1>3
<1>5. /\ x.cell \in DOMAIN env.code[at.word]
      /\ env.code[at.word][x.cell].kind \in {"op", "interp"}
  BY <1>2, <1>4 DEF StepStays
<1> QED BY <1>2, <1>3, <1>5 DEF Fetchable

LEMMA MovedParts ==
  ASSUME NEW x \in State, NEW c \in Int, NEW s \in Seq(Values)
  PROVE  /\ Moved(x, c, s) \in State
         /\ Moved(x, c, s).cell = c /\ Moved(x, c, s).cur = s
         /\ Moved(x, c, s).ins = x.ins /\ Moved(x, c, s).left = x.left
         /\ Moved(x, c, s).tail = x.tail
BY DEF Moved, State

\* The results of the native words are values.
LEMMA ResultsAreValues ==
  ASSUME NEW w \in StackWords, NEW a \in Seq(Values), Len(a) = Arity(w),
         NEW vs \in Results(w, a)
  PROVE  vs \in Seq(Values)
<1> USE DEF BinaryWords, RelationWords, ZeroRelationWords
<1>1. {"Null", "Number", "String", "Array"} \subseteq Values
  BY DEF Values
<1>2. \A k \in 1..Len(a) : a[k] \in Values
  OBVIOUS
<1>3. CASE w = "NOP" \/ w = "DROP"
  <2>1. vs = <<>>
    BY <1>3 DEF Results
  <2> QED BY <2>1, EmptySeq
<1>4. CASE w = "DUP"
  <2>1. Arity(w) = 1
    BY <1>4 DEF Arity
  <2>2. vs = <<a[1], a[1]>>
    BY <1>4 DEF Results
  <2>3. a[1] \in Values
    BY <1>2, <2>1
  <2> HIDE DEF BinaryWords, RelationWords, ZeroRelationWords
  <2>4. <<a[1], a[1]>> \in Seq(Values)
    BY <2>3
  <2> QED BY <2>2, <2>4
<1>5. CASE w = "SWAP" \/ w = "OVER"
  <2>1. Arity(w) = 2
    BY <1>5 DEF Arity
  <2>2. vs = <<a[2], a[1]>> \/ vs = <<a[1], a[2], a[1]>>
    BY <1>5 DEF Results
  <2>3. a[1] \in Values /\ a[2] \in Values
    BY <1>2, <2>1
  <2>4. <<a[2], a[1]>> \in Seq(Values) /\ <<a[1], a[2], a[1]>> \in Seq(Values)
    BY <2>3
  <2>5. CASE vs = <<a[2], a[1]>>
    BY <2>4, <2>5
  <2>6. CASE vs = <<a[1], a[2], a[1]>>
    BY <2>4, <2>6
  <2> QED BY <2>2, <2>5, <2>6
<1>6. CASE w = "ROT"
  <2>1. Arity(w) = 3
    BY <1>6 DEF Arity
  <2>2. vs = <<a[2], a[3], a[1]>>
    BY <1>6 DEF Results
  <2> QED BY <1>2, <2>1, <2>2
<1>7. CASE w = "ZERO" \/ w = "ONE" \/ w = "NULL_"
  <2>1. vs = <<"Number">> \/ vs = <<"Null">>
    BY <1>7 DEF Results
  <2>2. CASE vs = <<"Number">>
    BY <1>1, <2>2
  <2>3. CASE vs = <<"Null">>
    BY <1>1, <2>3
  <2> QED BY <2>1, <2>2, <2>3
<1>8. CASE w = "PLUS"
  <2>1. \A v \in Sums(a[1], a[2]) : v \in Values
    BY <1>1 DEF Sums, Arithmetic
  <2>2. PICK v \in Sums(a[1], a[2]) : vs = <<v>>
    BY <1>8 DEF Results
  <2> QED BY <2>1, <2>2
<1>9. CASE w \in BinaryWords
  <2>1. \A v \in Arithmetic(a[1], a[2]) : v \in Values
    BY <1>1 DEF Arithmetic
  <2>2. PICK v \in Arithmetic(a[1], a[2]) : vs = <<v>>
    BY <1>9 DEF Results
  <2> QED BY <2>1, <2>2
<1>10. CASE w = "LENGTH"
  <2>1. \A v \in Lengths(a[1]) : v \in Values
    BY <1>1 DEF Lengths
  <2>2. PICK v \in Lengths(a[1]) : vs = <<v>>
    BY <1>10 DEF Results
  <2> QED BY <2>1, <2>2
<1>11. CASE w \in RelationWords \cup ZeroRelationWords
  <2>1. vs = <<"Number">>
    BY <1>11 DEF Results
  <2> QED BY <1>1, <2>1
<1> QED BY <1>3, <1>4, <1>5, <1>6, <1>7, <1>8, <1>9, <1>10, <1>11 DEF StackWords

\* A native word that works on the stack
LEMMA StackWordStep ==
  ASSUME NEW CONSTANT env, Going(env), RunStackWord
  PROVE  RunsWell(env, status', mem', sp', at', group', frames')
<1>1. PICK P, x, base :
           /\ Linked(env, P, frames)
           /\ Activation(env, at.word, x, base, P[Len(frames)], Len(frames))
           /\ StateAt(x, base, at, group, Stack)
  BY RunParts
<1>2. PICK w \in StackWords :
        /\ Fetch(w)
        /\ IF sp < Arity(w)
             THEN Replace(Arity(w), <<>>)
             ELSE \E vs \in Results(w, SubSeq(mem, sp - Arity(w) + 1, sp)) :
                    Replace(Arity(w), vs)
        /\ Skip(1)
        /\ UNCHANGED <<genVars, group, frames>>
  BY DEF RunStackWord
<1> DEFINE R == env.cert[at.word]
           n == Arity(w)
<1>3. /\ x \in State /\ x.cur \in Seq(Values) /\ base \in Seq(Values)
      /\ x.cell = at.cell /\ x.left = group.left
      /\ Stack = Upon(base, x.cur) /\ sp = Len(base) + Len(x.cur)
  BY <1>1, RunFacts
<1>4. /\ OpStays(R, env.code[at.word], env.eff[at.word], x, w)
      /\ group.left = 0 /\ x.left = 0
  BY <1>1, <1>2, FetchedOp
<1>5. /\ n <= Len(x.cur)
      /\ \A vs \in Results(w, Args(x.cur, n)) :
           Moved(x, x.cell + 1, Upon(Below(x.cur, n), vs)) \in R
  BY <1>2, <1>4 DEF OpStays
<1>6. n \in 0..Len(x.cur) /\ n \in 0..sp /\ ~(sp < n)
  <2>1. n \in Nat
    BY DEF Arity
  <2>2. Len(x.cur) \in Nat /\ Len(base) \in Nat
    BY <1>3
  <2> HIDE DEF n
  <2> QED BY <1>3, <1>5, <2>1, <2>2
<1>7. SubSeq(mem, sp - n + 1, sp) = Args(x.cur, n)
  <2>1. mem \in Seq(Values) /\ sp \in 0..Len(mem)
    BY DEF Going, Shaped
  <2>2. SubSeq(mem, sp - n + 1, sp) = Args(Stack, n)
    <3> HIDE DEF n
    <3> QED BY <1>6, <2>1, ArgsOfUsed DEF Stack
  <2> HIDE DEF n
  <2> QED BY <1>3, <1>6, <2>2, UponParts
<1>8. PICK vs \in Results(w, Args(x.cur, n)) : Replace(n, vs)
  <2>1. \E vs \in Results(w, SubSeq(mem, sp - n + 1, sp)) : Replace(n, vs)
    BY <1>2, <1>6
  <2> HIDE DEF n
  <2> QED BY <1>7, <2>1
<1>9. vs \in Seq(Values)
  <2>1. Args(x.cur, n) \in Seq(Values) /\ Len(Args(x.cur, n)) = n
    <3> HIDE DEF n
    <3> QED BY <1>3, <1>6, UponParts
  <2> QED BY <1>8, <2>1, ResultsAreValues
<1> DEFINE y == Moved(x, x.cell + 1, Upon(Below(x.cur, n), vs))
<1>10. /\ y \in R /\ y.ins = x.ins /\ y.left = 0
       /\ y.cur = Upon(Below(x.cur, n), vs) /\ y.cell = x.cell + 1
  <2>1. y \in R
    BY <1>5, <1>8
  <2>2. Below(x.cur, n) \in Seq(Values)
    <3> HIDE DEF n
    <3> QED BY <1>3, <1>6, UponParts
  <2>3. Upon(Below(x.cur, n), vs) \in Seq(Values)
    <3> HIDE DEF n
    <3> QED BY <1>9, <2>2, UponCells
  <2>4. x.cell + 1 \in Int
    BY <1>3 DEF State
  <2> QED BY <1>3, <1>4, <2>1, <2>3, <2>4, MovedParts
<1> HIDE DEF y, n
<1>11. at' = [at EXCEPT !.cell = y.cell]
  BY <1>2, <1>3, <1>10 DEF Skip
<1>12. UNCHANGED <<group, frames>>
  BY <1>2
<1> QED BY <1>1, <1>4, <1>6, <1>8, <1>9, <1>10, <1>11, <1>12, RunReplaces DEF Going

LEMMA LiteralStep ==
  ASSUME NEW CONSTANT env, Going(env), RunLiteral
  PROVE  RunsWell(env, status', mem', sp', at', group', frames')
<1>1. PICK P, x, base :
           /\ Linked(env, P, frames)
           /\ Activation(env, at.word, x, base, P[Len(frames)], Len(frames))
           /\ StateAt(x, base, at, group, Stack)
  BY RunParts
<1>2. /\ Fetch("_LITERAL") /\ Replace(0, <<LiteralValue(Param.literal)>>)
      /\ Skip(2) /\ UNCHANGED <<group, frames>>
  BY DEF RunLiteral
<1> DEFINE R == env.cert[at.word]
<1>3. x \in State /\ x.cur \in Seq(Values) /\ x.cell = at.cell
  BY <1>1, RunFacts
<1>4. /\ OpStays(R, env.code[at.word], env.eff[at.word], x, "_LITERAL")
      /\ group.left = 0 /\ x.left = 0 /\ Param = env.code[at.word][x.cell + 1]
  BY <1>1, <1>2, FetchedOp
<1>5. PICK v : v = LiteralValue(Param.literal)
  OBVIOUS
<1>6. v \in Values /\ Moved(x, x.cell + 2, Upon(x.cur, <<v>>)) \in R
  BY <1>4, <1>5 DEF OpStays
<1>7. PICK vs : vs = <<v>>
  OBVIOUS
<1>8. vs \in Seq(Values)
  BY <1>6, <1>7
<1>9. Replace(0, vs)
  BY <1>2, <1>5, <1>7, Zenon
<1>10. Moved(x, x.cell + 2, Upon(x.cur, vs)) \in R
  BY <1>6, <1>7, Zenon
<1> DEFINE y == Moved(x, x.cell + 2, Upon(x.cur, vs))
<1>11. /\ y \in R /\ y.ins = x.ins /\ y.left = 0
       /\ y.cur = Upon(Below(x.cur, 0), vs) /\ y.cell = x.cell + 2
  <2>1. x.cell + 2 \in Int
    BY <1>3 DEF State
  <2>2. Upon(x.cur, vs) \in Seq(Values)
    BY <1>3, <1>8, UponCells
  <2>3. Below(x.cur, 0) = x.cur
    BY <1>3, BelowNone
  <2> QED BY <1>3, <1>4, <1>10, <2>1, <2>2, <2>3, MovedParts
<1> HIDE DEF y
<1>12. at' = [at EXCEPT !.cell = y.cell]
  BY <1>2, <1>3, <1>11 DEF Skip
<1>13. 0 \in 0..Len(x.cur)
  BY <1>3
<1> QED BY <1>1, <1>2, <1>4, <1>8, <1>9, <1>11, <1>12, <1>13, RunReplaces DEF Going

\* A step that leaves the data stack alone
LEMMA MoveStep ==
  ASSUME NEW CONSTANT env, Going(env), status = "running",
         NEW CONSTANT P, Linked(env, P, frames),
         NEW CONSTANT x, NEW CONSTANT base,
         Activation(env, at.word, x, base, P[Len(frames)], Len(frames)),
         StateAt(x, base, at, group, Stack),
         NEW CONSTANT y \in env.cert[at.word], y.ins = x.ins, y.cur = x.cur,
         at' = [at EXCEPT !.cell = y.cell],
         group' \in [left : Nat, tail : BOOLEAN],
         y.left = group'.left, group'.left > 0 => y.tail = group'.tail,
         UNCHANGED <<status, mem, sp, frames>>
  PROVE  RunsWell(env, status', mem', sp', at', group', frames')
<1> DEFINE Q == P[Len(frames)]
           depth == Len(frames)
<1>a. Activation(env, at.word, x, base, Q, depth)
  OBVIOUS
<1> HIDE DEF Q, depth
<1>1. Shaped(mem, sp, at, group, frames) /\ Sound(env)
  BY DEF Going, Surrounds
<1>2. depth \in Nat /\ at \in [word : Codes, cell : Int]
  BY <1>1 DEF depth, Shaped
<1>3. Activation(env, at.word, y, base, Q, depth)
  BY <1>a DEF Activation
<1>4. y.cell \in Int
  BY <1>1, <1>2, <1>3, ActivationStack
<1>5. at' \in [word : Codes, cell : Int] /\ at'.word = at.word /\ at'.cell = y.cell
  BY <1>2, <1>4
<1>6. Shaped(mem', sp', at', group', frames')
  BY <1>1, <1>5 DEF Shaped
<1>7. StateAt(y, base, at', group', Used(mem', sp'))
  <2>1. Used(mem', sp') = Stack
    BY DEF Stack
  <2>2. Stack = Upon(base, y.cur)
    BY DEF StateAt
  <2> QED BY <1>5, <2>1, <2>2 DEF StateAt
<1>8. Resumes(env, at', group', Used(mem', sp'), Q, depth)
  BY <1>3, <1>5, <1>7 DEF Resumes
<1>9. Chain(env, frames', at', group', Used(mem', sp'))
  BY <1>8 DEF Chain, Q, depth
<1> QED BY <1>6, <1>9 DEF RunsWell

LEMMA BranchStep ==
  ASSUME NEW CONSTANT env, Going(env), RunBranch
  PROVE  RunsWell(env, status', mem', sp', at', group', frames')
<1>1. PICK P, x, base :
           /\ Linked(env, P, frames)
           /\ Activation(env, at.word, x, base, P[Len(frames)], Len(frames))
           /\ StateAt(x, base, at, group, Stack)
  BY RunParts
<1>2. /\ Fetch("_BRANCH") /\ at' = BranchTarget
      /\ UNCHANGED <<status, mem, sp, group, frames>>
  BY DEF RunBranch
<1>3. x \in State /\ x.cur \in Seq(Values) /\ x.cell = at.cell
  BY <1>1, RunFacts
<1>4. /\ OpStays(env.cert[at.word], env.code[at.word], env.eff[at.word], x, "_BRANCH")
      /\ group.left = 0 /\ x.left = 0 /\ Param = env.code[at.word][x.cell + 1]
  BY <1>1, <1>2, FetchedOp
<1> DEFINE c == Target(env.code[at.word], x.cell)
           y == Moved(x, c, x.cur)
<1>5. y \in env.cert[at.word]
  BY <1>4 DEF OpStays
<1>6. y.cell = c /\ y.cur = x.cur /\ y.ins = x.ins /\ y.left = 0
  BY <1>3, <1>4 DEF Moved, State
<1>7. c = at.cell + 2 + Param.offset
  BY <1>3, <1>4 DEF Target
<1> HIDE DEF y, c
<1>8. at' = [at EXCEPT !.cell = y.cell]
  BY <1>2, <1>6, <1>7 DEF BranchTarget
<1>9. /\ group' \in [left : Nat, tail : BOOLEAN] /\ y.left = group'.left
      /\ ~(group'.left > 0)
  BY <1>2, <1>4, <1>6 DEF Going, Shaped
<1>10. status = "running"
  BY <1>2 DEF Fetch, Running
<1> QED BY <1>1, <1>2, <1>5, <1>6, <1>8, <1>9, <1>10, MoveStep

LEMMA StackTop ==
  ASSUME NEW CONSTANT env, Going(env),
         NEW CONSTANT x, NEW CONSTANT base, NEW CONSTANT Q,
         Activation(env, at.word, x, base, Q, Len(frames)),
         StateAt(x, base, at, group, Stack),
         NEW CONSTANT k \in Nat, k < Len(x.cur)
  PROVE  mem[sp - k] = x.cur[Len(x.cur) - k]
<1>1. /\ x.cur \in Seq(Values) /\ base \in Seq(Values)
      /\ Stack = Upon(base, x.cur) /\ sp = Len(base) + Len(x.cur)
  BY RunFacts
<1>2. mem \in Seq(Values) /\ sp \in 0..Len(mem)
  BY DEF Going, Shaped
<1> DEFINE j == Len(x.cur) - k
<1>3. j \in 1..Len(x.cur) /\ sp - k = Len(base) + j /\ sp - k \in 1..sp
  <2>1. Len(x.cur) \in Nat /\ Len(base) \in Nat
    BY <1>1
  <2> QED BY <1>1, <2>1
<1> HIDE DEF j
<1>4. Stack[sp - k] = mem[sp - k]
  BY <1>2, <1>3, StackLen DEF Stack
<1>5. Upon(base, x.cur)[Len(base) + j] = x.cur[j]
  BY <1>1, <1>3, UponCells
<1> QED BY <1>1, <1>3, <1>4, <1>5 DEF j

LEMMA ZBranchStep ==
  ASSUME NEW CONSTANT env, Going(env), RunZBranch
  PROVE  RunsWell(env, status', mem', sp', at', group', frames')
<1>1. PICK P, x, base :
           /\ Linked(env, P, frames)
           /\ Activation(env, at.word, x, base, P[Len(frames)], Len(frames))
           /\ StateAt(x, base, at, group, Stack)
  BY RunParts
<1>2. /\ Fetch("_ZBRANCH") /\ Replace(1, <<>>)
      /\ IF sp = 0 THEN Skip(2)
         ELSE \E truth \in Truths(mem[sp]) :
                IF truth THEN Skip(2) ELSE at' = BranchTarget
      /\ UNCHANGED <<group, frames>>
  BY DEF RunZBranch
<1>3. /\ x \in State /\ x.cur \in Seq(Values) /\ base \in Seq(Values)
      /\ x.cell = at.cell /\ sp = Len(base) + Len(x.cur)
  BY <1>1, RunFacts
<1> DEFINE R == env.cert[at.word]
           code == env.code[at.word]
           last == x.cur[Len(x.cur)]
           b == Below(x.cur, 1)
<1>4. /\ OpStays(R, code, env.eff[at.word], x, "_ZBRANCH")
      /\ group.left = 0 /\ x.left = 0 /\ Param = code[x.cell + 1]
  BY <1>1, <1>2, FetchedOp
<1>5. /\ 1 <= Len(x.cur)
      /\ \A truth \in Truths(last) :
           Moved(x, IF truth THEN x.cell + 2 ELSE Target(code, x.cell), b) \in R
  BY <1>4 DEF OpStays
<1>6. 1 \in 0..Len(x.cur) /\ sp # 0 /\ Len(x.cur) \in Nat
  BY <1>3, <1>5
<1>7. mem[sp] = last
  <2>1. mem[sp - 0] = x.cur[Len(x.cur) - 0]
    <3>1. 0 \in Nat /\ 0 < Len(x.cur)
      BY <1>5, <1>6
    <3> QED BY <1>1, <3>1, StackTop
  <2>2. sp - 0 = sp /\ Len(x.cur) - 0 = Len(x.cur)
    BY <1>3, <1>6
  <2> QED BY <2>1, <2>2
<1>8. PICK truth \in Truths(last) : IF truth THEN Skip(2) ELSE at' = BranchTarget
  <2>1. \E truth \in Truths(mem[sp]) : IF truth THEN Skip(2) ELSE at' = BranchTarget
    BY <1>2, <1>6
  <2> QED BY <1>7, <2>1
<1> DEFINE c == IF truth THEN x.cell + 2 ELSE Target(code, x.cell)
           y == Moved(x, c, b)
<1>9. y \in R
  BY <1>5, <1>8
<1>10. b \in Seq(Values)
  BY <1>3, <1>6, UponParts
<1>11. y.cell = c /\ y.cur = b /\ y.ins = x.ins /\ y.left = 0
  <2> HIDE DEF b, c
  <2> QED BY <1>3, <1>4 DEF Moved, State
<1>12. at' = [at EXCEPT !.cell = c]
  <2>1. CASE truth
    BY <1>3, <1>8, <2>1 DEF Skip
  <2>2. CASE ~truth
    <3>1. Target(code, x.cell) = at.cell + 2 + Param.offset
      BY <1>3, <1>4 DEF Target
    <3>2. at' = BranchTarget
      BY <1>8, <2>2
    <3> QED BY <2>2, <3>1, <3>2 DEF BranchTarget
  <2> QED BY <2>1, <2>2
<1>13. PICK vs : vs = <<>>
  OBVIOUS
<1>14. vs \in Seq(Values) /\ Replace(1, vs) /\ Upon(b, vs) = b
  <2>1. vs \in Seq(Values)
    BY <1>13, EmptySeq
  <2>2. Replace(1, vs)
    BY <1>2, <1>13, Zenon
  <2>3. Upon(b, vs) = b
    <3> HIDE DEF b
    <3> QED BY <1>10, <1>13, UponNone, Zenon
  <2> QED BY <2>1, <2>2, <2>3
<1>15. y.cur = Upon(Below(x.cur, 1), vs)
  BY <1>11, <1>14
<1> HIDE DEF y, c
<1>16. at' = [at EXCEPT !.cell = y.cell]
  BY <1>11, <1>12
<1> QED BY <1>1, <1>2, <1>4, <1>6, <1>9, <1>11, <1>14, <1>15, <1>16, RunReplaces DEF Going

LEMMA InterpStep ==
  ASSUME NEW CONSTANT env, Going(env), RunInterp
  PROVE  RunsWell(env, status', mem', sp', at', group', frames')
<1>1. PICK P, x, base :
           /\ Linked(env, P, frames)
           /\ Activation(env, at.word, x, base, P[Len(frames)], Len(frames))
           /\ StateAt(x, base, at, group, Stack)
  BY RunParts
<1>2. /\ Running /\ group.left = 0 /\ Cell.kind = "interp"
      /\ group' = [left |-> Cell.count, tail |-> Cell.tail]
      /\ Skip(1) /\ UNCHANGED <<status, mem, sp, frames>>
  BY DEF RunInterp
<1>3. /\ x \in State /\ x.cell = at.cell /\ x.left = group.left
      /\ CodeOf(at.word) = env.code[at.word] /\ at.word \in Codes
      /\ StepStays(env.cert[at.word], env.code[at.word], env.eff[at.word], x)
  BY <1>1, RunFacts
<1>4. Cell = env.code[at.word][x.cell]
  BY <1>3 DEF Cell
<1> DEFINE y == [x EXCEPT !.cell = x.cell + 1, !.left = Cell.count, !.tail = Cell.tail]
<1>5. ~(x.left > 0)
  BY <1>2, <1>3
<1>6. y \in env.cert[at.word]
  BY <1>2, <1>3, <1>4, <1>5 DEF StepStays
<1>7. /\ y.cell = x.cell + 1 /\ y.left = Cell.count /\ y.tail = Cell.tail
      /\ y.ins = x.ins /\ y.cur = x.cur
  BY <1>3 DEF State
<1> HIDE DEF y
<1>8. y \in State
  <2>1. Sound(env)
    BY DEF Going, Surrounds
  <2> QED BY <1>3, <1>6, <2>1, SoundStates
<1>9. y.left \in Nat /\ y.tail \in BOOLEAN
  BY <1>8 DEF State
<1>10. group' \in [left : Nat, tail : BOOLEAN]
  BY <1>2, <1>7, <1>9
<1>11. group'.left = y.left /\ group'.tail = y.tail
  BY <1>2, <1>7
<1>12. at' = [at EXCEPT !.cell = y.cell]
  BY <1>2, <1>3, <1>7 DEF Skip
<1>13. status = "running"
  BY <1>2 DEF Running
<1> QED BY <1>1, <1>2, <1>6, <1>7, <1>10, <1>11, <1>12, <1>13, MoveStep

LEMMA ReturnStep ==
  ASSUME NEW CONSTANT env, Going(env), RunReturn
  PROVE  RunsWell(env, status', mem', sp', at', group', frames')
<1>1. PICK P, x, base :
           /\ Linked(env, P, frames)
           /\ Activation(env, at.word, x, base, P[Len(frames)], Len(frames))
           /\ StateAt(x, base, at, group, Stack)
  BY RunParts
<1>2. Fetch("_RETURN") /\ mem' = mem /\ status = "running"
  BY DEF RunReturn, Fetch, Running
<1>3. /\ x.cur \in Seq(Values) /\ base \in Seq(Values)
      /\ Stack = Upon(base, x.cur) /\ Len(Stack) = sp
  BY <1>1, RunFacts
<1>4. OpStays(env.cert[at.word], env.code[at.word], env.eff[at.word], x, "_RETURN")
  BY <1>1, <1>2, FetchedOp
<1>5. Keeps(env.eff[at.word], x.ins, x.cur)
  BY <1>4 DEF OpStays
<1>6. Stack \in P[Len(frames)]
  BY <1>1, <1>3, <1>5 DEF Activation
<1>7. Shaped(mem, sp, at, group, frames)
  BY DEF Going
<1>8. CASE frames = <<>>
  <2>1. status' = "returned" /\ UNCHANGED <<sp, at, group, frames>>
    BY <1>8 DEF RunReturn
  <2>2. Len(frames) = 0
    BY <1>8
  <2>3. Stack \in env.finals
    BY <1>1, <1>6, <2>2 DEF Linked
  <2>4. Used(mem', sp') = Stack
    BY <1>2, <2>1 DEF Stack
  <2>5. Shaped(mem', sp', at', group', frames')
    BY <1>2, <1>7, <2>1 DEF Shaped
  <2> QED BY <2>1, <2>3, <2>4, <2>5 DEF RunsWell
<1>9. CASE frames # <<>>
  <2> DEFINE f == frames[Len(frames)]
  <2>1. /\ at' = f.at /\ group' = f.group
        /\ sp' = IF f.sp = ResultSp THEN sp ELSE f.sp
        /\ frames' = SubSeq(frames, 1, Len(frames) - 1)
        /\ status' = status
    BY <1>9 DEF RunReturn
  <2>2. frames \in Seq(FrameSet)
    BY <1>7 DEF Shaped
  <2>3. f \in FrameSet
    BY <1>9, <2>2
  <2>4. /\ Chain(env, SubSeq(frames, 1, Len(frames) - 1), f.at, f.group, Stack)
        /\ f.sp # ResultSp => f.sp = Len(Stack)
    BY <1>1, <1>6, <1>9, <2>2, ChainPop
  <2>5. sp' = sp
    BY <1>3, <2>1, <2>4
  <2>6. Used(mem', sp') = Stack
    BY <1>2, <2>5 DEF Stack
  <2>7. frames' \in Seq(FrameSet)
    BY <1>9, <2>1, <2>2
  <2>8. at' \in [word : Codes, cell : Int] /\ group' \in [left : Nat, tail : BOOLEAN]
    BY <2>1, <2>3 DEF FrameSet
  <2>9. Shaped(mem', sp', at', group', frames')
    BY <1>2, <1>7, <2>5, <2>7, <2>8 DEF Shaped
  <2>10. Chain(env, frames', at', group', Used(mem', sp'))
    <3> HIDE DEF f
    <3> QED BY <2>1, <2>4, <2>6, Zenon
  <2> QED BY <1>2, <2>1, <2>9, <2>10 DEF RunsWell
<1> QED BY <1>8, <1>9

-----------------------------------------------------------------------------
(* Calls *)

LEMMA RoomBelow ==
  ASSUME NEW env, Sound(env), NEW n \in Int, NEW m \in Int,
         n \in env.room, env.room # Int => m <= n
  PROVE  m \in env.room
BY DEF Sound

\* The activation in state x can go on at the frame f with whatever a call of
\* v on the stack s leaves.
CanResume(env, x, base, f, v, s) ==
  \A t \in After(env.eff[v], s) :
    /\ \E y \in env.cert[f.at.word] :
         /\ y.ins = x.ins /\ y.cur = t
         /\ y.cell = f.at.cell /\ y.left = f.group.left
         /\ f.group.left > 0 => y.tail = f.group.tail
    /\ f.sp # ResultSp => f.sp = Len(base) + Len(t)

\* A call with a frame pushed for the caller, whose stack is s and which will
\* go on at f.
LEMMA PushStep ==
  ASSUME NEW CONSTANT env, Going(env), status' = "running",
         NEW CONSTANT P, Linked(env, P, frames),
         NEW CONSTANT x, NEW CONSTANT base,
         Activation(env, at.word, x, base, P[Len(frames)], Len(frames)),
         NEW CONSTANT s \in Seq(Values), NEW CONSTANT v \in Codes,
         Ready(env.eff[v], s), NEW CONSTANT f \in FrameSet,
         f.at.word = at.word,
         CanResume(env, x, base, f, v, s),
         Len(base) + Len(s) + env.eff[v].max \in env.room,
         mem' \in Seq(Values), sp' \in 0..Len(mem'),
         Used(mem', sp') = Upon(base, s),
         at' = [word |-> v, cell |-> 1],
         group' \in [left : Nat, tail : BOOLEAN], group'.left = 0,
         frames' = Append(frames, f)
  PROVE  RunsWell(env, status', mem', sp', at', group', frames')
<1> DEFINE Q == P[Len(frames)]
           depth == Len(frames)
           Q2 == {Upon(base, t) : t \in After(env.eff[v], s)}
<1>a. Activation(env, at.word, x, base, Q, depth)
  OBVIOUS
<1> HIDE DEF Q, depth
<1>1. /\ Sound(env) /\ frames \in Seq(FrameSet)
      /\ base \in Seq(Values)
  BY DEF Going, Surrounds, Shaped, Activation
<1>2. depth \in Nat
  BY <1>1 DEF depth
<1>3. \A t \in After(env.eff[v], s) : t \in Seq(Values)
  <2>1. env.eff[v].ins \in Seq(TypeSet)
    BY <1>1 DEF Sound
  <2>2. Len(env.eff[v].ins) \in 0..Len(s)
    BY <2>1 DEF Ready
  <2>3. Below(s, Len(env.eff[v].ins)) \in Seq(Values)
    <3> DEFINE n == Len(env.eff[v].ins)
    <3>1. n \in 0..Len(s)
      BY <2>2
    <3> HIDE DEF n
    <3>2. Below(s, n) \in Seq(Values)
      BY <1>1, <3>1, UponParts
    <3> QED BY <3>2 DEF n
  <2> QED BY <2>3, UponCells DEF After
<1>4. Q2 \in SUBSET Seq(Values)
  BY <1>1, <1>3, UponCells
<1>5. ASSUME NEW u \in Q2
      PROVE  /\ Resumes(env, f.at, f.group, u, Q, depth)
             /\ f.sp # ResultSp => f.sp = Len(u)
  <2>1. PICK t \in After(env.eff[v], s) : u = Upon(base, t)
    BY <1>5
  <2>2. PICK y \in env.cert[at.word] :
          /\ y.ins = x.ins /\ y.cur = t
          /\ y.cell = f.at.cell /\ y.left = f.group.left
          /\ f.group.left > 0 => y.tail = f.group.tail
    BY <2>1 DEF CanResume
  <2>3. StateAt(y, base, f.at, f.group, u)
    BY <2>1, <2>2 DEF StateAt
  <2>4. Activation(env, at.word, y, base, Q, depth)
    BY <1>a, <2>2 DEF Activation
  <2>5. Len(u) = Len(base) + Len(t)
    BY <1>1, <1>3, <2>1, UponCells
  <2> QED BY <2>1, <2>3, <2>4, <2>5 DEF Resumes, CanResume
<1>6. \A t \in After(env.eff[v], s) : Upon(base, t) \in Q2
  OBVIOUS
<1> HIDE DEF Q2
<1>b. PICK g : g = group'
  OBVIOUS
<1>7. Resumes(env, [word |-> v, cell |-> 1], g, Upon(base, s), Q2, depth + 1)
  <2>1. depth + 1 \in Nat /\ depth + 1 # 0
    BY <1>2
  <2> QED BY <1>1, <1>6, <1>b, <2>1, ActivationEnters
<1>8. Chain(env, Append(frames, f), [word |-> v, cell |-> 1], g, Upon(base, s))
  BY <1>1, <1>4, <1>5, <1>7, ChainPush DEF Q, depth
<1>9. Chain(env, frames', at', group', Used(mem', sp'))
  BY <1>8, <1>b, Zenon
<1>10. Shaped(mem', sp', at', group', frames')
  <2>1. frames' \in Seq(FrameSet)
    BY <1>1
  <2> QED BY <2>1 DEF Shaped
<1> QED BY <1>9, <1>10 DEF RunsWell

LEMMA CallInGroupStep ==
  ASSUME NEW CONSTANT env, Going(env), CallInGroup
  PROVE  RunsWell(env, status', mem', sp', at', group', frames')
<1>1. PICK P, x, base :
           /\ Linked(env, P, frames)
           /\ Activation(env, at.word, x, base, P[Len(frames)], Len(frames))
           /\ StateAt(x, base, at, group, Stack)
  BY RunParts
<1>2. /\ status = "running" /\ group.left > 0
      /\ IF group.tail /\ group.left = 1
           THEN UNCHANGED frames
           ELSE PushFrame(Frame([at EXCEPT !.cell = @ + 1],
                                [group EXCEPT !.left = @ - 1], ResultSp))
      /\ at' = [word |-> Cell.word, cell |-> 1]
      /\ group' = NoGroup
      /\ UNCHANGED <<status, mem, sp>>
  BY DEF CallInGroup, Running
<1>3. /\ at.word \in Codes /\ x \in env.cert[at.word] /\ x \in State
      /\ CodeOf(at.word) = env.code[at.word]
      /\ x.cell = at.cell /\ x.left = group.left
      /\ group.left > 0 => x.tail = group.tail
      /\ Stack = Upon(base, x.cur)
      /\ base \in Seq(Values) /\ x.cur \in Seq(Values) /\ x.ins \in Seq(Values)
      /\ StepStays(env.cert[at.word], env.code[at.word], env.eff[at.word], x)
  BY <1>1, RunFacts
<1> DEFINE R == env.cert[at.word]
           e == env.eff[at.word]
           v == env.code[at.word][x.cell].word
<1>4. Cell.word = v
  BY <1>3 DEF Cell
<1>5. /\ v \in Interpreted /\ Ready(WordEffect[v], x.cur)
      /\ \A s \in After(WordEffect[v], x.cur) :
           IF x.tail /\ x.left = 1
             THEN Keeps(e, x.ins, s)
             ELSE [Moved(x, x.cell + 1, s) EXCEPT !.left = x.left - 1] \in R
  BY <1>2, <1>3 DEF StepStays, CallStays
<1>6. Sound(env) /\ Shaped(mem, sp, at, group, frames)
  BY DEF Going, Surrounds
<1>7. v \in Codes /\ env.eff[v] = WordEffect[v] /\ v # "main"
  BY <1>5, <1>6, InterpreterAssumption DEF Sound
<1>8. Len(base) + Len(x.cur) + env.eff[v].max \in env.room
  <2>1. Len(base) + Len(x.ins) + e.max \in env.room
    BY <1>1 DEF Activation
  <2>2. Len(base) \in Nat /\ Len(x.cur) \in Nat /\ Len(x.ins) \in Nat
        /\ e.max \in Nat /\ env.eff[v].max \in Nat
    BY <1>3, <1>6, <1>7 DEF Sound
  <2>3. env.room # Int => Len(x.cur) + env.eff[v].max <= Len(x.ins) + e.max
    <3>1. env.room # Int => Bounded(R, env.code[at.word], e)
      BY <1>3, <1>6 DEF Sound
    <3>2. x.left > 0
      BY <1>2, <1>3
    <3>3. env.room # Int =>
            Len(x.cur) + WordEffect[v].max <= Len(x.ins) + e.max
      <4> HIDE DEF e
      <4> QED BY <1>3, <3>1, <3>2, Zenon DEF Bounded
    <3> HIDE DEF e, v
    <3> QED BY <1>7, <3>3, Zenon
  <2> DEFINE i == Len(base)
             j == Len(x.cur)
             k == Len(x.ins)
             p == e.max
             q == env.eff[v].max
  <2>4. env.room # Int => i + j + q <= i + k + p
    <3>1. i \in Nat /\ j \in Nat /\ k \in Nat /\ p \in Nat /\ q \in Nat
      BY <2>2
    <3>2. env.room # Int => j + q <= k + p
      BY <2>3
    <3> HIDE DEF i, j, k, p, q
    <3> QED BY <3>1, <3>2
  <2>5. i + k + p \in Int /\ i + j + q \in Int
    <3>1. i \in Nat /\ j \in Nat /\ k \in Nat /\ p \in Nat /\ q \in Nat
      BY <2>2
    <3> HIDE DEF i, j, k, p, q
    <3> QED BY <3>1
  <2>6. i + k + p \in env.room
    BY <2>1
  <2> HIDE DEF i, j, k, p, q
  <2>7. i + j + q \in env.room
    BY <1>6, <2>4, <2>5, <2>6, RoomBelow
  <2> QED BY <2>7 DEF i, j, q
<1>9. /\ mem' \in Seq(Values) /\ sp' \in 0..Len(mem')
      /\ Used(mem', sp') = Upon(base, x.cur)
  BY <1>2, <1>3, <1>6 DEF Shaped, Stack
<1>10. /\ x.cell \in Int /\ x.left \in Nat /\ x.tail \in BOOLEAN
  BY <1>3 DEF State
<1>11. CASE group.tail /\ group.left = 1
  <2>1. x.tail /\ x.left = 1
    BY <1>2, <1>3, <1>11
  <2> DEFINE Q == P[Len(frames)]
  <2>2. \A r : Keeps(e, x.ins, r) => Upon(base, r) \in Q
    BY <1>1 DEF Activation
  <2>3. \A t \in After(WordEffect[v], x.cur) : Upon(base, t) \in Q
    BY <1>5, <2>1, <2>2
  <2>4. Len(frames) \in Nat
    BY <1>6 DEF Shaped
  <2>9. NoGroup.left = 0
    BY DEF NoGroup
  <2> HIDE DEF Q, v
  <2>5. Resumes(env, [word |-> v, cell |-> 1], NoGroup, Upon(base, x.cur), Q, Len(frames))
    BY <1>3, <1>5, <1>6, <1>7, <1>8, <2>3, <2>4, <2>9, ActivationEnters
  <2>6. frames' = frames /\ at' = [word |-> v, cell |-> 1]
    BY <1>2, <1>4, <1>11 DEF v
  <2>7. Chain(env, frames', at', group', Used(mem', sp'))
    BY <1>1, <1>2, <1>9, <2>5, <2>6 DEF Chain, Q
  <2>8. Shaped(mem', sp', at', group', frames')
    BY <1>2, <1>6, <1>7, <1>9, <2>6 DEF Shaped, NoGroup
  <2> QED BY <1>2, <2>7, <2>8 DEF RunsWell
<1>12. CASE ~(group.tail /\ group.left = 1)
  <2>1. ~(x.tail /\ x.left = 1)
    BY <1>2, <1>3, <1>12
  <2>2. PICK f : f = Frame([at EXCEPT !.cell = @ + 1],
                           [group EXCEPT !.left = @ - 1], ResultSp)
    OBVIOUS
  <2>3. at \in [word : Codes, cell : Int] /\ group \in [left : Nat, tail : BOOLEAN]
    BY <1>6 DEF Shaped
  <2>4. /\ f.at.word = at.word /\ f.at.cell = x.cell + 1
        /\ f.group.left = x.left - 1 /\ f.group.tail = x.tail
        /\ f.sp = ResultSp
    BY <1>2, <1>3, <2>2, <2>3 DEF Frame
  <2>5. f \in FrameSet
    <3>1. group.left - 1 \in Nat /\ at.cell + 1 \in Int /\ ResultSp \in Int
      BY <1>2, <2>3 DEF ResultSp
    <3> QED BY <2>2, <2>3, <3>1 DEF Frame, FrameSet
  <2>6. frames' = Append(frames, f)
    BY <1>2, <1>12, <2>2 DEF PushFrame
  <2>7. ASSUME NEW t \in After(env.eff[v], x.cur)
        PROVE  \E y \in R :
                 /\ y.ins = x.ins /\ y.cur = t
                 /\ y.cell = f.at.cell /\ y.left = f.group.left
                 /\ f.group.left > 0 => y.tail = f.group.tail
    <3> DEFINE y == [Moved(x, x.cell + 1, t) EXCEPT !.left = x.left - 1]
    <3>1. y \in R
      BY <1>5, <1>7, <2>1, <2>7
    <3>2. /\ y.ins = x.ins /\ y.cur = t /\ y.cell = x.cell + 1
          /\ y.left = x.left - 1 /\ y.tail = x.tail
      BY <1>3 DEF Moved, State
    <3> HIDE DEF y, R
    <3> QED BY <2>4, <3>1, <3>2
  <2>8. PICK w : w = v
    OBVIOUS
  <2>9. PICK s : s = x.cur
    OBVIOUS
  <2>10. /\ w \in Codes /\ s \in Seq(Values) /\ Ready(env.eff[w], s)
         /\ Len(base) + Len(s) + env.eff[w].max \in env.room
         /\ at' = [word |-> w, cell |-> 1]
         /\ Used(mem', sp') = Upon(base, s)
    BY <1>2, <1>3, <1>4, <1>5, <1>7, <1>8, <1>9, <2>8, <2>9
  <2>11. CanResume(env, x, base, f, w, s)
    <3> HIDE DEF v
    <3> QED BY <2>4, <2>7, <2>8, <2>9 DEF CanResume
  <2>12. /\ group' \in [left : Nat, tail : BOOLEAN] /\ group'.left = 0
         /\ status' = "running"
    BY <1>2 DEF NoGroup
  <2> QED BY <1>1, <1>9, <2>4, <2>5, <2>6, <2>10, <2>11, <2>12, PushStep
<1> QED BY <1>11, <1>12

LEMMA RecurseStep ==
  ASSUME NEW CONSTANT env, Going(env), RunRecurse
  PROVE  RunsWell(env, status', mem', sp', at', group', frames')
<1>1. PICK P, x, base :
           /\ Linked(env, P, frames)
           /\ Activation(env, at.word, x, base, P[Len(frames)], Len(frames))
           /\ StateAt(x, base, at, group, Stack)
  BY RunParts
<1>2. /\ Fetch("_RECURSE") /\ status = "running"
      /\ PushFrame(RecurseFrame([at EXCEPT !.cell = @ + 2]))
      /\ at' = BranchTarget
      /\ UNCHANGED <<status, mem, sp, group>>
  BY DEF RunRecurse, Fetch, Running
<1>3. /\ at.word \in Codes /\ x \in env.cert[at.word] /\ x \in State
      /\ x.cell = at.cell /\ x.left = group.left
      /\ Stack = Upon(base, x.cur) /\ sp = Len(base) + Len(x.cur)
      /\ base \in Seq(Values) /\ x.cur \in Seq(Values) /\ x.ins \in Seq(Values)
  BY <1>1, RunFacts
<1>4. /\ OpStays(env.cert[at.word], env.code[at.word], env.eff[at.word], x, "_RECURSE")
      /\ group.left = 0 /\ x.left = 0 /\ Param = env.code[at.word][x.cell + 1]
      /\ env.code[at.word][x.cell].kind = "op"
      /\ env.code[at.word][x.cell].op = "_RECURSE"
  BY <1>1, <1>2, FetchedOp
<1>5. Sound(env) /\ Shaped(mem, sp, at, group, frames)
  BY DEF Going, Surrounds
<1>6. PICK v : v = at.word
  OBVIOUS
<1>7. PICK s : s = x.cur
  OBVIOUS
<1>8. /\ Target(env.code[v], x.cell) = 1
      /\ Len(env.eff[v].ins) = Len(env.eff[v].outs)
      /\ Ready(env.eff[v], s)
      /\ \A t \in After(env.eff[v], s) : Moved(x, x.cell + 2, t) \in env.cert[v]
  BY <1>4, <1>6, <1>7 DEF OpStays
<1>9. v \in Codes /\ s \in Seq(Values)
  BY <1>3, <1>6, <1>7
<1>10. env.room = Int
  <2> SUFFICES ASSUME env.room # Int PROVE FALSE
    OBVIOUS
  <2>1. Bounded(env.cert[v], env.code[v], env.eff[v])
    BY <1>5, <1>9 DEF Sound
  <2> QED BY <1>3, <1>4, <1>6, <2>1 DEF Bounded, IsOp
<1>11. Len(base) + Len(s) + env.eff[v].max \in env.room
  <2>1. env.eff[v].max \in Nat
    BY <1>5, <1>9 DEF Sound
  <2> QED BY <1>3, <1>9, <1>10, <2>1
<1>12. PICK f : f = RecurseFrame([at EXCEPT !.cell = @ + 2])
  OBVIOUS
<1>13. /\ at \in [word : Codes, cell : Int] /\ sp \in Nat
       /\ mem \in Seq(Values) /\ sp \in 0..Len(mem)
  BY <1>5 DEF Shaped
<1>14. /\ f.at.word = v /\ f.at.word = at.word /\ f.at.cell = x.cell + 2
       /\ f.group.left = 0 /\ f.sp = sp
  BY <1>3, <1>6, <1>12, <1>13 DEF RecurseFrame, Frame, NoGroup
<1>15. f \in FrameSet
  <2>1. at.cell + 2 \in Int /\ sp \in Int
    BY <1>13
  <2> QED BY <1>12, <1>13, <2>1 DEF RecurseFrame, Frame, FrameSet, NoGroup
<1>16. frames' = Append(frames, f)
  BY <1>2, <1>12 DEF PushFrame
<1>17. \A t \in After(env.eff[v], s) : Len(t) = Len(s)
  <2> SUFFICES ASSUME NEW t \in After(env.eff[v], s) PROVE Len(t) = Len(s)
    OBVIOUS
  <2> DEFINE n == Len(env.eff[v].ins)
  <2>1. n \in 0..Len(s)
    <3>1. env.eff[v].ins \in Seq(TypeSet)
      BY <1>5, <1>9 DEF Sound
    <3> QED BY <1>8, <3>1 DEF Ready
  <2>2. PICK r \in Seq(Values) : /\ t = Upon(Below(s, n), r)
                                 /\ Keeps(env.eff[v], Args(s, n), r)
    BY DEF After
  <2>3. Len(r) = n
    BY <1>8, <2>2 DEF Keeps
  <2> HIDE DEF n
  <2>4. Below(s, n) \in Seq(Values) /\ Len(Below(s, n)) = Len(s) - n
    BY <1>9, <2>1, UponParts
  <2>5. Len(t) = Len(Below(s, n)) + Len(r)
    BY <2>2, <2>4, UponCells
  <2> QED BY <1>9, <2>1, <2>3, <2>4, <2>5
<1>18. CanResume(env, x, base, f, v, s)
  <2> SUFFICES ASSUME NEW t \in After(env.eff[v], s)
               PROVE  /\ \E y \in env.cert[f.at.word] :
                           /\ y.ins = x.ins /\ y.cur = t
                           /\ y.cell = f.at.cell /\ y.left = f.group.left
                           /\ f.group.left > 0 => y.tail = f.group.tail
                      /\ f.sp # ResultSp => f.sp = Len(base) + Len(t)
    BY DEF CanResume
  <2> DEFINE y == Moved(x, x.cell + 2, t)
  <2>1. y \in env.cert[v]
    BY <1>8
  <2>2. y.ins = x.ins /\ y.cur = t /\ y.cell = x.cell + 2 /\ y.left = x.left
    BY <1>3 DEF Moved, State
  <2>3. f.sp = Len(base) + Len(t)
    BY <1>3, <1>7, <1>14, <1>17
  <2> HIDE DEF y
  <2> QED BY <1>4, <1>14, <2>1, <2>2, <2>3
<1>19. at' = [word |-> v, cell |-> 1]
  <2>1. at.cell + 2 + Param.offset = 1
    BY <1>3, <1>4, <1>6, <1>8 DEF Target
  <2>2. at' = [at EXCEPT !.cell = 1]
    BY <1>2, <2>1 DEF BranchTarget
  <2> QED BY <1>6, <1>13, <2>2
<1>20. group' \in [left : Nat, tail : BOOLEAN] /\ group'.left = 0
  BY <1>2, <1>4, <1>5 DEF Shaped
<1>21. /\ mem' \in Seq(Values) /\ sp' \in 0..Len(mem')
       /\ Used(mem', sp') = Upon(base, s)
  BY <1>2, <1>3, <1>7, <1>13 DEF Stack
<1> QED BY <1>1, <1>2, <1>8, <1>9, <1>11, <1>14, <1>15, <1>16, <1>18, <1>19,
           <1>20, <1>21, PushStep

LEMMA IfElseStep ==
  ASSUME NEW CONSTANT env, Going(env), RunIfElse
  PROVE  RunsWell(env, status', mem', sp', at', group', frames')
<1>1. PICK P, x, base :
           /\ Linked(env, P, frames)
           /\ Activation(env, at.word, x, base, P[Len(frames)], Len(frames))
           /\ StateAt(x, base, at, group, Stack)
  BY RunParts
<1>2. /\ Fetch("IFELSE") /\ UNCHANGED group
      /\ IF sp < 3 \/ {mem[sp - 1], mem[sp]} \subseteq Quotes
           THEN /\ Replace(3, <<>>)
                /\ IF sp < 3 THEN UNCHANGED <<at, frames>>
                   ELSE /\ PushFrame(Frame([at EXCEPT !.cell = @ + 1],
                                           NoGroup, ResultSp))
                        /\ \E truth \in Truths(mem[sp - 2]) :
                             at' = [word |-> IF truth THEN mem[sp - 1] ELSE mem[sp],
                                    cell |-> 1]
           ELSE /\ status' = "not a quotation"
                /\ UNCHANGED <<mem, sp, at, frames>>
  BY DEF RunIfElse
<1>3. /\ at.word \in Codes /\ x \in env.cert[at.word] /\ x \in State
      /\ x.cell = at.cell /\ x.left = group.left
      /\ Stack = Upon(base, x.cur) /\ sp = Len(base) + Len(x.cur)
      /\ base \in Seq(Values) /\ x.cur \in Seq(Values) /\ x.ins \in Seq(Values)
      /\ Len(base) + Len(x.cur) \in env.room
  BY <1>1, RunFacts
<1>4. /\ OpStays(env.cert[at.word], env.code[at.word], env.eff[at.word], x, "IFELSE")
      /\ group.left = 0 /\ x.left = 0
      /\ env.code[at.word][x.cell].kind = "op"
      /\ env.code[at.word][x.cell].op = "IFELSE"
  <2>1. Fetch("IFELSE")
    BY <1>2
  <2> QED BY <1>1, <2>1, FetchedOp
<1>5. Sound(env) /\ Shaped(mem, sp, at, group, frames)
  BY DEF Going, Surrounds
<1>6. PICK b : b = Below(x.cur, 3)
  OBVIOUS
<1>7. PICK n : n = Len(x.cur)
  OBVIOUS
<1>8. /\ 3 <= n
      /\ \A k \in {n - 1, n} :
           /\ x.cur[k] \in Quotes
           /\ Ready(QuoteEffect[x.cur[k]], b)
           /\ \A s \in After(QuoteEffect[x.cur[k]], b) :
                Moved(x, x.cell + 1, s) \in env.cert[at.word]
  BY <1>4, <1>6, <1>7 DEF OpStays
<1>9. n \in Nat /\ Len(base) \in Nat /\ 3 \in 0..Len(x.cur)
  BY <1>3, <1>7, <1>8
<1>10. mem[sp - 1] = x.cur[n - 1] /\ mem[sp] = x.cur[n]
  <2>1. mem[sp - 1] = x.cur[Len(x.cur) - 1]
    <3>1. 1 \in Nat /\ 1 < Len(x.cur)
      BY <1>7, <1>8, <1>9
    <3> QED BY <1>1, <3>1, StackTop
  <2>2. mem[sp - 0] = x.cur[Len(x.cur) - 0]
    <3>1. 0 \in Nat /\ 0 < Len(x.cur)
      BY <1>7, <1>8, <1>9
    <3> QED BY <1>1, <3>1, StackTop
  <2>3. sp - 0 = sp /\ Len(x.cur) - 0 = n
    BY <1>3, <1>7, <1>9
  <2> QED BY <1>7, <2>1, <2>2, <2>3
<1>11. ~(sp < 3) /\ sp \in Nat
  BY <1>3, <1>7, <1>8, <1>9
<1>12. mem[sp - 1] \in Quotes /\ mem[sp] \in Quotes
  BY <1>8, <1>10
<1>13. /\ Replace(3, <<>>)
       /\ PushFrame(Frame([at EXCEPT !.cell = @ + 1], NoGroup, ResultSp))
       /\ \E truth \in Truths(mem[sp - 2]) :
            at' = [word |-> IF truth THEN mem[sp - 1] ELSE mem[sp], cell |-> 1]
  BY <1>2, <1>11, <1>12
<1>14. PICK k \in {n - 1, n} : at' = [word |-> x.cur[k], cell |-> 1]
  BY <1>10, <1>13
<1>15. PICK v : v = x.cur[k]
  OBVIOUS
<1>16. /\ v \in Codes /\ env.eff[v] = QuoteEffect[v]
       /\ Ready(env.eff[v], b) /\ at' = [word |-> v, cell |-> 1]
       /\ \A s \in After(env.eff[v], b) : Moved(x, x.cell + 1, s) \in env.cert[at.word]
  BY <1>5, <1>8, <1>14, <1>15 DEF Sound
<1>17. b \in Seq(Values) /\ Len(b) = n - 3 /\ Below(Stack, 3) = Upon(base, b)
       /\ Upon(base, b) \in Seq(Values)
  <2>1. /\ Below(Upon(base, x.cur), 3) = Upon(base, Below(x.cur, 3))
        /\ Below(x.cur, 3) \in Seq(Values) /\ Len(Below(x.cur, 3)) = Len(x.cur) - 3
    <3>1. PICK c : c = x.cur
      OBVIOUS
    <3>2. c \in Seq(Values) /\ 3 \in 0..Len(c)
      BY <1>3, <1>9, <3>1
    <3>3. /\ Below(Upon(base, c), 3) = Upon(base, Below(c, 3))
          /\ Below(c, 3) \in Seq(Values) /\ Len(Below(c, 3)) = Len(c) - 3
      BY <1>3, <3>2, UponParts
    <3> QED BY <3>1, <3>3, Zenon
  <2> QED BY <1>3, <1>6, <1>7, <2>1, UponCells
<1>18. /\ mem \in Seq(Values) /\ sp \in 0..Len(mem)
       /\ at \in [word : Codes, cell : Int]
       /\ group \in [left : Nat, tail : BOOLEAN]
  BY <1>5 DEF Shaped
<1>19. PICK vs : vs = <<>>
  OBVIOUS
<1>20. vs \in Seq(Values) /\ Replace(3, vs) /\ Len(vs) = 0
  <2>1. vs \in Seq(Values) /\ Len(vs) = 0
    BY <1>19, EmptySeq
  <2>2. Replace(3, vs)
    BY <1>13, <1>19, Zenon
  <2> QED BY <2>1, <2>2
<1>21. Upon(Upon(base, b), vs) = Upon(base, b)
  BY <1>17, <1>19, UponNone, Zenon
<1>22. Capacity \in Int /\ (env.room # Int => Len(base) + Len(x.cur) <= Capacity)
  BY <1>3 DEF Going, Surrounds
<1>23. \/ status' = "overflow" /\ sp - 3 + Len(vs) > Capacity
       \/ /\ status' = "running"
          /\ mem' \in Seq(Values) /\ sp' \in 0..Len(mem')
          /\ Used(mem', sp') = Upon(Below(Stack, 3), vs)
  <2>1. 3 \in 0..sp
    BY <1>11
  <2> QED BY <1>18, <1>20, <1>22, <2>1, Replaces
<1>24. CASE status' = "overflow" /\ sp - 3 + Len(vs) > Capacity
  <2>1. ~(sp <= Capacity)
    BY <1>11, <1>20, <1>22, <1>24
  <2>2. env.room = Int
    BY <1>3, <1>22, <2>1
  <2> QED BY <1>24, <2>2 DEF RunsWell
<1>25. CASE /\ status' = "running"
            /\ mem' \in Seq(Values) /\ sp' \in 0..Len(mem')
            /\ Used(mem', sp') = Upon(Below(Stack, 3), vs)
  <2>1. Used(mem', sp') = Upon(base, b)
    BY <1>17, <1>21, <1>25
  <2>2. PICK f : f = Frame([at EXCEPT !.cell = @ + 1], NoGroup, ResultSp)
    OBVIOUS
  <2>3. /\ f.at.word = at.word /\ f.at.cell = x.cell + 1
        /\ f.group.left = 0 /\ f.sp = ResultSp
    BY <1>3, <1>18, <2>2 DEF Frame, NoGroup
  <2>4. f \in FrameSet
    <3>1. at.cell + 1 \in Int /\ ResultSp \in Int
      BY <1>18 DEF ResultSp
    <3> QED BY <1>18, <2>2, <3>1 DEF Frame, FrameSet, NoGroup
  <2>5. frames' = Append(frames, f)
    BY <1>13, <2>2 DEF PushFrame
  <2>6. CanResume(env, x, base, f, v, b)
    <3> SUFFICES ASSUME NEW t \in After(env.eff[v], b)
                 PROVE  /\ \E y \in env.cert[f.at.word] :
                             /\ y.ins = x.ins /\ y.cur = t
                             /\ y.cell = f.at.cell /\ y.left = f.group.left
                             /\ f.group.left > 0 => y.tail = f.group.tail
                        /\ f.sp # ResultSp => f.sp = Len(base) + Len(t)
      BY DEF CanResume
    <3> DEFINE y == Moved(x, x.cell + 1, t)
    <3>1. y \in env.cert[at.word]
      BY <1>16
    <3>2. y.ins = x.ins /\ y.cur = t /\ y.cell = x.cell + 1 /\ y.left = x.left
      BY <1>3 DEF Moved, State
    <3> HIDE DEF y
    <3> QED BY <1>4, <2>3, <3>1, <3>2
  <2>7. Len(base) + Len(b) + env.eff[v].max \in env.room
    <3> DEFINE e == env.eff[at.word]
               i == Len(base)
               j == Len(b)
               m == Len(x.ins)
               p == e.max
               q == env.eff[v].max
    <3>1. i + m + p \in env.room
      BY <1>1 DEF Activation
    <3>2. i \in Nat /\ j \in Nat /\ m \in Nat /\ p \in Nat /\ q \in Nat
      BY <1>3, <1>5, <1>16, <1>17 DEF Sound
    <3>3. env.room # Int => j + q <= m + p
      <4>1. env.room # Int => Bounded(env.cert[at.word], env.code[at.word], e)
        BY <1>3, <1>5 DEF Sound
      <4>2. IsOp(env.code[at.word][x.cell], "IFELSE")
        BY <1>4 DEF IsOp
      <4>3. env.room # Int =>
              \A kk \in {Len(x.cur) - 1, Len(x.cur)} :
                Len(x.cur) - 3 + QuoteEffect[x.cur[kk]].max <= m + p
        <5> HIDE DEF e
        <5> QED BY <1>3, <1>4, <4>1, <4>2 DEF Bounded
      <4>4. env.room # Int => Len(x.cur) - 3 + QuoteEffect[x.cur[k]].max <= m + p
        BY <1>7, <4>3
      <4>5. Len(x.cur) - 3 = j /\ QuoteEffect[x.cur[k]].max = q
        BY <1>7, <1>15, <1>16, <1>17
      <4> HIDE DEF e, i, j, m, p, q
      <4> QED BY <4>4, <4>5
    <3>4. /\ i + m + p \in Int /\ i + j + q \in Int
          /\ env.room # Int => i + j + q <= i + m + p
      <4> HIDE DEF e, i, j, m, p, q
      <4> QED BY <3>2, <3>3
    <3> HIDE DEF e, i, j, m, p, q
    <3>5. i + j + q \in env.room
      BY <1>5, <3>1, <3>4, RoomBelow
    <3> QED BY <3>5 DEF i, j, q
  <2>8. group' \in [left : Nat, tail : BOOLEAN] /\ group'.left = 0
    BY <1>2, <1>4, <1>18
  <2>9. f.at.word = at.word
    BY <2>3
  <2> QED BY <1>1, <1>16, <1>17, <1>25, <2>1, <2>4, <2>5, <2>6, <2>7, <2>8,
             <2>9, PushStep
<1> QED BY <1>23, <1>24, <1>25

-----------------------------------------------------------------------------
(* A run of the word compiled *)

\* What the outermost activation leaves
Finals == {r \in Seq(Values) : Keeps(Promise, <<>>, r)}

Room == IF Sized THEN {n \in Int : n <= Capacity} ELSE Int

\* The surroundings of a run
Setting ==
  [code |-> [w \in Codes |-> CodeOf(w)],
   eff  |-> [w \in Codes |-> EffectOf(w)],
   cert |-> [w \in Codes |-> CertOf(w)],
   room |-> Room, finals |-> Finals]

\* No run has begun.
MachineIdle ==
  /\ at = [word |-> "main", cell |-> 1]
  /\ group = NoGroup
  /\ frames = <<>>

\* The memoized stacks certify the code compiled.
CodeCertified ==
  Vouched => /\ Certifies(MainStates, instrs, Promise)
             /\ Sized => Bounded(MainStates, instrs, Promise)

RunInv ==
  /\ phase # "compiled" => status = "idle"
  /\ status = "idle" => MachineIdle
  /\ Vouched /\ status # "idle" =>
       RunsWell(Setting, status, mem, sp, at, group, frames)

LEMMA HereSame ==
  ASSUME UNCHANGED genVars
  PROVE  Setting' = Setting /\ Vouched' = Vouched
<1>1. /\ UNCHANGED <<words, controlStack, effect, canAddInputs, phase, known>>
      /\ UNCHANGED <<erased, pcOf, interpWord, recursive, instrs>>
  BY DEF genVars, vars, checkVars, compilerVars, setup, layoutVars
<1>2. Promise' = Promise /\ Capacity' = Capacity /\ Live' = Live
  BY <1>1 DEF Promise, Capacity, Live
<1>3. MainStates' = MainStates
  BY <1>1, <1>2 DEF MainStates, MachineAt, StartOf, CellOf, Members
<1>4. Sized' = Sized
  BY <1>1, <1>2 DEF Sized, Peak, NextEffect, RecurseEffect
<1>5. Room' = Room /\ Finals' = Finals
  BY <1>2, <1>4 DEF Room, Finals
<1>6. /\ [w \in Codes |-> CodeOf(w)]' = [w \in Codes |-> CodeOf(w)]
      /\ [w \in Codes |-> EffectOf(w)]' = [w \in Codes |-> EffectOf(w)]
      /\ [w \in Codes |-> CertOf(w)]' = [w \in Codes |-> CertOf(w)]
  BY <1>1, <1>2, <1>3 DEF CodeOf, EffectOf, CertOf
<1>7. Vouched' = Vouched
  BY <1>1, <1>2 DEF Vouched, Complete, RecursionBalanced
<1> QED BY <1>5, <1>6, <1>7 DEF Setting

LEMMA PromiseParts ==
  ASSUME effect \in StackEffect
  PROVE  /\ Promise.ins = effect.ins /\ Promise.max = effect.max
         /\ Promise.ins \in Seq(TypeSet) /\ Promise.outs \in Seq(Output)
         /\ Promise.max \in Nat
         /\ Len(Promise.outs) = Len(effect.outs)
         /\ \A k \in 1..Len(effect.outs) :
              /\ Promise.outs[k].match = 0
              /\ Promise.outs[k].types = effect.outs[k].types
<1>1. /\ effect.ins \in Seq(TypeSet) /\ effect.outs \in Seq(Output)
      /\ effect.max \in Nat
  BY EffectFields
<1>2. \A k \in DOMAIN effect.outs : Out(effect.outs[k].types) \in Output
  <2>1. \A k \in DOMAIN effect.outs : effect.outs[k] \in Output
    BY <1>1
  <2>2. \A o \in Output : Out(o.types) \in Output
    BY DEF Out, Output
  <2> QED BY <2>1, <2>2
<1>3. PICK os : os = [k \in DOMAIN effect.outs |-> Out(effect.outs[k].types)]
  OBVIOUS
<1>4. PICK n \in Nat : n = Len(effect.outs) /\ DOMAIN effect.outs = 1..n
  BY <1>1
<1>5. os \in Seq(Output) /\ Len(os) = n
  BY <1>2, <1>3, <1>4
<1>6. \A k \in 1..n : os[k].match = 0 /\ os[k].types = effect.outs[k].types
  BY <1>3, <1>4 DEF Out
<1>7. Promise = [ins |-> effect.ins, outs |-> os, max |-> effect.max]
  BY <1>3 DEF Promise
<1> QED BY <1>1, <1>4, <1>5, <1>6, <1>7

LEMMA ChosenCertificates ==
  ASSUME WordsKeepEffects, NEW w \in DOMAIN WordCode
  PROVE  /\ Certifies(CertOf(w), WordCode[w], DeclaredEffect(w))
         /\ WordsBounded => Bounded(CertOf(w), WordCode[w], DeclaredEffect(w))
<1>1. \E R : /\ Certifies(R, WordCode[w], DeclaredEffect(w))
             /\ WordsBounded => Bounded(R, WordCode[w], DeclaredEffect(w))
  <2>1. CASE WordsBounded
    BY <2>1 DEF WordsBounded
  <2>2. CASE ~WordsBounded
    BY <2>2 DEF WordsKeepEffects
  <2> QED BY <2>1, <2>2
<1>2. w # "main"
  BY InterpreterAssumption
<1> QED BY <1>1, <1>2, Zenon DEF CertOf

LEMMA DeclaredParts ==
  ASSUME NEW w \in DOMAIN WordCode
  PROVE  /\ DeclaredEffect(w) \in StackEffect
         /\ w \in Interpreted => DeclaredEffect(w) = WordEffect[w]
         /\ w \in Quotes => DeclaredEffect(w) = QuoteEffect[w]
<1>1. CASE w \in Interpreted
  <2>1. WordEffect[w] \in StackEffect
    BY <1>1, CompilerAssumption
  <2> QED BY <1>1, <2>1, InterpreterAssumption DEF DeclaredEffect
<1>2. CASE w \in Quotes
  <2>1. QuoteEffect[w] \in StackEffect
    BY <1>2, CompilerAssumption DEF Quotes
  <2> QED BY <1>2, <2>1, InterpreterAssumption DEF DeclaredEffect
<1> QED BY <1>1, <1>2, InterpreterAssumption

LEMMA SurroundsHere ==
  ASSUME effect \in StackEffect, Vouched, CodeCertified, WordsKeepEffects
  PROVE  Surrounds(Setting)
<1>1. PICK env : env = Setting
  OBVIOUS
<1>2. /\ env.room = Room
      /\ \A w \in Codes : /\ env.code[w] = CodeOf(w)
                          /\ env.eff[w] = EffectOf(w)
                          /\ env.cert[w] = CertOf(w)
  BY <1>1 DEF Setting
<1>3. Capacity \in Int
  <2>1. Len(effect.ins) \in Nat /\ effect.max \in Nat
    BY EffectFields
  <2> QED BY <2>1 DEF Capacity
<1>4. /\ Certifies(MainStates, instrs, Promise)
      /\ Sized => Bounded(MainStates, instrs, Promise)
  BY DEF CodeCertified
<1>5. env.room # Int => Sized
  BY <1>2 DEF Room
<1>6. ASSUME NEW w \in Codes
      PROVE  /\ env.eff[w].ins \in Seq(TypeSet) /\ env.eff[w].outs \in Seq(Output)
             /\ env.eff[w].max \in Nat
             /\ Certifies(env.cert[w], env.code[w], env.eff[w])
             /\ env.room # Int => Bounded(env.cert[w], env.code[w], env.eff[w])
  <2>1. CASE w = "main"
    <3>1. env.code[w] = instrs /\ env.eff[w] = Promise /\ env.cert[w] = MainStates
      BY <1>2, <2>1 DEF CodeOf, EffectOf, CertOf
    <3> QED BY <1>4, <1>5, <3>1, PromiseParts
  <2>2. CASE w # "main"
    <3>1. w \in DOMAIN WordCode
      BY <2>2 DEF Codes
    <3>2. /\ env.code[w] = WordCode[w] /\ env.eff[w] = DeclaredEffect(w)
          /\ env.cert[w] = CertOf(w)
      BY <1>2, <2>2 DEF CodeOf, EffectOf
    <3>3. DeclaredEffect(w) \in StackEffect
      BY <3>1, DeclaredParts
    <3>4. env.room # Int => WordsBounded
      BY <1>5 DEF Sized
    <3> QED BY <3>1, <3>2, <3>3, <3>4, EffectFields, ChosenCertificates
  <2> QED BY <2>1, <2>2
<1>7. \A w \in DOMAIN WordCode : w \in Codes /\ w # "main"
  BY InterpreterAssumption DEF Codes
<1>8. \A w \in Interpreted : w \in Codes /\ env.eff[w] = WordEffect[w]
  <2> SUFFICES ASSUME NEW w \in Interpreted
               PROVE  w \in Codes /\ env.eff[w] = WordEffect[w]
    OBVIOUS
  <2>1. w \in DOMAIN WordCode
    BY InterpreterAssumption
  <2> QED BY <1>2, <1>7, <2>1, DeclaredParts DEF EffectOf
<1>9. \A w \in Quotes : w \in Codes /\ env.eff[w] = QuoteEffect[w]
  <2> SUFFICES ASSUME NEW w \in Quotes
               PROVE  w \in Codes /\ env.eff[w] = QuoteEffect[w]
    OBVIOUS
  <2>1. w \in DOMAIN WordCode
    BY InterpreterAssumption
  <2> QED BY <1>2, <1>7, <2>1, DeclaredParts DEF EffectOf
<1>10. env.room \subseteq Int /\ \A n \in env.room : \A m \in Int : m <= n => m \in env.room
  <2>1. CASE Sized
    <3>1. env.room = {n \in Int : n <= Capacity}
      BY <1>2, <2>1 DEF Room
    <3> QED BY <1>3, <3>1
  <2>2. CASE ~Sized
    BY <1>2, <2>2 DEF Room
  <2> QED BY <2>1, <2>2
<1>11. env.room # Int => \A n \in env.room : n <= Capacity
  BY <1>2 DEF Room
<1>12. Sound(env)
  BY <1>6, <1>8, <1>9, <1>10 DEF Sound
<1>13. Surrounds(env)
  BY <1>2, <1>3, <1>11, <1>12 DEF Surrounds
<1> QED BY <1>1, <1>13

LEMMA StartStep ==
  ASSUME effect \in StackEffect, Vouched, CodeCertified, WordsKeepEffects,
         MachineIdle, StartRun
  PROVE  RunsWell(Setting, status', mem', sp', at', group', frames')
<1>1. PICK env : env = Setting
  OBVIOUS
<1>2. Surrounds(env)
  BY <1>1, SurroundsHere
<1>3. Sound(env) /\ Capacity \in Int
  BY <1>2 DEF Surrounds
<1>4. "main" \in Codes /\ env.eff["main"] = Promise
  BY <1>1 DEF Setting, Codes, EffectOf
<1>5. env.finals = Finals /\ env.room = Room
  BY <1>1 DEF Setting
<1>6. PICK inputs \in [DOMAIN effect.ins -> Values] :
        /\ \A k \in DOMAIN inputs : TypeOf(inputs[k]) \in effect.ins[k]
        /\ mem' = inputs
        /\ sp' = Len(inputs)
  BY DEF StartRun
<1>7. /\ effect.ins \in Seq(TypeSet) /\ effect.max \in Nat
      /\ Promise.ins = effect.ins /\ Promise.max = effect.max
  BY PromiseParts, EffectFields
<1>8. inputs \in Seq(Values) /\ Len(inputs) = Len(effect.ins)
  <2>1. PICK n \in Nat : DOMAIN effect.ins = 1..n /\ Len(effect.ins) = n
    BY <1>7
  <2>2. inputs \in [1..n -> Values]
    BY <2>1
  <2> QED BY <2>1, <2>2
<1>9. Suits(Promise, inputs)
  BY <1>6, <1>7, <1>8 DEF Suits, Fits
<1>10. status' = "running" /\ UNCHANGED <<at, group, frames>>
  BY DEF StartRun
<1>11. /\ at' = [word |-> "main", cell |-> 1] /\ group' = NoGroup /\ frames' = <<>>
  BY <1>10 DEF MachineIdle
<1> DEFINE x == Entry(inputs)
           P == [k \in 0..0 |-> Finals]
<1>12. x \in env.cert["main"]
  BY <1>3, <1>4, <1>9 DEF Sound, Certifies
<1>13. x.ins = inputs /\ x.cur = inputs /\ x.cell = 1 /\ x.left = 0
  BY DEF Entry
<1>14. \A r : Keeps(Promise, inputs, r) => r \in Finals
  <2> SUFFICES ASSUME NEW r, Keeps(Promise, inputs, r) PROVE r \in Finals
    OBVIOUS
  <2>1. /\ Len(Promise.outs) = Len(effect.outs)
        /\ \A k \in 1..Len(effect.outs) : Promise.outs[k].match = 0
    BY PromiseParts
  <2>2. Keeps(Promise, <<>>, r)
    BY <2>1 DEF Keeps
  <2>3. r \in Seq(Values)
    BY DEF Keeps
  <2> QED BY <2>2, <2>3 DEF Finals
<1>15. \A r : Keeps(Promise, inputs, r) => Upon(<<>>, r) \in Finals
  <2> SUFFICES ASSUME NEW r, Keeps(Promise, inputs, r) PROVE Upon(<<>>, r) \in Finals
    OBVIOUS
  <2>1. r \in Seq(Values)
    BY DEF Keeps
  <2>2. Upon(<<>>, r) = r
    BY <2>1, NoneBelow
  <2> QED BY <1>14, <2>2
<1>16. PICK none : none = <<>>
  OBVIOUS
<1>17. none \in Seq(Values) /\ Len(none) = 0 /\ Upon(none, inputs) = inputs
  <2>1. none \in Seq(Values) /\ Len(none) = 0
    BY <1>16, EmptySeq
  <2>2. Upon(none, inputs) = inputs
    BY <1>8, <1>16, NoneBelow, Zenon
  <2> QED BY <2>1, <2>2
<1>18. Len(none) + Len(x.ins) + Promise.max \in env.room
  <2>1. Len(none) + Len(x.ins) + Promise.max = Capacity
    BY <1>7, <1>8, <1>13, <1>17 DEF Capacity
  <2> QED BY <1>3, <1>5, <2>1 DEF Room
<1>19. Activation(env, "main", x, none, Finals, 0)
  <2>1. \A r : Keeps(Promise, x.ins, r) => Upon(none, r) \in Finals
    BY <1>13, <1>15, <1>16, Zenon
  <2> HIDE DEF x
  <2> QED BY <1>4, <1>12, <1>16, <1>17, <1>18, <2>1 DEF Activation
<1>20. PICK s : s = inputs
  OBVIOUS
<1>21. StateAt(x, none, at', group', s)
  <2>1. group'.left = 0 /\ at'.cell = 1
    BY <1>11 DEF NoGroup
  <2>2. s = Upon(none, x.cur)
    BY <1>13, <1>17, <1>20, Zenon
  <2> HIDE DEF x
  <2> QED BY <1>13, <2>1, <2>2 DEF StateAt
<1>22. Resumes(env, at', group', s, Finals, 0)
  <2>1. at'.word = "main"
    BY <1>11
  <2> HIDE DEF x
  <2> QED BY <1>19, <1>21, <2>1 DEF Resumes
<1>23. PICK fs : fs = frames'
  OBVIOUS
<1>24. fs = <<>> /\ Len(fs) = 0 /\ fs \in Seq(FrameSet)
  BY <1>11, <1>23, EmptySeq
<1>25. Linked(env, P, fs)
  <2>1. P \in [0..Len(fs) -> SUBSET Seq(Values)] /\ P[0] = Finals
    BY <1>24 DEF Finals
  <2> HIDE DEF P
  <2> QED BY <1>5, <1>24, <2>1 DEF Linked
<1>26. Chain(env, fs, at', group', s)
  <2>1. P[Len(fs)] = Finals
    BY <1>24
  <2> HIDE DEF P
  <2> QED BY <1>22, <1>24, <1>25, <2>1 DEF Chain
<1>27. Used(mem', sp') = s
  <2>1. SubSeq(inputs, 1, Len(inputs)) = inputs
    BY <1>8, SubSeqFull
  <2> QED BY <1>6, <1>20, <2>1, Zenon DEF Used
<1>28. Shaped(mem', sp', at', group', frames')
  <2>1. at' \in [word : Codes, cell : Int]
    BY <1>4, <1>11
  <2>2. mem' \in Seq(Values) /\ sp' \in 0..Len(mem')
    BY <1>6, <1>8
  <2>3. group' \in [left : Nat, tail : BOOLEAN]
    BY <1>11 DEF NoGroup
  <2> QED BY <1>23, <1>24, <2>1, <2>2, <2>3 DEF Shaped
<1>29. Chain(env, frames', at', group', Used(mem', sp'))
  BY <1>23, <1>26, <1>27, Zenon
<1>30. RunsWell(env, status', mem', sp', at', group', frames')
  BY <1>10, <1>28, <1>29 DEF RunsWell
<1> QED BY <1>1, <1>30

LEMMA MachineStepKeeps ==
  ASSUME MachineStep
  PROVE  UNCHANGED genVars
BY DEF MachineStep, StartRun, RunWild, RunStackWord, RunLiteral, RunBranch,
       RunZBranch, RunRecurse, RunInterp, CallInGroup, RunIfElse, RunReturn

LEMMA CompiledIsFinal ==
  ASSUME GenNext
  PROVE  phase # "compiled"
<1>1. CASE Next
  BY <1>1, NextPhases
<1>2. CASE GenStep
  BY <1>2 DEF GenStep, StartLayout, EraseUnreachable, LayoutNative, LayoutBranch,
              FollowChain, EndOfChain, LayoutInterp, StartEmission, EmitWord,
              EndEmission, AtWord
<1> QED BY <1>1, <1>2 DEF GenNext

LEMMA RunningStep ==
  ASSUME NEW CONSTANT env, Going(env), status = "running", MachineStep
  PROVE  RunsWell(env, status', mem', sp', at', group', frames')
<1>1. ~StartRun
  BY DEF StartRun
<1>2. CASE RunWild
  BY <1>2, WildNever
<1>3. CASE RunStackWord
  BY <1>3, StackWordStep
<1>4. CASE RunLiteral
  BY <1>4, LiteralStep
<1>5. CASE RunBranch
  BY <1>5, BranchStep
<1>6. CASE RunZBranch
  BY <1>6, ZBranchStep
<1>7. CASE RunRecurse
  BY <1>7, RecurseStep
<1>8. CASE RunInterp
  BY <1>8, InterpStep
<1>9. CASE CallInGroup
  BY <1>9, CallInGroupStep
<1>10. CASE RunIfElse
  BY <1>10, IfElseStep
<1>11. CASE RunReturn
  BY <1>11, ReturnStep
<1> QED BY <1>1, <1>2, <1>3, <1>4, <1>5, <1>6, <1>7, <1>8, <1>9, <1>10, <1>11
        DEF MachineStep

LEMMA OnlyRunningSteps ==
  ASSUME MachineStep
  PROVE  StartRun \/ status = "running"
BY DEF MachineStep, RunWild, RunStackWord, RunLiteral, RunBranch, RunZBranch,
       RunRecurse, RunInterp, CallInGroup, RunIfElse, RunReturn, Fetch, Running

\* What a run rests on, in every state
LEMMA RunInvInit ==
  ASSUME MachineInit
  PROVE  RunInv
BY CompilerAssumption DEF MachineInit, GenInit, CheckInit, Init, RunInv, MachineIdle, Vouched

LEMMA RunInvStep ==
  ASSUME effect \in StackEffect, CodeCertified, WordsKeepEffects, RunInv,
         MachineStep
  PROVE  RunInv'
<1>1. UNCHANGED genVars
  BY MachineStepKeeps
<1>2. Setting' = Setting /\ Vouched' = Vouched /\ phase' = phase
  BY <1>1, HereSame DEF genVars, vars, compilerVars
<1>3. StartRun \/ status = "running"
  BY OnlyRunningSteps
<1>4. phase = "compiled"
  BY <1>3 DEF RunInv, StartRun
<1>5. status' # "idle"
  BY <1>3 DEF MachineStep, StartRun, RunWild, RunStackWord, RunLiteral,
     RunBranch, RunZBranch, RunRecurse, RunInterp, CallInGroup, RunIfElse,
     RunReturn, Replace
<1>6. ASSUME Vouched
      PROVE  RunsWell(Setting, status', mem', sp', at', group', frames')
  <2>1. CASE StartRun
    <3>1. MachineIdle
      BY <2>1 DEF StartRun, RunInv
    <3> QED BY <1>6, <2>1, <3>1, StartStep
  <2>2. CASE status = "running"
    <3>1. PICK env : env = Setting
      OBVIOUS
    <3>2. RunsWell(env, status, mem, sp, at, group, frames)
      BY <1>6, <2>2, <3>1 DEF RunInv
    <3>3. Surrounds(env)
      BY <1>6, <3>1, SurroundsHere
    <3>4. Going(env)
      BY <2>2, <3>2, <3>3 DEF RunsWell, Going, Stack
    <3>5. RunsWell(env, status', mem', sp', at', group', frames')
      BY <2>2, <3>4, RunningStep
    <3> QED BY <3>1, <3>5
  <2> QED BY <1>3, <2>1, <2>2
<1>7. PICK env : env = Setting
  OBVIOUS
<1>8. ASSUME Vouched'
      PROVE  RunsWell(Setting', status', mem', sp', at', group', frames')
  <2>1. RunsWell(env, status', mem', sp', at', group', frames')
    BY <1>2, <1>6, <1>7, <1>8
  <2>2. Setting' = env
    BY <1>2, <1>7
  <2> QED BY <2>1, <2>2
<1> QED BY <1>2, <1>4, <1>5, <1>8 DEF RunInv

LEMMA RunInvKept ==
  ASSUME effect \in StackEffect, CodeCertified, WordsKeepEffects, RunInv,
         [MachineNext]_allVars
  PROVE  RunInv'
<1>1. CASE GenNext /\ UNCHANGED machineVars
  <2>1. phase # "compiled" /\ status = "idle" /\ MachineIdle
    BY <1>1, CompiledIsFinal DEF RunInv
  <2>2. status' = "idle" /\ MachineIdle'
    BY <1>1, <2>1 DEF machineVars, MachineIdle
  <2> QED BY <2>2 DEF RunInv
<1>2. CASE MachineStep
  BY <1>2, RunInvStep
<1>3. CASE UNCHANGED allVars
  <2>1. UNCHANGED genVars /\ UNCHANGED machineVars
    BY <1>3 DEF allVars
  <2>2. Setting' = Setting /\ Vouched' = Vouched /\ phase' = phase
    BY <2>1, HereSame DEF genVars, vars, compilerVars
  <2>3. PICK env : env = Setting
    OBVIOUS
  <2>4. UNCHANGED <<status, mem, sp, at, group, frames>>
    BY <2>1 DEF machineVars
  <2>5. MachineIdle' = MachineIdle
    BY <2>4 DEF MachineIdle
  <2>6. Vouched /\ status # "idle" =>
          RunsWell(env, status', mem', sp', at', group', frames')
    <3>1. Vouched /\ status # "idle" =>
            RunsWell(env, status, mem, sp, at, group, frames)
      BY <2>3 DEF RunInv
    <3> QED BY <2>4, <3>1
  <2>7. Vouched' /\ status' # "idle" =>
          RunsWell(Setting', status', mem', sp', at', group', frames')
    BY <2>2, <2>3, <2>4, <2>6
  <2> QED BY <2>2, <2>4, <2>5, <2>7 DEF RunInv
<1> QED BY <1>1, <1>2, <1>3 DEF MachineNext

-----------------------------------------------------------------------------
(* What the checker's items say of values *)

\* A quotation is a literal.
LEMMA NoQuote == NoLiteral \notin Quotes /\ Quotes \subseteq Literals
BY CompilerAssumption, LiteralsAssumption DEF Quotes

LEMMA CoversDescribed ==
  ASSUME NEW a \in Seq(Item), NEW b \in Seq(Item), Covers(b, a),
         NEW s, Described(a, s)
  PROVE  Described(b, s)
<1>1. Len(a) = Len(b)
  BY CoversLen
<1>2. Len(s) = Len(a) /\ \A k \in 1..Len(s) : Describes(a[k], s[k])
  BY DEF Described
<1>3. ASSUME NEW k \in 1..Len(s) PROVE Describes(b[k], s[k])
  <2>1. k \in DOMAIN a
    BY <1>2
  <2>2. ItemCovers(b[k], a[k])
    BY <2>1 DEF Covers
  <2>3. Describes(a[k], s[k])
    BY <1>2
  <2>4. CASE a[k] = b[k]
    BY <2>3, <2>4
  <2>5. CASE b[k].lit = NoLiteral /\ a[k].types \subseteq b[k].types
    BY <2>3, <2>5, NoQuote DEF Describes
  <2> QED BY <2>2, <2>4, <2>5 DEF ItemCovers
<1> QED BY <1>1, <1>2, <1>3 DEF Described

LEMMA AfterCells ==
  ASSUME NEW s \in Seq(Values), NEW n \in 0..Len(s), NEW r \in Seq(Values)
  PROVE  /\ Upon(Below(s, n), r) \in Seq(Values)
         /\ Len(Upon(Below(s, n), r)) = Len(s) - n + Len(r)
         /\ \A k \in 1..(Len(s) - n) : Upon(Below(s, n), r)[k] = s[k]
         /\ \A k \in 1..Len(r) : Upon(Below(s, n), r)[Len(s) - n + k] = r[k]
         /\ Args(s, n) \in Seq(Values) /\ Len(Args(s, n)) = n
         /\ \A k \in 1..n : Args(s, n)[k] = s[Len(s) - n + k]
<1>1. PICK b : b = Below(s, n)
  OBVIOUS
<1>2. /\ b \in Seq(Values) /\ Len(b) = Len(s) - n
      /\ \A k \in 1..(Len(s) - n) : b[k] = s[k]
  BY <1>1 DEF Below
<1>3. /\ Args(s, n) \in Seq(Values) /\ Len(Args(s, n)) = n
      /\ \A k \in 1..n : Args(s, n)[k] = s[Len(s) - n + k]
  BY DEF Args
<1>4. /\ Upon(b, r) \in Seq(Values)
      /\ Len(Upon(b, r)) = Len(b) + Len(r)
      /\ \A k \in 1..Len(b) : Upon(b, r)[k] = b[k]
      /\ \A k \in 1..Len(r) : Upon(b, r)[Len(b) + k] = r[k]
  BY <1>2, UponCells
<1>5. PICK t : t = Upon(b, r)
  OBVIOUS
<1>6. /\ t \in Seq(Values)
      /\ Len(t) = Len(s) - n + Len(r)
      /\ \A k \in 1..(Len(s) - n) : t[k] = s[k]
      /\ \A k \in 1..Len(r) : t[Len(s) - n + k] = r[k]
  BY <1>2, <1>4, <1>5
<1> QED BY <1>1, <1>3, <1>5, <1>6

LEMMA SeqWithin ==
  ASSUME NEW S, NEW R, NEW s \in Seq(R), \A k \in 1..Len(s) : s[k] \in S
  PROVE  s \in Seq(S)
<1>1. PICK n \in Nat : s \in [1..n -> R] /\ Len(s) = n
  OBVIOUS
<1>2. s \in [1..n -> S]
  BY <1>1
<1> QED BY <1>1, <1>2

\* A call of effect e leaves n of the items, and the items of its outputs.
LeavesItems(e, items, n, new) ==
  /\ n \in Nat /\ Len(e.ins) \in 0..Len(items)
  /\ new \in Seq(Item)
  /\ Len(new) = n + Len(e.outs)
  /\ \A k \in 1..n : new[k] = items[k]
  /\ \A k \in 1..Len(e.outs) :
       new[n + k] = IF e.outs[k].match = 0
                      THEN TypeItem(e.outs[k].types)
                      ELSE FromTop(items, e.outs[k].match - 1)

LEMMA ItemsAfterCells ==
  ASSUME NEW e \in StackEffect, NEW items \in Seq(Item), Accepts(e, items),
         NEW n, n = Len(items) - Len(e.ins)
  PROVE  LeavesItems(e, items, n, ItemsAfter(e, items))
<1>1. Len(e.ins) \in Nat /\ Len(e.outs) \in Nat /\ e.outs \in Seq(Output)
  BY EffectFields
<1>2. Len(e.ins) \in 0..Len(items) /\ n \in 0..Len(items)
  BY <1>1 DEF Accepts
<1>3. /\ ItemsAfter(e, items) \in Seq(Item)
      /\ Len(ItemsAfter(e, items)) = n + Len(e.outs)
  BY <1>1, <1>2, ItemsAfterOK
<1> DEFINE el(k) == IF e.outs[k].match = 0
                      THEN TypeItem(e.outs[k].types)
                      ELSE FromTop(items, e.outs[k].match - 1)
<1>4. PICK b : b = SubSeq(items, 1, n)
  OBVIOUS
<1>5. b \in Seq(Item) /\ Len(b) = n /\ \A k \in 1..n : b[k] = items[k]
  <2>1. n \in 0..Len(items) /\ Len(items) \in Nat
    BY <1>2
  <2>2. \A m \in 0..Len(items) :
          LET c == SubSeq(items, 1, m)
          IN  c \in Seq(Item) /\ Len(c) = m /\ \A k \in 1..m : c[k] = items[k]
    OBVIOUS
  <2> QED BY <1>4, <2>1, <2>2
<1>6. PICK a : a = [k \in DOMAIN e.outs |-> el(k)]
  OBVIOUS
<1>7. ItemsAfter(e, items) = b \o a
  BY <1>4, <1>6 DEF ItemsAfter
<1>8. DOMAIN e.outs = 1..Len(e.outs)
  BY <1>1
<1> HIDE DEF el
<1>9. /\ DOMAIN a = 1..Len(e.outs)
      /\ \A k \in 1..Len(e.outs) : a[k] = el(k)
  BY <1>6, <1>8
<1>10. a \in Seq({el(k) : k \in DOMAIN e.outs}) /\ Len(a) = Len(e.outs)
  BY <1>1, <1>6, <1>8
<1> DEFINE S == Item \cup {el(k) : k \in DOMAIN e.outs}
<1>11. a \in Seq(S) /\ b \in Seq(S)
  <2>1. \A k \in 1..Len(a) : a[k] \in S
    BY <1>9, <1>10, <1>8
  <2>2. \A k \in 1..Len(b) : b[k] \in S
    BY <1>5
  <2> HIDE DEF S
  <2>3. a \in Seq(S)
    BY <1>10, <2>1, SeqWithin
  <2>4. b \in Seq(S)
    BY <1>5, <2>2, SeqWithin
  <2> QED BY <2>3, <2>4
<1> HIDE DEF S
<1>12. /\ n \in Nat /\ Len(b) = n /\ Len(e.outs) \in Nat
       /\ Len(a) = Len(e.outs)
  BY <1>1, <1>2, <1>5, <1>10
<1>13. \A k \in 1..n : (b \o a)[k] = b[k]
  <2> SUFFICES ASSUME NEW k \in 1..n PROVE (b \o a)[k] = b[k]
    OBVIOUS
  <2>1. k \in 1..(Len(b) + Len(a)) /\ k <= Len(b)
    BY <1>12
  <2> QED BY <1>11, <2>1, ConcatProperties
<1>14. \A k \in 1..Len(e.outs) : (b \o a)[n + k] = a[k]
  <2> SUFFICES ASSUME NEW k \in 1..Len(e.outs) PROVE (b \o a)[n + k] = a[k]
    OBVIOUS
  <2>1. \A x, y \in Nat : \A j \in 1..y :
          x + j \in 1..(x + y) /\ ~(x + j <= x) /\ x + j - x = j
    OBVIOUS
  <2>2. /\ n + k \in 1..(n + Len(e.outs)) /\ ~(n + k <= n) /\ n + k - n = k
    BY <1>12, <2>1
  <2>3. PICK i : i = n + k
    OBVIOUS
  <2>4. i \in 1..(Len(b) + Len(a)) /\ ~(i <= Len(b)) /\ i - Len(b) = k
    BY <1>12, <2>2, <2>3
  <2>5. (b \o a)[i] = IF i <= Len(b) THEN b[i] ELSE a[i - Len(b)]
    BY <1>11, <2>4, ConcatProperties
  <2> QED BY <2>3, <2>4, <2>5
<1>15. \A k \in 1..n : ItemsAfter(e, items)[k] = items[k]
  BY <1>5, <1>7, <1>13
<1>16. \A k \in 1..Len(e.outs) : ItemsAfter(e, items)[n + k] = el(k)
  BY <1>7, <1>9, <1>14
<1>17. n \in Nat
  BY <1>12
<1>18. PICK new : new = ItemsAfter(e, items)
  OBVIOUS
<1>19. /\ new \in Seq(Item) /\ Len(new) = n + Len(e.outs)
       /\ \A k \in 1..n : new[k] = items[k]
       /\ \A k \in 1..Len(e.outs) : new[n + k] = el(k)
  BY <1>3, <1>15, <1>16, <1>18
<1>20. LeavesItems(e, items, n, new)
  BY <1>2, <1>17, <1>19 DEF LeavesItems, el
<1> QED BY <1>18, <1>20

-----------------------------------------------------------------------------
(* Recursion in the code compiled *)

(***************************************************************************)
(* RECURSE leads to the start, also after the chain of branches from there *)
(* was followed, and its use is flagged.                                   *)
(***************************************************************************)
RecursionInv ==
  /\ Recurses(words)
  /\ \A i \in DOMAIN pcOf : words[i].word = "_RECURSE" => recursive
  /\ chase # 0 /\ words[pos].word = "_RECURSE" => recursive /\ chase = 1

LEMMA RecursionInit == GenInit => RecursionInv
<1> SUFFICES ASSUME GenInit PROVE RecursionInv
  OBVIOUS
<1>1. words = <<Placeholder>> /\ pcOf = NothingKnown /\ chase = 0
  BY DEF GenInit, CheckInit, Init
<1>2. Placeholder.word = "NOP"
  BY DEF Placeholder, NewSourceWord, Ref
<1>3. DOMAIN words = {1} /\ words[1] = Placeholder /\ DOMAIN pcOf = {}
  BY <1>1 DEF NothingKnown
<1> QED BY <1>1, <1>2, <1>3 DEF RecursionInv, Recurses, RecursesBut

LEMMA RecursionKept ==
  ASSUME InlinesAreStraight, GenInv, RecursionInv, [GenNext]_genVars
  PROVE  RecursionInv'
<1>1. ASSUME UNCHANGED <<words, pos, chase, pcOf, recursive>>
      PROVE  RecursionInv'
  BY <1>1 DEF RecursionInv, Recurses, RecursesBut
<1>2. CASE UNCHANGED genVars
  BY <1>1, <1>2 DEF genVars, vars, compilerVars, layoutVars
<1>3. CASE Next /\ UNCHANGED <<layoutVars, instrs>>
  <2>1. phase \in {"parsing", "checking"}
    BY <1>3, NextPhases
  <2>2. NotStarted /\ ListsOK
    BY <2>1 DEF GenInv, BeforeLayout, CheckLists
  <2>3. Recurses(words)'
    <3>1. CASE ParseNext
      BY <2>2, <3>1, ParseKeepsRecurses DEF RecursionInv
    <3>2. CASE CheckStep
      <4>1. words' = words \/ words' = <<>>
        BY <3>2, CheckKeepsWords
      <4> QED BY <4>1 DEF RecursionInv, Recurses, RecursesBut
    <3> QED BY <1>3, <3>1, <3>2 DEF Next
  <2>4. DOMAIN pcOf' = {} /\ chase' = 0
    BY <1>3, <2>2 DEF layoutVars, NotStarted, NothingKnown
  <2> QED BY <2>3, <2>4 DEF RecursionInv
<1>4. CASE GenStep
  <2>1. CASE StartLayout
    <3>1. phase = "checked"
      BY <2>1 DEF StartLayout
    <3>2. NotStarted
      BY <3>1 DEF GenInv, BeforeLayout
    <3>3. words' = words /\ DOMAIN pcOf' = {} /\ chase' = 0
      BY <2>1, <3>2 DEF StartLayout, NotStarted, NothingKnown
    <3> QED BY <3>3 DEF RecursionInv
  <2>2. CASE StartEmission \/ EmitWord \/ EndEmission
    <3>1. UNCHANGED <<words, chase, pcOf, recursive>>
      BY <2>2 DEF StartEmission, EmitWord, EndEmission, layoutVars, vars,
                  compilerVars
    <3>2. chase = 0 \/ phase = "emitting"
      BY <2>2 DEF StartEmission, EmitWord, EndEmission
    <3>3. ASSUME phase = "emitting", chase # 0 PROVE pos' = pos
      <4>1. LayoutShape(Len(words) + 1)
        BY <3>3 DEF GenInv, Emission, Laid
      <4>2. Len(words) + 1 \in DOMAIN words
        BY <3>3, <4>1 DEF LayoutShape
      <4>3. Len(words) \in Nat /\ DOMAIN words = 1..Len(words)
        BY <4>1, ShapeFacts
      <4> QED BY <4>2, <4>3
    <3>4. chase # 0 => pos' = pos
      BY <3>2, <3>3
    <3> QED BY <3>1, <3>4 DEF RecursionInv, Recurses, RecursesBut
  <2>3. CASE phase = "layout"
    <3>1. /\ LayoutShape(pos) /\ BranchWords
      BY <2>3 DEF GenInv, Laid, Coded
    <3>2. /\ words \in Seq(SourceWord) /\ DOMAIN words = 1..Len(words)
          /\ Len(words) \in Nat /\ Len(words) >= 1
      BY <3>1, ShapeFacts
    <3>3. DOMAIN pcOf \subseteq DOMAIN words
      <4>1. pos \in 1..(Len(words) + 1) /\ DOMAIN pcOf \subseteq 1..(pos - 1)
        BY <3>1 DEF LayoutShape
      <4> QED BY <3>2, <4>1
    <3>4. \A i \in DOMAIN words :
            words[i].word = "_RECURSE" => words[i].branchTo = 1
      BY <3>2 DEF RecursionInv, Recurses, RecursesBut
    <3>5. CASE EraseUnreachable
      <4>1. UNCHANGED <<words, chase, pcOf, recursive>> /\ chase = 0
        BY <3>5 DEF EraseUnreachable, AtWord, vars, compilerVars
      <4> QED BY <4>1 DEF RecursionInv, Recurses, RecursesBut
    <3>6. CASE LayoutNative
      <4>1. /\ UNCHANGED <<words, chase, recursive>> /\ chase = 0
            /\ pos \in DOMAIN words /\ words[pos].branchTo = 0
            /\ pcOf' = Updated(pcOf, pos, pc)
        BY <3>1, <3>2, <3>6 DEF LayoutNative, AtWord, NativeDone, vars,
           compilerVars, LayoutShape
      <4>2. DOMAIN pcOf' = DOMAIN pcOf \cup {pos}
        BY <4>1, UpdatedDomain
      <4>3. words[pos].word # "_RECURSE"
        BY <3>4, <4>1
      <4> QED BY <4>1, <4>2, <4>3 DEF RecursionInv, Recurses, RecursesBut
    <3>7. CASE LayoutInterp
      <4>1. /\ UNCHANGED <<words, chase, recursive>> /\ chase = 0
            /\ ~IsNative(words[pos].word)
            /\ pcOf' = Updated(pcOf, pos, pc)
        BY <3>7 DEF LayoutInterp, AtWord, vars, compilerVars
      <4>2. DOMAIN pcOf' = DOMAIN pcOf \cup {pos}
        BY <4>1, UpdatedDomain
      <4>3. words[pos].word # "_RECURSE"
        BY <4>1, CompilerAssumption DEF IsNative, SpecialWords
      <4> QED BY <4>1, <4>2, <4>3 DEF RecursionInv, Recurses, RecursesBut
    <3>8. CASE LayoutBranch
      <4>1. /\ UNCHANGED <<pos, pcOf>> /\ chase' = words[pos].branchTo
            /\ words' = IF TailRecursion(words, pos)
                          THEN [words EXCEPT ![pos].word = "_BRANCH"] ELSE words
            /\ recursive' = (recursive \/ NeedsCStack(words'[pos].word))
            /\ pos \in DOMAIN words
        BY <3>1, <3>2, <3>8 DEF LayoutBranch, AtWord, LayoutShape
      <4>2. CASE words' = words
        <5>1. words[pos].word = "_RECURSE" => recursive' /\ chase' = 1
          BY <3>4, <4>1, <4>2 DEF NeedsCStack
        <5> QED BY <4>1, <4>2, <5>1 DEF RecursionInv, Recurses, RecursesBut
      <4>3. CASE TailRecursion(words, pos)
        <5>1. words[pos].word = "_RECURSE" /\ words[pos].branchTo # 0
          BY <3>8, <4>3 DEF LayoutBranch, TailRecursion
        <5>2. words' = MakeBranch(words, pos)
          BY <4>1, <4>3 DEF MakeBranch
        <5>3. /\ DOMAIN words' = DOMAIN words /\ words'[pos].word = "_BRANCH"
              /\ \A i \in DOMAIN words :
                   /\ words'[i].branchTo = words[i].branchTo
                   /\ i # pos => words'[i].word = words[i].word
          BY <3>1, <4>1, <5>1, <5>2, MadeBranch DEF LayoutShape
        <5>4. Recurses(words')
          BY <3>4, <5>3 DEF Recurses, RecursesBut
        <5>5. \A i \in DOMAIN pcOf' :
                words'[i].word = "_RECURSE" => words[i].word = "_RECURSE"
          BY <3>3, <4>1, <5>3
        <5>6. \A i \in DOMAIN pcOf' : words'[i].word = "_RECURSE" => recursive'
          BY <4>1, <5>5 DEF RecursionInv
        <5>7. words'[pos'].word # "_RECURSE"
          BY <4>1, <5>3
        <5> QED BY <5>4, <5>6, <5>7 DEF RecursionInv
      <4> QED BY <4>1, <4>2, <4>3
    <3>9. CASE FollowChain
      <4>1. /\ UNCHANGED <<words, pos, pcOf, recursive>>
            /\ chase # 0 /\ words[chase].word = "_BRANCH"
            /\ chase' = words[chase].branchTo
        BY <3>9 DEF FollowChain, NextInChain, vars, compilerVars
      <4>2. words[1].word = "_BRANCH" => words[1].branchTo = 1
        BY <3>1 DEF BranchWords
      <4> QED BY <4>1, <4>2 DEF RecursionInv, Recurses, RecursesBut
    <3>10. CASE EndOfChain
      <4>1. /\ UNCHANGED recursive /\ chase # 0 /\ chase' = 0
            /\ words' = [words EXCEPT ![pos].branchTo = chase]
            /\ pcOf' = Updated(pcOf, pos, pc)
            /\ pos \in DOMAIN words
        BY <3>1, <3>10 DEF EndOfChain, NativeDone, LayoutShape
      <4>2. DOMAIN pcOf' = DOMAIN pcOf \cup {pos}
        BY <4>1, UpdatedDomain
      <4>3. /\ DOMAIN words' = DOMAIN words
            /\ words'[pos].word = words[pos].word /\ words'[pos].branchTo = chase
            /\ \A i \in DOMAIN words : i # pos => words'[i] = words[i]
        BY <3>2, <4>1 DEF SourceWord
      <4> QED BY <3>3, <3>4, <4>1, <4>2, <4>3 DEF RecursionInv, Recurses, RecursesBut
    <3>11. ~StartEmission => ~(EmitWord \/ EndEmission)
      BY <2>3 DEF EmitWord, EndEmission
    <3> QED BY <1>4, <2>1, <2>2, <3>5, <3>6, <3>7, <3>8, <3>9, <3>10 DEF GenStep
  <2>4. phase # "layout" => StartLayout \/ EmitWord \/ EndEmission
    BY <1>4 DEF GenStep, EraseUnreachable, LayoutNative, LayoutBranch, FollowChain,
       EndOfChain, LayoutInterp, StartEmission, AtWord
  <2> QED BY <1>4, <2>1, <2>2, <2>3, <2>4
<1> QED BY <1>2, <1>3, <1>4 DEF GenNext

-----------------------------------------------------------------------------
(* Where the code is *)

\* What is known of the code when it is complete
LEMMA FinalFacts ==
  ASSUME GenInv, phase = "compiled"
  PROVE  /\ LayoutShape(Len(words) + 1) /\ LayoutTargets(Len(words) + 1)
         /\ Coded(Len(words) + 1) /\ Emitted /\ CodeMatchesList
         /\ ~canAddInputs => StillFixed
         /\ effect \in StackEffect /\ Finished(words)
         /\ Len(words) \in Nat /\ Len(words) >= 1 /\ DOMAIN words = 1..Len(words)
         /\ Live = DOMAIN words \ erased /\ Live = DOMAIN pcOf
         /\ DOMAIN interpWord \subseteq Live
         /\ \A i \in Live : i \in Nat /\ EmittedAt(i) /\ pcOf[i] \in Nat
         /\ instrs \in Seq(Instruction)
<1> DEFINE n == Len(words)
<1>1. /\ Laid(n + 1) /\ pos = n + 1 /\ Emitted
  BY DEF GenInv, Emission
<1>2. LayoutShape(n + 1) /\ LayoutTargets(n + 1) /\ Coded(n + 1) /\ LayoutFixed(n + 1)
  BY <1>1 DEF Laid
<1>3. n \in Nat /\ n >= 1 /\ DOMAIN words = 1..n
  BY <1>2, ShapeFacts
<1>4. (n + 1) - 1 = n
  BY <1>3
<1>5. DOMAIN pcOf = DOMAIN words \ erased
  BY <1>2, <1>3, <1>4 DEF LayoutShape
<1>6. \A i \in DOMAIN pcOf : i \in Nat /\ pcOf[i] \in Nat
  BY <1>2, CodedPcs
<1>7. \A i \in DOMAIN pcOf : EmittedAt(i)
  BY <1>1, <1>3, <1>4, <1>5 DEF Emitted
<1>8. CodeMatchesList
  BY <1>1, <1>2, EmittedMatches
<1>9. instrs \in Seq(Instruction)
  BY <1>1 DEF Emitted
<1>10. effect \in StackEffect /\ Finished(words) /\ DOMAIN interpWord \subseteq DOMAIN pcOf
  BY <1>2 DEF LayoutShape
<1>11. ~canAddInputs => StillFixed
  BY <1>2 DEF LayoutFixed
<1> QED BY <1>1, <1>2, <1>3, <1>5, <1>6, <1>7, <1>8, <1>9, <1>10, <1>11 DEF Live

\* The words start one after the other.
LEMMA StartsInOrder ==
  ASSUME GenInv, phase = "compiled"
  PROVE  \E start : /\ start \in [Nat -> Nat]
                    /\ start[Len(words) + 1] = Len(instrs)
                    /\ \A i \in 1..Len(words) : start[i + 1] = start[i] + Size(i)
                    /\ \A i \in Live : pcOf[i] = start[i]
<1> DEFINE n == Len(words)
<1>1. Emitted /\ Live = DOMAIN pcOf /\ n \in Nat
  BY FinalFacts
<1>2. pos = n + 1
  BY DEF GenInv, Emission
<1>3. PICK start : PlacedBy(start, n + 1) /\ Len(instrs) = start[n + 1]
  BY <1>1, <1>2 DEF Emitted
<1>4. (n + 1) - 1 = n
  BY <1>1
<1> QED BY <1>1, <1>3, <1>4 DEF PlacedBy

LEMMA Sizes ==
  ASSUME GenInv, phase = "compiled"
  PROVE  /\ \A i \in DOMAIN words : Size(i) \in Nat
         /\ \A i \in Live : Size(i) >= 1 /\ Size(i) \in {1, 2}
         /\ \A i \in Live : IsNative(words[i].word) =>
              Size(i) = Parameters(words[i].word) + 1
<1>1. \A w : Parameters(w) \in {0, 1}
  BY DEF Parameters
<1>2. \A i : Size(i) \in Nat
  BY <1>1 DEF Size
<1>3. \A i \in Live : i \notin erased
  BY DEF Live
<1> QED BY <1>1, <1>2, <1>3 DEF Size

\* The next word starts where this one ends.
LEMMA NextStart ==
  ASSUME GenInv, phase = "compiled", NEW i \in Live, i + 1 \in Live
  PROVE  StartOf(i + 1) = StartOf(i) + Size(i)
<1>1. PICK start : /\ start \in [Nat -> Nat]
                   /\ \A j \in 1..Len(words) : start[j + 1] = start[j] + Size(j)
                   /\ \A j \in Live : pcOf[j] = start[j]
  BY StartsInOrder
<1>2. i \in 1..Len(words) /\ i \in DOMAIN words /\ i \in Nat
  BY FinalFacts
<1>3. start[i + 1] = start[i] + Size(i) /\ pcOf[i] = start[i] /\ pcOf[i + 1] = start[i + 1]
  BY <1>1, <1>2
<1>4. Size(i) \in Nat /\ start[i] \in Nat
  BY <1>1, <1>2, Sizes
<1> QED BY <1>3, <1>4 DEF StartOf

\* No two words start at the same place.
LEMMA StartsApart ==
  ASSUME GenInv, phase = "compiled", NEW i \in Live, NEW j \in Live, i < j
  PROVE  StartOf(i) < StartOf(j)
<1> DEFINE n == Len(words)
<1>1. PICK start : /\ start \in [Nat -> Nat]
                   /\ \A k \in 1..n : start[k + 1] = start[k] + Size(k)
                   /\ \A k \in Live : pcOf[k] = start[k]
  BY StartsInOrder
<1>2. /\ n \in Nat /\ i \in 1..n /\ j \in 1..n /\ DOMAIN words = 1..n
  BY FinalFacts DEF Live
<1> HIDE DEF n
<1> DEFINE T == {k \in Nat : start[i] < start[k]}
<1>3. Size(i) >= 1 /\ Size(i) \in Nat
  BY <1>2, Sizes
<1>4. i + 1 \in T
  <2>1. start[i + 1] = start[i] + Size(i) /\ start[i] \in Nat /\ i + 1 \in Nat
    BY <1>1, <1>2
  <2> QED BY <1>3, <2>1
<1>5. \A k \in (i + 1)..(j - 1) : k \in T => k + 1 \in T
  <2> SUFFICES ASSUME NEW k \in (i + 1)..(j - 1), k \in T PROVE k + 1 \in T
    OBVIOUS
  <2>1. k \in 1..n
    BY <1>2
  <2>2. start[k + 1] = start[k] + Size(k) /\ Size(k) \in Nat
    BY <1>1, <1>2, <2>1, Sizes
  <2>3. start[k] \in Nat /\ start[i] \in Nat /\ k + 1 \in Nat
    BY <1>1, <1>2, <2>1
  <2> QED BY <2>2, <2>3
<1>6. i + 1 \in Nat /\ j \in Nat /\ j \in (i + 1)..j
  BY <1>2
<1>7. j \in T
  <2> HIDE DEF T
  <2> QED BY <1>4, <1>5, <1>6, Induction
<1>8. start[i] \in Nat /\ start[j] \in Nat /\ start[i] < start[j]
  BY <1>1, <1>2, <1>7
<1>9. StartOf(i) = start[i] + 1 /\ StartOf(j) = start[j] + 1
  BY <1>1 DEF StartOf
<1> QED BY <1>8, <1>9

\* If the code ends with RETURN, the RETURN of the list is in it.
LEMMA LastIsLive ==
  ASSUME GenInv, phase = "compiled", Complete
  PROVE  Len(words) \in Live
<1> DEFINE n == Len(words)
<1>1. /\ n \in Nat /\ n >= 1 /\ DOMAIN words = 1..n /\ Live \subseteq 1..n
      /\ Live = DOMAIN words \ erased /\ instrs \in Seq(Instruction)
      /\ LayoutTargets(n + 1) /\ LayoutShape(n + 1) /\ Coded(n + 1)
  BY FinalFacts
<1> SUFFICES ASSUME n \notin Live PROVE FALSE
  OBVIOUS
<1>2. PICK start : /\ start \in [Nat -> Nat]
                   /\ start[n + 1] = Len(instrs)
                   /\ \A i \in 1..n : start[i + 1] = start[i] + Size(i)
                   /\ \A i \in Live : pcOf[i] = start[i]
  BY StartsInOrder
<1>3. 1 \in Live
  BY <1>1 DEF LayoutTargets
<1>4. PICK g \in Live : \A i \in Live : i <= g
  <2>1. Live \in SUBSET (1..n) /\ Live # {}
    BY <1>1, <1>3
  <2> QED BY <1>1, <2>1, GreatestBelow
<1>5. g \in 1..n /\ g # n
  BY <1>1, <1>4
<1> HIDE DEF n
<1>6. \A i \in (g + 1)..n : i \in DOMAIN words /\ i \in erased /\ Size(i) = 0
  <2> SUFFICES ASSUME NEW i \in (g + 1)..n
               PROVE  i \in DOMAIN words /\ i \in erased /\ Size(i) = 0
    OBVIOUS
  <2>1. i \in 1..n /\ ~(i <= g)
    BY <1>1, <1>5
  <2>2. i \in erased
    BY <1>1, <1>4, <2>1
  <2> QED BY <1>1, <2>1, <2>2 DEF Size
<1> DEFINE T == {i \in Nat : start[i] = start[g + 1]}
<1>7. g + 1 \in T /\ n + 1 \in (g + 1)..(n + 1) /\ g + 1 \in Nat /\ n + 1 \in Nat
  BY <1>1, <1>5
<1>8. \A i \in (g + 1)..((n + 1) - 1) : i \in T => i + 1 \in T
  <2> SUFFICES ASSUME NEW i \in (g + 1)..((n + 1) - 1), i \in T PROVE i + 1 \in T
    OBVIOUS
  <2>1. i \in (g + 1)..n /\ i \in 1..n /\ i + 1 \in Nat
    BY <1>1, <1>5
  <2>2. start[i + 1] = start[i] + 0 /\ start[i] \in Nat
    BY <1>2, <1>6, <2>1
  <2> QED BY <2>1, <2>2
<1>9. n + 1 \in T
  <2> HIDE DEF T
  <2> QED BY <1>7, <1>8, Induction
<1>10. Len(instrs) = start[g + 1]
  BY <1>2, <1>9
<1>11. words[g].word = "_BRANCH"
  <2>1. g + 1 \in erased
    BY <1>1, <1>5, <1>6
  <2> QED BY <1>1, <1>4, <2>1 DEF LayoutTargets
<1>12. Size(g) = 2
  <2>1. IsNative(words[g].word) /\ Parameters(words[g].word) = 1
    BY <1>11, CompilerAssumption DEF IsNative, Parameters, SpecialWords
  <2> QED BY <1>4, <2>1, Sizes
<1>13. Len(instrs) = pcOf[g] + 2 /\ pcOf[g] \in Nat
  <2>1. start[g + 1] = start[g] + 2 /\ pcOf[g] = start[g] /\ start[g] \in Nat
    BY <1>2, <1>4, <1>5, <1>12
  <2> QED BY <1>10, <2>1
<1>14. \E wild \in WildOffsets : instrs[pcOf[g] + 2] = Cells(g, wild)[2]
  <2>1. EmittedAt(g)
    BY FinalFacts
  <2> QED BY <1>12, <2>1 DEF EmittedAt
<1>15. PICK wild \in WildOffsets : instrs[Len(instrs)] = Cells(g, wild)[2]
  BY <1>13, <1>14
<1>16. Cells(g, wild)[2] = ParameterCell(g, wild)
  <2>1. IsNative(words[g].word) /\ Parameters(words[g].word) # 0 /\ g \notin erased
    BY <1>1, <1>4, <1>11, CompilerAssumption DEF IsNative, Parameters, SpecialWords
  <2>2. Cells(g, wild) = <<OpCell(words[g].word), ParameterCell(g, wild)>>
    BY <2>1 DEF Cells
  <2> QED BY <2>2
<1>17. ParameterCell(g, wild).kind # "op"
  BY <1>11 DEF ParameterCell, OffsetCell
<1>18. instrs[Len(instrs)].kind = "op"
  BY DEF Complete, OpCell
<1> QED BY <1>15, <1>16, <1>17, <1>18

\* Where the word at i is in the code, and what is there
LEMMA CodeOfWord ==
  ASSUME GenInv, phase = "compiled", NEW i \in Live
  PROVE  /\ StartOf(i) \in DOMAIN instrs /\ StartOf(i) \in Nat
         /\ CellOf(i) \in DOMAIN instrs /\ CellOf(i) \in Nat
         /\ IsNative(words[i].word) =>
              /\ i \notin DOMAIN interpWord
              /\ instrs[StartOf(i)] = OpCell(words[i].word)
         /\ words[i].word = "_LITERAL" =>
              instrs[StartOf(i) + 1] = LiteralCell(words[i].lit)
         /\ i \in DOMAIN interpWord =>
              /\ ~IsNative(words[i].word)
              /\ instrs[StartOf(i)] =
                   InterpCell(interpWord[i].count, interpWord[i].tail)
         /\ ~IsNative(words[i].word) =>
              /\ instrs[CellOf(i)] = WordCell(words[i].word)
              /\ CellOf(i) + 1 = StartOf(i) + Size(i)
<1>1. /\ i \in DOMAIN words \ erased /\ EmittedAt(i) /\ pcOf[i] \in Nat
      /\ instrs \in Seq(Instruction)
      /\ LayoutShape(Len(words) + 1) /\ LayoutTargets(Len(words) + 1)
      /\ Coded(Len(words) + 1)
  BY FinalFacts
<1>2. Size(i) >= 1 /\ Size(i) \in {1, 2}
  BY Sizes
<1>3. PICK p : p = pcOf[i]
  OBVIOUS
<1>4. p \in Nat /\ p + Size(i) <= Len(instrs) /\ DOMAIN instrs = 1..Len(instrs)
      /\ Len(instrs) \in Nat
  BY <1>1, <1>3 DEF EmittedAt
<1>5. StartOf(i) = p + 1
  BY <1>3 DEF StartOf
<1>6. i \in DOMAIN interpWord => Size(i) = 2 /\ ~IsNative(words[i].word)
  <2>1. IsNative(words[i].word) => i \notin DOMAIN interpWord
    BY <1>1, EmittedCells
  <2> QED BY <1>1, <2>1 DEF Size
<1>7. ~IsNative(words[i].word) /\ i \notin DOMAIN interpWord => Size(i) = 1
  BY <1>1 DEF Size
<1>8. CellOf(i) = IF i \in DOMAIN interpWord THEN p + 2 ELSE p + 1
  BY <1>4, <1>5 DEF CellOf
<1>9. /\ StartOf(i) \in DOMAIN instrs /\ StartOf(i) \in Nat
      /\ CellOf(i) \in DOMAIN instrs /\ CellOf(i) \in Nat
  BY <1>2, <1>4, <1>5, <1>6, <1>8
<1>10. ~IsNative(words[i].word) => CellOf(i) + 1 = StartOf(i) + Size(i)
  BY <1>4, <1>5, <1>6, <1>7, <1>8
<1>11. /\ IsNative(words[i].word) =>
            /\ i \notin DOMAIN interpWord
            /\ instrs[p + 1] = OpCell(words[i].word)
       /\ ~IsNative(words[i].word) =>
            IF i \in DOMAIN interpWord
              THEN /\ instrs[p + 1] =
                        InterpCell(interpWord[i].count, interpWord[i].tail)
                   /\ instrs[p + 2] = WordCell(words[i].word)
              ELSE instrs[p + 1] = WordCell(words[i].word)
  BY <1>1, <1>3, EmittedCells
<1>12. ASSUME words[i].word = "_LITERAL"
       PROVE  instrs[p + 2] = LiteralCell(words[i].lit)
  <2>1. IsNative(words[i].word) /\ Parameters(words[i].word) = 1
    BY <1>12, CompilerAssumption DEF IsNative, Parameters, SpecialWords
  <2>2. Size(i) = 2
    BY <2>1, Sizes
  <2>3. PICK wild : instrs[p + 2] = Cells(i, wild)[2]
    BY <1>1, <1>3, <2>2 DEF EmittedAt
  <2>4. Cells(i, wild) = <<OpCell(words[i].word), ParameterCell(i, wild)>>
    BY <1>1, <2>1 DEF Cells
  <2>5. ParameterCell(i, wild) = LiteralCell(words[i].lit)
    BY <1>12 DEF ParameterCell
  <2> QED BY <2>3, <2>4, <2>5
<1>13. StartOf(i) + 1 = p + 2
  BY <1>4, <1>5
<1> QED BY <1>5, <1>6, <1>8, <1>9, <1>10, <1>11, <1>12, <1>13

\* The calls of a group follow one another.
LEMMA GroupFacts ==
  ASSUME GenInv, phase = "compiled", NEW h \in DOMAIN interpWord
  PROVE  /\ h \in Nat /\ interpWord[h].count \in Nat /\ interpWord[h].count >= 1
         /\ interpWord[h].tail \in BOOLEAN
         /\ h \in Members(h) /\ h \in Live
         /\ interpWord[h].tail = ReturnsImmediately(words, h + interpWord[h].count)
         /\ \A m \in Members(h) :
              /\ m \in Live /\ ~IsNative(words[m].word)
              /\ m # h => m \notin DOMAIN interpWord
              /\ CellOf(m) = StartOf(h) + 1 + (m - h)
<1>1. Coded(Len(words) + 1) /\ Live = DOMAIN pcOf /\ h \in Live
      /\ \A i \in Live : i \in Nat /\ pcOf[i] \in Nat
  BY FinalFacts
<1>2. GroupAt(h)
  BY <1>1 DEF Coded, Groups
<1>3. kMaxInterp \in Nat
  BY DEF kMaxInterp
<1>4. interpWord[h].count \in Nat /\ interpWord[h].count >= 1
  BY <1>2, <1>3 DEF GroupAt
<1>5. interpWord[h].tail = ReturnsImmediately(words, h + interpWord[h].count)
  BY <1>2 DEF GroupAt
<1>6. interpWord[h].tail \in BOOLEAN
  BY <1>5 DEF ReturnsImmediately
<1>7. h \in Members(h)
  BY <1>1, <1>4 DEF Members
<1>8. ASSUME NEW m \in Members(h)
      PROVE  /\ m \in Live /\ ~IsNative(words[m].word)
             /\ m # h => m \notin DOMAIN interpWord
             /\ CellOf(m) = StartOf(h) + 1 + (m - h)
  <2>1. /\ m \in Live /\ ~IsNative(words[m].word)
        /\ m # h => m \notin DOMAIN interpWord
        /\ pcOf[m] = pcOf[h] + (m - h) + IF m = h THEN 0 ELSE 1
    BY <1>1, <1>2 DEF GroupAt
  <2>2. pcOf[h] \in Nat /\ h \in Nat /\ m \in Nat
    BY <1>1, <2>1
  <2>3. CASE m = h
    <3>1. CellOf(m) = StartOf(h) + 1
      BY <2>3 DEF CellOf
    <3> QED BY <2>1, <2>2, <2>3, <3>1 DEF StartOf
  <2>4. CASE m # h
    <3>1. CellOf(m) = pcOf[m] + 1
      BY <2>1, <2>4 DEF CellOf, StartOf
    <3> QED BY <2>1, <2>2, <2>4, <3>1 DEF StartOf
  <2> QED BY <2>1, <2>3, <2>4
<1> QED BY <1>1, <1>4, <1>5, <1>6, <1>7, <1>8

\* What follows a native word, or the last call of a group, can be reached
\* from there.
LEMMA NextEntered ==
  ASSUME GenInv, phase = "compiled", NEW i \in Live, i + 1 \in Live,
         \/ IsNative(words[i].word)
         \/ \E h \in DOMAIN interpWord : i = h + interpWord[h].count - 1
  PROVE  IsNative(words[i + 1].word) \/ i + 1 \in DOMAIN interpWord
<1>1. /\ Coded(Len(words) + 1) /\ Live = DOMAIN pcOf
      /\ \A j \in Live : j \in Nat
  BY FinalFacts
<1> SUFFICES ASSUME ~IsNative(words[i + 1].word), i + 1 \notin DOMAIN interpWord
             PROVE  FALSE
  OBVIOUS
<1>2. PICK g \in DOMAIN interpWord : i + 1 \in Members(g)
  BY <1>1 DEF Coded, Groups
<1>3. g # i + 1
  BY <1>2
<1>4. g \in Nat /\ i \in Nat /\ interpWord[g].count \in Nat
      /\ \A m \in Members(g) : ~IsNative(words[m].word)
                               /\ (m # g => m \notin DOMAIN interpWord)
  BY <1>1, GroupFacts
<1>5. i \in Members(g)
  BY <1>2, <1>3, <1>4 DEF Members
<1>6. PICK h \in DOMAIN interpWord : i = h + interpWord[h].count - 1
  BY <1>4, <1>5
<1>7. /\ h \in Nat /\ interpWord[h].count \in Nat /\ interpWord[h].count >= 1
      /\ \A m \in Members(h) : m # h => m \notin DOMAIN interpWord
  BY GroupFacts
<1>8. g <= i /\ i + 1 <= g + interpWord[g].count - 1
  BY <1>2, <1>4, <1>5 DEF Members
<1>9. h <= i
  BY <1>6, <1>7
<1>10. h <= g
  <2> SUFFICES ASSUME g < h PROVE FALSE
    BY <1>4, <1>7
  <2>1. h \in Members(g) /\ h # g
    BY <1>4, <1>7, <1>8, <1>9 DEF Members
  <2> QED BY <1>4, <2>1
<1>11. g <= h
  <2> SUFFICES ASSUME h < g PROVE FALSE
    BY <1>4, <1>7
  <2>1. g \in Members(h) /\ g # h
    BY <1>4, <1>6, <1>7, <1>8 DEF Members
  <2> QED BY <1>7, <2>1
<1>12. g = h
  BY <1>4, <1>7, <1>10, <1>11
<1> QED BY <1>4, <1>6, <1>7, <1>8, <1>12

\* A branch leads to its target.
LEMMA BranchLands ==
  ASSUME GenInv, phase = "compiled", NEW i \in Live, words[i].branchTo # 0,
         ~Dangling(i)
  PROVE  LET t == words[i].branchTo
         IN  /\ t \in Live /\ Target(instrs, StartOf(i)) = StartOf(t)
             /\ IsNative(words[t].word) \/ t \in DOMAIN interpWord
<1> DEFINE t == words[i].branchTo
<1>1. /\ LayoutShape(Len(words) + 1) /\ LayoutTargets(Len(words) + 1)
      /\ Coded(Len(words) + 1) /\ CodeMatchesList /\ Live = DOMAIN pcOf
      /\ i \in DOMAIN words
  BY FinalFacts DEF Live
<1>2. t \in Live /\ (IsNative(words[t].word) \/ t \in DOMAIN interpWord)
  BY <1>1, TargetLaid
<1>3. IsNative(words[i].word)
  BY <1>1, BranchNative DEF Coded, BranchWords, SpecialWords
<1>4. CellOf(i) = StartOf(i)
  BY <1>3, CodeOfWord DEF CellOf
<1>5. CellOf(i) + 2 + instrs[CellOf(i) + 1].offset = StartOf(t)
  BY <1>1, <1>3 DEF CodeMatchesList
<1> QED BY <1>2, <1>4, <1>5 DEF Target

\* RECURSE leads to the start of the code.
LEMMA RecurseLands ==
  ASSUME GenInv, RecursionInv, phase = "compiled", NEW i \in Live,
         words[i].word = "_RECURSE"
  PROVE  Target(instrs, StartOf(i)) = 1
<1>1. /\ LayoutTargets(Len(words) + 1) /\ Coded(Len(words) + 1)
      /\ Live = DOMAIN words \ erased /\ Live = DOMAIN pcOf
  BY FinalFacts
<1>2. i \in DOMAIN words /\ i \in Nat
  BY FinalFacts
<1>3. words[i].branchTo = 1
  BY <1>1, <1>2, FinalFacts DEF RecursionInv, Recurses, RecursesBut
<1>4. ~Dangling(i)
  BY <1>1, <1>3 DEF LayoutTargets, Dangling
<1>5. 1 \in DOMAIN pcOf
  BY <1>1, <1>3, <1>4, BranchLands
<1>6. pcOf[1] = 0
  BY <1>1, <1>5 DEF Coded, PlacedBy
<1>7. Target(instrs, StartOf(i)) = StartOf(1)
  BY <1>3, <1>4, BranchLands
<1> QED BY <1>6, <1>7 DEF StartOf

-----------------------------------------------------------------------------
(* What the checker approved of, in terms of values *)

\* An output that is as an input is described by that input's item.
LEMMA SameDescribed ==
  ASSUME NEW item \in Item, NEW v, NEW r, Describes(item, v), Same(v, r)
  PROVE  Describes(item, r)
<1>1. CASE r = v
  BY <1>1
<1>2. CASE r = "Null" /\ v \notin Quotes
  <2>1. TypeOf(r) = "Null"
    BY <1>2, InterpreterAssumption DEF TypeOf, Types
  <2>2. item.lit \notin Quotes
    BY <1>2 DEF Describes
  <2> QED BY <2>1, <2>2 DEF Describes
<1> QED BY <1>1, <1>2 DEF Same

\* A value of the declared types is described by the item of these types.
LEMMA FitsDescribed ==
  ASSUME NEW types, NEW r, Fits(types, r)
  PROVE  Describes(TypeItem(types), r)
BY NoQuote DEF Fits, Describes, TypeItem

\* A word whose inputs the checker accepts can be called.
LEMMA AcceptedReady ==
  ASSUME NEW e \in StackEffect, NEW items \in Seq(Item), Accepts(e, items),
         NEW s \in Seq(Values), Described(items, s)
  PROVE  Ready(e, s)
<1>1. PICK n \in Nat : n = Len(e.ins)
  BY EffectFields
<1>2. PICK l \in Nat : l = Len(items) /\ l = Len(s)
  BY DEF Described
<1>3. n <= l
  BY <1>1, <1>2 DEF Accepts
<1>4. n \in 0..Len(s)
  BY <1>2, <1>3
<1>5. PICK a : a = Args(s, n)
  OBVIOUS
<1>6. a \in Seq(Values) /\ Len(a) = n /\ \A k \in 1..n : a[k] = s[l - n + k]
  <2>1. <<>> \in Seq(Values)
    OBVIOUS
  <2>2. /\ Args(s, n) \in Seq(Values) /\ Len(Args(s, n)) = n
        /\ \A k \in 1..n : Args(s, n)[k] = s[Len(s) - n + k]
    BY <1>4, <2>1, AfterCells
  <2> QED BY <1>2, <1>5, <2>2
<1>7. ASSUME NEW k \in 1..n PROVE Fits(e.ins[k], a[k])
  <2>1. n - k \in 0..(n - 1) /\ l - (n - k) = l - n + k /\ n - (n - k) = k
        /\ l - n + k \in 1..l
    BY <1>3
  <2>2. FromTop(items, n - k).types \subseteq FromTop(e.ins, n - k)
    BY <1>1, <2>1 DEF Accepts, TypeCheck
  <2>3. items[l - n + k].types \subseteq e.ins[k]
    BY <1>1, <1>2, <2>1, <2>2 DEF FromTop
  <2>4. Describes(items[l - n + k], s[l - n + k])
    BY <1>2, <2>1 DEF Described
  <2>5. a[k] = s[l - n + k]
    BY <1>6
  <2> QED BY <2>3, <2>4, <2>5 DEF Describes, Fits
<1>8. Suits(e, a)
  BY <1>1, <1>6, <1>7 DEF Suits
<1> QED BY <1>1, <1>2, <1>3, <1>5, <1>8 DEF Ready

\* The call leaves a stack that the checker's items describe.
LEMMA AfterDescribed ==
  ASSUME NEW e \in StackEffect, NEW items \in Seq(Item), Accepts(e, items),
         NEW s \in Seq(Values), Described(items, s), NEW t \in After(e, s)
  PROVE  t \in Seq(Values) /\ Described(ItemsAfter(e, items), t)
<1>1. PICK n \in Nat : n = Len(e.ins)
  BY EffectFields
<1>2. PICK l \in Nat : l = Len(items) /\ l = Len(s)
  BY DEF Described
<1>3. PICK below : below = l - n
  OBVIOUS
<1>4. PICK new : new = ItemsAfter(e, items)
  OBVIOUS
<1>5. PICK m \in Nat : m = Len(e.outs)
  BY EffectFields
<1>6. /\ below \in Nat /\ n \in 0..l
      /\ new \in Seq(Item) /\ Len(new) = below + m
      /\ \A k \in 1..below : new[k] = items[k]
      /\ \A k \in 1..m : new[below + k] = IF e.outs[k].match = 0
                                            THEN TypeItem(e.outs[k].types)
                                            ELSE FromTop(items, e.outs[k].match - 1)
  <2>1. below = Len(items) - Len(e.ins)
    BY <1>1, <1>2, <1>3
  <2>2. LeavesItems(e, items, below, new)
    BY <1>4, <2>1, ItemsAfterCells
  <2> QED BY <1>1, <1>2, <1>5, <2>2 DEF LeavesItems
<1>7. PICK r \in Seq(Values) : Keeps(e, Args(s, n), r) /\ t = Upon(Below(s, n), r)
  BY <1>1 DEF After
<1>8. PICK a : a = Args(s, n)
  OBVIOUS
<1>9. Len(r) = m
  BY <1>5, <1>7 DEF Keeps
<1>10. /\ t \in Seq(Values) /\ Len(t) = below + m
       /\ \A k \in 1..below : t[k] = s[k]
       /\ \A k \in 1..m : t[below + k] = r[k]
       /\ Len(a) = n
       /\ \A k \in 1..n : a[k] = s[below + k]
  <2>1. n \in 0..Len(s) /\ Len(s) - n = below
    BY <1>2, <1>3, <1>6
  <2>2. /\ Upon(Below(s, n), r) \in Seq(Values)
        /\ Len(Upon(Below(s, n), r)) = Len(s) - n + Len(r)
        /\ \A k \in 1..(Len(s) - n) : Upon(Below(s, n), r)[k] = s[k]
        /\ \A k \in 1..Len(r) : Upon(Below(s, n), r)[Len(s) - n + k] = r[k]
        /\ Args(s, n) \in Seq(Values) /\ Len(Args(s, n)) = n
        /\ \A k \in 1..n : Args(s, n)[k] = s[Len(s) - n + k]
    BY <2>1, AfterCells
  <2>3. t = Upon(Below(s, n), r) /\ Len(r) = m /\ a = Args(s, n)
    BY <1>7, <1>8, <1>9
  <2> QED BY <2>1, <2>2, <2>3, Zenon
<1>11. ASSUME NEW k \in 1..below PROVE Describes(new[k], t[k])
  <2>1. k \in 1..Len(s)
    BY <1>2, <1>3, <1>6
  <2>2. Describes(items[k], s[k])
    BY <2>1 DEF Described
  <2> QED BY <1>6, <1>10, <2>2
<1>12. ASSUME NEW k \in 1..m PROVE Describes(new[below + k], t[below + k])
  <2>1. t[below + k] = r[k]
    BY <1>10
  <2>2. CASE e.outs[k].match = 0
    <3>1. new[below + k] = TypeItem(e.outs[k].types)
      BY <1>6, <2>2
    <3>2. Fits(e.outs[k].types, r[k])
      BY <1>7, <1>9, <2>2 DEF Keeps
    <3> QED BY <2>1, <3>1, <3>2, FitsDescribed
  <2>3. CASE e.outs[k].match # 0
    <3>1. PICK q : q = e.outs[k].match
      OBVIOUS
    <3>2. k \in DOMAIN e.outs
      <4>1. e.outs \in Seq(Output)
        BY EffectFields
      <4> QED BY <1>5, <4>1
    <3>3. q \in 0..7 /\ q <= n /\ q # 0
      BY <1>1, <2>3, <3>1, <3>2, EffectFields
    <3>4. l - (q - 1) \in 1..l /\ n - (q - 1) \in 1..n
          /\ below + (n - (q - 1)) = l - (q - 1)
      BY <1>3, <1>6, <3>3
    <3>5. new[below + k] = items[l - (q - 1)]
      BY <1>2, <1>6, <2>3, <3>1 DEF FromTop
    <3>6. Same(FromTop(a, q - 1), r[k])
      BY <1>7, <1>8, <1>9, <2>3, <3>1 DEF Keeps
    <3>7. FromTop(a, q - 1) = s[l - (q - 1)]
      <4>1. FromTop(a, q - 1) = a[n - (q - 1)]
        BY <1>10 DEF FromTop
      <4>2. a[n - (q - 1)] = s[below + (n - (q - 1))]
        BY <1>10, <3>4
      <4> QED BY <3>4, <4>1, <4>2
    <3>8. Describes(items[l - (q - 1)], s[l - (q - 1)])
      BY <1>2, <3>4 DEF Described
    <3>9. items[l - (q - 1)] \in Item
      <4>1. \A j \in 1..Len(items) : items[j] \in Item
        OBVIOUS
      <4> QED BY <1>2, <3>4, <4>1
    <3> QED BY <2>1, <3>5, <3>6, <3>7, <3>8, <3>9, SameDescribed
  <2> QED BY <2>2, <2>3
<1>13. ASSUME NEW k \in 1..Len(t) PROVE Describes(new[k], t[k])
  <2>1. k \in 1..below \/ (k - below \in 1..m /\ below + (k - below) = k)
    BY <1>6, <1>10
  <2> QED BY <1>11, <1>12, <2>1
<1>14. Len(t) = Len(new)
  BY <1>6, <1>10
<1> QED BY <1>4, <1>10, <1>13, <1>14 DEF Described

\* A word of the code compiled that the checker vouches for
Approved == GenInv /\ RecursionInv /\ Vouched

\* What is known of the memoized stacks of such a word
LEMMA ApprovedFacts ==
  ASSUME Approved
  PROVE  /\ GenInv /\ RecursionInv /\ phase = "compiled" /\ StillFixed
         /\ Finished(words) /\ effect \in StackEffect /\ RecursionBalanced
         /\ 1 \in Live /\ 1 \in DOMAIN known
         /\ \A i \in DOMAIN known : /\ known[i] \in Seq(Item) /\ i \in DOMAIN words
                                    /\ CheckedAt(i)
<1>1. GenInv /\ RecursionInv /\ phase = "compiled" /\ ~canAddInputs
      /\ RecursionBalanced
  BY DEF Approved, Vouched
<1>2. StillFixed /\ LayoutShape(Len(words) + 1) /\ Finished(words)
      /\ effect \in StackEffect
  BY <1>1, FinalFacts
<1>3. 1 \in Live
  BY <1>1, GenInvFlow DEF OptimizedFlowCovered
<1>4. known \in [DOMAIN known -> Seq(Item)] /\ DOMAIN known \subseteq DOMAIN words
  BY <1>2 DEF LayoutShape
<1>5. \A i \in DOMAIN known : known[i] \in Seq(Item) /\ i \in DOMAIN words
  BY <1>4
<1>6. 1 \in DOMAIN known /\ \A i \in DOMAIN known : CheckedAt(i)
  BY <1>2 DEF StillFixed
<1> QED BY <1>1, <1>2, <1>3, <1>5, <1>6

LEMMA NextTyped ==
  ASSUME Approved, NEW i \in DOMAIN known, words[i].word # "_LITERAL"
  PROVE  /\ NextEffect(i, known[i]) \in StackEffect
         /\ Accepts(NextEffect(i, known[i]), known[i])
         /\ Outcome(i, known[i]) = ItemsAfter(NextEffect(i, known[i]), known[i])
         /\ Outcome(i, known[i]) \in Seq(Item)
<1>1. /\ Finished(words) /\ effect \in StackEffect /\ i \in DOMAIN words
      /\ CheckedAt(i) /\ known[i] \in Seq(Item)
  BY ApprovedFacts
<1>2. Accepts(NextEffect(i, known[i]), known[i])
  BY <1>1 DEF CheckedAt
<1>3. NextEffect(i, known[i]) \in StackEffect
  BY <1>1, NextEffectTyped DEF CheckedAt
<1>4. Outcome(i, known[i]) = ItemsAfter(NextEffect(i, known[i]), known[i])
  BY DEF Outcome
<1>5. Outcome(i, known[i]) \in Seq(Item)
  BY <1>1, <1>2, <1>3, <1>4, ItemsAfterOK
<1> QED BY <1>2, <1>3, <1>4, <1>5

\* A stack that the outcome of a word describes is one memoized where control
\* goes from there.
LEMMA Leads ==
  ASSUME Approved, NEW i \in Live \cap DOMAIN known, NEW j \in Successors(i),
         NEW s, Described(Outcome(i, known[i]), s),
         Outcome(i, known[i]) \in Seq(Item)
  PROVE  j \in Live \cap DOMAIN known /\ Described(known[j], s)
<1>1. GenInv /\ phase = "compiled" /\ ~canAddInputs /\ Complete
  BY DEF Approved, Vouched
<1>2. /\ j \in Live \cup {Len(words)} /\ j \in DOMAIN known
      /\ Covers(known[j], Outcome(i, known[i]))
  BY <1>1, GenInvFlow DEF OptimizedFlowCovered
<1>3. j \in Live
  BY <1>1, <1>2, LastIsLive
<1>4. known[j] \in Seq(Item)
  BY <1>2, ApprovedFacts
<1>5. Described(known[j], s)
  BY <1>2, <1>4, CoversDescribed
<1> QED BY <1>2, <1>3, <1>5

\* RETURN finds the outputs promised.
LEMMA ReturnKeeps ==
  ASSUME Approved, NEW i \in DOMAIN known, words[i].word = "_RETURN",
         NEW s \in Seq(Values), Described(known[i], s), NEW a
  PROVE  Keeps(Promise, a, s)
<1>1. /\ effect \in StackEffect /\ CheckedAt(i) /\ known[i] \in Seq(Item)
  BY ApprovedFacts
<1>2. PICK items : items = known[i]
  OBVIOUS
<1>3. PICK outs : outs = effect.outs
  OBVIOUS
<1>4. PICK n \in Nat : n = Len(outs) /\ DOMAIN outs = 1..n
  <2>1. outs \in Seq(Output)
    BY <1>1, <1>3, EffectFields
  <2> QED BY <2>1
<1>5. Len(items) = n /\ TypeCheck(items, OutputTypes(outs))
  BY <1>1, <1>2, <1>3, <1>4 DEF CheckedAt
<1>6. Len(s) = n /\ \A k \in 1..n : Describes(items[k], s[k])
  BY <1>2, <1>5 DEF Described
<1>7. PICK types : types = OutputTypes(outs)
  OBVIOUS
<1>8. Len(types) = n /\ \A k \in 1..n : types[k] = outs[k].types
  <2>1. types = [k \in 1..n |-> outs[k].types]
    BY <1>4, <1>7 DEF OutputTypes
  <2>2. types \in Seq({outs[k].types : k \in 1..n})
    BY <1>4, <2>1
  <2> QED BY <1>4, <2>1, <2>2
<1>9. ASSUME NEW k \in 1..n PROVE Fits(outs[k].types, s[k])
  <2>1. n - k \in 0..(n - 1) /\ n - (n - k) = k
    BY <1>4
  <2>2. FromTop(items, n - k).types \subseteq FromTop(types, n - k)
    BY <1>5, <1>7, <1>8, <2>1 DEF TypeCheck
  <2>3. items[k].types \subseteq outs[k].types
    BY <1>5, <1>8, <2>1, <2>2 DEF FromTop
  <2>4. Describes(items[k], s[k])
    BY <1>6
  <2> QED BY <2>3, <2>4 DEF Describes, Fits
<1>10. /\ Len(Promise.outs) = n
       /\ \A k \in 1..n : /\ Promise.outs[k].match = 0
                          /\ Promise.outs[k].types = outs[k].types
  BY <1>1, <1>3, <1>4, PromiseParts
<1> QED BY <1>6, <1>9, <1>10 DEF Keeps

\* So does a chain of branches that ends with RETURN.
LEMMA TailKeeps ==
  ASSUME Approved, NEW j \in DOMAIN known, ReturnsImmediately(words, j),
         NEW s \in Seq(Values), Described(known[j], s), NEW a
  PROVE  Keeps(Promise, a, s)
<1> DEFINE C == {p \in DOMAIN known : Described(known[p], s)}
<1>1. C \in SUBSET (DOMAIN words) /\ j \in C
  BY ApprovedFacts
<1>2. ASSUME NEW p \in C, words[p].word = "_BRANCH"
      PROVE  words[p].branchTo \in C
  <2>1. known[p] \in Seq(Item)
    BY ApprovedFacts
  <2>2. Outcome(p, known[p]) = known[p]
    BY <1>2, <2>1, BranchLeaves
  <2>3. words[p].branchTo \in Successors(p)
    BY <1>2 DEF Successors, IsBranch
  <2>4. PICK t : t = words[p].branchTo
    OBVIOUS
  <2>5. t \in DOMAIN known /\ Covers(known[t], known[p])
    BY <2>2, <2>3, <2>4, ApprovedFacts DEF StillFixed
  <2>6. known[t] \in Seq(Item)
    BY <2>5, ApprovedFacts
  <2>7. Described(known[t], s)
    BY <2>1, <2>5, <2>6, CoversDescribed
  <2> QED BY <2>4, <2>5, <2>7
<1>3. BranchClosed(words, C)
  <2> HIDE DEF C
  <2> QED BY <1>2 DEF BranchClosed
<1>4. PICK p \in C : words[p].word = "_RETURN"
  <2> HIDE DEF C
  <2> QED BY <1>1, <1>3 DEF ReturnsImmediately
<1> QED BY <1>4, ReturnKeeps

-----------------------------------------------------------------------------
(* The native words *)

\* The inputs and outputs that a word is declared with
Declares(e, ins, outs) == e.ins = ins /\ e.outs = outs

\* The word w does what e declares.
DoesAs(w, e) ==
  /\ Len(e.ins) = Arity(w)
  /\ \A a : Suits(e, a) => \A vs \in Results(w, a) : Keeps(e, a, vs)

LEMMA CoreTypes ==
  /\ Any \in TypeSet /\ Num \in TypeSet
  /\ {"String", "Array"} \in TypeSet /\ {"Null"} \in TypeSet
  /\ \A t \in TypeSet : Out(t) \in Output
  /\ \A t \in TypeSet : \A k \in 0..6 : SameAs(t, k) \in Output
<1>1. /\ Any \in TypeSet /\ Num \in TypeSet
      /\ {"String", "Array"} \in TypeSet /\ {"Null"} \in TypeSet
  BY DEF Any, Num, AnyType, TypeSet, Types
<1>2. \A t \in TypeSet : Out(t) \in Output
  BY DEF Out, Output
<1>3. ASSUME NEW t \in TypeSet, NEW k \in 0..6 PROVE SameAs(t, k) \in Output
  <2>1. k + 1 \in 0..7
    OBVIOUS
  <2> QED BY <2>1 DEF SameAs, Output
<1> QED BY <1>1, <1>2, <1>3

LEMMA EffectDeclares ==
  ASSUME NEW ins \in Seq(TypeSet), NEW outs \in Seq(Output),
         \A i \in DOMAIN outs : outs[i].match <= Len(ins)
  PROVE  Declares(Effect(ins, outs), ins, outs)
BY EffectOK DEF Declares

\* One result, of a type declared
LEMMA DoesOne ==
  ASSUME NEW w, NEW e, NEW ins, NEW t, Declares(e, ins, <<Out(t)>>),
         Len(ins) = Arity(w),
         \A a : Suits(e, a) =>
           \A vs \in Results(w, a) :
             \E v \in Values : vs = <<v>> /\ Fits(t, v)
  PROVE  DoesAs(w, e)
<1>1. ASSUME NEW a, Suits(e, a), NEW vs \in Results(w, a)
      PROVE  Keeps(e, a, vs)
  <2>1. PICK v \in Values : vs = <<v>> /\ Fits(t, v)
    BY <1>1
  <2>2. vs \in Seq(Values) /\ Len(vs) = 1 /\ vs[1] = v
    BY <2>1
  <2>3. Len(e.outs) = 1 /\ e.outs[1].match = 0 /\ e.outs[1].types = t
    BY DEF Declares, Out
  <2> QED BY <2>1, <2>2, <2>3 DEF Keeps
<1> QED BY <1>1 DEF DoesAs, Declares

LEMMA NumberFits ==
  /\ "Number" \in Values /\ "Null" \in Values
  /\ Fits(Num, "Number") /\ Fits(Num, "Null") /\ Fits({"Null"}, "Null")
BY InterpreterAssumption DEF Values, Fits, TypeOf, Num, Types

LEMMA DoesArithmetic ==
  ASSUME NEW w \in BinaryWords
  PROVE  DoesAs(w, CoreEffect[w])
<1>1. CoreEffect[w] = Effect(<<Num, Num>>, <<Out(Num)>>)
  BY DEF CoreEffect, BinaryWords, kBinEffect
<1>2. /\ <<Num, Num>> \in Seq(TypeSet) /\ <<Out(Num)>> \in Seq(Output)
      /\ \A i \in DOMAIN <<Out(Num)>> : <<Out(Num)>>[i].match <= Len(<<Num, Num>>)
  BY CoreTypes DEF Out
<1>3. Declares(CoreEffect[w], <<Num, Num>>, <<Out(Num)>>)
  BY <1>1, <1>2, EffectDeclares
<1>4. Arity(w) = 2
  BY DEF Arity, BinaryWords, ZeroRelationWords
<1>5. \A a : Results(w, a) = {<<v>> : v \in Arithmetic(a[1], a[2])}
  BY DEF Results, BinaryWords
<1>6. \A x, y : Arithmetic(x, y) \subseteq {"Number", "Null"}
  BY DEF Arithmetic
<1>7. \A a : \A vs \in Results(w, a) : \E v \in Values : vs = <<v>> /\ Fits(Num, v)
  BY <1>5, <1>6, NumberFits
<1>8. Len(<<Num, Num>>) = 2
  OBVIOUS
<1> QED BY <1>3, <1>4, <1>7, <1>8, DoesOne

LEMMA DoesRelation ==
  ASSUME NEW w \in RelationWords
  PROVE  DoesAs(w, CoreEffect[w])
<1>1. CoreEffect[w] = Effect(<<Any, Any>>, <<Out(Num)>>)
  BY DEF CoreEffect, RelationWords, kRelEffect
<1>2. /\ <<Any, Any>> \in Seq(TypeSet) /\ <<Out(Num)>> \in Seq(Output)
      /\ \A i \in DOMAIN <<Out(Num)>> : <<Out(Num)>>[i].match <= Len(<<Any, Any>>)
  BY CoreTypes DEF Out
<1>3. Declares(CoreEffect[w], <<Any, Any>>, <<Out(Num)>>)
  BY <1>1, <1>2, EffectDeclares
<1>4. Arity(w) = 2
  BY DEF Arity, RelationWords, ZeroRelationWords
<1>5. \A a : Results(w, a) = {<<"Number">>}
  BY DEF Results, RelationWords, BinaryWords
<1>6. \A a : \A vs \in Results(w, a) : \E v \in Values : vs = <<v>> /\ Fits(Num, v)
  BY <1>5, NumberFits
<1>7. Len(<<Any, Any>>) = 2
  OBVIOUS
<1> QED BY <1>3, <1>4, <1>6, <1>7, DoesOne

LEMMA DoesZeroRelation ==
  ASSUME NEW w \in ZeroRelationWords
  PROVE  DoesAs(w, CoreEffect[w])
<1>1. CoreEffect[w] = Effect(<<Any>>, <<Out(Num)>>)
  BY DEF CoreEffect, ZeroRelationWords, k0RelEffect
<1>2. /\ <<Any>> \in Seq(TypeSet) /\ <<Out(Num)>> \in Seq(Output)
      /\ \A i \in DOMAIN <<Out(Num)>> : <<Out(Num)>>[i].match <= Len(<<Any>>)
  BY CoreTypes DEF Out
<1>3. Declares(CoreEffect[w], <<Any>>, <<Out(Num)>>)
  BY <1>1, <1>2, EffectDeclares
<1>4. Arity(w) = 1
  BY DEF Arity, ZeroRelationWords
<1>5. \A a : Results(w, a) = {<<"Number">>}
  BY DEF Results, ZeroRelationWords, BinaryWords
<1>6. \A a : \A vs \in Results(w, a) : \E v \in Values : vs = <<v>> /\ Fits(Num, v)
  BY <1>5, NumberFits
<1>7. Len(<<Any>>) = 1
  OBVIOUS
<1> QED BY <1>3, <1>4, <1>6, <1>7, DoesOne

LEMMA DoesConstant ==
  ASSUME NEW w \in {"ZERO", "ONE", "NULL_"}
  PROVE  DoesAs(w, CoreEffect[w])
<1> DEFINE t == IF w = "NULL_" THEN {"Null"} ELSE Num
<1>1. CoreEffect[w] = Effect(<<>>, <<Out(t)>>)
  BY DEF CoreEffect
<1>2. t \in TypeSet
  BY CoreTypes
<1>3. \A a : Results(w, a) = {<<IF w = "NULL_" THEN "Null" ELSE "Number">>}
  BY DEF Results, BinaryWords
<1>4. \A a : \A vs \in Results(w, a) : \E v \in Values : vs = <<v>> /\ Fits(t, v)
  BY <1>3, NumberFits
<1> HIDE DEF t
<1>5. /\ <<>> \in Seq(TypeSet) /\ <<Out(t)>> \in Seq(Output)
      /\ \A i \in DOMAIN <<Out(t)>> : <<Out(t)>>[i].match <= Len(<<>>)
  BY <1>2, CoreTypes DEF Out
<1>6. Declares(CoreEffect[w], <<>>, <<Out(t)>>)
  BY <1>1, <1>5, EffectDeclares
<1>7. Arity(w) = 0 /\ Len(<<>>) = 0
  BY DEF Arity, ZeroRelationWords
<1> QED BY <1>4, <1>6, <1>7, DoesOne

LEMMA DoesLength == DoesAs("LENGTH", CoreEffect["LENGTH"])
<1> DEFINE t == {"String", "Array"}
<1>1. CoreEffect["LENGTH"] = Effect(<<t>>, <<Out(Num)>>)
  BY DEF CoreEffect
<1>2. t \in TypeSet
  BY CoreTypes
<1> HIDE DEF t
<1>3. /\ <<t>> \in Seq(TypeSet) /\ <<Out(Num)>> \in Seq(Output)
      /\ \A i \in DOMAIN <<Out(Num)>> : <<Out(Num)>>[i].match <= Len(<<t>>)
  BY <1>2, CoreTypes DEF Out
<1>4. Declares(CoreEffect["LENGTH"], <<t>>, <<Out(Num)>>)
  BY <1>1, <1>3, EffectDeclares
<1>5. Arity("LENGTH") = 1 /\ Len(<<t>>) = 1
  BY DEF Arity
<1>6. \A a : Results("LENGTH", a) = {<<v>> : v \in Lengths(a[1])}
  BY DEF Results, BinaryWords
<1>7. \A x : Lengths(x) \subseteq {"Number", "Null"}
  BY DEF Lengths
<1>8. \A a : \A vs \in Results("LENGTH", a) :
        \E v \in Values : vs = <<v>> /\ Fits(Num, v)
  BY <1>6, <1>7, NumberFits
<1> QED BY <1>4, <1>5, <1>8, DoesOne

\* The inputs a word that moves items is called with
LEMMA SuitsInputs ==
  ASSUME NEW e, NEW ins, NEW outs, Declares(e, ins, outs), NEW a, Suits(e, a)
  PROVE  a \in Seq(Values) /\ Len(a) = Len(ins)
BY DEF Declares, Suits

LEMMA DoesNothing ==
  ASSUME NEW w \in {"NOP", "DROP"}
  PROVE  DoesAs(w, CoreEffect[w])
<1> DEFINE ins == IF w = "NOP" THEN <<>> ELSE <<Any>>
<1>1. CoreEffect[w] = Effect(ins, <<>>)
  BY DEF CoreEffect
<1>2. ins \in Seq(TypeSet) /\ Len(ins) = Arity(w)
  BY CoreTypes DEF Arity, ZeroRelationWords
<1> HIDE DEF ins
<1>3. <<>> \in Seq(Output) /\ \A i \in DOMAIN <<>> : <<>>[i].match <= Len(ins)
  OBVIOUS
<1>4. Declares(CoreEffect[w], ins, <<>>)
  BY <1>1, <1>2, <1>3, EffectDeclares
<1>5. \A a : Results(w, a) = {<<>>}
  BY DEF Results, BinaryWords
<1>6. \A a : Keeps(CoreEffect[w], a, <<>>)
  <2>1. <<>> \in Seq(Values) /\ Len(<<>>) = 0
    OBVIOUS
  <2> QED BY <1>4, <2>1 DEF Keeps, Declares
<1> QED BY <1>2, <1>4, <1>5, <1>6 DEF DoesAs, Declares

LEMMA DoesDup == DoesAs("DUP", CoreEffect["DUP"])
<1> DEFINE ins == <<Any>>
           outs == <<SameAs(Any, 0), SameAs(Any, 0)>>
<1>1. PICK e : e = CoreEffect["DUP"]
  OBVIOUS
<1>2. e = Effect(ins, outs)
  BY <1>1 DEF CoreEffect
<1>3. /\ ins \in Seq(TypeSet) /\ outs \in Seq(Output) /\ Len(ins) = 1
      /\ \A i \in DOMAIN outs : outs[i].match <= Len(ins)
  <2>1. Any \in TypeSet /\ \A k \in 0..2 : SameAs(Any, k) \in Output
    BY CoreTypes
  <2>2. ins \in Seq(TypeSet) /\ outs \in Seq(Output)
    BY <2>1
  <2> QED BY <2>2 DEF SameAs
<1>4. /\ Len(outs) = 2
      /\ outs[1].match = 1 /\ outs[2].match = 1
  BY DEF SameAs
<1> HIDE DEF ins, outs
<1>5. Declares(e, ins, outs)
  BY <1>2, <1>3, EffectDeclares
<1>6. Arity("DUP") = 1
  BY DEF Arity, ZeroRelationWords
<1>7. ASSUME NEW a, Suits(e, a), NEW vs \in Results("DUP", a)
      PROVE  Keeps(e, a, vs)
  <2>1. a \in Seq(Values) /\ Len(a) = 1
    BY <1>3, <1>5, <1>7, SuitsInputs
  <2>2. vs = <<a[1], a[1]>>
    BY <1>7 DEF Results, BinaryWords
  <2>3. vs \in Seq(Values) /\ Len(vs) = 2 /\ vs[1] = a[1] /\ vs[2] = a[1]
    <3>1. a[1] \in Values
      BY <2>1
    <3> QED BY <2>2, <3>1
  <2>4. FromTop(a, 0) = a[1]
    BY <2>1 DEF FromTop
  <2>5. e.outs = outs
    BY <1>5 DEF Declares
  <2> QED BY <1>4, <2>3, <2>4, <2>5 DEF Keeps, Same
<1>8. DoesAs("DUP", e)
  BY <1>3, <1>5, <1>6, <1>7 DEF DoesAs, Declares
<1> QED BY <1>1, <1>8

LEMMA DoesSwap == DoesAs("SWAP", CoreEffect["SWAP"])
<1> DEFINE ins == <<Any, Any>>
           outs == <<SameAs(Any, 0), SameAs(Any, 1)>>
<1>1. PICK e : e = CoreEffect["SWAP"]
  OBVIOUS
<1>2. e = Effect(ins, outs)
  BY <1>1 DEF CoreEffect
<1>3. /\ ins \in Seq(TypeSet) /\ outs \in Seq(Output) /\ Len(ins) = 2
      /\ \A i \in DOMAIN outs : outs[i].match <= Len(ins)
  <2>1. Any \in TypeSet /\ \A k \in 0..2 : SameAs(Any, k) \in Output
    BY CoreTypes
  <2>2. ins \in Seq(TypeSet) /\ outs \in Seq(Output)
    BY <2>1
  <2> QED BY <2>2 DEF SameAs
<1>4. /\ Len(outs) = 2
      /\ outs[1].match = 1 /\ outs[2].match = 2
  BY DEF SameAs
<1> HIDE DEF ins, outs
<1>5. Declares(e, ins, outs)
  BY <1>2, <1>3, EffectDeclares
<1>6. Arity("SWAP") = 2
  BY DEF Arity, ZeroRelationWords
<1>7. ASSUME NEW a, Suits(e, a), NEW vs \in Results("SWAP", a)
      PROVE  Keeps(e, a, vs)
  <2>1. a \in Seq(Values) /\ Len(a) = 2
    BY <1>3, <1>5, <1>7, SuitsInputs
  <2>2. vs = <<a[2], a[1]>>
    BY <1>7 DEF Results, BinaryWords
  <2>3. vs \in Seq(Values) /\ Len(vs) = 2 /\ vs[1] = a[2] /\ vs[2] = a[1]
    <3>1. a[1] \in Values /\ a[2] \in Values
      BY <2>1
    <3> QED BY <2>2, <3>1
  <2>4. FromTop(a, 0) = a[2] /\ FromTop(a, 1) = a[1]
    BY <2>1 DEF FromTop
  <2>5. e.outs = outs
    BY <1>5 DEF Declares
  <2> QED BY <1>4, <2>3, <2>4, <2>5 DEF Keeps, Same
<1>8. DoesAs("SWAP", e)
  BY <1>3, <1>5, <1>6, <1>7 DEF DoesAs, Declares
<1> QED BY <1>1, <1>8

LEMMA DoesOver == DoesAs("OVER", CoreEffect["OVER"])
<1> DEFINE ins == <<Any, Any>>
           outs == <<SameAs(Any, 1), SameAs(Any, 0), SameAs(Any, 1)>>
<1>1. PICK e : e = CoreEffect["OVER"]
  OBVIOUS
<1>2. e = Effect(ins, outs)
  BY <1>1 DEF CoreEffect
<1>3. /\ ins \in Seq(TypeSet) /\ outs \in Seq(Output) /\ Len(ins) = 2
      /\ \A i \in DOMAIN outs : outs[i].match <= Len(ins)
  <2>1. Any \in TypeSet /\ \A k \in 0..2 : SameAs(Any, k) \in Output
    BY CoreTypes
  <2>2. ins \in Seq(TypeSet) /\ outs \in Seq(Output)
    BY <2>1
  <2> QED BY <2>2 DEF SameAs
<1>4. /\ Len(outs) = 3
      /\ outs[1].match = 2 /\ outs[2].match = 1 /\ outs[3].match = 2
  BY DEF SameAs
<1> HIDE DEF ins, outs
<1>5. Declares(e, ins, outs)
  BY <1>2, <1>3, EffectDeclares
<1>6. Arity("OVER") = 2
  BY DEF Arity, ZeroRelationWords
<1>7. ASSUME NEW a, Suits(e, a), NEW vs \in Results("OVER", a)
      PROVE  Keeps(e, a, vs)
  <2>1. a \in Seq(Values) /\ Len(a) = 2
    BY <1>3, <1>5, <1>7, SuitsInputs
  <2>2. vs = <<a[1], a[2], a[1]>>
    BY <1>7 DEF Results, BinaryWords
  <2>3. /\ vs \in Seq(Values) /\ Len(vs) = 3
        /\ vs[1] = a[1] /\ vs[2] = a[2] /\ vs[3] = a[1]
    <3>1. a[1] \in Values /\ a[2] \in Values
      BY <2>1
    <3> QED BY <2>2, <3>1
  <2>4. FromTop(a, 0) = a[2] /\ FromTop(a, 1) = a[1]
    BY <2>1 DEF FromTop
  <2>5. e.outs = outs
    BY <1>5 DEF Declares
  <2> QED BY <1>4, <2>3, <2>4, <2>5 DEF Keeps, Same
<1>8. DoesAs("OVER", e)
  BY <1>3, <1>5, <1>6, <1>7 DEF DoesAs, Declares
<1> QED BY <1>1, <1>8

LEMMA DoesRot == DoesAs("ROT", CoreEffect["ROT"])
<1> DEFINE ins == <<Any, Any, Any>>
           outs == <<SameAs(Any, 1), SameAs(Any, 0), SameAs(Any, 2)>>
<1>1. PICK e : e = CoreEffect["ROT"]
  OBVIOUS
<1>2. e = Effect(ins, outs)
  BY <1>1 DEF CoreEffect
<1>3. /\ ins \in Seq(TypeSet) /\ outs \in Seq(Output) /\ Len(ins) = 3
      /\ \A i \in DOMAIN outs : outs[i].match <= Len(ins)
  <2>1. Any \in TypeSet /\ \A k \in 0..2 : SameAs(Any, k) \in Output
    BY CoreTypes
  <2>2. ins \in Seq(TypeSet) /\ outs \in Seq(Output)
    BY <2>1
  <2> QED BY <2>2 DEF SameAs
<1>4. /\ Len(outs) = 3
      /\ outs[1].match = 2 /\ outs[2].match = 1 /\ outs[3].match = 3
  BY DEF SameAs
<1> HIDE DEF ins, outs
<1>5. Declares(e, ins, outs)
  BY <1>2, <1>3, EffectDeclares
<1>6. Arity("ROT") = 3
  BY DEF Arity, ZeroRelationWords
<1>7. ASSUME NEW a, Suits(e, a), NEW vs \in Results("ROT", a)
      PROVE  Keeps(e, a, vs)
  <2>1. a \in Seq(Values) /\ Len(a) = 3
    BY <1>3, <1>5, <1>7, SuitsInputs
  <2>2. vs = <<a[2], a[3], a[1]>>
    BY <1>7 DEF Results, BinaryWords
  <2>3. /\ vs \in Seq(Values) /\ Len(vs) = 3
        /\ vs[1] = a[2] /\ vs[2] = a[3] /\ vs[3] = a[1]
    <3>1. a[1] \in Values /\ a[2] \in Values /\ a[3] \in Values
      <4>1. \A k \in 1..Len(a) : a[k] \in Values
        BY <2>1, ElementOfSeq
      <4> QED BY <2>1, <4>1
    <3> QED BY <2>2, <3>1
  <2>4. FromTop(a, 0) = a[3] /\ FromTop(a, 1) = a[2] /\ FromTop(a, 2) = a[1]
    BY <2>1 DEF FromTop
  <2>5. e.outs = outs
    BY <1>5 DEF Declares
  <2> QED BY <1>4, <2>3, <2>4, <2>5 DEF Keeps, Same
<1>8. DoesAs("ROT", e)
  BY <1>3, <1>5, <1>6, <1>7 DEF DoesAs, Declares
<1> QED BY <1>1, <1>8

\* Every native word that works on the stack only does what it declares, PLUS
\* excepted.
LEMMA StackWordsSound ==
  ASSUME NEW w \in StackWords \ {"PLUS"}
  PROVE  DoesAs(w, CoreEffect[w])
<1>1. \/ w \in {"NOP", "DROP"} \/ w = "DUP" \/ w = "SWAP" \/ w = "OVER"
      \/ w = "ROT" \/ w = "LENGTH" \/ w \in {"ZERO", "ONE", "NULL_"}
      \/ w \in BinaryWords \/ w \in RelationWords \/ w \in ZeroRelationWords
  BY DEF StackWords
<1> QED BY <1>1, DoesNothing, DoesDup, DoesSwap, DoesOver, DoesRot, DoesLength,
           DoesConstant, DoesArithmetic, DoesRelation, DoesZeroRelation

\* A native word called on a stack that suits it
LEMMA NativeSound ==
  ASSUME NativesAsDeclared, NEW w \in Words, w \notin Interpreted, w # "IFELSE",
         NEW s \in Seq(Values), Ready(WordEffect[w], s)
  PROVE  /\ w \in StackWords /\ Arity(w) <= Len(s)
         /\ \A vs \in Results(w, Args(s, Arity(w))) :
              Upon(Below(s, Arity(w)), vs) \in After(WordEffect[w], s)
<1>1. w \in StackWords \ {"PLUS"} /\ WordEffect[w] = CoreEffect[w]
  BY DEF NativesAsDeclared
<1>2. PICK e : e = WordEffect[w]
  OBVIOUS
<1>3. DoesAs(w, e)
  BY <1>1, <1>2, StackWordsSound
<1>4. Len(e.ins) = Arity(w) /\ Len(e.ins) <= Len(s) /\ Suits(e, Args(s, Len(e.ins)))
  BY <1>2, <1>3 DEF Ready, DoesAs
<1>5. ASSUME NEW vs \in Results(w, Args(s, Arity(w)))
      PROVE  Upon(Below(s, Arity(w)), vs) \in After(e, s)
  <2>1. Keeps(e, Args(s, Arity(w)), vs)
    BY <1>3, <1>4 DEF DoesAs
  <2>2. vs \in Seq(Values)
    BY <2>1 DEF Keeps
  <2> QED BY <1>4, <2>1, <2>2 DEF After
<1> QED BY <1>1, <1>2, <1>4, <1>5

\* A literal is described as what it is.
LEMMA LiteralSound ==
  ASSUME NEW v \in Literals, NEW items \in Seq(Item), NEW s \in Seq(Values),
         Described(items, s)
  PROVE  LET t == Upon(s, <<LiteralValue(v)>>)
         IN  /\ LiteralValue(v) \in Values /\ t \in Seq(Values)
             /\ Append(items, LiteralItem(v)) \in Seq(Item)
             /\ Described(Append(items, LiteralItem(v)), t)
<1>1. PICK x : x = LiteralValue(v)
  OBVIOUS
<1>2. LiteralType[v] \in Types
  BY LiteralsAssumption
<1>3. v \notin Quotes => LiteralType[v] # "Quote"
  BY CompilerAssumption DEF Quotes
<1>4. x \in Values
  BY <1>1, <1>2, <1>3 DEF LiteralValue, Values, Types
<1>5. TypeOf(x) = LiteralType[v]
  <2>1. CASE v \in Quotes
    BY <1>1, <2>1, CompilerAssumption DEF LiteralValue, TypeOf, Quotes
  <2>2. CASE v \notin Quotes
    BY <1>1, <1>2, <2>2, InterpreterAssumption DEF LiteralValue, TypeOf
  <2> QED BY <2>1, <2>2
<1>6. v \in Quotes => x = v
  BY <1>1 DEF LiteralValue
<1>7. PICK item : item = LiteralItem(v)
  OBVIOUS
<1>8. item \in Item /\ Describes(item, x)
  BY <1>2, <1>5, <1>6, <1>7 DEF LiteralItem, Item, TypeSet, Describes
<1>9. PICK new : new = Append(items, item)
  OBVIOUS
<1>10. /\ new \in Seq(Item) /\ Len(new) = Len(items) + 1
       /\ \A k \in 1..Len(items) : new[k] = items[k]
       /\ new[Len(items) + 1] = item
  BY <1>8, <1>9
<1>11. PICK top : top = <<x>>
  OBVIOUS
<1>12. top \in Seq(Values) /\ Len(top) = 1 /\ top[1] = x
  BY <1>4, <1>11
<1>13. PICK t : t = Upon(s, top)
  OBVIOUS
<1>14. /\ t \in Seq(Values) /\ Len(t) = Len(s) + 1
       /\ \A k \in 1..Len(s) : t[k] = s[k]
       /\ t[Len(s) + 1] = x
  <2>1. /\ Upon(s, top) \in Seq(Values) /\ Len(Upon(s, top)) = Len(s) + Len(top)
        /\ \A k \in 1..Len(s) : Upon(s, top)[k] = s[k]
        /\ \A k \in 1..Len(top) : Upon(s, top)[Len(s) + k] = top[k]
    BY <1>12, UponCells
  <2>2. /\ t \in Seq(Values) /\ Len(t) = Len(s) + Len(top)
        /\ \A k \in 1..Len(s) : t[k] = s[k]
        /\ \A k \in 1..Len(top) : t[Len(s) + k] = top[k]
    BY <1>13, <2>1, Zenon
  <2> QED BY <1>12, <2>2
<1>15. Len(s) = Len(items) /\ \A k \in 1..Len(s) : Describes(items[k], s[k])
  BY DEF Described
<1>16. Described(new, t)
  <2>1. ASSUME NEW k \in 1..Len(t) PROVE Describes(new[k], t[k])
    <3>1. CASE k \in 1..Len(s)
      BY <1>10, <1>14, <1>15, <3>1
    <3>2. CASE k \notin 1..Len(s)
      <4>1. k = Len(s) + 1
        BY <1>14, <3>2
      <4> QED BY <1>8, <1>10, <1>14, <1>15, <4>1
    <3> QED BY <3>1, <3>2
  <2> QED BY <1>10, <1>14, <1>15, <2>1 DEF Described
<1> QED BY <1>1, <1>4, <1>7, <1>9, <1>10, <1>11, <1>13, <1>14, <1>16

\* The effect of IFELSE for two quotations
LEMMA IfElseParts ==
  ASSUME NEW a \in StackEffect, NEW b \in StackEffect,
         NEW e, e = IfElseEffect(a, b),
         NEW ins, ins = IfElseInputs(a.ins, b.ins)
  PROVE  /\ e \in StackEffect /\ ins \in Seq(TypeSet)
         /\ Len(e.ins) = Len(ins) + 3
         /\ \A k \in 1..Len(ins) : e.ins[k] = ins[k]
         /\ e.outs = IfElseOutputs(a.outs, b.outs)
         /\ e.max + 3 >= a.max /\ e.max + 3 >= b.max
<1> DEFINE three == <<AnyType, {"Quote"}, {"Quote"}>>
           m == AtLeast(0, AtLeast(a.max, b.max) - 3)
           f == [ins |-> ins \o three, outs |-> IfElseOutputs(a.outs, b.outs),
                 max |-> a.max]
<1>1. e = WithMax(f, m)
  BY DEF IfElseEffect
<1>2. /\ a.ins \in Seq(TypeSet) /\ b.ins \in Seq(TypeSet)
      /\ a.max \in 0..kUnknownMax /\ b.max \in 0..kUnknownMax
  BY EffectFields
<1>3. ins \in Seq(TypeSet)
  BY <1>2, IfElseInputsOK
<1>4. three \in Seq(TypeSet) /\ Len(three) = 3
  BY TypeSetClosed
<1>5. e = [f EXCEPT !.max = AtMost(AtLeast(AtLeast(m, Net(f)), f.max), kUnknownMax)]
  BY <1>1 DEF WithMax
<1>6. /\ e.ins = ins \o three /\ e.outs = IfElseOutputs(a.outs, b.outs)
      /\ e.max = AtMost(AtLeast(AtLeast(m, Net(f)), a.max), kUnknownMax)
  BY <1>5
<1> HIDE DEF three
<1>7. /\ Len(ins \o three) = Len(ins) + 3
      /\ \A k \in 1..Len(ins) : (ins \o three)[k] = ins[k]
  <2> PICK n \in Nat : n = Len(ins)
    BY <1>3
  <2>1. /\ Len(ins \o three) = n + 3
        /\ \A k \in 1..(n + 3) :
             (ins \o three)[k] = IF k <= n THEN ins[k] ELSE three[k - n]
    <3>1. /\ Len(ins \o three) = Len(ins) + Len(three)
          /\ \A k \in 1..(Len(ins) + Len(three)) :
               (ins \o three)[k] = IF k <= Len(ins) THEN ins[k]
                                                  ELSE three[k - Len(ins)]
      BY <1>3, <1>4, ConcatProperties, Zenon
    <3> QED BY <1>4, <3>1, Zenon
  <2>2. \A k \in 1..n : k \in 1..(n + 3) /\ k <= n
    OBVIOUS
  <2>3. PICK both : both = ins \o three
    OBVIOUS
  <2>4. /\ Len(both) = n + 3
        /\ \A k \in 1..(n + 3) :
             both[k] = IF k <= n THEN ins[k] ELSE three[k - n]
    BY <2>1, <2>3, Zenon
  <2>5. Len(both) = Len(ins) + 3 /\ \A k \in 1..Len(ins) : both[k] = ins[k]
    BY <2>2, <2>4
  <2> QED BY <2>3, <2>5, Zenon
<1>8. m \in 0..kUnknownMax /\ m + 3 >= a.max /\ m + 3 >= b.max
  BY <1>2, MaxNat DEF AtLeast
<1>9. AtLeast(m, Net(f)) >= m \/ Net(f) \notin Int
  BY <1>8 DEF AtLeast
<1>10. e \in StackEffect
  BY IfElseEffectOK
<1>11. e.max \in 0..kUnknownMax
  BY <1>10, EffectFields
<1>12. Net(f) \in Int
  <2>1. e.ins \in Seq(TypeSet) /\ e.outs \in Seq(Output)
    BY <1>10, EffectFields
  <2>2. Len(e.ins) \in Nat /\ Len(e.outs) \in Nat
    BY <2>1
  <2>3. f.ins = e.ins /\ f.outs = e.outs
    BY <1>6
  <2> QED BY <2>2, <2>3 DEF Net
<1> HIDE DEF f, m
<1>13. e.max >= m
  BY <1>2, <1>6, <1>8, <1>12, MaxNat DEF AtLeast, AtMost
<1>14. e.max + 3 >= a.max /\ e.max + 3 >= b.max
  BY <1>2, <1>8, <1>11, <1>13, MaxNat
<1> QED BY <1>3, <1>6, <1>7, <1>10, <1>14

\* A quotation that does what the effect e of IFELSE says can be called where
\* the three topmost items are dropped, and leaves what e says.
LEMMA QuotationDoes ==
  ASSUME NEW q \in StackEffect, NEW e \in StackEffect, NEW ins \in Seq(TypeSet),
         Len(e.ins) = Len(ins) + 3, \A k \in 1..Len(ins) : e.ins[k] = ins[k],
         Implements(q, ins, e.outs),
         NEW items \in Seq(Item), Accepts(e, items),
         NEW s \in Seq(Values), Described(items, s)
  PROVE  /\ 3 <= Len(s) /\ Ready(q, Below(s, 3))
         /\ \A t \in After(q, Below(s, 3)) :
              t \in Seq(Values) /\ Described(ItemsAfter(e, items), t)
<1>1. PICK n \in Nat : n = Len(ins)
  OBVIOUS
<1>2. PICK l \in Nat : l = Len(items) /\ l = Len(s)
  BY DEF Described
<1>3. PICK m \in Nat : m = Len(q.ins)
  BY EffectFields
<1>4. PICK extra \in Int : extra = n - m
  OBVIOUS
<1>5. PICK below \in Int : below = l - (n + 3)
  OBVIOUS
<1>6. PICK p \in Nat : p = Len(q.outs)
  BY EffectFields
<1>7. /\ extra \in Nat /\ Len(e.outs) = p + extra
      /\ \A k \in 1..m : ins[extra + k] \subseteq q.ins[k]
      /\ \A k \in 1..(p + extra) :
           /\ e.outs[k].match = 0
           /\ IF k <= extra
                THEN ins[k] \subseteq e.outs[k].types
                ELSE /\ q.outs[k - extra].match = 0
                     /\ q.outs[k - extra].types \subseteq e.outs[k].types
  <2>1. /\ Len(ins) - Len(q.ins) >= 0
        /\ Len(e.outs) = Len(q.outs) + (Len(ins) - Len(q.ins))
        /\ \A k \in 1..Len(q.ins) :
             ins[Len(ins) - Len(q.ins) + k] \subseteq q.ins[k]
        /\ \A k \in 1..Len(e.outs) :
             /\ e.outs[k].match = 0
             /\ IF k <= Len(ins) - Len(q.ins)
                  THEN ins[k] \subseteq e.outs[k].types
                  ELSE /\ q.outs[k - (Len(ins) - Len(q.ins))].match = 0
                       /\ q.outs[k - (Len(ins) - Len(q.ins))].types
                            \subseteq e.outs[k].types
    BY Zenon DEF Implements
  <2>2. Len(ins) - Len(q.ins) = extra /\ Len(q.ins) = m /\ Len(q.outs) = p
    BY <1>1, <1>3, <1>4, <1>6
  <2>3. /\ extra >= 0 /\ Len(e.outs) = p + extra
        /\ \A k \in 1..m : ins[extra + k] \subseteq q.ins[k]
        /\ \A k \in 1..Len(e.outs) :
             /\ e.outs[k].match = 0
             /\ IF k <= extra
                  THEN ins[k] \subseteq e.outs[k].types
                  ELSE /\ q.outs[k - extra].match = 0
                       /\ q.outs[k - extra].types \subseteq e.outs[k].types
    BY <2>1, <2>2, Zenon
  <2>4. extra \in Nat
    BY <2>3
  <2> QED BY <2>3, <2>4, Zenon
<1>8. below \in Nat /\ n + 3 <= l
  BY <1>1, <1>2, <1>5 DEF Accepts
<1>9. ASSUME NEW k \in 1..n
      PROVE  /\ items[below + k].types \subseteq ins[k]
             /\ Describes(items[below + k], s[below + k])
  <2>1. /\ n + 3 - k \in 0..(n + 3 - 1) /\ l - (n + 3 - k) = below + k
        /\ n + 3 - (n + 3 - k) = k /\ below + k \in 1..l
    BY <1>5, <1>8
  <2>2. FromTop(items, n + 3 - k).types \subseteq FromTop(e.ins, n + 3 - k)
    BY <1>1, <2>1 DEF Accepts, TypeCheck
  <2>3. items[below + k].types \subseteq e.ins[k]
    BY <1>1, <1>2, <2>1, <2>2 DEF FromTop
  <2>4. Describes(items[below + k], s[below + k])
    BY <1>2, <2>1 DEF Described
  <2> QED BY <1>1, <2>3, <2>4
<1>10. PICK c : c = Below(s, 3)
  OBVIOUS
<1>11. c \in Seq(Values) /\ Len(c) = l - 3 /\ \A k \in 1..(l - 3) : c[k] = s[k]
  <2>1. 3 \in 0..Len(s)
    BY <1>1, <1>2, <1>8
  <2>2. /\ Below(s, 3) \in Seq(Values) /\ Len(Below(s, 3)) = Len(s) - 3
        /\ \A k \in 1..(Len(s) - 3) : Below(s, 3)[k] = s[k]
    BY <2>1, BelowCells
  <2>3. Len(s) - 3 = l - 3
    BY <1>2
  <2> QED BY <1>10, <2>2, <2>3, Zenon
<1>12. m \in 0..Len(c) /\ Len(c) - m = below + extra
  BY <1>4, <1>5, <1>7, <1>8, <1>11
<1>13. PICK a : a = Args(c, m)
  OBVIOUS
<1>14. a \in Seq(Values) /\ Len(a) = m /\ \A k \in 1..m : a[k] = s[below + extra + k]
  <2>1. a \in Seq(Values) /\ Len(a) = m /\ \A k \in 1..m : a[k] = c[Len(c) - m + k]
    <3>1. <<>> \in Seq(Values)
      OBVIOUS
    <3>2. /\ Args(c, m) \in Seq(Values) /\ Len(Args(c, m)) = m
          /\ \A k \in 1..m : Args(c, m)[k] = c[Len(c) - m + k]
      <4>1. m \in 0..Len(c)
        BY <1>12
      <4>2. c \in Seq(Values)
        BY <1>11
      <4> QED BY <3>1, <4>1, <4>2, AfterCells
    <3> QED BY <1>13, <3>2, Zenon
  <2>2. \A k \in 1..m : Len(c) - m + k \in 1..(l - 3)
    BY <1>11, <1>12
  <2> QED BY <1>11, <1>12, <2>1, <2>2
<1>15. ASSUME NEW k \in 1..m PROVE Fits(q.ins[k], a[k])
  <2>1. extra + k \in 1..n /\ below + (extra + k) = below + extra + k
    BY <1>4, <1>5, <1>7
  <2>2. /\ items[below + extra + k].types \subseteq ins[extra + k]
        /\ Describes(items[below + extra + k], s[below + extra + k])
    BY <1>9, <2>1
  <2>3. ins[extra + k] \subseteq q.ins[k]
    BY <1>7
  <2> QED BY <1>14, <2>2, <2>3 DEF Describes, Fits
<1>16. Ready(q, c)
  <2>1. Suits(q, a)
    BY <1>3, <1>14, <1>15 DEF Suits
  <2> QED BY <1>3, <1>12, <1>13, <2>1 DEF Ready
<1>17. ASSUME NEW t \in After(q, c)
       PROVE  t \in Seq(Values) /\ Described(ItemsAfter(e, items), t)
  <2>1. PICK new : new = ItemsAfter(e, items)
    OBVIOUS
  <2>2. /\ new \in Seq(Item) /\ Len(new) = below + (p + extra)
        /\ \A k \in 1..below : new[k] = items[k]
        /\ \A k \in 1..(p + extra) : new[below + k] = TypeItem(e.outs[k].types)
    <3>1. below = Len(items) - Len(e.ins)
      BY <1>1, <1>2, <1>5
    <3>2. LeavesItems(e, items, below, new)
      BY <2>1, <3>1, ItemsAfterCells
    <3> QED BY <1>7, <3>2 DEF LeavesItems
  <2>3. PICK r \in Seq(Values) : Keeps(q, a, r) /\ t = Upon(Below(c, m), r)
    BY <1>3, <1>13 DEF After
  <2>4. Len(r) = p
    BY <1>6, <2>3 DEF Keeps
  <2>5. /\ t \in Seq(Values) /\ Len(t) = below + extra + p
        /\ \A k \in 1..(below + extra) : t[k] = c[k]
        /\ \A k \in 1..p : t[below + extra + k] = r[k]
    <3>1. PICK b : b = Below(c, m)
      OBVIOUS
    <3>2. /\ b \in Seq(Values) /\ Len(b) = below + extra
          /\ \A k \in 1..(below + extra) : b[k] = c[k]
      <4>1. c \in Seq(Values) /\ m \in 0..Len(c) /\ Len(c) - m = below + extra
        BY <1>11, <1>12
      <4>2. /\ b \in Seq(Values) /\ Len(b) = Len(c) - m
            /\ \A k \in 1..(Len(c) - m) : b[k] = c[k]
        BY <3>1, <4>1 DEF Below
      <4> QED BY <4>1, <4>2, Zenon
    <3>3. /\ Upon(b, r) \in Seq(Values) /\ Len(Upon(b, r)) = Len(b) + Len(r)
          /\ \A k \in 1..Len(b) : Upon(b, r)[k] = b[k]
          /\ \A k \in 1..Len(r) : Upon(b, r)[Len(b) + k] = r[k]
      BY <3>2, UponCells
    <3>4. /\ t \in Seq(Values) /\ Len(t) = Len(b) + Len(r)
          /\ \A k \in 1..Len(b) : t[k] = b[k]
          /\ \A k \in 1..Len(r) : t[Len(b) + k] = r[k]
      BY <2>3, <3>1, <3>3, Zenon
    <3> QED BY <2>4, <3>2, <3>4
  <2>6. ASSUME NEW k \in 1..below PROVE Describes(new[k], t[k])
    <3>1. k \in 1..(below + extra) /\ k \in 1..(l - 3) /\ k \in 1..l
      BY <1>5, <1>7, <1>8
    <3>2. t[k] = s[k]
      BY <1>11, <2>5, <3>1
    <3>3. Describes(items[k], s[k])
      BY <1>2, <3>1 DEF Described
    <3> QED BY <2>2, <3>2, <3>3
  <2>7. ASSUME NEW k \in 1..(p + extra) PROVE Describes(new[below + k], t[below + k])
    <3>1. Fits(e.outs[k].types, t[below + k])
      <4>1. CASE k <= extra
        <5>1. k \in 1..n /\ below + k \in 1..(below + extra) /\ below + k \in 1..(l - 3)
          BY <1>4, <1>5, <1>7, <1>8, <4>1
        <5>2. t[below + k] = s[below + k]
          BY <1>11, <2>5, <5>1
        <5>3. ins[k] \subseteq e.outs[k].types
          BY <1>7, <4>1
        <5> QED BY <1>9, <5>1, <5>2, <5>3 DEF Describes, Fits
      <4>2. CASE ~(k <= extra)
        <5>1. PICK j \in 1..p : j = k - extra
          BY <1>7, <4>2
        <5>2. below + k = below + extra + j
          BY <1>7, <5>1
        <5>3. t[below + k] = r[j]
          BY <2>5, <5>2
        <5>4. q.outs[j].match = 0 /\ q.outs[j].types \subseteq e.outs[k].types
          BY <1>7, <4>2, <5>1
        <5>5. Fits(q.outs[j].types, r[j])
          BY <2>3, <2>4, <5>4 DEF Keeps
        <5> QED BY <5>3, <5>4, <5>5 DEF Fits
      <4> QED BY <4>1, <4>2
    <3> QED BY <2>2, <3>1, FitsDescribed
  <2>8. ASSUME NEW k \in 1..Len(t) PROVE Describes(new[k], t[k])
    <3>1. k \in 1..below \/ (k - below \in 1..(p + extra) /\ below + (k - below) = k)
      BY <1>7, <1>8, <2>5
    <3> QED BY <2>6, <2>7, <3>1
  <2>9. Len(t) = Len(new)
    BY <1>7, <1>8, <2>2, <2>5
  <2> QED BY <2>1, <2>5, <2>8, <2>9 DEF Described
<1> QED BY <1>2, <1>8, <1>10, <1>16, <1>17

\* IFELSE finds two quotations, and each of them leaves what is memoized.
LEMMA IfElseDescribed ==
  ASSUME Approved, QuotesAgree, NEW i \in DOMAIN known, words[i].word = "IFELSE",
         NEW s \in Seq(Values), Described(known[i], s),
         NEW k \in {Len(s) - 1, Len(s)}
  PROVE  /\ 3 <= Len(s) /\ s[k] \in Quotes
         /\ Ready(QuoteEffect[s[k]], Below(s, 3))
         /\ \A t \in After(QuoteEffect[s[k]], Below(s, 3)) :
              t \in Seq(Values) /\ Described(Outcome(i, known[i]), t)
         /\ Len(s) - 3 + QuoteEffect[s[k]].max <= Peak(i)
<1>1. PICK items \in Seq(Item) : items = known[i]
  BY ApprovedFacts
<1>2. PICK e : e = NextEffect(i, items)
  OBVIOUS
<1>3. /\ e \in StackEffect /\ Accepts(e, items)
      /\ Outcome(i, items) = ItemsAfter(e, items)
  BY <1>1, <1>2, NextTyped
<1>4. PICK q1, q2 : q1 = LiteralAt(items, 1) /\ q2 = LiteralAt(items, 0)
  OBVIOUS
<1>5. IfElseError(items) = NoError
  BY <1>1, ApprovedFacts DEF CheckedAt
<1>6. IsQuote(q1) /\ IsQuote(q2) /\ Net(QuoteEffect[q1]) = Net(QuoteEffect[q2])
  BY <1>4, <1>5 DEF IfElseError, NoError
<1>7. q1 \in Quotes /\ q2 \in Quotes
  BY <1>6 DEF IsQuote, Quotes
<1>8. e = IfElseEffect(QuoteEffect[q1], QuoteEffect[q2])
  BY <1>2, <1>4, CompilerAssumption DEF NextEffect
<1>9. PICK a, b : a = QuoteEffect[q1] /\ b = QuoteEffect[q2]
  OBVIOUS
<1>10. a \in StackEffect /\ b \in StackEffect
  BY <1>7, <1>9, CompilerAssumption DEF Quotes
<1>11. PICK ins : ins = IfElseInputs(a.ins, b.ins)
  OBVIOUS
<1>12. /\ ins \in Seq(TypeSet) /\ Len(e.ins) = Len(ins) + 3
       /\ \A j \in 1..Len(ins) : e.ins[j] = ins[j]
       /\ e.outs = IfElseOutputs(a.outs, b.outs)
       /\ e.max + 3 >= a.max /\ e.max + 3 >= b.max
  <2>1. e = IfElseEffect(a, b)
    BY <1>8, <1>9
  <2> QED BY <1>10, <1>11, <2>1, IfElseParts
<1>13. Implements(a, ins, e.outs) /\ Implements(b, ins, e.outs)
  BY <1>6, <1>7, <1>9, <1>11, <1>12 DEF QuotesAgree
<1>14. /\ Described(items, s) /\ Len(items) = Len(s) /\ Len(s) \in Nat
  BY <1>1 DEF Described
<1>15. 3 <= Len(s)
  BY <1>3, <1>10, <1>12, <1>13, <1>14, QuotationDoes
<1>16. s[Len(s) - 1] = q1 /\ s[Len(s)] = q2
  <2>1. items[Len(s) - 1].lit = q1
    BY <1>4, <1>14, <1>15 DEF LiteralAt, FromTop
  <2>2. items[Len(s)].lit = q2
    BY <1>4, <1>14, <1>15 DEF LiteralAt, FromTop
  <2>3. Len(s) - 1 \in 1..Len(s) /\ Len(s) \in 1..Len(s)
    BY <1>14, <1>15
  <2>4. /\ Describes(items[Len(s) - 1], s[Len(s) - 1])
        /\ Describes(items[Len(s)], s[Len(s)])
    BY <1>14, <2>3 DEF Described
  <2> QED BY <1>7, <2>1, <2>2, <2>4 DEF Describes
<1>17. PICK q : q = QuoteEffect[s[k]]
  OBVIOUS
<1>18. s[k] \in Quotes /\ (q = a \/ q = b)
  BY <1>7, <1>9, <1>16, <1>17
<1>19. q \in StackEffect /\ Implements(q, ins, e.outs) /\ e.max + 3 >= q.max
  BY <1>10, <1>12, <1>13, <1>18
<1>20. /\ Ready(q, Below(s, 3))
       /\ \A t \in After(q, Below(s, 3)) :
            t \in Seq(Values) /\ Described(ItemsAfter(e, items), t)
  BY <1>3, <1>12, <1>14, <1>19, QuotationDoes
<1>21. Len(s) - 3 + q.max <= Peak(i)
  <2>1. Peak(i) = Len(s) + e.max
    BY <1>1, <1>2, <1>14, CompilerAssumption DEF Peak
  <2>2. q.max \in Nat /\ e.max \in Nat
    BY <1>3, <1>19, EffectFields, MaxNat
  <2> QED BY <1>14, <1>19, <2>1, <2>2
<1> QED BY <1>1, <1>3, <1>15, <1>17, <1>18, <1>20, <1>21

-----------------------------------------------------------------------------
(* The memoized stacks are a certificate *)

\* The machine is before the native word at i, with a stack memoized there.
AtNative(x, i) ==
  /\ x \in State /\ Suits(Promise, x.ins) /\ x.left = 0
  /\ i \in Live \cap DOMAIN known /\ x.cell = StartOf(i)
  /\ IsNative(words[i].word) /\ Described(known[i], x.cur)

LEMMA EntersAt ==
  ASSUME Approved, NEW x \in State, Suits(Promise, x.ins), x.left = 0,
         NEW j \in Live \cap DOMAIN known,
         IsNative(words[j].word) \/ j \in DOMAIN interpWord,
         NEW s \in Seq(Values), Described(known[j], s), NEW c, c = StartOf(j)
  PROVE  Moved(x, c, s) \in MainStates
<1>1. c \in Int
  BY CodeOfWord, ApprovedFacts
<1>2. PICK y : y = Moved(x, c, s)
  OBVIOUS
<1>3. y \in State /\ y.cell = c /\ y.cur = s /\ y.ins = x.ins /\ y.left = 0
  BY <1>1, <1>2, MovedParts
<1>4. MachineAt(j, y)
  BY <1>3 DEF MachineAt
<1>5. y \in MainStates
  BY <1>3, <1>4 DEF MainStates
<1> QED BY <1>2, <1>5

\* Control goes on behind a native word.
LEMMA GoesOn ==
  ASSUME Approved, NEW i, NEW x, AtNative(x, i), i + 1 \in Successors(i),
         NEW s \in Seq(Values), Described(Outcome(i, known[i]), s),
         Outcome(i, known[i]) \in Seq(Item), NEW c,
         c = x.cell + Parameters(words[i].word) + 1
  PROVE  Moved(x, c, s) \in MainStates
<1>1. /\ x \in State /\ Suits(Promise, x.ins) /\ x.left = 0
      /\ i \in Live \cap DOMAIN known /\ x.cell = StartOf(i)
      /\ IsNative(words[i].word)
  BY DEF AtNative
<1>2. GenInv /\ phase = "compiled"
  BY ApprovedFacts
<1>3. i + 1 \in Live \cap DOMAIN known /\ Described(known[i + 1], s)
  BY <1>1, Leads
<1>4. StartOf(i + 1) = StartOf(i) + Size(i)
  BY <1>1, <1>2, <1>3, NextStart
<1>5. Size(i) = Parameters(words[i].word) + 1
  BY <1>1, <1>2, Sizes
<1>6. StartOf(i) \in Nat /\ Parameters(words[i].word) \in Nat
  BY <1>1, <1>2, CodeOfWord DEF Parameters
<1>7. c = StartOf(i + 1)
  BY <1>1, <1>4, <1>5, <1>6
<1>8. IsNative(words[i + 1].word) \/ i + 1 \in DOMAIN interpWord
  BY <1>1, <1>2, <1>3, NextEntered
<1> QED BY <1>1, <1>3, <1>7, <1>8, EntersAt

\* A branch leads to its target.
LEMMA GoesTo ==
  ASSUME Approved, NEW i, NEW x, AtNative(x, i), IsBranch(words[i].word),
         NEW s \in Seq(Values), Described(Outcome(i, known[i]), s),
         Outcome(i, known[i]) \in Seq(Item)
  PROVE  Moved(x, Target(instrs, x.cell), s) \in MainStates
<1>1. /\ x \in State /\ Suits(Promise, x.ins) /\ x.left = 0
      /\ i \in Live \cap DOMAIN known /\ x.cell = StartOf(i)
  BY DEF AtNative
<1>2. GenInv /\ phase = "compiled"
  BY ApprovedFacts
<1>3. PICK t : t = words[i].branchTo
  OBVIOUS
<1>4. t \in Live \cap DOMAIN known /\ Described(known[t], s)
  BY <1>1, <1>3, Leads DEF Successors
<1>5. t # 0 /\ ~Dangling(i)
  BY <1>2, <1>3, <1>4, FinalFacts DEF Dangling
<1>6. /\ Target(instrs, StartOf(i)) = StartOf(t)
      /\ IsNative(words[t].word) \/ t \in DOMAIN interpWord
  BY <1>1, <1>2, <1>3, <1>5, BranchLands
<1> QED BY <1>1, <1>4, <1>6, EntersAt

\* A native word that only works on the stack
LEMMA StackOpStays ==
  ASSUME Approved, NativesAsDeclared, NEW i, NEW x, AtNative(x, i),
         words[i].word \in Words, words[i].word # "IFELSE"
  PROVE  LET w == words[i].word
         IN  /\ w \in StackWords /\ Arity(w) <= Len(x.cur)
             /\ \A vs \in Results(w, Args(x.cur, Arity(w))) :
                  Moved(x, x.cell + 1, Upon(Below(x.cur, Arity(w)), vs))
                    \in MainStates
<1>1. PICK w : w = words[i].word
  OBVIOUS
<1>2. w \in Words /\ w # "IFELSE" /\ w \notin SpecialWords /\ w \notin Interpreted
  BY <1>1, CompilerAssumption DEF AtNative, IsNative
<1>3. i \in DOMAIN known /\ x.cur \in Seq(Values) /\ Described(known[i], x.cur)
      /\ known[i] \in Seq(Item)
  BY ApprovedFacts DEF AtNative, State
<1>4. PICK e : e = NextEffect(i, known[i])
  OBVIOUS
<1>5. e = WordEffect[w]
  BY <1>1, <1>2, <1>4 DEF NextEffect, SpecialWords
<1>6. /\ e \in StackEffect /\ Accepts(e, known[i])
      /\ Outcome(i, known[i]) = ItemsAfter(e, known[i])
      /\ Outcome(i, known[i]) \in Seq(Item)
  BY <1>1, <1>2, <1>3, <1>4, NextTyped DEF SpecialWords
<1>7. Ready(e, x.cur)
  BY <1>3, <1>6, AcceptedReady
<1>8. /\ w \in StackWords /\ Arity(w) <= Len(x.cur)
      /\ \A vs \in Results(w, Args(x.cur, Arity(w))) :
           Upon(Below(x.cur, Arity(w)), vs) \in After(e, x.cur)
  BY <1>2, <1>3, <1>5, <1>7, NativeSound
<1>9. i + 1 \in Successors(i) /\ Parameters(w) = 0
  BY <1>1, <1>2 DEF Successors, SpecialWords, Parameters
<1>10. ASSUME NEW t \in After(e, x.cur)
       PROVE  Moved(x, x.cell + 1, t) \in MainStates
  <2>1. t \in Seq(Values) /\ Described(Outcome(i, known[i]), t)
    BY <1>3, <1>6, AfterDescribed
  <2>2. x.cell + 1 = x.cell + Parameters(words[i].word) + 1
    <3>1. x.cell \in Int
      BY DEF AtNative, State
    <3> QED BY <1>1, <1>9, <3>1
  <2> QED BY <1>6, <1>9, <2>1, <2>2, GoesOn
<1> QED BY <1>1, <1>8, <1>10

LEMMA LiteralOpStays ==
  ASSUME Approved, NEW i, NEW x, AtNative(x, i), words[i].word = "_LITERAL"
  PROVE  LET v == LiteralValue(instrs[x.cell + 1].literal)
         IN  v \in Values /\ Moved(x, x.cell + 2, Upon(x.cur, <<v>>)) \in MainStates
<1>1. i \in Live \cap DOMAIN known /\ x.cur \in Seq(Values)
      /\ Described(known[i], x.cur) /\ known[i] \in Seq(Item) /\ x.cell \in Int
      /\ x.cell = StartOf(i)
  BY ApprovedFacts DEF AtNative, State
<1>2. PICK v : v = words[i].lit
  OBVIOUS
<1>3. v \in Literals
  <2>1. Finished(words) /\ i \in DOMAIN words
    BY <1>1, ApprovedFacts
  <2> QED BY <1>2, <2>1, FlowInside
<1>4. instrs[x.cell + 1].literal = v
  <2>1. instrs[StartOf(i) + 1] = LiteralCell(v)
    BY <1>1, <1>2, ApprovedFacts, CodeOfWord
  <2> QED BY <1>1, <2>1 DEF LiteralCell
<1>5. PICK s : s = Upon(x.cur, <<LiteralValue(v)>>)
  OBVIOUS
<1>6. /\ LiteralValue(v) \in Values /\ s \in Seq(Values)
      /\ Append(known[i], LiteralItem(v)) \in Seq(Item)
      /\ Described(Append(known[i], LiteralItem(v)), s)
  BY <1>1, <1>3, <1>5, LiteralSound
<1>7. Outcome(i, known[i]) = Append(known[i], LiteralItem(v))
  BY <1>2 DEF Outcome
<1>8. i + 1 \in Successors(i) /\ Parameters(words[i].word) = 1
  BY DEF Successors, Parameters
<1>9. x.cell + 2 = x.cell + Parameters(words[i].word) + 1
  BY <1>1, <1>8
<1>10. Moved(x, x.cell + 2, s) \in MainStates
  BY <1>6, <1>7, <1>8, <1>9, GoesOn
<1> QED BY <1>4, <1>5, <1>6, <1>10

LEMMA BranchOpStays ==
  ASSUME Approved, NEW i, NEW x, AtNative(x, i), words[i].word = "_BRANCH"
  PROVE  Moved(x, Target(instrs, x.cell), x.cur) \in MainStates
<1>1. x.cur \in Seq(Values) /\ Described(known[i], x.cur) /\ known[i] \in Seq(Item)
  BY ApprovedFacts DEF AtNative, State
<1>2. Outcome(i, known[i]) = known[i]
  BY <1>1, BranchLeaves
<1> QED BY <1>1, <1>2, GoesTo DEF IsBranch

LEMMA ZBranchOpStays ==
  ASSUME Approved, NEW i, NEW x, AtNative(x, i), words[i].word = "_ZBRANCH"
  PROVE  /\ 1 <= Len(x.cur)
         /\ Moved(x, x.cell + 2, Below(x.cur, 1)) \in MainStates
         /\ Moved(x, Target(instrs, x.cell), Below(x.cur, 1)) \in MainStates
<1>1. i \in DOMAIN known /\ x.cur \in Seq(Values) /\ Described(known[i], x.cur)
      /\ known[i] \in Seq(Item) /\ x.cell \in Int
  BY ApprovedFacts DEF AtNative, State
<1>2. PICK e : e = NextEffect(i, known[i])
  OBVIOUS
<1>3. Declares(e, <<AnyType>>, <<>>)
  <2>1. <<AnyType>> \in Seq(TypeSet) /\ <<>> \in Seq(Output)
    BY TypeSetClosed
  <2>2. \A k \in DOMAIN <<>> : <<>>[k].match <= Len(<<AnyType>>)
    OBVIOUS
  <2>3. e = Effect(<<AnyType>>, <<>>)
    BY <1>2 DEF NextEffect
  <2> QED BY <2>1, <2>2, <2>3, EffectDeclares
<1>4. Len(e.ins) = 1 /\ e.outs = <<>>
  BY <1>3 DEF Declares
<1>5. /\ e \in StackEffect /\ Accepts(e, known[i])
      /\ Outcome(i, known[i]) = ItemsAfter(e, known[i])
      /\ Outcome(i, known[i]) \in Seq(Item)
  BY <1>1, <1>2, NextTyped
<1>6. Ready(e, x.cur)
  BY <1>1, <1>5, AcceptedReady
<1>7. 1 <= Len(x.cur)
  BY <1>4, <1>6 DEF Ready
<1>8. PICK s : s = Below(x.cur, 1)
  OBVIOUS
<1>9. s \in Seq(Values)
  BY <1>1, <1>7, <1>8 DEF Below
<1>10. s \in After(e, x.cur)
  <2>1. <<>> \in Seq(Values) /\ Keeps(e, Args(x.cur, 1), <<>>)
    BY <1>4 DEF Keeps
  <2>2. Upon(s, <<>>) = s
    BY <1>9, UponNone
  <2> QED BY <1>4, <1>8, <2>1, <2>2 DEF After
<1>11. Described(Outcome(i, known[i]), s)
  BY <1>1, <1>5, <1>10, AfterDescribed
<1>12. i + 1 \in Successors(i) /\ Parameters(words[i].word) = 1
  BY DEF Successors, Parameters
<1>13. x.cell + 2 = x.cell + Parameters(words[i].word) + 1
  BY <1>1, <1>12
<1>14. Moved(x, x.cell + 2, s) \in MainStates
  BY <1>5, <1>9, <1>11, <1>12, <1>13, GoesOn
<1>15. Moved(x, Target(instrs, x.cell), s) \in MainStates
  BY <1>5, <1>9, <1>11, GoesTo DEF IsBranch
<1> QED BY <1>7, <1>8, <1>14, <1>15

LEMMA IfElseOpStays ==
  ASSUME Approved, QuotesAgree, NEW i, NEW x, AtNative(x, i),
         words[i].word = "IFELSE"
  PROVE  /\ 3 <= Len(x.cur)
         /\ \A k \in {Len(x.cur) - 1, Len(x.cur)} :
              /\ x.cur[k] \in Quotes
              /\ Ready(QuoteEffect[x.cur[k]], Below(x.cur, 3))
              /\ \A s \in After(QuoteEffect[x.cur[k]], Below(x.cur, 3)) :
                   Moved(x, x.cell + 1, s) \in MainStates
<1>1. i \in DOMAIN known /\ x.cur \in Seq(Values) /\ Described(known[i], x.cur)
      /\ x.cell \in Int
  BY DEF AtNative, State
<1>2. Outcome(i, known[i]) \in Seq(Item)
  BY <1>1, NextTyped
<1>3. i + 1 \in Successors(i) /\ Parameters(words[i].word) = 0
  BY DEF Successors, Parameters
<1>4. x.cell + 1 = x.cell + Parameters(words[i].word) + 1
  BY <1>1, <1>3
<1>5. 3 <= Len(x.cur)
  BY <1>1, IfElseDescribed
<1>6. ASSUME NEW k \in {Len(x.cur) - 1, Len(x.cur)}
      PROVE  /\ x.cur[k] \in Quotes
             /\ Ready(QuoteEffect[x.cur[k]], Below(x.cur, 3))
             /\ \A s \in After(QuoteEffect[x.cur[k]], Below(x.cur, 3)) :
                  Moved(x, x.cell + 1, s) \in MainStates
  <2>1. /\ x.cur[k] \in Quotes
        /\ Ready(QuoteEffect[x.cur[k]], Below(x.cur, 3))
        /\ \A t \in After(QuoteEffect[x.cur[k]], Below(x.cur, 3)) :
             t \in Seq(Values) /\ Described(Outcome(i, known[i]), t)
    BY <1>1, IfElseDescribed
  <2>2. ASSUME NEW s \in After(QuoteEffect[x.cur[k]], Below(x.cur, 3))
        PROVE  Moved(x, x.cell + 1, s) \in MainStates
    <3>1. s \in Seq(Values) /\ Described(Outcome(i, known[i]), s)
      BY <2>1
    <3> QED BY <1>2, <1>3, <1>4, <3>1, GoesOn
  <2> QED BY <2>1, <2>2
<1> QED BY <1>5, <1>6

LEMMA RecurseOpStays ==
  ASSUME Approved, NEW i, NEW x, AtNative(x, i), words[i].word = "_RECURSE"
  PROVE  /\ Target(instrs, x.cell) = 1
         /\ Len(Promise.ins) = Len(Promise.outs)
         /\ Ready(Promise, x.cur)
         /\ \A s \in After(Promise, x.cur) : Moved(x, x.cell + 2, s) \in MainStates
<1>1. /\ i \in Live \cap DOMAIN known /\ x.cur \in Seq(Values)
      /\ Described(known[i], x.cur) /\ x.cell \in Int /\ x.cell = StartOf(i)
      /\ known[i] \in Seq(Item)
  BY ApprovedFacts DEF AtNative, State
<1>2. /\ GenInv /\ RecursionInv /\ phase = "compiled" /\ effect \in StackEffect
      /\ Len(effect.ins) = Len(effect.outs)
      /\ \A k \in DOMAIN effect.outs : effect.outs[k].match = 0
  BY <1>1, ApprovedFacts DEF RecursionBalanced
<1>3. Target(instrs, x.cell) = 1
  BY <1>1, <1>2, RecurseLands
<1>4. /\ Promise.ins = effect.ins /\ Len(Promise.outs) = Len(effect.outs)
      /\ \A k \in 1..Len(effect.outs) :
           /\ Promise.outs[k].match = 0
           /\ Promise.outs[k].types = effect.outs[k].types
  BY <1>2, PromiseParts
<1>5. PICK e : e = NextEffect(i, known[i])
  OBVIOUS
<1>6. e.ins = effect.ins /\ e.outs = effect.outs
  <2>1. e = RecurseEffect(i)
    BY <1>5 DEF NextEffect
  <2>2. effect = [ins |-> effect.ins, outs |-> effect.outs, max |-> effect.max]
    BY <1>2, EffectFields
  <2> QED BY <2>1, <2>2 DEF RecurseEffect, WithUnknownMax, WithMax
<1>7. /\ e \in StackEffect /\ Accepts(e, known[i])
      /\ Outcome(i, known[i]) = ItemsAfter(e, known[i])
      /\ Outcome(i, known[i]) \in Seq(Item)
  BY <1>1, <1>5, NextTyped
<1>8. Ready(e, x.cur)
  BY <1>1, <1>7, AcceptedReady
<1>9. Ready(Promise, x.cur)
  BY <1>4, <1>6, <1>8 DEF Ready, Suits
<1>10. ASSUME NEW s \in After(Promise, x.cur)
       PROVE  Moved(x, x.cell + 2, s) \in MainStates
  <2>1. PICK n, a : n = Len(effect.ins) /\ a = Args(x.cur, n)
    OBVIOUS
  <2>2. PICK r \in Seq(Values) : Keeps(Promise, a, r) /\ s = Upon(Below(x.cur, n), r)
    BY <1>4, <2>1 DEF After
  <2>3. Keeps(e, a, r)
    <3>1. PICK m \in Nat : m = Len(effect.outs) /\ DOMAIN effect.outs = 1..m
      <4>1. effect.outs \in Seq(Output)
        BY <1>2, EffectFields
      <4> QED BY <4>1
    <3>2. Len(r) = m /\ \A k \in 1..m : Fits(effect.outs[k].types, r[k])
      BY <1>4, <2>2, <3>1 DEF Keeps
    <3> QED BY <1>2, <1>6, <3>1, <3>2 DEF Keeps
  <2>4. s \in After(e, x.cur)
    BY <1>6, <2>1, <2>2, <2>3 DEF After
  <2>5. s \in Seq(Values) /\ Described(Outcome(i, known[i]), s)
    BY <1>1, <1>7, <2>4, AfterDescribed
  <2>6. i + 1 \in Successors(i) /\ Parameters(words[i].word) = 1
    BY DEF Successors, Parameters
  <2>7. x.cell + 2 = x.cell + Parameters(words[i].word) + 1
    BY <1>1, <2>6
  <2> QED BY <1>7, <2>5, <2>6, <2>7, GoesOn
<1> QED BY <1>2, <1>3, <1>4, <1>9, <1>10

\* Every native word of the code
LEMMA NativeOpStays ==
  ASSUME Approved, NativesAsDeclared, QuotesAgree, NEW i, NEW x, AtNative(x, i)
  PROVE  OpStays(MainStates, instrs, Promise, x, words[i].word)
<1>1. PICK w : w = words[i].word
  OBVIOUS
<1>2. /\ x.cur \in Seq(Values) /\ Described(known[i], x.cur) /\ i \in DOMAIN known
      /\ w \in Words \cup SpecialWords
  <2>1. x.cur \in Seq(Values) /\ Described(known[i], x.cur) /\ i \in DOMAIN known
    BY DEF AtNative, State
  <2>2. Finished(words) /\ i \in DOMAIN words
    BY <2>1, ApprovedFacts
  <2> QED BY <1>1, <2>1, <2>2, FlowInside
<1>3. StackWords \cap SpecialWords = {} /\ "IFELSE" \notin StackWords
      /\ "IFELSE" \notin SpecialWords
  BY DEF StackWords, SpecialWords, BinaryWords, RelationWords, ZeroRelationWords
<1>4. CASE w \in Words \ {"IFELSE"}
  <2>1. /\ w \in StackWords /\ Arity(w) <= Len(x.cur)
        /\ \A vs \in Results(w, Args(x.cur, Arity(w))) :
             Moved(x, x.cell + 1, Upon(Below(x.cur, Arity(w)), vs)) \in MainStates
    BY <1>1, <1>4, StackOpStays
  <2>2. w \notin SpecialWords /\ w # "IFELSE"
    BY <1>3, <2>1
  <2> QED BY <1>1, <2>1, <2>2 DEF OpStays, Ops, SpecialWords
<1>5. CASE w = "_LITERAL"
  BY <1>1, <1>3, <1>5, LiteralOpStays DEF OpStays, Ops, SpecialWords
<1>6. CASE w = "_BRANCH"
  BY <1>1, <1>3, <1>6, BranchOpStays DEF OpStays, Ops, SpecialWords
<1>7. CASE w = "_ZBRANCH"
  <2>1. /\ 1 <= Len(x.cur)
        /\ \A truth \in Truths(x.cur[Len(x.cur)]) :
             Moved(x, IF truth THEN x.cell + 2 ELSE Target(instrs, x.cell),
                   Below(x.cur, 1)) \in MainStates
    BY <1>1, <1>7, ZBranchOpStays
  <2> QED BY <1>1, <1>3, <1>7, <2>1 DEF OpStays, Ops, SpecialWords
<1>8. CASE w = "_RETURN"
  <2>1. Keeps(Promise, x.ins, x.cur)
    BY <1>1, <1>2, <1>8, ReturnKeeps
  <2> QED BY <1>1, <1>3, <1>8, <2>1 DEF OpStays, Ops, SpecialWords
<1>9. CASE w = "IFELSE"
  BY <1>1, <1>3, <1>9, IfElseOpStays DEF OpStays, Ops, SpecialWords
<1>10. CASE w = "_RECURSE"
  BY <1>1, <1>3, <1>10, RecurseOpStays DEF OpStays, Ops, SpecialWords
<1> QED BY <1>2, <1>4, <1>5, <1>6, <1>7, <1>8, <1>9, <1>10 DEF SpecialWords

\* A call in a group
LEMMA GroupStays ==
  ASSUME Approved, NEW x \in State, Suits(Promise, x.ins),
         NEW h \in DOMAIN interpWord, NEW i \in Members(h),
         i \in Live \cap DOMAIN known, x.cell = CellOf(i),
         x.left = h + interpWord[h].count - i, x.tail = interpWord[h].tail,
         Described(known[i], x.cur)
  PROVE  CallStays(MainStates, instrs, Promise, x)
<1>1. GenInv /\ phase = "compiled"
  BY ApprovedFacts
<1>2. PICK count \in Nat : count = interpWord[h].count
  BY <1>1, GroupFacts
<1>3. /\ h \in Nat /\ x.tail = ReturnsImmediately(words, h + count)
      /\ \A m \in Members(h) :
           /\ m \in Live /\ ~IsNative(words[m].word)
           /\ CellOf(m) = StartOf(h) + 1 + (m - h)
  BY <1>1, <1>2, GroupFacts
<1>4. /\ i \in Nat /\ h <= i /\ i <= h + count - 1
      /\ \A m \in Nat : h <= m /\ m <= h + count - 1 => m \in Members(h)
  BY <1>2, <1>3 DEF Members
<1>5. x.left = h + count - i /\ x.left \in Nat /\ x.cell \in Nat
  <2>1. x.left \in Nat
    BY DEF State
  <2>2. x.cell \in Nat
    BY <1>1, CodeOfWord
  <2> QED BY <1>2, <2>1, <2>2
<1>6. PICK w : w = words[i].word
  OBVIOUS
<1>7. w \in Interpreted /\ instrs[x.cell] = WordCell(w)
      /\ x.cell + 1 = StartOf(i) + Size(i)
  BY <1>1, <1>3, <1>6, CodeOfWord DEF IsNative
<1>8. instrs[x.cell].kind = "word" /\ instrs[x.cell].word = w
  BY <1>7 DEF WordCell
<1>9. w \in Words /\ w # "IFELSE" /\ w \notin SpecialWords
  BY <1>7, CompilerAssumption
<1>10. x.cur \in Seq(Values) /\ known[i] \in Seq(Item)
  BY ApprovedFacts DEF State
<1>11. PICK e : e = NextEffect(i, known[i])
  OBVIOUS
<1>12. e = WordEffect[w]
  BY <1>6, <1>9, <1>11 DEF NextEffect, SpecialWords
<1>13. /\ e \in StackEffect /\ Accepts(e, known[i])
       /\ Outcome(i, known[i]) = ItemsAfter(e, known[i])
       /\ Outcome(i, known[i]) \in Seq(Item)
  BY <1>6, <1>9, <1>11, NextTyped DEF SpecialWords
<1>14. Ready(e, x.cur)
  BY <1>10, <1>13, AcceptedReady
<1>15. i + 1 \in Successors(i)
  BY <1>6, <1>9 DEF Successors, SpecialWords
<1>16. ASSUME NEW s \in After(e, x.cur)
       PROVE  IF x.tail /\ x.left = 1
                THEN Keeps(Promise, x.ins, s)
                ELSE [Moved(x, x.cell + 1, s) EXCEPT !.left = x.left - 1]
                       \in MainStates
  <2>1. s \in Seq(Values) /\ Described(Outcome(i, known[i]), s)
    BY <1>10, <1>13, AfterDescribed
  <2>2. i + 1 \in Live \cap DOMAIN known /\ Described(known[i + 1], s)
    BY <1>13, <1>15, <2>1, Leads
  <2>3. CASE x.tail /\ x.left = 1
    <3>1. h + count = i + 1
      BY <1>3, <1>4, <1>5, <2>3
    <3>2. ReturnsImmediately(words, i + 1)
      BY <1>3, <2>3, <3>1
    <3> QED BY <2>1, <2>2, <2>3, <3>2, TailKeeps
  <2>4. CASE ~(x.tail /\ x.left = 1)
    <3>1. PICK y : y = [Moved(x, x.cell + 1, s) EXCEPT !.left = x.left - 1]
      OBVIOUS
    <3>2. x.left - 1 \in Nat
      BY <1>2, <1>3, <1>4, <1>5
    <3>3. /\ y \in State /\ y.cell = x.cell + 1 /\ y.cur = s /\ y.ins = x.ins
          /\ y.left = x.left - 1 /\ y.tail = x.tail
      <4>1. PICK z : z = Moved(x, x.cell + 1, s)
        OBVIOUS
      <4>2. x.cell + 1 \in Int
        BY <1>5
      <4>3. /\ z \in State /\ z.cell = x.cell + 1 /\ z.cur = s /\ z.ins = x.ins
            /\ z.tail = x.tail
        BY <2>1, <4>1, <4>2, MovedParts
      <4>4. PICK n \in Nat : n = x.left - 1
        BY <3>2
      <4>5. y = [z EXCEPT !.left = n]
        BY <3>1, <4>1, <4>4
      <4>6. /\ y \in State /\ y.cell = z.cell /\ y.cur = z.cur /\ y.ins = z.ins
            /\ y.left = n /\ y.tail = z.tail
        BY <4>3, <4>5 DEF State
      <4> QED BY <4>3, <4>4, <4>6
    <3>4. CASE x.left = 1
      <4>1. i = h + count - 1
        BY <1>2, <1>3, <1>4, <1>5, <3>4
      <4>2. IsNative(words[i + 1].word) \/ i + 1 \in DOMAIN interpWord
        BY <1>1, <1>2, <2>2, <4>1, NextEntered
      <4>3. StartOf(i + 1) = StartOf(i) + Size(i)
        BY <1>1, <2>2, NextStart
      <4>4. y.cell = StartOf(i + 1) /\ y.left = 0
        BY <1>7, <3>3, <3>4, <4>3
      <4>5. MachineAt(i + 1, y)
        BY <4>2, <4>4 DEF MachineAt
      <4>6. y \in MainStates
        BY <2>2, <3>3, <4>5 DEF MainStates
      <4> QED BY <2>4, <3>1, <4>6
    <3>5. CASE x.left # 1
      <4>1. i + 1 \in Members(h)
        BY <1>2, <1>3, <1>4, <1>5, <3>2, <3>5
      <4>2. PICK j : j = i + 1
        OBVIOUS
      <4>3. j \in Members(h) /\ i \in Members(h)
        BY <4>1, <4>2
      <4>4. /\ CellOf(j) = StartOf(h) + 1 + (j - h)
            /\ CellOf(i) = StartOf(h) + 1 + (i - h)
            /\ StartOf(h) \in Nat
        BY <1>1, <1>3, <4>3, GroupFacts, CodeOfWord
      <4>5. y.cell = CellOf(j)
        BY <1>3, <1>4, <3>3, <4>2, <4>4
      <4>6. y.left = h + interpWord[h].count - j
        BY <1>2, <1>3, <1>4, <1>5, <3>3, <4>2
      <4>7. MachineAt(j, y)
        BY <3>3, <4>3, <4>5, <4>6 DEF MachineAt
      <4>8. j \in Live \cap DOMAIN known /\ Described(known[j], y.cur)
        BY <2>2, <3>3, <4>2
      <4>9. y \in MainStates
        BY <3>3, <4>7, <4>8 DEF MainStates
      <4> QED BY <2>4, <3>1, <4>9
    <3> QED BY <3>4, <3>5
  <2> QED BY <2>3, <2>4
<1> QED BY <1>7, <1>8, <1>12, <1>14, <1>16 DEF CallStays

\* The INTERP word in front of a group
LEMMA HeadStays ==
  ASSUME Approved, NEW x \in State, Suits(Promise, x.ins),
         NEW h \in DOMAIN interpWord, h \in Live \cap DOMAIN known,
         x.cell = StartOf(h), Described(known[h], x.cur)
  PROVE  /\ instrs[x.cell] =
              InterpCell(interpWord[h].count, interpWord[h].tail)
         /\ [x EXCEPT !.cell = x.cell + 1, !.left = instrs[x.cell].count,
                      !.tail = instrs[x.cell].tail] \in MainStates
<1>1. GenInv /\ phase = "compiled"
  BY ApprovedFacts
<1>2. /\ h \in Nat /\ interpWord[h].count \in Nat /\ interpWord[h].tail \in BOOLEAN
      /\ h \in Members(h)
  BY <1>1, GroupFacts
<1>3. /\ instrs[x.cell] = InterpCell(interpWord[h].count, interpWord[h].tail)
      /\ x.cell \in Nat
  BY <1>1, CodeOfWord
<1>4. PICK y : y = [x EXCEPT !.cell = x.cell + 1, !.left = instrs[x.cell].count,
                             !.tail = instrs[x.cell].tail]
  OBVIOUS
<1>5. /\ instrs[x.cell].count = interpWord[h].count
      /\ instrs[x.cell].tail = interpWord[h].tail
  BY <1>3 DEF InterpCell
<1>6. /\ y \in State /\ y.cell = x.cell + 1 /\ y.cur = x.cur /\ y.ins = x.ins
      /\ y.left = interpWord[h].count /\ y.tail = interpWord[h].tail
  <2>1. PICK c \in Int, n \in Nat, t \in BOOLEAN :
          c = x.cell + 1 /\ n = interpWord[h].count /\ t = interpWord[h].tail
    BY <1>2, <1>3
  <2>2. y = [x EXCEPT !.cell = c, !.left = n, !.tail = t]
    BY <1>4, <1>5, <2>1
  <2>3. /\ y \in State /\ y.cell = c /\ y.cur = x.cur /\ y.ins = x.ins
        /\ y.left = n /\ y.tail = t
    BY <2>2 DEF State
  <2> QED BY <2>1, <2>3
<1>7. y.cell = CellOf(h)
  BY <1>6 DEF CellOf
<1>8. y.left = h + interpWord[h].count - h
  BY <1>2, <1>6
<1>9. MachineAt(h, y)
  BY <1>2, <1>6, <1>7, <1>8 DEF MachineAt
<1>10. y \in MainStates
  BY <1>6, <1>9 DEF MainStates
<1> QED BY <1>3, <1>4, <1>10

\* The code starts with its first word, which can be reached.
LEMMA StartEntered ==
  ASSUME Approved
  PROVE  /\ StartOf(1) = 1
         /\ IsNative(words[1].word) \/ 1 \in DOMAIN interpWord
<1>1. /\ Coded(Len(words) + 1) /\ Live = DOMAIN pcOf /\ 1 \in Live
      /\ \A i \in Live : i \in Nat /\ i >= 1
  <2>1. GenInv /\ phase = "compiled" /\ 1 \in Live
    BY ApprovedFacts
  <2>2. /\ Coded(Len(words) + 1) /\ Live = DOMAIN pcOf
        /\ DOMAIN words = 1..Len(words) /\ Len(words) \in Nat
        /\ Live = DOMAIN words \ erased
    BY <2>1, FinalFacts
  <2> QED BY <2>1, <2>2
<1>2. StartOf(1) = 1
  <2>1. pcOf[1] = 0
    BY <1>1 DEF Coded, PlacedBy
  <2> QED BY <2>1 DEF StartOf
<1>3. ASSUME ~IsNative(words[1].word) PROVE 1 \in DOMAIN interpWord
  <2>1. PICK h \in DOMAIN interpWord : 1 \in Members(h)
    BY <1>1, <1>3 DEF Coded, Groups
  <2>2. h \in Live
    BY <2>1, ApprovedFacts, GroupFacts
  <2>3. h = 1
    BY <1>1, <2>1, <2>2 DEF Members
  <2> QED BY <2>1, <2>3
<1> QED BY <1>2, <1>3

\* The start of an activation
LEMMA EntryCertified ==
  ASSUME Approved, NEW a, Suits(Promise, a)
  PROVE  Entry(a) \in MainStates
<1>1. effect \in StackEffect /\ StillFixed /\ 1 \in Live /\ 1 \in DOMAIN known
      /\ known[1] \in Seq(Item)
  BY ApprovedFacts
<1>2. Promise.ins = effect.ins /\ effect.ins \in Seq(TypeSet)
  BY <1>1, EffectFields, PromiseParts
<1>3. PICK n \in Nat : n = Len(effect.ins) /\ DOMAIN effect.ins = 1..n
  BY <1>2
<1>4. a \in Seq(Values) /\ Len(a) = n /\ \A k \in 1..n : Fits(effect.ins[k], a[k])
  BY <1>2, <1>3 DEF Suits
<1>5. PICK items : items = InitialStack(effect).items
  OBVIOUS
<1>6. items = [k \in 1..n |-> TypeItem(effect.ins[k])]
  BY <1>3, <1>5 DEF InitialStack
<1>7. /\ items \in Seq(Item) /\ Len(items) = n
      /\ \A k \in 1..n : items[k] = TypeItem(effect.ins[k])
  <2>1. \A k \in 1..n : TypeItem(effect.ins[k]) \in Item
    BY <1>2, <1>3 DEF TypeItem, Item
  <2> QED BY <1>6, <2>1
<1>8. Described(items, a)
  <2>1. ASSUME NEW k \in 1..n PROVE Describes(items[k], a[k])
    BY <1>4, <1>7, FitsDescribed
  <2> QED BY <1>4, <1>7, <2>1 DEF Described
<1>9. Covers(known[1], items)
  BY <1>1, <1>5 DEF StillFixed
<1>10. Described(known[1], a)
  BY <1>1, <1>7, <1>8, <1>9, CoversDescribed
<1>11. PICK y : y = Entry(a)
  OBVIOUS
<1>12. y \in State /\ y.cell = 1 /\ y.left = 0 /\ y.ins = a /\ y.cur = a
  BY <1>4, <1>11 DEF Entry, State
<1>13. MachineAt(1, y)
  BY <1>12, StartEntered DEF MachineAt
<1>14. y \in MainStates
  BY <1>1, <1>10, <1>12, <1>13 DEF MainStates
<1> QED BY <1>11, <1>14

\* Where a state of the certificate is
LEMMA MainWhere ==
  ASSUME Approved, NEW x \in MainStates
  PROVE  /\ x \in State /\ Suits(Promise, x.ins)
         /\ \E i \in Live \cap DOMAIN known :
              /\ Described(known[i], x.cur)
              /\ \/ AtNative(x, i)
                 \/ x.left = 0 /\ i \in DOMAIN interpWord /\ x.cell = StartOf(i)
                 \/ \E h \in DOMAIN interpWord :
                      /\ i \in Members(h) /\ x.cell = CellOf(i)
                      /\ x.left = h + interpWord[h].count - i
                      /\ x.tail = interpWord[h].tail
BY DEF MainStates, MachineAt, AtNative

\* In a group there are calls left.
LEMMA GroupLeft ==
  ASSUME Approved, NEW x \in State, NEW h \in DOMAIN interpWord,
         NEW i \in Members(h), x.left = h + interpWord[h].count - i
  PROVE  x.left > 0
<1>1. h \in Nat /\ interpWord[h].count \in Nat
  BY ApprovedFacts, GroupFacts
<1>2. i \in Int /\ i <= h + interpWord[h].count - 1
  BY <1>1 DEF Members
<1> QED BY <1>1, <1>2

LEMMA MainStays ==
  ASSUME Approved, NativesAsDeclared, QuotesAgree, NEW x \in MainStates
  PROVE  StepStays(MainStates, instrs, Promise, x)
<1>1. x \in State /\ Suits(Promise, x.ins) /\ GenInv /\ phase = "compiled"
  BY MainWhere, ApprovedFacts
<1>2. PICK i \in Live \cap DOMAIN known :
        /\ Described(known[i], x.cur)
        /\ \/ AtNative(x, i)
           \/ x.left = 0 /\ i \in DOMAIN interpWord /\ x.cell = StartOf(i)
           \/ \E h \in DOMAIN interpWord :
                /\ i \in Members(h) /\ x.cell = CellOf(i)
                /\ x.left = h + interpWord[h].count - i
                /\ x.tail = interpWord[h].tail
  BY MainWhere
<1>3. StartOf(i) \in DOMAIN instrs /\ CellOf(i) \in DOMAIN instrs
  BY <1>1, CodeOfWord
<1>4. CASE AtNative(x, i)
  <2>1. x.left = 0 /\ x.cell = StartOf(i) /\ IsNative(words[i].word)
    BY <1>4 DEF AtNative
  <2>2. instrs[x.cell] = OpCell(words[i].word)
    BY <1>1, <2>1, CodeOfWord
  <2>3. instrs[x.cell].kind = "op" /\ instrs[x.cell].op = words[i].word
    BY <2>2 DEF OpCell
  <2>4. OpStays(MainStates, instrs, Promise, x, words[i].word)
    BY <1>4, NativeOpStays
  <2> QED BY <1>3, <2>1, <2>3, <2>4 DEF StepStays
<1>5. CASE x.left = 0 /\ i \in DOMAIN interpWord /\ x.cell = StartOf(i)
  <2>1. /\ instrs[x.cell] =
             InterpCell(interpWord[i].count, interpWord[i].tail)
        /\ [x EXCEPT !.cell = x.cell + 1, !.left = instrs[x.cell].count,
                     !.tail = instrs[x.cell].tail] \in MainStates
    BY <1>1, <1>2, <1>5, HeadStays
  <2>2. instrs[x.cell].kind = "interp"
    BY <2>1 DEF InterpCell
  <2> QED BY <1>3, <1>5, <2>1, <2>2 DEF StepStays
<1>6. ASSUME NEW h \in DOMAIN interpWord, i \in Members(h), x.cell = CellOf(i),
             x.left = h + interpWord[h].count - i, x.tail = interpWord[h].tail
      PROVE  StepStays(MainStates, instrs, Promise, x)
  <2>1. CallStays(MainStates, instrs, Promise, x)
    BY <1>1, <1>2, <1>6, GroupStays
  <2>2. x.left > 0
    BY <1>1, <1>6, GroupLeft
  <2> QED BY <1>3, <1>6, <2>1, <2>2 DEF StepStays
<1> QED BY <1>2, <1>4, <1>5, <1>6

LEMMA MainCertifies ==
  ASSUME Approved, NativesAsDeclared, QuotesAgree
  PROVE  Certifies(MainStates, instrs, Promise)
<1>1. MainStates \subseteq State
  BY DEF MainStates
<1> QED BY <1>1, EntryCertified, MainStays DEF Certifies

\* No state of the certificate exceeds the max of the effect, if this covers
\* the stack of every word.
LEMMA MainBounded ==
  ASSUME Approved, QuotesAgree, Sized
  PROVE  Bounded(MainStates, instrs, Promise)
<1>1. /\ GenInv /\ RecursionInv /\ phase = "compiled" /\ effect \in StackEffect
      /\ ~recursive /\ \A i \in DOMAIN known : Peak(i) <= Capacity
  BY ApprovedFacts DEF Sized
<1>2. Promise.ins = effect.ins /\ Promise.max = effect.max
  BY <1>1, PromiseParts
<1>3. ASSUME NEW x \in MainStates
      PROVE  /\ Len(x.cur) <= Capacity
             /\ x.left > 0 =>
                  Len(x.cur) + WordEffect[instrs[x.cell].word].max <= Capacity
             /\ x.left = 0 /\ IsOp(instrs[x.cell], "IFELSE") =>
                  \A k \in {Len(x.cur) - 1, Len(x.cur)} :
                    Len(x.cur) - 3 + QuoteEffect[x.cur[k]].max <= Capacity
             /\ x.left = 0 => ~IsOp(instrs[x.cell], "_RECURSE")
             /\ Len(x.ins) = Len(effect.ins)
  <2>1. x \in State /\ Suits(Promise, x.ins)
    BY MainWhere
  <2>2. PICK i \in Live \cap DOMAIN known :
          /\ Described(known[i], x.cur)
          /\ \/ AtNative(x, i)
             \/ x.left = 0 /\ i \in DOMAIN interpWord /\ x.cell = StartOf(i)
             \/ \E h \in DOMAIN interpWord :
                  /\ i \in Members(h) /\ x.cell = CellOf(i)
                  /\ x.left = h + interpWord[h].count - i
                  /\ x.tail = interpWord[h].tail
    BY MainWhere
  <2>3. /\ x.cur \in Seq(Values) /\ known[i] \in Seq(Item)
        /\ Len(x.ins) = Len(effect.ins) /\ Len(x.cur) = Len(known[i])
    BY <1>2, <2>1, <2>2, ApprovedFacts DEF State, Suits, Described
  <2>4. PICK l \in Nat : l = Len(x.cur)
    BY <2>3
  <2>5. PICK peak : peak = Peak(i)
    OBVIOUS
  <2>6. PICK room \in Int : room = Capacity
    <3>1. Len(effect.ins) \in Nat /\ effect.max \in Nat
      BY <1>1, EffectFields, MaxNat
    <3> QED BY <3>1 DEF Capacity
  <2>7. peak <= room
    BY <1>1, <2>5, <2>6
  <2>8. words[i].word # "_LITERAL" =>
          /\ NextEffect(i, known[i]).max \in Nat
          /\ peak = l + NextEffect(i, known[i]).max
    <3> SUFFICES ASSUME words[i].word # "_LITERAL"
                 PROVE  /\ NextEffect(i, known[i]).max \in Nat
                        /\ peak = l + NextEffect(i, known[i]).max
      OBVIOUS
    <3>1. PICK e : e = NextEffect(i, known[i])
      OBVIOUS
    <3>2. e \in StackEffect
      BY <3>1, NextTyped
    <3>3. e.max \in Nat
      BY <3>2, EffectFields, MaxNat
    <3>4. peak = l + e.max
      BY <2>3, <2>4, <2>5, <3>1 DEF Peak
    <3> QED BY <3>1, <3>3, <3>4
  <2>9. l <= room
    <3>1. CASE words[i].word = "_LITERAL"
      <4>1. peak = l + 1
        BY <2>3, <2>4, <2>5, <3>1 DEF Peak
      <4> QED BY <2>4, <2>6, <2>7, <4>1
    <3>2. CASE words[i].word # "_LITERAL"
      <4>1. PICK m \in Nat : m = NextEffect(i, known[i]).max
        BY <2>8, <3>2
      <4>2. peak = l + m
        BY <2>8, <3>2, <4>1
      <4> QED BY <2>4, <2>6, <2>7, <4>2
    <3> QED BY <3>1, <3>2
  <2>10. CASE AtNative(x, i)
    <3>1. x.left = 0 /\ x.cell = StartOf(i) /\ IsNative(words[i].word)
      BY <2>10 DEF AtNative
    <3>2. instrs[x.cell] = OpCell(words[i].word)
      BY <1>1, <3>1, CodeOfWord
    <3>3. instrs[x.cell].op = words[i].word
      BY <3>2 DEF OpCell
    <3>4. words[i].word # "_RECURSE"
      BY <1>1, FinalFacts DEF RecursionInv
    <3>5. ASSUME words[i].word = "IFELSE", NEW k \in {Len(x.cur) - 1, Len(x.cur)}
          PROVE  Len(x.cur) - 3 + QuoteEffect[x.cur[k]].max <= Capacity
      <4>1. /\ x.cur[k] \in Quotes
            /\ Len(x.cur) - 3 + QuoteEffect[x.cur[k]].max <= Peak(i)
        BY <2>2, <2>3, <3>5, IfElseDescribed
      <4>2. QuoteEffect[x.cur[k]] \in StackEffect
        BY <4>1, CompilerAssumption DEF Quotes
      <4>3. PICK m \in Nat : m = QuoteEffect[x.cur[k]].max
        BY <4>2, EffectFields, MaxNat
      <4>4. PICK e : e = NextEffect(i, known[i])
        OBVIOUS
      <4>5. e.max \in Nat /\ peak = l + e.max
        BY <2>8, <3>5, <4>4
      <4>6. l - 3 + m <= peak
        BY <2>4, <2>5, <4>1, <4>3
      <4>7. l - 3 + m <= room
        BY <2>7, <4>5, <4>6
      <4> QED BY <2>4, <2>6, <4>3, <4>7
    <3> QED BY <2>3, <2>4, <2>6, <2>9, <3>1, <3>3, <3>4, <3>5 DEF IsOp
  <2>11. CASE x.left = 0 /\ i \in DOMAIN interpWord /\ x.cell = StartOf(i)
    <3>1. instrs[x.cell] = InterpCell(interpWord[i].count, interpWord[i].tail)
      BY <1>1, <2>11, CodeOfWord
    <3>2. instrs[x.cell].kind # "op"
      BY <3>1 DEF InterpCell
    <3> QED BY <2>3, <2>4, <2>6, <2>9, <2>11, <3>2 DEF IsOp
  <2>12. ASSUME NEW h \in DOMAIN interpWord, i \in Members(h), x.cell = CellOf(i),
                x.left = h + interpWord[h].count - i
         PROVE  /\ x.left > 0
                /\ Len(x.cur) + WordEffect[instrs[x.cell].word].max <= Capacity
    <3>1. x.left > 0
      BY <2>1, <2>12, GroupLeft
    <3>2. ~IsNative(words[i].word)
      BY <1>1, <2>12, GroupFacts
    <3>3. PICK w : w = words[i].word
      OBVIOUS
    <3>4. w \in Words /\ w # "IFELSE" /\ w \notin SpecialWords
      BY <3>2, <3>3, CompilerAssumption DEF IsNative
    <3>5. instrs[x.cell].word = w
      <4>1. instrs[CellOf(i)] = WordCell(words[i].word)
        BY <1>1, <3>2, CodeOfWord
      <4>2. instrs[x.cell] = WordCell(w)
        BY <2>12, <3>3, <4>1
      <4> QED BY <4>2 DEF WordCell
    <3>6. NextEffect(i, known[i]) = WordEffect[w] /\ w # "_LITERAL"
      BY <3>3, <3>4 DEF NextEffect, SpecialWords
    <3>7. peak = l + WordEffect[w].max
      BY <2>8, <3>3, <3>6
    <3> QED BY <2>4, <2>6, <2>7, <3>1, <3>5, <3>7
  <2>13. CASE x.left > 0
    <3>1. x.left # 0
      BY <2>1, <2>13 DEF State
    <3>2. ~AtNative(x, i)
      BY <3>1 DEF AtNative
    <3>3. Len(x.cur) + WordEffect[instrs[x.cell].word].max <= Capacity
      BY <2>2, <2>12, <3>1, <3>2
    <3> QED BY <2>3, <2>4, <2>6, <2>9, <3>1, <3>3
  <2>14. CASE ~(x.left > 0)
    <3>1. AtNative(x, i) \/ (x.left = 0 /\ i \in DOMAIN interpWord /\ x.cell = StartOf(i))
      BY <2>2, <2>12, <2>14
    <3> QED BY <2>10, <2>11, <3>1
  <2> QED BY <2>13, <2>14
<1>4. ASSUME NEW x \in MainStates PROVE Len(x.ins) + Promise.max = Capacity
  BY <1>2, <1>3 DEF Capacity
<1> QED BY <1>3, <1>4 DEF Bounded

\* The memoized stacks certify the code of a word that the checker vouches for.
LEMMA Certified ==
  ASSUME GenInv, RecursionInv, NativesAsDeclared, QuotesAgree
  PROVE  CodeCertified
<1>1. ASSUME Vouched PROVE Approved
  BY <1>1 DEF Approved
<1> QED BY <1>1, MainCertifies, MainBounded DEF CodeCertified

-----------------------------------------------------------------------------
(* Straight-line certificates, and those of the interpreted core words *)

Within(types, others) == types \subseteq others \cup {"Null"}

\* The native word w takes n values of the types T and leaves m of them.
Shifts(w, T, n, m) ==
  LET q == CoreEffect[w]
  IN  /\ w \in StackWords \ {"PLUS"}
      /\ n \in Nat /\ m \in Nat
      /\ Len(q.ins) = n /\ Len(q.outs) = m
      /\ \A k \in 1..n : Within(T, q.ins[k])
      /\ \A k \in 1..m : IF q.outs[k].match = 0 THEN Within(q.outs[k].types, T)
                                                ELSE q.outs[k].match \in 1..n

ShiftsAt(code, T, d, c) ==
  \E n, m : /\ Shifts(code[c].op, T, n, m)
            /\ n <= d[c] /\ c + 1 \in DOMAIN d /\ d[c + 1] = d[c] - n + m

BranchesAt(code, d, c) ==
  /\ code[c].op = "_ZBRANCH" /\ 1 <= d[c]
  /\ \A t \in {c + 2, Target(code, c)} : t \in DOMAIN d /\ d[t] = d[c] - 1

ReturnsAt(code, e, T, d, c) ==
  /\ code[c].op = "_RETURN" /\ d[c] = Len(e.outs)
  /\ \A k \in 1..Len(e.outs) : e.outs[k].match = 0 /\ Within(T, e.outs[k].types)

(***************************************************************************)
(* At every instruction the code reaches, the stack is d deep and holds    *)
(* values of the types T: enough of an argument for code that keeps to     *)
(* native words and forward branches.                                      *)
(***************************************************************************)
Steady(code, e, T, d) ==
  /\ DOMAIN d \subseteq DOMAIN code /\ DOMAIN code \subseteq Int
  /\ d \in [DOMAIN d -> Nat]
  /\ 1 \in DOMAIN d /\ d[1] = Len(e.ins) /\ e.max \in Nat
  /\ \A k \in 1..Len(e.ins) : Within(e.ins[k], T)
  /\ \A c \in DOMAIN d :
       /\ code[c].kind = "op" /\ d[c] <= Len(e.ins) + e.max
       /\ \/ ShiftsAt(code, T, d, c)
          \/ BranchesAt(code, d, c)
          \/ ReturnsAt(code, e, T, d, c)

AllFit(T, s) == \A k \in 1..Len(s) : Fits(T, s[k])

SteadyStates(e, T, d) ==
  {x \in State : /\ x.left = 0 /\ Suits(e, x.ins) /\ x.cell \in DOMAIN d
                 /\ Len(x.cur) = d[x.cell] /\ AllFit(T, x.cur)}

LEMMA WithinFits ==
  ASSUME NEW T, NEW U, Within(T, U), NEW v, Fits(T, v)
  PROVE  Fits(U, v)
BY DEF Within, Fits

LEMMA ShiftKeepsFit ==
  ASSUME NEW w, NEW T, NEW n, NEW m, Shifts(w, T, n, m),
         NEW s \in Seq(Values), n <= Len(s), AllFit(T, s)
  PROVE  /\ w \in StackWords /\ Arity(w) = n
         /\ \A vs \in Results(w, Args(s, n)) :
              /\ Upon(Below(s, n), vs) \in Seq(Values)
              /\ Len(Upon(Below(s, n), vs)) = Len(s) - n + m
              /\ AllFit(T, Upon(Below(s, n), vs))
<1>1. PICK q : q = CoreEffect[w]
  OBVIOUS
<1>2. /\ w \in StackWords \ {"PLUS"} /\ n \in Nat /\ m \in Nat
      /\ Len(q.ins) = n /\ Len(q.outs) = m
      /\ \A k \in 1..n : Within(T, q.ins[k])
      /\ \A k \in 1..m : IF q.outs[k].match = 0 THEN Within(q.outs[k].types, T)
                                                ELSE q.outs[k].match \in 1..n
  BY <1>1 DEF Shifts
<1>3. DoesAs(w, q)
  BY <1>1, <1>2, StackWordsSound
<1>4. Arity(w) = n
  BY <1>2, <1>3 DEF DoesAs
<1>5. n \in 0..Len(s)
  BY <1>2
<1>6. PICK a : a = Args(s, n)
  OBVIOUS
<1>7. /\ a \in Seq(Values) /\ Len(a) = n
      /\ \A k \in 1..n : a[k] = s[Len(s) - n + k]
  BY <1>5, <1>6 DEF Args
<1>8. PICK b : b = Below(s, n)
  OBVIOUS
<1>9. /\ b \in Seq(Values) /\ Len(b) = Len(s) - n
      /\ \A k \in 1..Len(b) : b[k] = s[k]
  BY <1>5, <1>8 DEF Below
<1>10. \A k \in 1..n : Fits(T, a[k])
  <2> SUFFICES ASSUME NEW k \in 1..n PROVE Fits(T, a[k])
    OBVIOUS
  <2>1. Len(s) - n + k \in 1..Len(s)
    BY <1>5
  <2> QED BY <1>7, <2>1 DEF AllFit
<1>11. \A k \in 1..Len(b) : Fits(T, b[k])
  <2> SUFFICES ASSUME NEW k \in 1..Len(b) PROVE Fits(T, b[k])
    OBVIOUS
  <2>1. k \in 1..Len(s)
    BY <1>5, <1>9
  <2> QED BY <1>9, <2>1 DEF AllFit
<1>12. Suits(q, a)
  <2>1. \A k \in 1..n : Fits(q.ins[k], a[k])
    BY <1>2, <1>10, WithinFits
  <2> QED BY <1>2, <1>7, <2>1 DEF Suits
<1>13. ASSUME NEW vs \in Results(w, a)
       PROVE  /\ Upon(b, vs) \in Seq(Values)
              /\ Len(Upon(b, vs)) = Len(s) - n + m
              /\ AllFit(T, Upon(b, vs))
  <2>1. Keeps(q, a, vs)
    BY <1>3, <1>12 DEF DoesAs
  <2>2. vs \in Seq(Values) /\ Len(vs) = m
    BY <1>2, <2>1 DEF Keeps
  <2>3. \A k \in 1..m : Fits(T, vs[k])
    <3> SUFFICES ASSUME NEW k \in 1..m PROVE Fits(T, vs[k])
      OBVIOUS
    <3>1. CASE q.outs[k].match = 0
      <4>1. Fits(q.outs[k].types, vs[k])
        BY <2>1, <2>2, <3>1 DEF Keeps
      <4>2. Within(q.outs[k].types, T)
        BY <1>2, <3>1
      <4> QED BY <4>1, <4>2, WithinFits
    <3>2. CASE q.outs[k].match # 0
      <4>1. PICK j : j = n - (q.outs[k].match - 1)
        OBVIOUS
      <4>2. j \in 1..n
        BY <1>2, <3>2, <4>1
      <4>3. FromTop(a, q.outs[k].match - 1) = a[j]
        BY <1>7, <4>1 DEF FromTop
      <4>4. Same(FromTop(a, q.outs[k].match - 1), vs[k])
        BY <2>1, <2>2, <3>2 DEF Keeps
      <4>5. vs[k] = a[j] \/ vs[k] = "Null"
        BY <4>3, <4>4 DEF Same
      <4>6. Fits(T, "Null")
        BY InterpreterAssumption DEF Fits, TypeOf, Types
      <4> QED BY <1>10, <4>2, <4>5, <4>6
    <3> QED BY <3>1, <3>2
  <2>4. /\ Upon(b, vs) \in Seq(Values) /\ Len(Upon(b, vs)) = Len(b) + Len(vs)
        /\ \A k \in 1..Len(b) : Upon(b, vs)[k] = b[k]
        /\ \A k \in 1..Len(vs) : Upon(b, vs)[Len(b) + k] = vs[k]
    BY <1>9, <2>2, UponCells
  <2>5. AllFit(T, Upon(b, vs))
    <3> SUFFICES ASSUME NEW k \in 1..(Len(b) + m)
                 PROVE  Fits(T, Upon(b, vs)[k])
      BY <2>2, <2>4 DEF AllFit
    <3>1. CASE k <= Len(b)
      <4>1. k \in 1..Len(b)
        BY <3>1
      <4> QED BY <1>11, <2>4, <4>1
    <3>2. CASE k > Len(b)
      <4>1. PICK j : j = k - Len(b)
        OBVIOUS
      <4>2. j \in 1..m /\ Len(b) + j = k
        BY <1>2, <1>9, <3>2, <4>1
      <4> QED BY <2>2, <2>3, <2>4, <4>2
    <3> QED BY <1>9, <3>1, <3>2
  <2> QED BY <1>2, <1>9, <2>2, <2>4, <2>5
<1> QED BY <1>2, <1>4, <1>6, <1>8, <1>13

LEMMA SteadyCertifies ==
  ASSUME NEW code, NEW e, NEW T, NEW d, Steady(code, e, T, d)
  PROVE  \E R : Certifies(R, code, e) /\ Bounded(R, code, e)
<1> DEFINE R == SteadyStates(e, T, d)
<1>1. /\ DOMAIN d \subseteq DOMAIN code /\ DOMAIN code \subseteq Int
      /\ d \in [DOMAIN d -> Nat]
      /\ 1 \in DOMAIN d /\ d[1] = Len(e.ins) /\ e.max \in Nat
      /\ \A k \in 1..Len(e.ins) : Within(e.ins[k], T)
      /\ \A c \in DOMAIN d :
           /\ code[c].kind = "op" /\ d[c] <= Len(e.ins) + e.max
           /\ \/ ShiftsAt(code, T, d, c)
              \/ BranchesAt(code, d, c)
              \/ ReturnsAt(code, e, T, d, c)
  BY DEF Steady
<1>2. ASSUME NEW a, Suits(e, a) PROVE Entry(a) \in R
  <2>1. /\ a \in Seq(Values) /\ Len(a) = Len(e.ins)
        /\ \A k \in 1..Len(a) : Fits(e.ins[k], a[k])
    BY <1>2 DEF Suits
  <2>2. AllFit(T, a)
    BY <1>1, <2>1, WithinFits DEF AllFit
  <2>3. /\ Entry(a) \in State /\ Entry(a).left = 0 /\ Entry(a).cell = 1
        /\ Entry(a).ins = a /\ Entry(a).cur = a
    BY <2>1 DEF Entry, State
  <2> QED BY <1>1, <1>2, <2>1, <2>2, <2>3 DEF SteadyStates
<1>3. ASSUME NEW x \in R PROVE StepStays(R, code, e, x)
  <2> DEFINE c == x.cell
             op == code[c].op
  <2>1. /\ x \in State /\ x.left = 0 /\ Suits(e, x.ins) /\ c \in DOMAIN d
        /\ Len(x.cur) = d[c] /\ AllFit(T, x.cur)
    BY DEF SteadyStates
  <2>2. /\ x.cur \in Seq(Values) /\ c \in Int /\ c \in DOMAIN code
        /\ d[c] \in Nat /\ code[c].kind = "op"
    BY <1>1, <2>1 DEF State
  <2>3. ASSUME NEW t \in DOMAIN d, NEW s \in Seq(Values), Len(s) = d[t],
               AllFit(T, s)
        PROVE  Moved(x, t, s) \in R
    <3>1. t \in Int
      BY <1>1
    <3>2. /\ Moved(x, t, s) \in State
          /\ Moved(x, t, s).cell = t /\ Moved(x, t, s).cur = s
          /\ Moved(x, t, s).ins = x.ins /\ Moved(x, t, s).left = x.left
      BY <2>1, <3>1, MovedParts
    <3> QED BY <2>1, <2>3, <3>2 DEF SteadyStates
  <2>4. CASE ShiftsAt(code, T, d, c)
    <3>1. PICK n, m : /\ Shifts(op, T, n, m) /\ n <= d[c]
                      /\ c + 1 \in DOMAIN d /\ d[c + 1] = d[c] - n + m
      BY <2>4 DEF ShiftsAt
    <3>2. /\ op \in StackWords /\ Arity(op) = n
          /\ \A vs \in Results(op, Args(x.cur, n)) :
               /\ Upon(Below(x.cur, n), vs) \in Seq(Values)
               /\ Len(Upon(Below(x.cur, n), vs)) = Len(x.cur) - n + m
               /\ AllFit(T, Upon(Below(x.cur, n), vs))
      <4> HIDE DEF c, op
      <4> QED BY <2>1, <2>2, <3>1, ShiftKeepsFit
    <3>3. \A vs \in Results(op, Args(x.cur, Arity(op))) :
            Moved(x, c + 1, Upon(Below(x.cur, Arity(op)), vs)) \in R
      <4> HIDE DEF c, op, R
      <4> QED BY <2>1, <2>3, <3>1, <3>2
    <3>4. /\ op \in Ops
          /\ op \notin {"_LITERAL", "_BRANCH", "_ZBRANCH", "_RETURN", "IFELSE",
                        "_RECURSE"}
      BY <3>2 DEF Ops, StackWords, BinaryWords, RelationWords, ZeroRelationWords
    <3>5. OpStays(R, code, e, x, op)
      <4> HIDE DEF R, op
      <4> QED BY <2>1, <3>1, <3>2, <3>3, <3>4 DEF OpStays, c
    <3> HIDE DEF R
    <3> QED BY <2>1, <2>2, <3>4, <3>5 DEF StepStays
  <2>5. CASE BranchesAt(code, d, c)
    <3>1. /\ op = "_ZBRANCH" /\ 1 <= d[c]
          /\ c + 2 \in DOMAIN d /\ d[c + 2] = d[c] - 1
          /\ Target(code, c) \in DOMAIN d /\ d[Target(code, c)] = d[c] - 1
      BY <2>5 DEF BranchesAt
    <3>2. /\ Below(x.cur, 1) \in Seq(Values) /\ Len(Below(x.cur, 1)) = d[c] - 1
          /\ \A k \in 1..(d[c] - 1) : Below(x.cur, 1)[k] = x.cur[k]
      <4>1. Len(x.cur) >= 1 /\ Len(x.cur) = d[c]
        BY <2>1, <3>1
      <4> HIDE DEF c
      <4> QED BY <2>2, <4>1 DEF Below
    <3>3. AllFit(T, Below(x.cur, 1))
      <4> HIDE DEF c
      <4> QED BY <2>1, <2>2, <3>2 DEF AllFit
    <3>4. /\ Moved(x, c + 2, Below(x.cur, 1)) \in R
          /\ Moved(x, Target(code, c), Below(x.cur, 1)) \in R
      <4> HIDE DEF c, R
      <4> QED BY <2>3, <3>1, <3>2, <3>3
    <3>5. OpStays(R, code, e, x, op)
      <4>1. op \in Ops /\ op \notin StackWords
        BY <3>1 DEF Ops, SpecialWords, StackWords, BinaryWords, RelationWords,
                    ZeroRelationWords
      <4> HIDE DEF R, op
      <4> QED BY <2>1, <3>1, <3>4, <4>1 DEF OpStays, c
    <3> HIDE DEF R
    <3> QED BY <2>1, <2>2, <3>5 DEF StepStays
  <2>6. CASE ReturnsAt(code, e, T, d, c)
    <3>1. /\ op = "_RETURN" /\ d[c] = Len(e.outs)
          /\ \A k \in 1..Len(e.outs) :
               e.outs[k].match = 0 /\ Within(T, e.outs[k].types)
      BY <2>6 DEF ReturnsAt
    <3>2. Keeps(e, x.ins, x.cur)
      <4>1. \A k \in 1..Len(x.cur) : Fits(e.outs[k].types, x.cur[k])
        <5> HIDE DEF c
        <5> QED BY <2>1, <3>1, WithinFits DEF AllFit
      <4> QED BY <2>1, <2>2, <3>1, <4>1 DEF Keeps
    <3>3. OpStays(R, code, e, x, op)
      <4>1. op \in Ops /\ op \notin StackWords
        BY <3>1 DEF Ops, SpecialWords, StackWords, BinaryWords, RelationWords,
                    ZeroRelationWords
      <4> HIDE DEF R, op
      <4> QED BY <3>1, <3>2, <4>1 DEF OpStays
    <3> HIDE DEF R
    <3> QED BY <2>1, <2>2, <3>3 DEF StepStays
  <2> HIDE DEF R, c
  <2>7. \/ ShiftsAt(code, T, d, c) \/ BranchesAt(code, d, c)
        \/ ReturnsAt(code, e, T, d, c)
    BY <1>1, <2>1
  <2> QED BY <2>4, <2>5, <2>6, <2>7
<1>4. Certifies(R, code, e)
  <2>1. R \subseteq State
    BY DEF SteadyStates
  <2> HIDE DEF R
  <2> QED BY <1>2, <1>3, <2>1 DEF Certifies
<1>5. Bounded(R, code, e)
  <2> SUFFICES ASSUME NEW x \in R
               PROVE  /\ x.left = 0 /\ Len(x.cur) <= Len(x.ins) + e.max
                      /\ ~IsOp(code[x.cell], "IFELSE")
                      /\ ~IsOp(code[x.cell], "_RECURSE")
    <3> HIDE DEF R
    <3> QED BY DEF Bounded
  <2>1. /\ x \in State /\ x.left = 0 /\ Suits(e, x.ins) /\ x.cell \in DOMAIN d
        /\ Len(x.cur) = d[x.cell]
    BY DEF SteadyStates
  <2>2. Len(x.ins) = Len(e.ins)
    BY <2>1 DEF Suits
  <2>3. Len(x.cur) <= Len(x.ins) + e.max
    BY <1>1, <2>1, <2>2
  <2>4. code[x.cell].op \notin {"IFELSE", "_RECURSE"}
    <3>1. CASE ShiftsAt(code, T, d, x.cell)
      <4>1. code[x.cell].op \in StackWords
        BY <3>1 DEF ShiftsAt, Shifts
      <4> QED BY <4>1 DEF StackWords, BinaryWords, RelationWords,
                          ZeroRelationWords
    <3>2. CASE BranchesAt(code, d, x.cell)
      BY <3>2 DEF BranchesAt
    <3>3. CASE ReturnsAt(code, e, T, d, x.cell)
      BY <3>3 DEF ReturnsAt
    <3> QED BY <1>1, <2>1, <3>1, <3>2, <3>3
  <2> QED BY <2>1, <2>3, <2>4 DEF IsOp
<1> QED BY <1>4, <1>5

LEMMA ShiftsOf ==
  ASSUME NEW w \in StackWords \ {"PLUS"}, NEW T,
         NEW ins \in Seq(TypeSet), NEW outs \in Seq(Output),
         CoreEffect[w] = Effect(ins, outs),
         \A k \in 1..Len(ins) : Within(T, ins[k]),
         \A k \in 1..Len(outs) :
           IF outs[k].match = 0 THEN Within(outs[k].types, T)
                                ELSE outs[k].match \in 1..Len(ins)
  PROVE  Shifts(w, T, Len(ins), Len(outs))
<1>1. \A i \in DOMAIN outs : outs[i].match <= Len(ins)
  <2>1. DOMAIN outs = 1..Len(outs) /\ Len(ins) \in Nat
    OBVIOUS
  <2>2. \A i \in 1..Len(outs) : outs[i].match = 0 \/ outs[i].match \in 1..Len(ins)
    OBVIOUS
  <2> QED BY <2>1, <2>2
<1>2. Declares(CoreEffect[w], ins, outs)
  BY <1>1, EffectDeclares
<1>3. Len(ins) \in Nat /\ Len(outs) \in Nat
  OBVIOUS
<1> QED BY <1>2, <1>3 DEF Shifts, Declares

\* The words ABS, MAX and MIN are made of
LEMMA CoreShifts ==
  /\ Shifts("OVER", Any, 2, 3) /\ Shifts("SWAP", Any, 2, 2)
  /\ Shifts("DROP", Any, 1, 0)
  /\ Shifts("LT", Any, 2, 1) /\ Shifts("GT", Any, 2, 1)
  /\ Shifts("DUP", Num, 1, 2) /\ Shifts("SWAP", Num, 2, 2)
  /\ Shifts("ZERO", Num, 0, 1) /\ Shifts("LT_ZERO", Num, 1, 1)
  /\ Shifts("MINUS", Num, 2, 1)
<1>1. /\ Within(Any, Any) /\ Within(Num, Any) /\ Within(Num, Num)
      /\ Any \in TypeSet /\ Num \in TypeSet
  BY CoreTypes DEF Within, Any, Num, AnyType, Types
<1>2. /\ Out(Num).match = 0 /\ Out(Num).types = Num /\ Out(Num) \in Output
      /\ SameAs(Any, 0).match = 1 /\ SameAs(Any, 0) \in Output
      /\ SameAs(Any, 1).match = 2 /\ SameAs(Any, 1) \in Output
  <2>1. Out(Num) \in Output /\ \A k \in 0..6 : SameAs(Any, k) \in Output
    BY CoreTypes
  <2>2. /\ Out(Num).match = 0 /\ Out(Num).types = Num
        /\ SameAs(Any, 0).match = 1 /\ SameAs(Any, 1).match = 2
    BY DEF Out, SameAs
  <2> QED BY <2>1, <2>2
<1>3. {"OVER", "LT", "GT", "SWAP", "DROP", "DUP", "LT_ZERO", "ZERO", "MINUS"}
        \subseteq StackWords \ {"PLUS"}
  BY DEF StackWords, BinaryWords, RelationWords, ZeroRelationWords
<1>4. Shifts("OVER", Any, 2, 3)
  <2> DEFINE ins == <<Any, Any>>
             outs == <<SameAs(Any, 1), SameAs(Any, 0), SameAs(Any, 1)>>
  <2>1. CoreEffect["OVER"] = Effect(ins, outs)
    BY DEF CoreEffect
  <2> HIDE DEF Any, Num
  <2>2. /\ ins \in Seq(TypeSet) /\ outs \in Seq(Output)
        /\ Len(ins) = 2 /\ Len(outs) = 3
        /\ \A k \in 1..Len(ins) : Within(Any, ins[k])
        /\ \A k \in 1..Len(outs) :
             IF outs[k].match = 0 THEN Within(outs[k].types, Any)
                                  ELSE outs[k].match \in 1..Len(ins)
    BY <1>1, <1>2
  <2> HIDE DEF ins, outs
  <2> QED BY <1>3, <2>1, <2>2, ShiftsOf
<1>5. Shifts("SWAP", Any, 2, 2)
  <2> DEFINE ins == <<Any, Any>>
             outs == <<SameAs(Any, 0), SameAs(Any, 1)>>
  <2>1. CoreEffect["SWAP"] = Effect(ins, outs)
    BY DEF CoreEffect
  <2> HIDE DEF Any, Num
  <2>2. /\ ins \in Seq(TypeSet) /\ outs \in Seq(Output)
        /\ Len(ins) = 2 /\ Len(outs) = 2
        /\ \A k \in 1..Len(ins) : Within(Any, ins[k])
        /\ \A k \in 1..Len(outs) :
             IF outs[k].match = 0 THEN Within(outs[k].types, Any)
                                  ELSE outs[k].match \in 1..Len(ins)
    BY <1>1, <1>2
  <2> HIDE DEF ins, outs
  <2> QED BY <1>3, <2>1, <2>2, ShiftsOf
<1>6. Shifts("SWAP", Num, 2, 2)
  <2> DEFINE ins == <<Any, Any>>
             outs == <<SameAs(Any, 0), SameAs(Any, 1)>>
  <2>1. CoreEffect["SWAP"] = Effect(ins, outs)
    BY DEF CoreEffect
  <2> HIDE DEF Any, Num
  <2>2. /\ ins \in Seq(TypeSet) /\ outs \in Seq(Output)
        /\ Len(ins) = 2 /\ Len(outs) = 2
        /\ \A k \in 1..Len(ins) : Within(Num, ins[k])
        /\ \A k \in 1..Len(outs) :
             IF outs[k].match = 0 THEN Within(outs[k].types, Num)
                                  ELSE outs[k].match \in 1..Len(ins)
    BY <1>1, <1>2
  <2> HIDE DEF ins, outs
  <2> QED BY <1>3, <2>1, <2>2, ShiftsOf
<1>7. Shifts("DROP", Any, 1, 0)
  <2> DEFINE ins == <<Any>>
             outs == <<>>
  <2>1. CoreEffect["DROP"] = Effect(ins, outs)
    BY DEF CoreEffect
  <2> HIDE DEF Any, Num
  <2>2. /\ ins \in Seq(TypeSet) /\ outs \in Seq(Output)
        /\ Len(ins) = 1 /\ Len(outs) = 0
        /\ \A k \in 1..Len(ins) : Within(Any, ins[k])
        /\ \A k \in 1..Len(outs) :
             IF outs[k].match = 0 THEN Within(outs[k].types, Any)
                                  ELSE outs[k].match \in 1..Len(ins)
    BY <1>1, <1>2
  <2> HIDE DEF ins, outs
  <2> QED BY <1>3, <2>1, <2>2, ShiftsOf
<1>8. Shifts("DUP", Num, 1, 2)
  <2> DEFINE ins == <<Any>>
             outs == <<SameAs(Any, 0), SameAs(Any, 0)>>
  <2>1. CoreEffect["DUP"] = Effect(ins, outs)
    BY DEF CoreEffect
  <2> HIDE DEF Any, Num
  <2>2. /\ ins \in Seq(TypeSet) /\ outs \in Seq(Output)
        /\ Len(ins) = 1 /\ Len(outs) = 2
        /\ \A k \in 1..Len(ins) : Within(Num, ins[k])
        /\ \A k \in 1..Len(outs) :
             IF outs[k].match = 0 THEN Within(outs[k].types, Num)
                                  ELSE outs[k].match \in 1..Len(ins)
    BY <1>1, <1>2
  <2> HIDE DEF ins, outs
  <2> QED BY <1>3, <2>1, <2>2, ShiftsOf
<1>9. Shifts("ZERO", Num, 0, 1)
  <2> DEFINE ins == <<>>
             outs == <<Out(Num)>>
  <2>1. CoreEffect["ZERO"] = Effect(ins, outs)
    BY DEF CoreEffect
  <2> HIDE DEF Any, Num
  <2>2. /\ ins \in Seq(TypeSet) /\ outs \in Seq(Output)
        /\ Len(ins) = 0 /\ Len(outs) = 1
        /\ \A k \in 1..Len(ins) : Within(Num, ins[k])
        /\ \A k \in 1..Len(outs) :
             IF outs[k].match = 0 THEN Within(outs[k].types, Num)
                                  ELSE outs[k].match \in 1..Len(ins)
    BY <1>1, <1>2
  <2> HIDE DEF ins, outs
  <2> QED BY <1>3, <2>1, <2>2, ShiftsOf
<1>10. Shifts("LT", Any, 2, 1)
  <2> DEFINE ins == <<Any, Any>>
             outs == <<Out(Num)>>
  <2>1. CoreEffect["LT"] = Effect(ins, outs)
    BY DEF CoreEffect, kRelEffect
  <2> HIDE DEF Any, Num
  <2>2. /\ ins \in Seq(TypeSet) /\ outs \in Seq(Output)
        /\ Len(ins) = 2 /\ Len(outs) = 1
        /\ \A k \in 1..Len(ins) : Within(Any, ins[k])
        /\ \A k \in 1..Len(outs) :
             IF outs[k].match = 0 THEN Within(outs[k].types, Any)
                                  ELSE outs[k].match \in 1..Len(ins)
    BY <1>1, <1>2
  <2> HIDE DEF ins, outs
  <2> QED BY <1>3, <2>1, <2>2, ShiftsOf
<1>11. Shifts("GT", Any, 2, 1)
  <2> DEFINE ins == <<Any, Any>>
             outs == <<Out(Num)>>
  <2>1. CoreEffect["GT"] = Effect(ins, outs)
    BY DEF CoreEffect, kRelEffect
  <2> HIDE DEF Any, Num
  <2>2. /\ ins \in Seq(TypeSet) /\ outs \in Seq(Output)
        /\ Len(ins) = 2 /\ Len(outs) = 1
        /\ \A k \in 1..Len(ins) : Within(Any, ins[k])
        /\ \A k \in 1..Len(outs) :
             IF outs[k].match = 0 THEN Within(outs[k].types, Any)
                                  ELSE outs[k].match \in 1..Len(ins)
    BY <1>1, <1>2
  <2> HIDE DEF ins, outs
  <2> QED BY <1>3, <2>1, <2>2, ShiftsOf
<1>12. Shifts("LT_ZERO", Num, 1, 1)
  <2> DEFINE ins == <<Any>>
             outs == <<Out(Num)>>
  <2>1. CoreEffect["LT_ZERO"] = Effect(ins, outs)
    BY DEF CoreEffect, k0RelEffect
  <2> HIDE DEF Any, Num
  <2>2. /\ ins \in Seq(TypeSet) /\ outs \in Seq(Output)
        /\ Len(ins) = 1 /\ Len(outs) = 1
        /\ \A k \in 1..Len(ins) : Within(Num, ins[k])
        /\ \A k \in 1..Len(outs) :
             IF outs[k].match = 0 THEN Within(outs[k].types, Num)
                                  ELSE outs[k].match \in 1..Len(ins)
    BY <1>1, <1>2
  <2> HIDE DEF ins, outs
  <2> QED BY <1>3, <2>1, <2>2, ShiftsOf
<1>13. Shifts("MINUS", Num, 2, 1)
  <2> DEFINE ins == <<Num, Num>>
             outs == <<Out(Num)>>
  <2>1. CoreEffect["MINUS"] = Effect(ins, outs)
    BY DEF CoreEffect, kBinEffect
  <2> HIDE DEF Any, Num
  <2>2. /\ ins \in Seq(TypeSet) /\ outs \in Seq(Output)
        /\ Len(ins) = 2 /\ Len(outs) = 1
        /\ \A k \in 1..Len(ins) : Within(Num, ins[k])
        /\ \A k \in 1..Len(outs) :
             IF outs[k].match = 0 THEN Within(outs[k].types, Num)
                                  ELSE outs[k].match \in 1..Len(ins)
    BY <1>1, <1>2
  <2> HIDE DEF ins, outs
  <2> QED BY <1>3, <2>1, <2>2, ShiftsOf
<1> QED BY <1>4, <1>5, <1>6, <1>7, <1>8, <1>9, <1>10,
           <1>11, <1>12, <1>13

\* An effect declared with a max
LEMMA MaxDeclares ==
  ASSUME NEW ins \in Seq(TypeSet), NEW outs \in Seq(Output),
         \A i \in DOMAIN outs : outs[i].match <= Len(ins), NEW m \in 0..9
  PROVE  /\ Declares(WithMax(Effect(ins, outs), m), ins, outs)
         /\ WithMax(Effect(ins, outs), m).max \in Nat
         /\ WithMax(Effect(ins, outs), m).max >= m
<1>1. PICK e \in StackEffect : e = Effect(ins, outs) /\ Declares(e, ins, outs)
  BY EffectDeclares, EffectOK
<1>2. /\ Declares(WithMax(e, m), ins, outs) /\ WithMax(e, m) \in StackEffect
  <2>1. m \in Int
    OBVIOUS
  <2> QED BY <1>1, <2>1, WithMaxOK DEF Declares
<1>3. WithMax(e, m).max \in Nat
  BY <1>2, EffectFields
<1>4. /\ e.max \in 0..kUnknownMax /\ Len(e.ins) \in Nat /\ Len(e.outs) \in Nat
      /\ e = [ins |-> e.ins, outs |-> e.outs, max |-> e.max]
  BY EffectFields
<1>5. PICK t : t = AtMost(AtLeast(AtLeast(m, Net(e)), e.max), kUnknownMax)
  OBVIOUS
<1>6. t >= m
  <2>1. kUnknownMax >= 9
    BY DEF kUnknownMax
  <2> QED BY <1>4, <1>5, <2>1, MaxNat DEF AtMost, AtLeast, Net
<1>7. WithMax(e, m) = [e EXCEPT !.max = t]
  BY <1>5 DEF WithMax
<1>8. WithMax(e, m).max = t
  BY <1>4, <1>7
<1> QED BY <1>1, <1>2, <1>3, <1>6, <1>8

\* How deep the stack is at the instructions of ABS, and of MAX and MIN
AbsDepth == [c \in {1, 2, 3, 5, 6, 7, 8} |-> IF c \in {1, 5, 8} THEN 1 ELSE 2]

SelectDepth ==
  [c \in {1, 2, 3, 4, 6, 7, 8} |->
     IF c = 3 THEN 4 ELSE IF c \in {2, 4} THEN 3 ELSE IF c = 8 THEN 1 ELSE 2]

LEMMA AbsSteady == Steady(CoreCode["ABS"], CoreEffect["ABS"], Num, AbsDepth)
<1>1. PICK e : e = CoreEffect["ABS"]
  OBVIOUS
<1>2. PICK code : code = CoreCode["ABS"]
  OBVIOUS
<1>3. /\ Declares(e, <<Num>>, <<Out(Num)>>) /\ e.max \in Nat /\ e.max >= 1
  <2> DEFINE ins == <<Num>>
             outs == <<Out(Num)>>
  <2>1. e = WithMax(Effect(ins, outs), 1)
    BY <1>1 DEF CoreEffect
  <2>2. /\ ins \in Seq(TypeSet) /\ outs \in Seq(Output) /\ 1 \in 0..9
        /\ \A i \in DOMAIN outs : outs[i].match <= Len(ins)
    BY CoreTypes DEF Out
  <2> HIDE DEF ins, outs
  <2>3. /\ Declares(e, ins, outs) /\ e.max \in Nat /\ e.max >= 1
    BY <2>1, <2>2, MaxDeclares
  <2> QED BY <2>3 DEF ins, outs
<1>4. code = <<OpCell("DUP"), OpCell("LT_ZERO"), OpCell("_ZBRANCH"),
               OffsetCell(3), OpCell("ZERO"), OpCell("SWAP"), OpCell("MINUS"),
               OpCell("_RETURN")>>
  BY <1>2 DEF CoreCode
<1>5. /\ DOMAIN code = 1..8
      /\ \A c \in {1, 2, 3, 5, 6, 7, 8} : code[c].kind = "op"
      /\ code[1].op = "DUP" /\ code[2].op = "LT_ZERO" /\ code[3].op = "_ZBRANCH"
      /\ code[4].offset = 3 /\ code[5].op = "ZERO" /\ code[6].op = "SWAP"
      /\ code[7].op = "MINUS" /\ code[8].op = "_RETURN"
  BY <1>4 DEF OpCell, OffsetCell
<1>6. PICK d : d = AbsDepth
  OBVIOUS
<1>7. /\ DOMAIN d = {1, 2, 3, 5, 6, 7, 8} /\ d \in [DOMAIN d -> Nat]
      /\ d[1] = 1 /\ d[2] = 2 /\ d[3] = 2 /\ d[5] = 1 /\ d[6] = 2
      /\ d[7] = 2 /\ d[8] = 1
  BY <1>6 DEF AbsDepth
<1>8. \A c \in {1, 2, 5, 6, 7} : ShiftsAt(code, Num, d, c)
  <2>1. ShiftsAt(code, Num, d, 1)
    BY <1>5, <1>7, CoreShifts DEF ShiftsAt
  <2>2. ShiftsAt(code, Num, d, 2)
    BY <1>5, <1>7, CoreShifts DEF ShiftsAt
  <2>3. ShiftsAt(code, Num, d, 5)
    BY <1>5, <1>7, CoreShifts DEF ShiftsAt
  <2>4. ShiftsAt(code, Num, d, 6)
    BY <1>5, <1>7, CoreShifts DEF ShiftsAt
  <2>5. ShiftsAt(code, Num, d, 7)
    BY <1>5, <1>7, CoreShifts DEF ShiftsAt
  <2> QED BY <2>1, <2>2, <2>3, <2>4, <2>5
<1>9. BranchesAt(code, d, 3)
  BY <1>5, <1>7 DEF BranchesAt, Target
<1>10. ReturnsAt(code, e, Num, d, 8)
  BY <1>3, <1>5, <1>7 DEF ReturnsAt, Declares, Out, Within
<1>11. /\ Len(e.ins) = 1 /\ \A k \in 1..Len(e.ins) : Within(e.ins[k], Num)
  BY <1>3 DEF Declares, Within
<1>12. Steady(code, e, Num, d)
  BY <1>3, <1>5, <1>7, <1>8, <1>9, <1>10, <1>11 DEF Steady
<1> QED BY <1>1, <1>2, <1>6, <1>12

LEMMA SelectSteady ==
  ASSUME NEW w \in {"MAX", "MIN"}
  PROVE  Steady(CoreCode[w], CoreEffect[w], Any, SelectDepth)
<1>1. PICK e : e = CoreEffect[w]
  OBVIOUS
<1>2. PICK code : code = CoreCode[w]
  OBVIOUS
<1>3. /\ Declares(e, <<Any, Any>>, <<Out(Any)>>) /\ e.max \in Nat /\ e.max >= 2
  <2> DEFINE ins == <<Any, Any>>
             outs == <<Out(Any)>>
  <2>1. e = WithMax(Effect(ins, outs), 2)
    BY <1>1 DEF CoreEffect
  <2>2. /\ ins \in Seq(TypeSet) /\ outs \in Seq(Output) /\ 2 \in 0..9
        /\ \A i \in DOMAIN outs : outs[i].match <= Len(ins)
    BY CoreTypes DEF Out
  <2> HIDE DEF ins, outs
  <2>3. /\ Declares(e, ins, outs) /\ e.max \in Nat /\ e.max >= 2
    BY <2>1, <2>2, MaxDeclares
  <2> QED BY <2>3 DEF ins, outs
<1>4. PICK compare \in {"LT", "GT"} : code = SelectCode(compare)
  BY <1>2 DEF CoreCode
<1>5. /\ DOMAIN code = 1..8
      /\ \A c \in {1, 2, 3, 4, 6, 7, 8} : code[c].kind = "op"
      /\ code[1].op = "OVER" /\ code[2].op = "OVER" /\ code[3].op = compare
      /\ code[4].op = "_ZBRANCH" /\ code[5].offset = 1 /\ code[6].op = "SWAP"
      /\ code[7].op = "DROP" /\ code[8].op = "_RETURN"
  BY <1>4 DEF SelectCode, OpCell, OffsetCell
<1>6. PICK d : d = SelectDepth
  OBVIOUS
<1>7. /\ DOMAIN d = {1, 2, 3, 4, 6, 7, 8} /\ d \in [DOMAIN d -> Nat]
      /\ d[1] = 2 /\ d[2] = 3 /\ d[3] = 4 /\ d[4] = 3 /\ d[6] = 2
      /\ d[7] = 2 /\ d[8] = 1
  BY <1>6 DEF SelectDepth
<1>8. \A c \in {1, 2, 3, 6, 7} : ShiftsAt(code, Any, d, c)
  <2>1. ShiftsAt(code, Any, d, 1)
    BY <1>5, <1>7, CoreShifts DEF ShiftsAt
  <2>2. ShiftsAt(code, Any, d, 2)
    BY <1>5, <1>7, CoreShifts DEF ShiftsAt
  <2>3. ShiftsAt(code, Any, d, 3)
    <3>1. Shifts(code[3].op, Any, 2, 1)
      BY <1>5, CoreShifts
    <3> QED BY <1>5, <1>7, <3>1 DEF ShiftsAt
  <2>4. ShiftsAt(code, Any, d, 6)
    BY <1>5, <1>7, CoreShifts DEF ShiftsAt
  <2>5. ShiftsAt(code, Any, d, 7)
    BY <1>5, <1>7, CoreShifts DEF ShiftsAt
  <2> QED BY <2>1, <2>2, <2>3, <2>4, <2>5
<1>9. BranchesAt(code, d, 4)
  BY <1>5, <1>7 DEF BranchesAt, Target
<1>10. ReturnsAt(code, e, Any, d, 8)
  BY <1>3, <1>5, <1>7 DEF ReturnsAt, Declares, Out, Within
<1>11. /\ Len(e.ins) = 2 /\ \A k \in 1..Len(e.ins) : Within(e.ins[k], Any)
  BY <1>3 DEF Declares, Within
<1>12. Steady(code, e, Any, d)
  BY <1>3, <1>5, <1>7, <1>8, <1>9, <1>10, <1>11 DEF Steady
<1> QED BY <1>1, <1>2, <1>6, <1>12

(***************************************************************************)
(* The interpreted words of the core vocabulary, as INTERP_WORD compiles   *)
(* them by hand (core_words.cc), have the effects that are declared and    *)
(* stay within their max.                                                  *)
(***************************************************************************)
LEMMA CoreCertified ==
  ASSUME NEW w \in DOMAIN CoreCode
  PROVE  \E R : /\ Certifies(R, CoreCode[w], CoreEffect[w])
               /\ Bounded(R, CoreCode[w], CoreEffect[w])
<1>1. w = "ABS" \/ w \in {"MAX", "MIN"}
  BY DEF CoreCode
<1>2. CASE w = "ABS"
  BY <1>2, AbsSteady, SteadyCertifies
<1>3. CASE w \in {"MAX", "MIN"}
  BY <1>3, SelectSteady, SteadyCertifies
<1> QED BY <1>1, <1>2, <1>3

-----------------------------------------------------------------------------
(* The C stack *)

\* The code calls nothing but native words.
LeafCode(code) ==
  \A c \in DOMAIN code :
    /\ code[c].kind \notin {"word", "interp"}
    /\ code[c].kind = "op" => code[c].op \notin {"IFELSE", "_RECURSE"}

\* Only the word compiled calls others.
LeavesOnly == \A w \in DOMAIN WordCode : LeafCode(WordCode[w])

\* The only frame there may be is that of the word compiled.
OneDeep == frames = <<>> \/ (Len(frames) = 1 /\ at.word # "main")

\* A word not flagged Recursive has no RECURSE left in its code.
LEMMA NoRecursionLeft ==
  ASSUME Approved, ~recursive, NEW x \in MainStates, x.left = 0
  PROVE  ~IsOp(instrs[x.cell], "_RECURSE")
<1>1. GenInv /\ RecursionInv /\ phase = "compiled"
  BY ApprovedFacts
<1>2. x \in State
  BY MainWhere
<1>3. PICK i \in Live \cap DOMAIN known :
        \/ AtNative(x, i)
        \/ x.left = 0 /\ i \in DOMAIN interpWord /\ x.cell = StartOf(i)
        \/ \E h \in DOMAIN interpWord :
             /\ i \in Members(h) /\ x.cell = CellOf(i)
             /\ x.left = h + interpWord[h].count - i
             /\ x.tail = interpWord[h].tail
  BY MainWhere
<1>4. CASE AtNative(x, i)
  <2>1. x.cell = StartOf(i) /\ IsNative(words[i].word)
    BY <1>4 DEF AtNative
  <2>2. instrs[x.cell] = OpCell(words[i].word)
    BY <1>1, <2>1, CodeOfWord
  <2>3. words[i].word # "_RECURSE"
    BY <1>1, FinalFacts DEF RecursionInv
  <2> QED BY <2>2, <2>3 DEF IsOp, OpCell
<1>5. CASE i \in DOMAIN interpWord /\ x.cell = StartOf(i)
  <2>1. instrs[x.cell] = InterpCell(interpWord[i].count, interpWord[i].tail)
    BY <1>1, <1>5, CodeOfWord
  <2> QED BY <2>1 DEF IsOp, InterpCell
<1>6. ASSUME NEW h \in DOMAIN interpWord, i \in Members(h),
             x.left = h + interpWord[h].count - i
      PROVE  FALSE
  <2>1. x.left > 0
    BY <1>2, <1>6, GroupLeft
  <2> QED BY <2>1
<1> QED BY <1>3, <1>4, <1>5, <1>6

\* In a word that is called nothing is called.
LEMMA LeafRuns ==
  ASSUME NEW CONSTANT env, Going(env), LeavesOnly, at.word # "main"
  PROVE  /\ group.left = 0 /\ ~Fetch("IFELSE") /\ ~Fetch("_RECURSE")
         /\ Fetchable => Cell.kind # "interp"
<1>1. PICK P, x, base :
        /\ Linked(env, P, frames)
        /\ Activation(env, at.word, x, base, P[Len(frames)], Len(frames))
        /\ StateAt(x, base, at, group, Stack)
  BY RunParts
<1>2. /\ at.word \in Codes /\ x \in State
      /\ CodeOf(at.word) = env.code[at.word]
      /\ x.cell = at.cell /\ x.left = group.left
      /\ StepStays(env.cert[at.word], env.code[at.word], env.eff[at.word], x)
  BY <1>1, RunFacts
<1>3. at.word \in DOMAIN WordCode /\ CodeOf(at.word) = WordCode[at.word]
  BY <1>2 DEF Codes, CodeOf
<1>4. PICK code : code = CodeOf(at.word)
  OBVIOUS
<1>5. LeafCode(code)
  BY <1>3, <1>4 DEF LeavesOnly
<1>6. x.cell \in DOMAIN code
  BY <1>2, <1>4 DEF StepStays
<1>7. ~(x.left > 0)
  <2>1. ASSUME x.left > 0 PROVE code[x.cell].kind = "word"
    BY <1>2, <1>4, <2>1 DEF StepStays, CallStays
  <2> QED BY <1>5, <1>6, <2>1 DEF LeafCode
<1>8. group.left = 0
  BY <1>2, <1>7 DEF State
<1>9. Cell = code[x.cell]
  BY <1>2, <1>4 DEF Cell
<1>10. /\ Cell.kind \notin {"word", "interp"}
       /\ Cell.kind = "op" => Cell.op \notin {"IFELSE", "_RECURSE"}
  BY <1>5, <1>6, <1>9 DEF LeafCode
<1> QED BY <1>8, <1>10 DEF Fetch

LEMMA OneDeepKept ==
  ASSUME NEW CONSTANT env, env = Setting, Going(env), Approved, LeavesOnly,
         ~recursive, OneDeep, status = "running", MachineStep
  PROVE  OneDeep'
<1>1. ASSUME frames' = frames, at'.word = at.word PROVE OneDeep'
  BY <1>1 DEF OneDeep
<1>2. PICK P, x, base :
        /\ Linked(env, P, frames)
        /\ Activation(env, at.word, x, base, P[Len(frames)], Len(frames))
        /\ StateAt(x, base, at, group, Stack)
  BY RunParts
<1>3. /\ at.word \in Codes /\ x \in State /\ x \in env.cert[at.word]
      /\ CodeOf(at.word) = env.code[at.word]
      /\ x.cell = at.cell /\ x.left = group.left
      /\ StepStays(env.cert[at.word], env.code[at.word], env.eff[at.word], x)
  BY <1>2, RunFacts
<1>4. /\ at \in [word : Codes, cell : Int] /\ frames \in Seq(FrameSet)
  BY DEF Going, Shaped
<1>5. ASSUME NEW n, Skip(n) PROVE at'.word = at.word
  BY <1>4, <1>5 DEF Skip
<1>6. ASSUME at' = BranchTarget PROVE at'.word = at.word
  BY <1>4, <1>6 DEF BranchTarget
<1>7. ASSUME at.word = "main" PROVE frames = <<>>
  BY <1>7 DEF OneDeep
<1>8. ASSUME NEW frame, PushFrame(frame), at.word = "main", at'.word # "main"
      PROVE  OneDeep'
  <2>1. frames' = Append(<<>>, frame)
    BY <1>7, <1>8 DEF PushFrame
  <2>2. Len(frames') = 1
    BY <2>1
  <2> QED BY <1>8, <2>2 DEF OneDeep
<1>9. CASE RunWild
  BY <1>1, <1>9 DEF RunWild
<1>10. CASE RunStackWord
  BY <1>1, <1>5, <1>10 DEF RunStackWord
<1>11. CASE RunLiteral
  BY <1>1, <1>5, <1>11 DEF RunLiteral
<1>12. CASE RunBranch
  BY <1>1, <1>6, <1>12 DEF RunBranch
<1>13. CASE RunZBranch
  BY <1>1, <1>5, <1>6, <1>13 DEF RunZBranch
<1>14. CASE RunInterp
  BY <1>1, <1>5, <1>14 DEF RunInterp
<1>15. CASE RunReturn
  <2>1. CASE frames = <<>>
    BY <1>1, <1>15, <2>1 DEF RunReturn
  <2>2. CASE frames # <<>>
    <3>1. Len(frames) = 1
      BY <2>2 DEF OneDeep
    <3>2. frames' = SubSeq(frames, 1, Len(frames) - 1)
      BY <1>15, <2>2 DEF RunReturn
    <3>3. frames' = SubSeq(frames, 1, 0)
      BY <3>1, <3>2
    <3>4. frames' = <<>>
      BY <1>4, <3>1, <3>3
    <3> QED BY <3>4 DEF OneDeep
  <2> QED BY <2>1, <2>2
<1>16. CASE RunRecurse
  <2>1. Fetch("_RECURSE")
    BY <1>16 DEF RunRecurse
  <2>2. at.word = "main"
    BY <2>1, LeafRuns
  <2>3. x \in MainStates /\ x.left = 0
    <3>1. env.cert["main"] = MainStates
      BY DEF Setting, Codes, CertOf
    <3> QED BY <1>3, <2>1, <2>2, <3>1 DEF Fetch
  <2>4. ~IsOp(instrs[x.cell], "_RECURSE")
    BY <2>3, NoRecursionLeft
  <2>5. Cell = instrs[x.cell]
    BY <1>3, <2>2 DEF Cell, CodeOf
  <2> QED BY <2>1, <2>4, <2>5 DEF Fetch, IsOp
<1>17. CASE RunIfElse
  <2>1. Fetch("IFELSE")
    BY <1>17 DEF RunIfElse
  <2>2. at.word = "main"
    BY <2>1, LeafRuns
  <2>3. CASE UNCHANGED <<at, frames>>
    BY <1>1, <2>3
  <2>4. CASE ~UNCHANGED <<at, frames>>
    <3>1. /\ \E frame : PushFrame(frame)
          /\ {mem[sp - 1], mem[sp]} \subseteq Quotes
          /\ \E w \in {mem[sp - 1], mem[sp]} : at' = [word |-> w, cell |-> 1]
      BY <1>17, <2>4 DEF RunIfElse
    <3>2. at'.word \in Quotes
      BY <3>1
    <3>3. at'.word # "main"
      BY <3>2, InterpreterAssumption
    <3> QED BY <1>8, <2>2, <3>1, <3>3
  <2> QED BY <2>3, <2>4
<1>18. CASE CallInGroup
  <2>1. group.left > 0 /\ at' = [word |-> Cell.word, cell |-> 1]
    BY <1>18 DEF CallInGroup
  <2>2. at.word = "main"
    <3>1. group.left # 0
      BY <2>1
    <3> QED BY <3>1, LeafRuns
  <2>3. Cell.word \in Interpreted
    <3>1. CallStays(env.cert[at.word], env.code[at.word], env.eff[at.word], x)
      BY <1>3, <2>1 DEF StepStays
    <3>2. Cell = env.code[at.word][x.cell]
      BY <1>3 DEF Cell
    <3> QED BY <3>1, <3>2 DEF CallStays
  <2>4. at'.word # "main"
    BY <2>1, <2>3, InterpreterAssumption
  <2>5. CASE UNCHANGED frames
    <3>1. frames' = <<>>
      BY <1>7, <2>2, <2>5
    <3> QED BY <3>1 DEF OneDeep
  <2>6. CASE ~UNCHANGED frames
    <3>1. \E frame : PushFrame(frame)
      BY <1>18, <2>6 DEF CallInGroup
    <3> QED BY <1>8, <2>2, <2>4, <3>1
  <2> QED BY <2>5, <2>6
<1>19. ~StartRun
  BY DEF StartRun
<1> QED BY <1>9, <1>10, <1>11, <1>12, <1>13, <1>14, <1>15, <1>16, <1>17, <1>18,
           <1>19 DEF MachineStep

\* The machine's state is of the types it should be.
MachineTyped ==
  /\ mem \in Seq(Values) /\ sp \in 0..Len(mem)
  /\ group.left \in 0..kMaxInterp
  /\ Len(frames) <= MaxFrames

\* Groups have no more calls left than the code gives them.
LEMMA GroupInBounds ==
  ASSUME NEW CONSTANT env, env = Setting, Surrounds(env), Approved, LeavesOnly,
         NEW fs, NEW a, NEW g \in [left : Nat, tail : BOOLEAN], NEW s,
         Chain(env, fs, a, g, s)
  PROVE  g.left \in 0..kMaxInterp
<1>1. PICK P : Resumes(env, a, g, s, P[Len(fs)], Len(fs))
  BY DEF Chain
<1>2. PICK x, base : /\ Activation(env, a.word, x, base, P[Len(fs)], Len(fs))
                     /\ StateAt(x, base, a, g, s)
  BY <1>1 DEF Resumes
<1>3. a.word \in Codes /\ x \in env.cert[a.word] /\ x.left = g.left
  BY <1>2 DEF Activation, StateAt
<1>4. g.left \in Nat
  OBVIOUS
<1>5. CASE a.word = "main"
  <2>1. x \in MainStates
    <3>1. env.cert["main"] = MainStates
      BY DEF Setting, Codes, CertOf
    <3> QED BY <1>3, <1>5, <3>1
  <2>2. CASE x.left = 0
    BY <1>3, <2>2 DEF kMaxInterp
  <2>3. CASE x.left # 0
    <3>1. PICK i \in Live \cap DOMAIN known :
            \/ AtNative(x, i)
            \/ x.left = 0 /\ i \in DOMAIN interpWord /\ x.cell = StartOf(i)
            \/ \E h \in DOMAIN interpWord :
                 /\ i \in Members(h) /\ x.cell = CellOf(i)
                 /\ x.left = h + interpWord[h].count - i
                 /\ x.tail = interpWord[h].tail
      BY <2>1, MainWhere
    <3>2. PICK h \in DOMAIN interpWord :
            i \in Members(h) /\ x.left = h + interpWord[h].count - i
      BY <2>3, <3>1 DEF AtNative
    <3>3. h \in Nat /\ interpWord[h].count \in 1..kMaxInterp
      <4>1. GenInv /\ phase = "compiled"
        BY ApprovedFacts
      <4>2. h \in Nat /\ h \in Live
        BY <4>1, GroupFacts
      <4>3. GroupAt(h)
        BY <4>1, <4>2, FinalFacts DEF Coded, Groups
      <4> QED BY <4>2, <4>3 DEF GroupAt
    <3>4. i \in h..(h + interpWord[h].count - 1)
      BY <3>2 DEF Members
    <3> QED BY <1>3, <1>4, <3>2, <3>3, <3>4 DEF kMaxInterp
  <2> QED BY <2>2, <2>3
<1>6. CASE a.word # "main"
  <2>1. Sound(env)
    BY DEF Surrounds
  <2>2. PICK w : w = a.word
    OBVIOUS
  <2>3. /\ x \in State
        /\ StepStays(env.cert[w], env.code[w], env.eff[w], x)
    BY <1>3, <2>1, <2>2, SoundStates
  <2>4. /\ w \in DOMAIN WordCode /\ env.code[w] = WordCode[w]
    BY <1>3, <1>6, <2>2 DEF Surrounds, Codes, CodeOf
  <2>5. LeafCode(env.code[w])
    BY <2>4 DEF LeavesOnly
  <2>6. ~(x.left > 0)
    BY <2>3, <2>5 DEF StepStays, CallStays, LeafCode
  <2>7. x.left = 0
    BY <2>3, <2>6 DEF State
  <2> QED BY <1>3, <2>7 DEF kMaxInterp
<1> QED BY <1>5, <1>6

\* What ends a run leaves the stack as it is, or else is well.
LEMMA OverflowStays ==
  ASSUME MachineStep, status = "running", status' # "running"
  PROVE  /\ status' = "overflow" => UNCHANGED <<mem, sp>>
         /\ UNCHANGED group
<1>1. ASSUME NEW n, NEW vs, Replace(n, vs), status' = "overflow"
      PROVE  UNCHANGED <<mem, sp>>
  BY <1>1 DEF Replace
<1>2. CASE RunStackWord
  BY <1>1, <1>2 DEF RunStackWord
<1>3. CASE RunLiteral
  BY <1>1, <1>3 DEF RunLiteral
<1>4. CASE RunZBranch
  BY <1>1, <1>4 DEF RunZBranch
<1>5. CASE RunIfElse
  BY <1>1, <1>5 DEF RunIfElse
<1>6. CASE RunReturn
  BY <1>6 DEF RunReturn
<1>7. CASE RunWild
  BY <1>7 DEF RunWild
<1>8. CASE RunBranch \/ RunRecurse \/ RunInterp \/ CallInGroup
  BY <1>8 DEF RunBranch, RunRecurse, RunInterp, CallInGroup
<1>9. ~StartRun
  BY DEF StartRun
<1> QED BY <1>2, <1>3, <1>4, <1>5, <1>6, <1>7, <1>8, <1>9 DEF MachineStep

LEMMA FramesBounded ==
  ASSUME MachineStep, frames \in Seq(FrameSet), Len(frames) <= MaxFrames
  PROVE  Len(frames') <= MaxFrames
<1>1. MaxFrames \in Nat
  BY InterpreterAssumption
<1>2. ASSUME NEW frame, PushFrame(frame) PROVE Len(frames') <= MaxFrames
  <2>1. frames' = Append(frames, frame) /\ Len(frames) < MaxFrames
    BY <1>2 DEF PushFrame
  <2>2. Len(frames') = Len(frames) + 1
    BY <2>1
  <2> QED BY <1>1, <2>1, <2>2
<1>3. ASSUME frames' = frames PROVE Len(frames') <= MaxFrames
  BY <1>3
<1>4. CASE RunReturn
  <2>1. CASE frames = <<>>
    BY <1>3, <1>4, <2>1 DEF RunReturn
  <2>2. CASE frames # <<>>
    <3>1. frames' = SubSeq(frames, 1, Len(frames) - 1)
      BY <1>4, <2>2 DEF RunReturn
    <3>2. PICK n : n = Len(frames) - 1
      OBVIOUS
    <3>3. n \in 0..Len(frames) /\ n <= MaxFrames
      BY <1>1, <2>2, <3>2
    <3>4. frames' = SubSeq(frames, 1, n)
      BY <3>1, <3>2
    <3>5. Len(frames') = n
      BY <3>3, <3>4
    <3> QED BY <3>3, <3>5
  <2> QED BY <2>1, <2>2
<1>5. CASE RunRecurse
  BY <1>2, <1>5 DEF RunRecurse
<1>6. CASE CallInGroup
  BY <1>2, <1>3, <1>6 DEF CallInGroup
<1>7. CASE RunIfElse
  BY <1>2, <1>3, <1>7 DEF RunIfElse
<1>8. CASE \/ StartRun \/ RunWild \/ RunStackWord \/ RunLiteral
           \/ RunBranch \/ RunZBranch \/ RunInterp
  BY <1>3, <1>8 DEF StartRun, RunWild, RunStackWord, RunLiteral, RunBranch,
                    RunZBranch, RunInterp
<1> QED BY <1>4, <1>5, <1>6, <1>7, <1>8 DEF MachineStep

LEMMA TypedKept ==
  ASSUME NEW CONSTANT env, env = Setting, Going(env), Approved, LeavesOnly,
         MachineTyped, status = "running", MachineStep
  PROVE  MachineTyped'
<1>1. RunsWell(env, status', mem', sp', at', group', frames')
  BY RunningStep
<1>2. frames \in Seq(FrameSet) /\ Len(frames) <= MaxFrames
  BY DEF Going, Shaped, MachineTyped
<1>3. Len(frames') <= MaxFrames
  BY <1>2, FramesBounded
<1>4. mem' \in Seq(Values) /\ sp' \in 0..Len(mem')
  <2>1. CASE status' = "overflow"
    <3>1. UNCHANGED <<mem, sp>>
      BY <2>1, OverflowStays
    <3> QED BY <3>1 DEF MachineTyped
  <2>2. CASE status' # "overflow"
    <3>1. Shaped(mem', sp', at', group', frames')
      BY <1>1, <2>2 DEF RunsWell
    <3> QED BY <3>1 DEF Shaped
  <2> QED BY <2>1, <2>2
<1>5. group'.left \in 0..kMaxInterp
  <2>1. CASE status' = "running"
    <3>1. PICK m, p, a, g, fs : /\ m = mem' /\ p = sp' /\ a = at' /\ g = group'
                                /\ fs = frames'
      OBVIOUS
    <3>2. RunsWell(env, "running", m, p, a, g, fs)
      BY <1>1, <2>1, <3>1
    <3>3. /\ g \in [left : Nat, tail : BOOLEAN]
          /\ Chain(env, fs, a, g, Used(m, p))
      BY <3>2 DEF RunsWell, Shaped
    <3>4. Surrounds(env)
      BY DEF Going
    <3>5. g.left \in 0..kMaxInterp
      BY <3>3, <3>4, GroupInBounds
    <3> QED BY <3>1, <3>5
  <2>2. CASE status' # "running"
    BY <2>2, OverflowStays DEF MachineTyped
  <2> QED BY <2>1, <2>2
<1> QED BY <1>3, <1>4, <1>5 DEF MachineTyped

\* What is known besides of a run whose callees call nothing
LeafInv ==
  /\ status = "idle" => mem = <<>> /\ sp = 0
  /\ Vouched /\ status # "idle" => MachineTyped /\ (~recursive => OneDeep)

LEMMA LeafInvStep ==
  ASSUME GenInv, RecursionInv, CodeCertified, WordsKeepEffects, RunInv,
         effect \in StackEffect, LeavesOnly, LeafInv, MachineStep
  PROVE  LeafInv'
<1>1. UNCHANGED genVars
  BY MachineStepKeeps
<1>2. Vouched' = Vouched /\ recursive' = recursive
  BY <1>1, HereSame DEF genVars, layoutVars
<1>3. ASSUME StartRun
      PROVE  status' # "idle" /\ MachineTyped' /\ OneDeep'
  <2>1. MachineIdle
    BY <1>3 DEF StartRun, RunInv
  <2>2. status' = "running" /\ UNCHANGED <<at, group, frames>>
    BY <1>3 DEF StartRun
  <2>3. PICK inputs \in [DOMAIN effect.ins -> Values] :
          mem' = inputs /\ sp' = Len(inputs)
    BY <1>3 DEF StartRun
  <2>4. PICK n \in Nat : DOMAIN effect.ins = 1..n
    <3>1. effect.ins \in Seq(TypeSet)
      BY EffectFields
    <3> QED BY <3>1
  <2>5. inputs \in Seq(Values) /\ Len(inputs) \in 0..Len(inputs)
    <3>1. inputs \in [1..n -> Values]
      BY <2>4
    <3>2. inputs \in Seq(Values)
      BY <3>1
    <3> QED BY <3>2
  <2>6. group'.left = 0 /\ frames' = <<>> /\ Len(frames') = 0
    BY <2>1, <2>2 DEF MachineIdle, NoGroup
  <2> QED BY <2>2, <2>3, <2>5, <2>6, InterpreterAssumption
          DEF MachineTyped, OneDeep, kMaxInterp
<1>4. ASSUME Vouched, status = "running"
      PROVE  status' # "idle" /\ MachineTyped' /\ (~recursive => OneDeep')
  <2>1. PICK env : env = Setting
    OBVIOUS
  <2>2. RunsWell(env, status, mem, sp, at, group, frames)
    BY <1>4, <2>1 DEF RunInv
  <2>3. Surrounds(env)
    BY <1>4, <2>1, SurroundsHere
  <2>4. Going(env)
    BY <1>4, <2>2, <2>3 DEF RunsWell, Going, Stack
  <2>5. RunsWell(env, status', mem', sp', at', group', frames')
    BY <1>4, <2>4, RunningStep
  <2>6. status' # "idle"
    BY <2>5 DEF RunsWell
  <2>7. Approved /\ MachineTyped /\ (~recursive => OneDeep)
    BY <1>4 DEF Approved, LeafInv
  <2>8. MachineTyped'
    BY <1>4, <2>1, <2>4, <2>7, TypedKept
  <2>9. ~recursive => OneDeep'
    BY <1>4, <2>1, <2>4, <2>7, OneDeepKept
  <2> QED BY <2>6, <2>8, <2>9
<1>5. StartRun \/ status = "running"
  BY OnlyRunningSteps
<1>6. status' # "idle"
  BY <1>5 DEF MachineStep, StartRun, RunWild, RunStackWord, RunLiteral,
     RunBranch, RunZBranch, RunRecurse, RunInterp, CallInGroup, RunIfElse,
     RunReturn, Replace
<1> QED BY <1>2, <1>3, <1>4, <1>5, <1>6 DEF LeafInv

LEMMA LeafInvKept ==
  ASSUME GenInv, RecursionInv, CodeCertified, WordsKeepEffects, RunInv,
         effect \in StackEffect, LeavesOnly, LeafInv, [MachineNext]_allVars
  PROVE  LeafInv'
<1>1. CASE GenNext /\ UNCHANGED machineVars
  <2>1. status = "idle"
    BY <1>1, CompiledIsFinal DEF RunInv
  <2>2. status' = "idle" /\ mem' = mem /\ sp' = sp
    BY <1>1, <2>1 DEF machineVars
  <2> QED BY <2>1, <2>2 DEF LeafInv
<1>2. CASE MachineStep
  BY <1>2, LeafInvStep
<1>3. CASE UNCHANGED allVars
  <2>1. UNCHANGED genVars /\ UNCHANGED machineVars
    BY <1>3 DEF allVars
  <2>2. Vouched' = Vouched /\ recursive' = recursive
    BY <2>1, HereSame DEF genVars, layoutVars
  <2>3. UNCHANGED <<status, mem, sp, at, group, frames>>
    BY <2>1 DEF machineVars
  <2>4. MachineTyped' = MachineTyped /\ OneDeep' = OneDeep
    BY <2>3 DEF MachineTyped, OneDeep
  <2> QED BY <2>2, <2>3, <2>4 DEF LeafInv
<1> QED BY <1>1, <1>2, <1>3 DEF MachineNext

-----------------------------------------------------------------------------
(* The theorems *)

\* The inductive invariant of a run
RunningInv == GenInv /\ RecursionInv /\ RunInv

LEMMA EffectAlways == GenInv => effect \in StackEffect
<1> SUFFICES ASSUME GenInv PROVE effect \in StackEffect
  OBVIOUS
<1>1. CASE phase \in {"layout", "emitting", "compiled"}
  BY <1>1 DEF GenInv, Emission, Laid, LayoutShape
<1>2. CASE phase \notin {"layout", "emitting", "compiled"}
  BY <1>2 DEF GenInv, BeforeLayout, CheckLists, SetupOK
<1> QED BY <1>1, <1>2

LEMMA RunningInit == MachineInit => RunningInv
<1> SUFFICES ASSUME MachineInit PROVE RunningInv
  OBVIOUS
<1>1. GenInit
  BY DEF MachineInit
<1> QED BY <1>1, GenInitOK, RecursionInit, RunInvInit DEF RunningInv

LEMMA RunningKept ==
  ASSUME InlinesAreStraight, NativesAsDeclared, QuotesAgree, WordsKeepEffects,
         RunningInv, [MachineNext]_allVars
  PROVE  RunningInv'
<1>1. GenInv /\ RecursionInv /\ RunInv
  BY DEF RunningInv
<1>2. [GenNext]_genVars
  BY MachineStepKeeps DEF MachineNext, allVars
<1>3. GenInv' /\ RecursionInv'
  BY <1>1, <1>2, GenNextOK, RecursionKept
<1>4. effect \in StackEffect /\ CodeCertified
  BY <1>1, EffectAlways, Certified
<1>5. RunInv'
  BY <1>1, <1>4, RunInvKept
<1> QED BY <1>3, <1>5 DEF RunningInv

\* A run that has begun is one of a compiled word.
LEMMA BegunIsCompiled ==
  ASSUME RunningInv, ~canAddInputs, Complete, RecursionBalanced, status # "idle"
  PROVE  Approved /\ RunsWell(Setting, status, mem, sp, at, group, frames)
<1>1. GenInv /\ RecursionInv /\ RunInv
  BY DEF RunningInv
<1>2. phase = "compiled"
  BY <1>1 DEF RunInv
<1>3. Vouched
  BY <1>2 DEF Vouched
<1> QED BY <1>1, <1>3 DEF RunInv, Approved

\* In the outermost activation the stack is that of a state of the certificate.
LEMMA OutermostState ==
  ASSUME NEW env, env = Setting, NEW g, NEW a, NEW s \in Seq(Values),
         Chain(env, <<>>, a, g, s), a.word = "main"
  PROVE  \E x \in MainStates : x.cell = a.cell /\ x.left = g.left /\ x.cur = s
<1>1. PICK P : Linked(env, P, <<>>) /\ Resumes(env, a, g, s, P[Len(<<>>)], Len(<<>>))
  BY DEF Chain
<1>2. Resumes(env, a, g, s, P[0], 0)
  BY <1>1
<1>3. PICK x, base : /\ Activation(env, a.word, x, base, P[0], 0)
                     /\ StateAt(x, base, a, g, s)
  BY <1>2 DEF Resumes
<1>4. x \in env.cert["main"] /\ base = <<>>
  BY <1>3 DEF Activation
<1>5. env.cert["main"] = MainStates
  BY DEF Setting, Codes, CertOf
<1>6. x.cur \in Seq(Values)
  BY <1>4, <1>5 DEF MainStates, State
<1>7. s = x.cur
  <2>1. s = Upon(<<>>, x.cur)
    BY <1>3, <1>4 DEF StateAt
  <2> QED BY <1>6, <2>1, NoneBelow
<1> QED BY <1>3, <1>4, <1>5, <1>7 DEF StateAt

LEMMA RunningAsChecked ==
  ASSUME RunningInv, RecursionBalanced
  PROVE  StackAsChecked
<1> SUFFICES ASSUME Complete, ~canAddInputs, NEW i \in DOMAIN words, AtPosition(i)
             PROVE  /\ i \in DOMAIN known
                    /\ sp = Len(known[i])
                    /\ \A k \in 1..sp : Describes(known[i][k], mem[k])
  BY DEF StackAsChecked
<1>1. /\ status = "running" /\ frames = <<>> /\ group.left = 0
      /\ at.word = "main" /\ i \in Live /\ at.cell = StartOf(i)
  BY DEF AtPosition, Running
<1>2. Approved /\ RunsWell(Setting, status, mem, sp, at, group, frames)
  BY <1>1, BegunIsCompiled
<1>3. PICK m, p, a, g : m = mem /\ p = sp /\ a = at /\ g = group
  OBVIOUS
<1>4. RunsWell(Setting, "running", m, p, a, g, <<>>)
  BY <1>1, <1>2, <1>3
<1>5. m \in Seq(Values) /\ p \in 0..Len(m) /\ Chain(Setting, <<>>, a, g, Used(m, p))
  BY <1>4 DEF RunsWell, Shaped
<1>6. PICK s \in Seq(Values) : /\ s = Used(m, p) /\ Len(s) = p
                               /\ \A k \in 1..p : s[k] = m[k]
  BY <1>5, StackLen
<1>7. PICK x \in MainStates : x.cell = a.cell /\ x.left = g.left /\ x.cur = s
  BY <1>1, <1>3, <1>5, <1>6, OutermostState
<1>8. x.left = 0 /\ x.cell = StartOf(i)
  BY <1>1, <1>3, <1>7
<1>9. PICK j \in Live \cap DOMAIN known :
        /\ Described(known[j], x.cur)
        /\ \/ AtNative(x, j)
           \/ x.left = 0 /\ j \in DOMAIN interpWord /\ x.cell = StartOf(j)
           \/ \E h \in DOMAIN interpWord :
                /\ j \in Members(h) /\ x.cell = CellOf(j)
                /\ x.left = h + interpWord[h].count - j
                /\ x.tail = interpWord[h].tail
  BY <1>2, MainWhere
<1>10. x.cell = StartOf(j)
  <2>1. x \in State
    BY DEF MainStates
  <2>2. ~(x.left > 0)
    BY <1>8
  <2> QED BY <1>2, <1>9, <2>1, <2>2, GroupLeft DEF AtNative
<1>11. i = j
  <2>1. GenInv /\ phase = "compiled" /\ i \in Nat /\ j \in Nat
    BY <1>1, <1>2, <1>9, ApprovedFacts, FinalFacts
  <2>2. ~(i < j) /\ ~(j < i)
    <3>1. StartOf(i) \in Nat /\ StartOf(i) = StartOf(j)
      BY <1>1, <1>8, <1>10, <2>1, CodeOfWord
    <3> QED BY <1>1, <1>9, <2>1, <3>1, StartsApart
  <2> QED BY <2>1, <2>2
<1>12. Described(known[i], s)
  BY <1>7, <1>9, <1>11
<1> QED BY <1>3, <1>6, <1>9, <1>11, <1>12 DEF Described

LEMMA ReturnedAsDeclared ==
  ASSUME RunningInv, RecursionBalanced, ~canAddInputs
  PROVE  EffectKept
<1> SUFFICES ASSUME Complete, status = "returned" PROVE sp = Len(effect.outs)
  BY DEF EffectKept
<1>1. Approved /\ RunsWell(Setting, status, mem, sp, at, group, frames)
  BY BegunIsCompiled
<1>2. PICK m, p, a, g, fs : /\ m = mem /\ p = sp /\ a = at /\ g = group
                            /\ fs = frames
  OBVIOUS
<1>3. RunsWell(Setting, "returned", m, p, a, g, fs)
  BY <1>1, <1>2
<1>4. m \in Seq(Values) /\ p \in 0..Len(m) /\ Used(m, p) \in Setting.finals
  BY <1>3 DEF RunsWell, Shaped
<1>5. Keeps(Promise, <<>>, Used(m, p))
  BY <1>4 DEF Setting, Finals
<1>6. Len(Used(m, p)) = p
  BY <1>4, StackLen
<1>7. Len(Promise.outs) = Len(effect.outs)
  BY <1>1, ApprovedFacts, PromiseParts
<1> QED BY <1>2, <1>5, <1>6, <1>7 DEF Keeps

LEMMA RunningSafely ==
  ASSUME RunningInv, RecursionBalanced, ~canAddInputs, Complete
  PROVE  /\ status \in {"idle", "running", "returned", "overflow"}
         /\ Sized => status # "overflow"
<1>1. CASE status = "idle"
  BY <1>1
<1>2. CASE status # "idle"
  <2>1. Approved /\ RunsWell(Setting, status, mem, sp, at, group, frames)
    BY <1>2, BegunIsCompiled
  <2>2. /\ status \in {"running", "returned", "overflow"}
        /\ status = "overflow" => Room = Int
    BY <2>1 DEF RunsWell, Setting
  <2>3. ASSUME Sized, Room = Int PROVE FALSE
    <3>1. Capacity \in Int
      <4>1. effect \in StackEffect
        BY <2>1, ApprovedFacts
      <4>2. Len(effect.ins) \in Nat /\ effect.max \in Nat
        BY <4>1, EffectFields, MaxNat
      <4> QED BY <4>2 DEF Capacity
    <3>2. Capacity + 1 \in Room
      BY <2>3, <3>1
    <3>3. Capacity + 1 <= Capacity
      BY <2>3, <3>2 DEF Room
    <3> QED BY <3>1, <3>3
  <2> QED BY <2>2, <2>3
<1> QED BY <1>1, <1>2

(***************************************************************************)
(* The stack at run time is the one the checker memoized, on every path    *)
(* and after every call and optimization: for a word of any length whose   *)
(* inputs are declared, if the words and quotations it calls have          *)
(* certificates.                                                           *)
(***************************************************************************)
THEOREM StacksAsMemoized ==
  ASSUME InlinesAreStraight, NativesAsDeclared, QuotesAgree, WordsKeepEffects
  PROVE  MachineSpec => [](RecursionBalanced => StackAsChecked)
<1>1. RunningInv /\ [MachineNext]_allVars => RunningInv'
  BY RunningKept
<1>2. RunningInv => (RecursionBalanced => StackAsChecked)
  BY RunningAsChecked
<1>3. QED
  BY <1>1, <1>2, RunningInit, PTL DEF MachineSpec

(***************************************************************************)
(* A word that ran to its RETURN has changed the depth of the stack as its *)
(* effect declares (test.cc and repl.cc take the outputs from there).      *)
(***************************************************************************)
THEOREM EffectsKept ==
  ASSUME InlinesAreStraight, NativesAsDeclared, QuotesAgree, WordsKeepEffects
  PROVE  MachineSpec => [](RecursionBalanced /\ ~canAddInputs => EffectKept)
<1>1. RunningInv /\ [MachineNext]_allVars => RunningInv'
  BY RunningKept
<1>2. RunningInv => (RecursionBalanced /\ ~canAddInputs => EffectKept)
  BY ReturnedAsDeclared
<1>3. QED
  BY <1>1, <1>2, RunningInit, PTL DEF MachineSpec

(***************************************************************************)
(* The interpreter never takes more from the stack than there is, never    *)
(* runs into something that is no instruction, and IFELSE always finds two *)
(* quotations: a run can only fail by growing the stack.                   *)
(***************************************************************************)
OnlyOverflows ==
  Complete => status \in {"idle", "running", "returned", "overflow"}

THEOREM NothingButOverflow ==
  ASSUME InlinesAreStraight, NativesAsDeclared, QuotesAgree, WordsKeepEffects
  PROVE  MachineSpec => [](RecursionBalanced /\ ~canAddInputs => OnlyOverflows)
<1>1. RunningInv /\ [MachineNext]_allVars => RunningInv'
  BY RunningKept
<1>2. RunningInv => (RecursionBalanced /\ ~canAddInputs => OnlyOverflows)
  BY RunningSafely DEF OnlyOverflows
<1>3. QED
  BY <1>1, <1>2, RunningInit, PTL DEF MachineSpec

(***************************************************************************)
(* And if max covers the stack of every word (MaxCoversEveryWord; it does  *)
(* not where a path that needs more joins one that was traced before,      *)
(* compiler+stackcheck.hh:221) and the word recurses by looping only, the  *)
(* stack that run() allocates from max is never left (repl.cc:62, 87).     *)
(***************************************************************************)
THEOREM SizedRunsAreSafe ==
  ASSUME InlinesAreStraight, NativesAsDeclared, QuotesAgree, WordsKeepEffects
  PROVE  MachineSpec =>
           [](RecursionBalanced /\ ~canAddInputs /\ Sized => RunsSafely)
<1>1. RunningInv /\ [MachineNext]_allVars => RunningInv'
  BY RunningKept
<1>2. RunningInv => (RecursionBalanced /\ ~canAddInputs /\ Sized => RunsSafely)
  BY RunningSafely DEF RunsSafely
<1>3. QED
  BY <1>1, <1>2, RunningInit, PTL DEF MachineSpec

\* The inductive invariant of a run whose callees call nothing
LeafRunningInv == RunningInv /\ LeafInv

LEMMA LeafRunningInit == MachineInit => LeafRunningInv
BY RunningInit, CompilerAssumption
   DEF MachineInit, GenInit, CheckInit, Init, LeafRunningInv, LeafInv, Vouched

LEMMA LeafRunningKept ==
  ASSUME InlinesAreStraight, NativesAsDeclared, QuotesAgree, WordsKeepEffects,
         LeavesOnly, LeafRunningInv, [MachineNext]_allVars
  PROVE  LeafRunningInv'
<1>1. RunningInv /\ LeafInv /\ GenInv /\ RecursionInv /\ RunInv
  BY DEF LeafRunningInv, RunningInv
<1>2. effect \in StackEffect /\ CodeCertified
  BY <1>1, EffectAlways, Certified
<1>3. RunningInv'
  BY <1>1, RunningKept
<1>4. LeafInv'
  BY <1>1, <1>2, LeafInvKept
<1> QED BY <1>3, <1>4 DEF LeafRunningInv

LEMMA LeafRunningShows ==
  ASSUME LeafRunningInv, RecursionBalanced, ~canAddInputs, Complete
  PROVE  MachineTypeOK /\ TailRecursionIsLoop
<1>1. RunningInv /\ LeafInv /\ RunInv
  BY DEF LeafRunningInv, RunningInv
<1>2. status \in {"idle", "running", "returned", "overflow"}
  BY <1>1, RunningSafely
<1>3. CASE status = "idle"
  <2>1. mem = <<>> /\ sp = 0 /\ MachineIdle
    BY <1>1, <1>3 DEF LeafInv, RunInv
  <2>2. mem \in Seq(Values) /\ 0 \in 0..Len(mem)
    BY <2>1
  <2>3. Len(frames) = 0
    BY <2>1 DEF MachineIdle
  <2>4. group.left = 0 /\ 0 \in 0..kMaxInterp
    BY <2>1 DEF MachineIdle, NoGroup, kMaxInterp
  <2>5. 0 <= MaxFrames /\ 0 <= 1
    BY InterpreterAssumption
  <2>6. sp \in 0..Len(mem) /\ group.left \in 0..kMaxInterp
    BY <2>1, <2>2, <2>4
  <2>7. Len(frames) <= MaxFrames /\ Len(frames) <= 1
    BY <2>3, <2>5
  <2> QED BY <1>2, <2>2, <2>6, <2>7, Zenon DEF MachineTypeOK, TailRecursionIsLoop
<1>4. CASE status # "idle"
  <2>1. Vouched
    BY <1>1, <1>4 DEF RunInv, Vouched
  <2>2. MachineTyped /\ (~recursive => OneDeep)
    BY <1>1, <1>4, <2>1 DEF LeafInv
  <2>3. OneDeep => Len(frames) <= 1
    <3>1. ASSUME frames = <<>> PROVE Len(frames) <= 1
      BY <3>1
    <3> QED BY <3>1 DEF OneDeep
  <2> QED BY <1>2, <2>2, <2>3 DEF MachineTypeOK, MachineTyped, TailRecursionIsLoop
<1> QED BY <1>3, <1>4

(***************************************************************************)
(* Where the words and quotations called call no others, the machine's     *)
(* state is of the types it should be: what RECURSE restores as sp lies in *)
(* the stack, and no group has more calls left than INTERP4 makes.         *)
(***************************************************************************)
THEOREM MachineTypeCorrect ==
  ASSUME InlinesAreStraight, NativesAsDeclared, QuotesAgree, WordsKeepEffects,
         LeavesOnly
  PROVE  MachineSpec =>
           [](RecursionBalanced /\ ~canAddInputs /\ Complete => MachineTypeOK)
<1>1. LeafRunningInv /\ [MachineNext]_allVars => LeafRunningInv'
  BY LeafRunningKept
<1>2. LeafRunningInv =>
        (RecursionBalanced /\ ~canAddInputs /\ Complete => MachineTypeOK)
  BY LeafRunningShows
<1>3. QED
  BY <1>1, <1>2, LeafRunningInit, PTL DEF MachineSpec

(***************************************************************************)
(* Tail recursion is a loop (compiler.cc, README.md:134): a word that is   *)
(* not flagged Recursive has at most its own frame on the C stack, and     *)
(* that only while a word it called runs, however often it recurses.       *)
(***************************************************************************)
THEOREM LoopsNeedNoStack ==
  ASSUME InlinesAreStraight, NativesAsDeclared, QuotesAgree, WordsKeepEffects,
         LeavesOnly
  PROVE  MachineSpec =>
           [](RecursionBalanced /\ ~canAddInputs /\ Complete => TailRecursionIsLoop)
<1>1. LeafRunningInv /\ [MachineNext]_allVars => LeafRunningInv'
  BY LeafRunningKept
<1>2. LeafRunningInv =>
        (RecursionBalanced /\ ~canAddInputs /\ Complete => TailRecursionIsLoop)
  BY LeafRunningShows
<1>3. QED
  BY <1>1, <1>2, LeafRunningInit, PTL DEF MachineSpec

(***************************************************************************)
(* A program of the core vocabulary: its native words and the code of ABS, *)
(* MAX and MIN are those of core_words.cc, and its quotations are made of  *)
(* native words.  Nothing here is about values: it is all read off code.   *)
(***************************************************************************)
CoreProgram ==
  /\ InlinesAreStraight /\ NativesAsDeclared /\ QuotesAgree
  /\ \A w \in Interpreted :
       /\ w \in DOMAIN CoreCode
       /\ WordCode[w] = CoreCode[w] /\ WordEffect[w] = CoreEffect[w]
  /\ \A q \in Quotes :
       /\ LeafCode(WordCode[q])
       /\ \E T, d : Steady(WordCode[q], QuoteEffect[q], T, d)

\* The max of the word's effect is what the checker found it needs.
MaxSuffices == \A i \in DOMAIN known : Peak(i) <= Capacity

LEMMA CoreLeaves ==
  ASSUME NEW w \in DOMAIN CoreCode
  PROVE  LeafCode(CoreCode[w])
<1> USE DEF OpCell, OffsetCell
<1>1. CASE w = "ABS"
  BY <1>1 DEF CoreCode, LeafCode
<1>2. CASE w \in {"MAX", "MIN"}
  BY <1>2 DEF CoreCode, SelectCode, LeafCode
<1> QED BY <1>1, <1>2 DEF CoreCode

(***************************************************************************)
(* ABS, MAX and MIN, whose code core_words.cc writes down cell by cell     *)
(* (INTERP_WORD), have the effects declared there and stay within their    *)
(* max; so do quotations of native words.  The checker trusts what is      *)
(* declared and never looks into the code.                                 *)
(***************************************************************************)
THEOREM CoreWordsKeepEffects ==
  ASSUME CoreProgram
  PROVE  WordsBounded /\ WordsKeepEffects /\ LeavesOnly
<1>1. \A w \in DOMAIN WordCode : w \in Interpreted \/ w \in Quotes
  BY InterpreterAssumption
<1>2. ASSUME NEW w \in Interpreted
      PROVE  \E R : /\ Certifies(R, WordCode[w], DeclaredEffect(w))
                    /\ Bounded(R, WordCode[w], DeclaredEffect(w))
  <2>1. /\ w \in DOMAIN CoreCode
        /\ WordCode[w] = CoreCode[w] /\ DeclaredEffect(w) = CoreEffect[w]
    BY DEF CoreProgram, DeclaredEffect
  <2> QED BY <2>1, CoreCertified
<1>3. ASSUME NEW q \in Quotes
      PROVE  \E R : /\ Certifies(R, WordCode[q], DeclaredEffect(q))
                    /\ Bounded(R, WordCode[q], DeclaredEffect(q))
  <2>1. q \notin Interpreted
    BY InterpreterAssumption
  <2>2. DeclaredEffect(q) = QuoteEffect[q]
    BY <2>1 DEF DeclaredEffect
  <2>3. PICK T, d : Steady(WordCode[q], QuoteEffect[q], T, d)
    BY DEF CoreProgram
  <2> QED BY <2>2, <2>3, SteadyCertifies
<1>4. ASSUME NEW w \in DOMAIN WordCode PROVE LeafCode(WordCode[w])
  <2>1. CASE w \in Interpreted
    BY <2>1, CoreLeaves DEF CoreProgram
  <2>2. CASE w \in Quotes
    BY <2>2 DEF CoreProgram
  <2> QED BY <1>1, <2>1, <2>2
<1>5. LeavesOnly
  BY <1>4 DEF LeavesOnly
<1> QED BY <1>1, <1>2, <1>3, <1>5 DEF WordsBounded, WordsKeepEffects

(***************************************************************************)
(* Whatever word is compiled from such a program runs on the stacks the    *)
(* checker memoized, leaves the depth it declares, needs no C stack unless *)
(* flagged Recursive, and can only fail by growing the stack; not even     *)
(* that, if it recurses by looping and its max is what the checker found   *)
(* it needs.                                                               *)
(***************************************************************************)
THEOREM CoreProgramsRun ==
  ASSUME CoreProgram
  PROVE  MachineSpec =>
           [](RecursionBalanced /\ ~canAddInputs /\ Complete =>
                /\ MachineTypeOK /\ StackAsChecked /\ EffectKept
                /\ TailRecursionIsLoop /\ OnlyOverflows
                /\ ~recursive /\ MaxSuffices => RunsSafely)
<1>1. /\ InlinesAreStraight /\ NativesAsDeclared /\ QuotesAgree
      /\ WordsKeepEffects /\ WordsBounded /\ LeavesOnly
  BY CoreWordsKeepEffects DEF CoreProgram
<1>2. LeafRunningInv /\ [MachineNext]_allVars => LeafRunningInv'
  BY <1>1, LeafRunningKept
<1>3. ASSUME LeafRunningInv, RecursionBalanced, ~canAddInputs, Complete
      PROVE  /\ MachineTypeOK /\ StackAsChecked /\ EffectKept
             /\ TailRecursionIsLoop /\ OnlyOverflows
             /\ ~recursive /\ MaxSuffices => RunsSafely
  <2>1. RunningInv
    BY <1>3 DEF LeafRunningInv
  <2>2. StackAsChecked /\ EffectKept
    BY <1>1, <1>3, <2>1, RunningAsChecked, ReturnedAsDeclared
  <2>3. MachineTypeOK /\ TailRecursionIsLoop
    BY <1>3, LeafRunningShows
  <2>4. /\ status \in {"idle", "running", "returned", "overflow"}
        /\ Sized => status # "overflow"
    BY <1>3, <2>1, RunningSafely
  <2>5. ~recursive /\ MaxSuffices => Sized
    BY <1>1 DEF Sized, MaxSuffices
  <2> QED BY <2>2, <2>3, <2>4, <2>5 DEF OnlyOverflows, RunsSafely
<1>4. LeafRunningInv =>
        (RecursionBalanced /\ ~canAddInputs /\ Complete =>
           /\ MachineTypeOK /\ StackAsChecked /\ EffectKept
           /\ TailRecursionIsLoop /\ OnlyOverflows
           /\ ~recursive /\ MaxSuffices => RunsSafely)
  BY <1>3
<1>5. QED
  BY <1>2, <1>4, LeafRunningInit, PTL DEF MachineSpec
=============================================================================

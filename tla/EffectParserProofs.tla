------------------------ MODULE EffectParserProofs -------------------------
(***************************************************************************)
(* Proofs about the parser of stack effect declarations, for texts of any  *)
(* length.                                                                 *)
(***************************************************************************)
EXTENDS EffectParser, StackEffectProofs, FiniteSetTheorems

-----------------------------------------------------------------------------
(* Entries *)

LEMMA CompletedOK ==
  ASSUME NEW types \in TypeSet
  PROVE  Completed(types) \in TypeSet
BY DEF Completed, AnyType, TypeSet

\* addTypeSymbol() adds types.
LEMMA SymbolTypes ==
  ASSUME NEW x
  PROVE  {SymbolType[s] : s \in {x} \cap DOMAIN SymbolType} \in TypeSet
<1> SUFFICES ASSUME NEW s \in DOMAIN SymbolType PROVE SymbolType[s] \in Types
  BY DEF TypeSet
<1> QED BY DEF SymbolType, Types

\* One more entry, while there is room
LEMMA InputAdded ==
  ASSUME NEW e \in StackEffect, e.outs = <<>>, NEW types \in TypeSet,
         Len(e.ins) + Len(e.outs) < kMaxEntries
  PROVE  LET f == AddInputs(e, <<types>>)
         IN  /\ f \in StackEffect /\ ~Overfull(f)
             /\ f.ins = Append(e.ins, types) /\ f.outs = e.outs
             /\ f.max = e.max
<1> DEFINE ins == Append(e.ins, types)
<1>1. /\ e.ins \in Seq(TypeSet) /\ e.max \in 0..kUnknownMax
      /\ e = [ins |-> e.ins, outs |-> e.outs, max |-> e.max]
      /\ e.outs \in Seq(Output)
  BY EffectFields
<1>2. e.ins \o <<types>> = ins
  BY <1>1
<1>3. ins \in Seq(TypeSet) /\ Len(ins) = Len(e.ins) + 1
  BY <1>1
<1> HIDE DEF ins
<1>4. AddInputs(e, <<types>>) = [ins |-> ins, outs |-> e.outs, max |-> e.max]
  <2>1. AddInputs(e, <<types>>) = [e EXCEPT !.ins = ins]
    BY <1>2 DEF AddInputs
  <2>2. [e EXCEPT !.ins = ins] = [ins |-> ins, outs |-> e.outs, max |-> e.max]
    BY <1>1
  <2> QED BY <2>1, <2>2
<1>5. \A i \in DOMAIN e.outs : e.outs[i].match <= Len(ins)
  OBVIOUS
<1>6. AddInputs(e, <<types>>) \in StackEffect
  BY <1>1, <1>3, <1>4, <1>5, EffectFrom
<1>7. Len(ins) + Len(e.outs) <= kMaxEntries
  BY <1>1, <1>3 DEF kMaxEntries
<1>8. ~Overfull([ins |-> ins, outs |-> e.outs, max |-> e.max])
  BY <1>1, <1>3, <1>7 DEF Overfull, kMaxEntries
<1> QED BY <1>4, <1>6, <1>8 DEF ins

LEMMA OutputAdded ==
  ASSUME NEW e \in StackEffect, NEW out \in Output, out.match <= Len(e.ins),
         Len(e.ins) + Len(e.outs) < kMaxEntries
  PROVE  LET f == AddOutputs(e, <<out>>)
         IN  /\ f \in StackEffect /\ ~Overfull(f)
             /\ f.outs = Append(e.outs, out) /\ f.ins = e.ins
             /\ f.max = e.max
<1> DEFINE outs == Append(e.outs, out)
<1>1. /\ e.ins \in Seq(TypeSet) /\ e.max \in 0..kUnknownMax
      /\ e = [ins |-> e.ins, outs |-> e.outs, max |-> e.max]
      /\ e.outs \in Seq(Output)
      /\ \A i \in DOMAIN e.outs : e.outs[i].match <= Len(e.ins)
  BY EffectFields
<1>2. e.outs \o <<out>> = outs
  BY <1>1
<1>3. outs \in Seq(Output) /\ Len(outs) = Len(e.outs) + 1
  BY <1>1
<1>4. ASSUME NEW i \in DOMAIN outs PROVE outs[i].match <= Len(e.ins)
  <2>1. CASE i = Len(e.outs) + 1
    BY <1>1, <2>1
  <2>2. CASE i # Len(e.outs) + 1
    <3>1. i \in DOMAIN e.outs /\ outs[i] = e.outs[i]
      BY <1>1, <1>3, <2>2
    <3> QED BY <1>1, <3>1
  <2> QED BY <2>1, <2>2
<1> HIDE DEF outs
<1>5. AddOutputs(e, <<out>>) = [ins |-> e.ins, outs |-> outs, max |-> e.max]
  <2>1. AddOutputs(e, <<out>>) = [e EXCEPT !.outs = outs]
    BY <1>2 DEF AddOutputs
  <2>2. [e EXCEPT !.outs = outs] = [ins |-> e.ins, outs |-> outs, max |-> e.max]
    BY <1>1
  <2> QED BY <2>1, <2>2
<1>6. AddOutputs(e, <<out>>) \in StackEffect
  BY <1>1, <1>3, <1>4, <1>5, EffectFrom
<1>7. ~Overfull([ins |-> e.ins, outs |-> outs, max |-> e.max])
  BY <1>1, <1>3 DEF Overfull, kMaxEntries
<1> QED BY <1>5, <1>6, <1>7 DEF outs

-----------------------------------------------------------------------------
(* Types *)

\* A token that has begun has room: checkNotFull() came first.
EffectInv ==
  /\ text \in Seq(Char)
  /\ c \in 1..(Len(text) + 3)
  /\ effect \in StackEffect
  /\ ~Overfull(effect)
  /\ names \in Seq(Seq(Char))
  /\ Len(names) = Len(effect.ins)
  /\ inputs => effect.outs = <<>>
  /\ token \in 0..Len(text)
  /\ entry \in TypeSet
  /\ status \in Errors \cup {"parsing", "done"}
  /\ token # 0 => ~Full

\* The input whose number setInputMatch() stores is there.
LEMMA FirstMatch ==
  ASSUME EffectInv, Matches # {}
  PROVE  \E b \in Matches : /\ b \in DOMAIN effect.ins
                            /\ \A n \in Matches : b <= n
                            /\ MatchedOutput = SameAs(effect.ins[b], Len(effect.ins) - b)
<1>1. effect.ins \in Seq(TypeSet) /\ Len(names) = Len(effect.ins)
  BY EffectFields DEF EffectInv
<1>2. PICK m \in Matches : \A n \in Matches : m <= n
  <2>1. Matches \in SUBSET Nat
    BY <1>1 DEF Matches, EffectInv
  <2> QED BY <2>1, LeastNatural
<1> DEFINE b == CHOOSE x \in Matches : \A n \in Matches : x <= n
<1>3. b \in Matches /\ \A n \in Matches : b <= n
  BY <1>2
<1>4. MatchedOutput = SameAs(effect.ins[b], Len(effect.ins) - b)
  BY DEF MatchedOutput
<1>5. b \in DOMAIN effect.ins
  BY <1>1, <1>3 DEF Matches, EffectInv
<1> QED BY <1>3, <1>4, <1>5

LEMMA EffectInvInit == EffectInit => EffectInv
<1> SUFFICES ASSUME EffectInit PROVE EffectInv
  OBVIOUS
<1>1. text \in Seq(Char) /\ Len(text) \in Nat
  BY TextsAssumption DEF EffectInit
<1>2. effect \in StackEffect /\ ~Overfull(effect)
  <2>1. /\ <<>> \in Seq(TypeSet) /\ <<>> \in Seq(Output) /\ 0 \in 0..kUnknownMax
        /\ \A i \in DOMAIN <<>> : <<>>[i].match <= Len(<<>>)
    BY MaxNat
  <2>2. [ins |-> <<>>, outs |-> <<>>, max |-> 0] \in StackEffect
    BY <2>1, EffectFrom
  <2> QED BY <2>2 DEF EffectInit, Overfull, kMaxEntries
<1>3. entry \in TypeSet
  BY DEF EffectInit, TypeSet
<1>4. /\ c = 1 /\ token = 0 /\ inputs = TRUE /\ tokenIsNamed = FALSE
      /\ effect.ins = <<>> /\ effect.outs = <<>> /\ names = <<>>
      /\ status = "parsing"
  BY DEF EffectInit
<1> QED BY <1>1, <1>2, <1>3, <1>4 DEF EffectInv

\* Each condition by itself, with the number of inputs and outputs
LEMMA EffectInvParts ==
  ASSUME EffectInv
  PROVE  \E n, m \in Nat :
           /\ n = Len(effect.ins) /\ m = Len(effect.outs)
           /\ n + m <= 8
           /\ token # 0 => n + m < 8
<1>1. effect \in StackEffect /\ ~Overfull(effect) /\ (token # 0 => ~Full)
  BY DEF EffectInv
<1>2. PICK n, m \in Nat : n = Len(effect.ins) /\ m = Len(effect.outs)
  BY <1>1, EffectFields
<1>3. ~(n + m > 8) /\ (token # 0 => ~(n + m >= 8))
  BY <1>1, <1>2, Zenon DEF Overfull, Full, kMaxEntries
<1>4. n + m <= 8 /\ (token # 0 => n + m < 8)
  BY <1>3
<1> QED BY <1>2, <1>4, Zenon

\* The output a token makes
LEMMA MatchedOutputOK ==
  ASSUME EffectInv, token # 0
  PROVE  /\ MatchedOutput \in Output /\ MatchedOutput.match <= Len(effect.ins)
         /\ Len(effect.ins) + Len(effect.outs) < kMaxEntries
<1>1. PICK n, m \in Nat : n = Len(effect.ins) /\ m = Len(effect.outs) /\ n + m < 8
  BY EffectInvParts
<1>2. effect.ins \in Seq(TypeSet) /\ Completed(entry) \in TypeSet
  BY EffectFields, CompletedOK DEF EffectInv
<1>3. MatchedOutput \in Output /\ MatchedOutput.match <= Len(effect.ins)
  <2>1. CASE Matches = {}
    <3>1. MatchedOutput = Out(Completed(entry))
      BY <2>1 DEF MatchedOutput
    <3> QED BY <1>1, <1>2, <3>1 DEF Out, Output
  <2>2. CASE Matches # {}
    <3>1. PICK b \in DOMAIN effect.ins :
            MatchedOutput = SameAs(effect.ins[b], Len(effect.ins) - b)
      BY <2>2, FirstMatch
    <3>2. effect.ins[b] \in TypeSet /\ b \in 1..n
      BY <1>1, <1>2
    <3>3. n - b + 1 \in 0..7 /\ n - b + 1 <= n
      <4>1. b \in 1..n /\ n + m < 8
        BY <1>1, <3>2
      <4> QED BY <4>1
    <3> QED BY <1>1, <3>1, <3>2, <3>3 DEF SameAs, Output
  <2> QED BY <2>1, <2>2
<1>4. Len(effect.ins) + Len(effect.outs) < kMaxEntries
  BY <1>1 DEF kMaxEntries
<1> QED BY <1>3, <1>4

LEMMA EffectInvStep ==
  ASSUME EffectInv, [EffectNext]_effectVars
  PROVE  EffectInv'
<1>1. /\ text \in Seq(Char) /\ Len(text) \in Nat
      /\ c \in 1..(Len(text) + 3) /\ c \in Nat
      /\ effect \in StackEffect /\ ~Overfull(effect)
      /\ names \in Seq(Seq(Char)) /\ Len(names) = Len(effect.ins)
      /\ inputs => effect.outs = <<>>
      /\ token \in 0..Len(text) /\ entry \in TypeSet
      /\ status \in Errors \cup {"parsing", "done"}
      /\ token # 0 => ~Full
  <2>1. text \in Seq(Char) /\ Len(text) \in Nat /\ c \in 1..(Len(text) + 3)
    BY DEF EffectInv
  <2>2. c \in Nat
    BY <2>1
  <2> QED BY <2>1, <2>2 DEF EffectInv
<1>2. {} \in TypeSet /\ Completed(entry) \in TypeSet
  BY <1>1, CompletedOK DEF TypeSet
<1>3. PICK n, m \in Nat :
        /\ n = Len(effect.ins) /\ m = Len(effect.outs)
        /\ n + m <= 8
        /\ token # 0 => n + m < 8
  BY EffectInvParts
<1> HIDE DEF Full
<1>4. CASE UNCHANGED effectVars
  BY <1>1, <1>4 DEF effectVars, EffectInv, Full, Overfull
<1>5. CASE SkipBlank
  <2>1. /\ status = "parsing" /\ c <= Len(text) + 1 /\ token = 0 /\ c' = c + 1
        /\ UNCHANGED <<text, effect, inputs, token, entry, names, status>>
    BY <1>5 DEF SkipBlank, Parsing
  <2>2. c' \in 1..(Len(text) + 3)
    BY <1>1, <2>1
  <2> QED BY <1>1, <2>1, <2>2 DEF EffectInv, Overfull
<1>6. CASE EndOfInput
  <2>1. /\ Parsing /\ token # 0 /\ inputs /\ NextToken
        /\ effect' = AddInputs(effect, <<Completed(entry)>>)
        /\ names' = Append(names, IF tokenIsNamed THEN TokenText ELSE <<>>)
    BY <1>6 DEF EndOfInput
  <2>2. /\ effect' \in StackEffect /\ ~Overfull(effect)'
        /\ effect'.ins = Append(effect.ins, Completed(entry))
        /\ effect'.outs = <<>>
    <3>1. effect.outs = <<>> /\ Len(effect.ins) + Len(effect.outs) < kMaxEntries
      BY <1>1, <1>3, <2>1 DEF kMaxEntries
    <3> QED BY <1>1, <1>2, <2>1, <3>1, InputAdded DEF Overfull
  <2>3. PICK t : t = IF tokenIsNamed THEN TokenText ELSE <<>>
    OBVIOUS
  <2>4. t \in Seq(Char)
    <3>1. TokenText \in Seq(Char)
      BY <1>1, <2>1 DEF TokenText, Parsing
    <3>2. <<>> \in Seq(Char)
      OBVIOUS
    <3> QED BY <2>3, <3>1, <3>2, Zenon
  <2>5. names' \in Seq(Seq(Char)) /\ Len(names') = Len(names) + 1
    <3> DEFINE S == Seq(Char)
    <3>1. names' = Append(names, t) /\ names \in Seq(S) /\ t \in S
      BY <1>1, <2>1, <2>3, <2>4
    <3> HIDE DEF S
    <3>2. Append(names, t) \in Seq(S) /\ Len(Append(names, t)) = Len(names) + 1
      BY <3>1
    <3> QED BY <3>1, <3>2 DEF S
  <2>6. Len(effect'.ins) = Len(effect.ins) + 1
    <3>1. effect.ins \in Seq(TypeSet)
      BY <1>1, EffectFields
    <3> QED BY <1>2, <2>2, <3>1
  <2>7. c' \in 1..(Len(text) + 3)
    BY <1>1, <2>1 DEF NextToken, Parsing
  <2> QED BY <1>1, <1>2, <2>1, <2>2, <2>5, <2>6, <2>7
          DEF NextToken, EffectInv
<1>7. CASE EndOfOutput
  <2>1. /\ Parsing /\ token # 0 /\ ~inputs /\ NextToken /\ names' = names
        /\ effect' = AddOutputs(effect, <<MatchedOutput>>)
    BY <1>7 DEF EndOfOutput
  <2>2. /\ MatchedOutput \in Output /\ MatchedOutput.match <= Len(effect.ins)
        /\ Len(effect.ins) + Len(effect.outs) < kMaxEntries
    BY <2>1, MatchedOutputOK
  <2>3. effect' \in StackEffect /\ ~Overfull(effect)' /\ effect'.ins = effect.ins
    BY <1>1, <2>1, <2>2, OutputAdded DEF Overfull
  <2>4. c' \in 1..(Len(text) + 3)
    BY <1>1, <2>1 DEF NextToken, Parsing
  <2> QED BY <1>1, <1>2, <2>1, <2>3, <2>4 DEF NextToken, EffectInv
<1>8. CASE Separator
  <2>1. /\ c + 1 <= Len(text) /\ token = 0 /\ c' = c + 3 /\ inputs' = FALSE
        /\ UNCHANGED <<text, effect, token, entry, names, status>>
    BY <1>8 DEF Separator, SeparatorAllowed
  <2>2. c' \in 1..(Len(text) + 3)
    BY <1>1, <2>1
  <2> QED BY <1>1, <2>1, <2>2 DEF EffectInv, Overfull
<1>9. ASSUME NEW what \in Errors, Throw(what) PROVE EffectInv'
  BY <1>1, <1>9 DEF Throw, EffectInv, Overfull, Full
<1>10. CASE InvalidSeparator \/ TooManyEntries \/ UnknownSymbol \/ MissingSeparator
  BY <1>9, <1>10 DEF InvalidSeparator, TooManyEntries, UnknownSymbol,
                     MissingSeparator, Errors
<1>11. CASE AddCharacter
  <2>1. /\ ~AtBlank /\ (token # 0 \/ ~Full)
        /\ token' = IF token = 0 THEN c ELSE token
        /\ entry' = entry \cup {SymbolType[s] : s \in {text[c]} \cap DOMAIN SymbolType}
        /\ c' = c + 1
        /\ UNCHANGED <<text, effect, inputs, names, status>>
    BY <1>11 DEF AddCharacter, AtSymbol
  <2>2. c <= Len(text)
    BY <1>1, <2>1 DEF AtBlank
  <2>3. entry' \in TypeSet
    BY <1>1, <2>1, SymbolTypes, TypeSetClosed
  <2>4. ~Full'
    BY <1>1, <2>1 DEF Full
  <2>5. token' \in 0..Len(text) /\ c' \in 1..(Len(text) + 3)
    BY <1>1, <2>1, <2>2
  <2> QED BY <1>1, <2>1, <2>3, <2>4, <2>5 DEF EffectInv, Overfull
<1>12. CASE Finish
  <2>1. /\ effect' = WithMax(effect, 0) /\ status' = "done"
        /\ UNCHANGED <<text, c, inputs, token, entry, names>>
    BY <1>12 DEF Finish
  <2>2. /\ effect' \in StackEffect /\ effect'.ins = effect.ins
        /\ effect'.outs = effect.outs
    <3>1. 0 \in Int
      OBVIOUS
    <3> QED BY <1>1, <2>1, <3>1, WithMaxOK
  <2> QED BY <1>1, <2>1, <2>2 DEF EffectInv, Overfull, Full
<1> QED BY <1>4, <1>5, <1>6, <1>7, <1>8, <1>10, <1>11, <1>12 DEF EffectNext

\* The two flags are Booleans.
FlagsOK == inputs \in BOOLEAN /\ tokenIsNamed \in BOOLEAN

LEMMA FlagsKept ==
  /\ EffectInit => FlagsOK
  /\ FlagsOK /\ [EffectNext]_effectVars => FlagsOK'
BY Zenon
   DEF EffectInit, FlagsOK, effectVars, EffectNext, SkipBlank, EndOfInput,
       EndOfOutput, NextToken, Separator, InvalidSeparator, TooManyEntries,
       UnknownSymbol, Throw, AddCharacter, MissingSeparator, Finish

(***************************************************************************)
(* No declaration, however long, makes the parser store a ninth entry, or  *)
(* an input match for an input that is not there (checkNotFull() and       *)
(* setInputMatch(), stack_effect_parser.hh): whatever it returns is an     *)
(* effect as the checker takes it for granted.                             *)
(***************************************************************************)
THEOREM EffectTypeCorrect == EffectSpec => []EffectTypeOK
<1>1. EffectInv /\ FlagsOK => EffectTypeOK
  <2>1. FlagsOK => {inputs, tokenIsNamed} \subseteq BOOLEAN
    BY Zenon DEF FlagsOK
  <2> QED BY <2>1, Zenon DEF EffectInv, EffectTypeOK
<1> QED BY <1>1, EffectInvInit, EffectInvStep, FlagsKept, PTL DEF EffectSpec

-----------------------------------------------------------------------------
(* The tokens of a text *)

LEMMA TokenFacts ==
  ASSUME NEW t \in Seq(Char), NEW w \in TokensOf(t)
  PROVE  /\ w[1] \in 1..Len(t) /\ w[2] \in w[1]..Len(t) /\ w = <<w[1], w[2]>>
         /\ \A i \in w[1]..w[2] : t[i] \notin Blanks
         /\ w[1] = 1 \/ t[w[1] - 1] \in Blanks
         /\ w[2] = Len(t) \/ t[w[2] + 1] \in Blanks
<1>1. w \in (DOMAIN t) \X (DOMAIN t) /\ w[1] <= w[2]
  BY DEF TokensOf
<1>2. w[1] \in DOMAIN t /\ w[2] \in DOMAIN t /\ w = <<w[1], w[2]>>
  BY <1>1
<1> QED BY <1>1, <1>2 DEF TokensOf

LEMMA TokenMade ==
  ASSUME NEW t \in Seq(Char), NEW i \in 1..Len(t), NEW j \in i..Len(t),
         \A k \in i..j : t[k] \notin Blanks,
         i = 1 \/ t[i - 1] \in Blanks,
         j = Len(t) \/ t[j + 1] \in Blanks
  PROVE  <<i, j>> \in TokensOf(t)
<1>1. i \in DOMAIN t /\ j \in DOMAIN t /\ i <= j
  OBVIOUS
<1> QED BY <1>1 DEF TokensOf

\* Tokens do not overlap.
LEMMA TokensApart ==
  ASSUME NEW t \in Seq(Char), NEW u \in TokensOf(t), NEW w \in TokensOf(t),
         u[1] \in w[1]..w[2]
  PROVE  u = w
<1>1. PICK i, j, k, l : i = u[1] /\ j = u[2] /\ k = w[1] /\ l = w[2]
  OBVIOUS
<1>2. /\ i \in 1..Len(t) /\ j \in i..Len(t) /\ u = <<i, j>>
      /\ \A x \in i..j : t[x] \notin Blanks
      /\ i = 1 \/ t[i - 1] \in Blanks
      /\ j = Len(t) \/ t[j + 1] \in Blanks
  BY <1>1, TokenFacts
<1>3. /\ k \in 1..Len(t) /\ l \in k..Len(t) /\ w = <<k, l>>
      /\ \A x \in k..l : t[x] \notin Blanks
      /\ l = Len(t) \/ t[l + 1] \in Blanks
  BY <1>1, TokenFacts
<1>4. i \in k..l
  BY <1>1
<1>5. i = k
  <2> SUFFICES ASSUME i # k PROVE FALSE
    OBVIOUS
  <2>1. i - 1 \in k..l /\ i # 1
    BY <1>2, <1>3, <1>4
  <2> QED BY <1>2, <1>3, <2>1
<1>6. ~(j < l)
  <2> SUFFICES ASSUME j < l PROVE FALSE
    OBVIOUS
  <2>1. j + 1 \in k..l /\ j # Len(t)
    BY <1>2, <1>3, <1>5
  <2> QED BY <1>2, <1>3, <2>1
<1>7. ~(l < j)
  <2> SUFFICES ASSUME l < j PROVE FALSE
    OBVIOUS
  <2>1. l + 1 \in i..j /\ l # Len(t)
    BY <1>2, <1>3, <1>5
  <2> QED BY <1>2, <1>3, <2>1
<1>8. j = l
  BY <1>2, <1>3, <1>6, <1>7
<1> QED BY <1>2, <1>3, <1>5, <1>8

\* There is a token wherever one starts.
LEMMA TokenFrom ==
  ASSUME NEW t \in Seq(Char), NEW i \in 1..Len(t), t[i] \notin Blanks,
         i = 1 \/ t[i - 1] \in Blanks
  PROVE  \E w \in TokensOf(t) : w[1] = i
<1> DEFINE ends == {j \in i..Len(t) : j = Len(t) \/ t[j + 1] \in Blanks}
<1>1. PICK j \in ends : \A k \in ends : j <= k
  <2>1. Len(t) \in ends /\ ends \in SUBSET Nat
    OBVIOUS
  <2> HIDE DEF ends
  <2> QED BY <2>1, LeastNatural
<1>2. ASSUME NEW k \in i..j PROVE t[k] \notin Blanks
  <2>1. CASE k = i
    BY <2>1
  <2>2. CASE k # i
    <3> SUFFICES ASSUME t[k] \in Blanks PROVE FALSE
      OBVIOUS
    <3>1. k - 1 \in i..Len(t) /\ (k - 1) + 1 = k /\ ~(j <= k - 1)
      BY <2>2
    <3>2. k - 1 \in ends
      BY <3>1
    <3> QED BY <1>1, <3>1, <3>2
  <2> QED BY <2>1, <2>2
<1>3. <<i, j>> \in TokensOf(t)
  BY <1>1, <1>2, TokenMade
<1> QED BY <1>3

LEMMA TokensFinite ==
  ASSUME NEW t \in Seq(Char)
  PROVE  IsFiniteSet(TokensOf(t))
<1>1. IsFiniteSet(1..Len(t))
  BY FS_Interval
<1>2. IsFiniteSet((1..Len(t)) \X (1..Len(t)))
  BY <1>1, FS_Product
<1>3. TokensOf(t) \subseteq (1..Len(t)) \X (1..Len(t))
  BY DEF TokensOf
<1> QED BY <1>2, <1>3, FS_Subset

\* The cells of a token's text
LEMMA TextCells ==
  ASSUME NEW t \in Seq(Char), NEW w \in TokensOf(t)
  PROVE  /\ TextOf(t, w) \in Seq(Char)
         /\ Len(TextOf(t, w)) = w[2] - w[1] + 1
         /\ \A i \in 1..(w[2] - w[1] + 1) : TextOf(t, w)[i] = t[w[1] + i - 1]
<1>1. PICK k, l : k = w[1] /\ l = w[2]
  OBVIOUS
<1>2. k \in 1..Len(t) /\ l \in k..Len(t)
  BY <1>1, TokenFacts
<1>3. /\ k \in Int /\ l \in Int /\ k <= l
      /\ \A i \in k..l : t[i] \in Char
  BY <1>2
<1>4. /\ SubSeq(t, k, l) \in Seq(Char)
      /\ Len(SubSeq(t, k, l)) = l - k + 1
      /\ \A i \in 1..(l - k + 1) : SubSeq(t, k, l)[i] = t[k + i - 1]
  BY <1>3, SubSeqProperties
<1> QED BY <1>1, <1>4 DEF TextOf

LEMMA SeparatorText ==
  ASSUME NEW t \in Seq(Char), NEW w \in TokensOf(t)
  PROVE  w \in Separators(t) <=>
           w[2] = w[1] + 1 /\ t[w[1]] = "-" /\ t[w[1] + 1] = "-"
<1>1. PICK k, l, s : k = w[1] /\ l = w[2] /\ s = TextOf(t, w)
  OBVIOUS
<1>2. /\ k \in Nat /\ l \in Nat /\ k <= l /\ Len(s) = l - k + 1
      /\ \A i \in 1..(l - k + 1) : s[i] = t[k + i - 1]
  BY <1>1, TokenFacts, TextCells
<1>3. ASSUME s = <<"-", "-">>
      PROVE  l = k + 1 /\ t[k] = "-" /\ t[k + 1] = "-"
  <2>1. Len(s) = 2 /\ s[1] = "-" /\ s[2] = "-"
    BY <1>3
  <2>2. l = k + 1 /\ 1 \in 1..(l - k + 1) /\ 2 \in 1..(l - k + 1)
    <3>1. k \in Nat /\ l \in Nat /\ 2 = l - k + 1
      BY <1>2, <2>1, Zenon
    <3> QED BY <3>1
  <2>3. s[1] = t[k] /\ s[2] = t[k + 1]
    BY <1>2, <2>2
  <2> QED BY <2>1, <2>2, <2>3
<1>4. ASSUME l = k + 1, t[k] = "-", t[k + 1] = "-"
      PROVE  s = <<"-", "-">>
  <2>1. s \in Seq(Char)
    BY <1>1, TextCells
  <2>2. Len(s) = 2 /\ s[1] = "-" /\ s[2] = "-"
    <3>1. 1 \in 1..(l - k + 1) /\ 2 \in 1..(l - k + 1) /\ l - k + 1 = 2
      BY <1>2, <1>4
    <3>2. s[1] = t[k + 1 - 1] /\ s[2] = t[k + 2 - 1]
      BY <1>2, <3>1, Zenon
    <3>3. k + 1 - 1 = k /\ k + 2 - 1 = k + 1
      BY <1>2
    <3>4. s[1] = "-" /\ s[2] = "-"
      BY <1>4, <3>2, <3>3, Zenon
    <3>5. Len(s) = 2
      BY <1>2, <3>1, Zenon
    <3> QED BY <3>4, <3>5
  <2>3. PICK p : p = <<"-", "-">>
    OBVIOUS
  <2>4. p \in Seq(Char)
    <3>1. "-" \in Char
      BY DEF Char
    <3> QED BY <3>1, <2>3
  <2>5. Len(p) = 2 /\ p[1] = "-" /\ p[2] = "-"
    BY <2>3
  <2>6. Len(s) = Len(p)
    BY <2>2, <2>5, Zenon
  <2>7. \A i \in 1..Len(s) : s[i] = p[i]
    <3>1. 1..Len(s) = {1, 2}
      <4>1. PICK n : n = Len(s)
        OBVIOUS
      <4>2. n = 2
        BY <2>2, <4>1
      <4>3. 1..n = {1, 2}
        BY <4>2
      <4> QED BY <4>1, <4>3, Zenon
    <3> QED BY <2>2, <2>5, <3>1, Zenon
  <2>8. s = p
    BY <2>1, <2>4, <2>6, <2>7, SeqEqual, Zenon
  <2> QED BY <2>3, <2>8, Zenon
<1>5. w \in Separators(t) <=> s = <<"-", "-">>
  BY <1>1 DEF Separators
<1> QED BY <1>1, <1>3, <1>4, <1>5

-----------------------------------------------------------------------------
(* Tokens in their order *)

\* s is the tokens W from left to right.
Listed(s, W) ==
  /\ s \in Seq(W)
  /\ \A w \in W : \E i \in DOMAIN s : s[i] = w
  /\ \A i, j \in DOMAIN s : i < j => s[i][1] < s[j][1]

LEMMA ListedFacts ==
  ASSUME NEW t \in Seq(Char), NEW W \in SUBSET TokensOf(t), NEW s, Listed(s, W)
  PROVE  /\ s \in Seq(W) /\ Len(s) \in Nat /\ DOMAIN s = 1..Len(s)
         /\ \A i \in 1..Len(s) : s[i] \in W /\ s[i] \in TokensOf(t) /\ s[i][1] \in Nat
         /\ \A w \in W : \E i \in 1..Len(s) : s[i] = w
         /\ \A i, j \in 1..Len(s) : i < j => s[i][1] < s[j][1]
         /\ \A i, j \in 1..Len(s) : s[i] = s[j] => i = j
<1>1. /\ s \in Seq(W) /\ Len(s) \in Nat /\ DOMAIN s = 1..Len(s)
      /\ \A i \in 1..Len(s) : s[i] \in W
      /\ \A w \in W : \E i \in 1..Len(s) : s[i] = w
      /\ \A i, j \in 1..Len(s) : i < j => s[i][1] < s[j][1]
  BY DEF Listed
<1>2. \A i \in 1..Len(s) : s[i] \in TokensOf(t) /\ s[i][1] \in Nat
  <2> SUFFICES ASSUME NEW i \in 1..Len(s)
               PROVE  s[i] \in TokensOf(t) /\ s[i][1] \in Nat
    OBVIOUS
  <2>1. s[i] \in TokensOf(t)
    BY <1>1
  <2>2. s[i][1] \in 1..Len(t)
    BY <2>1, TokenFacts
  <2> QED BY <2>1, <2>2
<1>3. ASSUME NEW i \in 1..Len(s), NEW j \in 1..Len(s), s[i] = s[j]
      PROVE  i = j
  <2>1. s[i][1] = s[j][1] /\ s[i][1] \in Nat
    BY <1>2, <1>3
  <2>2. ~(i < j) /\ ~(j < i)
    BY <1>1, <2>1
  <2> QED BY <1>1, <2>2
<1> QED BY <1>1, <1>2, <1>3

\* Its first k elements
First(s, k) == {s[i] : i \in 1..k}

LEMMA ListedFirst ==
  ASSUME NEW t \in Seq(Char), NEW W \in SUBSET TokensOf(t), NEW s, Listed(s, W),
         NEW k \in 0..Len(s)
  PROVE  IsFiniteSet(First(s, k)) /\ Cardinality(First(s, k)) = k
<1> DEFINE S == {s[i] : i \in 1..k}
           f == [i \in 1..k |-> s[i]]
<1>1. \A i, j \in 1..k : s[i] = s[j] => i = j
  <2>1. Len(s) \in Nat
    BY ListedFacts
  <2> QED BY <2>1, ListedFacts
<1>2. f \in Bijection(1..k, S)
  BY <1>1 DEF Bijection, Injection, Surjection, IsInjective
<1>3. ExistsBijection(1..k, S)
  BY <1>2 DEF ExistsBijection
<1>4. IsFiniteSet(1..k) /\ Cardinality(1..k) = k
  <2>1. k \in Nat
    BY ListedFacts
  <2> QED BY <2>1, FS_Interval
<1> HIDE DEF S
<1>5. IsFiniteSet(S) /\ Cardinality(S) = Cardinality(1..k)
  BY <1>3, <1>4, FS_Bijection
<1> QED BY <1>4, <1>5 DEF S, First

\* Counting the tokens to the left of one, as Nth does, gives its number.
LEMMA ListedCounts ==
  ASSUME NEW t \in Seq(Char), NEW W \in SUBSET TokensOf(t), NEW s, Listed(s, W)
  PROVE  /\ IsFiniteSet(W)
         /\ Cardinality(W) = Len(s)
         /\ \A n \in 1..Len(s) : Nth(W, n) = s[n]
<1>1. /\ s \in Seq(W) /\ Len(s) \in Nat /\ DOMAIN s = 1..Len(s)
      /\ \A i \in 1..Len(s) : s[i] \in W /\ s[i] \in TokensOf(t) /\ s[i][1] \in Nat
      /\ \A w \in W : \E i \in 1..Len(s) : s[i] = w
      /\ \A i, j \in 1..Len(s) : i < j => s[i][1] < s[j][1]
  BY ListedFacts
<1>2. W = First(s, Len(s))
  BY <1>1 DEF First
<1>3. IsFiniteSet(W) /\ Cardinality(W) = Len(s)
  <2>1. Len(s) \in 0..Len(s)
    BY <1>1
  <2>2. IsFiniteSet(First(s, Len(s))) /\ Cardinality(First(s, Len(s))) = Len(s)
    BY <2>1, ListedFirst
  <2> QED BY <1>2, <2>2, Zenon
<1> DEFINE Left(w) == {u \in W : u[1] < w[1]}
<1>4. ASSUME NEW n \in 1..Len(s) PROVE Cardinality(Left(s[n])) = n - 1
  <2>1. Left(s[n]) = First(s, n - 1)
    <3>1. ASSUME NEW i \in 1..Len(s) PROVE s[i][1] < s[n][1] <=> i < n
      <4>1. CASE i < n
        BY <1>1, <4>1
      <4>2. CASE i = n
        BY <1>1, <4>2
      <4>3. CASE n < i
        <5>1. s[n][1] < s[i][1] /\ s[n][1] \in Nat /\ s[i][1] \in Nat
          BY <1>1, <4>3
        <5> QED BY <4>3, <5>1
      <4> QED BY <4>1, <4>2, <4>3
    <3>2. ASSUME NEW u \in Left(s[n]) PROVE u \in First(s, n - 1)
      <4>1. PICK i \in 1..Len(s) : s[i] = u
        BY <1>1
      <4>2. i \in 1..(n - 1)
        BY <3>1, <4>1
      <4> QED BY <4>1, <4>2 DEF First
    <3>3. ASSUME NEW i \in 1..(n - 1) PROVE s[i] \in Left(s[n])
      <4>1. i \in 1..Len(s) /\ i < n
        OBVIOUS
      <4> QED BY <1>1, <3>1, <4>1
    <3> HIDE DEF Left
    <3> QED BY <3>2, <3>3 DEF First
  <2>2. n - 1 \in 0..Len(s)
    OBVIOUS
  <2>3. Cardinality(First(s, n - 1)) = n - 1
    BY <2>2, ListedFirst
  <2> QED BY <2>1, <2>3, Zenon
<1>5. ASSUME NEW n \in 1..Len(s) PROVE Nth(W, n) = s[n]
  <2>1. Nth(W, n) = CHOOSE w \in W : Cardinality(Left(w)) = n - 1
    BY DEF Nth
  <2>2. s[n] \in W /\ Cardinality(Left(s[n])) = n - 1
    BY <1>1, <1>4
  <2>3. ASSUME NEW w \in W, Cardinality(Left(w)) = n - 1 PROVE w = s[n]
    <3>1. PICK i \in 1..Len(s) : s[i] = w
      BY <1>1
    <3>2. Cardinality(Left(w)) = i - 1
      BY <1>4, <3>1
    <3>3. i = n
      BY <2>3, <3>2
    <3> QED BY <3>1, <3>3
  <2> HIDE DEF Left
  <2> QED BY <2>1, <2>2, <2>3
<1> QED BY <1>3, <1>5

LEMMA ListedNone == Listed(<<>>, {})
BY DEF Listed

\* A token to the right of all others comes last.
LEMMA ListedMore ==
  ASSUME NEW t \in Seq(Char), NEW W \in SUBSET TokensOf(t), NEW s, Listed(s, W),
         NEW w \in TokensOf(t), \A u \in W : u[1] < w[1]
  PROVE  /\ Listed(Append(s, w), W \cup {w})
         /\ Len(Append(s, w)) = Len(s) + 1
         /\ \A i \in 1..Len(s) : Append(s, w)[i] = s[i]
         /\ Append(s, w)[Len(s) + 1] = w
<1> DEFINE V == W \cup {w}
           r == Append(s, w)
<1>1. /\ s \in Seq(W) /\ Len(s) \in Nat /\ DOMAIN s = 1..Len(s)
      /\ \A i \in 1..Len(s) : s[i] \in W
      /\ \A u \in W : \E i \in 1..Len(s) : s[i] = u
      /\ \A i, j \in 1..Len(s) : i < j => s[i][1] < s[j][1]
  BY ListedFacts
<1>2. s \in Seq(V)
  <2>1. \A i \in 1..Len(s) : s[i] \in V
    BY <1>1
  <2> HIDE DEF V
  <2> QED BY <1>1, <2>1
<1>3. w \in V
  OBVIOUS
<1>4. /\ r \in Seq(V) /\ Len(r) = Len(s) + 1 /\ DOMAIN r = 1..(Len(s) + 1)
      /\ \A i \in 1..Len(s) : r[i] = s[i]
      /\ r[Len(s) + 1] = w
  <2> HIDE DEF V
  <2> QED BY <1>2, <1>3
<1> HIDE DEF r
<1>5. \A u \in V : \E i \in DOMAIN r : r[i] = u
  <2> SUFFICES ASSUME NEW u \in V PROVE \E i \in DOMAIN r : r[i] = u
    OBVIOUS
  <2>1. CASE u = w
    <3>1. Len(s) + 1 \in DOMAIN r
      BY <1>1, <1>4
    <3> QED BY <1>4, <2>1, <3>1
  <2>2. CASE u \in W
    <3>1. PICK i \in 1..Len(s) : s[i] = u
      BY <1>1, <2>2
    <3>2. i \in DOMAIN r /\ r[i] = u
      BY <1>1, <1>4, <3>1
    <3> QED BY <3>2
  <2> QED BY <2>1, <2>2
<1>6. ASSUME NEW i \in DOMAIN r, NEW j \in DOMAIN r, i < j
      PROVE  r[i][1] < r[j][1]
  <2>1. i \in 1..Len(s) /\ r[i] = s[i]
    BY <1>1, <1>4, <1>6
  <2>2. CASE j = Len(s) + 1
    BY <1>1, <1>4, <2>1, <2>2
  <2>3. CASE j # Len(s) + 1
    <3>1. j \in 1..Len(s) /\ r[j] = s[j]
      BY <1>1, <1>4, <2>3
    <3> QED BY <1>1, <1>6, <2>1, <3>1
  <2> QED BY <2>2, <2>3
<1>7. Listed(r, V)
  BY <1>4, <1>5, <1>6 DEF Listed
<1> QED BY <1>4, <1>7 DEF r

\* What the parser takes for a name (tokenIsNamed)
Lettered(t, w) == Has(t, w, Letters)

\* Tokens with the same text are alike.
LEMMA SameTexts ==
  ASSUME NEW t \in Seq(Char), NEW u \in TokensOf(t), NEW w \in TokensOf(t),
         TextOf(t, u) = TextOf(t, w)
  PROVE  TypesOf(t, u) = TypesOf(t, w) /\ (Lettered(t, u) <=> Lettered(t, w))
<1>1. ASSUME NEW a \in TokensOf(t), NEW b \in TokensOf(t),
             TextOf(t, a) = TextOf(t, b), NEW i \in a[1]..a[2]
      PROVE  \E j \in b[1]..b[2] : t[j] = t[i]
  <2>1. PICK k, l, m, n : k = a[1] /\ l = a[2] /\ m = b[1] /\ n = b[2]
    OBVIOUS
  <2>2. /\ k \in Nat /\ l \in Nat /\ k <= l /\ m \in Nat /\ n \in Nat /\ m <= n
    BY <2>1, TokenFacts
  <2>3. /\ Len(TextOf(t, a)) = l - k + 1 /\ Len(TextOf(t, b)) = n - m + 1
        /\ \A x \in 1..(l - k + 1) : TextOf(t, a)[x] = t[k + x - 1]
        /\ \A x \in 1..(n - m + 1) : TextOf(t, b)[x] = t[m + x - 1]
    BY <2>1, TextCells
  <2>4. l - k = n - m
    <3>1. l - k + 1 = n - m + 1
      BY <1>1, <2>3, Zenon
    <3> QED BY <2>2, <3>1
  <2>5. PICK x : x = i - k + 1
    OBVIOUS
  <2>6. x \in 1..(l - k + 1) /\ x \in 1..(n - m + 1) /\ k + x - 1 = i
        /\ m + x - 1 \in m..n
    <3>1. i \in k..l
      BY <1>1, <2>1, Zenon
    <3> QED BY <2>2, <2>4, <2>5, <3>1
  <2>7. t[m + x - 1] = t[i]
    BY <1>1, <2>3, <2>6, Zenon
  <2> QED BY <2>1, <2>6, <2>7
<1> DEFINE S(a) == {SymbolType[t[i]] : i \in {j \in a[1]..a[2] : t[j] \in DOMAIN SymbolType}}
<1>2. ASSUME NEW a \in TokensOf(t), NEW b \in TokensOf(t),
             TextOf(t, a) = TextOf(t, b)
      PROVE  S(a) \subseteq S(b)
  <2> SUFFICES ASSUME NEW i \in a[1]..a[2], t[i] \in DOMAIN SymbolType
               PROVE  SymbolType[t[i]] \in S(b)
    OBVIOUS
  <2>1. PICK j \in b[1]..b[2] : t[j] = t[i]
    BY <1>1, <1>2
  <2> QED BY <2>1
<1>3. S(u) = S(w)
  <2>1. S(u) \subseteq S(w) /\ S(w) \subseteq S(u)
    BY <1>2
  <2> HIDE DEF S
  <2> QED BY <2>1
<1>4. TypesOf(t, u) = Completed(S(u)) /\ TypesOf(t, w) = Completed(S(w))
  BY DEF TypesOf
<1>5. ASSUME NEW a \in TokensOf(t), NEW b \in TokensOf(t),
             TextOf(t, a) = TextOf(t, b), Lettered(t, a)
      PROVE  Lettered(t, b)
  <2>1. PICK i \in a[1]..a[2] : t[i] \in Letters
    BY <1>5 DEF Lettered, Has
  <2>2. PICK j \in b[1]..b[2] : t[j] = t[i]
    BY <1>1, <1>5
  <2> QED BY <2>1, <2>2 DEF Lettered, Has
<1> QED BY <1>3, <1>4, <1>5

-----------------------------------------------------------------------------
(* What the loop has read *)

\* Tokens that start before this position have been read, later ones not.
Frontier == IF token = 0 THEN c ELSE token

TokensBefore(q) == {w \in TokensOf(text) : w[1] < q}
TokensBehind(q) == {w \in TokensOf(text) : q < w[1] /\ w[1] < Frontier}

\* The types of the characters from i to j
SymbolsFrom(t, i, j) ==
  {SymbolType[t[k]] : k \in {l \in i..j : t[l] \in DOMAIN SymbolType}}

\* The token under way, or the blank or end behind the one before
TokenRead ==
  /\ token = 0 =>
       /\ entry = {} /\ ~tokenIsNamed
       /\ c = 1 \/ c - 1 > Len(text) \/ text[c - 1] \in Blanks
  /\ token # 0 =>
       /\ token < c /\ c <= Len(text) + 1
       /\ token = 1 \/ text[token - 1] \in Blanks
       /\ \A i \in token..(c - 1) : text[i] \in Known
       /\ entry = SymbolsFrom(text, token, c - 1)
       /\ tokenIsNamed <=> \E i \in token..(c - 1) : text[i] \in Letters

KnownRead ==
  \A w \in TokensBefore(Frontier) \ Separators(text) :
     \A i \in w[1]..w[2] : text[i] \in Known

\* The inputs end at q: where the separator starts, or here.
SeparatorRead(q) ==
  /\ inputs => /\ q = Frontier
               /\ \A s \in Separators(text) : ~(s[1] < q)
  /\ ~inputs => /\ q < Frontier
                /\ <<q, q + 1>> \in Separators(text)
                /\ \A s \in Separators(text) : s[1] < Frontier => s[1] = q

InputsRead(q, is) ==
  /\ Listed(is, TokensBefore(q))
  /\ Len(is) = Len(effect.ins)
  /\ \A n \in 1..Len(is) :
       /\ effect.ins[n] = TypesOf(text, is[n])
       /\ names[n] = IF Lettered(text, is[n]) THEN TextOf(text, is[n]) ELSE <<>>

\* The inputs with the text of w
Namesakes(t, is, w) == {i \in 1..Len(is) : TextOf(t, is[i]) = TextOf(t, w)}

MatchRead(m, t, is, w) ==
  IF Lettered(t, w) /\ Namesakes(t, is, w) # {}
  THEN Len(is) - m + 1 \in Namesakes(t, is, w)
  ELSE m = 0

OutputsRead(q, is, os) ==
  /\ Listed(os, TokensBehind(q))
  /\ Len(os) = Len(effect.outs)
  /\ \A n \in 1..Len(os) :
       /\ effect.outs[n].types = TypesOf(text, os[n])
       /\ MatchRead(effect.outs[n].match, text, is, os[n])

Read(q, is, os) ==
  /\ TokenRead
  /\ KnownRead
  /\ SeparatorRead(q)
  /\ InputsRead(q, is)
  /\ OutputsRead(q, is, os)

\* While the loop runs, the effect is what has been read declares.
ReadingInv ==
  status = "parsing" /\ SeparatorStandsAlone(text) =>
    /\ effect.max = 0
    /\ \E q \in Nat : \E is, os : Read(q, is, os)

LEMMA FrontierNat ==
  ASSUME EffectInv
  PROVE  /\ text \in Seq(Char) /\ Len(text) \in Nat
         /\ c \in Nat /\ c >= 1 /\ c <= Len(text) + 3
         /\ token \in Nat /\ token <= Len(text)
         /\ Frontier \in Nat /\ Frontier >= 1
<1>1. text \in Seq(Char) /\ Len(text) \in Nat
  BY DEF EffectInv
<1>2. c \in 1..(Len(text) + 3) /\ token \in 0..Len(text)
  BY DEF EffectInv
<1> QED BY <1>1, <1>2 DEF Frontier

\* No token starts at a blank or past the end.
LEMMA NoTokenAt ==
  ASSUME NEW t \in Seq(Char), NEW i \in Nat, i > Len(t) \/ t[i] \in Blanks,
         NEW w \in TokensOf(t)
  PROVE  w[1] # i
<1>1. w[1] \in 1..Len(t) /\ w[2] \in w[1]..Len(t) /\ \A k \in w[1]..w[2] : t[k] \notin Blanks
  BY TokenFacts
<1>2. PICK k, l : k = w[1] /\ l = w[2]
  OBVIOUS
<1>3. k \in 1..Len(t) /\ l \in k..Len(t) /\ t[k] \notin Blanks
  BY <1>1, <1>2
<1> QED BY <1>2, <1>3

\* A - is none of the characters of a token, and a blank neither.
LEMMA KnownCharacters ==
  /\ "-" \notin Known /\ "-" \notin Blanks
  /\ \A x \in Known : x \notin Blanks
BY DEF Known, Blanks, Letters, Digits, Underscore, SymbolType

\* At the start of the loop nothing is read.
LEMMA ReadingInit == EffectInit => ReadingInv
<1> SUFFICES ASSUME EffectInit PROVE ReadingInv
  OBVIOUS
<1>1. /\ text \in Seq(Char) /\ c = 1 /\ token = 0 /\ inputs = TRUE
      /\ tokenIsNamed = FALSE /\ entry = {} /\ names = <<>>
      /\ effect.ins = <<>> /\ effect.outs = <<>> /\ effect.max = 0
  BY TextsAssumption DEF EffectInit
<1>2. Frontier = 1
  BY <1>1 DEF Frontier
<1>3. ASSUME NEW w \in TokensOf(text) PROVE ~(w[1] < 1)
  BY <1>1, TokenFacts
<1>4. TokensBefore(1) = {} /\ TokensBehind(1) = {}
  <2>1. TokensBefore(1) = {}
    BY <1>3 DEF TokensBefore
  <2>2. TokensBehind(1) = {}
    BY <1>2, <1>3 DEF TokensBehind
  <2> QED BY <2>1, <2>2
<1>5. TokenRead
  BY <1>1, Zenon DEF TokenRead
<1>6. KnownRead
  BY <1>2, <1>4 DEF KnownRead
<1>7. SeparatorRead(1)
  <2>1. \A s \in Separators(text) : ~(s[1] < 1)
    BY <1>3 DEF Separators
  <2>2. inputs
    BY <1>1, Zenon
  <2> QED BY <1>2, <2>1, <2>2, Zenon DEF SeparatorRead
<1>8. InputsRead(1, <<>>) /\ OutputsRead(1, <<>>, <<>>)
  <2>1. Len(<<>>) = 0 /\ \A n \in 1..Len(<<>>) : FALSE
    OBVIOUS
  <2>2. InputsRead(1, <<>>)
    BY <1>1, <1>4, <2>1, ListedNone, Zenon DEF InputsRead
  <2>3. OutputsRead(1, <<>>, <<>>)
    BY <1>1, <1>4, <2>1, ListedNone, Zenon DEF OutputsRead
  <2> QED BY <2>2, <2>3
<1>9. Read(1, <<>>, <<>>)
  BY <1>5, <1>6, <1>7, <1>8 DEF Read
<1> QED BY <1>1, <1>9 DEF ReadingInv

\* The token that ends here
LEMMA TokenEnds ==
  ASSUME EffectInv, TokenRead, Parsing, AtBlank, token # 0,
         NEW w, w = <<token, c - 1>>
  PROVE  /\ w \in TokensOf(text) /\ w \notin Separators(text)
         /\ \A i \in w[1]..w[2] : text[i] \in Known
         /\ TypesOf(text, w) = Completed(entry)
         /\ Lettered(text, w) <=> tokenIsNamed
         /\ TextOf(text, w) = TokenText
         /\ \A u \in TokensOf(text) : u[1] < c + 1 <=> u[1] < token \/ u = w
<1>1. /\ text \in Seq(Char) /\ Len(text) \in Nat
      /\ c \in Nat /\ c >= 1 /\ token \in Nat /\ token <= Len(text)
  BY FrontierNat
<1>2. /\ token < c /\ c <= Len(text) + 1
      /\ token = 1 \/ text[token - 1] \in Blanks
      /\ \A i \in token..(c - 1) : text[i] \in Known
      /\ entry = SymbolsFrom(text, token, c - 1)
  BY Zenon DEF TokenRead
<1>3. c <= Len(text) => text[c] \in Blanks
  BY DEF AtBlank
<1>4. w[1] = token /\ w[2] = c - 1
  OBVIOUS
<1>5. w \in TokensOf(text)
  <2>1. token \in 1..Len(text) /\ c - 1 \in token..Len(text)
    BY <1>1, <1>2
  <2>2. \A k \in token..(c - 1) : text[k] \notin Blanks
    BY <1>2, KnownCharacters
  <2>3. c - 1 = Len(text) \/ text[(c - 1) + 1] \in Blanks
    BY <1>1, <1>2, <1>3
  <2> QED BY <1>1, <1>2, <2>1, <2>2, <2>3, TokenMade
<1>6. w \notin Separators(text)
  <2>1. text[token] \in Known
    BY <1>1, <1>2
  <2> QED BY <1>1, <1>4, <1>5, <2>1, SeparatorText, KnownCharacters
<1>7. TypesOf(text, w) = Completed(entry)
  BY <1>2, <1>4 DEF TypesOf, SymbolsFrom
<1>8. Lettered(text, w) <=> tokenIsNamed
  <2>1. tokenIsNamed <=> \E i \in token..(c - 1) : text[i] \in Letters
    BY Zenon DEF TokenRead
  <2>2. Lettered(text, w) <=> \E i \in token..(c - 1) : text[i] \in Letters
    BY <1>4, Zenon DEF Lettered, Has
  <2> QED BY <2>1, <2>2, Zenon
<1>9. TextOf(text, w) = TokenText
  BY <1>4 DEF TextOf, TokenText
<1>10. ASSUME NEW u \in TokensOf(text)
       PROVE  u[1] < c + 1 <=> u[1] < token \/ u = w
  <2>1. u[1] \in 1..Len(text)
    BY <1>1, TokenFacts
  <2>2. u[1] # c
    BY <1>1, <1>2, <1>3, NoTokenAt
  <2>3. u[1] \in token..(c - 1) => u = w
    BY <1>1, <1>4, <1>5, TokensApart
  <2> QED BY <1>1, <1>2, <1>4, <2>1, <2>2, <2>3
<1> QED BY <1>2, <1>4, <1>5, <1>6, <1>7, <1>8, <1>9, <1>10

\* What has been read stays read when no token starts where the loop goes on.
LEMMA FrontierMoves ==
  ASSUME EffectInv, NEW q \in Nat, NEW is, NEW os, Read(q, is, os),
         UNCHANGED <<text, effect, inputs, names>>,
         Frontier' \in Nat, Frontier <= Frontier',
         \A u \in TokensOf(text) : u[1] < Frontier' <=> u[1] < Frontier,
         TokenRead'
  PROVE  \E r \in Nat : Read(r, is, os)'
<1> DEFINE T == TokensOf(text)
<1>1. text \in Seq(Char) /\ Frontier \in Nat
  BY FrontierNat
<1>2. \A u \in T : u[1] \in Nat
  <2> SUFFICES ASSUME NEW u \in T PROVE u[1] \in Nat
    OBVIOUS
  <2>1. u[1] \in 1..Len(text)
    BY <1>1, TokenFacts
  <2> QED BY <2>1
<1>3. /\ KnownRead /\ SeparatorRead(q) /\ InputsRead(q, is) /\ OutputsRead(q, is, os)
  BY DEF Read
<1>4. T' = T /\ Separators(text)' = Separators(text)
  BY Zenon
<1>5. KnownRead'
  <2>1. TokensBefore(Frontier)' = TokensBefore(Frontier)
    BY <1>4 DEF TokensBefore
  <2> QED BY <1>3, <2>1 DEF KnownRead
<1>6. ASSUME NEW r \in Nat, TokensBefore(r)' = TokensBefore(q),
             TokensBehind(r)' = TokensBehind(q)
      PROVE  InputsRead(r, is)' /\ OutputsRead(r, is, os)'
  BY <1>3, <1>6 DEF InputsRead, OutputsRead
<1>7. CASE inputs
  <2>1. q = Frontier /\ \A s \in Separators(text) : ~(s[1] < q)
    BY <1>3, <1>7, Zenon DEF SeparatorRead
  <2>2. PICK f \in Nat : f = Frontier'
    OBVIOUS
  <2>3. TokensBefore(f)' = TokensBefore(q)
    BY <1>4, <2>1, <2>2 DEF TokensBefore
  <2>4. TokensBehind(f)' = TokensBehind(q)
    <3>1. TokensBehind(q) = {}
      BY <1>1, <1>2, <2>1 DEF TokensBehind
    <3>2. TokensBehind(f)' = {u \in T : f < u[1] /\ u[1] < f}
      BY <1>4, <2>2 DEF TokensBehind
    <3>3. \A u \in T : ~(f < u[1] /\ u[1] < f)
      BY <1>2
    <3> QED BY <3>1, <3>2, <3>3
  <2>5. SeparatorRead(f)'
    <3>1. \A s \in Separators(text) : ~(s[1] < f)
      BY <2>1, <2>2 DEF Separators
    <3>2. inputs'
      BY <1>7, Zenon
    <3> QED BY <1>4, <2>2, <3>1, <3>2, Zenon DEF SeparatorRead
  <2> QED BY <1>3, <1>5, <1>6, <2>3, <2>4, <2>5, Zenon DEF Read
<1>8. CASE ~inputs
  <2>1. /\ q < Frontier /\ <<q, q + 1>> \in Separators(text)
        /\ \A s \in Separators(text) : s[1] < Frontier => s[1] = q
    BY <1>3, <1>8, Zenon DEF SeparatorRead
  <2>2. TokensBefore(q)' = TokensBefore(q) /\ TokensBehind(q)' = TokensBehind(q)
    BY <1>4 DEF TokensBefore, TokensBehind
  <2>3. SeparatorRead(q)'
    <3>1. \A s \in Separators(text) : s[1] < Frontier' => s[1] = q
      BY <2>1 DEF Separators
    <3>2. q < Frontier'
      BY <1>1, <2>1
    <3>3. ~inputs'
      BY <1>8, Zenon
    <3> QED BY <1>4, <2>1, <3>1, <3>2, <3>3, Zenon DEF SeparatorRead
  <2> QED BY <1>5, <1>6, <2>2, <2>3, Zenon DEF Read
<1> QED BY <1>7, <1>8

\* A step that goes on reading
LEMMA ReadsOn ==
  ASSUME ReadingInv, status = "parsing", text' = text, effect'.max = effect.max,
         ASSUME SeparatorStandsAlone(text), NEW q \in Nat, NEW is, NEW os,
                Read(q, is, os)
         PROVE  \E r \in Nat : \E js, ks : Read(r, js, ks)'
  PROVE  ReadingInv'
<1> SUFFICES ASSUME SeparatorStandsAlone(text)'
             PROVE  /\ effect'.max = 0
                    /\ \E r \in Nat : \E js, ks : Read(r, js, ks)'
  BY DEF ReadingInv
<1>1. SeparatorStandsAlone(text)
  BY Zenon
<1>2. effect.max = 0 /\ \E q \in Nat : \E is, os : Read(q, is, os)
  BY <1>1 DEF ReadingInv
<1> QED BY <1>1, <1>2

LEMMA ReadingSkip ==
  ASSUME EffectInv, ReadingInv, SkipBlank
  PROVE  ReadingInv'
<1>1. /\ status = "parsing" /\ c <= Len(text) + 1 /\ AtBlank
      /\ token = 0 /\ c' = c + 1
      /\ UNCHANGED <<text, effect, inputs, token, tokenIsNamed, entry, names>>
  BY DEF SkipBlank, Parsing
<1>2. text \in Seq(Char) /\ Len(text) \in Nat /\ c \in Nat
  BY FrontierNat
<1>3. c > Len(text) \/ text[c] \in Blanks
  BY <1>1, <1>2 DEF AtBlank
<1>4. Frontier = c /\ Frontier' = c + 1
  BY <1>1 DEF Frontier
<1>5. \A u \in TokensOf(text) : u[1] < c + 1 <=> u[1] < c
  <2> SUFFICES ASSUME NEW u \in TokensOf(text) PROVE u[1] < c + 1 <=> u[1] < c
    OBVIOUS
  <2>1. u[1] \in 1..Len(text) /\ u[1] # c
    BY <1>2, <1>3, TokenFacts, NoTokenAt
  <2> QED BY <1>2, <2>1
<1>6. ASSUME NEW q \in Nat, NEW is, NEW os, Read(q, is, os)
      PROVE  \E r \in Nat : \E js, ks : Read(r, js, ks)'
  <2>1. TokenRead'
    <3>1. entry = {} /\ ~tokenIsNamed
      BY <1>1, <1>6, Zenon DEF Read, TokenRead
    <3>2. (c + 1) - 1 > Len(text) \/ text[(c + 1) - 1] \in Blanks
      BY <1>2, <1>3
    <3>3. token' = 0 /\ entry' = {} /\ ~tokenIsNamed' /\ c' = c + 1 /\ text' = text
      BY <1>1, <3>1, Zenon
    <3> QED BY <3>2, <3>3, Zenon DEF TokenRead
  <2>2. Frontier' \in Nat /\ Frontier <= Frontier'
    BY <1>2, <1>4
  <2>3. \E r \in Nat : Read(r, is, os)'
    BY <1>1, <1>4, <1>5, <1>6, <2>1, <2>2, FrontierMoves
  <2> QED BY <2>3
<1> QED BY <1>1, <1>6, ReadsOn

LEMMA ReadingCharacter ==
  ASSUME EffectInv, ReadingInv, AddCharacter
  PROVE  ReadingInv'
<1>1. /\ status = "parsing" /\ ~AtBlank
      /\ text[c] \in Known
      /\ token' = (IF token = 0 THEN c ELSE token)
      /\ entry' = entry \cup {SymbolType[s] : s \in {text[c]} \cap DOMAIN SymbolType}
      /\ tokenIsNamed' = (tokenIsNamed \/ text[c] \in Letters)
      /\ c' = c + 1
      /\ UNCHANGED <<text, effect, inputs, names>>
  BY Zenon DEF AddCharacter, AtSymbol, Parsing
<1>2. /\ text \in Seq(Char) /\ Len(text) \in Nat /\ c \in Nat /\ c >= 1
      /\ token \in Nat /\ token <= Len(text)
  BY FrontierNat
<1>3. c <= Len(text)
  BY <1>1, <1>2 DEF AtBlank
<1>4. Frontier' = Frontier /\ Frontier \in Nat
  BY <1>1, <1>2 DEF Frontier
<1>5. ASSUME NEW q \in Nat, NEW is, NEW os, Read(q, is, os)
      PROVE  \E r \in Nat : \E js, ks : Read(r, js, ks)'
  <2> DEFINE new == {SymbolType[s] : s \in {text[c]} \cap DOMAIN SymbolType}
  <2>1. TokenRead
    BY <1>5 DEF Read
  <2>2. PICK p : p = token'
    OBVIOUS
  <2>3. /\ p \in Nat /\ p # 0 /\ p <= c
        /\ p = 1 \/ text[p - 1] \in Blanks
        /\ \A i \in p..(c - 1) : text[i] \in Known
        /\ entry = SymbolsFrom(text, p, c - 1)
        /\ tokenIsNamed <=> \E i \in p..(c - 1) : text[i] \in Letters
    <3>1. CASE token = 0
      <4>1. p = c /\ p..(c - 1) = {}
        BY <1>1, <1>2, <2>2, <3>1
      <4>2. entry = {} /\ ~tokenIsNamed
        BY <2>1, <3>1, Zenon DEF TokenRead
      <4>3. c = 1 \/ c - 1 > Len(text) \/ text[c - 1] \in Blanks
        BY <2>1, <3>1, Zenon DEF TokenRead
      <4>4. c = 1 \/ text[c - 1] \in Blanks
        BY <1>2, <1>3, <4>3
      <4>5. SymbolsFrom(text, p, c - 1) = {}
        BY <4>1 DEF SymbolsFrom
      <4>6. p \in Nat /\ p # 0 /\ p <= c
        BY <1>2, <4>1
      <4> QED BY <4>1, <4>2, <4>4, <4>5, <4>6, Zenon
    <3>2. CASE token # 0
      <4>1. p = token
        BY <1>1, <2>2, <3>2
      <4>2. /\ token < c
            /\ token = 1 \/ text[token - 1] \in Blanks
            /\ \A i \in token..(c - 1) : text[i] \in Known
            /\ entry = SymbolsFrom(text, token, c - 1)
            /\ tokenIsNamed <=> \E i \in token..(c - 1) : text[i] \in Letters
        BY <2>1, <3>2, Zenon DEF TokenRead
      <4>3. p \in Nat /\ p # 0 /\ p <= c
        BY <1>2, <3>2, <4>1, <4>2
      <4> QED BY <4>1, <4>2, <4>3, Zenon
    <3> QED BY <3>1, <3>2, Zenon
  <2>4. (c + 1) - 1 = c /\ \A i \in p..c : i \in p..(c - 1) \/ i = c
    BY <1>2, <2>3
  <2>5. c \in p..c /\ \A i \in p..(c - 1) : i \in p..c
    BY <1>2, <2>3
  <2>6. \A i \in p..c : text[i] \in Known
    BY <1>1, <2>3, <2>4
  <2>7. entry' = SymbolsFrom(text, p, c)
    <3>1. entry' = entry \cup new
      BY <1>1
    <3>2. SymbolsFrom(text, p, c) = SymbolsFrom(text, p, c - 1) \cup new
      BY <2>4, <2>5 DEF SymbolsFrom
    <3> QED BY <2>3, <3>1, <3>2, Zenon
  <2>8. tokenIsNamed' <=> \E i \in p..c : text[i] \in Letters
    <3>1. tokenIsNamed' <=> tokenIsNamed \/ text[c] \in Letters
      BY <1>1, Zenon
    <3>2. (\E i \in p..c : text[i] \in Letters)
            <=> (\E i \in p..(c - 1) : text[i] \in Letters) \/ text[c] \in Letters
      BY <2>4, <2>5, Zenon
    <3> QED BY <2>3, <3>1, <3>2, Zenon
  <2>9. TokenRead'
    <3>1. p < c + 1 /\ c + 1 <= Len(text) + 1
      BY <1>2, <1>3, <2>3
    <3>2. /\ c' - 1 = c /\ p < c' /\ c' <= Len(text) + 1 /\ text' = text /\ token' = p
          /\ p # 0 /\ (p = 1 \/ text[p - 1] \in Blanks)
      BY <1>1, <2>2, <2>3, <2>4, <3>1
    <3> QED BY <2>6, <2>7, <2>8, <3>2, Zenon DEF TokenRead
  <2>10. Frontier' \in Nat /\ Frontier <= Frontier'
    BY <1>4
  <2>11. \A u \in TokensOf(text) : u[1] < Frontier' <=> u[1] < Frontier
    BY <1>4
  <2>12. \E r \in Nat : Read(r, is, os)'
    BY <1>1, <1>5, <2>9, <2>10, <2>11, FrontierMoves
  <2> QED BY <2>12
<1> QED BY <1>1, <1>5, ReadsOn

\* Behind a token
LEMMA BehindToken ==
  ASSUME EffectInv, TokenRead, KnownRead, Parsing, AtBlank, token # 0, NextToken,
         NEW w, w = <<token, c - 1>>, NEW r \in Nat, r = c + 1
  PROVE  /\ Frontier = token /\ Frontier' = r
         /\ TokenRead' /\ KnownRead'
         /\ TokensBefore(r)' = TokensBefore(Frontier) \cup {w}
<1>1. /\ text \in Seq(Char) /\ Len(text) \in Nat
      /\ c \in Nat /\ c >= 1 /\ token \in Nat
  BY FrontierNat
<1>2. /\ c' = c + 1 /\ token' = 0 /\ ~tokenIsNamed' /\ entry' = {} /\ text' = text
  BY Zenon DEF NextToken
<1>3. Frontier = token /\ Frontier' = r
  BY <1>1, <1>2 DEF Frontier
<1>4. TokenRead'
  <2>1. (c + 1) - 1 > Len(text) \/ text[(c + 1) - 1] \in Blanks
    BY <1>1 DEF AtBlank
  <2> QED BY <1>2, <2>1, Zenon DEF TokenRead
<1>5. TokensBefore(r)' = TokensBefore(Frontier) \cup {w}
  <2>1. /\ w \in TokensOf(text)
        /\ \A u \in TokensOf(text) : u[1] < r <=> u[1] < token \/ u = w
    BY TokenEnds
  <2>2. TokensBefore(r)' = {u \in TokensOf(text) : u[1] < r}
    BY <1>2 DEF TokensBefore
  <2>3. TokensBefore(Frontier) = {u \in TokensOf(text) : u[1] < token}
    BY <1>3 DEF TokensBefore
  <2> QED BY <2>1, <2>2, <2>3
<1>6. KnownRead'
  <2>1. TokensBefore(Frontier)' = TokensBefore(Frontier) \cup {w}
    BY <1>3, <1>5 DEF TokensBefore
  <2>2. \A i \in w[1]..w[2] : text[i] \in Known
    BY TokenEnds
  <2> QED BY <1>2, <2>1, <2>2 DEF KnownRead
<1> QED BY <1>3, <1>4, <1>5, <1>6

LEMMA ReadingInput ==
  ASSUME EffectInv, ReadingInv, EndOfInput
  PROVE  ReadingInv'
<1> DEFINE name == IF tokenIsNamed THEN TokenText ELSE <<>>
<1>1. /\ Parsing /\ AtBlank /\ token # 0 /\ inputs /\ NextToken
      /\ status = "parsing" /\ text' = text /\ inputs' = inputs
      /\ effect' = AddInputs(effect, <<Completed(entry)>>)
      /\ names' = Append(names, name)
  BY DEF EndOfInput, NextToken, Parsing
<1>2. /\ text \in Seq(Char) /\ Len(text) \in Nat /\ c \in Nat /\ token \in Nat
  BY FrontierNat
<1>3. /\ effect \in StackEffect /\ effect.outs = <<>>
      /\ names \in Seq(Seq(Char)) /\ Len(names) = Len(effect.ins)
      /\ entry \in TypeSet /\ effect.ins \in Seq(TypeSet) /\ Len(effect.ins) \in Nat
  BY <1>1, EffectFields DEF EffectInv
<1>4. /\ effect'.ins = Append(effect.ins, Completed(entry))
      /\ effect'.outs = effect.outs /\ effect'.max = effect.max
  <2>1. Len(effect.ins) + Len(effect.outs) < kMaxEntries
    BY <1>1, MatchedOutputOK
  <2> QED BY <1>1, <1>3, <2>1, CompletedOK, InputAdded
<1>5. PICK r \in Nat : r = c + 1
  BY <1>2
<1>6. ASSUME SeparatorStandsAlone(text), NEW q \in Nat, NEW is, NEW os, Read(q, is, os)
      PROVE  \E p \in Nat : \E js, ks : Read(p, js, ks)'
  <2>1. PICK w : w = <<token, c - 1>>
    OBVIOUS
  <2>2. /\ TokenRead /\ KnownRead /\ SeparatorRead(q)
        /\ InputsRead(q, is) /\ OutputsRead(q, is, os)
    BY <1>6 DEF Read
  <2>3. /\ q = Frontier /\ \A s \in Separators(text) : ~(s[1] < q)
    BY <1>1, <2>2, Zenon DEF SeparatorRead
  <2>4. /\ w \in TokensOf(text) /\ w \notin Separators(text)
        /\ TypesOf(text, w) = Completed(entry)
        /\ Lettered(text, w) <=> tokenIsNamed
        /\ TextOf(text, w) = TokenText
        /\ \A u \in TokensOf(text) : u[1] < r <=> u[1] < token \/ u = w
    BY <1>1, <1>5, <2>1, <2>2, TokenEnds, Zenon
  <2>5. /\ Frontier = token /\ Frontier' = r
        /\ TokenRead' /\ KnownRead'
        /\ TokensBefore(r)' = TokensBefore(q) \cup {w}
    BY <1>1, <1>5, <2>1, <2>2, <2>3, BehindToken
  <2>6. PICK js, len : js = Append(is, w) /\ len = Len(is)
    OBVIOUS
  <2>7. /\ Listed(js, TokensBefore(q) \cup {w}) /\ Len(js) = len + 1
        /\ \A i \in 1..len : js[i] = is[i]
        /\ js[len + 1] = w
    <3>1. TokensBefore(q) \in SUBSET TokensOf(text)
      BY DEF TokensBefore
    <3>2. \A u \in TokensBefore(q) : u[1] < w[1]
      BY <2>1, <2>3, <2>5 DEF TokensBefore
    <3>3. Listed(is, TokensBefore(q))
      BY <2>2 DEF InputsRead
    <3> QED BY <1>2, <2>4, <2>6, <3>1, <3>2, <3>3, ListedMore
  <2>8. /\ len = Len(effect.ins) /\ len \in Nat
        /\ \A n \in 1..len :
             /\ effect.ins[n] = TypesOf(text, is[n])
             /\ names[n] = IF Lettered(text, is[n]) THEN TextOf(text, is[n]) ELSE <<>>
    BY <1>3, <2>2, <2>6 DEF InputsRead
  <2>9. /\ Len(effect'.ins) = len + 1
        /\ \A n \in 1..len : effect'.ins[n] = effect.ins[n] /\ names'[n] = names[n]
        /\ effect'.ins[len + 1] = Completed(entry)
        /\ names'[len + 1] = name
    <3>1. PICK nm : nm = name
      OBVIOUS
    <3> HIDE DEF name
    <3>2. names' = Append(names, nm)
      BY <1>1, <3>1
    <3> QED BY <1>3, <1>4, <2>8, <3>1, <3>2
  <2>10. ASSUME NEW n \in 1..(len + 1)
         PROVE  /\ effect'.ins[n] = TypesOf(text, js[n])
                /\ names'[n] = IF Lettered(text, js[n]) THEN TextOf(text, js[n]) ELSE <<>>
    <3>1. CASE n \in 1..len
      BY <2>7, <2>8, <2>9, <3>1, Zenon
    <3>2. CASE n = len + 1
      BY <2>4, <2>7, <2>9, <3>2, Zenon
    <3> QED BY <2>8, <2>10, <3>1, <3>2
  <2>11. InputsRead(r, js)'
    <3>1. /\ Listed(js, TokensBefore(r)') /\ Len(js) = Len(effect'.ins)
      BY <2>5, <2>7, <2>9
    <3> QED BY <1>1, <2>7, <2>10, <3>1 DEF InputsRead
  <2>12. OutputsRead(r, js, os)'
    <3>1. Len(os) = 0
      <4>1. Len(os) = Len(effect.outs)
        BY <2>2 DEF OutputsRead
      <4> QED BY <1>3, <4>1
    <3>2. TokensBehind(r)' = TokensBehind(q)
      <4>1. \A u \in TokensOf(text) : u[1] \in Nat
        <5> SUFFICES ASSUME NEW u \in TokensOf(text) PROVE u[1] \in Nat
          OBVIOUS
        <5>1. u[1] \in 1..Len(text)
          BY <1>2, TokenFacts
        <5> QED BY <5>1
      <4>2. TokensBehind(q) = {}
        BY <2>3, <4>1 DEF TokensBehind
      <4>3. TokensBehind(r)' = {}
        <5>1. TokensBehind(r)' = {u \in TokensOf(text) : r < u[1] /\ u[1] < r}
          BY <1>1, <2>5 DEF TokensBehind
        <5>2. \A u \in TokensOf(text) : ~(r < u[1] /\ u[1] < r)
          BY <4>1
        <5> QED BY <5>1, <5>2
      <4> QED BY <4>2, <4>3
    <3>3. Listed(os, TokensBehind(r)') /\ Len(os) = Len(effect'.outs)
      BY <1>4, <2>2, <3>2 DEF OutputsRead
    <3>4. \A n \in 1..Len(os) : FALSE
      BY <3>1
    <3> QED BY <3>3, <3>4, Zenon DEF OutputsRead
  <2>13. SeparatorRead(r)'
    <3>1. \A s \in Separators(text) : ~(s[1] < r)
      <4> SUFFICES ASSUME NEW s \in Separators(text) PROVE ~(s[1] < r)
        OBVIOUS
      <4>1. s \in TokensOf(text) /\ s # w /\ ~(s[1] < token)
        BY <2>3, <2>4, <2>5 DEF Separators
      <4> QED BY <2>4, <4>1
    <3>2. inputs' /\ Separators(text)' = Separators(text)
      BY <1>1, Zenon
    <3> QED BY <2>5, <3>1, <3>2, Zenon DEF SeparatorRead
  <2>14. Read(r, js, os)'
    BY <2>5, <2>11, <2>12, <2>13 DEF Read
  <2> QED BY <2>14
<1> QED BY <1>1, <1>4, <1>6, ReadsOn

\* An output matches the inputs with its text, if it is named.
LEMMA MatchesAreNamesakes ==
  ASSUME EffectInv, NEW q \in Nat, NEW is, InputsRead(q, is),
         NEW w \in TokensOf(text), TextOf(text, w) = TokenText,
         Lettered(text, w) <=> tokenIsNamed
  PROVE  Matches = IF Lettered(text, w) THEN Namesakes(text, is, w) ELSE {}
<1>1. text \in Seq(Char) /\ DOMAIN names = 1..Len(names) /\ Len(names) = Len(effect.ins)
  BY DEF EffectInv
<1>2. PICK len : len = Len(is)
  OBVIOUS
<1>3. /\ Listed(is, TokensBefore(q)) /\ Len(effect.ins) = len
      /\ \A n \in 1..len :
           names[n] = IF Lettered(text, is[n]) THEN TextOf(text, is[n]) ELSE <<>>
  BY <1>2 DEF InputsRead
<1>4. \A n \in 1..len : is[n] \in TokensOf(text)
  <2>1. TokensBefore(q) \in SUBSET TokensOf(text)
    BY DEF TokensBefore
  <2> QED BY <1>1, <1>2, <1>3, <2>1, ListedFacts
<1>5. CASE ~Lettered(text, w)
  <2>1. ~tokenIsNamed
    BY <1>5
  <2>2. Matches = {}
    BY <2>1, Zenon DEF Matches
  <2> QED BY <1>5, <2>2, Zenon
<1>6. CASE Lettered(text, w)
  <2>1. ASSUME NEW n \in 1..len
        PROVE  names[n] = TextOf(text, w) <=> TextOf(text, is[n]) = TextOf(text, w)
    <3>1. is[n] \in TokensOf(text)
      BY <1>4
    <3>2. CASE Lettered(text, is[n])
      BY <1>3, <3>2, Zenon
    <3>3. CASE ~Lettered(text, is[n])
      <4>1. names[n] = <<>>
        BY <1>3, <3>3, Zenon
      <4>2. TextOf(text, is[n]) # TextOf(text, w)
        BY <1>1, <1>6, <3>1, <3>3, SameTexts
      <4>3. TextOf(text, w) # <<>>
        <5>1. PICK k, l, s : k = w[1] /\ l = w[2] /\ s = TextOf(text, w)
          OBVIOUS
        <5>2. k \in Nat /\ l \in Nat /\ k <= l /\ Len(s) = l - k + 1
          BY <1>1, <5>1, TokenFacts, TextCells
        <5>3. Len(s) # 0
          <6>1. l - k + 1 # 0
            BY <5>2
          <6> QED BY <5>2, <6>1, Zenon
        <5>4. s # <<>>
          BY <5>3
        <5> QED BY <5>1, <5>4
      <4> QED BY <4>1, <4>2, <4>3, Zenon
    <3> QED BY <3>2, <3>3
  <2>2. tokenIsNamed
    BY <1>6
  <2>3. Matches = {b \in 1..len : names[b] = TextOf(text, w)}
    <3>1. DOMAIN names = 1..len
      BY <1>1, <1>3
    <3> QED BY <2>2, <3>1, Zenon DEF Matches
  <2>4. Namesakes(text, is, w) = {b \in 1..len : TextOf(text, is[b]) = TextOf(text, w)}
    BY <1>2 DEF Namesakes
  <2>5. Matches = Namesakes(text, is, w)
    BY <2>1, <2>3, <2>4
  <2> QED BY <1>6, <2>5, Zenon
<1> QED BY <1>5, <1>6

\* What setInputMatch() stores is what the text of the output says.
LEMMA OutputMatches ==
  ASSUME EffectInv, NEW q \in Nat, NEW is, InputsRead(q, is),
         NEW w \in TokensOf(text), TextOf(text, w) = TokenText,
         Lettered(text, w) <=> tokenIsNamed, TypesOf(text, w) = Completed(entry)
  PROVE  /\ MatchedOutput.types = TypesOf(text, w)
         /\ MatchRead(MatchedOutput.match, text, is, w)
<1>1. Matches = IF Lettered(text, w) THEN Namesakes(text, is, w) ELSE {}
  BY MatchesAreNamesakes
<1>2. CASE Matches = {}
  <2>1. MatchedOutput = [types |-> TypesOf(text, w), match |-> 0]
    BY <1>2 DEF MatchedOutput, Out
  <2>2. MatchedOutput.match = 0 /\ MatchedOutput.types = TypesOf(text, w)
    BY <2>1
  <2>3. ~(Lettered(text, w) /\ Namesakes(text, is, w) # {})
    BY <1>1, <1>2
  <2> QED BY <2>2, <2>3, Zenon DEF MatchRead
<1>3. CASE Matches # {}
  <2>1. Lettered(text, w) /\ Matches = Namesakes(text, is, w)
    BY <1>1, <1>3
  <2>2. PICK b \in Matches : /\ b \in DOMAIN effect.ins
                             /\ MatchedOutput = SameAs(effect.ins[b], Len(effect.ins) - b)
    BY <1>3, FirstMatch
  <2>3. b \in Namesakes(text, is, w)
    BY <2>1, <2>2
  <2>4. b \in 1..Len(is) /\ TextOf(text, is[b]) = TextOf(text, w)
    BY <2>3 DEF Namesakes
  <2>5. effect.ins[b] = TypesOf(text, is[b]) /\ Len(is) = Len(effect.ins)
        /\ Listed(is, TokensBefore(q))
    BY <2>4 DEF InputsRead
  <2>6. text \in Seq(Char) /\ TokensBefore(q) \in SUBSET TokensOf(text)
    BY DEF EffectInv, TokensBefore
  <2>7. is[b] \in TokensOf(text)
    BY <2>4, <2>5, <2>6, ListedFacts
  <2>8. effect.ins[b] = TypesOf(text, w)
    BY <2>4, <2>5, <2>6, <2>7, SameTexts
  <2>9. PICK m, len : m = MatchedOutput.match /\ len = Len(is)
    OBVIOUS
  <2>10. m = len - b + 1 /\ MatchedOutput.types = TypesOf(text, w)
    <3>1. MatchedOutput = [types |-> TypesOf(text, w), match |-> len - b + 1]
      BY <2>2, <2>5, <2>8, <2>9 DEF SameAs
    <3> QED BY <2>9, <3>1
  <2>11. len - m + 1 = b
    <3>1. len \in Nat /\ b \in Nat
      <4>1. Len(effect.ins) \in Nat
        BY EffectFields DEF EffectInv
      <4>2. len \in Nat
        BY <2>5, <2>9, <4>1
      <4> QED BY <2>4, <4>2
    <3> QED BY <2>10, <3>1
  <2>12. Len(is) - MatchedOutput.match + 1 \in Namesakes(text, is, w)
    BY <2>3, <2>9, <2>11
  <2> QED BY <2>1, <2>10, <2>12, <1>3, Zenon DEF MatchRead
<1> QED BY <1>2, <1>3

LEMMA ReadingOutput ==
  ASSUME EffectInv, ReadingInv, EndOfOutput
  PROVE  ReadingInv'
<1>1. /\ Parsing /\ AtBlank /\ token # 0 /\ ~inputs /\ NextToken
      /\ status = "parsing" /\ text' = text /\ inputs' = inputs
      /\ effect' = AddOutputs(effect, <<MatchedOutput>>)
      /\ names' = names
  BY DEF EndOfOutput, NextToken, Parsing
<1>2. /\ text \in Seq(Char) /\ Len(text) \in Nat /\ c \in Nat /\ token \in Nat
  BY FrontierNat
<1>3. /\ effect \in StackEffect
      /\ effect.outs \in Seq(Output) /\ Len(effect.outs) \in Nat
  BY EffectFields DEF EffectInv
<1>4. /\ effect'.outs = Append(effect.outs, MatchedOutput)
      /\ effect'.ins = effect.ins /\ effect'.max = effect.max
  BY <1>1, <1>3, MatchedOutputOK, OutputAdded
<1>5. PICK r \in Nat : r = c + 1
  BY <1>2
<1>6. ASSUME SeparatorStandsAlone(text), NEW q \in Nat, NEW is, NEW os, Read(q, is, os)
      PROVE  \E p \in Nat : \E js, ks : Read(p, js, ks)'
  <2>1. PICK w : w = <<token, c - 1>>
    OBVIOUS
  <2>2. /\ TokenRead /\ KnownRead /\ SeparatorRead(q)
        /\ InputsRead(q, is) /\ OutputsRead(q, is, os)
    BY <1>6 DEF Read
  <2>3. /\ q < Frontier /\ <<q, q + 1>> \in Separators(text)
        /\ \A s \in Separators(text) : s[1] < Frontier => s[1] = q
    BY <1>1, <2>2, Zenon DEF SeparatorRead
  <2>4. /\ w \in TokensOf(text) /\ w \notin Separators(text)
        /\ TypesOf(text, w) = Completed(entry)
        /\ Lettered(text, w) <=> tokenIsNamed
        /\ TextOf(text, w) = TokenText
        /\ \A u \in TokensOf(text) : u[1] < r <=> u[1] < token \/ u = w
    BY <1>1, <1>5, <2>1, <2>2, TokenEnds, Zenon
  <2>5. /\ Frontier = token /\ Frontier' = r
        /\ TokenRead' /\ KnownRead'
    BY <1>1, <1>5, <2>1, <2>2, BehindToken
  <2>6. TokensBefore(q)' = TokensBefore(q)
    BY <1>1 DEF TokensBefore
  <2>7. TokensBehind(q)' = TokensBehind(q) \cup {w}
    <3>1. TokensBehind(q)' = {u \in TokensOf(text) : q < u[1] /\ u[1] < r}
      BY <1>1, <2>5 DEF TokensBehind
    <3>2. TokensBehind(q) = {u \in TokensOf(text) : q < u[1] /\ u[1] < token}
      BY <2>5 DEF TokensBehind
    <3>3. q < w[1]
      BY <2>1, <2>3, <2>5
    <3> QED BY <2>4, <3>1, <3>2, <3>3
  <2>8. PICK ks, len : ks = Append(os, w) /\ len = Len(os)
    OBVIOUS
  <2>9. /\ Listed(ks, TokensBehind(q) \cup {w}) /\ Len(ks) = len + 1
        /\ \A i \in 1..len : ks[i] = os[i]
        /\ ks[len + 1] = w
    <3>1. TokensBehind(q) \in SUBSET TokensOf(text)
      BY DEF TokensBehind
    <3>2. \A u \in TokensBehind(q) : u[1] < w[1]
      BY <2>1, <2>5 DEF TokensBehind
    <3>3. Listed(os, TokensBehind(q))
      BY <2>2 DEF OutputsRead
    <3> QED BY <1>2, <2>4, <2>8, <3>1, <3>2, <3>3, ListedMore
  <2>10. /\ len = Len(effect.outs) /\ len \in Nat
         /\ \A n \in 1..len :
              /\ effect.outs[n].types = TypesOf(text, os[n])
              /\ MatchRead(effect.outs[n].match, text, is, os[n])
    BY <1>3, <2>2, <2>8 DEF OutputsRead
  <2>11. /\ Len(effect'.outs) = len + 1
         /\ \A n \in 1..len : effect'.outs[n] = effect.outs[n]
         /\ effect'.outs[len + 1] = MatchedOutput
    <3>1. PICK o : o = MatchedOutput
      OBVIOUS
    <3>2. effect'.outs = Append(effect.outs, o)
      BY <1>4, <3>1
    <3> QED BY <1>3, <2>10, <3>1, <3>2
  <2>12. /\ MatchedOutput.types = TypesOf(text, w)
         /\ MatchRead(MatchedOutput.match, text, is, w)
    BY <2>2, <2>4, OutputMatches, Zenon
  <2>13. ASSUME NEW n \in 1..(len + 1)
         PROVE  /\ effect'.outs[n].types = TypesOf(text, ks[n])
                /\ MatchRead(effect'.outs[n].match, text, is, ks[n])
    <3>1. CASE n \in 1..len
      BY <2>9, <2>10, <2>11, <3>1, Zenon
    <3>2. CASE n = len + 1
      BY <2>9, <2>11, <2>12, <3>2, Zenon
    <3> QED BY <2>10, <2>13, <3>1, <3>2
  <2>14. InputsRead(q, is)'
    BY <1>1, <1>4, <2>2, <2>6 DEF InputsRead
  <2>15. OutputsRead(q, is, ks)'
    <3>1. /\ Listed(ks, TokensBehind(q)') /\ Len(ks) = Len(effect'.outs)
      BY <2>7, <2>9, <2>11
    <3>2. \A n \in 1..Len(ks) :
            /\ effect'.outs[n].types = TypesOf(text', ks[n])
            /\ MatchRead(effect'.outs[n].match, text', is, ks[n])
      BY <1>1, <2>9, <2>13, Zenon
    <3> QED BY <3>1, <3>2, Zenon DEF OutputsRead
  <2>16. SeparatorRead(q)'
    <3>1. \A s \in Separators(text) : s[1] < r => s[1] = q
      <4> SUFFICES ASSUME NEW s \in Separators(text), s[1] < r PROVE s[1] = q
        OBVIOUS
      <4>1. s \in TokensOf(text) /\ s # w
        BY <2>4 DEF Separators
      <4>2. s[1] < token
        BY <2>4, <4>1
      <4> QED BY <2>3, <2>5, <4>2
    <3>2. q < r
      BY <1>2, <1>5, <2>1, <2>3, <2>4, <2>5
    <3>3. ~inputs' /\ Separators(text)' = Separators(text)
      BY <1>1, Zenon
    <3> QED BY <2>3, <2>5, <3>1, <3>2, <3>3, Zenon DEF SeparatorRead
  <2>17. Read(q, is, ks)'
    BY <2>5, <2>14, <2>15, <2>16 DEF Read
  <2> QED BY <2>17
<1> QED BY <1>1, <1>4, <1>6, ReadsOn

\* A separator that stands alone is one of the tokens.
LEMMA SeparatorHere ==
  ASSUME EffectInv, TokenRead, SeparatorStandsAlone(text), AtDash,
         c + 1 <= Len(text), text[c + 1] = "-", token = 0,
         NEW w, w = <<c, c + 1>>
  PROVE  /\ w \in Separators(text) /\ w \in TokensOf(text)
         /\ \A u \in TokensOf(text) : u[1] < c + 3 <=> u[1] < c \/ u = w
         /\ c + 2 > Len(text) \/ text[c + 2] \in Blanks
<1>1. /\ text \in Seq(Char) /\ Len(text) \in Nat /\ c \in Nat /\ c >= 1
  BY FrontierNat
<1>2. text[c] = "-" /\ text[c] \notin Blanks
  BY KnownCharacters DEF AtDash
<1>3. c = 1 \/ text[c - 1] \in Blanks
  <2>1. c = 1 \/ c - 1 > Len(text) \/ text[c - 1] \in Blanks
    BY Zenon DEF TokenRead
  <2> QED BY <1>1, <2>1
<1>4. c + 2 > Len(text) \/ text[c + 2] \in Blanks
  <2> SUFFICES ASSUME ~(c + 2 > Len(text)) PROVE text[c + 2] \in Blanks
    OBVIOUS
  <2>1. c \in 1..(Len(text) - 2)
    BY <1>1
  <2> QED BY <1>2, <2>1 DEF SeparatorStandsAlone
<1>5. w[1] = c /\ w[2] = c + 1
  OBVIOUS
<1>6. w \in TokensOf(text)
  <2>1. c \in 1..Len(text) /\ c + 1 \in c..Len(text)
    BY <1>1
  <2>2. \A k \in c..(c + 1) : text[k] \notin Blanks
    <3>1. \A k \in c..(c + 1) : k = c \/ k = c + 1
      BY <1>1
    <3> QED BY <1>2, <3>1, KnownCharacters
  <2>3. c + 1 = Len(text) \/ text[(c + 1) + 1] \in Blanks
    BY <1>1, <1>4
  <2> QED BY <1>1, <1>3, <2>1, <2>2, <2>3, TokenMade
<1>7. w \in Separators(text)
  BY <1>1, <1>2, <1>5, <1>6, SeparatorText
<1>8. ASSUME NEW u \in TokensOf(text)
      PROVE  u[1] < c + 3 <=> u[1] < c \/ u = w
  <2>1. u[1] \in 1..Len(text)
    BY <1>1, TokenFacts
  <2>2. u[1] # c + 2
    <3>1. c + 2 \in Nat
      BY <1>1
    <3> QED BY <1>1, <1>4, <3>1, NoTokenAt
  <2>3. u[1] \in c..(c + 1) => u = w
    BY <1>1, <1>5, <1>6, TokensApart
  <2> QED BY <1>1, <1>5, <2>1, <2>2, <2>3
<1> QED BY <1>4, <1>6, <1>7, <1>8

LEMMA ReadingSeparator ==
  ASSUME EffectInv, ReadingInv, Separator
  PROVE  ReadingInv'
<1>1. /\ status = "parsing" /\ AtDash /\ c + 1 <= Len(text) /\ text[c + 1] = "-"
      /\ token = 0 /\ inputs /\ c' = c + 3 /\ inputs' = FALSE
      /\ UNCHANGED <<text, effect, token, tokenIsNamed, entry, names>>
  BY DEF Separator, SeparatorAllowed, Parsing
<1>2. /\ text \in Seq(Char) /\ Len(text) \in Nat /\ c \in Nat
  BY FrontierNat
<1>3. effect.outs = <<>>
  BY <1>1 DEF EffectInv
<1>4. ASSUME SeparatorStandsAlone(text), NEW q \in Nat, NEW is, NEW os, Read(q, is, os)
      PROVE  \E p \in Nat : \E js, ks : Read(p, js, ks)'
  <2>1. PICK w : w = <<c, c + 1>>
    OBVIOUS
  <2>2. /\ TokenRead /\ KnownRead /\ SeparatorRead(q)
        /\ InputsRead(q, is) /\ OutputsRead(q, is, os)
    BY <1>4 DEF Read
  <2>3. q = Frontier /\ \A s \in Separators(text) : ~(s[1] < q)
    BY <1>1, <2>2, Zenon DEF SeparatorRead
  <2>4. Frontier = c /\ Frontier' = c + 3
    BY <1>1 DEF Frontier
  <2>5. /\ w \in Separators(text) /\ w \in TokensOf(text)
        /\ \A u \in TokensOf(text) : u[1] < c + 3 <=> u[1] < c \/ u = w
        /\ c + 2 > Len(text) \/ text[c + 2] \in Blanks
    BY <1>1, <1>4, <2>1, <2>2, SeparatorHere, Zenon
  <2>6. TokenRead'
    <3>1. entry = {} /\ ~tokenIsNamed
      BY <1>1, <2>2, Zenon DEF TokenRead
    <3>2. c' - 1 > Len(text) \/ text[c' - 1] \in Blanks
      BY <1>1, <1>2, <2>5
    <3>3. token' = 0 /\ entry' = {} /\ ~tokenIsNamed' /\ text' = text
      BY <1>1, <3>1, Zenon
    <3> QED BY <3>2, <3>3, Zenon DEF TokenRead
  <2>7. KnownRead'
    <3>1. TokensBefore(Frontier)' = {u \in TokensOf(text) : u[1] < c + 3}
      BY <1>1, <2>4 DEF TokensBefore
    <3>2. \A u \in {v \in TokensOf(text) : v[1] < c + 3} \ Separators(text) :
             u \in TokensBefore(Frontier) \ Separators(text)
      BY <2>4, <2>5 DEF TokensBefore
    <3> QED BY <1>1, <2>2, <3>1, <3>2 DEF KnownRead
  <2>8. SeparatorRead(q)'
    <3>1. \A s \in Separators(text) : s[1] < c + 3 => s[1] = c
      <4> SUFFICES ASSUME NEW s \in Separators(text), s[1] < c + 3 PROVE s[1] = c
        OBVIOUS
      <4>1. s \in TokensOf(text) /\ ~(s[1] < c)
        BY <2>3, <2>4 DEF Separators
      <4> QED BY <2>1, <2>5, <4>1
    <3>2. q = c /\ c < c + 3 /\ <<c, c + 1>> \in Separators(text)
      BY <1>2, <2>1, <2>3, <2>4, <2>5
    <3>3. ~inputs' /\ Separators(text)' = Separators(text)
      BY <1>1, Zenon
    <3> QED BY <2>4, <3>1, <3>2, <3>3, Zenon DEF SeparatorRead
  <2>9. InputsRead(q, is)'
    <3>1. TokensBefore(q)' = TokensBefore(q)
      BY <1>1 DEF TokensBefore
    <3> QED BY <1>1, <2>2, <3>1 DEF InputsRead
  <2>10. OutputsRead(q, is, os)'
    <3>1. Len(os) = 0
      <4>1. Len(os) = Len(effect.outs)
        BY <2>2 DEF OutputsRead
      <4> QED BY <1>3, <4>1
    <3>2. TokensBehind(q)' = TokensBehind(q)
      <4>1. \A u \in TokensOf(text) : u[1] \in Nat
        <5> SUFFICES ASSUME NEW u \in TokensOf(text) PROVE u[1] \in Nat
          OBVIOUS
        <5>1. u[1] \in 1..Len(text)
          BY <1>2, TokenFacts
        <5> QED BY <5>1
      <4>2. TokensBehind(q) = {}
        BY <2>3, <4>1 DEF TokensBehind
      <4>3. TokensBehind(q)' = {}
        <5>1. TokensBehind(q)' = {u \in TokensOf(text) : c < u[1] /\ u[1] < c + 3}
          BY <1>1, <2>3, <2>4 DEF TokensBehind
        <5>2. \A u \in TokensOf(text) : ~(c < u[1] /\ u[1] < c + 3)
          BY <1>2, <2>1, <2>5, <4>1
        <5> QED BY <5>1, <5>2
      <4> QED BY <4>2, <4>3
    <3>3. Listed(os, TokensBehind(q)') /\ Len(os) = Len(effect'.outs)
      BY <1>1, <2>2, <3>2 DEF OutputsRead
    <3>4. \A n \in 1..Len(os) : FALSE
      BY <3>1
    <3> QED BY <3>3, <3>4, Zenon DEF OutputsRead
  <2>11. Read(q, is, os)'
    BY <2>6, <2>7, <2>8, <2>9, <2>10 DEF Read
  <2> QED BY <2>11
<1>5. effect'.max = effect.max
  BY <1>1
<1> QED BY <1>1, <1>4, <1>5, ReadsOn

-----------------------------------------------------------------------------
(* Texts that are refused *)

\* The token the character at c belongs to
LEMMA TokenHere ==
  ASSUME EffectInv, TokenRead, c <= Len(text), text[c] \notin Blanks
  PROVE  \E w \in TokensOf(text) : /\ w[1] = Frontier /\ c \in w[1]..w[2]
                                   /\ token # 0 => text[w[1]] \in Known
<1>1. /\ text \in Seq(Char) /\ Len(text) \in Nat /\ c \in Nat /\ c >= 1
      /\ token \in Nat
  BY FrontierNat
<1>2. CASE token = 0
  <2>1. Frontier = c
    BY <1>2 DEF Frontier
  <2>2. c = 1 \/ text[c - 1] \in Blanks
    <3>1. c = 1 \/ c - 1 > Len(text) \/ text[c - 1] \in Blanks
      BY <1>2, Zenon DEF TokenRead
    <3> QED BY <1>1, <3>1
  <2>3. c \in 1..Len(text)
    BY <1>1
  <2>4. PICK w \in TokensOf(text) : w[1] = c
    BY <1>1, <2>2, <2>3, TokenFrom
  <2>5. w[2] \in c..Len(text)
    BY <1>1, <2>4, TokenFacts
  <2>6. c \in w[1]..w[2]
    BY <1>1, <2>4, <2>5
  <2> QED BY <1>2, <2>1, <2>4, <2>6
<1>3. CASE token # 0
  <2>1. Frontier = token
    BY <1>3 DEF Frontier
  <2>2. /\ token = 1 \/ text[token - 1] \in Blanks
        /\ \A i \in token..(c - 1) : text[i] \in Known
    BY <1>3, Zenon DEF TokenRead
  <2>3. token < c
    BY <1>3, Zenon DEF TokenRead
  <2>4. token \in 1..Len(text) /\ token \in token..(c - 1)
    BY <1>1, <1>3, <2>3
  <2>5. text[token] \in Known /\ text[token] \notin Blanks
    BY <2>2, <2>4, KnownCharacters
  <2>6. PICK w \in TokensOf(text) : w[1] = token
    BY <1>1, <2>2, <2>4, <2>5, TokenFrom
  <2>7. PICK l : l = w[2]
    OBVIOUS
  <2>8. l \in token..Len(text) /\ (l = Len(text) \/ text[l + 1] \in Blanks)
    BY <1>1, <2>6, <2>7, TokenFacts
  <2>9. ~(l < c)
    <3> SUFFICES ASSUME l < c PROVE FALSE
      OBVIOUS
    <3>1. l # Len(text) /\ (l + 1 = c \/ l + 1 \in token..(c - 1))
      BY <1>1, <2>4, <2>8
    <3>2. text[l + 1] \notin Blanks
      BY <2>2, <3>1, KnownCharacters
    <3> QED BY <2>8, <3>1, <3>2
  <2>10. c \in w[1]..w[2]
    BY <1>1, <2>3, <2>4, <2>6, <2>7, <2>8, <2>9
  <2> QED BY <2>1, <2>5, <2>6, <2>10
<1> QED BY <1>2, <1>3

\* A character that is none of those of an entry, in no separator
LEMMA UnknownHere ==
  ASSUME EffectInv, TokenRead, c <= Len(text), text[c] \notin Blanks,
         text[c] \notin Known,
         \/ token # 0
         \/ text[c] # "-"
         \/ c + 1 > Len(text)
         \/ text[c + 1] # "-"
  PROVE  ~IsDeclaration(text)
<1>1. text \in Seq(Char) /\ Len(text) \in Nat /\ c \in Nat /\ token \in Nat
  BY FrontierNat
<1>2. PICK w \in TokensOf(text) : /\ w[1] = Frontier /\ c \in w[1]..w[2]
                                  /\ token # 0 => text[w[1]] \in Known
  BY TokenHere
<1>3. w \notin Separators(text)
  <2> SUFFICES ASSUME w \in Separators(text) PROVE FALSE
    OBVIOUS
  <2>1. w[2] = w[1] + 1 /\ text[w[1]] = "-" /\ text[w[1] + 1] = "-"
    BY <1>1, SeparatorText
  <2>2. token = 0
    BY <1>2, <2>1, KnownCharacters
  <2>3. w[1] = c
    BY <1>2, <2>2 DEF Frontier
  <2>4. c + 1 <= Len(text)
    <3>1. w[2] \in w[1]..Len(text)
      BY <1>1, TokenFacts
    <3> QED BY <1>1, <2>1, <2>3, <3>1
  <2> QED BY <1>1, <2>1, <2>2, <2>3, <2>4
<1> QED BY <1>2, <1>3, Zenon DEF IsDeclaration

LEMMA RefusedSymbol ==
  ASSUME EffectInv, TokenRead, UnknownSymbol
  PROVE  ~IsDeclaration(text)
<1>1. ~AtBlank /\ text[c] # "-" /\ text[c] \notin Known
  BY DEF UnknownSymbol, AtSymbol
<1>2. c <= Len(text) /\ text[c] \notin Blanks
  BY <1>1 DEF AtBlank
<1> QED BY <1>1, <1>2, UnknownHere

LEMMA RefusedSeparator ==
  ASSUME EffectInv, SeparatorStandsAlone(text), NEW q \in Nat, NEW is, NEW os,
         Read(q, is, os), InvalidSeparator
  PROVE  ~IsDeclaration(text)
<1>1. /\ text \in Seq(Char) /\ Len(text) \in Nat /\ c \in Nat /\ token \in Nat
  BY FrontierNat
<1>2. ~AtBlank /\ text[c] = "-" /\ ~SeparatorAllowed /\ AtDash
  BY DEF InvalidSeparator, AtDash
<1>3. c <= Len(text) /\ text[c] \notin Blanks /\ text[c] \notin Known
  BY <1>2, KnownCharacters DEF AtBlank
<1>4. TokenRead /\ SeparatorRead(q)
  BY DEF Read
<1>5. CASE token # 0 \/ c + 1 > Len(text) \/ text[c + 1] # "-"
  BY <1>3, <1>4, <1>5, UnknownHere
<1>6. CASE ~(token # 0 \/ c + 1 > Len(text) \/ text[c + 1] # "-")
  <2>1. token = 0 /\ c + 1 <= Len(text) /\ text[c + 1] = "-"
    BY <1>1, <1>6
  <2>2. ~inputs
    BY <1>2, <2>1, Zenon DEF SeparatorAllowed
  <2>3. q < Frontier /\ <<q, q + 1>> \in Separators(text)
    BY <1>4, <2>2, Zenon DEF SeparatorRead
  <2>4. PICK w, v : w = <<c, c + 1>> /\ v = <<q, q + 1>>
    OBVIOUS
  <2>5. w \in Separators(text) /\ v \in Separators(text)
    BY <1>2, <1>4, <2>1, <2>3, <2>4, SeparatorHere
  <2>6. w # v
    <3>1. Frontier = c
      BY <2>1 DEF Frontier
    <3>2. q # c
      BY <1>1, <2>3, <3>1
    <3> QED BY <2>4, <3>2
  <2>7. Cardinality(Separators(text)) # 1
    <3>1. IsFiniteSet(Separators(text))
      BY <1>1, TokensFinite, FS_Subset DEF Separators
    <3> QED BY <2>5, <2>6, <3>1, FS_Singleton
  <2> QED BY <2>7, Zenon DEF IsDeclaration
<1> QED BY <1>5, <1>6

LEMMA RefusedEnd ==
  ASSUME EffectInv, NEW q \in Nat, NEW is, NEW os, Read(q, is, os),
         MissingSeparator
  PROVE  ~IsDeclaration(text)
<1>1. /\ text \in Seq(Char) /\ Len(text) \in Nat /\ c \in Nat
  BY FrontierNat
<1>2. c > Len(text) + 1 /\ inputs
  BY DEF MissingSeparator
<1>3. TokenRead /\ SeparatorRead(q)
  BY DEF Read
<1>4. q = Frontier /\ \A s \in Separators(text) : ~(s[1] < q)
  BY <1>2, <1>3, Zenon DEF SeparatorRead
<1>5. Frontier = c
  <2>1. token # 0 => c <= Len(text) + 1
    BY <1>3, Zenon DEF TokenRead
  <2>2. token = 0
    BY <1>1, <1>2, <2>1
  <2> QED BY <2>2 DEF Frontier
<1>6. Separators(text) = {}
  <2> SUFFICES ASSUME NEW s \in Separators(text) PROVE FALSE
    OBVIOUS
  <2>1. s \in TokensOf(text)
    BY DEF Separators
  <2>2. s[1] \in 1..Len(text)
    BY <1>1, <2>1, TokenFacts
  <2> QED BY <1>1, <1>2, <1>4, <1>5, <2>2
<1>7. Cardinality(Separators(text)) = 0
  BY <1>6, FS_EmptySet
<1> QED BY <1>7 DEF IsDeclaration

LEMMA RefusedNinth ==
  ASSUME EffectInv, NEW q \in Nat, NEW is, NEW os, Read(q, is, os),
         TooManyEntries
  PROVE  ~IsDeclaration(text)
<1> DEFINE Entries == TokensOf(text) \ Separators(text)
           Read1 == TokensBefore(q)
           Read2 == TokensBehind(q)
<1>1. /\ text \in Seq(Char) /\ Len(text) \in Nat /\ c \in Nat
  BY FrontierNat
<1>2. ~AtBlank /\ text[c] # "-" /\ token = 0 /\ Full
  BY DEF TooManyEntries, AtSymbol
<1>3. c <= Len(text) /\ text[c] \notin Blanks
  BY <1>2 DEF AtBlank
<1>4. /\ TokenRead /\ SeparatorRead(q)
      /\ Listed(is, Read1) /\ Len(is) = Len(effect.ins)
      /\ Listed(os, Read2) /\ Len(os) = Len(effect.outs)
  BY DEF Read, InputsRead, OutputsRead
<1>5. Frontier = c
  BY <1>2 DEF Frontier
<1>6. PICK w \in TokensOf(text) : w[1] = c
  BY <1>3, <1>4, <1>5, TokenHere
<1>7. w \notin Separators(text)
  BY <1>1, <1>2, <1>6, SeparatorText
<1>8. \A u \in TokensOf(text) : u[1] \in Nat
  <2> SUFFICES ASSUME NEW u \in TokensOf(text) PROVE u[1] \in Nat
    OBVIOUS
  <2>1. u[1] \in 1..Len(text)
    BY <1>1, TokenFacts
  <2> QED BY <2>1
<1>9. /\ \A u \in Separators(text) : u \in TokensOf(text) /\ (u[1] < c => u[1] = q)
      /\ q <= c
  <2>1. CASE inputs
    <3>1. q = Frontier /\ \A s \in Separators(text) : ~(s[1] < q)
      BY <1>4, <2>1, Zenon DEF SeparatorRead
    <3> QED BY <1>1, <1>5, <3>1 DEF Separators
  <2>2. CASE ~inputs
    <3>1. q < Frontier /\ \A s \in Separators(text) : s[1] < Frontier => s[1] = q
      BY <1>4, <2>2, Zenon DEF SeparatorRead
    <3> QED BY <1>1, <1>5, <3>1 DEF Separators
  <2> QED BY <2>1, <2>2
<1>10. /\ Read1 \in SUBSET TokensOf(text) /\ Read2 \in SUBSET TokensOf(text)
       /\ Read1 \in SUBSET Entries /\ Read2 \in SUBSET Entries
       /\ Read1 \cap Read2 = {} /\ w \notin Read1 \cup Read2
       /\ w \in Entries
  <2>1. \A u \in Read1 : u \in TokensOf(text) /\ u[1] < q
    BY DEF TokensBefore
  <2>2. \A u \in Read2 : u \in TokensOf(text) /\ q < u[1] /\ u[1] < c
    BY <1>5 DEF TokensBehind
  <2> HIDE DEF Read1, Read2
  <2>3. \A u \in Read1 : u[1] < c /\ u[1] # q /\ u \notin Separators(text)
    BY <1>1, <1>8, <1>9, <2>1
  <2>4. \A u \in Read2 : u[1] # q /\ u \notin Separators(text)
    BY <1>8, <1>9, <2>2
  <2>5. Read1 \cap Read2 = {}
    BY <1>8, <2>1, <2>2
  <2>6. w \notin Read1 \cup Read2
    BY <1>1, <1>6, <2>2, <2>3
  <2> QED BY <1>6, <1>7, <2>1, <2>2, <2>3, <2>4, <2>5, <2>6
<1>11. IsFiniteSet(Entries)
  <2>1. Entries \in SUBSET TokensOf(text)
    OBVIOUS
  <2> HIDE DEF Entries
  <2> QED BY <1>1, <2>1, TokensFinite, FS_Subset
<1> HIDE DEF Entries, Read1, Read2
<1>12. /\ IsFiniteSet(Read1) /\ Cardinality(Read1) = Len(effect.ins)
       /\ IsFiniteSet(Read2) /\ Cardinality(Read2) = Len(effect.outs)
  BY <1>1, <1>4, <1>10, ListedCounts
<1>13. PICK n, m \in Nat : n = Len(effect.ins) /\ m = Len(effect.outs)
  BY EffectInvParts
<1>14. n + m >= 8
  BY <1>2, <1>13 DEF Full, kMaxEntries
<1>15. IsFiniteSet(Read1 \cup Read2) /\ Cardinality(Read1 \cup Read2) = n + m
  <2>1. Cardinality({}) = 0
    BY FS_EmptySet
  <2>2. /\ IsFiniteSet(Read1 \cup Read2)
        /\ Cardinality(Read1 \cup Read2) =
             Cardinality(Read1) + Cardinality(Read2) - Cardinality(Read1 \cap Read2)
    BY <1>12, FS_Union
  <2>3. Cardinality(Read1 \cup Read2) = n + m - 0
    BY <1>10, <1>12, <1>13, <2>1, <2>2, Zenon
  <2>4. n + m - 0 = n + m
    OBVIOUS
  <2> QED BY <2>2, <2>3, <2>4, Zenon
<1>16. Cardinality((Read1 \cup Read2) \cup {w}) = n + m + 1
  BY <1>10, <1>15, FS_AddElement
<1>17. /\ Cardinality((Read1 \cup Read2) \cup {w}) <= Cardinality(Entries)
       /\ Cardinality(Entries) \in Nat
  <2>1. (Read1 \cup Read2) \cup {w} \in SUBSET Entries
    BY <1>10
  <2> QED BY <1>11, <2>1, FS_Subset, FS_CardinalityType
<1>18. ~(Cardinality(Entries) <= 8)
  BY <1>14, <1>16, <1>17
<1> QED BY <1>18 DEF IsDeclaration, kMaxEntries, Entries

-----------------------------------------------------------------------------
(* Texts that are accepted *)

\* Output w matches the kth of the inputs W, or no input.
Matched(t, W, w, k, m) ==
  LET same == {u \in W : TextOf(t, u) = TextOf(t, w)}
  IN  IF Lettered(t, w) /\ same # {} THEN Nth(W, k) \in same ELSE m = 0

\* Input matches as Declares has them
LEMMA MatchDeclared ==
  ASSUME NEW t \in Seq(Char), NEW W \in SUBSET TokensOf(t), NEW is, Listed(is, W),
         NEW w, NEW m, MatchRead(m, t, is, w)
  PROVE  Matched(t, W, w, Len(is) - m + 1, m)
<1> DEFINE same == {u \in W : TextOf(t, u) = TextOf(t, w)}
           N == Namesakes(t, is, w)
<1>1. /\ \A i \in 1..Len(is) : is[i] \in W
      /\ \A u \in W : \E i \in 1..Len(is) : is[i] = u
  BY DEF Listed
<1>2. \A n \in 1..Len(is) : Nth(W, n) = is[n]
  BY ListedCounts
<1>3. \A i \in N : i \in 1..Len(is) /\ is[i] \in same
  BY <1>1 DEF Namesakes
<1>4. same # {} <=> N # {}
  <2>1. ASSUME NEW u \in same PROVE N # {}
    <3>1. PICK i \in 1..Len(is) : is[i] = u
      BY <1>1
    <3>2. i \in N
      BY <2>1, <3>1 DEF Namesakes
    <3> QED BY <3>2
  <2> HIDE DEF same, N
  <2> QED BY <1>3, <2>1
<1>5. IF Lettered(t, w) /\ same # {} THEN Nth(W, Len(is) - m + 1) \in same ELSE m = 0
  <2>1. IF Lettered(t, w) /\ N # {} THEN Len(is) - m + 1 \in N ELSE m = 0
    BY Zenon DEF MatchRead
  <2>2. PICK k : k = Len(is) - m + 1
    OBVIOUS
  <2> HIDE DEF same, N
  <2>3. k \in N => Nth(W, k) \in same
    BY <1>2, <1>3, Zenon
  <2> QED BY <1>4, <2>1, <2>2, <2>3, Zenon
<1> QED BY <1>5, Zenon DEF Matched

LEMMA AcceptedEnd ==
  ASSUME EffectInv, effect.max = 0, NEW q \in Nat, NEW is, NEW os,
         Read(q, is, os), Finish
  PROVE  /\ IsDeclaration(text)
         /\ NamesHaveLetters(text) => Declares(WithMax(effect, 0), text)
<1> DEFINE T == TokensOf(text)
           Read1 == TokensBefore(q)
           Read2 == TokensBehind(q)
           e == WithMax(effect, 0)
<1>1. /\ text \in Seq(Char) /\ Len(text) \in Nat /\ c \in Nat
  BY FrontierNat
<1>2. c > Len(text) + 1 /\ ~inputs
  BY DEF Finish
<1>3. /\ TokenRead /\ KnownRead /\ SeparatorRead(q)
      /\ Listed(is, Read1) /\ Len(is) = Len(effect.ins)
      /\ Listed(os, Read2) /\ Len(os) = Len(effect.outs)
      /\ \A n \in 1..Len(is) : effect.ins[n] = TypesOf(text, is[n])
      /\ \A n \in 1..Len(os) :
           /\ effect.outs[n].types = TypesOf(text, os[n])
           /\ MatchRead(effect.outs[n].match, text, is, os[n])
  BY DEF Read, InputsRead, OutputsRead
<1>4. Frontier = c
  <2>1. token # 0 => c <= Len(text) + 1
    BY <1>3, Zenon DEF TokenRead
  <2>2. token = 0
    BY <1>1, <1>2, <2>1
  <2> QED BY <2>2 DEF Frontier
<1>5. \A u \in T : u[1] \in Nat /\ u[1] < c
  <2> SUFFICES ASSUME NEW u \in T PROVE u[1] \in Nat /\ u[1] < c
    OBVIOUS
  <2>1. u[1] \in 1..Len(text)
    BY <1>1, TokenFacts
  <2> QED BY <1>1, <1>2, <2>1
<1>6. PICK v : v = <<q, q + 1>>
  OBVIOUS
<1>7. v \in Separators(text) /\ \A s \in Separators(text) : s[1] < c => s[1] = q
  BY <1>2, <1>3, <1>4, <1>6, Zenon DEF SeparatorRead
<1>8. Separators(text) = {v}
  <2> SUFFICES ASSUME NEW s \in Separators(text) PROVE s = v
    BY <1>7
  <2>1. s \in T /\ v \in T
    BY <1>7 DEF Separators
  <2>2. s[1] = q /\ v[1] = q
    BY <1>5, <1>6, <1>7, <2>1
  <2>3. v[2] = q + 1 /\ s[1] \in v[1]..v[2]
    BY <1>6, <2>2
  <2> QED BY <1>1, <2>1, <2>3, TokensApart
<1>9. v \in T /\ v[1] = q
  BY <1>6, <1>7 DEF Separators
<1>10. Read1 = {u \in T : u[1] < q} /\ Read2 = {u \in T : u[1] > q}
  BY <1>4, <1>5 DEF TokensBefore, TokensBehind
<1>11. Read1 = InputTokens(text)
  BY <1>8, <1>9, <1>10 DEF InputTokens
<1>12. Read2 = OutputTokens(text)
  BY <1>8, <1>9, <1>10 DEF OutputTokens
<1>13. T \ Separators(text) = Read1 \cup Read2 /\ Read1 \cap Read2 = {}
  <2>1. \A u \in T : u[1] = q => u = v
    <3> SUFFICES ASSUME NEW u \in T, u[1] = q PROVE u = v
      OBVIOUS
    <3>1. v[2] = q + 1 /\ u[1] \in v[1]..v[2]
      BY <1>6, <1>9
    <3> QED BY <1>1, <1>9, <3>1, TokensApart
  <2> HIDE DEF T
  <2> QED BY <1>5, <1>8, <1>9, <1>10, <2>1
<1>14. Read1 \in SUBSET T /\ Read2 \in SUBSET T
  BY <1>10
<1>15. /\ IsFiniteSet(Read1) /\ Cardinality(Read1) = Len(is)
       /\ \A n \in 1..Len(is) : Nth(Read1, n) = is[n]
  BY <1>1, <1>3, <1>14, ListedCounts
<1>16. /\ IsFiniteSet(Read2) /\ Cardinality(Read2) = Len(os)
       /\ \A n \in 1..Len(os) : Nth(Read2, n) = os[n]
  BY <1>1, <1>3, <1>14, ListedCounts
<1>17. PICK n, m \in Nat : n = Len(effect.ins) /\ m = Len(effect.outs) /\ n + m <= 8
  BY EffectInvParts
<1>18. IsDeclaration(text)
  <2>1. Cardinality(Separators(text)) = 1
    BY <1>8, FS_Singleton
  <2>2. Cardinality(T \ Separators(text)) <= kMaxEntries
    <3> HIDE DEF T, Read1, Read2
    <3>1. Cardinality({}) = 0
      BY FS_EmptySet
    <3>2. Cardinality(Read1 \cup Read2) =
            Cardinality(Read1) + Cardinality(Read2) - Cardinality(Read1 \cap Read2)
      BY <1>15, <1>16, FS_Union
    <3>3. Cardinality(T \ Separators(text)) = n + m - 0
      <4>1. Cardinality(Read1) = n /\ Cardinality(Read2) = m
        BY <1>3, <1>15, <1>16, <1>17, Zenon
      <4>2. Cardinality(Read1 \cap Read2) = 0
        BY <1>13, <3>1, Zenon
      <4>3. T \ Separators(text) = Read1 \cup Read2
        BY <1>13, Zenon
      <4> QED BY <3>2, <4>1, <4>2, <4>3
    <3>4. n + m - 0 <= 8
      <4>1. n + m <= 8
        BY <1>17
      <4> QED BY <4>1
    <3> QED BY <3>3, <3>4 DEF kMaxEntries
  <2>3. \A w \in T \ Separators(text) : \A i \in w[1]..w[2] : text[i] \in Known
    BY <1>3, <1>4, <1>5 DEF KnownRead, TokensBefore
  <2> QED BY <2>1, <2>2, <2>3 DEF IsDeclaration
<1>19. /\ effect \in StackEffect
       /\ effect.ins \in Seq(TypeSet) /\ effect.outs \in Seq(Output)
  BY EffectFields DEF EffectInv
<1>20. /\ e.ins = effect.ins /\ e.outs = effect.outs
       /\ e.max = AtLeast(0, Net(effect))
  <2>1. e.ins = effect.ins /\ e.outs = effect.outs
    <3>1. 0 \in Int
      OBVIOUS
    <3> QED BY <1>19, <3>1, WithMaxOK
  <2>2. e.max = AtMost(AtLeast(AtLeast(0, Net(effect)), 0), kUnknownMax)
    <3>1. effect = [ins |-> effect.ins, outs |-> effect.outs, max |-> effect.max]
      BY <1>19, EffectFields
    <3>2. PICK x : x = AtMost(AtLeast(AtLeast(0, Net(effect)), effect.max), kUnknownMax)
      OBVIOUS
    <3>3. e = [effect EXCEPT !.max = x]
      BY <3>2 DEF WithMax
    <3>4. e.max = x
      BY <3>1, <3>3
    <3> QED BY <3>2, <3>4
  <2>3. Net(effect) = m - n
    BY <1>17 DEF Net
  <2>4. AtMost(AtLeast(AtLeast(0, m - n), 0), kUnknownMax) = AtLeast(0, m - n)
    <3>1. PICK d \in Int : d = m - n
      OBVIOUS
    <3>2. d <= 8
      <4>1. n + m <= 8
        BY <1>17
      <4> QED BY <3>1, <4>1
    <3>3. 8 <= kUnknownMax
      BY DEF kUnknownMax
    <3>4. AtLeast(0, d) \in Nat /\ AtLeast(0, d) <= 8
      BY <3>2 DEF AtLeast
    <3>5. AtLeast(AtLeast(0, d), 0) = AtLeast(0, d)
      BY <3>4 DEF AtLeast
    <3>6. AtMost(AtLeast(0, d), kUnknownMax) = AtLeast(0, d)
      BY <3>3, <3>4, MaxNat DEF AtMost
    <3> QED BY <3>1, <3>5, <3>6, Zenon
  <2> QED BY <2>1, <2>2, <2>3, <2>4, Zenon
<1>21. Net(e) = Net(effect)
  BY <1>20 DEF Net
<1> HIDE DEF e, Read1, Read2, T
<1>22. /\ DOMAIN e.ins = 1..Len(is) /\ Len(e.ins) = Len(is)
       /\ DOMAIN e.outs = 1..Len(os) /\ Len(e.outs) = Len(os)
  BY <1>3, <1>19, <1>20
<1>23. ASSUME NEW k \in DOMAIN e.ins
       PROVE  e.ins[k] = TypesOf(text, Nth(InputTokens(text), k))
  BY <1>3, <1>11, <1>15, <1>20, <1>22, Zenon
<1>24. ASSUME NamesHaveLetters(text), NEW k \in DOMAIN e.outs
       PROVE  LET w == Nth(OutputTokens(text), k)
                  same == {u \in InputTokens(text) : TextOf(text, u) = TextOf(text, w)}
              IN  /\ e.outs[k].types = TypesOf(text, w)
                  /\ IF IsNamed(text, w) /\ same # {}
                     THEN Nth(InputTokens(text), Len(e.ins) - e.outs[k].match + 1) \in same
                     ELSE e.outs[k].match = 0
  <2>1. PICK w, o, x : w = os[k] /\ o = e.outs[k].match /\ x = Len(is)
    OBVIOUS
  <2>2. k \in 1..Len(os) /\ Nth(OutputTokens(text), k) = w
    BY <1>12, <1>16, <1>22, <2>1, Zenon
  <2>3. e.outs[k].types = TypesOf(text, w) /\ MatchRead(o, text, is, w)
    BY <1>3, <1>20, <2>1, <2>2, Zenon
  <2>4. Matched(text, Read1, w, Len(is) - o + 1, o)
    <3>1. text \in Seq(Char) /\ Listed(is, Read1) /\ MatchRead(o, text, is, w)
      BY <1>1, <1>3, <2>3, Zenon
    <3>2. Read1 \in SUBSET TokensOf(text)
      BY <1>14 DEF T
    <3> QED BY <3>1, <3>2, MatchDeclared, Zenon
  <2>5. w \in OutputTokens(text)
    BY <1>3, <1>12, <2>1, <2>2 DEF Listed
  <2>6. ASSUME NEW u \in InputTokens(text), TextOf(text, u) = TextOf(text, w)
        PROVE  IsNamed(text, w) <=> Lettered(text, w)
    <3>1. Lettered(text, w) => IsNamed(text, w)
      BY DEF Lettered, IsNamed, Has
    <3>2. IsNamed(text, w) => Lettered(text, w)
      BY <1>24, <2>5, <2>6 DEF NamesHaveLetters, Lettered
    <3> QED BY <3>1, <3>2
  <2>7. LET same == {u \in InputTokens(text) : TextOf(text, u) = TextOf(text, w)}
        IN  IF IsNamed(text, w) /\ same # {}
            THEN Nth(InputTokens(text), Len(e.ins) - o + 1) \in same
            ELSE o = 0
    <3> DEFINE same == {u \in InputTokens(text) : TextOf(text, u) = TextOf(text, w)}
    <3>1. same # {} => (IsNamed(text, w) <=> Lettered(text, w))
      BY <2>6
    <3>2. IF Lettered(text, w) /\ same # {}
          THEN Nth(InputTokens(text), Len(is) - o + 1) \in same
          ELSE o = 0
      BY <1>11, <2>4, Zenon DEF Matched
    <3> HIDE DEF same
    <3>3. IF IsNamed(text, w) /\ same # {}
          THEN Nth(InputTokens(text), Len(is) - o + 1) \in same
          ELSE o = 0
      BY <3>1, <3>2, Zenon
    <3> QED BY <1>22, <3>3, Zenon DEF same
  <2> QED BY <2>1, <2>2, <2>3, <2>7, Zenon
<1>25. /\ Len(e.ins) = Cardinality(InputTokens(text))
       /\ Len(e.outs) = Cardinality(OutputTokens(text))
       /\ e.max = AtLeast(0, Net(e))
  BY <1>11, <1>12, <1>15, <1>16, <1>20, <1>21, <1>22, Zenon
<1>26. NamesHaveLetters(text) => Declares(e, text)
  BY <1>23, <1>24, <1>25, Zenon DEF Declares
<1> QED BY <1>18, <1>26 DEF e

-----------------------------------------------------------------------------
(* The loop reads what a declaration says *)

\* Once the loop has ended nothing happens.
LEMMA ReadingStep ==
  ASSUME EffectInv, ReadingInv, ReadsDeclaration, [EffectNext]_effectVars
  PROVE  ReadingInv' /\ ReadsDeclaration'
<1>1. CASE UNCHANGED effectVars
  <2>1. ReadingInv'
    <3>1. /\ UNCHANGED <<text, effect, inputs, names>> /\ effect'.max = effect.max
          /\ UNCHANGED <<c, token, tokenIsNamed, entry>> /\ status' = status
      BY <1>1 DEF effectVars
    <3>2. CASE status = "parsing"
      <4>1. Frontier' = Frontier /\ Frontier \in Nat
        BY <3>1, FrontierNat DEF Frontier
      <4>2. ASSUME NEW q \in Nat, NEW is, NEW os, Read(q, is, os)
            PROVE  \E r \in Nat : \E js, ks : Read(r, js, ks)'
        <5>1. TokenRead'
          <6>1. TokenRead
            BY <4>2 DEF Read
          <6> QED BY <3>1, <6>1, Zenon DEF TokenRead
        <5>2. /\ Frontier' \in Nat /\ Frontier <= Frontier'
              /\ \A u \in TokensOf(text) : u[1] < Frontier' <=> u[1] < Frontier
          BY <4>1
        <5>3. \E r \in Nat : Read(r, is, os)'
          BY <3>1, <4>2, <5>1, <5>2, FrontierMoves
        <5> QED BY <5>3
      <4> QED BY <3>1, <3>2, <4>2, ReadsOn
    <3>3. CASE status # "parsing"
      BY <3>1, <3>3 DEF ReadingInv
    <3> QED BY <3>2, <3>3
  <2>2. ReadsDeclaration'
    BY <1>1 DEF effectVars, ReadsDeclaration
  <2> QED BY <2>1, <2>2
<1>2. CASE SkipBlank \/ EndOfInput \/ EndOfOutput \/ Separator \/ AddCharacter
  <2>1. ReadingInv'
    BY <1>2, ReadingSkip, ReadingInput, ReadingOutput, ReadingSeparator,
       ReadingCharacter
  <2>2. status' = "parsing"
    BY <1>2 DEF SkipBlank, EndOfInput, EndOfOutput, Separator, AddCharacter,
                NextToken, Parsing
  <2> QED BY <2>1, <2>2 DEF ReadsDeclaration
<1>3. CASE InvalidSeparator \/ TooManyEntries \/ UnknownSymbol \/ MissingSeparator
  <2>1. /\ status = "parsing" /\ status' # "parsing" /\ status' # "done"
        /\ text' = text
    BY <1>3 DEF InvalidSeparator, TooManyEntries, UnknownSymbol, MissingSeparator,
                Throw, Parsing
  <2>2. SeparatorStandsAlone(text) => ~IsDeclaration(text)
    <3> SUFFICES ASSUME SeparatorStandsAlone(text) PROVE ~IsDeclaration(text)
      OBVIOUS
    <3>1. PICK q \in Nat : \E is, os : Read(q, is, os)
      BY <2>1 DEF ReadingInv
    <3>2. PICK is, os : Read(q, is, os)
      BY <3>1
    <3>3. TokenRead
      BY <3>2 DEF Read
    <3> QED BY <1>3, <3>2, <3>3, RefusedSeparator, RefusedNinth, RefusedSymbol,
               RefusedEnd
  <2> QED BY <2>1, <2>2 DEF ReadingInv, ReadsDeclaration
<1>4. CASE Finish
  <2>1. /\ status = "parsing" /\ status' = "done" /\ text' = text
        /\ effect' = WithMax(effect, 0)
    BY <1>4 DEF Finish
  <2>2. SeparatorStandsAlone(text) =>
          /\ IsDeclaration(text)
          /\ NamesHaveLetters(text) => Declares(WithMax(effect, 0), text)
    <3> SUFFICES ASSUME SeparatorStandsAlone(text)
                 PROVE  /\ IsDeclaration(text)
                        /\ NamesHaveLetters(text) => Declares(WithMax(effect, 0), text)
      OBVIOUS
    <3>1. effect.max = 0 /\ \E q \in Nat : \E is, os : Read(q, is, os)
      BY <2>1 DEF ReadingInv
    <3> QED BY <1>4, <3>1, AcceptedEnd
  <2> QED BY <2>1, <2>2 DEF ReadingInv, ReadsDeclaration
<1> QED BY <1>1, <1>2, <1>3, <1>4 DEF EffectNext

(***************************************************************************)
(* For texts of any length the loop accepts the declarations and no other  *)
(* text, and the effect it returns is the one the tokens of the text       *)
(* declare: their number, types and max, and for every named output an     *)
(* input of exactly its text, if there is one (stack_effect_parser.hh).    *)
(* What is a name is documented, alphanumerics; the parser looks for       *)
(* letters, and where that makes a difference (NamesHaveLetters) it only   *)
(* accepts and refuses as it should.                                       *)
(***************************************************************************)
THEOREM DeclarationsRead == EffectSpec => []ReadsDeclaration
<1>1. EffectInit => ReadsDeclaration
  BY DEF EffectInit, ReadsDeclaration
<1> QED BY <1>1, EffectInvInit, EffectInvStep, ReadingInit, ReadingStep, PTL
        DEF EffectSpec
=============================================================================

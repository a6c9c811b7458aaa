---------------------------- MODULE EffectParser ----------------------------
(***************************************************************************)
(* The parser of stack effect declarations such as  a# b -- a#             *)
(* (compiler/stack_effect_parser.hh), one step per iteration of the loop   *)
(* of _parseStackEffect.                                                   *)
(*                                                                         *)
(* A text is a sequence of characters, of which one or two of each kind    *)
(* that the parser tells apart are enough.  The pointer c is an index, and *)
(* Len(text) + 1 is end.                                                   *)
(***************************************************************************)
EXTENDS StackEffects, FiniteSets

Letters == {"x", "y"}
Digits == {"1"}
Underscore == {"_"}
Blanks == {" "}

\* addTypeSymbol()
SymbolType ==
  [s \in {"?", "$", "[", "]", "{", "}", "#"} |->
     CASE s = "?"          -> "Null"
       [] s = "$"          -> "String"
       [] s \in {"[", "]"} -> "Array"
       [] s \in {"{", "}"} -> "Quote"
       [] s = "#"          -> "Number"]

Known == Letters \cup Digits \cup Underscore \cup DOMAIN SymbolType
Char == Known \cup Blanks \cup {"-", "@"}

CONSTANT Texts       \* the declarations a program may contain

ASSUME TextsAssumption == Texts \subseteq Seq(Char)

VARIABLES
  text, c,
  effect,          \* without its max until the end
  inputs,          \* still parsing inputs?
  token,           \* where the current token starts, or 0
  tokenIsNamed,
  entry,           \* the types of the current token
  names,           \* the text of every input, empty if it is not named
  status

effectVars == <<text, c, effect, inputs, token, tokenIsNamed, entry, names, status>>

Errors == {"Invalid stack separator", "Unknown stack type symbol",
           "Too many stack entries", "Missing stack separator"}

EffectInit ==
  /\ text \in Texts
  /\ c = 1
  /\ effect = [ins |-> <<>>, outs |-> <<>>, max |-> 0]
  /\ inputs = TRUE
  /\ token = 0
  /\ tokenIsNamed = FALSE
  /\ entry = {}
  /\ names = <<>>
  /\ status = "parsing"

-----------------------------------------------------------------------------
(* The loop *)

Parsing == status = "parsing" /\ c <= Len(text) + 1

AtBlank == c <= Len(text) => text[c] \in Blanks
AtDash == ~AtBlank /\ text[c] = "-"
AtSymbol == ~AtBlank /\ text[c] # "-"

Throw(what) ==
  /\ status' = what
  /\ UNCHANGED <<text, c, effect, inputs, token, tokenIsNamed, entry, names>>

SkipBlank ==
  /\ Parsing /\ AtBlank
  /\ token = 0
  /\ c' = c + 1
  /\ UNCHANGED <<text, effect, inputs, token, tokenIsNamed, entry, names, status>>

\* No types, or only null, means any type.
Completed(types) == IF types \in {{}, {"Null"}} THEN AnyType ELSE types

TokenText == SubSeq(text, token, c - 1)

NextToken ==
  /\ c' = c + 1
  /\ token' = 0
  /\ tokenIsNamed' = FALSE
  /\ entry' = {}
  /\ UNCHANGED <<text, inputs, status>>

EndOfInput ==
  /\ Parsing /\ AtBlank
  /\ token # 0
  /\ inputs
  /\ effect' = AddInputs(effect, <<Completed(entry)>>)
  /\ names' = Append(names, IF tokenIsNamed THEN TokenText ELSE <<>>)
  /\ NextToken

\* The inputs an output token matches
Matches == {b \in DOMAIN names : tokenIsNamed /\ names[b] = TokenText}

\* Faulty variant: the input's number counted from the bottom.
MatchedOutputFromBottom ==
  IF Matches = {} THEN Out(Completed(entry))
  ELSE LET b == CHOOSE m \in Matches : \A n \in Matches : m <= n
       IN  SameAs(effect.ins[b], b - 1)

\* The first of them, as setInputMatch() stores it
MatchedOutput ==
  IF Matches = {} THEN Out(Completed(entry))
  ELSE LET b == CHOOSE m \in Matches : \A n \in Matches : m <= n
       IN  SameAs(effect.ins[b], Len(effect.ins) - b)

EndOfOutput ==
  /\ Parsing /\ AtBlank
  /\ token # 0
  /\ ~inputs
  /\ effect' = AddOutputs(effect, <<MatchedOutput>>)
  /\ NextToken
  /\ UNCHANGED names

SeparatorAllowed ==
  /\ c + 1 <= Len(text) /\ text[c + 1] = "-"
  /\ token = 0
  /\ inputs

\* c += 2, and then the loop's ++c: the character behind the separator is
\* not looked at.
Separator ==
  /\ Parsing /\ AtDash
  /\ SeparatorAllowed
  /\ c' = c + 3
  /\ inputs' = FALSE
  /\ UNCHANGED <<text, effect, token, tokenIsNamed, entry, names, status>>

InvalidSeparator ==
  /\ Parsing /\ AtDash
  /\ ~SeparatorAllowed
  /\ Throw("Invalid stack separator")

\* Faulty variant: a ninth entry is let in.
FullTooLate == Len(effect.ins) + Len(effect.outs) > kMaxEntries

\* checkNotFull()
Full == Len(effect.ins) + Len(effect.outs) >= kMaxEntries

TooManyEntries ==
  /\ Parsing /\ AtSymbol
  /\ token = 0 /\ Full
  /\ Throw("Too many stack entries")

UnknownSymbol ==
  /\ Parsing /\ AtSymbol
  /\ token # 0 \/ ~Full
  /\ text[c] \notin Known
  /\ Throw("Unknown stack type symbol")

AddCharacter ==
  /\ Parsing /\ AtSymbol
  /\ token # 0 \/ ~Full
  /\ text[c] \in Known
  /\ token' = IF token = 0 THEN c ELSE token
  /\ entry' = entry \cup {SymbolType[s] : s \in {text[c]} \cap DOMAIN SymbolType}
  /\ tokenIsNamed' = (tokenIsNamed \/ text[c] \in Letters)
  /\ c' = c + 1
  /\ UNCHANGED <<text, effect, inputs, names, status>>

MissingSeparator ==
  /\ status = "parsing" /\ c > Len(text) + 1
  /\ inputs
  /\ Throw("Missing stack separator")

\* setMax()
Finish ==
  /\ status = "parsing" /\ c > Len(text) + 1
  /\ ~inputs
  /\ effect' = WithMax(effect, 0)
  /\ status' = "done"
  /\ UNCHANGED <<text, c, inputs, token, tokenIsNamed, entry, names>>

EffectNext ==
  \/ SkipBlank \/ EndOfInput \/ EndOfOutput
  \/ Separator \/ InvalidSeparator
  \/ TooManyEntries \/ UnknownSymbol \/ AddCharacter
  \/ MissingSeparator \/ Finish

EffectSpec == EffectInit /\ [][EffectNext]_effectVars

-----------------------------------------------------------------------------
(* What a declaration means, without a loop *)

\* The tokens: runs of characters from one blank, or end, to the next
TokensOf(t) ==
  {w \in (DOMAIN t) \X (DOMAIN t) :
     /\ w[1] <= w[2]
     /\ \A i \in w[1]..w[2] : t[i] \notin Blanks
     /\ w[1] = 1 \/ t[w[1] - 1] \in Blanks
     /\ w[2] = Len(t) \/ t[w[2] + 1] \in Blanks}

TextOf(t, w) == SubSeq(t, w[1], w[2])

Separators(t) == {w \in TokensOf(t) : TextOf(t, w) = <<"-", "-">>}

InputTokens(t) == {w \in TokensOf(t) : \A s \in Separators(t) : w[1] < s[1]}
OutputTokens(t) == {w \in TokensOf(t) : \A s \in Separators(t) : w[1] > s[1]}

\* The nth of some tokens of a text, from the left
Nth(W, n) == CHOOSE w \in W : Cardinality({u \in W : u[1] < w[1]}) = n - 1

\* Nothing but blanks follows a -- directly.
SeparatorStandsAlone(t) ==
  \A i \in 1..(Len(t) - 2) : t[i] = "-" /\ t[i + 1] = "-" => t[i + 2] \in Blanks

IsDeclaration(t) ==
  /\ Cardinality(Separators(t)) = 1
  /\ Cardinality(TokensOf(t) \ Separators(t)) <= kMaxEntries
  /\ \A w \in TokensOf(t) \ Separators(t) : \A i \in w[1]..w[2] : t[i] \in Known

TypesOf(t, w) ==
  Completed({SymbolType[t[i]] : i \in {j \in w[1]..w[2] : t[j] \in DOMAIN SymbolType}})

Has(t, w, S) == \E i \in w[1]..w[2] : t[i] \in S

\* Only a token that "contains alphanumerics" can match an input.
IsNamed(t, w) == Has(t, w, Letters \cup Digits)

\* No output repeats an input that has digits but no letters: the parser
\* (_isalpha) does not take these for the names they are documented to be.
NamesHaveLetters(t) ==
  \A u \in InputTokens(t), w \in OutputTokens(t) :
    TextOf(t, u) = TextOf(t, w) /\ IsNamed(t, w) => Has(t, w, Letters)

Declares(e, t) ==
  /\ Len(e.ins) = Cardinality(InputTokens(t))
  /\ \A n \in DOMAIN e.ins : e.ins[n] = TypesOf(t, Nth(InputTokens(t), n))
  /\ Len(e.outs) = Cardinality(OutputTokens(t))
  /\ \A n \in DOMAIN e.outs :
       LET w == Nth(OutputTokens(t), n)
           same == {u \in InputTokens(t) : TextOf(t, u) = TextOf(t, w)}
       IN  /\ e.outs[n].types = TypesOf(t, w)
           /\ IF IsNamed(t, w) /\ same # {}
              THEN Nth(InputTokens(t), Len(e.ins) - e.outs[n].match + 1) \in same
              ELSE e.outs[n].match = 0
  /\ e.max = AtLeast(0, Net(e))

-----------------------------------------------------------------------------
(* Properties *)

(***************************************************************************)
(* At every point the entries fit into StackEffect::_entries, the inputs   *)
(* have names at hand, and the result is an effect as the checker takes it *)
(* for granted: no output matches an input that is not there.              *)
(***************************************************************************)
EffectTypeOK ==
  /\ text \in Seq(Char)
  /\ c \in 1..(Len(text) + 3)
  /\ effect \in StackEffect
  /\ ~Overfull(effect)
  /\ Len(names) = Len(effect.ins)
  /\ inputs => effect.outs = <<>>
  /\ token \in 0..Len(text)
  /\ {inputs, tokenIsNamed} \subseteq BOOLEAN
  /\ entry \in TypeSet
  /\ status \in Errors \cup {"parsing", "done"}

(***************************************************************************)
(* The loop reads what a declaration says (stack_effect_parser.hh:65-72):  *)
(* each token before the -- is an input, each one after it an output, with *)
(* the types its symbols stand for; an output that is exactly an input and *)
(* contains alphanumerics has the type of that input.  Anything else is    *)
(* refused.  Two exceptions, where the parser does otherwise: a -- with a  *)
(* character glued to its end, and names without letters, as in  1 -- 1.   *)
(***************************************************************************)
ReadsDeclaration ==
  status # "parsing" /\ SeparatorStandsAlone(text) =>
    /\ (status = "done") <=> IsDeclaration(text)
    /\ status = "done" /\ NamesHaveLetters(text) => Declares(effect, text)
=============================================================================

----------------------------- MODULE MCCompiler -----------------------------
(* The constants that the small instances of the compiler share. *)
EXTENDS Compiler, CoreWords

\* Literals: numbers, strings and three quotations
Numbers == {"5"}
Strings == {"str"}
NumbersAndStrings == {"5", "str"}
NumbersAndQuotes == {"5", "{*}", "{DROP}"}
NumbersAndMatches == {"5", "{(x -- x)}"}

MCLiteralType ==
  [v \in Literals |-> CASE v = "5" -> "Number" [] v = "str" -> "String"
                        [] OTHER -> "Quote"]

MCQuoteEffect ==
  [v \in Literals \cap {"{*}", "{DROP}", "{(x -- x)}"} |->
     CASE v = "{*}"        -> WithMax(kBinEffect, 2)
       [] v = "{DROP}"     -> WithMax(Effect(<<Any>>, <<>>), 1)
       [] v = "{(x -- x)}" -> Effect(<<Any>>, <<SameAs(Any, 0)>>)]

MCWordEffect ==
  [w \in Words \ {"IFELSE"} |->
     IF w \in DOMAIN CoreEffect THEN CoreEffect[w]
                                ELSE Effect(<<Num>>, <<Out(Num)>>)]
MCInterpreted == Words \cap DOMAIN CoreCode

NoInlines == [w \in {} |-> <<>>]
Declared(in, out) == [effect |-> Effect(in, out), canAddInputs |-> FALSE,
                      canAddOutputs |-> FALSE, inline |-> FALSE]

\* A quotation declared (# -- #)
NumberToNumber == Declared(<<Num>>, <<Out(Num)>>)

\* A line typed at the prompt with one number on the stack
Prompt ==
  [effect |-> Effect(<<Num>>, <<>>), canAddInputs |-> FALSE,
   canAddOutputs |-> TRUE, inline |-> FALSE]

\* A quotation without a declaration
Undeclared ==
  [effect |-> Effect(<<>>, <<>>), canAddInputs |-> TRUE,
   canAddOutputs |-> TRUE, inline |-> FALSE]

\* A word declared (# -- ), which takes more than it leaves
NumberToNothing == Declared(<<Num>>, <<>>)

Unbalanced == {NumberToNothing}
OnlyPrompt == {Prompt}
OnlyUndeclared == {Undeclared}
KnownInputs == {NumberToNumber, Prompt}
DeclaredAndNot == {NumberToNumber, Undeclared}
OnlyNumberToNumber == {NumberToNumber}
InlineAndNot == {NumberToNumber, [NumberToNumber EXCEPT !.inline = TRUE]}

\* An Inline word, ( a b# -- |b#| )
DropAbsInline == [DROPABS |-> <<Ref("DROP"), Ref("ABS")>>]
=============================================================================

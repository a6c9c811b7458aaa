--------------------------- MODULE MCEffectParser ---------------------------
(* Declarations put together from pieces, and long ones. *)
EXTENDS EffectParser, SequencesExt

MCLiterals == {}
MCLiteralType == [v \in {} |-> "Null"]

Pieces == {<<"x">>, <<"y">>, <<"#">>, <<"?">>, <<"1">>, <<"@">>, <<" ">>,
           <<"-">>, <<" ", "-", "-", " ">>}

MaxPieces == 5

\* As many entries as fit, and one more
Full8(n, m) ==
  FlattenSeq([i \in 1..n |-> <<IF i = 2 THEN "x" ELSE "y", " ">>])
    \o <<"-", "-">> \o FlattenSeq([i \in 1..m |-> <<" ", "x">>])

MCTexts ==
  {FlattenSeq(ps) : ps \in BoundedSeq(Pieces, MaxPieces)}
    \cup {Full8(n, m) : n \in 0..9, m \in 0..9}
=============================================================================

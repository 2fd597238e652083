------------------------------- MODULE MCScalar -------------------------------
(***************************************************************************)
(* A machine with words of 10 bits and exponents of 5: integers of 3 digits *)
(* may leave the signed word, of 4 the unsigned one, and floats of 4 digits *)
(* are beyond a word.  Strings are read in windows of 3 bytes.             *)
(***************************************************************************)
EXTENDS ScalarProperties

Words(S, n)  == UNION {[1..k -> S] : k \in 1..n}
Join(S, T)   == {s \o t : s \in S, t \in T}
Signed_(S)   == S \cup Join({<<"-">>}, S)

Anything == Words({"-", "0", "1", ".", "e", "x"}, 5) \cup Join({<<"1", "e">>}, Words({"-", "+", "1"}, 2))

Integers_ ==
  Signed_(Words({"0", "1", "2", "3", "4", "5", "9"}, 3) \cup Join({<<"1", "0">>}, Words({"0", "2", "3", "4"}, 3))
         \cup [1..5 -> {"1", "9"}])

Exponents ==
  {<<"e">> \o e : e \in {<<"3">>, <<"9">>, <<"-", "5">>, <<"-", "9">>, <<"1", "5">>, <<"+", "1", "6">>,
                       <<"3", "1">>, <<"3", "2">>, <<"3", "3">>, <<"-", "3", "3">>, <<"3", "3", "0">>,
                       <<"0", "0", "0", "2">>}}

Floats ==
  LET points == Join(Join(Words({"0", "9"}, 2), {<<".">>}), Words({"0", "9"}, 4))
  IN  Signed_(points) \cup Join(points \cup Words({"0", "9"}, 5), Exponents)

Plains == {<<"true">>, <<"null">>, <<"false">>, <<"true", "x">>, <<"x", "null">>}

Pieces ==
  {<<"x">>, <<Backslash, Quote>>, <<Backslash, Backslash>>, <<Backslash, "n">>, <<Backslash, "x">>,
   <<Backslash, "u", "x">>}
  \cup {<<Backslash, "u", quad>> : quad \in Quads}

Bodies == {<< >>} \cup Pieces
          \cup Join(Pieces, Pieces) \cup Join(Pieces, Join(Pieces, Pieces))
          \cup Join([1..3 -> {"x"}], Join(Pieces, Pieces))
          \cup Join(Pieces, Join(Words({"x"}, 7), {<< >>} \cup Pieces))

Quotations ==
  Join(Join({<<Quote>>}, Bodies), {<<Quote>>, <<Quote, ":", Quote, "x", Quote>>})
  \cup Join(Join({<<Quote>>}, Words({"x"}, 7)), {<<Quote>>})

MCMinExp == -5

MCTexts == Anything \cup Integers_ \cup Floats \cup Plains \cup Quotations
=============================================================================

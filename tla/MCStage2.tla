------------------------------ MODULE MCStage2 ------------------------------
(***************************************************************************)
(* Small documents for TLC.  A document is a first line followed by up to  *)
(* a bounded number of lines, each of them taken from a menu.              *)
(***************************************************************************)
EXTENDS Stage2Properties

MCNumerals == {"0", "1", "2", "3", "4", "7", "14"}
MCNumberOf ==
  [d \in MCNumerals |->
     CASE d = "0" -> 0 [] d = "1" -> 1 [] d = "2" -> 2 [] d = "3" -> 3 [] d = "4" -> 4
       [] d = "7" -> 7 [] d = "14" -> 14]

LB == "LBRACE"
RB == "RBRACE"
CO == "COMMA"

(* The tokens of a line that is indented by ws. *)
Line(ws, cs) ==
  [j \in 1..(Len(cs) + 1) |->
     IF j > Len(cs) THEN [c |-> "NL", ws |-> 0]
     ELSE [c |-> cs[j], ws |-> IF j = 1 THEN ws ELSE 0]]

At(indents, cs) == {Line(ws, cs) : ws \in indents}

After(heads, menu, n) ==
  LET Tails[k \in 0..n] ==
        IF k = 0 THEN {<< >>}
        ELSE {t \o l : t \in Tails[k - 1], l \in menu \cup {<< >>}}
  IN  {h \o t : h \in heads, t \in Tails[n]}

(* A union, for large sets: counting A sorts it, so that TLC need not      *)
(* search through all of it for each member of B.                          *)
Join(A, B) == IF Cardinality(A) = 0 THEN B ELSE A \cup B

Blank     == Line(0, << >>)
Key       == <<"x", ":">>
Field     == <<"x", ":", "x">>
Item      == <<"-", "x">>
Inline(n) == <<"x", "[", n, "]", ":", "x", CO, "x">>
Block(n)  == <<"x", "[", n, "]", ":">>

-----------------------------------------------------------------------------
(* Nested objects, down to three levels and back. *)
ObjectDocs ==
  After(At({0}, Key) \cup At({0}, Field) \cup {Blank},
        At({0, 2, 4}, Key) \cup At({0, 2, 4}, Field) \cup {Blank}, 4)

(* Block arrays: in the root, in an object, in each other, with items that *)
(* are values, empty objects, objects or arrays, with blank lines, and     *)
(* with an array header without a key.                                     *)
ListDocs ==
  After(At({0}, Block("2")) \cup At({0}, <<"[", "1", "]", ":">>) \cup At({0}, Key)
          \cup {Line(0, Block("2")) \o Line(2, Item), Line(0, Key) \o Line(2, Block("1")),
                Line(0, Block("1")) \o Line(2, <<"-", "x", "[", "1", "]", ":">>)},
        At({2, 4}, Item) \cup At({2}, <<"-">>) \cup At({2}, <<"-", "x", ":", "x">>)
          \cup At({2}, <<"-", "x", "[", "1", "]", ":">>)
          \cup At({2}, Block("1")) \cup At({6}, Item) \cup At({0, 4}, Field) \cup {Blank}, 3)

(* The same kinds of line in deeper scopes, fewer of each. *)
DeepListDocs ==
  After({Line(0, Block("1")) \o Line(2, <<"-", "x", ":", "x">>),
         Line(0, Block("2")) \o Line(2, <<"-", "x", "[", "1", "]", ":">>),
         Line(0, Key) \o Line(2, Block("2")),
         Line(0, Block("2")) \o Line(2, <<"-", "x", "[", "1", "]", ":">>) \o Line(6, Item),
         Line(0, Key) \o Line(2, Block("2")) \o Line(4, <<"-", "x", ":", "x">>)},
        At({4, 6}, Item) \cup At({4}, <<"[", "1", "]", ":">>) \cup At({4}, Field)
          \cup At({2}, Item) \cup At({0}, Field) \cup {Blank}
          \cup At({4}, <<"-", "[", "1", "]", ":", "x">>), 3)

-----------------------------------------------------------------------------
(* Tables. *)

FieldLists == {<<LB, "x", RB, ":">>,
               <<LB, "x", CO, "x", RB, ":">>,
               <<LB, "x", CO, "x", LB, "x", CO, "x", RB, RB, ":">>,
               <<LB, "x", LB, "x", LB, "x", RB, RB, CO, "x", RB, ":">>}

ArrayHeads == {<<"[", "2", "]">>, <<"x", "[", "1", "]">>, <<"x", "[", "2", "]">>,
               <<"x", "[", "0", "]">>}
KeyedHeads == {<<"x", "[", "2", ":", "]">>, <<"[", "2", ":", "]">>}

ArrayRows == {<<"x">>, <<"x", CO, "x">>, <<"x", CO, "x", CO, "x">>, <<CO>>}
KeyedRows == {<<"x">>, <<"x", ":", "x">>, <<"x", ":", "x", CO, "x">>, <<"x", ":">>}

Table(heads, rows) ==
  After({Line(0, h \o f) : h \in heads, f \in FieldLists},
        {Line(2, r) : r \in rows} \cup At({0}, Field) \cup {Blank}, 3)

TableDocs ==
  Table(ArrayHeads, ArrayRows) \cup Table(KeyedHeads, KeyedRows)
    \cup After(At({0}, <<"x", "[", "1", ":", "]", ":">>), {Line(2, r) : r \in KeyedRows}, 2)

(* A table in an item of an array, and between the fields of an object.    *)
InnerTableDocs ==
  After({Line(0, Block("2")) \o Line(2, <<"-">> \o h \o f) :
           h \in {<<"x", "[", "2", "]">>, <<"x", "[", "1", ":", "]">>, <<"[", "2", "]">>},
           f \in {<<LB, "x", RB, ":">>, <<LB, "x", LB, "x", RB, RB, ":">>}},
        At({4, 6}, <<"x">>) \cup At({6}, <<"x", ":", "x">>) \cup At({4}, Field)
          \cup At({2}, Item) \cup {Blank}, 3)
  \cup After({Line(0, Block("2")) \o Line(2, <<"-", "x", "[", "2", "]", LB, "x", RB, ":">>)
                \o Line(6, <<"x">>) \o Line(6, <<"x">>)},
             At({4}, Field) \cup At({2}, Item), 3)

(* Lenient mode, with an indentation of four columns a level: tables that  *)
(* are the document's first header, with fewer and with more rows than     *)
(* declared, tables that are not, and a few lines of other kinds.          *)
LenientDocs ==
  After({Line(0, <<"x", "[", "2", "]", LB, "x", CO, "x", RB, ":">>),
         Line(0, <<"[", "1", "]", LB, "x", CO, "x", RB, ":">>),
         Line(0, <<"x", "[", "0", "]", LB, "x", LB, "x", RB, RB, ":">>),
         Line(0, Block("1")), Line(0, Key), Line(0, Inline("2"))},
        At({4}, <<"x", CO, "x">>) \cup At({4}, <<"x">>) \cup At({8}, <<"x">>)
          \cup At({4}, Item) \cup At({4}, <<"-", "x", ":", "x">>)
          \cup At({0, 6, 8}, Field) \cup {Blank}, 3)
  \cup After({Line(0, Field) \o Line(0, <<"x", "[", "1", "]", LB, "x", RB, ":">>)
                \o Line(4, <<"x">>)},
             At({4}, <<"x">>) \cup At({0}, Field), 1)

(* Tables with enough rows to use up what was reserved for the tape.       *)
Repeat(l, n) == FlattenSeq([k \in 1..n |-> l])
WideHeads == {<<LB, "x", RB, ":">>, <<LB, "x", LB, "x", RB, RB, ":">>,
              <<LB, "x", LB, "x", LB, "x", RB, RB, RB, ":">>}
TallDocs ==
  {Line(0, <<"x", "[", n, "]">> \o f) \o Repeat(Line(2, <<"x">>), MCNumberOf[n])
     : n \in MCNumerals \ {"0"}, f \in WideHeads}

-----------------------------------------------------------------------------
(* Arrays of values on the header's line, with every delimiter.            *)
InlineLines ==
  {<<"x", "[", n, d, "]", ":">> \o SubSeq(<<"x", d, "x">>, 1, k) :
     n \in {"0", "1", "2"}, d \in {"|", "TAB"}, k \in {0, 1, 3}}
  \cup {<<"x", "[", n, "]", ":">> \o v :
     n \in {"0", "1", "3"},
     v \in {<<"x", CO, "x", CO, "x">>, <<"x", "|", "x">>, <<"bad">>, <<CO, "bad">>}}

InlineDocs ==
  After({Line(0, l) : l \in InlineLines \cup {<<"[", "2", "]", ":", "x", CO, "x">>,
                                              <<"[", "0", "]", ":">>,
                                              <<"bad", "[", "1", "]", ":", "x">>,
                                              <<"x", "[", "1", "]", "x", ":", "x">>}},
        At({0, 2}, Field) \cup At({0}, Inline("2")) \cup At({0}, Inline("3")) \cup {Blank}
          \cup At({0}, <<"bad", ":", "x">>) \cup At({0}, <<"x", ":", "[", "]">>), 2)

-----------------------------------------------------------------------------
(* Token salad: everything that is one line of up to three tokens, or of   *)
(* four of the commonest, behind nothing, behind a key and behind the      *)
(* start of a header.                                                      *)
Salad(chars, n) == UNION {[1..k -> chars] : k \in 0..n}

SaladDocs ==
  {Line(0, s) : s \in Salad({"1", ":", "[", "]", "|", "-", "#", "NL", "CR", "x", "bad"}, 3)}
  \cup {Line(0, s) : s \in [1..4 -> {"1", ":", "[", "]", "-", "NL", "x"}]}
  \cup {Line(0, <<"x", "[", "1", "]", LB>> \o s) \o Line(2, <<"x", "bad">>) :
          s \in Salad({LB, RB, CO, "x", "bad", ":"}, 4)}
  \cup {Line(0, <<"x", "[", "0", "]">> \o s) : s \in Salad({LB, RB, "x", ":", "NL"}, 3)}

StrictDocs ==
  Join(Join(Join(ObjectDocs, ListDocs), Join(DeepListDocs, SaladDocs)),
       Join(Join(TableDocs, InnerTableDocs), Join(InlineDocs, TallDocs)))
=============================================================================

------------------------------- MODULE MCLazy -------------------------------
(***************************************************************************)
(* Small documents for a lazy value: every shape of container in every     *)
(* other, first, in the middle and last, with leaves that can be told      *)
(* apart.                                                                  *)
(***************************************************************************)
EXTENDS LazyProperties

L(kind, val)    == [kind |-> kind, val |-> val]
A(items)        == [kind |-> "Array", items |-> items]
O(entries)      == [kind |-> "Object", entries |-> entries]
E(key, value)   == [key |-> key, value |-> value]

One  == L("I64", "1")
Two  == L("I64", "2")
Text == L("String", "a")     \* a value that is also a key
Nil  == L("Null", "null")
Yes  == L("Bool", "true")

MCDocuments ==
  {A(<<A(<<One, Two>>), O(<<E("a", Text)>>), A(<< >>), Yes>>),
   O(<<E("a", A(<<Text, One>>)), E("b", O(<<E("a", Nil), E("b", Two)>>)), E("c", Yes)>>),
   O(<<E("b", O(<< >>)), E("a", A(<< >>)), E("c", O(<<E("b", A(<<A(<<One>>)>>))>>))>>),
   A(<<O(<<E("b", Text), E("a", One)>>), O(<<E("a", Two)>>)>>),
   Nil}

MCTapes  == {Listing(d) : d \in MCDocuments}
MCKeys   == {"a", "b", "c"}
MCLeaves == {L("I64", "9")}
=============================================================================

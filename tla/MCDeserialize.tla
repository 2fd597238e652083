---------------------------- MODULE MCDeserialize ----------------------------
(***************************************************************************)
(* Small documents for serde clients: every type of leaf, containers in    *)
(* containers, what an enum, a struct and a map with integer keys may be.  *)
(***************************************************************************)
EXTENDS DeserializeProperties

Nil  == Leaf("Null", "null")
Yes  == Leaf("Bool", "true")
Text == Leaf("String", "a")
Neg  == Leaf("I64", "-1")
Big  == Leaf("U64", "200")
Frac == Leaf("F64", "1.5")
Huge == Leaf("U64", "300")

A(items)   == ArrayOf(items)
O(entries) == ObjectOf(entries)

MCNumber == [t \in {"-1", "200", "300", "7"} |->
               CASE t = "-1" -> -1 [] t = "200" -> 200 [] t = "300" -> 300 [] t = "7" -> 7]

Various ==
  {Nil, Yes, Text, Neg, Big, Frac, Huge, A(<< >>), O(<< >>),
   A(<<A(<<Neg, Text>>), Nil>>),
   A(<<O(<<Entry("a", A(<< >>)), Entry("7", Big)>>), Yes>>),
   O(<<Entry("a", O(<<Entry("b", Nil)>>))>>),
   O(<<Entry("a", A(<<Neg, Frac>>))>>),
   O(<<Entry("7", Text), Entry("a", O(<<Entry("300", A(<<Yes>>))>>)), Entry("b", A(<< >>))>>),
   A(<<O(<<Entry("a", A(<< >>))>>), O(<<Entry("a", Text)>>), A(<<O(<< >>), Big>>)>>)}

(* Every array and object of up to two small values, and the shortest of   *)
(* them as a value that others follow.                                     *)
Small == {Nil, Big, Text, A(<< >>), O(<< >>)}
Ones  == {A(<<x>>) : x \in Small} \cup {O(<<Entry("7", x)>>) : x \in Small}
Pairs == {A(<<x, y>>) : x, y \in Small} \cup {O(<<Entry("7", x), Entry("a", y)>>) : x, y \in Small}
Nested == {A(<<x, Text>>) : x \in Ones} \cup {O(<<Entry("b", x), Entry("300", Nil)>>) : x \in Ones}

(* The documents with their parts. *)
Roots == Various \cup Ones \cup Pairs \cup Nested

RECURSIVE WithParts(_)
WithParts(v) == {v} \cup UNION {WithParts(Parts(v)[i]) : i \in DOMAIN Parts(v)}

MCTrees == UNION {WithParts(t) : t \in Roots}

RECURSIVE DepthOf(_)
DepthOf(v) == 1 + Max({0} \cup {DepthOf(Parts(v)[i]) : i \in DOMAIN Parts(v)})

MCDepth == [v \in MCTrees |-> DepthOf(v)]

MCDocs == {[tree |-> t, tape |-> Listing[t]] : t \in Roots}
=============================================================================

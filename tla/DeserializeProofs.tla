-------------------------- MODULE DeserializeProofs --------------------------
(***************************************************************************)
(* Proofs about serde clients on documents of any size: what the nodes on  *)
(* the tape and the iterators over the values have to do with each other,  *)
(* and what a client is shown.                                             *)
(***************************************************************************)
EXTENDS DeserializeProperties, SequenceTheorems, WellFoundedInduction, TLAPS

-----------------------------------------------------------------------------
(* Sequences of sequences.                                                 *)

(* A set of numbers that is not empty has a least one. *)
LEMMA LeastOf ==
  ASSUME NEW S, S \subseteq Nat, S # {}
  PROVE  \E x \in S : \A y \in S : x <= y
<1>1. IsWellFoundedOn(OpToRel(<, Nat), Nat)
  BY NatLessThanWellFounded
<1>2. PICK x \in S : \A y \in S : ~ (<<y, x>> \in OpToRel(<, Nat))
  BY <1>1, WFMin
<1>3. ASSUME NEW y \in S PROVE x <= y
  <2>1. ~ (<<y, x>> \in OpToRel(<, Nat))
    BY <1>2
  <2>2. ~ (y < x)
    BY <2>1 DEF OpToRel
  <2>3. QED
    BY <2>2
<1>4. QED
  BY <1>3

(* The prefixes that FlattenSeq joins step by step. *)
JoinedPrefixes(f, s, n) == f = [i \in 1..n |-> IF i = 1 THEN s[i] ELSE f[i - 1] \o s[i]]

LEMMA PrefixesJoin ==
  ASSUME NEW s, NEW n \in Nat
  PROVE  \E f : JoinedPrefixes(f, s, n)
<1> DEFINE S == {m \in Nat : ~ \E f : JoinedPrefixes(f, s, m)}
<1>1. SUFFICES ASSUME S # {} PROVE FALSE
  OBVIOUS
<1>2. PICK m \in S : \A k \in S : m <= k
  BY <1>1, LeastOf
<1>3. CASE m = 0
  <2>1. JoinedPrefixes([i \in 1..0 |-> s[i]], s, 0)
    BY DEF JoinedPrefixes
  <2>2. QED
    BY <1>2, <1>3, <2>1
<1>4. CASE m > 0
  <2>1. m - 1 \in Nat /\ m - 1 \notin S
    BY <1>2, <1>4
  <2>2. PICK f : JoinedPrefixes(f, s, m - 1)
    BY <2>1
  <2> DEFINE g == [i \in 1..m |-> IF i < m THEN f[i]
                                  ELSE IF i = 1 THEN s[i] ELSE f[m - 1] \o s[i]]
  <2>3. ASSUME NEW i \in 1..m PROVE g[i] = IF i = 1 THEN s[i] ELSE g[i - 1] \o s[i]
    <3>1. CASE i = m
      BY <3>1, <1>4
    <3>2. CASE i < m
      <4>1. i \in 1..m - 1 /\ g[i] = f[i]
        BY <3>2
      <4>2. f[i] = IF i = 1 THEN s[i] ELSE f[i - 1] \o s[i]
        BY <4>1, <2>2 DEF JoinedPrefixes
      <4>3. i # 1 => g[i - 1] = f[i - 1]
        BY <3>2
      <4>4. QED
        BY <4>1, <4>2, <4>3
    <3>3. QED
      BY <3>1, <3>2
  <2>4. JoinedPrefixes(g, s, m)
    BY <2>3 DEF JoinedPrefixes
  <2>5. QED
    BY <2>4, <1>2
<1>5. QED
  BY <1>2, <1>3, <1>4

LEMMA FlattenedByPrefixes ==
  ASSUME NEW s, Len(s) \in Nat \ {0}
  PROVE  \E f : JoinedPrefixes(f, s, Len(s)) /\ FlattenSeq(s) = f[Len(s)]
<1> DEFINE f == CHOOSE g : JoinedPrefixes(g, s, Len(s))
<1>1. JoinedPrefixes(f, s, Len(s))
  BY PrefixesJoin
<1>2. FlattenSeq(s) = f[Len(s)]
  BY DEF FlattenSeq, JoinedPrefixes
<1>3. QED
  BY <1>1, <1>2

LEMMA PrefixAt ==
  ASSUME NEW f, NEW s, NEW n \in Nat, JoinedPrefixes(f, s, n), NEW i \in 1..n
  PROVE  f[i] = IF i = 1 THEN s[i] ELSE f[i - 1] \o s[i]
BY Zenon DEF JoinedPrefixes

LEMMA FlattenEmpty == FlattenSeq(<< >>) = << >>
BY DEF FlattenSeq

LEMMA FlattenAppend ==
  ASSUME NEW T, NEW s \in Seq(Seq(T)), NEW x \in Seq(T)
  PROVE  FlattenSeq(Append(s, x)) = FlattenSeq(s) \o x
<1> DEFINE t == Append(s, x)
           n == Len(s)
<1>1. n \in Nat /\ Len(t) = n + 1 /\ t[n + 1] = x /\ \A i \in 1..n : t[i] = s[i]
  OBVIOUS
<1>2. PICK g : JoinedPrefixes(g, t, n + 1) /\ FlattenSeq(t) = g[n + 1]
  <2>1. Len(t) \in Nat \ {0}
    BY <1>1
  <2>2. QED
    BY <2>1, <1>1, FlattenedByPrefixes
<1>3. CASE n = 0
  <2>1. s = << >> /\ FlattenSeq(s) = << >>
    BY <1>3, FlattenEmpty
  <2>2. g[1] = t[1]
    BY <1>2, <1>3 DEF JoinedPrefixes
  <2>3. QED
    BY <2>1, <2>2, <1>1, <1>2, <1>3
<1> HIDE DEF t
<1>4. CASE n > 0
  <2>1. PICK f : JoinedPrefixes(f, s, n) /\ FlattenSeq(s) = f[n]
    BY <1>4, <1>1, FlattenedByPrefixes
  <2> DEFINE S == {i \in 1..n : f[i] # g[i]}
  <2>2. S = {}
    <3>1. SUFFICES ASSUME S # {} PROVE FALSE
      OBVIOUS
    <3>2. PICK i \in S : \A k \in S : i <= k
      <4>1. S \subseteq Nat
        OBVIOUS
      <4>2. QED
        BY <3>1, <4>1, LeastOf
    <3>3. f[i] = IF i = 1 THEN s[i] ELSE f[i - 1] \o s[i]
      BY <2>1 DEF JoinedPrefixes
    <3>4. g[i] = IF i = 1 THEN t[i] ELSE g[i - 1] \o t[i]
      <4>1. n + 1 \in Nat /\ i \in 1..n + 1
        BY <1>1
      <4>2. QED
        BY <4>1, <1>2, PrefixAt
    <3>5. i # 1 => f[i - 1] = g[i - 1]
      <4>1. i # 1 => i - 1 \in 1..n /\ ~ (i <= i - 1)
        BY <1>1
      <4>2. QED
        BY <4>1, <3>2
    <3>6. QED
      BY <3>3, <3>4, <3>5, <1>1
  <2>3. g[n + 1] = g[n] \o t[n + 1]
    <3>1. PICK k \in Nat : k = n + 1 /\ k \in 1..k /\ k # 1 /\ k - 1 = n
      BY <1>1, <1>4
    <3>2. JoinedPrefixes(g, t, k)
      BY <3>1, <1>2
    <3>3. g[k] = IF k = 1 THEN t[k] ELSE g[k - 1] \o t[k]
      BY <3>1, <3>2, Zenon DEF JoinedPrefixes
    <3>4. QED
      BY <3>1, <3>3
  <2>4. f[n] = g[n]
    BY <2>2, <1>1, <1>4
  <2>5. QED
    BY <2>1, <2>3, <2>4, <1>1, <1>2 DEF t
<1>5. QED
  BY <1>1, <1>3, <1>4

LEMMA FlattenIsSeq ==
  ASSUME NEW T, NEW s \in Seq(Seq(T))
  PROVE  FlattenSeq(s) \in Seq(T)
<1> DEFINE S == {m \in Nat : \E r \in Seq(Seq(T)) : Len(r) = m /\ FlattenSeq(r) \notin Seq(T)}
<1>1. SUFFICES ASSUME S # {} PROVE FALSE
  <2>1. Len(s) \in Nat
    OBVIOUS
  <2>2. QED
    BY <2>1
<1>2. S \subseteq Nat
  OBVIOUS
<1>3. PICK m \in S : \A k \in S : m <= k
  BY <1>1, <1>2, LeastOf
<1>4. PICK r \in Seq(Seq(T)) : Len(r) = m /\ FlattenSeq(r) \notin Seq(T)
  BY <1>3
<1>5. r # << >>
  BY <1>4, FlattenEmpty
<1>6. PICK u \in Seq(Seq(T)), x \in Seq(T) : r = Append(u, x)
  BY <1>5, SequenceEmptyOrAppend
<1>7. Len(u) \in Nat /\ Len(u) = m - 1
  BY <1>4, <1>6
<1>8. FlattenSeq(u) \in Seq(T)
  <2>1. Len(u) \notin S
    BY <1>3, <1>7, <1>2
  <2>2. QED
    BY <2>1, <1>7
<1>9. FlattenSeq(r) = FlattenSeq(u) \o x
  BY <1>6, FlattenAppend
<1>10. QED
  BY <1>4, <1>8, <1>9

LEMMA Regroup ==
  ASSUME NEW T, NEW a \in Seq(T), NEW b \in Seq(T), NEW c \in Seq(T)
  PROVE  (a \o b) \o c = a \o (b \o c)
BY ConcatAssociative

LEMMA ConcatAppend ==
  ASSUME NEW T, NEW a \in Seq(T), NEW b \in Seq(T), NEW x \in T
  PROVE  a \o Append(b, x) = Append(a \o b, x)
OBVIOUS

LEMMA FlattenConcatAppend ==
  ASSUME NEW T, NEW q \in Seq(Seq(T)), NEW u \in Seq(Seq(T)), NEW x \in Seq(T),
         FlattenSeq(q \o u) = FlattenSeq(q) \o FlattenSeq(u)
  PROVE  FlattenSeq(q \o Append(u, x)) = FlattenSeq(q) \o FlattenSeq(Append(u, x))
<1>1. q \o Append(u, x) = Append(q \o u, x) /\ q \o u \in Seq(Seq(T))
  BY ConcatAppend
<1>2. FlattenSeq(Append(q \o u, x)) = FlattenSeq(q \o u) \o x
  BY <1>1, FlattenAppend
<1>3. FlattenSeq(Append(u, x)) = FlattenSeq(u) \o x
  BY FlattenAppend
<1>4. FlattenSeq(q) \in Seq(T) /\ FlattenSeq(u) \in Seq(T)
  BY FlattenIsSeq
<1> DEFINE a == FlattenSeq(q)
           b == FlattenSeq(u)
<1>5. a \in Seq(T) /\ b \in Seq(T) /\ x \in Seq(T)
  BY <1>4
<1> HIDE DEF a, b
<1>6. (a \o b) \o x = a \o (b \o x)
  BY <1>5, ConcatAssociative, SMTT(30)
<1>7. FlattenSeq(q \o Append(u, x)) = (a \o b) \o x
  BY <1>1, <1>2, Zenon DEF a, b
<1>8. QED
  BY <1>3, <1>6, <1>7, Zenon DEF a, b

LEMMA FlattenConcat ==
  ASSUME NEW T, NEW q \in Seq(Seq(T)), NEW s \in Seq(Seq(T))
  PROVE  FlattenSeq(q \o s) = FlattenSeq(q) \o FlattenSeq(s)
<1> DEFINE Bad(r) == FlattenSeq(q \o r) # FlattenSeq(q) \o FlattenSeq(r)
           S == {m \in Nat : \E r \in Seq(Seq(T)) : Len(r) = m /\ Bad(r)}
<1>1. SUFFICES ASSUME S # {} PROVE FALSE
  <2>1. Len(s) \in Nat
    OBVIOUS
  <2>2. QED
    BY <2>1
<1>2. S \subseteq Nat
  OBVIOUS
<1>3. PICK m \in S : \A k \in S : m <= k
  BY <1>1, <1>2, LeastOf
<1>4. PICK r \in Seq(Seq(T)) : Len(r) = m /\ Bad(r)
  BY <1>3
<1>5. r # << >>
  <2>1. FlattenSeq(q) \in Seq(T)
    BY FlattenIsSeq
  <2>2. q \o << >> = q /\ FlattenSeq(q) \o << >> = FlattenSeq(q)
    BY <2>1
  <2>3. QED
    BY <2>2, <1>4, FlattenEmpty
<1>6. PICK u \in Seq(Seq(T)), x \in Seq(T) : r = Append(u, x)
  BY <1>5, SequenceEmptyOrAppend
<1>7. Len(u) \in Nat /\ Len(u) = m - 1
  BY <1>4, <1>6
<1>8. ~ Bad(u)
  <2>1. Len(u) \notin S
    <3> HIDE DEF S, Bad
    <3>1. ~ (m <= Len(u)) /\ \A k \in S : m <= k
      BY <1>3, <1>7, <1>2
    <3>2. QED
      BY <3>1
  <2>2. QED
    BY <2>1, <1>7
<1>9. FlattenSeq(q \o Append(u, x)) = FlattenSeq(q) \o FlattenSeq(Append(u, x))
  <2>1. FlattenSeq(q \o u) = FlattenSeq(q) \o FlattenSeq(u)
    BY <1>8
  <2>2. QED
    BY <2>1, FlattenConcatAppend
<1>10. QED
  BY <1>4, <1>6, <1>9

LEMMA FlattenOne ==
  ASSUME NEW T, NEW x \in Seq(T)
  PROVE  FlattenSeq(<<x>>) = x
<1>1. << >> \in Seq(Seq(T)) /\ Append(<< >>, x) = <<x>> /\ << >> \o x = x
  OBVIOUS
<1>2. FlattenSeq(Append(<< >>, x)) = FlattenSeq(<< >>) \o x
  BY <1>1, FlattenAppend
<1>3. QED
  BY <1>1, <1>2, FlattenEmpty

LEMMA FlattenFirst ==
  ASSUME NEW T, NEW x \in Seq(T), NEW s \in Seq(Seq(T))
  PROVE  FlattenSeq(<<x>> \o s) = x \o FlattenSeq(s)
<1>1. <<x>> \in Seq(Seq(T))
  OBVIOUS
<1>2. FlattenSeq(<<x>> \o s) = FlattenSeq(<<x>>) \o FlattenSeq(s)
  BY <1>1, FlattenConcat
<1>3. QED
  BY <1>2, FlattenOne

-----------------------------------------------------------------------------
(* The values of a document.                                               *)

EntryType == [key : STRING, value : Trees]

LEMMA LeafShape ==
  ASSUME NEW v \in Trees, v.kind \notin {"Array", "Object"}
  PROVE  /\ v.kind \in LeafKinds /\ v.val \in STRING /\ v = Leaf(v.kind, v.val)
         /\ Parts(v) = << >> /\ Header(v) = v
<1>1. v \in TreeType
  BY TreesAssumption
<1>2. v \in [kind : LeafKinds, val : STRING]
  BY <1>1 DEF TreeType
<1>3. QED
  BY <1>2 DEF LeafKinds, Leaf, Parts, Items, Header

LEMMA ArrayShape ==
  ASSUME NEW v \in Trees, v.kind = "Array"
  PROVE  /\ v.items \in Seq(Trees) /\ v = ArrayOf(v.items) /\ Parts(v) = v.items
         /\ Items(v) = v.items
         /\ Header(v) = [kind |-> "Array", len |-> Len(v.items)]
<1>1. v \in TreeType
  BY TreesAssumption
<1>2. v \in [kind : {"Array"}, items : Seq(Trees)]
  BY <1>1 DEF TreeType, LeafKinds
<1>3. QED
  BY <1>2 DEF ArrayOf, Parts, Items, Header

LEMMA ObjectShape ==
  ASSUME NEW v \in Trees, v.kind = "Object"
  PROVE  /\ v.entries \in Seq(EntryType) /\ v = ObjectOf(v.entries)
         /\ Parts(v) = Fields(v.entries) /\ Entries(v) = v.entries
         /\ Header(v) = [kind |-> "Object", len |-> Len(v.entries)]
<1>1. v \in TreeType
  BY TreesAssumption
<1>2. v \in [kind : {"Object"}, entries : Seq([key : STRING, value : Trees])]
  BY <1>1 DEF TreeType, LeafKinds
<1>3. QED
  BY <1>2 DEF ObjectOf, Parts, Entries, Header, EntryType

(* The key and the value of an entry. *)
Pair(e) == <<Leaf("String", e.key), e.value>>

LEMMA FieldsFirst ==
  ASSUME NEW T, NEW e, NEW es, Pair(e) \in Seq(T),
         es \in Seq(EntryType), \A i \in DOMAIN es : Pair(es[i]) \in Seq(T)
  PROVE  Fields(<<e>> \o es) = Pair(e) \o Fields(es) /\ Fields(es) \in Seq(T)
<1> DEFINE pairs == [i \in DOMAIN es |-> Pair(es[i])]
           all   == [i \in DOMAIN (<<e>> \o es) |-> Pair((<<e>> \o es)[i])]
<1>1. pairs \in Seq(Seq(T)) /\ Len(pairs) = Len(es)
  BY IsASeq
<1>2. all = <<Pair(e)>> \o pairs
  OBVIOUS
<1>3. FlattenSeq(all) = Pair(e) \o FlattenSeq(pairs) /\ FlattenSeq(pairs) \in Seq(T)
  BY <1>1, <1>2, FlattenFirst, FlattenIsSeq
<1>4. QED
  BY <1>3 DEF Fields, Pair

LEMMA FieldsAreSeq ==
  ASSUME NEW T, NEW es \in Seq(EntryType), \A i \in DOMAIN es : Pair(es[i]) \in Seq(T)
  PROVE  Fields(es) \in Seq(T)
<1> DEFINE pairs == [i \in DOMAIN es |-> Pair(es[i])]
<1>1. pairs \in Seq(Seq(T))
  BY IsASeq
<1>2. QED
  BY <1>1, FlattenIsSeq DEF Fields, Pair

(* Keys are values as well. *)
KeyedType == {e \in EntryType : Leaf("String", e.key) \in Trees}

LEMMA KeyedPairs ==
  ASSUME NEW es \in Seq(KeyedType)
  PROVE  /\ es \in Seq(EntryType)
         /\ \A i \in DOMAIN es : Pair(es[i]) \in Seq(Trees)
<1>1. \A e \in KeyedType : e \in EntryType /\ Pair(e) \in Seq(Trees)
  BY DEF KeyedType, EntryType, Pair
<1>2. QED
  BY <1>1

LEMMA FieldsLength ==
  ASSUME NEW s \in Seq(KeyedType)
  PROVE  Len(Fields(s)) = 2 * Len(s)
<1> DEFINE S == {m \in Nat : \E es \in Seq(KeyedType) : Len(es) = m /\ Len(Fields(es)) # 2 * Len(es)}
<1>1. SUFFICES ASSUME S # {} PROVE FALSE
  <2>1. Len(s) \in Nat
    OBVIOUS
  <2>2. QED
    BY <2>1
<1>2. PICK m \in S : \A k \in S : m <= k
  <2>1. S \subseteq Nat
    OBVIOUS
  <2>2. QED
    BY <1>1, <2>1, LeastOf
<1>3. PICK es \in Seq(KeyedType) : Len(es) = m /\ Len(Fields(es)) # 2 * Len(es)
  BY <1>2
<1>4. es # << >>
  BY <1>3, FlattenEmpty DEF Fields
<1>5. PICK e \in KeyedType, below \in Seq(KeyedType) : es = <<e>> \o below /\ Len(below) = m - 1
  <2>1. es = <<Head(es)>> \o Tail(es) /\ Tail(es) \in Seq(KeyedType) /\ Len(Tail(es)) = m - 1
        /\ Head(es) \in KeyedType
    BY <1>3, <1>4
  <2>2. QED
    BY <2>1
<1>6. Len(Fields(below)) = 2 * (m - 1)
  <2>1. Len(below) \notin S /\ Len(below) \in Nat
    BY <1>2, <1>5, <1>3
  <2>2. QED
    BY <2>1, <1>5
<1>7. Fields(es) = Pair(e) \o Fields(below) /\ Fields(below) \in Seq(Trees)
  <2>1. Pair(e) \in Seq(Trees)
    BY DEF KeyedType, EntryType, Pair
  <2>2. below \in Seq(EntryType) /\ \A i \in DOMAIN below : Pair(below[i]) \in Seq(Trees)
    BY KeyedPairs
  <2>3. Fields(<<e>> \o below) = Pair(e) \o Fields(below) /\ Fields(below) \in Seq(Trees)
    BY <2>1, <2>2, FieldsFirst
  <2>4. QED
    BY <2>3, <1>5
<1>8. Len(Fields(es)) = 2 + Len(Fields(below))
  BY <1>7 DEF Pair
<1>9. QED
  BY <1>3, <1>6, <1>8

LEMMA KeyedEntries ==
  ASSUME NEW v \in Trees, v.kind = "Object"
  PROVE  v.entries \in Seq(KeyedType)
<1>1. v.entries \in Seq(EntryType) /\ Entries(v) = v.entries
  BY ObjectShape
<1>2. \A i \in DOMAIN v.entries : v.entries[i] \in KeyedType
  BY <1>1, TreesAssumption DEF KeyedType
<1>3. QED
  BY <1>1, <1>2

(* The values that nest less deep than n. *)
Shallow(n) == {v \in Trees : Depth[v] < n}

LEMMA PartsShallow ==
  ASSUME NEW v \in Trees
  PROVE  Parts(v) \in Seq(Shallow(Depth[v]))
<1>1. CASE v.kind = "Array"
  <2>1. v.items \in Seq(Trees) /\ Parts(v) = v.items /\ Items(v) = v.items
    BY <1>1, ArrayShape
  <2>2. \A i \in DOMAIN v.items : v.items[i] \in Shallow(Depth[v])
    BY <2>1, TreesAssumption DEF Shallow
  <2>3. QED
    BY <2>1, <2>2
<1>2. CASE v.kind = "Object"
  <2>1. v.entries \in Seq(EntryType) /\ Parts(v) = Fields(v.entries) /\ Entries(v) = v.entries
    BY <1>2, ObjectShape
  <2>2. ASSUME NEW i \in DOMAIN v.entries
        PROVE  Pair(v.entries[i]) \in Seq(Shallow(Depth[v]))
    <3>1. v.entries[i] \in EntryType
      BY <2>1
    <3>2. /\ Leaf("String", v.entries[i].key) \in Shallow(Depth[v])
          /\ v.entries[i].value \in Shallow(Depth[v])
      BY <2>1, <3>1, TreesAssumption DEF Shallow, EntryType
    <3>3. QED
      BY <3>2 DEF Pair
  <2>3. QED
    BY <2>1, <2>2, FieldsAreSeq
<1>3. CASE v.kind \notin {"Array", "Object"}
  <2>1. Parts(v) = << >>
    BY <1>3, LeafShape
  <2>2. QED
    BY <2>1
<1>4. QED
  BY <1>1, <1>2, <1>3

LEMMA PartsLength ==
  ASSUME NEW v \in Trees
  PROVE  /\ Parts(v) \in Seq(Trees)
         /\ v.kind = "Array" => Len(Parts(v)) = Header(v).len
         /\ v.kind = "Object" => Len(Parts(v)) = 2 * Header(v).len
<1>1. Parts(v) \in Seq(Trees)
  <2>1. Shallow(Depth[v]) \subseteq Trees
    BY DEF Shallow
  <2>2. QED
    BY <2>1, PartsShallow
<1>2. v.kind = "Array" => Len(Parts(v)) = Header(v).len
  BY ArrayShape
<1>3. v.kind = "Object" => Len(Parts(v)) = 2 * Header(v).len
  <2>1. SUFFICES ASSUME v.kind = "Object" PROVE Len(Parts(v)) = 2 * Header(v).len
    OBVIOUS
  <2>2. Len(Fields(v.entries)) = 2 * Len(v.entries)
    BY <2>1, KeyedEntries, FieldsLength
  <2>3. QED
    BY <2>1, <2>2, ObjectShape
<1>4. QED
  BY <1>1, <1>2, <1>3

-----------------------------------------------------------------------------
(* The recursion of Listing is well founded: for values up to any depth    *)
(* there is a function that satisfies it, and only one.                    *)

ListingFrom(f, v) == <<Header(v)>> \o FlattenSeq([i \in DOMAIN Parts(v) |-> f[Parts(v)[i]]])
Lists(f, n)       == \A v \in Shallow(n) : f[v] = ListingFrom(f, v)

LEMMA ListingFromParts ==
  ASSUME NEW v \in Trees, NEW f, NEW g, \A p \in Shallow(Depth[v]) : f[p] = g[p]
  PROVE  ListingFrom(f, v) = ListingFrom(g, v)
<1>1. \A i \in DOMAIN Parts(v) : Parts(v)[i] \in Shallow(Depth[v])
  BY PartsShallow
<1>2. [i \in DOMAIN Parts(v) |-> f[Parts(v)[i]]] = [i \in DOMAIN Parts(v) |-> g[Parts(v)[i]]]
  BY <1>1
<1>3. QED
  BY <1>2 DEF ListingFrom

LEMMA ListsExist ==
  ASSUME NEW n \in Nat
  PROVE  \E f : Lists(f, n)
<1> DEFINE S == {m \in Nat : ~ \E f : Lists(f, m)}
<1>1. SUFFICES ASSUME S # {} PROVE FALSE
  OBVIOUS
<1>2. PICK m \in S : \A k \in S : m <= k
  <2>1. S \subseteq Nat
    OBVIOUS
  <2>2. QED
    BY <1>1, <2>1, LeastOf
<1>3. \A v \in Trees : Depth[v] \in Nat
  BY TreesAssumption
<1>4. m # 0
  <2>1. Shallow(0) = {}
    BY <1>3 DEF Shallow
  <2>2. Lists(<< >>, 0)
    BY <2>1 DEF Lists
  <2>3. QED
    BY <2>2, <1>2
<1>5. PICK f : Lists(f, m - 1)
  <2>1. m - 1 \in Nat /\ m - 1 \notin S
    BY <1>2, <1>4
  <2>2. QED
    BY <2>1
<1> DEFINE g == [v \in Shallow(m) |-> ListingFrom(f, v)]
<1>6. ASSUME NEW v \in Shallow(m) PROVE g[v] = ListingFrom(g, v)
  <2>1. v \in Trees /\ Depth[v] \in Nat /\ Depth[v] < m
    BY <1>3 DEF Shallow
  <2>2. ASSUME NEW p \in Shallow(Depth[v]) PROVE f[p] = g[p]
    <3>1. p \in Shallow(m - 1) /\ p \in Shallow(m)
      BY <2>1, <1>2, <1>3 DEF Shallow
    <3>2. f[p] = ListingFrom(f, p)
      BY <3>1, <1>5 DEF Lists
    <3>3. QED
      BY <3>1, <3>2
  <2> HIDE DEF g
  <2>3. ListingFrom(f, v) = ListingFrom(g, v)
    BY <2>1, <2>2, ListingFromParts
  <2>4. QED
    BY <2>3 DEF g
<1>7. Lists(g, m)
  BY <1>6 DEF Lists
<1>8. QED
  BY <1>2, <1>7

LEMMA ListsAgree ==
  ASSUME NEW f, NEW g, NEW m \in Nat, NEW n \in Nat, Lists(f, m), Lists(g, n),
         NEW v \in Trees, Depth[v] < m, Depth[v] < n
  PROVE  f[v] = g[v]
<1> DEFINE S == {d \in Nat : \E u \in Trees : Depth[u] = d /\ d < m /\ d < n /\ f[u] # g[u]}
<1>1. SUFFICES ASSUME S # {} PROVE FALSE
  BY TreesAssumption
<1>2. PICK d \in S : \A k \in S : d <= k
  <2>1. S \subseteq Nat
    OBVIOUS
  <2>2. QED
    BY <1>1, <2>1, LeastOf
<1>3. PICK u \in Trees : Depth[u] = d /\ d < m /\ d < n /\ f[u] # g[u]
  BY <1>2
<1>4. ASSUME NEW p \in Shallow(Depth[u]) PROVE f[p] = g[p]
  <2>1. p \in Trees /\ Depth[p] \in Nat /\ Depth[p] < d
    BY <1>3, TreesAssumption DEF Shallow
  <2>2. Depth[p] \notin S
    BY <2>1, <1>2
  <2>3. Depth[p] < m /\ Depth[p] < n
    BY <2>1, <1>3, <1>2
  <2>4. QED
    BY <2>1, <2>2, <2>3
<1>5. ListingFrom(f, u) = ListingFrom(g, u)
  BY <1>4, ListingFromParts
<1>6. u \in Shallow(m) /\ u \in Shallow(n)
  BY <1>3 DEF Shallow
<1>7. QED
  BY <1>3, <1>5, <1>6 DEF Lists

LEMMA ListingEquation ==
  ASSUME NEW v \in Trees
  PROVE  Listing[v] = ListingFrom(Listing, v)
<1> DEFINE Upto(u) == CHOOSE f : Lists(f, Depth[u] + 1)
           F == [u \in Trees |-> Upto(u)[u]]
<1>1. \A u \in Trees : Depth[u] \in Nat
  BY TreesAssumption
<1>2. ASSUME NEW u \in Trees PROVE Lists(Upto(u), Depth[u] + 1)
  <2>1. Depth[u] + 1 \in Nat
    BY <1>1
  <2>2. QED
    BY <2>1, ListsExist
<1> HIDE DEF Upto
<1>3. ASSUME NEW u \in Trees PROVE F[u] = ListingFrom(F, u)
  <2>1. u \in Shallow(Depth[u] + 1)
    BY <1>1 DEF Shallow
  <2>2. Upto(u)[u] = ListingFrom(Upto(u), u)
    BY <2>1, <1>2 DEF Lists
  <2>3. ASSUME NEW p \in Shallow(Depth[u]) PROVE Upto(u)[p] = F[p]
    <3>1. p \in Trees /\ Depth[p] < Depth[u] + 1 /\ Depth[p] < Depth[p] + 1
      BY <1>1 DEF Shallow
    <3>2. Depth[u] + 1 \in Nat /\ Depth[p] + 1 \in Nat
      BY <3>1, <1>1
    <3>3. Lists(Upto(u), Depth[u] + 1) /\ Lists(Upto(p), Depth[p] + 1)
      BY <3>1, <1>2
    <3>4. Upto(u)[p] = Upto(p)[p]
      BY <3>1, <3>2, <3>3, ListsAgree
    <3>5. QED
      BY <3>1, <3>4
  <2> HIDE DEF F
  <2>4. ListingFrom(Upto(u), u) = ListingFrom(F, u)
    BY <2>3, ListingFromParts
  <2>5. QED
    BY <2>2, <2>4 DEF F
<1>4. F = [u \in Trees |-> ListingFrom(F, u)]
  <2>1. F = [u \in Trees |-> F[u]]
    OBVIOUS
  <2> HIDE DEF F
  <2>2. [u \in Trees |-> F[u]] = [u \in Trees |-> ListingFrom(F, u)]
    BY <1>3
  <2>3. QED
    BY <2>1, <2>2
<1>5. Listing = CHOOSE f : f = [u \in Trees |-> ListingFrom(f, u)]
  BY DEF Listing, ListingFrom
<1>6. Listing = [u \in Trees |-> ListingFrom(Listing, u)]
  BY <1>4, <1>5
<1>7. QED
  BY <1>6

-----------------------------------------------------------------------------
(* The same for the recursion of Plain.                                    *)

PlainFrom(f, v) ==
  IF v.kind = "Array" THEN ArrayOf([i \in DOMAIN v.items |-> f[v.items[i]]])
  ELSE IF v.kind = "Object"
    THEN ObjectOf([i \in DOMAIN v.entries |->
                     Entry(v.entries[i].key, f[v.entries[i].value])])
  ELSE IF v.kind \in {"I64", "U64", "F64"} THEN Leaf("Number", v.val) ELSE v
Plains(f, n) == \A v \in Shallow(n) : f[v] = PlainFrom(f, v)

LEMMA PlainFromParts ==
  ASSUME NEW v \in Trees, NEW f, NEW g, \A p \in Shallow(Depth[v]) : f[p] = g[p]
  PROVE  PlainFrom(f, v) = PlainFrom(g, v)
<1>1. CASE v.kind = "Array"
  <2>1. v.items \in Seq(Trees) /\ Items(v) = v.items
    BY <1>1, ArrayShape
  <2>2. \A i \in DOMAIN v.items : v.items[i] \in Shallow(Depth[v])
    BY <2>1, TreesAssumption DEF Shallow
  <2>3. [i \in DOMAIN v.items |-> f[v.items[i]]] = [i \in DOMAIN v.items |-> g[v.items[i]]]
    BY <2>2
  <2>4. QED
    BY <1>1, <2>3 DEF PlainFrom
<1>2. CASE v.kind = "Object"
  <2>1. v.entries \in Seq(EntryType) /\ Entries(v) = v.entries
    BY <1>2, ObjectShape
  <2>2. \A i \in DOMAIN v.entries : v.entries[i].value \in Shallow(Depth[v])
    <3>1. \A i \in DOMAIN v.entries : v.entries[i] \in EntryType
      BY <2>1
    <3>2. \A i \in DOMAIN v.entries : v.entries[i].value \in Trees
      BY <3>1 DEF EntryType
    <3>3. QED
      BY <2>1, <3>2, TreesAssumption DEF Shallow
  <2>3. \A i \in DOMAIN v.entries : f[v.entries[i].value] = g[v.entries[i].value]
    BY <2>2
  <2>4. [i \in DOMAIN v.entries |-> Entry(v.entries[i].key, f[v.entries[i].value])]
        = [i \in DOMAIN v.entries |-> Entry(v.entries[i].key, g[v.entries[i].value])]
    BY <2>3
  <2>5. QED
    BY <1>2, <2>4 DEF PlainFrom
<1>3. CASE v.kind \notin {"Array", "Object"}
  BY <1>3 DEF PlainFrom
<1>4. QED
  BY <1>1, <1>2, <1>3

LEMMA PlainsExist ==
  ASSUME NEW n \in Nat
  PROVE  \E f : Plains(f, n)
<1> DEFINE S == {m \in Nat : ~ \E f : Plains(f, m)}
<1>1. SUFFICES ASSUME S # {} PROVE FALSE
  OBVIOUS
<1>2. PICK m \in S : \A k \in S : m <= k
  <2>1. S \subseteq Nat
    OBVIOUS
  <2>2. QED
    BY <1>1, <2>1, LeastOf
<1>3. \A v \in Trees : Depth[v] \in Nat
  BY TreesAssumption
<1>4. m # 0
  <2>1. Shallow(0) = {}
    BY <1>3 DEF Shallow
  <2>2. Plains(<< >>, 0)
    BY <2>1 DEF Plains
  <2>3. QED
    BY <2>2, <1>2
<1>5. PICK f : Plains(f, m - 1)
  <2>1. m - 1 \in Nat /\ m - 1 \notin S
    BY <1>2, <1>4
  <2>2. QED
    BY <2>1
<1> DEFINE g == [v \in Shallow(m) |-> PlainFrom(f, v)]
<1>6. ASSUME NEW v \in Shallow(m) PROVE g[v] = PlainFrom(g, v)
  <2>1. v \in Trees /\ Depth[v] \in Nat /\ Depth[v] < m
    BY <1>3 DEF Shallow
  <2>2. ASSUME NEW p \in Shallow(Depth[v]) PROVE f[p] = g[p]
    <3>1. p \in Shallow(m - 1) /\ p \in Shallow(m)
      BY <2>1, <1>2, <1>3 DEF Shallow
    <3>2. f[p] = PlainFrom(f, p)
      BY <3>1, <1>5 DEF Plains
    <3>3. QED
      BY <3>1, <3>2
  <2> HIDE DEF g
  <2>3. PlainFrom(f, v) = PlainFrom(g, v)
    BY <2>1, <2>2, PlainFromParts
  <2>4. QED
    BY <2>3 DEF g
<1>7. Plains(g, m)
  BY <1>6 DEF Plains
<1>8. QED
  BY <1>2, <1>7

LEMMA PlainsAgree ==
  ASSUME NEW f, NEW g, NEW m \in Nat, NEW n \in Nat, Plains(f, m), Plains(g, n),
         NEW v \in Trees, Depth[v] < m, Depth[v] < n
  PROVE  f[v] = g[v]
<1> DEFINE S == {d \in Nat : \E u \in Trees : Depth[u] = d /\ d < m /\ d < n /\ f[u] # g[u]}
<1>1. SUFFICES ASSUME S # {} PROVE FALSE
  BY TreesAssumption
<1>2. PICK d \in S : \A k \in S : d <= k
  <2>1. S \subseteq Nat
    OBVIOUS
  <2>2. QED
    BY <1>1, <2>1, LeastOf
<1>3. PICK u \in Trees : Depth[u] = d /\ d < m /\ d < n /\ f[u] # g[u]
  BY <1>2
<1>4. ASSUME NEW p \in Shallow(Depth[u]) PROVE f[p] = g[p]
  <2>1. p \in Trees /\ Depth[p] \in Nat /\ Depth[p] < d
    BY <1>3, TreesAssumption DEF Shallow
  <2>2. Depth[p] \notin S
    BY <2>1, <1>2
  <2>3. Depth[p] < m /\ Depth[p] < n
    BY <2>1, <1>3, <1>2
  <2>4. QED
    BY <2>1, <2>2, <2>3
<1>5. PlainFrom(f, u) = PlainFrom(g, u)
  BY <1>4, PlainFromParts
<1>6. u \in Shallow(m) /\ u \in Shallow(n)
  BY <1>3 DEF Shallow
<1>7. QED
  BY <1>3, <1>5, <1>6 DEF Plains

LEMMA PlainEquation ==
  ASSUME NEW v \in Trees
  PROVE  Plain[v] = PlainFrom(Plain, v)
<1> DEFINE Upto(u) == CHOOSE f : Plains(f, Depth[u] + 1)
           F == [u \in Trees |-> Upto(u)[u]]
<1>1. \A u \in Trees : Depth[u] \in Nat
  BY TreesAssumption
<1>2. ASSUME NEW u \in Trees PROVE Plains(Upto(u), Depth[u] + 1)
  <2>1. Depth[u] + 1 \in Nat
    BY <1>1
  <2>2. QED
    BY <2>1, PlainsExist
<1> HIDE DEF Upto
<1>3. ASSUME NEW u \in Trees PROVE F[u] = PlainFrom(F, u)
  <2>1. u \in Shallow(Depth[u] + 1)
    BY <1>1 DEF Shallow
  <2>2. Upto(u)[u] = PlainFrom(Upto(u), u)
    BY <2>1, <1>2 DEF Plains
  <2>3. ASSUME NEW p \in Shallow(Depth[u]) PROVE Upto(u)[p] = F[p]
    <3>1. p \in Trees /\ Depth[p] < Depth[u] + 1 /\ Depth[p] < Depth[p] + 1
      BY <1>1 DEF Shallow
    <3>2. Depth[u] + 1 \in Nat /\ Depth[p] + 1 \in Nat
      BY <3>1, <1>1
    <3>3. Plains(Upto(u), Depth[u] + 1) /\ Plains(Upto(p), Depth[p] + 1)
      BY <3>1, <1>2
    <3>4. Upto(u)[p] = Upto(p)[p]
      BY <3>1, <3>2, <3>3, PlainsAgree
    <3>5. QED
      BY <3>1, <3>4
  <2> HIDE DEF F
  <2>4. PlainFrom(Upto(u), u) = PlainFrom(F, u)
    BY <2>3, PlainFromParts
  <2>5. QED
    BY <2>2, <2>4 DEF F
<1>4. F = [u \in Trees |-> PlainFrom(F, u)]
  <2>1. F = [u \in Trees |-> F[u]]
    OBVIOUS
  <2> HIDE DEF F
  <2>2. [u \in Trees |-> F[u]] = [u \in Trees |-> PlainFrom(F, u)]
    BY <1>3
  <2>3. QED
    BY <2>1, <2>2
<1>5. Plain = CHOOSE f : f = [u \in Trees |-> PlainFrom(f, u)]
  BY DEF Plain, PlainFrom
<1>6. Plain = [u \in Trees |-> PlainFrom(Plain, u)]
  BY <1>4, <1>5
<1>7. QED
  BY <1>6

-----------------------------------------------------------------------------
(* Values listed one after the other.                                      *)

Nodes == {Header(v) : v \in Trees}

LEMMA ListedAreNodes ==
  ASSUME NEW v \in Trees
  PROVE  Listing[v] \in Seq(Nodes)
<1> DEFINE S == {d \in Nat : \E u \in Trees : Depth[u] = d /\ Listing[u] \notin Seq(Nodes)}
<1>1. SUFFICES ASSUME S # {} PROVE FALSE
  BY TreesAssumption
<1>2. PICK d \in S : \A k \in S : d <= k
  <2>1. S \subseteq Nat
    OBVIOUS
  <2>2. QED
    BY <1>1, <2>1, LeastOf
<1>3. PICK u \in Trees : Depth[u] = d /\ Listing[u] \notin Seq(Nodes)
  BY <1>2
<1> DEFINE below == [i \in DOMAIN Parts(u) |-> Listing[Parts(u)[i]]]
<1>4. Parts(u) \in Seq(Shallow(d))
  BY <1>3, PartsShallow
<1>5. ASSUME NEW i \in DOMAIN Parts(u) PROVE below[i] \in Seq(Nodes)
  <2>1. Parts(u)[i] \in Trees /\ Depth[Parts(u)[i]] \in Nat /\ Depth[Parts(u)[i]] < d
    BY <1>4, TreesAssumption DEF Shallow
  <2>2. Depth[Parts(u)[i]] \notin S
    BY <2>1, <1>2
  <2>3. QED
    BY <2>1, <2>2
<1>6. below \in Seq(Seq(Nodes))
  BY <1>4, <1>5, IsASeq
<1>7. FlattenSeq(below) \in Seq(Nodes)
  BY <1>6, FlattenIsSeq
<1>8. Listing[u] = <<Header(u)>> \o FlattenSeq(below)
  BY ListingEquation DEF ListingFrom
<1>9. Header(u) \in Nodes
  BY DEF Nodes
<1>10. QED
  BY <1>3, <1>7, <1>8, <1>9

(* The listings of a sequence of values. *)
Listings(ts) == [i \in DOMAIN ts |-> Listing[ts[i]]]

LEMMA ListingsOf ==
  ASSUME NEW ts \in Seq(Trees)
  PROVE  /\ Listings(ts) \in Seq(Seq(Nodes)) /\ Forest(ts) = FlattenSeq(Listings(ts))
         /\ Forest(ts) \in Seq(Nodes)
<1>1. \A i \in DOMAIN ts : Listings(ts)[i] \in Seq(Nodes)
  BY ListedAreNodes DEF Listings
<1>2. Listings(ts) \in Seq(Seq(Nodes))
  BY <1>1, IsASeq DEF Listings
<1>3. QED
  BY <1>2, FlattenIsSeq DEF Forest, Listings

LEMMA ForestConcat ==
  ASSUME NEW ts \in Seq(Trees), NEW us \in Seq(Trees)
  PROVE  Forest(ts \o us) = Forest(ts) \o Forest(us)
<1>1. Listings(ts \o us) = Listings(ts) \o Listings(us)
  <2>1. Len(ts) \in Nat /\ DOMAIN ts = 1..Len(ts) /\ Len(us) \in Nat /\ DOMAIN us = 1..Len(us)
        /\ DOMAIN (ts \o us) = 1..(Len(ts) + Len(us))
    OBVIOUS
  <2>2. /\ \A i \in 1..Len(ts) : (ts \o us)[i] = ts[i]
        /\ \A i \in 1..(Len(ts) + Len(us)) : i > Len(ts) => (ts \o us)[i] = us[i - Len(ts)]
    OBVIOUS
  <2>3. Listings(ts) \o Listings(us)
        = [i \in 1..(Len(ts) + Len(us)) |->
             IF i <= Len(ts) THEN Listings(ts)[i] ELSE Listings(us)[i - Len(ts)]]
    BY <2>1 DEF Listings
  <2>4. QED
    BY <2>1, <2>2, <2>3 DEF Listings
<1>2. ts \o us \in Seq(Trees)
  OBVIOUS
<1>3. Listings(ts) \in Seq(Seq(Nodes)) /\ Listings(us) \in Seq(Seq(Nodes))
  BY ListingsOf
<1>4. FlattenSeq(Listings(ts) \o Listings(us)) = FlattenSeq(Listings(ts)) \o FlattenSeq(Listings(us))
  BY <1>3, FlattenConcat
<1>5. QED
  BY <1>1, <1>2, <1>4, ListingsOf

LEMMA ForestOne ==
  ASSUME NEW v \in Trees
  PROVE  Forest(<<v>>) = Listing[v]
<1>1. Listings(<<v>>) = <<Listing[v]>>
  BY DEF Listings
<1>2. <<v>> \in Seq(Trees) /\ Listing[v] \in Seq(Nodes)
  BY ListedAreNodes
<1>3. FlattenSeq(<<Listing[v]>>) = Listing[v]
  BY <1>2, FlattenOne
<1>4. QED
  BY <1>1, <1>2, <1>3, ListingsOf

(* To read the first node of a value is to be before its parts. *)
LEMMA ForestFirst ==
  ASSUME NEW v \in Trees, NEW ts \in Seq(Trees)
  PROVE  /\ Forest(<<v>> \o ts) = <<Header(v)>> \o Forest(Parts(v) \o ts)
         /\ Forest(Parts(v) \o ts) \in Seq(Nodes) /\ Header(v) \in Nodes
<1>1. Parts(v) \in Seq(Trees) /\ <<v>> \in Seq(Trees)
  BY PartsLength
<1>2. Forest(<<v>> \o ts) = Listing[v] \o Forest(ts)
  <2>1. Forest(<<v>> \o ts) = Forest(<<v>>) \o Forest(ts)
    BY <1>1, ForestConcat
  <2>2. QED
    BY <2>1, ForestOne
<1>3. Listing[v] = <<Header(v)>> \o Forest(Parts(v))
  BY ListingEquation, Zenon DEF ListingFrom, Forest
<1>4. Forest(Parts(v) \o ts) = Forest(Parts(v)) \o Forest(ts)
  BY <1>1, ForestConcat
<1>5. Forest(Parts(v)) \in Seq(Nodes) /\ Forest(ts) \in Seq(Nodes)
  BY <1>1, ListingsOf
<1>6. <<Header(v)>> \in Seq(Nodes) /\ Header(v) \in Nodes
  BY DEF Nodes
<1>7. (<<Header(v)>> \o Forest(Parts(v))) \o Forest(ts)
      = <<Header(v)>> \o (Forest(Parts(v)) \o Forest(ts))
  BY <1>5, <1>6, Regroup, SMTT(30)
<1>8. Forest(Parts(v) \o ts) \in Seq(Nodes)
  BY <1>4, <1>5
<1>9. QED
  BY <1>2, <1>3, <1>4, <1>6, <1>7, <1>8

LEMMA Advance ==
  ASSUME doc.tape \in Seq(Nodes), idx \in 1..(Len(doc.tape) + 1),
         NEW node, NEW rest \in Seq(Nodes),
         SubSeq(doc.tape, idx, Len(doc.tape)) = <<node>> \o rest
  PROVE  /\ idx <= Len(doc.tape) /\ doc.tape[idx] = node
         /\ SubSeq(doc.tape, idx + 1, Len(doc.tape)) = rest
<1> DEFINE tape == doc.tape
           at   == idx
           read == <<node>> \o rest
<1>1. read # << >> /\ Head(read) = node /\ Tail(read) = rest
  OBVIOUS
<1>2. tape \in Seq(Nodes) /\ at \in 1..(Len(tape) + 1) /\ SubSeq(tape, at, Len(tape)) = read
  OBVIOUS
<1> HIDE DEF tape, at, read
<1>3. Len(tape) \in Nat
  BY <1>2
<1>4. at <= Len(tape)
  <2>1. SUFFICES ASSUME at = Len(tape) + 1 PROVE FALSE
    BY <1>2, <1>3
  <2>2. SubSeq(tape, Len(tape) + 1, Len(tape)) = << >>
    BY <1>2, <1>3, SubSeqEmpty
  <2>3. QED
    BY <2>1, <2>2, <1>1, <1>2
<1>5. at \in 1..Len(tape) /\ Len(tape) \in at..Len(tape)
  BY <1>2, <1>3, <1>4
<1>6. /\ Head(SubSeq(tape, at, Len(tape))) = tape[at]
      /\ Tail(SubSeq(tape, at, Len(tape))) = SubSeq(tape, at + 1, Len(tape))
  BY <1>2, <1>5, HeadTailOfSubSeq
<1>7. at <= Len(tape) /\ tape[at] = node /\ SubSeq(tape, at + 1, Len(tape)) = rest
  BY <1>1, <1>2, <1>4, <1>6
<1>8. QED
  BY <1>7 DEF tape, at

-----------------------------------------------------------------------------
(* What the calls under way, of whatever client, will still read.          *)

Waiting == {"seq", "map", "content"}   \* that may have called for a part

Shape(f) ==
  \/ f.at \in {"value", "key"}
  \/ /\ f.at = "seq" /\ f.len \in Nat
     /\ DOMAIN f = {"at", "len", "items", "built"}
  \/ /\ f.at = "map" /\ f.len \in Nat
     /\ DOMAIN f = {"at", "len", "entries", "v", "key", "built"}
  \/ /\ f.at \in {"enum", "variant", "content"} /\ f.unit \in BOOLEAN
     /\ DOMAIN f = {"at", "unit", "name", "key", "n"}

(* How many values it asks for, if it has or has not called for one of     *)
(* them: a map has its key read first.                                     *)
Demand(f, calling) ==
  IF f.at \in {"value", "key"} THEN 1
  ELSE IF f.at = "seq" THEN f.len
  ELSE IF f.at = "map" THEN IF calling = (f.key = Nothing) THEN 2 * f.len + 1 ELSE 2 * f.len
  ELSE IF f.at = "enum" THEN IF f.unit THEN 0 ELSE 2
  ELSE IF f.at = "variant" THEN IF f.unit THEN 0 ELSE 1
  ELSE 0

Frame(f, calling) ==
  /\ Shape(f)
  /\ IF calling THEN f.at \in Waiting ELSE f.at # "content"

(* The calls s, the innermost of them calling or not, need no more than m  *)
(* values: q[i] is what the i-th and those around it need.                 *)
Levels(s, calling, q) ==
  /\ \E S : s \in Seq(S)
  /\ q \in Seq(Nat) /\ Len(q) = Len(s) + 1
  /\ \A i \in 1..Len(s) :
       /\ Frame(s[i], i > 1 \/ calling)
       /\ q[i] >= q[i + 1] + Demand(s[i], i > 1 \/ calling)

Needs(s, calling, m) == \E q : Levels(s, calling, q) /\ q[1] <= m

LEMMA DemandIsNat ==
  ASSUME NEW f, NEW calling \in BOOLEAN, Shape(f)
  PROVE  Demand(f, calling) \in Nat
BY DEF Shape, Demand

LEMMA NeedsTop ==
  ASSUME NEW s, NEW calling \in BOOLEAN, NEW m \in Nat, Needs(s, calling, m), s # << >>
  PROVE  /\ Frame(Head(s), calling)
         /\ \E k \in Nat : Needs(Tail(s), TRUE, k) /\ k + Demand(Head(s), calling) <= m
<1>1. PICK q : Levels(s, calling, q) /\ q[1] <= m
  BY DEF Needs
<1>2. PICK S : s \in Seq(S)
  BY <1>1 DEF Levels
<1>3. /\ Len(s) \in Nat \ {0} /\ Head(s) = s[1] /\ Tail(s) \in Seq(S)
      /\ Len(Tail(s)) = Len(s) - 1 /\ \A i \in 1..Len(Tail(s)) : Tail(s)[i] = s[i + 1]
  BY <1>2
<1>4. /\ q \in Seq(Nat) /\ Len(q) = Len(s) + 1
      /\ Tail(q) \in Seq(Nat) /\ Len(Tail(q)) = Len(s)
      /\ \A i \in 1..Len(s) : Tail(q)[i] = q[i + 1] /\ q[i] \in Nat /\ q[i + 1] \in Nat
  BY <1>1, <1>3 DEF Levels
<1>5. /\ Frame(s[1], calling) /\ q[1] >= q[2] + Demand(s[1], calling)
  <2>1. 1 \in 1..Len(s) /\ (1 > 1 \/ calling) = calling /\ 1 + 1 = 2
    BY <1>3
  <2>2. Frame(s[1], 1 > 1 \/ calling) /\ q[1] >= q[1 + 1] + Demand(s[1], 1 > 1 \/ calling)
    BY <2>1, <1>1 DEF Levels
  <2>3. QED
    BY <2>1, <2>2
<1>6. Levels(Tail(s), TRUE, Tail(q))
  <2>1. ASSUME NEW i \in 1..Len(Tail(s))
        PROVE  /\ Frame(Tail(s)[i], i > 1 \/ TRUE)
               /\ Tail(q)[i] >= Tail(q)[i + 1] + Demand(Tail(s)[i], i > 1 \/ TRUE)
    <3>1. i + 1 \in 1..Len(s) /\ i \in 1..Len(s) /\ (i + 1 > 1 \/ calling) = (i > 1 \/ TRUE)
      BY <1>3
    <3>2. Frame(s[i + 1], i + 1 > 1 \/ calling)
          /\ q[i + 1] >= q[i + 1 + 1] + Demand(s[i + 1], i + 1 > 1 \/ calling)
      BY <3>1, <1>1 DEF Levels
    <3>3. Tail(q)[i] = q[i + 1] /\ Tail(q)[i + 1] = q[i + 1 + 1] /\ Tail(s)[i] = s[i + 1]
      BY <3>1, <1>3, <1>4
    <3>4. QED
      BY <3>1, <3>2, <3>3
  <2>2. \E T : Tail(s) \in Seq(T)
    BY <1>3
  <2>3. Tail(q) \in Seq(Nat) /\ Len(Tail(q)) = Len(Tail(s)) + 1
    BY <1>3, <1>4
  <2>4. QED
    BY <2>1, <2>2, <2>3, Zenon DEF Levels
<1>7. Tail(q)[1] = q[2] /\ q[2] \in Nat /\ q[1] \in Nat
  BY <1>3, <1>4
<1>8. Demand(s[1], calling) \in Nat
  BY <1>5, DemandIsNat DEF Frame
<1>9. Needs(Tail(s), TRUE, q[2])
  <2>1. Tail(q)[1] <= q[2]
    <3>1. 1 \in 1..Len(s) /\ 1 + 1 = 2
      BY <1>3
    <3>2. QED
      BY <3>1, <1>4
  <2>2. SUFFICES \E p : Levels(Tail(s), TRUE, p) /\ p[1] <= q[2]
    BY Zenon DEF Needs
  <2> WITNESS Tail(q)
  <2>3. QED
    BY <2>1, <1>6
<1>10. q[2] + Demand(Head(s), calling) <= m
  BY <1>1, <1>3, <1>5, <1>7, <1>8
<1>11. \E k \in Nat : Needs(Tail(s), TRUE, k) /\ k + Demand(Head(s), calling) <= m
  BY <1>7, <1>9, <1>10
<1>12. QED
  BY <1>3, <1>5, <1>11

LEMMA NeedsPush ==
  ASSUME NEW below, NEW k \in Nat, Needs(below, TRUE, k),
         NEW f, NEW calling \in BOOLEAN, Frame(f, calling),
         NEW m \in Nat, k + Demand(f, calling) <= m
  PROVE  Needs(<<f>> \o below, calling, m)
<1>1. PICK q : Levels(below, TRUE, q) /\ q[1] <= k
  BY DEF Needs
<1>2. PICK S : below \in Seq(S)
  BY <1>1 DEF Levels
<1> DEFINE s == <<f>> \o below
           p == <<m>> \o q
<1>3. /\ s \in Seq(S \cup {f}) /\ Len(s) = Len(below) + 1 /\ s[1] = f
      /\ \A i \in 1..Len(below) : s[i + 1] = below[i]
  BY <1>2
<1>4. /\ q \in Seq(Nat) /\ Len(q) = Len(below) + 1
      /\ p \in Seq(Nat) /\ Len(p) = Len(s) + 1 /\ p[1] = m
      /\ \A i \in 1..Len(q) : p[i + 1] = q[i] /\ q[i] \in Nat
  BY <1>1, <1>3 DEF Levels
<1>5. Len(below) \in Nat
  BY <1>2
<1>6. Demand(f, calling) \in Nat
  BY DemandIsNat DEF Frame
<1>7. p[2] = q[1] /\ q[1] \in Nat
  BY <1>4, <1>5
<1> HIDE DEF s, p
<1>8. ASSUME NEW i \in 1..Len(s)
      PROVE  /\ Frame(s[i], i > 1 \/ calling)
             /\ p[i] >= p[i + 1] + Demand(s[i], i > 1 \/ calling)
  <2>1. CASE i = 1
    <3>1. (1 > 1 \/ calling) = calling /\ 1 + 1 = 2
      OBVIOUS
    <3>2. m >= p[2] + Demand(f, calling)
      BY <1>1, <1>6, <1>7
    <3>3. QED
      BY <3>1, <3>2, <2>1, <1>3, <1>4
  <2>2. CASE i > 1
    <3>1. PICK j \in 1..Len(below) : i = j + 1
      <4>1. i - 1 \in 1..Len(below) /\ i = (i - 1) + 1
        BY <2>2, <1>3, <1>5
      <4>2. QED
        BY <4>1
    <3>2. (i > 1 \/ calling) = TRUE /\ (j > 1 \/ TRUE) = TRUE
      BY <2>2
    <3>3. Frame(below[j], j > 1 \/ TRUE) /\ q[j] >= q[j + 1] + Demand(below[j], j > 1 \/ TRUE)
      BY <3>1, <1>1 DEF Levels
    <3>4. s[i] = below[j] /\ p[i] = q[j] /\ p[i + 1] = q[j + 1]
      <4>1. j \in 1..Len(q) /\ j + 1 \in 1..Len(q) /\ i + 1 = (j + 1) + 1
        BY <3>1, <1>4, <1>5
      <4>2. QED
        BY <4>1, <3>1, <1>3, <1>4
    <3>5. QED
      BY <3>2, <3>3, <3>4
  <2>3. QED
    BY <2>1, <2>2, <1>3, <1>5
<1>9. Levels(s, calling, p)
  BY <1>3, <1>4, <1>8 DEF Levels
<1>10. p[1] <= m
  BY <1>4
<1>11. QED
  BY <1>9, <1>10 DEF Needs, s

LEMMA NeedsMore ==
  ASSUME NEW s, NEW calling, NEW k \in Nat, NEW m \in Nat, k <= m, Needs(s, calling, k)
  PROVE  Needs(s, calling, m)
<1>1. PICK q : Levels(s, calling, q) /\ q[1] <= k
  BY DEF Needs
<1>2. PICK S : s \in Seq(S)
  BY <1>1 DEF Levels
<1>3. q[1] \in Nat
  <2>1. Len(s) \in Nat /\ q \in Seq(Nat) /\ Len(q) = Len(s) + 1
    BY <1>1, <1>2 DEF Levels
  <2>2. QED
    BY <2>1
<1>4. QED
  BY <1>1, <1>3 DEF Needs

LEMMA NeedsFrames ==
  ASSUME NEW s, NEW calling \in BOOLEAN, NEW m, Needs(s, calling, m)
  PROVE  /\ \E S : s \in Seq(S)
         /\ \A i \in DOMAIN s : s[i].at \in Frames
<1>1. PICK q : Levels(s, calling, q)
  BY DEF Needs
<1>2. PICK S : s \in Seq(S)
  BY <1>1 DEF Levels
<1>3. ASSUME NEW i \in DOMAIN s PROVE s[i].at \in Frames
  <2>1. i \in 1..Len(s)
    BY <1>2
  <2>2. Shape(s[i])
    BY <2>1, <1>1 DEF Levels, Frame
  <2>3. QED
    BY <2>2 DEF Shape, Frames
<1>4. QED
  BY <1>2, <1>3

(* The calls without the innermost one are a stack again. *)
LEMMA StackTop ==
  ASSUME NEW S, NEW s \in Seq(S), s # << >>
  PROVE  s = <<Head(s)>> \o Tail(s) /\ Head(s) = s[1]
OBVIOUS

-----------------------------------------------------------------------------
(* What a visitor is called with fits the node that the cursor was on.     *)

VisitsOf == LeafVisits \cup {"visit_seq", "visit_map", "visit_enum", "visit_some",
                             "visit_newtype_struct"}

Fits(visit, v) ==
  /\ visit \in VisitsOf
  /\ visit \in LeafVisits => v.kind \in LeafKinds
  /\ visit = "visit_seq" => v.kind = "Array"
  /\ visit = "visit_map" => v.kind = "Object"
  /\ visit = "visit_enum" => v.kind = "String" \/ (v.kind = "Object" /\ Len(v.entries) = 1)

LEMMA HeaderKind ==
  ASSUME NEW v \in Trees
  PROVE  /\ Header(v).kind = v.kind /\ Header(v) # Nothing
         /\ v.kind \in LeafKinds \cup {"Array", "Object"}
         /\ v.kind = "Object" => Header(v).len = Len(v.entries)
BY LeafShape, ArrayShape, ObjectShape DEF Header, Nothing, LeafKinds

LEMMA AnyVisitFits ==
  ASSUME NEW v \in Trees
  PROVE  Fits(AnyVisit[Header(v).kind], v)
BY HeaderKind DEF AnyVisit, Fits, VisitsOf, LeafVisits, StrVisits, NumberVisits, IntVisits, LeafKinds

LEMMA TapeDeFits ==
  ASSUME NEW v \in Trees, NEW hint \in Hints,
         TapeDe(hint, Header(v)) \notin {"error", "undefined"}
  PROVE  Fits(TapeDe(hint, Header(v)), v)
<1> DEFINE n == Header(v)
<1>1. /\ n.kind = v.kind /\ n # Nothing /\ v.kind \in LeafKinds \cup {"Array", "Object"}
      /\ v.kind = "Object" => n.len = Len(v.entries)
  BY HeaderKind
<1>2. Fits(AnyVisit[n.kind], v)
  BY AnyVisitFits
<1>3. hint \in KeyHints \cup {"f64", "unit", "seq", "tuple", "map", "struct", "ignored_any"}
  BY DEF Hints
<1> HIDE DEF n
<1> USE DEF LeafVisits, StrVisits, NumberVisits, IntVisits, VisitsOf, LeafKinds
<1>4. CASE hint \in {"any", "bytes", "ignored_any"}
  <2>1. TapeDe(hint, n) = AnyVisit[n.kind]
    BY <1>4, <1>1 DEF TapeDe, Unchecked, IntHints
  <2>2. QED
    BY <2>1, <1>2 DEF n
<1>5. CASE hint \in IntHints
  <2>1. TapeDe(hint, n) = IF n.kind \in {"I64", "U64"} /\ IsInt(hint, n.val) THEN "visit_i64" ELSE "error"
    BY <1>5, <1>1 DEF TapeDe, Unchecked, IntHints
  <2>2. QED
    BY <2>1, <1>1 DEF n, Fits
<1>6. CASE hint \in {"bool", "f64", "str", "string", "unit"}
  BY <1>6, <1>1 DEF TapeDe, Unchecked, IntHints, OneOf, Fits, n
<1>7. CASE hint \in {"option", "newtype_struct"}
  BY <1>7, <1>1 DEF TapeDe, Unchecked, IntHints, OneOf, Fits, n
<1>8. CASE hint \in {"seq", "tuple", "map"}
  BY <1>8, <1>1 DEF TapeDe, Unchecked, IntHints, OneOf, Fits, n
<1>9. CASE hint = "struct"
  <2>1. TapeDe(hint, n) = OneOf({"Array", "Object"}, n, AnyVisit[n.kind])
    BY <1>9, <1>1 DEF TapeDe, Unchecked, IntHints
  <2>2. TapeDe(hint, n) = AnyVisit[n.kind]
    BY <2>1 DEF OneOf, n
  <2>3. QED
    BY <2>2, <1>2 DEF n
<1>10. CASE hint = "enum"
  <2>1. TapeDe(hint, n) = IF n.kind = "String" \/ (n.kind = "Object" /\ n.len = 1)
                            THEN "visit_enum" ELSE "error"
    BY <1>10, <1>1 DEF TapeDe, Unchecked, IntHints
  <2>2. TapeDe(hint, n) = "visit_enum" /\ (n.kind = "String" \/ (n.kind = "Object" /\ n.len = 1))
    BY <2>1 DEF n
  <2>3. v.kind = "String" \/ (v.kind = "Object" /\ Len(v.entries) = 1)
    BY <2>2, <1>1
  <2>4. Fits("visit_enum", v)
    BY <2>3 DEF Fits
  <2>5. QED
    BY <2>2, <2>4 DEF n
<1>11. QED
  BY <1>3, <1>4, <1>5, <1>6, <1>7, <1>8, <1>9, <1>10 DEF KeyHints

LEMMA TapeKeyFits ==
  ASSUME NEW v \in Trees, NEW hint \in KeyHints,
         TapeKey(hint, Header(v)) \notin {"error", "undefined"}
  PROVE  Fits(TapeKey(hint, Header(v)), v)
<1>1. Header(v).kind = v.kind /\ Header(v) # Nothing
  BY HeaderKind
<1>2. CASE hint \in {"enum", "bytes"}
  <2>1. hint \in Hints
    BY <1>2 DEF Hints, KeyHints
  <2>2. TapeKey(hint, Header(v)) = TapeDe(hint, Header(v))
    BY <1>2 DEF TapeKey, IntHints
  <2>3. QED
    BY <2>1, <2>2, TapeDeFits
<1>3. CASE hint \notin {"enum", "bytes"}
  BY <1>1, <1>3 DEF TapeKey, IntHints, OneOf, Fits, LeafVisits, StrVisits, NumberVisits, IntVisits,
                    VisitsOf, LeafKinds
<1>4. QED
  BY <1>2, <1>3

LEMMA AnswerTaken ==
  ASSUME NEW hint, NEW visit, NEW val, Answer(hint, visit, val).step # "error"
  PROVE  visit # "undefined" /\ Takes(hint, visit, val)
BY DEF Answer

LEMMA TakesNoError ==
  ASSUME NEW hint \in Hints, NEW val
  PROVE  ~ Takes(hint, "error", val)
BY DEF Takes, Hints, KeyHints, IntHints, LeafVisits, StrVisits, NumberVisits, IntVisits

(* An answer that is no error is a visit that the client takes. *)
LEMMA AnswerFits ==
  ASSUME NEW v \in Trees, NEW hint \in Hints, NEW val,
         Answer(hint, TapeDe(hint, Header(v)), val).step # "error"
  PROVE  Fits(TapeDe(hint, Header(v)), v) /\ Takes(hint, TapeDe(hint, Header(v)), val)
BY AnswerTaken, TakesNoError, TapeDeFits

LEMMA KeyAnswerFits ==
  ASSUME NEW v \in Trees, NEW hint \in KeyHints, NEW val,
         Answer(hint, TapeKey(hint, Header(v)), val).step # "error"
  PROVE  Fits(TapeKey(hint, Header(v)), v) /\ Takes(hint, TapeKey(hint, Header(v)), val)
<1>1. hint \in Hints
  BY DEF Hints
<1>2. QED
  BY <1>1, AnswerTaken, TakesNoError, TapeKeyFits

LEMMA TakenKind ==
  ASSUME NEW visit \in LeafVisits, NEW val, client \in Clients
  PROVE  /\ Taken(visit, val).kind \in {"Number"} \cup {BorrowedVisited[x] : x \in LeafVisits}
         /\ Taken(visit, val) # Nothing
BY DEF Taken, Leaf, Nothing, LeafVisits, StrVisits, NumberVisits, IntVisits, Clients,
       BorrowedVisited, OwnedVisited

-----------------------------------------------------------------------------
(* Every client: the nodes behind the cursor are whole values, as many at  *)
(* least as the calls under way ask for.                                   *)

ResultKinds == {"Number", "Array", "Object"} \cup {BorrowedVisited[v] : v \in LeafVisits}

Supplied ==
  \E ts \in Seq(Trees) :
    /\ idx \in 1..(Len(doc.tape) + 1)
    /\ SubSeq(doc.tape, idx, Len(doc.tape)) = Forest(ts)
    /\ Needs(stack, ret # Nothing, Len(ts))

Known ==
  /\ doc \in Docs /\ client \in Clients
  /\ "tape" \in live /\ live \subseteq Readers
  /\ phase \in {"running", "done", "failed"}
  /\ ret = Nothing \/ ret.kind \in ResultKinds

DemandInv ==
  /\ Known
  /\ \A i \in DOMAIN stack : stack[i].at \in Frames
  /\ phase # "failed" => idx \in 1..(Len(doc.tape) + 1)
  /\ phase = "running" => Supplied

LEMMA DocShape ==
  ASSUME doc \in Docs
  PROVE  doc.tree \in Trees /\ doc.tape = Listing[doc.tree] /\ doc.tape \in Seq(Nodes)
<1>1. doc.tree \in Trees /\ doc = [tree |-> doc.tree, tape |-> Listing[doc.tree]]
  BY DocsAssumption
<1>2. doc.tape = Listing[doc.tree]
  BY <1>1
<1>3. QED
  BY <1>1, <1>2, ListedAreNodes

LEMMA Settled ==
  ASSUME NEW answers, NEW where, "tape" \in live, live \subseteq Readers,
         Settle(answers, where)
  PROVE  /\ "tape" \in live' /\ live' \subseteq Readers
         /\ phase' = IF answers["tape"].step = "error" THEN "failed" ELSE "running"
BY DEF Settle

(* The state is good again when the stack is supplied. *)
LEMMA DemandAgain ==
  ASSUME Known', Supplied'
  PROVE  DemandInv'
<1>1. PICK ts \in Seq(Trees) : /\ idx' \in 1..(Len(doc'.tape) + 1)
                               /\ Needs(stack', ret' # Nothing, Len(ts))
  BY DEF Supplied
<1>2. \A i \in DOMAIN stack' : stack'[i].at \in Frames
  <2>1. (ret' # Nothing) \in BOOLEAN
    OBVIOUS
  <2>2. QED
    BY <1>1, <2>1, NeedsFrames
<1>3. QED
  BY <1>1, <1>2 DEF DemandInv

(* A call that asks for a value finds one under the cursor. *)
LEMMA ReadOne ==
  ASSUME DemandInv, phase = "running", ret = Nothing, stack # << >>, Demand(Top, FALSE) > 0
  PROVE  \E x \in Trees, us \in Seq(Trees), k \in Nat :
           /\ Node = Header(x) /\ idx <= Len(doc.tape)
           /\ idx + 1 \in 1..(Len(doc.tape) + 1)
           /\ SubSeq(doc.tape, idx + 1, Len(doc.tape)) = Forest(Parts(x) \o us)
           /\ Needs(Tail(stack), TRUE, k) /\ k + Demand(Top, FALSE) <= 1 + Len(us)
           /\ Frame(Top, FALSE)
<1>1. PICK ts \in Seq(Trees) : /\ idx \in 1..(Len(doc.tape) + 1)
                               /\ SubSeq(doc.tape, idx, Len(doc.tape)) = Forest(ts)
                               /\ Needs(stack, FALSE, Len(ts))
  BY DEF DemandInv, Supplied
<1>2. Len(ts) \in Nat
  OBVIOUS
<1>3. PICK k \in Nat : Needs(Tail(stack), TRUE, k) /\ k + Demand(Top, FALSE) <= Len(ts)
  BY <1>1, <1>2, NeedsTop DEF Top
<1>4. Frame(Top, FALSE)
  BY <1>1, <1>2, NeedsTop DEF Top
<1>5. Demand(Top, FALSE) \in Nat
  BY <1>4, DemandIsNat DEF Frame
<1>6. ts # << >>
  <2> DEFINE d == Demand(Top, FALSE)
             l == Len(ts)
  <2>0. d > 0 /\ d \in Nat /\ k + d <= l /\ l \in Nat
    BY <1>2, <1>3, <1>5
  <2> HIDE DEF d, l
  <2>1. l > 0
    BY <2>0
  <2>2. QED
    BY <2>1 DEF l
<1>7. PICK x \in Trees, us \in Seq(Trees) : ts = <<x>> \o us /\ Len(ts) = 1 + Len(us)
  <2>1. Head(ts) \in Trees /\ Tail(ts) \in Seq(Trees) /\ ts = <<Head(ts)>> \o Tail(ts)
        /\ Len(ts) = 1 + Len(Tail(ts))
    BY <1>6
  <2>2. QED
    BY <2>1
<1>8. Forest(ts) = <<Header(x)>> \o Forest(Parts(x) \o us) /\ Forest(Parts(x) \o us) \in Seq(Nodes)
  BY <1>7, ForestFirst
<1>9. doc.tape \in Seq(Nodes)
  BY DocShape DEF DemandInv, Known
<1>10. /\ idx <= Len(doc.tape) /\ doc.tape[idx] = Header(x)
       /\ SubSeq(doc.tape, idx + 1, Len(doc.tape)) = Forest(Parts(x) \o us)
  BY <1>1, <1>8, <1>9, Advance
<1>11. idx + 1 \in 1..(Len(doc.tape) + 1)
  BY <1>1, <1>9, <1>10
<1>12. Node = Header(x)
  BY <1>10 DEF Node
<1>13. k + Demand(Top, FALSE) <= 1 + Len(us)
  BY <1>3, <1>7
<1>14. QED
  BY <1>3, <1>4, <1>10, <1>11, <1>12, <1>13

(* What a visitor is given to go on with asks for the parts of the value.  *)
LEMMA VisitNeeds ==
  ASSUME NEW x \in Trees, NEW us \in Seq(Trees), NEW k \in Nat, NEW below, NEW n, NEW visit,
         Needs(below, TRUE, k), k <= Len(us), client \in Clients, ret = Nothing,
         Fits(visit, x), visit \notin {"visit_some", "visit_newtype_struct"},
         Visit(visit, Header(x), n, below)
  PROVE  /\ Needs(stack', ret' # Nothing, Len(Parts(x) \o us))
         /\ ret' = Nothing \/ ret'.kind \in ResultKinds
<1>1. /\ Parts(x) \in Seq(Trees)
      /\ x.kind = "Array" => Len(Parts(x)) = Header(x).len
      /\ x.kind = "Object" => Len(Parts(x)) = 2 * Header(x).len
  BY PartsLength
<1> DEFINE m == Len(Parts(x) \o us)
           p == Len(Parts(x))
<1>2. m \in Nat /\ p \in Nat /\ k + p <= m /\ k + 0 <= m
  BY <1>1
<1>0. /\ x.kind = "Array" => p = Header(x).len
      /\ x.kind = "Object" => p = 2 * Header(x).len
  BY <1>1
<1> HIDE DEF m, p
<1>3. CASE visit \in LeafVisits
  <2>1. ret' = Taken(visit, Val(Header(x))) /\ stack' = below
    BY <1>3 DEF Visit, LeafVisits, StrVisits, NumberVisits, IntVisits
  <2>2. ret'.kind \in ResultKinds /\ ret' # Nothing
    BY <1>3, <2>1, TakenKind DEF ResultKinds
  <2>3. Needs(below, TRUE, m)
    <3>1. k <= m
      BY <1>2
    <3>2. QED
      BY <3>1, <1>2, NeedsMore
  <2>4. QED
    BY <2>1, <2>2, <2>3 DEF m
<1>4. CASE visit = "visit_seq"
  <2> DEFINE f == SeqFrame(Header(x).len, n)
  <2>1. x.kind = "Array" /\ Header(x).len = p
    BY <1>0, <1>4 DEF Fits
  <2>2. stack' = <<f>> \o below /\ ret' = Nothing
    BY <1>4 DEF Visit, LeafVisits, StrVisits, NumberVisits, IntVisits
  <2>3. f.at = "seq" /\ f.len = p /\ Shape(f)
    BY <1>2, <2>1 DEF SeqFrame, Shape
  <2>4. Frame(f, FALSE) /\ Demand(f, FALSE) = p
    BY <2>3 DEF Frame, Demand
  <2> HIDE DEF f
  <2>5. k + Demand(f, FALSE) <= m
    BY <2>4, <1>2
  <2>6. Needs(<<f>> \o below, FALSE, m)
    BY <1>2, <2>4, <2>5, NeedsPush
  <2>7. QED
    BY <2>2, <2>6 DEF m
<1>5. CASE visit = "visit_map"
  <2> DEFINE f == MapFrame(Header(x).len, n)
  <2>1. x.kind = "Object" /\ 2 * Header(x).len = p /\ Header(x).len \in Nat
    BY <1>0, <1>5, ObjectShape DEF Fits
  <2>2. stack' = <<f>> \o below /\ ret' = Nothing
    BY <1>5 DEF Visit, LeafVisits, StrVisits, NumberVisits, IntVisits
  <2>3. f.at = "map" /\ f.len = Header(x).len /\ f.key = Nothing /\ Shape(f)
    BY <1>2, <2>1 DEF MapFrame, Shape
  <2>4. Frame(f, FALSE) /\ Demand(f, FALSE) = p
    BY <2>1, <2>3 DEF Frame, Demand
  <2> HIDE DEF f
  <2>5. k + Demand(f, FALSE) <= m
    BY <2>4, <1>2
  <2>6. Needs(<<f>> \o below, FALSE, m)
    BY <1>2, <2>4, <2>5, NeedsPush
  <2>7. QED
    BY <2>2, <2>6 DEF m
<1>6. CASE visit = "visit_enum"
  <2> DEFINE f == EnumFrame(Header(x), n)
  <2>1. /\ x.kind = "String" \/ (x.kind = "Object" /\ Header(x).len = 1)
        /\ Header(x).kind = x.kind
    BY <1>6, HeaderKind DEF Fits
  <2>2. stack' = <<f>> \o below /\ ret' = Nothing
    BY <1>6 DEF Visit, LeafVisits, StrVisits, NumberVisits, IntVisits
  <2>3. f.at = "enum" /\ f.unit = (x.kind = "String") /\ Shape(f)
    BY <2>1 DEF EnumFrame, Shape
  <2> HIDE DEF f
  <2>4. Frame(f, FALSE)
    BY <2>3 DEF Frame
  <2>5. k + Demand(f, FALSE) <= m
    <3>1. CASE x.kind = "String"
      <4>1. f.unit
        BY <2>3, <3>1
      <4>2. Demand(f, FALSE) = 0
        BY <2>3, <4>1 DEF Demand
      <4>3. QED
        BY <4>2, <1>2
    <3>2. CASE x.kind = "Object" /\ Header(x).len = 1
      <4>1. ~ f.unit
        BY <2>3, <3>2
      <4>2. Demand(f, FALSE) = 2 /\ p = 2
        BY <2>3, <3>2, <4>1, <1>0 DEF Demand
      <4>3. QED
        BY <4>2, <1>2
    <3>3. QED
      BY <2>1, <3>1, <3>2
  <2>6. Needs(<<f>> \o below, FALSE, m)
    BY <1>2, <2>4, <2>5, NeedsPush
  <2>7. QED
    BY <2>2, <2>6 DEF m
<1>7. QED
  BY <1>3, <1>4, <1>5, <1>6 DEF Fits, VisitsOf

(* A call that fails leaves everything but the readers as it was. *)
LEMMA DemandFailed ==
  ASSUME DemandInv, NEW answers, NEW where, Settle(answers, where),
         answers["tape"].step = "error", UNCHANGED <<doc, client, ret>>,
         \A i \in DOMAIN stack' : stack'[i].at \in Frames
  PROVE  DemandInv'
<1>1. "tape" \in live' /\ live' \subseteq Readers /\ phase' = "failed"
  BY Settled DEF DemandInv, Known
<1>2. QED
  BY <1>1 DEF DemandInv, Known

LEMMA InitDemand == Init => DemandInv
<1> SUFFICES ASSUME Init PROVE DemandInv
  OBVIOUS
<1>1. doc.tree \in Trees /\ doc.tape = Listing[doc.tree] /\ doc.tape \in Seq(Nodes)
  BY DocShape DEF Init
<1>2. Known
  BY DEF Init, Known, Readers
<1> DEFINE f == ValueFrame(doc.tree)
<1>3. stack = <<f>> /\ stack = <<f>> \o << >> /\ f.at = "value"
  BY DEF Init, ValueFrame
<1>4. Frame(f, FALSE) /\ Demand(f, FALSE) = 1
  BY DEF ValueFrame, Frame, Shape, Demand
<1>5. Needs(<< >>, TRUE, 0)
  <2> DEFINE s == << >>
             q == <<0>>
  <2>1. Levels(s, TRUE, q)
    <3>1. s \in Seq({}) /\ q \in Seq(Nat) /\ Len(q) = 1 /\ Len(s) = 0
      OBVIOUS
    <3> HIDE DEF s, q
    <3>2. \A i \in 1..Len(s) : FALSE
      BY <3>1
    <3>3. \E S : s \in Seq(S)
      BY <3>1
    <3>4. QED
      BY <3>1, <3>2, <3>3 DEF Levels
  <2>2. <<0>>[1] <= 0
    OBVIOUS
  <2>3. QED
    BY <2>1, <2>2 DEF Needs
<1> HIDE DEF f
<1>6. Needs(stack, FALSE, 1)
  <2>0. \A d : d = 1 => 0 + d <= 1
    OBVIOUS
  <2>1. 0 + Demand(f, FALSE) <= 1
    BY <1>4, <2>0
  <2>2. QED
    BY <2>1, <1>3, <1>4, <1>5, NeedsPush
<1>7. SubSeq(doc.tape, idx, Len(doc.tape)) = Forest(<<doc.tree>>)
  BY <1>1, ForestOne, SubSeqFull DEF Init
<1>8. <<doc.tree>> \in Seq(Trees) /\ Len(<<doc.tree>>) = 1 /\ idx \in 1..(Len(doc.tape) + 1)
  BY <1>1 DEF Init
<1>9. ret = Nothing
  BY DEF Init
<1>10. Supplied
  BY <1>6, <1>7, <1>8, <1>9 DEF Supplied
<1>11. \A i \in DOMAIN stack : stack[i].at \in Frames
  BY <1>3 DEF Frames
<1>12. QED
  BY <1>2, <1>8, <1>10, <1>11 DEF DemandInv

(* A call that the client goes on with, on a value or a key. *)
LEMMA DemandRead ==
  ASSUME DemandInv, phase = "running", ret = Nothing, stack # << >>, Top.at \in {"value", "key"},
         NEW answers, NEW where, Settle(answers, where), answers["tape"].step # "error",
         NEW n, NEW visit, \A x \in Trees : Node = Header(x) => Fits(visit, x),
         idx' = idx + Consumed(visit), Visit(visit, Node, n, Tail(stack)),
         UNCHANGED <<doc, client>>
  PROVE  DemandInv'
<1>1. "tape" \in live' /\ live' \subseteq Readers /\ phase' = "running"
  BY Settled DEF DemandInv, Known
<1>2. Demand(Top, FALSE) = 1 /\ Demand(Top, FALSE) > 0
  BY DEF Demand
<1>3. PICK x \in Trees, us \in Seq(Trees), k \in Nat :
        /\ Node = Header(x) /\ idx <= Len(doc.tape)
        /\ idx + 1 \in 1..(Len(doc.tape) + 1)
        /\ SubSeq(doc.tape, idx + 1, Len(doc.tape)) = Forest(Parts(x) \o us)
        /\ Needs(Tail(stack), TRUE, k) /\ k + Demand(Top, FALSE) <= 1 + Len(us)
  BY <1>2, ReadOne
<1>4. Fits(visit, x)
  BY <1>3
<1>5. CASE visit \in {"visit_some", "visit_newtype_struct"}
  <2>1. idx' = idx + 0 /\ UNCHANGED <<stack, ret>>
    BY <1>5 DEF Consumed, Visit, LeafVisits, StrVisits, NumberVisits, IntVisits
  <2>2. idx' = idx
    BY <2>1 DEF DemandInv
  <2>3. Supplied' /\ Known'
    BY <2>1, <2>2, <1>1 DEF DemandInv, Supplied, Known
  <2>4. QED
    BY <2>3, DemandAgain
<1>6. CASE visit \notin {"visit_some", "visit_newtype_struct"}
  <2>1. idx' = idx + 1
    BY <1>6 DEF Consumed
  <2>2. k <= Len(us) /\ client \in Clients
    <3> DEFINE l == Len(us)
    <3>0. l \in Nat
      OBVIOUS
    <3>1. k + Demand(Top, FALSE) <= 1 + l
      BY <1>3
    <3> HIDE DEF l
    <3>2. k + 1 <= 1 + l
      BY <3>1, <1>2
    <3>3. k <= l
      BY <3>0, <3>2
    <3>4. QED
      BY <3>3 DEF DemandInv, Known, l
  <2>3. /\ Needs(stack', ret' # Nothing, Len(Parts(x) \o us))
        /\ ret' = Nothing \/ ret'.kind \in ResultKinds
    BY <1>3, <1>4, <1>6, <2>2, VisitNeeds
  <2>4. Parts(x) \o us \in Seq(Trees)
    BY PartsLength
  <2>5. Supplied'
    BY <2>1, <2>3, <2>4, <1>3 DEF Supplied
  <2>6. Known'
    BY <2>3, <1>1 DEF DemandInv, Known
  <2>7. QED
    BY <2>5, <2>6, DemandAgain
<1>7. QED
  BY <1>5, <1>6

LEMMA CalledOn ==
  ASSUME DemandInv, NEW at, Calls(at)
  PROVE  /\ phase = "running" /\ ret = Nothing /\ stack # << >> /\ Top.at = at
         /\ "tape" \in live /\ live \subseteq Readers
         /\ \A i \in DOMAIN stack : stack[i].at \in Frames
BY DEF Calls, DemandInv, Known

LEMMA DemandValue ==
  ASSUME DemandInv, NEW hint \in Hints, DeserializeValue(hint)
  PROVE  DemandInv'
<1> DEFINE visit == TapeDe(hint, Node)
           n == Top.n
           answers == [r \in live |->
                         IF r = "tape" THEN Answer(hint, visit, Val(Node))
                         ELSE Answer(hint, DomDe(r, hint, n), Val(n))]
           where == [at |-> "value", hint |-> hint, n |-> n]
<1>1. /\ Calls("value") /\ Settle(answers, where) /\ idx' = idx + Consumed(visit)
      /\ IF answers["tape"].step = "error" THEN UNCHANGED <<stack, ret>>
         ELSE Visit(visit, Node, n, Tail(stack))
      /\ UNCHANGED <<doc, client>>
  BY Zenon DEF DeserializeValue
<1>2. /\ phase = "running" /\ ret = Nothing /\ stack # << >> /\ Top.at = "value"
      /\ "tape" \in live /\ \A i \in DOMAIN stack : stack[i].at \in Frames
  BY <1>1, CalledOn
<1>3. answers["tape"] = Answer(hint, visit, Val(Node))
  BY <1>2
<1>4. CASE answers["tape"].step = "error"
  BY <1>1, <1>2, <1>4, DemandFailed
<1>5. CASE answers["tape"].step # "error"
  <2>1. \A x \in Trees : Node = Header(x) => Fits(visit, x)
    BY <1>3, <1>5, AnswerFits
  <2> HIDE DEF answers, where, n, visit
  <2>2. QED
    BY <1>1, <1>2, <1>5, <2>1, DemandRead
<1>6. QED
  BY <1>4, <1>5

LEMMA DemandKey ==
  ASSUME DemandInv, NEW hint \in KeyHints, DeserializeKey(hint)
  PROVE  DemandInv'
<1> DEFINE visit == TapeKey(hint, Node)
           n == Top.n
           answers == [r \in live |->
                         IF r = "tape" THEN Answer(hint, visit, Val(Node))
                         ELSE Answer(hint, DomKey(r, hint, n), Val(n))]
           where == [at |-> "key", hint |-> hint, n |-> n]
<1>1. /\ Calls("key") /\ Settle(answers, where) /\ idx' = idx + Consumed(visit)
      /\ IF answers["tape"].step = "error" THEN UNCHANGED <<stack, ret>>
         ELSE Visit(visit, Node, n, Tail(stack))
      /\ UNCHANGED <<doc, client>>
  BY Zenon DEF DeserializeKey
<1>2. /\ phase = "running" /\ ret = Nothing /\ stack # << >> /\ Top.at = "key"
      /\ "tape" \in live /\ \A i \in DOMAIN stack : stack[i].at \in Frames
  BY <1>1, CalledOn
<1>3. answers["tape"] = Answer(hint, visit, Val(Node))
  BY <1>2
<1>4. CASE answers["tape"].step = "error"
  BY <1>1, <1>2, <1>4, DemandFailed
<1>5. CASE answers["tape"].step # "error"
  <2>1. \A x \in Trees : Node = Header(x) => Fits(visit, x)
    BY <1>3, <1>5, KeyAnswerFits
  <2> HIDE DEF answers, where, n, visit
  <2>2. QED
    BY <1>1, <1>2, <1>5, <2>1, DemandRead
<1>6. QED
  BY <1>4, <1>5

(* The calls of an access: the cursor stays, and what the frames on top of *)
(* the stack need is what the old ones needed.                             *)
LEMMA DemandMoved ==
  ASSUME DemandInv, phase = "running", Known',
         UNCHANGED <<doc, idx>>,
         \A m \in Nat : Needs(stack, ret # Nothing, m) => Needs(stack', ret' # Nothing, m)
  PROVE  DemandInv'
<1>1. PICK ts \in Seq(Trees) : /\ idx \in 1..(Len(doc.tape) + 1)
                               /\ SubSeq(doc.tape, idx, Len(doc.tape)) = Forest(ts)
                               /\ Needs(stack, ret # Nothing, Len(ts))
  BY DEF DemandInv, Supplied
<1>2. Len(ts) \in Nat
  OBVIOUS
<1>3. Needs(stack', ret' # Nothing, Len(ts))
  BY <1>1, <1>2
<1>4. Supplied'
  BY <1>1, <1>3 DEF Supplied
<1>5. QED
  BY <1>4, DemandAgain

(* A call returns: its caller is no longer calling. *)
LEMMA NeedsDrop ==
  ASSUME NEW s, NEW calling \in BOOLEAN, NEW m \in Nat, Needs(s, calling, m), s # << >>
  PROVE  Needs(Tail(s), TRUE, m)
<1>1. PICK k \in Nat : Needs(Tail(s), TRUE, k) /\ k + Demand(Head(s), calling) <= m
  BY NeedsTop
<1>2. Demand(Head(s), calling) \in Nat
  BY NeedsTop, DemandIsNat DEF Frame
<1>3. \A d \in Nat : k + d <= m => k <= m
  OBVIOUS
<1>4. k <= m
  BY <1>1, <1>2, <1>3
<1>5. QED
  BY <1>1, <1>4, NeedsMore

LEMMA PairJoined == \A f, g : <<g>> \o <<f>> = <<g, f>>
<1> TAKE f, g
<1> DEFINE a == <<g>> \o <<f>>
           b == <<g, f>>
<1>1. a \in Seq({f, g}) /\ Len(a) = 2 /\ a[1] = g /\ a[2] = f
  OBVIOUS
<1>2. b \in Seq({f, g}) /\ Len(b) = 2 /\ b[1] = g /\ b[2] = f
  OBVIOUS
<1> HIDE DEF a, b
<1>3. \A i \in 1..2 : a[i] = b[i]
  BY <1>1, <1>2
<1>4. a = b
  BY <1>1, <1>2, <1>3, SeqEqual
<1>5. QED
  BY <1>4 DEF a, b

LEMMA TwoOnTop ==
  ASSUME NEW S, NEW below \in Seq(S), NEW f, NEW g
  PROVE  <<g>> \o (<<f>> \o below) = <<g, f>> \o below
<1>1. <<f>> \in Seq({f, g}) /\ <<g>> \in Seq({f, g}) /\ <<g, f>> \in Seq({f, g} \cup S)
  OBVIOUS
<1>2. <<f>> \in Seq({f, g} \cup S) /\ <<g>> \in Seq({f, g} \cup S) /\ below \in Seq({f, g} \cup S)
  BY <1>1
<1>3. (<<g>> \o <<f>>) \o below = <<g>> \o (<<f>> \o below)
  BY <1>2, Regroup, SMTT(30)
<1>4. <<g>> \o <<f>> = <<g, f>>
  BY PairJoined
<1>5. QED
  BY <1>3, <1>4

(* A call f makes a call g. *)
LEMMA NeedsCall ==
  ASSUME NEW s, NEW m \in Nat, Needs(s, FALSE, m), s # << >>, NEW f, NEW g,
         Frame(f, TRUE), Frame(g, FALSE), NEW d \in Nat, NEW e \in Nat,
         Demand(f, TRUE) = d, Demand(g, FALSE) = e, Demand(Head(s), FALSE) >= d + e
  PROVE  Needs(<<g, f>> \o Tail(s), FALSE, m)
<1>1. PICK k \in Nat : Needs(Tail(s), TRUE, k) /\ k + Demand(Head(s), FALSE) <= m
  BY NeedsTop
<1>2. PICK S : s \in Seq(S)
  BY NeedsFrames
<1>3. Demand(Head(s), FALSE) \in Nat
  BY NeedsTop, DemandIsNat DEF Frame
<1>4. k + d \in Nat /\ (k + d) + e <= m
  <2>1. \A c \in Nat : k + c <= m /\ c >= d + e => k + d \in Nat /\ (k + d) + e <= m
    OBVIOUS
  <2>2. \E c \in Nat : k + c <= m /\ c >= d + e
    BY <1>1, <1>3, Zenon
  <2>3. QED
    BY <2>1, <2>2, Zenon
<1>5. Needs(<<f>> \o Tail(s), TRUE, k + d)
  <2>1. \A x : x = d => k + x <= k + d
    OBVIOUS
  <2>2. k + Demand(f, TRUE) <= k + d
    BY <2>1, Zenon
  <2>3. QED
    BY <2>2, <1>1, <1>4, NeedsPush
<1>6. Needs(<<g>> \o (<<f>> \o Tail(s)), FALSE, m)
  <2>1. (k + d) + Demand(g, FALSE) <= m
    BY <1>4, Zenon
  <2>2. QED
    BY <2>1, <1>4, <1>5, NeedsPush
<1>7. <<g>> \o (<<f>> \o Tail(s)) = <<g, f>> \o Tail(s)
  <2>1. Tail(s) \in Seq(S)
    BY <1>2
  <2>2. QED
    BY <2>1, TwoOnTop
<1>8. QED
  BY <1>6, <1>7

(* A call becomes another one, f, that needs the same. *)
LEMMA NeedsChange ==
  ASSUME NEW s, NEW was \in BOOLEAN, NEW calling \in BOOLEAN, NEW m \in Nat,
         Needs(s, was, m), s # << >>, NEW f,
         Frame(f, calling), Demand(f, calling) = Demand(Head(s), was)
  PROVE  Needs(<<f>> \o Tail(s), calling, m)
<1>1. PICK k \in Nat : Needs(Tail(s), TRUE, k) /\ k + Demand(Head(s), was) <= m
  BY NeedsTop
<1>2. k + Demand(f, calling) <= m
  BY <1>1, Zenon
<1>3. QED
  BY <1>1, <1>2, NeedsPush

LEMMA TopFrame ==
  ASSUME DemandInv, phase = "running", stack # << >>
  PROVE  Frame(Top, ret # Nothing) /\ Top = Head(stack)
<1>1. PICK ts \in Seq(Trees) : Needs(stack, ret # Nothing, Len(ts))
  BY DEF DemandInv, Supplied
<1>2. Len(ts) \in Nat /\ (ret # Nothing) \in BOOLEAN
  OBVIOUS
<1>3. QED
  BY <1>1, <1>2, NeedsTop DEF Top

LEMMA SettledOnAccess ==
  ASSUME DemandInv, NEW len, NEW items, NEW where, Settle(NextAnswers(len, items), where)
  PROVE  "tape" \in live' /\ live' \subseteq Readers /\ phase' = "running"
<1>1. "tape" \in live /\ live \subseteq Readers
  BY DEF DemandInv, Known
<1>2. NextAnswers(len, items)["tape"].step # "error"
  BY <1>1 DEF NextAnswers
<1>3. QED
  BY <1>1, <1>2, Settled

LEMMA DemandNextElement ==
  ASSUME DemandInv, NextElement
  PROVE  DemandInv'
<1>1. /\ phase = "running" /\ ret = Nothing /\ stack # << >> /\ Top.at = "seq"
      /\ UNCHANGED <<doc, client, idx>>
  BY CalledOn DEF NextElement
<1>2. "tape" \in live' /\ live' \subseteq Readers /\ phase' = "running"
  BY SettledOnAccess DEF NextElement
<1>3. Frame(Top, FALSE) /\ Top = Head(stack)
  BY <1>1, TopFrame
<1>4. /\ Top.len \in Nat /\ Demand(Top, FALSE) = Top.len
      /\ DOMAIN Top = {"at", "len", "items", "built"}
  BY <1>1, <1>3 DEF Frame, Shape, Demand
<1>5. CASE Top.len = 0
  <2>1. ret' = ArrayOf(Top.built) /\ stack' = Tail(stack)
    BY <1>5 DEF NextElement
  <2>2. ret'.kind = "Array"
    BY <2>1 DEF ArrayOf
  <2>3. ret'.kind \in ResultKinds /\ ret' # Nothing
    BY <2>2 DEF ResultKinds, Nothing
  <2>4. Known'
    BY <1>1, <1>2, <2>3 DEF DemandInv, Known
  <2>5. ASSUME NEW m \in Nat, Needs(stack, ret # Nothing, m)
        PROVE  Needs(stack', ret' # Nothing, m)
    BY <1>1, <2>1, <2>3, <2>5, NeedsDrop
  <2>6. QED
    BY <1>1, <2>4, <2>5, DemandMoved
<1>6. CASE Top.len # 0
  <2> DEFINE g == ValueFrame(First(Top.items))
             f == [Top EXCEPT !.len = @ - 1, !.items = Rest(@)]
  <2>1. stack' = <<g, f>> \o Tail(stack) /\ ret' = ret
    BY <1>6 DEF NextElement
  <2>2. Frame(g, FALSE) /\ Demand(g, FALSE) = 1
    BY DEF ValueFrame, Frame, Shape, Demand
  <2>3. DOMAIN f = DOMAIN Top /\ f.at = "seq" /\ f.len = Top.len - 1
    BY <1>1, <1>4
  <2> HIDE DEF f, g
  <2>4. Frame(f, TRUE) /\ Demand(f, TRUE) = Top.len - 1
    <3>1. Top.len - 1 \in Nat
      BY <1>4, <1>6
    <3>2. Shape(f)
      BY <2>3, <3>1, <1>4 DEF Shape
    <3>3. QED
      BY <2>3, <3>2 DEF Frame, Demand, Waiting
  <2>5. Known'
    BY <1>1, <1>2, <2>1 DEF DemandInv, Known
  <2>6. ASSUME NEW m \in Nat, Needs(stack, ret # Nothing, m)
        PROVE  Needs(stack', ret' # Nothing, m)
    <3>1. Top.len - 1 \in Nat /\ Top.len >= (Top.len - 1) + 1
      BY <1>4, <1>6
    <3>2. Demand(Head(stack), FALSE) >= (Top.len - 1) + 1
      BY <3>1, <1>3, <1>4, Zenon
    <3>3. Needs(stack, FALSE, m)
      BY <1>1, <2>6
    <3>4. Needs(<<g, f>> \o Tail(stack), FALSE, m)
      BY <1>1, <2>2, <2>4, <3>1, <3>2, <3>3, NeedsCall
    <3>5. QED
      BY <1>1, <2>1, <3>4
  <2>7. QED
    BY <1>1, <2>5, <2>6, DemandMoved
<1>7. QED
  BY <1>5, <1>6

LEMMA DemandNextKey ==
  ASSUME DemandInv, NextKey
  PROVE  DemandInv'
<1>1. /\ phase = "running" /\ ret = Nothing /\ stack # << >> /\ Top.at = "map"
      /\ Top.key = Nothing /\ UNCHANGED <<doc, client, idx>>
  BY CalledOn DEF NextKey
<1>2. "tape" \in live' /\ live' \subseteq Readers /\ phase' = "running"
  BY SettledOnAccess DEF NextKey
<1>3. Frame(Top, FALSE) /\ Top = Head(stack)
  BY <1>1, TopFrame
<1>4. /\ Top.len \in Nat /\ Demand(Top, FALSE) = 2 * Top.len
      /\ DOMAIN Top = {"at", "len", "entries", "v", "key", "built"}
  BY <1>1, <1>3 DEF Frame, Shape, Demand
<1>5. CASE Top.len = 0
  <2>1. ret' = ObjectOf(Top.built) /\ stack' = Tail(stack)
    BY <1>5 DEF NextKey
  <2>2. ret'.kind = "Object"
    BY <2>1 DEF ObjectOf
  <2>3. ret'.kind \in ResultKinds /\ ret' # Nothing
    BY <2>2 DEF ResultKinds, Nothing
  <2>4. Known'
    BY <1>1, <1>2, <2>3 DEF DemandInv, Known
  <2>5. ASSUME NEW m \in Nat, Needs(stack, ret # Nothing, m)
        PROVE  Needs(stack', ret' # Nothing, m)
    BY <1>1, <2>1, <2>3, <2>5, NeedsDrop
  <2>6. QED
    BY <1>1, <2>4, <2>5, DemandMoved
<1>6. CASE Top.len # 0
  <2> DEFINE e == First(Top.entries)
             g == KeyFrame(e)
             f == [Top EXCEPT !.len = @ - 1, !.entries = Rest(@), !.v = ValueOf(e)]
             d == 2 * (Top.len - 1) + 1
  <2>1. stack' = <<g, f>> \o Tail(stack) /\ ret' = ret
    BY <1>6 DEF NextKey
  <2>2. Frame(g, FALSE) /\ Demand(g, FALSE) = 1
    BY DEF KeyFrame, Frame, Shape, Demand
  <2> HIDE DEF e
  <2>3. DOMAIN f = DOMAIN Top /\ f.at = "map" /\ f.len = Top.len - 1 /\ f.key = Nothing
    BY <1>1, <1>4
  <2>4. Top.len - 1 \in Nat /\ d \in Nat /\ 2 * Top.len >= d + 1
    BY <1>4, <1>6
  <2> HIDE DEF f, g
  <2>5. Frame(f, TRUE) /\ Demand(f, TRUE) = d
    <3>1. Shape(f)
      BY <2>3, <2>4, <1>4 DEF Shape
    <3>2. QED
      BY <2>3, <3>1 DEF Frame, Demand, Waiting
  <2> HIDE DEF d
  <2>6. Known'
    BY <1>1, <1>2, <2>1 DEF DemandInv, Known
  <2>7. ASSUME NEW m \in Nat, Needs(stack, ret # Nothing, m)
        PROVE  Needs(stack', ret' # Nothing, m)
    <3>1. Demand(Head(stack), FALSE) >= d + 1
      BY <2>4, <1>3, <1>4, Zenon
    <3>2. Needs(stack, FALSE, m)
      BY <1>1, <2>7
    <3>3. Needs(<<g, f>> \o Tail(stack), FALSE, m)
      BY <1>1, <2>2, <2>4, <2>5, <3>1, <3>2, NeedsCall
    <3>4. QED
      BY <1>1, <2>1, <3>3
  <2>8. QED
    BY <1>1, <2>6, <2>7, DemandMoved
<1>7. QED
  BY <1>5, <1>6

LEMMA DemandNextValue ==
  ASSUME DemandInv, NextValue
  PROVE  DemandInv'
<1>1. /\ phase = "running" /\ ret = Nothing /\ stack # << >> /\ Top.at = "map"
      /\ Top.key # Nothing /\ UNCHANGED <<doc, client, idx, ret, live, phase>>
  BY CalledOn DEF NextValue
<1>2. Frame(Top, FALSE) /\ Top = Head(stack)
  BY <1>1, TopFrame
<1>3. /\ Top.len \in Nat /\ Demand(Top, FALSE) = 2 * Top.len + 1
      /\ DOMAIN Top = {"at", "len", "entries", "v", "key", "built"}
  BY <1>1, <1>2 DEF Frame, Shape, Demand
<1> DEFINE g == ValueFrame(Top.v)
           f == [Top EXCEPT !.v = Nothing]
           d == 2 * Top.len
<1>4. stack' = <<g, f>> \o Tail(stack)
  BY DEF NextValue
<1>5. Frame(g, FALSE) /\ Demand(g, FALSE) = 1
  BY DEF ValueFrame, Frame, Shape, Demand
<1>6. DOMAIN f = DOMAIN Top /\ f.at = "map" /\ f.len = Top.len /\ f.key # Nothing
  BY <1>1, <1>3
<1>7. d \in Nat /\ 2 * Top.len + 1 >= d + 1
  BY <1>3
<1> HIDE DEF f, g
<1>8. Frame(f, TRUE) /\ Demand(f, TRUE) = d
  <2>1. Shape(f)
    BY <1>3, <1>6 DEF Shape
  <2>2. QED
    BY <1>6, <2>1 DEF Frame, Demand, Waiting
<1> HIDE DEF d
<1>9. Known'
  BY <1>1 DEF DemandInv, Known
<1>10. ASSUME NEW m \in Nat, Needs(stack, ret # Nothing, m)
      PROVE  Needs(stack', ret' # Nothing, m)
  <2>1. Demand(Head(stack), FALSE) >= d + 1
    BY <1>2, <1>3, <1>7, Zenon
  <2>2. Needs(stack, FALSE, m)
    BY <1>1, <1>10
  <2>3. Needs(<<g, f>> \o Tail(stack), FALSE, m)
    BY <1>1, <1>5, <1>7, <1>8, <2>1, <2>2, NeedsCall
  <2>4. QED
    BY <1>1, <1>4, <2>3
<1>11. QED
  BY <1>1, <1>9, <1>10, DemandMoved

LEMMA DemandStop ==
  ASSUME DemandInv, Stop
  PROVE  DemandInv'
<1>1. /\ phase = "running" /\ ret = Nothing /\ stack # << >>
      /\ UNCHANGED <<doc, client, idx, live, phase>> /\ stack' = Tail(stack)
  BY CalledOn DEF Stop
<1>2. ret' = ArrayOf(Top.built) \/ ret' = ObjectOf(Top.built)
  BY DEF Stop
<1>3. ret'.kind \in {"Array", "Object"}
  BY <1>2 DEF ArrayOf, ObjectOf
<1>4. ret'.kind \in ResultKinds /\ ret' # Nothing
  BY <1>3 DEF ResultKinds, Nothing
<1>5. Known'
  BY <1>1, <1>4 DEF DemandInv, Known
<1>6. ASSUME NEW m \in Nat, Needs(stack, ret # Nothing, m)
      PROVE  Needs(stack', ret' # Nothing, m)
  BY <1>1, <1>4, <1>6, NeedsDrop
<1>7. QED
  BY <1>1, <1>5, <1>6, DemandMoved

LEMMA DemandVariantSeed ==
  ASSUME DemandInv, VariantSeed
  PROVE  DemandInv'
<1>1. /\ phase = "running" /\ ret = Nothing /\ stack # << >> /\ Top.at = "enum"
      /\ UNCHANGED <<doc, client, ret>>
  BY CalledOn DEF VariantSeed
<1>2. "tape" \in live' /\ live' \subseteq Readers /\ phase' \in {"running", "failed"}
  <2>1. \E answers, where : Settle(answers, where)
    BY Zenon DEF VariantSeed
  <2>2. QED
    BY <2>1, Settled DEF DemandInv, Known
<1>3. Known'
  BY <1>1, <1>2 DEF DemandInv, Known
<1>4. Frame(Top, FALSE) /\ Top = Head(stack)
  BY <1>1, TopFrame
<1>5. Top.unit \in BOOLEAN /\ DOMAIN Top = {"at", "unit", "name", "key", "n"}
  BY <1>1, <1>4 DEF Frame, Shape
<1> DEFINE t == IF Top.unit THEN Top.name ELSE Node
           f == [Top EXCEPT !.at = "variant", !.name = t]
<1>6. stack' = <<f>> \o Tail(stack) /\ idx' = IF Top.unit THEN idx ELSE idx + 1
  BY DEF VariantSeed
<1> HIDE DEF t
<1>7. DOMAIN f = DOMAIN Top /\ f.at = "variant" /\ f.unit = Top.unit
  BY <1>5
<1> HIDE DEF f
<1>8. Frame(f, FALSE)
  <2>1. Shape(f)
    BY <1>5, <1>7 DEF Shape
  <2>2. QED
    BY <1>7, <2>1 DEF Frame
<1>9. CASE Top.unit
  <2>1. Demand(f, FALSE) = 0 /\ Demand(Head(stack), FALSE) = 0
    BY <1>1, <1>4, <1>7, <1>9 DEF Demand
  <2>2. ASSUME NEW m \in Nat, Needs(stack, ret # Nothing, m)
        PROVE  Needs(stack', ret' # Nothing, m)
    <3>1. Needs(stack, FALSE, m) /\ Demand(f, FALSE) = Demand(Head(stack), FALSE)
      BY <1>1, <2>1, <2>2
    <3>2. Needs(<<f>> \o Tail(stack), FALSE, m)
      BY <1>1, <1>8, <3>1, NeedsChange
    <3>3. QED
      BY <1>1, <1>6, <3>2
  <2>3. idx' = idx
    BY <1>6, <1>9
  <2>4. QED
    BY <1>1, <1>3, <2>2, <2>3, DemandMoved
<1>10. CASE ~ Top.unit
  <2>1. Demand(Top, FALSE) = 2 /\ Demand(Top, FALSE) > 0 /\ Demand(f, FALSE) = 1
    BY <1>1, <1>7, <1>10 DEF Demand
  <2>2. PICK x \in Trees, us \in Seq(Trees), k \in Nat :
          /\ Node = Header(x) /\ idx <= Len(doc.tape)
          /\ idx + 1 \in 1..(Len(doc.tape) + 1)
          /\ SubSeq(doc.tape, idx + 1, Len(doc.tape)) = Forest(Parts(x) \o us)
          /\ Needs(Tail(stack), TRUE, k) /\ k + Demand(Top, FALSE) <= 1 + Len(us)
    BY <1>1, <2>1, ReadOne
  <2> DEFINE m == Len(Parts(x) \o us)
             l == Len(us)
  <2>3. Parts(x) \o us \in Seq(Trees) /\ m \in Nat /\ l \in Nat /\ l <= m
    BY PartsLength
  <2>4. k + Demand(Top, FALSE) <= 1 + l
    BY <2>2
  <2> HIDE DEF m, l
  <2>5. k + 2 <= 1 + l
    BY <2>4, <2>1
  <2>6. k + 1 <= m
    BY <2>3, <2>5
  <2>7. k + Demand(f, FALSE) <= m
    <3>1. \A d : d = 1 => k + d <= m
      BY <2>6
    <3>2. QED
      BY <2>1, <3>1, Zenon
  <2>8. Needs(<<f>> \o Tail(stack), FALSE, m)
    BY <2>2, <2>3, <2>7, <1>8, NeedsPush
  <2>9. Supplied'
    <3>1. idx' = idx + 1 /\ doc' = doc /\ (ret' # Nothing) = FALSE
      BY <1>1, <1>6, <1>10
    <3>2. Needs(stack', ret' # Nothing, Len(Parts(x) \o us))
      BY <1>6, <2>8, <3>1 DEF m
    <3>3. QED
      BY <2>2, <2>3, <3>1, <3>2 DEF Supplied
  <2>10. QED
    BY <1>3, <2>9, DemandAgain
<1>11. QED
  BY <1>9, <1>10

LEMMA DemandReturn ==
  ASSUME DemandInv, Return
  PROVE  DemandInv'
<1>1. /\ phase = "running" /\ ret # Nothing /\ UNCHANGED <<doc, client, idx, live>>
  BY DEF Return
<1>2. CASE stack = << >>
  <2>1. phase' = "done" /\ UNCHANGED <<stack, ret>>
    BY <1>2 DEF Return
  <2>2. QED
    BY <1>1, <2>1 DEF DemandInv, Known
<1>3. CASE stack # << >>
  <2>1. phase' = "running" /\ Frame(Top, TRUE) /\ Top = Head(stack)
    BY <1>1, <1>3, TopFrame DEF Return
  <2>2. Top.at \in Waiting /\ Shape(Top)
    BY <2>1 DEF Frame
  <2>3. ASSUME Top.at \in {"seq", "map"}
        PROVE  DemandInv'
    <3>1. PICK f : /\ stack' = <<f>> \o Tail(stack) /\ ret' = Nothing
                   /\ DOMAIN f = DOMAIN Top /\ f.at = Top.at /\ f.len = Top.len
                   /\ f.at = "map" => (f.key = Nothing) = (Top.key # Nothing)
      <4>1. CASE Top.at = "seq"
        <5> DEFINE f == [Top EXCEPT !.built = Append(@, ret)]
        <5>1. stack' = <<f>> \o Tail(stack) /\ ret' = Nothing
          BY <1>3, <4>1 DEF Return
        <5>2. DOMAIN Top = {"at", "len", "items", "built"}
          BY <4>1, <2>2 DEF Shape
        <5>3. DOMAIN f = DOMAIN Top /\ f.at = Top.at /\ f.len = Top.len
          BY <5>2
        <5> HIDE DEF f
        <5>4. QED
          BY <4>1, <5>1, <5>3
      <4>2. CASE Top.at = "map" /\ Top.key = Nothing
        <5> DEFINE f == [Top EXCEPT !.key = ret]
        <5>1. stack' = <<f>> \o Tail(stack) /\ ret' = Nothing
          BY <1>3, <4>2 DEF Return
        <5>2. DOMAIN Top = {"at", "len", "entries", "v", "key", "built"}
          BY <4>2, <2>2 DEF Shape
        <5>3. DOMAIN f = DOMAIN Top /\ f.at = Top.at /\ f.len = Top.len /\ f.key = ret
          BY <5>2
        <5> HIDE DEF f
        <5>4. QED
          BY <1>1, <4>2, <5>1, <5>3
      <4>3. CASE Top.at = "map" /\ Top.key # Nothing
        <5> DEFINE f == [Top EXCEPT !.key = Nothing, !.built = Insert(@, Val(Top.key), ret)]
        <5>1. stack' = <<f>> \o Tail(stack) /\ ret' = Nothing
          BY <1>3, <4>3 DEF Return
        <5>2. DOMAIN Top = {"at", "len", "entries", "v", "key", "built"}
          BY <4>3, <2>2 DEF Shape
        <5>3. DOMAIN f = DOMAIN Top /\ f.at = Top.at /\ f.len = Top.len /\ f.key = Nothing
          BY <5>2
        <5> HIDE DEF f
        <5>4. QED
          BY <4>3, <5>1, <5>3
      <4>4. QED
        BY <2>3, <4>1, <4>2, <4>3
    <3>2. Frame(f, FALSE)
      <4>1. Shape(f)
        BY <2>2, <2>3, <3>1 DEF Shape
      <4>2. QED
        BY <4>1, <2>3, <3>1 DEF Frame
    <3>3. Demand(f, FALSE) = Demand(Head(stack), TRUE)
      <4>1. Demand(f, FALSE) = Demand(Top, TRUE)
        BY <2>3, <3>1 DEF Demand
      <4>2. QED
        BY <4>1, <2>1, Zenon
    <3>4. ASSUME NEW m \in Nat, Needs(stack, ret # Nothing, m)
          PROVE  Needs(stack', ret' # Nothing, m)
      <4>1. Needs(stack, TRUE, m)
        BY <1>1, <3>4
      <4>2. Needs(<<f>> \o Tail(stack), FALSE, m)
        BY <1>3, <3>2, <3>3, <4>1, NeedsChange
      <4>3. QED
        BY <3>1, <4>2
    <3>5. Known'
      BY <1>1, <2>1, <3>1 DEF DemandInv, Known
    <3>6. QED
      BY <1>1, <3>4, <3>5, DemandMoved
  <2>4. ASSUME Top.at = "content"
        PROVE  DemandInv'
    <3>1. stack' = Tail(stack) /\ ret' = VariantOf(Top.name, ret)
      BY <1>3, <2>4 DEF Return
    <3>2. ret'.kind = "Object"
      BY <3>1 DEF VariantOf, ObjectOf
    <3>3. ret'.kind \in ResultKinds /\ ret' # Nothing
      BY <3>2 DEF ResultKinds, Nothing
    <3>4. Known'
      BY <1>1, <2>1, <3>3 DEF DemandInv, Known
    <3>5. ASSUME NEW m \in Nat, Needs(stack, ret # Nothing, m)
          PROVE  Needs(stack', ret' # Nothing, m)
      BY <1>1, <1>3, <3>1, <3>3, <3>5, NeedsDrop
    <3>6. QED
      BY <1>1, <3>4, <3>5, DemandMoved
  <2>5. QED
    BY <2>2, <2>3, <2>4 DEF Waiting
<1>4. QED
  BY <1>2, <1>3

LEMMA VariantAsHint ==
  ASSUME NEW kind \in Variants, kind # "newtype_variant", NEW n
  PROVE  /\ VariantHint[kind] \in {"unit", "tuple", "struct"}
         /\ TapeVariant(kind, n) = TapeDe(VariantHint[kind], n)
<1>1. kind \in {"unit_variant", "tuple_variant", "struct_variant"}
  BY DEF Variants
<1>2. CASE kind = "unit_variant"
  BY <1>2 DEF VariantHint, TapeVariant
<1>3. CASE kind = "struct_variant"
  BY <1>3 DEF VariantHint, TapeVariant
<1>4. CASE kind = "tuple_variant"
  BY <1>4 DEF VariantHint, TapeVariant, TapeDe, Unchecked, IntHints
<1>5. QED
  BY <1>1, <1>2, <1>3, <1>4

(* The content of a variant is read. *)
LEMMA DemandContent ==
  ASSUME DemandInv, phase = "running", ret = Nothing, stack # << >>,
         Top.at = "variant", ~ Top.unit,
         NEW answers, NEW where, Settle(answers, where), answers["tape"].step # "error",
         NEW f, Frame(f, TRUE), Demand(f, TRUE) = 0,
         NEW n, NEW visit, \A x \in Trees : Node = Header(x) => Fits(visit, x),
         visit \notin {"visit_some", "visit_newtype_struct"},
         idx' = idx + 1, Visit(visit, Node, n, <<f>> \o Tail(stack)),
         UNCHANGED <<doc, client>>
  PROVE  DemandInv'
<1>1. "tape" \in live' /\ live' \subseteq Readers /\ phase' = "running"
  BY Settled DEF DemandInv, Known
<1>2. Demand(Top, FALSE) = 1 /\ Demand(Top, FALSE) > 0
  BY DEF Demand
<1>3. PICK x \in Trees, us \in Seq(Trees), k \in Nat :
        /\ Node = Header(x) /\ idx <= Len(doc.tape)
        /\ idx + 1 \in 1..(Len(doc.tape) + 1)
        /\ SubSeq(doc.tape, idx + 1, Len(doc.tape)) = Forest(Parts(x) \o us)
        /\ Needs(Tail(stack), TRUE, k) /\ k + Demand(Top, FALSE) <= 1 + Len(us)
  BY <1>2, ReadOne
<1>4. Fits(visit, x)
  BY <1>3
<1>5. k <= Len(us) /\ client \in Clients
  <2> DEFINE l == Len(us)
  <2>1. l \in Nat
    OBVIOUS
  <2>2. k + Demand(Top, FALSE) <= 1 + l
    BY <1>3
  <2> HIDE DEF l
  <2>3. k + 1 <= 1 + l
    BY <2>2, <1>2
  <2>4. k <= l
    BY <2>1, <2>3
  <2>5. QED
    BY <2>4 DEF DemandInv, Known, l
<1>6. Needs(<<f>> \o Tail(stack), TRUE, k)
  <2>1. \A d : d = 0 => k + d <= k
    OBVIOUS
  <2>2. k + Demand(f, TRUE) <= k
    BY <2>1, Zenon
  <2>3. QED
    BY <2>2, <1>3, NeedsPush
<1> DEFINE below == <<f>> \o Tail(stack)
<1>7. Visit(visit, Header(x), n, below) /\ Needs(below, TRUE, k)
  BY <1>3, <1>6, Zenon
<1> HIDE DEF below
<1>8. /\ Needs(stack', ret' # Nothing, Len(Parts(x) \o us))
      /\ ret' = Nothing \/ ret'.kind \in ResultKinds
  BY <1>4, <1>5, <1>7, VisitNeeds
<1>9. Parts(x) \o us \in Seq(Trees)
  BY PartsLength
<1>10. Supplied'
  BY <1>3, <1>8, <1>9 DEF Supplied
<1>11. Known'
  BY <1>1, <1>8 DEF DemandInv, Known
<1>12. QED
  BY <1>10, <1>11, DemandAgain

LEMMA DemandReadVariant ==
  ASSUME DemandInv, NEW kind \in Variants, ReadVariant(kind)
  PROVE  DemandInv'
<1> DEFINE n == Top.n
           hint == VariantHint[kind]
           visit == IF Top.unit THEN UnitOnly(kind) ELSE TapeVariant(kind, Node)
           domVisit(r) == IF Top.unit THEN UnitOnly(kind) ELSE DomVariant(r, kind, n)
           answers == [r \in live |-> Answer(hint, IF r = "tape" THEN visit ELSE domVisit(r), "")]
           where == [at |-> kind, hint |-> hint, n |-> n]
           f == [Top EXCEPT !.at = "content"]
           content == <<f>> \o Tail(stack)
<1>1. /\ Calls("variant") /\ Settle(answers, where) /\ UNCHANGED <<doc, client>>
      /\ idx' = IF Top.unit THEN idx ELSE idx + Consumed(visit)
      /\ IF answers["tape"].step = "error" THEN UNCHANGED <<stack, ret>>
         ELSE IF Top.unit THEN ret' = Leaf("String", Val(Top.name)) /\ stack' = Tail(stack)
         ELSE IF kind = "newtype_variant"
           THEN stack' = <<ValueFrame(n)>> \o content /\ ret' = ret
         ELSE Visit(visit, Node, n, content)
  BY Zenon DEF ReadVariant
<1>2. /\ phase = "running" /\ ret = Nothing /\ stack # << >> /\ Top.at = "variant"
      /\ "tape" \in live /\ \A i \in DOMAIN stack : stack[i].at \in Frames
  BY <1>1, CalledOn
<1>3. answers["tape"] = Answer(hint, visit, "")
  BY <1>2
<1> HIDE DEF answers, where
<1>4. "tape" \in live' /\ live' \subseteq Readers /\ phase' \in {"running", "failed"}
  BY <1>1, Settled DEF DemandInv, Known
<1>5. Frame(Top, FALSE) /\ Top = Head(stack)
  BY <1>2, TopFrame
<1>6. Top.unit \in BOOLEAN /\ DOMAIN Top = {"at", "unit", "name", "key", "n"}
  BY <1>2, <1>5 DEF Frame, Shape
<1>7. DOMAIN f = DOMAIN Top /\ f.at = "content" /\ f.unit = Top.unit
  BY <1>6
<1> HIDE DEF f
<1>8. Frame(f, TRUE) /\ Demand(f, TRUE) = 0
  <2>1. Shape(f)
    BY <1>6, <1>7 DEF Shape
  <2>2. QED
    BY <1>7, <2>1 DEF Frame, Demand, Waiting
<1>9. CASE answers["tape"].step = "error"
  <2>1. UNCHANGED <<stack, ret>>
    BY <1>1, <1>9
  <2>2. QED
    BY <1>1, <1>2, <1>9, <2>1, DemandFailed
<1>10. CASE answers["tape"].step # "error" /\ Top.unit
  <2>1. ret' = Leaf("String", Val(Top.name)) /\ stack' = Tail(stack) /\ idx' = idx
    BY <1>1, <1>10
  <2>2. ret'.kind = "String" /\ BorrowedVisited["visit_str"] = "String" /\ "visit_str" \in LeafVisits
    BY <2>1 DEF Leaf, BorrowedVisited, LeafVisits, StrVisits
  <2>3. ret'.kind \in ResultKinds /\ ret' # Nothing
    BY <2>2 DEF ResultKinds, Nothing
  <2>4. Known'
    BY <1>1, <1>4, <2>3 DEF DemandInv, Known
  <2>5. ASSUME NEW m \in Nat, Needs(stack, ret # Nothing, m)
        PROVE  Needs(stack', ret' # Nothing, m)
    BY <1>2, <2>1, <2>3, <2>5, NeedsDrop
  <2>6. QED
    BY <1>1, <1>2, <2>1, <2>4, <2>5, DemandMoved
<1>11. CASE answers["tape"].step # "error" /\ ~ Top.unit /\ kind = "newtype_variant"
  <2> DEFINE g == ValueFrame(n)
  <2>1. stack' = <<g>> \o (<<f>> \o Tail(stack)) /\ ret' = ret /\ idx' = idx + Consumed(visit)
    BY <1>1, <1>11
  <2>2. visit = "visit_newtype_struct"
    BY <1>11 DEF TapeVariant
  <2>3. idx' = idx
    BY <1>2, <2>1, <2>2 DEF Consumed, DemandInv
  <2>4. Frame(g, FALSE) /\ Demand(g, FALSE) = 1
    BY DEF ValueFrame, Frame, Shape, Demand
  <2> HIDE DEF g
  <2>5. Known'
    BY <1>1, <1>4, <2>1 DEF DemandInv, Known
  <2>6. ASSUME NEW m \in Nat, Needs(stack, ret # Nothing, m)
        PROVE  Needs(stack', ret' # Nothing, m)
    <3>1. Needs(stack, FALSE, m)
      BY <1>2, <2>6
    <3>2. PICK d \in Nat, e \in Nat : d = 0 /\ e = 1 /\ \A y : y = 1 => y >= d + e
      <4>1. 0 \in Nat /\ 1 \in Nat /\ \A y : y = 1 => y >= 0 + 1
        OBVIOUS
      <4>2. QED
        BY <4>1, Zenon
    <3>3. Needs(<<g, f>> \o Tail(stack), FALSE, m)
      <4>1. Demand(Top, FALSE) = 1
        BY <1>2, <1>11 DEF Demand
      <4>2. Demand(Head(stack), FALSE) >= d + e
        BY <4>1, <3>2, <1>5, Zenon
      <4>3. Demand(f, TRUE) = d /\ Demand(g, FALSE) = e
        BY <1>8, <2>4, <3>2
      <4>4. QED
        BY <1>2, <1>8, <2>4, <3>1, <4>2, <4>3, NeedsCall
    <3>4. PICK S : stack \in Seq(S)
      BY <3>1, NeedsFrames
    <3>5. Tail(stack) \in Seq(S)
      BY <3>4, <1>2
    <3>6. stack' = <<g, f>> \o Tail(stack)
      BY <2>1, <3>5, TwoOnTop
    <3>7. QED
      BY <1>2, <2>1, <3>3, <3>6
  <2>7. QED
    BY <1>1, <1>2, <2>3, <2>5, <2>6, DemandMoved
<1>12. CASE answers["tape"].step # "error" /\ ~ Top.unit /\ kind # "newtype_variant"
  <2>1. /\ Visit(visit, Node, n, content) /\ idx' = idx + Consumed(visit)
    BY <1>1, <1>12
  <2>2. hint \in {"unit", "tuple", "struct"} /\ visit = TapeDe(hint, Node)
    BY <1>12, VariantAsHint
  <2>3. hint \in Hints
    BY <2>2 DEF Hints
  <2> HIDE DEF visit, hint
  <2>4. visit \in {"visit_unit", "visit_seq", "visit_map"}
    <3>1. visit # "undefined" /\ Takes(hint, visit, "")
      BY <1>3, <1>12, AnswerTaken
    <3>2. QED
      BY <2>2, <3>1 DEF Takes, IntHints
  <2>5. idx' = idx + 1
    BY <2>1, <2>4 DEF Consumed
  <2>6. \A x \in Trees : Node = Header(x) => Fits(visit, x)
    BY <1>3, <1>12, <2>2, <2>3, AnswerFits
  <2>7. QED
    BY <1>1, <1>2, <1>8, <1>12, <2>1, <2>4, <2>5, <2>6, DemandContent
<1>13. QED
  BY <1>9, <1>10, <1>11, <1>12

LEMMA NextDemand == DemandInv /\ [Next]_vars => DemandInv'
<1> SUFFICES ASSUME DemandInv, [Next]_vars PROVE DemandInv'
  OBVIOUS
<1>1. HintsOfValue \subseteq Hints /\ HintsOfKey \subseteq KeyHints
  BY DEF HintsOfValue, HintsOfKey, BorrowedValueKey, OwnedValueKey, Hints, KeyHints
<1>2. ASSUME NEW hint \in HintsOfValue, DeserializeValue(hint) PROVE DemandInv'
  BY <1>1, <1>2, DemandValue
<1>3. ASSUME NEW hint \in HintsOfKey, DeserializeKey(hint) PROVE DemandInv'
  BY <1>1, <1>3, DemandKey
<1>4. ASSUME NEW kind \in Variants, ReadVariant(kind) PROVE DemandInv'
  BY <1>4, DemandReadVariant
<1>5. CASE UNCHANGED vars
  BY <1>5 DEF vars, DemandInv, Known, Supplied
<1>6. QED
  BY <1>2, <1>3, <1>4, <1>5, DemandNextElement, DemandNextKey, DemandNextValue, DemandStop,
     DemandVariantSeed, DemandReturn, Zenon DEF Next

LEMMA SpecDemand == Spec => []DemandInv
BY InitDemand, NextDemand, PTL DEF Spec

(* The state of the lockstep is well formed: the cursor stays on the tape  *)
(* or just behind it, whatever a client asks for.                          *)
THEOREM DeserializeTypeCorrect == Spec => []TypeOK
<1>1. DemandInv => TypeOK
  BY DEF DemandInv, Known, TypeOK, ResultKinds
<1>2. QED
  BY <1>1, SpecDemand, PTL

(* The typed hints, which read the next node without a check, always have  *)
(* one: however early the visitors return, in whatever nesting, the values *)
(* behind the cursor are at least as many as the calls under way ask for.  *)
THEOREM EveryReadInsideTape == Spec => []ReadsInsideTape
<1>1. DemandInv => ReadsInsideTape
  <2> SUFFICES ASSUME DemandInv, AboutToRead PROVE idx <= Len(doc.tape)
    BY DEF ReadsInsideTape
  <2>1. phase = "running" /\ ret = Nothing /\ stack # << >>
    BY DEF AboutToRead
  <2>2. Demand(Top, FALSE) > 0
    <3>1. Demand(Top, FALSE) = 1 \/ Demand(Top, FALSE) = 2
      BY DEF AboutToRead, Demand
    <3>2. \A d : d = 1 \/ d = 2 => d > 0
      OBVIOUS
    <3>3. QED
      BY <3>1, <3>2, Zenon
  <2>3. QED
    BY <2>1, <2>2, ReadOne
<1>2. QED
  BY <1>1, SpecDemand, PTL

-----------------------------------------------------------------------------
(* What a client makes of a value, element by element.                     *)

ValueClients == {"borrowed", "owned"}
Numbers      == {"I64", "U64", "F64"}

Made(c, v)         == IF c \in ValueClients THEN v ELSE Plain[v]
MadeItems(c, ts)   == [i \in DOMAIN ts |-> Made(c, ts[i])]
MadeEntries(c, es) == [i \in DOMAIN es |-> Entry(es[i].key, Made(c, es[i].value))]

LEMMA ShownIsMade == \A v : Shown(v) = Made(client, v)
BY DEF Shown, Made, ValueClients

LEMMA MadeLeaf ==
  ASSUME NEW c, NEW v \in Trees, v.kind \notin {"Array", "Object"}
  PROVE  /\ v = Leaf(v.kind, v.val) /\ Val(v) = v.val
         /\ Made(c, v) = IF c \notin ValueClients /\ v.kind \in Numbers
                           THEN Leaf("Number", v.val) ELSE v
<1>1. v = Leaf(v.kind, v.val)
  BY LeafShape
<1>2. Val(v) = v.val
  BY <1>1 DEF Leaf, Val
<1>3. Plain[v] = IF v.kind \in Numbers THEN Leaf("Number", v.val) ELSE v
  BY PlainEquation DEF PlainFrom, Numbers
<1>4. QED
  BY <1>1, <1>2, <1>3 DEF Made

LEMMA MadeArray ==
  ASSUME NEW c, NEW v \in Trees, v.kind = "Array"
  PROVE  Made(c, v) = ArrayOf(MadeItems(c, v.items))
<1>1. v.items \in Seq(Trees) /\ v = ArrayOf(v.items)
  BY ArrayShape
<1>2. CASE c \in ValueClients
  <2>1. MadeItems(c, v.items) = [i \in DOMAIN v.items |-> v.items[i]]
    BY <1>2 DEF MadeItems, Made
  <2>2. [i \in DOMAIN v.items |-> v.items[i]] = v.items
    BY <1>1
  <2>3. QED
    BY <1>1, <1>2, <2>1, <2>2 DEF Made
<1>3. CASE c \notin ValueClients
  <2>1. MadeItems(c, v.items) = [i \in DOMAIN v.items |-> Plain[v.items[i]]]
    BY <1>3 DEF MadeItems, Made
  <2>2. Plain[v] = ArrayOf([i \in DOMAIN v.items |-> Plain[v.items[i]]])
    BY PlainEquation DEF PlainFrom
  <2>3. QED
    BY <1>3, <2>1, <2>2 DEF Made
<1>4. QED
  BY <1>2, <1>3

LEMMA MadeObject ==
  ASSUME NEW c, NEW v \in Trees, v.kind = "Object"
  PROVE  Made(c, v) = ObjectOf(MadeEntries(c, v.entries))
<1>1. v.entries \in Seq(EntryType) /\ v = ObjectOf(v.entries)
  BY ObjectShape
<1>2. CASE c \in ValueClients
  <2>1. \A e \in EntryType : Entry(e.key, e.value) = e
    BY DEF Entry, EntryType
  <2>2. \A i \in DOMAIN v.entries : Entry(v.entries[i].key, v.entries[i].value) = v.entries[i]
    BY <1>1, <2>1
  <2>3. MadeEntries(c, v.entries) = [i \in DOMAIN v.entries |-> v.entries[i]]
    BY <1>2, <2>2 DEF MadeEntries, Made
  <2>4. [i \in DOMAIN v.entries |-> v.entries[i]] = v.entries
    BY <1>1
  <2>5. QED
    BY <1>1, <1>2, <2>3, <2>4 DEF Made
<1>3. CASE c \notin ValueClients
  <2>1. MadeEntries(c, v.entries)
        = [i \in DOMAIN v.entries |-> Entry(v.entries[i].key, Plain[v.entries[i].value])]
    BY <1>3 DEF MadeEntries, Made
  <2>2. Plain[v] = ObjectOf([i \in DOMAIN v.entries |->
                               Entry(v.entries[i].key, Plain[v.entries[i].value])])
    BY PlainEquation DEF PlainFrom
  <2>3. QED
    BY <1>3, <2>1, <2>2 DEF Made
<1>4. QED
  BY <1>2, <1>3

LEMMA MadeOneMore ==
  ASSUME NEW c, NEW read \in Seq(Trees), NEW v \in Trees
  PROVE  MadeItems(c, Append(read, v)) = Append(MadeItems(c, read), Made(c, v))
BY DEF MadeItems

LEMMA MadeOneEntryMore ==
  ASSUME NEW c, NEW read \in Seq(KeyedType), NEW e \in KeyedType
  PROVE  MadeEntries(c, Append(read, e)) = Append(MadeEntries(c, read), Entry(e.key, Made(c, e.value)))
BY DEF MadeEntries

LEMMA MadeNothing ==
  ASSUME NEW c
  PROVE  MadeItems(c, << >>) = << >> /\ MadeEntries(c, << >>) = << >>
BY DEF MadeItems, MadeEntries

(* A key that was not there yet is inserted behind the others. *)
LEMMA InsertNew ==
  ASSUME NEW c, NEW read \in Seq(KeyedType), NEW k, NEW v,
         \A i \in DOMAIN read : read[i].key # k
  PROVE  Insert(MadeEntries(c, read), k, v) = Append(MadeEntries(c, read), Entry(k, v))
<1>1. \A i \in DOMAIN MadeEntries(c, read) : MadeEntries(c, read)[i].key = read[i].key
  BY DEF MadeEntries, Entry
<1>2. DOMAIN MadeEntries(c, read) = DOMAIN read
  BY DEF MadeEntries
<1>3. QED
  BY <1>1, <1>2 DEF Insert

LEMMA MoveTree ==
  \A read \in Seq(Trees), s \in Seq(Trees) : s # << >> =>
    /\ read \o s = Append(read, Head(s)) \o Tail(s)
    /\ Head(s) \in Trees /\ Tail(s) \in Seq(Trees) /\ Len(Tail(s)) = Len(s) - 1
    /\ s = <<Head(s)>> \o Tail(s)
OBVIOUS

LEMMA MoveKeyed ==
  \A read \in Seq(KeyedType), s \in Seq(KeyedType) : s # << >> =>
    /\ read \o s = Append(read, Head(s)) \o Tail(s)
    /\ Head(s) \in KeyedType /\ Tail(s) \in Seq(KeyedType) /\ Len(Tail(s)) = Len(s) - 1
OBVIOUS

-----------------------------------------------------------------------------
(* A client that exhausts its accesses: each call is on a value of its own *)
(* and has made what it has read of it so far; the call that a call has    *)
(* made is on the part that comes next.                                    *)

(* What a call is for: to make a value of a tree, or of a key something    *)
(* with its text.                                                          *)
Goal(t, key) == [tree |-> t, key |-> key]
Goals == {g \in [tree : Trees, key : BOOLEAN] : g.key => g.tree.kind = "String"}

Result(c, r, g) == IF g.key THEN Val(r) = Val(g.tree) ELSE r = Made(c, g.tree)

ReadingArray(c, f, t, calling, h) ==
  /\ t.kind = "Array"
  /\ f.items \in Seq(Trees) /\ f.len = Len(f.items)
  /\ \E read \in Seq(Trees) :
       /\ f.built = MadeItems(c, read)
       /\ IF calling THEN t.items = Append(read, h.tree) \o f.items /\ ~ h.key
                     ELSE t.items = read \o f.items

(* Before a key, on a key, before its value and on its value. *)
ReadingObject(c, f, t, calling, h) ==
  /\ t.kind = "Object"
  /\ f.entries \in Seq(KeyedType) /\ f.len = Len(f.entries)
  /\ \E read \in Seq(KeyedType) :
       /\ f.built = MadeEntries(c, read)
       /\ \/ ~ calling /\ f.key = Nothing /\ f.v = Nothing /\ t.entries = read \o f.entries
          \/ \E e \in KeyedType :
               /\ t.entries = Append(read, e) \o f.entries
               /\ \/ calling /\ f.key = Nothing /\ f.v = e.value /\ h = Goal(Leaf("String", e.key), TRUE)
                  \/ ~ calling /\ f.key # Nothing /\ Val(f.key) = e.key /\ f.v = e.value
                  \/ /\ calling /\ f.key # Nothing /\ Val(f.key) = e.key /\ f.v = Nothing
                     /\ h = Goal(e.value, FALSE)

ReadingVariant(f, t, calling, h) ==
  /\ calling = (f.at = "content")
  /\ IF f.unit
       THEN f.at # "content" /\ t.kind = "String" /\ f.name = t /\ (f.at = "enum" => f.key = t)
       ELSE \E e \in KeyedType :
              /\ t = ObjectOf(<<e>>) /\ f.n = e.value
              /\ IF f.at = "enum" THEN f.key = Leaf("String", e.key) ELSE Val(f.name) = e.key
              /\ calling => h = Goal(e.value, FALSE)

Reading(c, f, g, calling, h) ==
  \/ f.at = "value" /\ ~ calling /\ f.n = g.tree
  \/ f.at = "key" /\ ~ calling /\ f.n = g.tree /\ g.key
  \/ f.at = "seq" /\ ReadingArray(c, f, g.tree, calling, h)
  \/ f.at = "map" /\ ReadingObject(c, f, g.tree, calling, h)
  \/ f.at \in {"enum", "variant", "content"} /\ ReadingVariant(f, g.tree, calling, h)

Trail(c, root, s, calling, gs) ==
  /\ \E S : s \in Seq(S)
  /\ gs \in Seq(Goals) /\ Len(gs) = Len(s) + 1
  /\ gs[Len(s) + 1] = Goal(root, FALSE)
  /\ \A i \in 1..Len(s) : Reading(c, s[i], gs[i + 1], i > 1 \/ calling, gs[i])

(* The calls s are on parts of root, and called for h. *)
On(c, root, s, calling, h) == \E gs : Trail(c, root, s, calling, gs) /\ gs[1] = h

Remaining(s) == FlattenSeq([i \in DOMAIN s |-> Left(s[i])])

LEMMA OnTop ==
  ASSUME NEW c, NEW root, NEW s, NEW calling \in BOOLEAN, NEW h,
         On(c, root, s, calling, h), s # << >>
  PROVE  \E g \in Goals : Reading(c, Head(s), g, calling, h) /\ On(c, root, Tail(s), TRUE, g)
<1>1. PICK gs : Trail(c, root, s, calling, gs) /\ gs[1] = h
  BY DEF On
<1>2. PICK S : s \in Seq(S)
  BY <1>1 DEF Trail
<1>3. /\ Len(s) \in Nat \ {0} /\ Head(s) = s[1] /\ Tail(s) \in Seq(S)
      /\ Len(Tail(s)) = Len(s) - 1 /\ \A i \in 1..Len(Tail(s)) : Tail(s)[i] = s[i + 1]
  BY <1>2
<1>4. /\ gs \in Seq(Goals) /\ Len(gs) = Len(s) + 1
      /\ Tail(gs) \in Seq(Goals) /\ Len(Tail(gs)) = Len(s)
      /\ \A i \in 1..Len(s) : Tail(gs)[i] = gs[i + 1] /\ gs[i + 1] \in Goals
  BY <1>1, <1>3 DEF Trail
<1>5. Reading(c, s[1], gs[2], calling, h)
  <2>1. 1 \in 1..Len(s) /\ (1 > 1 \/ calling) = calling /\ 1 + 1 = 2
    BY <1>3
  <2>2. Reading(c, s[1], gs[1 + 1], 1 > 1 \/ calling, gs[1])
    BY <2>1, <1>1 DEF Trail
  <2>3. QED
    BY <2>1, <2>2, <1>1
<1>6. Trail(c, root, Tail(s), TRUE, Tail(gs))
  <2>1. ASSUME NEW i \in 1..Len(Tail(s))
        PROVE  Reading(c, Tail(s)[i], Tail(gs)[i + 1], i > 1 \/ TRUE, Tail(gs)[i])
    <3>1. i + 1 \in 1..Len(s) /\ i \in 1..Len(s) /\ (i + 1 > 1 \/ calling) = (i > 1 \/ TRUE)
      BY <1>3
    <3>2. Reading(c, s[i + 1], gs[i + 1 + 1], i + 1 > 1 \/ calling, gs[i + 1])
      BY <3>1, <1>1 DEF Trail
    <3>3. Tail(gs)[i] = gs[i + 1] /\ Tail(gs)[i + 1] = gs[i + 1 + 1] /\ Tail(s)[i] = s[i + 1]
      BY <3>1, <1>3, <1>4
    <3>4. QED
      BY <3>1, <3>2, <3>3
  <2>2. \E T : Tail(s) \in Seq(T)
    BY <1>3
  <2>3. Len(Tail(gs)) = Len(Tail(s)) + 1 /\ Len(Tail(s)) + 1 \in 1..Len(s) /\ Len(Tail(s)) + 1 = Len(s)
    BY <1>3, <1>4
  <2>4. Tail(gs)[Len(Tail(s)) + 1] = Goal(root, FALSE)
    BY <2>3, <1>1, <1>4 DEF Trail
  <2>5. QED
    BY <2>1, <2>2, <2>3, <2>4, <1>4 DEF Trail
<1>7. Tail(gs)[1] = gs[2] /\ gs[2] \in Goals
  <2>1. 1 \in 1..Len(s) /\ 1 + 1 = 2
    BY <1>3
  <2>2. QED
    BY <2>1, <1>4
<1>8. QED
  <2>1. On(c, root, Tail(s), TRUE, gs[2])
    BY <1>6, <1>7 DEF On
  <2>2. QED
    BY <2>1, <1>3, <1>5, <1>7

LEMMA OnPush ==
  ASSUME NEW c, NEW root, NEW below, NEW g, On(c, root, below, TRUE, g),
         NEW f, NEW calling \in BOOLEAN, NEW h \in Goals, Reading(c, f, g, calling, h)
  PROVE  On(c, root, <<f>> \o below, calling, h)
<1>1. PICK gs : Trail(c, root, below, TRUE, gs) /\ gs[1] = g
  BY DEF On
<1>2. PICK S : below \in Seq(S)
  BY <1>1 DEF Trail
<1> DEFINE s == <<f>> \o below
           p == <<h>> \o gs
<1>3. /\ s \in Seq(S \cup {f}) /\ Len(s) = Len(below) + 1 /\ s[1] = f
      /\ \A i \in 1..Len(below) : s[i + 1] = below[i]
  BY <1>2
<1>4. /\ gs \in Seq(Goals) /\ Len(gs) = Len(below) + 1
      /\ p \in Seq(Goals) /\ Len(p) = Len(s) + 1 /\ p[1] = h
      /\ \A i \in 1..Len(gs) : p[i + 1] = gs[i]
  BY <1>1, <1>3 DEF Trail
<1>5. Len(below) \in Nat
  BY <1>2
<1>6. p[2] = g
  BY <1>1, <1>4, <1>5
<1> HIDE DEF s, p
<1>7. ASSUME NEW i \in 1..Len(s)
      PROVE  Reading(c, s[i], p[i + 1], i > 1 \/ calling, p[i])
  <2>1. CASE i = 1
    <3>1. (1 > 1 \/ calling) = calling /\ 1 + 1 = 2
      OBVIOUS
    <3>2. Reading(c, s[1], p[1 + 1], 1 > 1 \/ calling, p[1])
      BY <3>1, <1>3, <1>4, <1>6
    <3>3. QED
      BY <3>2, <2>1
  <2>2. CASE i > 1
    <3>1. PICK j \in 1..Len(below) : i = j + 1
      <4>1. i - 1 \in 1..Len(below) /\ i = (i - 1) + 1
        BY <2>2, <1>3, <1>5
      <4>2. QED
        BY <4>1
    <3>2. (i > 1 \/ calling) = TRUE /\ (j > 1 \/ TRUE) = TRUE
      BY <2>2
    <3>3. Reading(c, below[j], gs[j + 1], j > 1 \/ TRUE, gs[j])
      BY <3>1, <1>1 DEF Trail
    <3>4. s[i] = below[j] /\ p[i] = gs[j] /\ p[i + 1] = gs[j + 1]
      <4>1. j \in 1..Len(gs) /\ j + 1 \in 1..Len(gs) /\ i + 1 = (j + 1) + 1
        BY <3>1, <1>4, <1>5
      <4>2. QED
        BY <4>1, <3>1, <1>3, <1>4
    <3>5. QED
      BY <3>2, <3>3, <3>4
  <2>3. QED
    BY <2>1, <2>2, <1>3, <1>5
<1>8. p[Len(s) + 1] = Goal(root, FALSE)
  <2>1. Len(s) \in 1..Len(gs) /\ Len(s) = Len(below) + 1
    BY <1>3, <1>4, <1>5
  <2>2. p[Len(s) + 1] = gs[Len(below) + 1]
    BY <2>1, <1>4
  <2>3. QED
    BY <2>2, <1>1 DEF Trail
<1>9. Trail(c, root, s, calling, p)
  BY <1>3, <1>4, <1>7, <1>8 DEF Trail
<1>10. QED
  BY <1>4, <1>9 DEF On, s

LEMMA OnEmpty ==
  ASSUME NEW c, NEW root, NEW h, On(c, root, << >>, TRUE, h)
  PROVE  h = Goal(root, FALSE)
<1>1. PICK gs : Trail(c, root, << >>, TRUE, gs) /\ gs[1] = h
  BY DEF On
<1>2. Len(<< >>) + 1 = 1
  OBVIOUS
<1>3. QED
  BY <1>1, <1>2 DEF Trail

LEMMA OnNothing ==
  ASSUME NEW c, NEW root \in Trees
  PROVE  On(c, root, << >>, TRUE, Goal(root, FALSE)) /\ Goal(root, FALSE) \in Goals
<1> DEFINE s == << >>
           gs == <<Goal(root, FALSE)>>
<1>1. Goal(root, FALSE) \in Goals
  BY DEF Goal, Goals
<1>2. s \in Seq({}) /\ Len(s) = 0 /\ gs \in Seq(Goals) /\ Len(gs) = 1 /\ gs[1] = Goal(root, FALSE)
  <2>1. \A g \in Goals : <<g>> \in Seq(Goals) /\ Len(<<g>>) = 1 /\ <<g>>[1] = g
    OBVIOUS
  <2>2. s \in Seq({}) /\ Len(s) = 0
    OBVIOUS
  <2>3. QED
    BY <1>1, <2>1, <2>2, Zenon
<1> HIDE DEF s, gs
<1>3. Len(s) + 1 = 1 /\ \A i \in 1..Len(s) : FALSE
  BY <1>2
<1>4. \E S : s \in Seq(S)
  BY <1>2
<1>5. Trail(c, root, s, TRUE, gs)
  BY <1>2, <1>3, <1>4 DEF Trail
<1>6. On(c, root, s, TRUE, Goal(root, FALSE))
  BY <1>2, <1>5 DEF On
<1>7. QED
  BY <1>1, <1>6 DEF s

-----------------------------------------------------------------------------
(* What the calls under way have still to read.                            *)

LEMMA FieldsOf ==
  ASSUME NEW es \in Seq(KeyedType)
  PROVE  Fields(es) \in Seq(Trees)
BY KeyedPairs, FieldsAreSeq

LEMMA FieldsMove ==
  ASSUME NEW es \in Seq(KeyedType), es # << >>
  PROVE  /\ Fields(es) = <<Leaf("String", Head(es).key)>> \o (<<Head(es).value>> \o Fields(Tail(es)))
         /\ Head(es) \in KeyedType /\ Tail(es) \in Seq(KeyedType) /\ Fields(Tail(es)) \in Seq(Trees)
<1>1. Head(es) \in KeyedType /\ Tail(es) \in Seq(KeyedType) /\ es = <<Head(es)>> \o Tail(es)
  OBVIOUS
<1>2. Tail(es) \in Seq(EntryType) /\ \A i \in DOMAIN Tail(es) : Pair(Tail(es)[i]) \in Seq(Trees)
  BY <1>1, KeyedPairs
<1>3. Pair(Head(es)) \in Seq(Trees)
  BY <1>1 DEF KeyedType, EntryType, Pair
<1>4. Fields(<<Head(es)>> \o Tail(es)) = Pair(Head(es)) \o Fields(Tail(es))
      /\ Fields(Tail(es)) \in Seq(Trees)
  BY <1>2, <1>3, FieldsFirst
<1>5. Pair(Head(es)) \o Fields(Tail(es))
      = <<Leaf("String", Head(es).key)>> \o (<<Head(es).value>> \o Fields(Tail(es)))
  BY <1>4, TwoOnTop DEF Pair
<1>6. QED
  BY <1>1, <1>4, <1>5

LEMMA FieldsNone == Fields(<< >>) = << >>
BY FlattenEmpty DEF Fields

LEMMA TreeIsSomething ==
  ASSUME NEW v \in Trees
  PROVE  v # Nothing
BY HeaderKind DEF Nothing, LeafKinds

LEMMA LeftTrees ==
  ASSUME NEW c, NEW f, NEW g \in Goals, NEW calling \in BOOLEAN, NEW h \in Goals,
         Reading(c, f, g, calling, h)
  PROVE  Left(f) \in Seq(Trees)
<1>1. CASE f.at \in {"value", "key"}
  BY <1>1 DEF Reading, Left, Goals
<1>2. CASE f.at = "seq"
  BY <1>2 DEF Reading, ReadingArray, Left
<1>3. CASE f.at = "map"
  <2>1. ReadingObject(c, f, g.tree, calling, h)
    BY <1>3 DEF Reading
  <2>2. Fields(f.entries) \in Seq(Trees)
    BY <2>1, FieldsOf DEF ReadingObject
  <2>3. f.v = Nothing \/ f.v \in Trees
    BY <2>1 DEF ReadingObject, KeyedType, EntryType
  <2>4. (IF f.v = Nothing THEN << >> ELSE <<f.v>>) \in Seq(Trees)
    BY <2>3
  <2>5. QED
    BY <1>3, <2>2, <2>4 DEF Left
<1>4. CASE f.at \in {"enum", "variant", "content"}
  <2>1. ReadingVariant(f, g.tree, calling, h)
    BY <1>4 DEF Reading
  <2>2. CASE f.unit
    BY <1>4, <2>1, <2>2 DEF Left, ReadingVariant
  <2>3. CASE ~ f.unit
    <3>1. PICK e \in KeyedType : f.n = e.value /\ (f.at = "enum" => f.key = Leaf("String", e.key))
      BY <2>1, <2>3 DEF ReadingVariant
    <3>2. e.value \in Trees /\ Leaf("String", e.key) \in Trees
      BY DEF KeyedType, EntryType
    <3>3. QED
      BY <1>4, <2>3, <3>1, <3>2 DEF Left
  <2>4. QED
    BY <2>2, <2>3
<1>5. QED
  BY <1>1, <1>2, <1>3, <1>4 DEF Reading

(* All of these calls are on values. *)
Remains(s) ==
  /\ \E S : s \in Seq(S)
  /\ \A i \in DOMAIN s : Left(s[i]) \in Seq(Trees)

LEMMA OnRemains ==
  ASSUME NEW c, NEW root, NEW s, NEW calling \in BOOLEAN, NEW h, On(c, root, s, calling, h)
  PROVE  Remains(s)
<1>1. PICK gs : Trail(c, root, s, calling, gs)
  BY DEF On
<1>2. PICK S : s \in Seq(S)
  BY <1>1 DEF Trail
<1>3. Len(s) \in Nat /\ DOMAIN s = 1..Len(s) /\ gs \in Seq(Goals) /\ Len(gs) = Len(s) + 1
  BY <1>1, <1>2 DEF Trail
<1>4. ASSUME NEW i \in DOMAIN s PROVE Left(s[i]) \in Seq(Trees)
  <2>1. gs[i] \in Goals /\ gs[i + 1] \in Goals /\ (i > 1 \/ calling) \in BOOLEAN
    BY <1>3
  <2>2. Reading(c, s[i], gs[i + 1], i > 1 \/ calling, gs[i])
    BY <1>1, <1>3 DEF Trail
  <2>3. QED
    BY <2>1, <2>2, LeftTrees
<1>5. QED
  BY <1>2, <1>4 DEF Remains

LEMMA RemainingPush ==
  ASSUME NEW below, Remains(below), NEW f, Left(f) \in Seq(Trees)
  PROVE  /\ Remaining(<<f>> \o below) = Left(f) \o Remaining(below)
         /\ Remaining(below) \in Seq(Trees) /\ Remaining(<<f>> \o below) \in Seq(Trees)
<1>0. PICK S : below \in Seq(S)
  BY DEF Remains
<1>00. \A i \in DOMAIN below : Left(below[i]) \in Seq(Trees)
  BY DEF Remains
<1> DEFINE part == [i \in DOMAIN below |-> Left(below[i])]
           all  == [i \in DOMAIN (<<f>> \o below) |-> Left((<<f>> \o below)[i])]
<1>1. part \in Seq(Seq(Trees))
  <2>1. Len(below) \in Nat /\ DOMAIN below = 1..Len(below)
    BY <1>0
  <2>2. part = [i \in 1..Len(below) |-> Left(below[i])]
    BY <2>1
  <2>3. \A i \in 1..Len(below) : Left(below[i]) \in Seq(Trees)
    BY <1>00, <2>1
  <2> HIDE DEF part
  <2>4. QED
    BY <2>1, <2>2, <2>3, IsASeq
<1>2. all = <<Left(f)>> \o part
  <2>1. Len(<<f>> \o below) = Len(below) + 1 /\ Len(below) \in Nat
        /\ (<<f>> \o below)[1] = f /\ \A i \in 1..Len(below) : (<<f>> \o below)[i + 1] = below[i]
        /\ <<f>> \o below \in Seq(S \cup {f})
    BY <1>0
  <2> DEFINE two == <<Left(f)>> \o part
  <2>2. /\ two \in Seq(Seq(Trees)) /\ Len(part) = Len(below) /\ Len(two) = Len(below) + 1
        /\ two[1] = Left(f) /\ \A i \in 1..Len(below) : two[i + 1] = part[i]
    BY <1>1
  <2>3. \A i \in 1..Len(below) : part[i] = Left(below[i])
    OBVIOUS
  <2>4. DOMAIN all = 1..(Len(below) + 1)
    BY <2>1
  <2>5. ASSUME NEW i \in 1..(Len(below) + 1) PROVE all[i] = two[i]
    <3>1. all[i] = Left((<<f>> \o below)[i])
      BY <2>4
    <3>2. CASE i = 1
      BY <2>1, <2>2, <3>1, <3>2
    <3>3. CASE i # 1
      <4>1. PICK j \in 1..Len(below) : i = j + 1
        <5>1. i - 1 \in 1..Len(below) /\ i = (i - 1) + 1
          BY <3>3, <2>1
        <5>2. QED
          BY <5>1
      <4>2. all[i] = Left(below[j]) /\ two[i] = part[j]
        BY <4>1, <2>1, <2>2, <3>1
      <4>3. QED
        BY <4>2, <2>3
    <3>4. QED
      BY <3>2, <3>3
  <2>6. all = [i \in 1..(Len(below) + 1) |-> all[i]]
    BY <2>4
  <2>7. two = [i \in 1..(Len(below) + 1) |-> two[i]]
    BY <2>2
  <2> HIDE DEF all, two
  <2>8. all = two
    BY <2>5, <2>6, <2>7
  <2>9. QED
    BY <2>8 DEF two
<1>3. FlattenSeq(all) = Left(f) \o FlattenSeq(part) /\ FlattenSeq(part) \in Seq(Trees)
  BY <1>1, <1>2, FlattenFirst, FlattenIsSeq
<1>4. Remaining(<<f>> \o below) = FlattenSeq(all) /\ Remaining(below) = FlattenSeq(part)
  BY DEF Remaining
<1>5. \A r \in Seq(Trees) : Left(f) \o r \in Seq(Trees)
  OBVIOUS
<1> HIDE DEF all, part
<1>6. Left(f) \o FlattenSeq(part) \in Seq(Trees)
  BY <1>3, <1>5
<1>7. QED
  BY <1>3, <1>4, <1>6, Zenon

LEMMA RemainingTop ==
  ASSUME NEW s, Remains(s), s # << >>
  PROVE  /\ Remaining(s) = Left(Head(s)) \o Remaining(Tail(s))
         /\ Left(Head(s)) \in Seq(Trees) /\ Remaining(Tail(s)) \in Seq(Trees)
         /\ Remaining(s) \in Seq(Trees) /\ Remains(Tail(s))
<1>1. PICK S : s \in Seq(S)
  BY DEF Remains
<1>2. \A i \in DOMAIN s : Left(s[i]) \in Seq(Trees)
  BY DEF Remains
<1>3. /\ Head(s) = s[1] /\ 1 \in DOMAIN s /\ Tail(s) \in Seq(S) /\ s = <<Head(s)>> \o Tail(s)
      /\ \A i \in DOMAIN Tail(s) : i + 1 \in DOMAIN s /\ Tail(s)[i] = s[i + 1]
  BY <1>1
<1>4. Left(Head(s)) \in Seq(Trees) /\ Remains(Tail(s))
  BY <1>2, <1>3 DEF Remains
<1>5. /\ Remaining(<<Head(s)>> \o Tail(s)) = Left(Head(s)) \o Remaining(Tail(s))
      /\ Remaining(Tail(s)) \in Seq(Trees) /\ Remaining(<<Head(s)>> \o Tail(s)) \in Seq(Trees)
  BY <1>4, RemainingPush
<1>6. QED
  BY <1>3, <1>4, <1>5

LEMMA RemainingNone == Remaining(<< >>) = << >>
BY FlattenEmpty DEF Remaining

-----------------------------------------------------------------------------
(* A leaf is handed out as what it is.                                     *)

Tells(visit, v) ==
  /\ visit \in StrVisits => v.kind = "String"
  /\ visit \in NumberVisits => v.kind \in Numbers
  /\ visit = "visit_unit" => v.kind = "Null"
  /\ visit = "visit_bool" => v.kind = "Bool"

LEMMA AnyVisitTells ==
  ASSUME NEW v \in Trees
  PROVE  Tells(AnyVisit[Header(v).kind], v)
BY HeaderKind DEF AnyVisit, Tells, StrVisits, NumberVisits, IntVisits, Numbers, LeafKinds

LEMMA TapeDeTells ==
  ASSUME NEW v \in Trees, NEW hint \in Hints,
         TapeDe(hint, Header(v)) \notin {"error", "undefined"}
  PROVE  Tells(TapeDe(hint, Header(v)), v)
<1> DEFINE n == Header(v)
<1>1. n.kind = v.kind /\ n # Nothing /\ v.kind \in LeafKinds \cup {"Array", "Object"}
  BY HeaderKind
<1>2. Tells(AnyVisit[n.kind], v)
  BY AnyVisitTells
<1>3. hint \in KeyHints \cup {"f64", "unit", "seq", "tuple", "map", "struct", "ignored_any"}
  BY DEF Hints
<1> HIDE DEF n
<1> USE DEF StrVisits, NumberVisits, IntVisits, Numbers
<1>4. CASE hint \in {"any", "bytes", "ignored_any"}
  <2>1. TapeDe(hint, n) = AnyVisit[n.kind]
    BY <1>4, <1>1 DEF TapeDe, Unchecked, IntHints
  <2>2. QED
    BY <2>1, <1>2 DEF n
<1>5. CASE hint \in IntHints
  <2>1. TapeDe(hint, n) = IF n.kind \in {"I64", "U64"} /\ IsInt(hint, n.val) THEN "visit_i64" ELSE "error"
    BY <1>5, <1>1 DEF TapeDe, Unchecked, IntHints
  <2>2. QED
    BY <2>1, <1>1 DEF n, Tells
<1>6. CASE hint \in {"bool", "f64", "str", "string", "unit"}
  BY <1>6, <1>1 DEF TapeDe, Unchecked, IntHints, OneOf, Tells, n
<1>7. CASE hint \in {"option", "newtype_struct"}
  BY <1>7, <1>1 DEF TapeDe, Unchecked, IntHints, OneOf, Tells, n
<1>8. CASE hint \in {"seq", "tuple", "map"}
  BY <1>8, <1>1 DEF TapeDe, Unchecked, IntHints, OneOf, Tells, n
<1>9. CASE hint = "struct"
  <2>1. TapeDe(hint, n) = OneOf({"Array", "Object"}, n, AnyVisit[n.kind])
    BY <1>9, <1>1 DEF TapeDe, Unchecked, IntHints
  <2>2. TapeDe(hint, n) = AnyVisit[n.kind]
    BY <2>1 DEF OneOf, n
  <2>3. QED
    BY <2>2, <1>2 DEF n
<1>10. CASE hint = "enum"
  <2>1. TapeDe(hint, n) = IF n.kind = "String" \/ (n.kind = "Object" /\ n.len = 1)
                            THEN "visit_enum" ELSE "error"
    BY <1>10, <1>1 DEF TapeDe, Unchecked, IntHints
  <2>2. TapeDe(hint, n) = "visit_enum"
    BY <2>1 DEF n
  <2>3. Tells("visit_enum", v)
    BY DEF Tells
  <2>4. QED
    BY <2>2, <2>3 DEF n
<1>11. QED
  BY <1>3, <1>4, <1>5, <1>6, <1>7, <1>8, <1>9, <1>10 DEF KeyHints

LEMMA TakenIsMade ==
  ASSUME NEW v \in Trees, NEW visit \in LeafVisits, Fits(visit, v), Tells(visit, v),
         client \in Clients, client \in ValueClients => visit = AnyVisit[v.kind]
  PROVE  Taken(visit, Val(Header(v))) = Made(client, v)
<1>1. v.kind \in LeafKinds
  BY DEF Fits
<1>2. /\ v = Leaf(v.kind, v.val) /\ Val(v) = v.val /\ Header(v) = v
      /\ Made(client, v) = IF client \notin ValueClients /\ v.kind \in Numbers
                             THEN Leaf("Number", v.val) ELSE v
  BY <1>1, MadeLeaf, LeafShape DEF LeafKinds
<1>3. CASE client \in ValueClients
  <2>1. BorrowedVisited[visit] = v.kind
    BY <1>1, <1>3 DEF BorrowedVisited, AnyVisit, LeafKinds
  <2>2. Taken(visit, Val(v)) = Leaf(BorrowedVisited[visit], Val(v))
    BY <1>3 DEF Taken, ValueClients, OwnedVisited
  <2>3. QED
    BY <1>2, <1>3, <2>1, <2>2
<1>4. CASE client \notin ValueClients
  <2>1. Taken(visit, Val(v)) = Leaf(IF visit \in NumberVisits THEN "Number" ELSE BorrowedVisited[visit], Val(v))
    BY <1>4 DEF Taken, ValueClients, Clients
  <2>2. CASE visit \in NumberVisits
    BY <1>2, <1>4, <2>1, <2>2 DEF Tells
  <2>3. CASE visit \notin NumberVisits
    <3>1. BorrowedVisited[visit] = v.kind /\ v.kind \notin Numbers
      BY <2>3 DEF Tells, BorrowedVisited, LeafVisits, StrVisits, Numbers
    <3>2. QED
      BY <1>2, <1>4, <2>1, <2>3, <3>1
  <2>4. QED
    BY <2>2, <2>3
<1>5. QED
  BY <1>2, <1>3, <1>4

LEMMA ValOfTaken == \A visit, val : Val(Taken(visit, val)) = val
BY DEF Val, Taken, Leaf

LEMMA GoalsOf ==
  /\ \A v \in Trees : Goal(v, FALSE) \in Goals /\ Goal(v, FALSE).tree = v /\ ~ Goal(v, FALSE).key
  /\ \A v \in Trees : v.kind = "String" =>
       Goal(v, TRUE) \in Goals /\ Goal(v, TRUE).tree = v /\ Goal(v, TRUE).key
  /\ \A g \in Goals : g.tree \in Trees /\ g.key \in BOOLEAN
BY DEF Goal, Goals

LEMMA NoneBefore == \A s \in Seq(Trees) : << >> \o s = s
OBVIOUS

LEMMA OneElement ==
  ASSUME NEW T, NEW s \in Seq(T), Len(s) = 1
  PROVE  s = <<Head(s)>> /\ Head(s) \in T /\ Tail(s) = << >> /\ s # << >>
<1>1. s # << >> /\ Head(s) \in T /\ Tail(s) \in Seq(T) /\ Len(Tail(s)) = 0
  OBVIOUS
<1>2. Tail(s) = << >>
  <2>1. \A q \in Seq(T) : Len(q) = 0 => q = << >>
    OBVIOUS
  <2>2. QED
    BY <1>1, <2>1
<1>3. s = <<Head(s)>> \o Tail(s)
  BY <1>1, StackTop
<1>4. \A y : <<y>> \o << >> = <<y>>
  <2>1. \A y : <<y>> \in Seq({y})
    OBVIOUS
  <2>2. \A U : \A q \in Seq(U) : q \o << >> = q
    BY ConcatEmptySeq
  <2>3. QED
    BY <2>1, <2>2, Zenon
<1>5. QED
  BY <1>1, <1>2, <1>3, <1>4, Zenon

(* The visitor of a value: the calls go on with its parts.                 *)
LEMMA VisitOn ==
  ASSUME NEW root \in Trees, NEW g \in Goals, NEW below, On(client, root, below, TRUE, g),
         client \in Clients, ret = Nothing,
         NEW visit, Fits(visit, g.tree), visit \notin {"visit_some", "visit_newtype_struct"},
         visit \in LeafVisits => Result(client, Taken(visit, Val(Header(g.tree))), g),
         Visit(visit, Header(g.tree), g.tree, below)
  PROVE  /\ \E h \in Goals : /\ On(client, root, stack', ret' # Nothing, h)
                             /\ ret' # Nothing => Result(client, ret', h)
         /\ Remaining(stack') = Parts(g.tree) \o Remaining(below)
<1> DEFINE x == g.tree
<1>0. PICK any \in Goals : TRUE
  BY GoalsOf
<1>1. x \in Trees /\ any \in Goals
  BY GoalsOf
<1>2. Remains(below) /\ Remaining(below) \in Seq(Trees) /\ Parts(x) \in Seq(Trees)
  <2>1. Remains(below) /\ Parts(x) \in Seq(Trees)
    BY <1>1, OnRemains, PartsLength
  <2>2. Left(ValueFrame(x)) \in Seq(Trees)
    BY <1>1 DEF Left, ValueFrame
  <2>3. QED
    BY <2>1, <2>2, RemainingPush
<1> HIDE DEF x
<1>3. CASE visit \in LeafVisits
  <2>1. ret' = Taken(visit, Val(Header(x))) /\ stack' = below
    BY <1>3 DEF Visit, LeafVisits, StrVisits, NumberVisits, IntVisits, x
  <2>2. ret' # Nothing
    BY <1>3, <2>1, TakenKind
  <2>3. Result(client, ret', g)
    BY <1>3, <2>1 DEF x
  <2>4. Parts(x) = << >>
    BY <1>1, <1>3, LeafShape DEF Fits, LeafKinds, x
  <2>5. QED
    BY <1>2, <2>1, <2>2, <2>3, <2>4, NoneBefore DEF x
<1>4. CASE visit = "visit_seq"
  <2> DEFINE f == SeqFrame(Header(x).len, x)
  <2>1. x.kind = "Array"
    BY <1>4 DEF Fits, x
  <2>2. /\ x.items \in Seq(Trees) /\ Parts(x) = x.items /\ Items(x) = x.items
        /\ Header(x).len = Len(x.items)
    BY <1>1, <2>1, ArrayShape
  <2>3. stack' = <<f>> \o below /\ ret' = Nothing
    BY <1>4 DEF Visit, LeafVisits, StrVisits, NumberVisits, IntVisits, x
  <2>4. f.at = "seq" /\ f.len = Len(x.items) /\ f.items = x.items /\ f.built = << >>
    BY <2>2 DEF SeqFrame
  <2> HIDE DEF f
  <2>5. ReadingArray(client, f, x, FALSE, any)
    <3>1. << >> \in Seq(Trees) /\ x.items = << >> \o f.items /\ f.built = MadeItems(client, << >>)
      BY <2>2, <2>4, MadeNothing
    <3>2. QED
      BY <2>1, <2>2, <2>4, <3>1 DEF ReadingArray
  <2>6. Reading(client, f, g, FALSE, any)
    BY <2>4, <2>5 DEF Reading, x
  <2>7. On(client, root, <<f>> \o below, FALSE, any)
    BY <1>1, <2>6, OnPush
  <2>8. Left(f) = Parts(x)
    BY <2>2, <2>4 DEF Left
  <2>9. Remaining(<<f>> \o below) = Left(f) \o Remaining(below)
    BY <1>2, <2>8, RemainingPush
  <2>10. QED
    BY <1>1, <2>3, <2>7, <2>8, <2>9 DEF x
<1>5. CASE visit = "visit_map"
  <2> DEFINE f == MapFrame(Header(x).len, x)
  <2>1. x.kind = "Object"
    BY <1>5 DEF Fits, x
  <2>2. /\ x.entries \in Seq(KeyedType) /\ Parts(x) = Fields(x.entries) /\ Entries(x) = x.entries
        /\ Header(x).len = Len(x.entries)
    BY <1>1, <2>1, ObjectShape, KeyedEntries
  <2>3. stack' = <<f>> \o below /\ ret' = Nothing
    BY <1>5 DEF Visit, LeafVisits, StrVisits, NumberVisits, IntVisits, x
  <2>4. /\ f.at = "map" /\ f.len = Len(x.entries) /\ f.entries = x.entries /\ f.built = << >>
        /\ f.key = Nothing /\ f.v = Nothing
    BY <2>2 DEF MapFrame
  <2> HIDE DEF f
  <2>5. ReadingObject(client, f, x, FALSE, any)
    <3>1. << >> \in Seq(KeyedType) /\ x.entries = << >> \o f.entries
          /\ f.built = MadeEntries(client, << >>)
      BY <2>2, <2>4, MadeNothing
    <3>2. QED
      BY <2>1, <2>2, <2>4, <3>1 DEF ReadingObject
  <2>6. Reading(client, f, g, FALSE, any)
    BY <2>4, <2>5 DEF Reading, x
  <2>7. On(client, root, <<f>> \o below, FALSE, any)
    BY <1>1, <2>6, OnPush
  <2>8. Left(f) = Parts(x)
    <3>1. Fields(x.entries) \in Seq(Trees)
      BY <2>2, FieldsOf
    <3>2. Left(f) = << >> \o Fields(x.entries)
      BY <2>4 DEF Left
    <3>3. QED
      BY <2>2, <3>1, <3>2, NoneBefore
  <2>9. Remaining(<<f>> \o below) = Left(f) \o Remaining(below)
    BY <1>2, <2>8, RemainingPush
  <2>10. QED
    BY <1>1, <2>3, <2>7, <2>8, <2>9 DEF x
<1>6. CASE visit = "visit_enum"
  <2> DEFINE f == EnumFrame(Header(x), x)
  <2>1. x.kind = "String" \/ (x.kind = "Object" /\ Len(x.entries) = 1)
    BY <1>6 DEF Fits, x
  <2>2. stack' = <<f>> \o below /\ ret' = Nothing
    BY <1>6 DEF Visit, LeafVisits, StrVisits, NumberVisits, IntVisits, x
  <2>3. ReadingVariant(f, x, FALSE, any) /\ f.at = "enum" /\ Left(f) = Parts(x)
    <3>1. CASE x.kind = "String"
      <4>1. Header(x) = x /\ Parts(x) = << >>
        BY <1>1, <3>1, LeafShape
      <4>2. f.at = "enum" /\ f.unit = TRUE /\ f.name = x /\ f.key = x
        BY <3>1, <4>1 DEF EnumFrame
      <4> HIDE DEF f
      <4>3. QED
        BY <3>1, <4>1, <4>2 DEF ReadingVariant, Left
    <3>2. CASE x.kind = "Object" /\ Len(x.entries) = 1
      <4> DEFINE e == Head(x.entries)
      <4>1. /\ x.entries \in Seq(KeyedType) /\ x = ObjectOf(x.entries) /\ Parts(x) = Fields(x.entries)
            /\ Entries(x) = x.entries /\ Header(x).kind = "Object"
        BY <1>1, <3>2, ObjectShape, KeyedEntries
      <4>2. e \in KeyedType /\ x.entries = <<e>> /\ x.entries # << >> /\ Tail(x.entries) = << >>
        BY <3>2, <4>1, OneElement
      <4>3. Fields(x.entries) = <<Leaf("String", e.key)>> \o (<<e.value>> \o << >>)
        BY <4>1, <4>2, FieldsMove, FieldsNone
      <4>4. First(Entries(x)) = e /\ e # Nothing
        BY <4>1, <4>2 DEF First, Nothing, KeyedType, EntryType
      <4> HIDE DEF e
      <4>5. /\ f.at = "enum" /\ f.unit = FALSE /\ f.key = Leaf("String", e.key) /\ f.n = e.value
        BY <4>1, <4>4 DEF EnumFrame, KeyOf, ValueOf
      <4> HIDE DEF f
      <4>6. Left(f) = <<Leaf("String", e.key), e.value>>
        BY <4>5 DEF Left
      <4>7. <<Leaf("String", e.key)>> \o (<<e.value>> \o << >>) = <<Leaf("String", e.key), e.value>>
        BY PairJoined
      <4>8. ReadingVariant(f, x, FALSE, any)
        BY <4>1, <4>2, <4>5 DEF ReadingVariant
      <4>9. QED
        BY <4>1, <4>3, <4>5, <4>6, <4>7, <4>8
    <3>3. QED
      BY <2>1, <3>1, <3>2
  <2> HIDE DEF f
  <2>4. Reading(client, f, g, FALSE, any)
    BY <2>3 DEF Reading, x
  <2>5. On(client, root, <<f>> \o below, FALSE, any)
    BY <1>1, <2>4, OnPush
  <2>6. Remaining(<<f>> \o below) = Left(f) \o Remaining(below)
    BY <1>2, <2>3, RemainingPush
  <2>7. QED
    BY <1>1, <2>2, <2>3, <2>5, <2>6 DEF x
<1>7. QED
  BY <1>3, <1>4, <1>5, <1>6 DEF Fits, VisitsOf

-----------------------------------------------------------------------------
(* The cursor of the tape is where the calls of such a client are.         *)

ReadsExactly ==
  \E h \in Goals :
    /\ On(client, doc.tree, stack, ret # Nothing, h)
    /\ ret # Nothing => Result(client, ret, h)
    /\ SubSeq(doc.tape, idx, Len(doc.tape)) = Forest(Remaining(stack))

ExactInv ==
  client # "hasty" =>
    /\ phase = "running" => ReadsExactly
    /\ phase = "done" => ret = Shown(doc.tree) /\ idx = Len(doc.tape) + 1

LEMMA ResultOf ==
  ASSUME NEW c, NEW g \in Goals
  PROVE  Result(c, Made(c, g.tree), g)
<1>1. CASE g.key
  <2>1. g.tree \in Trees /\ g.tree.kind = "String"
    BY <1>1 DEF Goals
  <2>2. Made(c, g.tree) = g.tree
    BY <2>1, MadeLeaf DEF Numbers
  <2>3. QED
    BY <1>1, <2>2 DEF Result
<1>2. CASE ~ g.key
  BY <1>2 DEF Result
<1>3. QED
  BY <1>1, <1>2

LEMMA ExactTop ==
  ASSUME ReadsExactly, ret = Nothing, stack # << >>
  PROVE  /\ \E g \in Goals : /\ On(client, doc.tree, Tail(stack), TRUE, g)
                             /\ \E h \in Goals : Reading(client, Top, g, FALSE, h)
         /\ Remaining(stack) = Left(Top) \o Remaining(Tail(stack))
         /\ Left(Top) \in Seq(Trees) /\ Remaining(Tail(stack)) \in Seq(Trees)
         /\ Remains(Tail(stack)) /\ \E S : Tail(stack) \in Seq(S)
<1>1. PICK h \in Goals : On(client, doc.tree, stack, FALSE, h)
  BY DEF ReadsExactly
<1>2. PICK g \in Goals : Reading(client, Head(stack), g, FALSE, h)
                         /\ On(client, doc.tree, Tail(stack), TRUE, g)
  BY <1>1, OnTop
<1>3. Remains(stack)
  BY <1>1, OnRemains
<1>4. /\ Remaining(stack) = Left(Head(stack)) \o Remaining(Tail(stack))
      /\ Left(Head(stack)) \in Seq(Trees) /\ Remaining(Tail(stack)) \in Seq(Trees)
      /\ Remains(Tail(stack))
  BY <1>3, RemainingTop
<1>5. \E S : Tail(stack) \in Seq(S)
  BY <1>4 DEF Remains
<1>6. Top = Head(stack)
  BY DEF Top
<1> HIDE DEF Top
<1>7. QED
  BY <1>2, <1>4, <1>5, <1>6, Zenon

(* The node under the cursor is that of the value to be read next. *)
LEMMA ExactNode ==
  ASSUME DemandInv, phase = "running", ReadsExactly, ret = Nothing, stack # << >>,
         NEW x \in Trees, NEW rest \in Seq(Trees), Left(Top) = <<x>> \o rest
  PROVE  /\ Node = Header(x)
         /\ SubSeq(doc.tape, idx + 1, Len(doc.tape))
            = Forest(Parts(x) \o (rest \o Remaining(Tail(stack))))
         /\ rest \o Remaining(Tail(stack)) \in Seq(Trees)
<1> DEFINE r == Remaining(Tail(stack))
<1>1. Remaining(stack) = (<<x>> \o rest) \o r /\ r \in Seq(Trees)
  BY ExactTop
<1> HIDE DEF r
<1>2. (<<x>> \o rest) \o r = <<x>> \o (rest \o r)
  <2>1. <<x>> \in Seq(Trees)
    OBVIOUS
  <2>2. QED
    BY <1>1, <2>1, Regroup, SMTT(30)
<1>3. rest \o r \in Seq(Trees)
  BY <1>1
<1>4. SubSeq(doc.tape, idx, Len(doc.tape)) = <<Header(x)>> \o Forest(Parts(x) \o (rest \o r))
      /\ Forest(Parts(x) \o (rest \o r)) \in Seq(Nodes)
  <2>1. SubSeq(doc.tape, idx, Len(doc.tape)) = Forest(<<x>> \o (rest \o r))
    BY <1>1, <1>2 DEF ReadsExactly
  <2>2. QED
    BY <1>3, <2>1, ForestFirst
<1>5. doc.tape \in Seq(Nodes) /\ idx \in 1..(Len(doc.tape) + 1)
  BY DocShape DEF DemandInv, Known
<1>6. /\ idx <= Len(doc.tape) /\ doc.tape[idx] = Header(x)
      /\ SubSeq(doc.tape, idx + 1, Len(doc.tape)) = Forest(Parts(x) \o (rest \o r))
  <2> DEFINE behind == Forest(Parts(x) \o (rest \o r))
             all    == <<Header(x)>> \o behind
  <2>1. SubSeq(doc.tape, idx, Len(doc.tape)) = all /\ behind \in Seq(Nodes)
    BY <1>4
  <2>2. all = <<Header(x)>> \o behind
    OBVIOUS
  <2> HIDE DEF behind, all
  <2>3. /\ idx <= Len(doc.tape) /\ doc.tape[idx] = Header(x)
        /\ SubSeq(doc.tape, idx + 1, Len(doc.tape)) = behind
    BY <1>5, <2>1, <2>2, Advance
  <2>4. QED
    BY <2>3 DEF behind
<1>7. Node = Header(x)
  BY <1>6 DEF Node
<1>8. QED
  BY <1>3, <1>6, <1>7 DEF r

LEMMA ExactMoved ==
  ASSUME ReadsExactly, UNCHANGED <<doc, client, idx>>,
         NEW h \in Goals, On(client, doc.tree, stack', ret' # Nothing, h),
         ret' # Nothing => Result(client, ret', h),
         Remaining(stack') = Remaining(stack)
  PROVE  ReadsExactly'
<1>1. SubSeq(doc'.tape, idx', Len(doc'.tape)) = Forest(Remaining(stack'))
  BY DEF ReadsExactly
<1>2. On(client', doc'.tree, stack', ret' # Nothing, h) /\ (ret' # Nothing => Result(client', ret', h))
  OBVIOUS
<1>3. QED
  BY <1>1, <1>2 DEF ReadsExactly

(* A call on a value or a key that the client goes on with. *)
LEMMA ExactRead ==
  ASSUME DemandInv, phase = "running", ReadsExactly, ret = Nothing, stack # << >>,
         Top.at \in {"value", "key"},
         NEW g \in Goals, On(client, doc.tree, Tail(stack), TRUE, g), Top.n = g.tree,
         NEW visit, Fits(visit, g.tree),
         visit \in LeafVisits => Result(client, Taken(visit, Val(Header(g.tree))), g),
         idx' = idx + Consumed(visit), Visit(visit, Node, Top.n, Tail(stack)),
         UNCHANGED <<doc, client>>
  PROVE  ReadsExactly'
<1> DEFINE below == Tail(stack)
<1>1. g.tree \in Trees /\ doc.tree \in Trees /\ client \in Clients
  BY GoalsOf, DocShape DEF DemandInv, Known
<1>2. << >> \in Seq(Trees) /\ Left(Top) = <<g.tree>> \o << >>
  BY <1>1 DEF Left
<1>3. /\ Node = Header(g.tree)
      /\ SubSeq(doc.tape, idx + 1, Len(doc.tape)) = Forest(Parts(g.tree) \o (<< >> \o Remaining(below)))
  BY <1>1, <1>2, ExactNode
<1>4. << >> \o Remaining(below) = Remaining(below)
  BY ExactTop, NoneBefore
<1> HIDE DEF below
<1>5. CASE visit \in {"visit_some", "visit_newtype_struct"}
  <2>1. idx' = idx + 0 /\ UNCHANGED <<stack, ret>>
    BY <1>5 DEF Consumed, Visit, LeafVisits, StrVisits, NumberVisits, IntVisits
  <2>2. idx' = idx
    BY <2>1 DEF DemandInv
  <2>3. QED
    BY <2>1, <2>2 DEF ReadsExactly
<1>6. CASE visit \notin {"visit_some", "visit_newtype_struct"}
  <2>1. idx' = idx + 1
    BY <1>6 DEF Consumed
  <2>2. Visit(visit, Header(g.tree), g.tree, below) /\ On(client, doc.tree, below, TRUE, g)
    BY <1>3 DEF below
  <2>3. /\ \E h \in Goals : /\ On(client, doc.tree, stack', ret' # Nothing, h)
                            /\ ret' # Nothing => Result(client, ret', h)
        /\ Remaining(stack') = Parts(g.tree) \o Remaining(below)
    BY <1>1, <1>6, <2>2, VisitOn
  <2>4. SubSeq(doc'.tape, idx', Len(doc'.tape)) = Forest(Remaining(stack'))
    BY <1>3, <1>4, <2>1, <2>3
  <2>5. PICK h \in Goals : /\ On(client, doc.tree, stack', ret' # Nothing, h)
                           /\ ret' # Nothing => Result(client, ret', h)
    BY <2>3
  <2>6. On(client', doc'.tree, stack', ret' # Nothing, h) /\ (ret' # Nothing => Result(client', ret', h))
    BY <2>5
  <2>7. QED
    BY <2>4, <2>6 DEF ReadsExactly
<1>7. QED
  BY <1>5, <1>6

LEMMA ExactValue ==
  ASSUME DemandInv, ReadsExactly, NEW hint \in HintsOfValue, DeserializeValue(hint),
         phase' = "running"
  PROVE  ReadsExactly'
<1> DEFINE visit == TapeDe(hint, Node)
           n == Top.n
           answers == [r \in live |->
                         IF r = "tape" THEN Answer(hint, visit, Val(Node))
                         ELSE Answer(hint, DomDe(r, hint, n), Val(n))]
           where == [at |-> "value", hint |-> hint, n |-> n]
<1>1. /\ Calls("value") /\ Settle(answers, where) /\ idx' = idx + Consumed(visit)
      /\ IF answers["tape"].step = "error" THEN UNCHANGED <<stack, ret>>
         ELSE Visit(visit, Node, n, Tail(stack))
      /\ UNCHANGED <<doc, client>>
  BY Zenon DEF DeserializeValue
<1>2. /\ phase = "running" /\ ret = Nothing /\ stack # << >> /\ Top.at = "value"
      /\ "tape" \in live
  BY <1>1, CalledOn
<1>3. answers["tape"] = Answer(hint, visit, Val(Node))
  BY <1>2
<1>4. answers["tape"].step # "error"
  BY <1>1 DEF Settle
<1> HIDE DEF answers, where
<1>5. PICK g \in Goals : /\ On(client, doc.tree, Tail(stack), TRUE, g)
                         /\ \E h \in Goals : Reading(client, Top, g, FALSE, h)
  BY <1>2, ExactTop
<1>6. Top.n = g.tree /\ g.tree \in Trees
  BY <1>2, <1>5, GoalsOf DEF Reading
<1>7. Node = Header(g.tree)
  <2>1. << >> \in Seq(Trees) /\ Left(Top) = <<g.tree>> \o << >>
    BY <1>2, <1>6 DEF Left
  <2>2. QED
    BY <1>2, <1>6, <2>1, ExactNode
<1>8. hint \in Hints /\ (client \in ValueClients => hint = "any")
  BY DEF HintsOfValue, ValueClients, Hints, KeyHints
<1>9. Fits(visit, g.tree) /\ Tells(visit, g.tree)
  <2>1. Answer(hint, TapeDe(hint, Header(g.tree)), Val(Node)).step # "error"
    BY <1>3, <1>4, <1>7
  <2>2. Fits(TapeDe(hint, Header(g.tree)), g.tree)
    BY <1>6, <1>8, <2>1, AnswerFits
  <2>3. TapeDe(hint, Header(g.tree)) \notin {"error", "undefined"}
    BY <2>2 DEF Fits, VisitsOf, LeafVisits, StrVisits, NumberVisits, IntVisits
  <2>4. QED
    BY <1>6, <1>7, <1>8, <2>2, <2>3, TapeDeTells
<1>10. ASSUME visit \in LeafVisits
       PROVE  Result(client, Taken(visit, Val(Header(g.tree))), g)
  <2>1. client \in ValueClients => visit = AnyVisit[g.tree.kind]
    <3>1. client \in ValueClients => visit = AnyVisit[Header(g.tree).kind]
      BY <1>7, <1>8 DEF TapeDe, Unchecked, IntHints
    <3>2. QED
      BY <1>6, <3>1, HeaderKind
  <2> HIDE DEF visit
  <2>2. Taken(visit, Val(Header(g.tree))) = Made(client, g.tree)
    BY <1>6, <1>9, <1>10, <2>1, TakenIsMade DEF DemandInv, Known
  <2>3. QED
    BY <2>2, ResultOf
<1> HIDE DEF visit, n
<1>11. Visit(visit, Node, Top.n, Tail(stack))
  BY <1>1, <1>4 DEF n
<1>12. QED
  BY <1>1, <1>2, <1>5, <1>6, <1>9, <1>10, <1>11, ExactRead

LEMMA ExactKey ==
  ASSUME DemandInv, ReadsExactly, NEW hint \in KeyHints, DeserializeKey(hint),
         phase' = "running"
  PROVE  ReadsExactly'
<1> DEFINE visit == TapeKey(hint, Node)
           n == Top.n
           answers == [r \in live |->
                         IF r = "tape" THEN Answer(hint, visit, Val(Node))
                         ELSE Answer(hint, DomKey(r, hint, n), Val(n))]
           where == [at |-> "key", hint |-> hint, n |-> n]
<1>1. /\ Calls("key") /\ Settle(answers, where) /\ idx' = idx + Consumed(visit)
      /\ IF answers["tape"].step = "error" THEN UNCHANGED <<stack, ret>>
         ELSE Visit(visit, Node, n, Tail(stack))
      /\ UNCHANGED <<doc, client>>
  BY Zenon DEF DeserializeKey
<1>2. /\ phase = "running" /\ ret = Nothing /\ stack # << >> /\ Top.at = "key"
      /\ "tape" \in live
  BY <1>1, CalledOn
<1>3. answers["tape"] = Answer(hint, visit, Val(Node))
  BY <1>2
<1>4. answers["tape"].step # "error"
  BY <1>1 DEF Settle
<1> HIDE DEF answers, where
<1>5. PICK g \in Goals : /\ On(client, doc.tree, Tail(stack), TRUE, g)
                         /\ \E h \in Goals : Reading(client, Top, g, FALSE, h)
  BY <1>2, ExactTop
<1>6. Top.n = g.tree /\ g.tree \in Trees /\ g.key /\ g.tree.kind = "String"
  BY <1>2, <1>5 DEF Reading, Goals
<1>7. Node = Header(g.tree)
  <2>1. << >> \in Seq(Trees) /\ Left(Top) = <<g.tree>> \o << >>
    BY <1>2, <1>6 DEF Left
  <2>2. QED
    BY <1>2, <1>6, <2>1, ExactNode
<1>8. Fits(visit, g.tree)
  <2>1. Answer(hint, TapeKey(hint, Header(g.tree)), Val(Node)).step # "error"
    BY <1>3, <1>4, <1>7
  <2>2. QED
    BY <1>6, <1>7, <2>1, KeyAnswerFits
<1> HIDE DEF visit, n
<1>9. Result(client, Taken(visit, Val(Header(g.tree))), g)
  <2>1. Header(g.tree) = g.tree
    BY <1>6, LeafShape
  <2>2. QED
    BY <1>6, <2>1, ValOfTaken DEF Result
<1>10. Visit(visit, Node, Top.n, Tail(stack))
  BY <1>1, <1>4 DEF n
<1>11. QED
  BY <1>1, <1>2, <1>5, <1>6, <1>8, <1>9, <1>10, ExactRead

LEMMA RemainsPush ==
  ASSUME NEW below, Remains(below), NEW f, Left(f) \in Seq(Trees)
  PROVE  Remains(<<f>> \o below)
<1>1. PICK S : below \in Seq(S)
  BY DEF Remains
<1>2. \A i \in DOMAIN below : Left(below[i]) \in Seq(Trees)
  BY DEF Remains
<1> DEFINE s == <<f>> \o below
<1>3. /\ s \in Seq(S \cup {f}) /\ DOMAIN s = 1..(Len(below) + 1) /\ s[1] = f
      /\ Len(below) \in Nat /\ DOMAIN below = 1..Len(below)
      /\ \A i \in 1..Len(below) : s[i + 1] = below[i]
  BY <1>1
<1> HIDE DEF s
<1>4. ASSUME NEW i \in DOMAIN s PROVE Left(s[i]) \in Seq(Trees)
  <2>1. CASE i = 1
    BY <2>1, <1>3
  <2>2. CASE i # 1
    <3>1. i - 1 \in 1..Len(below) /\ i = (i - 1) + 1
      BY <2>2, <1>3
    <3>2. s[i] = below[i - 1]
      BY <3>1, <1>3
    <3>3. QED
      BY <3>1, <3>2, <1>2, <1>3
  <2>3. QED
    BY <2>1, <2>2
<1>5. QED
  BY <1>3, <1>4 DEF Remains, s

(* A call f makes a call g. *)
LEMMA CallLeft ==
  ASSUME NEW below, Remains(below), NEW f, Left(f) \in Seq(Trees), NEW g, Left(g) \in Seq(Trees)
  PROVE  /\ Remaining(<<g, f>> \o below) = Left(g) \o (Left(f) \o Remaining(below))
         /\ <<g>> \o (<<f>> \o below) = <<g, f>> \o below
<1>1. Remains(<<f>> \o below) /\ Remaining(<<f>> \o below) = Left(f) \o Remaining(below)
  BY RemainsPush, RemainingPush
<1>2. Remaining(<<g>> \o (<<f>> \o below)) = Left(g) \o Remaining(<<f>> \o below)
  BY <1>1, RemainingPush
<1>3. PICK S : below \in Seq(S)
  BY DEF Remains
<1>4. <<g>> \o (<<f>> \o below) = <<g, f>> \o below
  BY <1>3, TwoOnTop
<1>5. QED
  BY <1>1, <1>2, <1>4

LEMMA CallOn ==
  ASSUME ReadsExactly, UNCHANGED <<doc, client, idx, ret>>, ret = Nothing, stack # << >>,
         NEW f, NEW call, stack' = <<call, f>> \o Tail(stack), NEW h \in Goals,
         \E g \in Goals : On(client, doc.tree, Tail(stack), TRUE, g) /\ Reading(client, f, g, TRUE, h),
         call.at = "value" \/ (call.at = "key" /\ h.key), call.n = h.tree,
         <<h.tree>> \o (Left(f) \o Remaining(Tail(stack))) = Left(Top) \o Remaining(Tail(stack))
  PROVE  ReadsExactly'
<1> DEFINE below == Tail(stack)
<1>0. PICK g \in Goals : On(client, doc.tree, Tail(stack), TRUE, g) /\ Reading(client, f, g, TRUE, h)
  OBVIOUS
<1>1. Remains(below) /\ Remaining(stack) = Left(Top) \o Remaining(below)
  BY ExactTop
<1> HIDE DEF below
<1>2. Reading(client, call, h, FALSE, h)
  BY DEF Reading
<1>3. On(client, doc.tree, <<f>> \o below, TRUE, h)
  BY <1>0, OnPush DEF below
<1>4. On(client, doc.tree, <<call>> \o (<<f>> \o below), FALSE, h)
  BY <1>2, <1>3, OnPush
<1>5. Left(f) \in Seq(Trees)
  BY <1>0, LeftTrees
<1>6. Left(call) = <<h.tree>> /\ Left(call) \in Seq(Trees)
  <2>1. Left(call) = <<call.n>>
    BY DEF Left
  <2>2. h.tree \in Trees
    BY GoalsOf
  <2>3. QED
    BY <2>1, <2>2
<1>7. /\ Remaining(<<call, f>> \o below) = Left(call) \o (Left(f) \o Remaining(below))
      /\ <<call>> \o (<<f>> \o below) = <<call, f>> \o below
  BY <1>1, <1>5, <1>6, CallLeft
<1>8. On(client, doc.tree, stack', FALSE, h) /\ Remaining(stack') = Remaining(stack)
  BY <1>1, <1>4, <1>6, <1>7 DEF below
<1>9. (ret' # Nothing) = FALSE
  OBVIOUS
<1>10. QED
  BY <1>8, <1>9, ExactMoved

(* A call that has nothing left to read returns to the one that made it. *)
LEMMA ReturnOn ==
  ASSUME ReadsExactly, UNCHANGED <<doc, client, idx>>, ret = Nothing, stack # << >>,
         NEW g \in Goals, On(client, doc.tree, Tail(stack), TRUE, g),
         stack' = Tail(stack), ret' = Made(client, g.tree), ret' # Nothing, Left(Top) = << >>
  PROVE  ReadsExactly'
<1>1. /\ Remaining(stack) = << >> \o Remaining(Tail(stack))
      /\ Remaining(Tail(stack)) \in Seq(Trees)
  BY ExactTop
<1>2. Remaining(stack') = Remaining(stack)
  BY <1>1, NoneBefore
<1>3. Result(client, ret', g)
  BY ResultOf
<1>4. On(client, doc.tree, stack', ret' # Nothing, g)
  <2>1. (ret' # Nothing) = TRUE
    OBVIOUS
  <2>2. QED
    BY <2>1
<1>5. QED
  BY <1>2, <1>3, <1>4, ExactMoved

LEMMA ExactNextElement ==
  ASSUME DemandInv, ReadsExactly, NextElement
  PROVE  ReadsExactly'
<1>1. /\ phase = "running" /\ ret = Nothing /\ stack # << >> /\ Top.at = "seq"
      /\ UNCHANGED <<doc, client, idx>>
  BY CalledOn DEF NextElement
<1>2. DOMAIN Top = {"at", "len", "items", "built"}
  BY <1>1, TopFrame DEF Frame, Shape
<1>3. PICK g \in Goals : /\ On(client, doc.tree, Tail(stack), TRUE, g)
                         /\ \E h \in Goals : Reading(client, Top, g, FALSE, h)
  BY <1>1, ExactTop
<1> DEFINE t == g.tree
           r == Remaining(Tail(stack))
<1>4. PICK read \in Seq(Trees) :
        /\ t \in Trees /\ t.kind = "Array" /\ Top.items \in Seq(Trees) /\ Top.len = Len(Top.items)
        /\ Top.built = MadeItems(client, read) /\ t.items = read \o Top.items
  BY <1>1, <1>3, GoalsOf DEF Reading, ReadingArray
<1>5. r \in Seq(Trees) /\ Left(Top) = Top.items
  BY <1>1, ExactTop DEF Left
<1> HIDE DEF r, t
<1>6. CASE Top.len = 0
  <2>1. ret' = ArrayOf(Top.built) /\ stack' = Tail(stack)
    BY <1>6 DEF NextElement
  <2>2. Top.items = << >> /\ t.items = read
    <3>1. \A q \in Seq(Trees) : Len(q) = 0 => q = << >>
      OBVIOUS
    <3>2. \A q \in Seq(Trees) : q \o << >> = q
      OBVIOUS
    <3>3. QED
      BY <1>4, <1>6, <3>1, <3>2
  <2>3. ret' = Made(client, t)
    BY <1>4, <2>1, <2>2, MadeArray
  <2>4. ret' # Nothing
    <3>1. ret'.kind = "Array"
      BY <2>1 DEF ArrayOf
    <3>2. QED
      BY <3>1 DEF Nothing
  <2>5. QED
    BY <1>1, <1>3, <1>5, <2>1, <2>2, <2>3, <2>4, ReturnOn DEF t
<1>7. CASE Top.len # 0
  <2> DEFINE call == ValueFrame(First(Top.items))
             f == [Top EXCEPT !.len = @ - 1, !.items = Rest(@)]
             x == Head(Top.items)
             rest == Tail(Top.items)
             h == Goal(x, FALSE)
  <2>1. stack' = <<call, f>> \o Tail(stack) /\ ret' = ret
    BY <1>7 DEF NextElement
  <2>2. Top.items # << >>
    BY <1>4, <1>7
  <2>3. /\ t.items = Append(read, x) \o rest /\ x \in Trees /\ rest \in Seq(Trees)
        /\ Len(rest) = Top.len - 1 /\ Top.items = <<x>> \o rest
    <3>1. /\ read \o Top.items = Append(read, x) \o rest /\ x \in Trees /\ rest \in Seq(Trees)
          /\ Len(rest) = Len(Top.items) - 1 /\ Top.items = <<x>> \o rest
      BY <1>4, <2>2, MoveTree, Zenon
    <3>2. QED
      BY <1>4, <3>1
  <2>4. f.at = "seq" /\ f.len = Top.len - 1 /\ f.items = rest /\ f.built = Top.built
    BY <1>1, <1>2, <2>2 DEF Rest
  <2>5. call.at = "value" /\ call.n = x
    BY <2>2 DEF ValueFrame, First
  <2> HIDE DEF call, f, x, rest
  <2>6. h \in Goals /\ h.tree = x /\ ~ h.key
    BY <2>3, GoalsOf
  <2> HIDE DEF h
  <2>7. ReadingArray(client, f, t, TRUE, h)
    BY <1>4, <2>3, <2>4, <2>6 DEF ReadingArray
  <2>8. Reading(client, f, g, TRUE, h)
    BY <2>4, <2>7 DEF Reading, t
  <2>9. <<h.tree>> \o (Left(f) \o r) = Left(Top) \o r
    <3>1. Left(f) = rest
      BY <2>4 DEF Left
    <3>2. <<x>> \in Seq(Trees)
      BY <2>3
    <3>3. (<<x>> \o rest) \o r = <<x>> \o (rest \o r)
      BY <1>5, <2>3, <3>2, Regroup, SMTT(30)
    <3>4. QED
      BY <1>5, <2>3, <2>6, <3>1, <3>3
  <2>10. <<h.tree>> \o (Left(f) \o Remaining(Tail(stack))) = Left(Top) \o Remaining(Tail(stack))
    BY <2>9 DEF r
  <2>11. \E k \in Goals : On(client, doc.tree, Tail(stack), TRUE, k) /\ Reading(client, f, k, TRUE, h)
    BY <1>3, <2>8
  <2>12. QED
    BY <1>1, <2>1, <2>5, <2>6, <2>10, <2>11, CallOn
<1>8. QED
  BY <1>6, <1>7

LEMMA ExactNextKey ==
  ASSUME DemandInv, ReadsExactly, NextKey
  PROVE  ReadsExactly'
<1>1. /\ phase = "running" /\ ret = Nothing /\ stack # << >> /\ Top.at = "map"
      /\ Top.key = Nothing /\ UNCHANGED <<doc, client, idx>>
  BY CalledOn DEF NextKey
<1>2. DOMAIN Top = {"at", "len", "entries", "v", "key", "built"}
  BY <1>1, TopFrame DEF Frame, Shape
<1>3. PICK g \in Goals : /\ On(client, doc.tree, Tail(stack), TRUE, g)
                         /\ \E h \in Goals : Reading(client, Top, g, FALSE, h)
  BY <1>1, ExactTop
<1> DEFINE t == g.tree
           r == Remaining(Tail(stack))
<1>4. PICK read \in Seq(KeyedType) :
        /\ t \in Trees /\ t.kind = "Object"
        /\ Top.entries \in Seq(KeyedType) /\ Top.len = Len(Top.entries)
        /\ Top.built = MadeEntries(client, read) /\ Top.v = Nothing
        /\ t.entries = read \o Top.entries
  BY <1>1, <1>3, GoalsOf DEF Reading, ReadingObject
<1>5. r \in Seq(Trees) /\ Left(Top) = Fields(Top.entries)
  <2>1. Fields(Top.entries) \in Seq(Trees)
    BY <1>4, FieldsOf
  <2>2. Left(Top) = << >> \o Fields(Top.entries)
    BY <1>1, <1>4 DEF Left
  <2>3. QED
    BY <1>1, <2>1, <2>2, ExactTop, NoneBefore
<1> HIDE DEF r, t
<1>6. CASE Top.len = 0
  <2>1. ret' = ObjectOf(Top.built) /\ stack' = Tail(stack)
    BY <1>6 DEF NextKey
  <2>2. Top.entries = << >> /\ t.entries = read
    <3>1. \A q \in Seq(KeyedType) : Len(q) = 0 => q = << >>
      OBVIOUS
    <3>2. \A q \in Seq(KeyedType) : q \o << >> = q
      OBVIOUS
    <3>3. QED
      BY <1>4, <1>6, <3>1, <3>2
  <2>3. ret' = Made(client, t)
    BY <1>4, <2>1, <2>2, MadeObject
  <2>4. ret' # Nothing
    <3>1. ret'.kind = "Object"
      BY <2>1 DEF ObjectOf
    <3>2. QED
      BY <3>1 DEF Nothing
  <2>5. Left(Top) = << >>
    BY <1>5, <2>2, FieldsNone
  <2>6. QED
    BY <1>1, <1>3, <2>1, <2>3, <2>4, <2>5, ReturnOn DEF t
<1>7. CASE Top.len # 0
  <2> DEFINE e == First(Top.entries)
             call == KeyFrame(e)
             f == [Top EXCEPT !.len = @ - 1, !.entries = Rest(@), !.v = ValueOf(e)]
             rest == Tail(Top.entries)
             key == Leaf("String", e.key)
             h == Goal(key, TRUE)
  <2>1. stack' = <<call, f>> \o Tail(stack) /\ ret' = ret
    BY <1>7 DEF NextKey
  <2>2. Top.entries # << >>
    BY <1>4, <1>7
  <2>3. e = Head(Top.entries)
    BY <2>2 DEF First
  <2>4. /\ t.entries = Append(read, e) \o rest /\ e \in KeyedType /\ rest \in Seq(KeyedType)
        /\ Len(rest) = Top.len - 1
    <3>1. /\ read \o Top.entries = Append(read, Head(Top.entries)) \o rest
          /\ Head(Top.entries) \in KeyedType /\ rest \in Seq(KeyedType)
          /\ Len(rest) = Len(Top.entries) - 1
      BY <1>4, <2>2, MoveKeyed, Zenon
    <3>2. QED
      BY <1>4, <2>3, <3>1
  <2>5. /\ Fields(Top.entries) = <<key>> \o (<<e.value>> \o Fields(rest))
        /\ Fields(rest) \in Seq(Trees)
    BY <1>4, <2>2, <2>3, FieldsMove
  <2>6. rest = Rest(Top.entries)
    BY <2>2 DEF Rest
  <2> HIDE DEF e, rest
  <2>7. /\ e # Nothing /\ key \in Trees /\ e.value \in Trees /\ e.value # Nothing
        /\ key.kind = "String"
    <3>1. e \in EntryType /\ key \in Trees
      BY <2>4 DEF KeyedType
    <3>2. e.value \in Trees /\ e # Nothing
      BY <3>1 DEF EntryType, Nothing
    <3>3. key.kind = "String"
      BY DEF Leaf
    <3> HIDE DEF key
    <3>4. QED
      BY <3>1, <3>2, <3>3, TreeIsSomething
  <2>8. /\ f.at = "map" /\ f.len = Top.len - 1 /\ f.entries = rest /\ f.built = Top.built
        /\ f.key = Nothing /\ f.v = e.value
    BY <1>1, <1>2, <2>6, <2>7 DEF ValueOf
  <2>9. call.at = "key" /\ call.n = key
    BY <2>7 DEF KeyFrame, KeyOf
  <2> HIDE DEF call, f
  <2>10. h \in Goals /\ h.tree = key /\ h.key /\ h = Goal(Leaf("String", e.key), TRUE)
    BY <2>7, GoalsOf
  <2> HIDE DEF h, key
  <2>11. ReadingObject(client, f, t, TRUE, h)
    BY <1>4, <2>4, <2>8, <2>10 DEF ReadingObject
  <2>12. Reading(client, f, g, TRUE, h)
    BY <2>8, <2>11 DEF Reading, t
  <2>13. <<h.tree>> \o (Left(f) \o r) = Left(Top) \o r
    <3>1. Left(f) = <<e.value>> \o Fields(rest)
      BY <2>7, <2>8 DEF Left
    <3>2. <<key>> \in Seq(Trees) /\ <<e.value>> \o Fields(rest) \in Seq(Trees)
      BY <2>5, <2>7
    <3>3. (<<key>> \o (<<e.value>> \o Fields(rest))) \o r = <<key>> \o ((<<e.value>> \o Fields(rest)) \o r)
      BY <1>5, <3>2, Regroup, SMTT(30)
    <3>4. QED
      BY <1>5, <2>5, <2>10, <3>1, <3>3
  <2>14. <<h.tree>> \o (Left(f) \o Remaining(Tail(stack))) = Left(Top) \o Remaining(Tail(stack))
    BY <2>13 DEF r
  <2>15. UNCHANGED <<doc, client, idx, ret>> /\ call.at = "key" /\ h.key /\ call.n = h.tree
    BY <1>1, <2>1, <2>9, <2>10
  <2>16. \E k \in Goals : On(client, doc.tree, Tail(stack), TRUE, k) /\ Reading(client, f, k, TRUE, h)
    BY <1>3, <2>12
  <2>17. QED
    BY <1>1, <2>1, <2>10, <2>14, <2>15, <2>16, CallOn
<1>8. QED
  BY <1>6, <1>7

LEMMA ExactNextValue ==
  ASSUME DemandInv, ReadsExactly, NextValue
  PROVE  ReadsExactly'
<1>1. /\ phase = "running" /\ ret = Nothing /\ stack # << >> /\ Top.at = "map"
      /\ Top.key # Nothing /\ UNCHANGED <<doc, client, idx, ret>>
  BY CalledOn DEF NextValue
<1>2. DOMAIN Top = {"at", "len", "entries", "v", "key", "built"}
  BY <1>1, TopFrame DEF Frame, Shape
<1>3. PICK g \in Goals : /\ On(client, doc.tree, Tail(stack), TRUE, g)
                         /\ \E h \in Goals : Reading(client, Top, g, FALSE, h)
  BY <1>1, ExactTop
<1> DEFINE t == g.tree
           r == Remaining(Tail(stack))
<1>4. PICK read \in Seq(KeyedType), e \in KeyedType :
        /\ t.kind = "Object"
        /\ Top.entries \in Seq(KeyedType) /\ Top.len = Len(Top.entries)
        /\ Top.built = MadeEntries(client, read) /\ Top.v = e.value /\ Val(Top.key) = e.key
        /\ t.entries = Append(read, e) \o Top.entries
  BY <1>1, <1>3 DEF Reading, ReadingObject
<1>5. e.value \in Trees /\ e.value # Nothing /\ Fields(Top.entries) \in Seq(Trees)
  BY <1>4, FieldsOf, TreeIsSomething DEF KeyedType, EntryType
<1>6. r \in Seq(Trees) /\ Left(Top) = <<e.value>> \o Fields(Top.entries)
  BY <1>1, <1>4, <1>5, ExactTop DEF Left
<1> HIDE DEF r, t
<1> DEFINE call == ValueFrame(Top.v)
           f == [Top EXCEPT !.v = Nothing]
           h == Goal(e.value, FALSE)
<1>7. stack' = <<call, f>> \o Tail(stack)
  BY DEF NextValue
<1>8. /\ f.at = "map" /\ f.len = Top.len /\ f.entries = Top.entries /\ f.built = Top.built
      /\ f.key = Top.key /\ f.v = Nothing
  BY <1>1, <1>2
<1>9. call.at = "value" /\ call.n = e.value
  BY <1>4 DEF ValueFrame
<1> HIDE DEF call, f
<1>10. h \in Goals /\ h.tree = e.value /\ ~ h.key /\ h = Goal(e.value, FALSE)
  BY <1>5, GoalsOf
<1> HIDE DEF h
<1>11. ReadingObject(client, f, t, TRUE, h)
  BY <1>1, <1>4, <1>8, <1>10 DEF ReadingObject
<1>12. Reading(client, f, g, TRUE, h)
  BY <1>8, <1>11 DEF Reading, t
<1>13. <<h.tree>> \o (Left(f) \o r) = Left(Top) \o r
  <2>1. Left(f) = Fields(Top.entries)
    BY <1>5, <1>8, NoneBefore DEF Left
  <2>2. <<e.value>> \in Seq(Trees)
    BY <1>5
  <2>3. (<<e.value>> \o Fields(Top.entries)) \o r = <<e.value>> \o (Fields(Top.entries) \o r)
    BY <1>5, <1>6, <2>2, Regroup, SMTT(30)
  <2>4. QED
    BY <1>6, <1>10, <2>1, <2>3
<1>14. <<h.tree>> \o (Left(f) \o Remaining(Tail(stack))) = Left(Top) \o Remaining(Tail(stack))
  BY <1>13 DEF r
<1>15. \E k \in Goals : On(client, doc.tree, Tail(stack), TRUE, k) /\ Reading(client, f, k, TRUE, h)
  BY <1>3, <1>12
<1>16. call.at = "value" /\ call.n = h.tree
  BY <1>9, <1>10
<1>17. QED
  BY <1>1, <1>7, <1>10, <1>14, <1>15, <1>16, CallOn

LEMMA ExactVariantSeed ==
  ASSUME DemandInv, ReadsExactly, VariantSeed
  PROVE  ReadsExactly'
<1>1. /\ phase = "running" /\ ret = Nothing /\ stack # << >> /\ Top.at = "enum"
      /\ UNCHANGED <<doc, client, ret>>
  BY CalledOn DEF VariantSeed
<1>2. Top.unit \in BOOLEAN /\ DOMAIN Top = {"at", "unit", "name", "key", "n"}
  BY <1>1, TopFrame DEF Frame, Shape
<1> DEFINE name == IF Top.unit THEN Top.name ELSE Node
           f == [Top EXCEPT !.at = "variant", !.name = name]
           below == Tail(stack)
<1>3. stack' = <<f>> \o below /\ idx' = IF Top.unit THEN idx ELSE idx + 1
  BY DEF VariantSeed
<1> HIDE DEF name
<1>4. /\ f.at = "variant" /\ f.unit = Top.unit /\ f.name = name /\ f.n = Top.n
  BY <1>2
<1> HIDE DEF f
<1>5. PICK g \in Goals : /\ On(client, doc.tree, below, TRUE, g)
                         /\ \E h \in Goals : Reading(client, Top, g, FALSE, h)
  BY <1>1, ExactTop
<1>6. PICK h \in Goals : ReadingVariant(Top, g.tree, FALSE, h)
  BY <1>1, <1>5 DEF Reading
<1>7. /\ Remaining(stack) = Left(Top) \o Remaining(below) /\ Remaining(below) \in Seq(Trees)
      /\ Remains(below)
  BY <1>1, ExactTop
<1> HIDE DEF below
<1>8. CASE Top.unit
  <2>1. ReadingVariant(f, g.tree, FALSE, h)
    BY <1>1, <1>4, <1>6, <1>8 DEF ReadingVariant, name
  <2>2. Reading(client, f, g, FALSE, h)
    BY <1>4, <2>1 DEF Reading
  <2>3. On(client, doc.tree, <<f>> \o below, FALSE, h)
    BY <1>5, <2>2, OnPush
  <2>4. Left(f) = << >> /\ Left(Top) = << >> /\ << >> \in Seq(Trees)
    BY <1>1, <1>4, <1>8 DEF Left
  <2>5. Remaining(<<f>> \o below) = << >> \o Remaining(below)
    BY <1>7, <2>4, RemainingPush
  <2>6. Remaining(stack') = Remaining(stack) /\ On(client, doc.tree, stack', FALSE, h)
    BY <1>3, <1>7, <2>3, <2>4, <2>5
  <2>7. (ret' # Nothing) = FALSE /\ idx' = idx
    BY <1>1, <1>3, <1>8
  <2>8. QED
    BY <1>1, <2>6, <2>7, ExactMoved
<1>9. CASE ~ Top.unit
  <2>1. PICK e \in KeyedType :
          g.tree = ObjectOf(<<e>>) /\ Top.n = e.value /\ Top.key = Leaf("String", e.key)
    BY <1>1, <1>6, <1>9 DEF ReadingVariant
  <2> DEFINE key == Leaf("String", e.key)
  <2>2. key \in Trees /\ e.value \in Trees /\ key.kind = "String" /\ Val(key) = e.key
    <3>1. e \in EntryType /\ key \in Trees
      BY DEF KeyedType
    <3>2. key.kind = "String" /\ Val(key) = e.key
      BY DEF Leaf, Val
    <3> HIDE DEF key
    <3>3. QED
      BY <3>1, <3>2 DEF EntryType
  <2> HIDE DEF key
  <2>3. Header(key) = key /\ Parts(key) = << >>
    BY <2>2, LeafShape
  <2>4. Left(Top) = <<key>> \o <<e.value>> /\ <<e.value>> \in Seq(Trees)
    <3>1. Left(Top) = <<Top.key, Top.n>>
      BY <1>1, <1>9 DEF Left
    <3>2. <<key, e.value>> = <<key>> \o <<e.value>>
      BY <2>2
    <3>3. QED
      BY <2>1, <2>2, <3>1, <3>2 DEF key
  <2>5. /\ Node = key
        /\ SubSeq(doc.tape, idx + 1, Len(doc.tape)) = Forest(<< >> \o (<<e.value>> \o Remaining(below)))
        /\ <<e.value>> \o Remaining(below) \in Seq(Trees)
    BY <1>1, <2>2, <2>3, <2>4, ExactNode DEF below
  <2>6. SubSeq(doc.tape, idx + 1, Len(doc.tape)) = Forest(<<e.value>> \o Remaining(below))
    BY <2>5, NoneBefore
  <2>7. name = key /\ idx' = idx + 1
    BY <1>3, <1>9, <2>5 DEF name
  <2>8. ReadingVariant(f, g.tree, FALSE, h)
    BY <1>4, <1>9, <2>1, <2>2, <2>7 DEF ReadingVariant
  <2>9. Reading(client, f, g, FALSE, h)
    BY <1>4, <2>8 DEF Reading
  <2>10. On(client, doc.tree, stack', FALSE, h)
    BY <1>3, <1>5, <2>9, OnPush
  <2>11. Left(f) = <<e.value>>
    BY <1>4, <1>9, <2>1 DEF Left
  <2>12. Remaining(stack') = <<e.value>> \o Remaining(below)
    BY <1>3, <1>7, <2>4, <2>11, RemainingPush
  <2>13. SubSeq(doc'.tape, idx', Len(doc'.tape)) = Forest(Remaining(stack'))
    BY <1>1, <2>6, <2>7, <2>12
  <2>14. (ret' # Nothing) = FALSE
    BY <1>1
  <2>15. On(client', doc'.tree, stack', ret' # Nothing, h)
    BY <1>1, <2>10, <2>14
  <2>16. QED
    BY <2>13, <2>14, <2>15 DEF ReadsExactly
<1>10. QED
  BY <1>2, <1>8, <1>9

(* The visitor of a variant with content goes on with what it contains.    *)
LEMMA ExactContent ==
  ASSUME DemandInv, phase = "running", ReadsExactly, ret = Nothing, stack # << >>,
         NEW f, NEW n \in Trees, Left(Top) = <<n>>, Left(f) = << >>, UNCHANGED <<doc, client>>,
         On(client, doc.tree, <<f>> \o Tail(stack), TRUE, Goal(n, FALSE)),
         NEW visit, Fits(visit, n), Tells(visit, n), visit \in {"visit_unit", "visit_seq", "visit_map"},
         Visit(visit, Node, n, <<f>> \o Tail(stack)), idx' = idx + 1
  PROVE  ReadsExactly'
<1> DEFINE below == Tail(stack)
           content == <<f>> \o below
           h == Goal(n, FALSE)
<1>1. h \in Goals /\ h.tree = n /\ ~ h.key
  BY GoalsOf
<1>2. doc.tree \in Trees /\ client \in Clients
  BY DocShape DEF DemandInv, Known
<1>3. Remains(below) /\ Remaining(below) \in Seq(Trees)
  BY ExactTop
<1>4. /\ Node = Header(n)
      /\ SubSeq(doc.tape, idx + 1, Len(doc.tape)) = Forest(Parts(n) \o (<< >> \o Remaining(below)))
  <2>1. << >> \in Seq(Trees) /\ Left(Top) = <<n>> \o << >>
    OBVIOUS
  <2>2. QED
    BY <2>1, ExactNode
<1> HIDE DEF h
<1>5. Remaining(content) = << >> \o Remaining(below)
  <2>1. Left(f) \in Seq(Trees)
    OBVIOUS
  <2>2. QED
    BY <1>3, <2>1, RemainingPush
<1> HIDE DEF below
<1>6. Visit(visit, Header(h.tree), h.tree, content)
  BY <1>1, <1>4 DEF below
<1>7. ASSUME visit \in LeafVisits
      PROVE  Result(client, Taken(visit, Val(Header(h.tree))), h)
  <2>1. visit = "visit_unit" /\ visit = AnyVisit[n.kind]
    BY <1>7 DEF LeafVisits, StrVisits, NumberVisits, IntVisits, Tells, AnyVisit
  <2>2. Taken(visit, Val(Header(n))) = Made(client, n)
    BY <1>2, <1>7, <2>1, TakenIsMade
  <2>3. QED
    BY <1>1, <2>2, ResultOf
<1>8. On(client, doc.tree, content, TRUE, h) /\ Fits(visit, h.tree)
  BY <1>1 DEF h, below
<1>9. ret = Nothing /\ visit \notin {"visit_some", "visit_newtype_struct"}
  OBVIOUS
<1> HIDE DEF content
<1>10. /\ \E k \in Goals : /\ On(client, doc.tree, stack', ret' # Nothing, k)
                           /\ ret' # Nothing => Result(client, ret', k)
       /\ Remaining(stack') = Parts(h.tree) \o Remaining(content)
  BY <1>1, <1>2, <1>6, <1>7, <1>8, <1>9, VisitOn
<1>11. SubSeq(doc'.tape, idx', Len(doc'.tape)) = Forest(Remaining(stack'))
  BY <1>1, <1>4, <1>5, <1>10
<1>12. PICK k \in Goals : /\ On(client, doc.tree, stack', ret' # Nothing, k)
                          /\ ret' # Nothing => Result(client, ret', k)
  BY <1>10
<1>13. On(client', doc'.tree, stack', ret' # Nothing, k) /\ (ret' # Nothing => Result(client', ret', k))
  BY <1>12
<1>14. QED
  BY <1>11, <1>13 DEF ReadsExactly

LEMMA ExactReadVariant ==
  ASSUME DemandInv, ReadsExactly, NEW kind \in Variants, ReadVariant(kind), phase' = "running"
  PROVE  ReadsExactly'
<1> DEFINE n == Top.n
           hint == VariantHint[kind]
           visit == IF Top.unit THEN UnitOnly(kind) ELSE TapeVariant(kind, Node)
           domVisit(r) == IF Top.unit THEN UnitOnly(kind) ELSE DomVariant(r, kind, n)
           answers == [r \in live |-> Answer(hint, IF r = "tape" THEN visit ELSE domVisit(r), "")]
           where == [at |-> kind, hint |-> hint, n |-> n]
           f == [Top EXCEPT !.at = "content"]
           below == Tail(stack)
<1>1. /\ Calls("variant") /\ Settle(answers, where) /\ UNCHANGED <<doc, client>>
      /\ idx' = IF Top.unit THEN idx ELSE idx + Consumed(visit)
      /\ IF answers["tape"].step = "error" THEN UNCHANGED <<stack, ret>>
         ELSE IF Top.unit THEN ret' = Leaf("String", Val(Top.name)) /\ stack' = below
         ELSE IF kind = "newtype_variant"
           THEN stack' = <<ValueFrame(n)>> \o (<<f>> \o below) /\ ret' = ret
         ELSE Visit(visit, Node, n, <<f>> \o below)
  BY Zenon DEF ReadVariant
<1>2. /\ phase = "running" /\ ret = Nothing /\ stack # << >> /\ Top.at = "variant"
      /\ "tape" \in live
  BY <1>1, CalledOn
<1>3. answers["tape"] = Answer(hint, visit, "")
  BY <1>2
<1>4. answers["tape"].step # "error"
  BY <1>1 DEF Settle
<1> HIDE DEF answers, where
<1>5. Top.unit \in BOOLEAN /\ DOMAIN Top = {"at", "unit", "name", "key", "n"}
  BY <1>2, TopFrame DEF Frame, Shape
<1>6. f.at = "content" /\ f.unit = Top.unit /\ f.name = Top.name /\ f.n = Top.n
  BY <1>5
<1> HIDE DEF f
<1>7. PICK g \in Goals : /\ On(client, doc.tree, below, TRUE, g)
                         /\ \E h \in Goals : Reading(client, Top, g, FALSE, h)
  BY <1>2, ExactTop
<1>8. PICK any \in Goals : ReadingVariant(Top, g.tree, FALSE, any)
  BY <1>2, <1>7 DEF Reading
<1>9. CASE Top.unit
  <2>1. ret' = Leaf("String", Val(Top.name)) /\ stack' = below /\ idx' = idx
    BY <1>1, <1>4, <1>9
  <2>2. g.tree \in Trees /\ g.tree.kind = "String" /\ Top.name = g.tree
    BY <1>8, <1>9, GoalsOf DEF ReadingVariant
  <2>3. ret' = Made(client, g.tree)
    BY <2>1, <2>2, MadeLeaf DEF Numbers
  <2>4. ret' # Nothing /\ Left(Top) = << >>
    BY <1>2, <1>9, <2>1 DEF Leaf, Nothing, Left
  <2>5. QED
    BY <1>1, <1>2, <1>7, <2>1, <2>3, <2>4, ReturnOn
<1>10. CASE ~ Top.unit
  <2>1. PICK e \in KeyedType : g.tree = ObjectOf(<<e>>) /\ n = e.value /\ Val(Top.name) = e.key
    BY <1>2, <1>8, <1>10 DEF ReadingVariant
  <2>2. n \in Trees
    BY <2>1 DEF KeyedType, EntryType
  <2> DEFINE h == Goal(n, FALSE)
  <2>3. h \in Goals /\ h.tree = n /\ ~ h.key
    BY <2>2, GoalsOf
  <2>4. Left(Top) = <<n>> /\ Left(f) = << >>
    BY <1>2, <1>6, <1>10 DEF Left
  <2>5. ReadingVariant(f, g.tree, TRUE, h)
    BY <1>6, <1>10, <2>1 DEF ReadingVariant
  <2> HIDE DEF h
  <2>6. Reading(client, f, g, TRUE, h)
    BY <1>6, <2>5 DEF Reading
  <2>7. CASE kind = "newtype_variant"
    <3> DEFINE call == ValueFrame(n)
    <3>1. stack' = <<call>> \o (<<f>> \o below) /\ ret' = ret
      BY <1>1, <1>4, <1>10, <2>7
    <3>2. visit = "visit_newtype_struct"
      BY <1>10, <2>7 DEF TapeVariant
    <3>3. idx' = idx + 0
      BY <1>1, <1>10, <3>2 DEF Consumed
    <3>4. call.at = "value" /\ call.n = h.tree
      BY <2>3 DEF ValueFrame
    <3> HIDE DEF call
    <3>5. PICK S : below \in Seq(S)
      BY <1>2, ExactTop
    <3>6. stack' = <<call, f>> \o Tail(stack)
      BY <3>1, <3>5, TwoOnTop
    <3>7. <<h.tree>> \o (Left(f) \o Remaining(Tail(stack))) = Left(Top) \o Remaining(Tail(stack))
      BY <1>2, <2>3, <2>4, ExactTop, NoneBefore
    <3>8. \E k \in Goals : On(client, doc.tree, Tail(stack), TRUE, k) /\ Reading(client, f, k, TRUE, h)
      BY <1>7, <2>6
    <3>9. idx' = idx /\ UNCHANGED <<doc, client, ret>>
      BY <1>1, <1>2, <3>1, <3>3 DEF DemandInv
    <3>10. QED
      BY <1>2, <2>3, <3>4, <3>6, <3>7, <3>8, <3>9, CallOn
  <2>8. CASE kind # "newtype_variant"
    <3>1. Visit(visit, Node, n, <<f>> \o below) /\ idx' = idx + Consumed(visit)
      BY <1>1, <1>4, <1>10, <2>8
    <3>2. hint \in {"unit", "tuple", "struct"} /\ visit = TapeDe(hint, Node)
      BY <1>10, <2>8, VariantAsHint
    <3>3. hint \in Hints
      BY <3>2 DEF Hints
    <3>4. Node = Header(n)
      <4>1. << >> \in Seq(Trees) /\ Left(Top) = <<n>> \o << >>
        BY <2>4
      <4>2. QED
        BY <1>2, <2>2, <4>1, ExactNode
    <3> HIDE DEF visit, hint
    <3>5. visit \in {"visit_unit", "visit_seq", "visit_map"}
      <4>1. visit # "undefined" /\ Takes(hint, visit, "")
        BY <1>3, <1>4, AnswerTaken
      <4>2. QED
        BY <3>2, <4>1 DEF Takes, IntHints
    <3>6. Fits(visit, n) /\ Tells(visit, n)
      <4>1. Answer(hint, TapeDe(hint, Header(n)), "").step # "error"
        BY <1>3, <1>4, <3>2, <3>4
      <4>2. TapeDe(hint, Header(n)) \notin {"error", "undefined"}
        BY <3>2, <3>4, <3>5
      <4>3. QED
        BY <2>2, <3>2, <3>3, <3>4, <4>1, <4>2, AnswerFits, TapeDeTells
    <3>7. idx' = idx + 1
      BY <3>1, <3>5 DEF Consumed
    <3>8. On(client, doc.tree, <<f>> \o below, TRUE, h)
      BY <1>7, <2>3, <2>6, OnPush
    <3> HIDE DEF n
    <3>9. QED
      BY <1>1, <1>2, <2>2, <2>4, <3>1, <3>5, <3>6, <3>7, <3>8, ExactContent DEF h
  <2>9. QED
    BY <2>7, <2>8
<1>11. QED
  BY <1>5, <1>9, <1>10

-----------------------------------------------------------------------------
(* The innermost call returns to the one that made it.                     *)

LEMMA ExactCaller ==
  ASSUME ReadsExactly, ret # Nothing, stack # << >>
  PROVE  /\ \E h \in Goals, g \in Goals :
              /\ Result(client, ret, h)
              /\ On(client, doc.tree, Tail(stack), TRUE, g)
              /\ Reading(client, Top, g, TRUE, h)
         /\ Remaining(stack) = Left(Top) \o Remaining(Tail(stack))
         /\ Left(Top) \in Seq(Trees) /\ Remaining(Tail(stack)) \in Seq(Trees)
         /\ Remains(Tail(stack))
<1>1. PICK h \in Goals : On(client, doc.tree, stack, TRUE, h) /\ Result(client, ret, h)
  BY DEF ReadsExactly
<1>2. PICK g \in Goals : Reading(client, Head(stack), g, TRUE, h)
                         /\ On(client, doc.tree, Tail(stack), TRUE, g)
  BY <1>1, OnTop
<1>3. Remains(stack)
  BY <1>1, OnRemains
<1>4. /\ Remaining(stack) = Left(Head(stack)) \o Remaining(Tail(stack))
      /\ Left(Head(stack)) \in Seq(Trees) /\ Remaining(Tail(stack)) \in Seq(Trees)
      /\ Remains(Tail(stack))
  BY <1>3, RemainingTop
<1>5. Top = Head(stack)
  BY DEF Top
<1> HIDE DEF Top
<1>6. QED
  BY <1>1, <1>2, <1>4, <1>5, Zenon

(* A call that goes on with what it was returned. *)
LEMMA GoOn ==
  ASSUME ReadsExactly, UNCHANGED <<doc, client, idx>>, ret # Nothing, stack # << >>,
         NEW f, stack' = <<f>> \o Tail(stack), ret' = Nothing, Left(f) = Left(Top),
         NEW h \in Goals,
         \E g \in Goals : On(client, doc.tree, Tail(stack), TRUE, g) /\ Reading(client, f, g, FALSE, h)
  PROVE  ReadsExactly'
<1>1. PICK g \in Goals : On(client, doc.tree, Tail(stack), TRUE, g) /\ Reading(client, f, g, FALSE, h)
  OBVIOUS
<1>2. On(client, doc.tree, stack', FALSE, h)
  BY <1>1, OnPush
<1>3. Remaining(stack') = Remaining(stack)
  BY ExactCaller, RemainingPush
<1>4. (ret' # Nothing) = FALSE
  OBVIOUS
<1>5. QED
  BY <1>2, <1>3, <1>4, ExactMoved

(* The keys of an object differ. *)
LEMMA KeysDiffer ==
  ASSUME NEW t \in Trees, t.kind = "Object",
         NEW read \in Seq(KeyedType), NEW e \in KeyedType, NEW rest \in Seq(KeyedType),
         t.entries = Append(read, e) \o rest
  PROVE  \A i \in DOMAIN read : read[i].key # e.key
<1> SUFFICES ASSUME NEW i \in DOMAIN read, read[i].key = e.key PROVE FALSE
  OBVIOUS
<1> DEFINE es == Append(read, e) \o rest
           j == Len(read) + 1
<1>1. /\ i \in DOMAIN es /\ j \in DOMAIN es /\ i # j
      /\ es[i] = read[i] /\ es[j] = e
  OBVIOUS
<1> HIDE DEF es, j
<1>2. Entries(t) = es
  BY ObjectShape DEF es
<1>3. \A k, l \in DOMAIN Entries(t) : Entries(t)[k].key = Entries(t)[l].key => k = l
  BY TreesAssumption
<1>4. QED
  BY <1>1, <1>2, <1>3

LEMMA MadeOneEntry ==
  ASSUME NEW c, NEW e \in KeyedType, ObjectOf(<<e>>) \in Trees
  PROVE  Made(c, ObjectOf(<<e>>)) = ObjectOf(<<Entry(e.key, Made(c, e.value))>>)
<1> DEFINE none == << >>
<1>1. none \in Seq(KeyedType) /\ Append(none, e) = <<e>>
  OBVIOUS
<1>2. MadeEntries(c, Append(none, e)) = Append(MadeEntries(c, none), Entry(e.key, Made(c, e.value)))
  BY <1>1, MadeOneEntryMore
<1>3. MadeEntries(c, none) = << >>
  BY MadeNothing
<1>4. \A y : Append(<< >>, y) = <<y>>
  OBVIOUS
<1> HIDE DEF none
<1>5. MadeEntries(c, <<e>>) = <<Entry(e.key, Made(c, e.value))>>
  BY <1>1, <1>2, <1>3, <1>4, Zenon
<1> DEFINE t == ObjectOf(<<e>>)
<1>6. t.kind = "Object" /\ t.entries = <<e>>
  BY DEF ObjectOf
<1>7. Made(c, t) = ObjectOf(MadeEntries(c, t.entries))
  <2> HIDE DEF t
  <2>1. t \in Trees
    BY DEF t
  <2>2. QED
    BY <1>6, <2>1, MadeObject
<1>8. QED
  BY <1>5, <1>6, <1>7

LEMMA ExactReturnSeq ==
  ASSUME DemandInv, ReadsExactly, Return, stack # << >>, Top.at = "seq"
  PROVE  ReadsExactly'
<1>1. phase = "running" /\ ret # Nothing /\ UNCHANGED <<doc, client, idx>>
  BY DEF Return
<1>2. DOMAIN Top = {"at", "len", "items", "built"}
  BY <1>1, TopFrame DEF Frame, Shape
<1> DEFINE f == [Top EXCEPT !.built = Append(@, ret)]
<1>3. stack' = <<f>> \o Tail(stack) /\ ret' = Nothing
  BY DEF Return
<1>4. f.at = "seq" /\ f.len = Top.len /\ f.items = Top.items /\ f.built = Append(Top.built, ret)
  BY <1>2
<1> HIDE DEF f
<1>5. PICK h \in Goals, g \in Goals :
        /\ Result(client, ret, h)
        /\ On(client, doc.tree, Tail(stack), TRUE, g)
        /\ Reading(client, Top, g, TRUE, h)
  BY <1>1, ExactCaller
<1>6. ReadingArray(client, Top, g.tree, TRUE, h)
  BY <1>5 DEF Reading
<1>7. PICK read \in Seq(Trees) :
        /\ Top.built = MadeItems(client, read)
        /\ g.tree.items = Append(read, h.tree) \o Top.items /\ ~ h.key
  BY <1>6 DEF ReadingArray
<1>8. ret = Made(client, h.tree) /\ h.tree \in Trees
  BY <1>5, <1>7, GoalsOf DEF Result
<1>9. f.built = MadeItems(client, Append(read, h.tree)) /\ Append(read, h.tree) \in Seq(Trees)
  BY <1>4, <1>7, <1>8, MadeOneMore
<1>10. ReadingArray(client, f, g.tree, FALSE, h)
  <2> DEFINE all == Append(read, h.tree)
  <2>1. all \in Seq(Trees) /\ f.built = MadeItems(client, all) /\ g.tree.items = all \o f.items
    BY <1>4, <1>7, <1>9
  <2> HIDE DEF all
  <2>2. QED
    BY <1>4, <1>6, <2>1 DEF ReadingArray
<1>11. Reading(client, f, g, FALSE, h) /\ Left(f) = Left(Top)
  BY <1>4, <1>10 DEF Reading, Left
<1>12. \E k \in Goals : On(client, doc.tree, Tail(stack), TRUE, k) /\ Reading(client, f, k, FALSE, h)
  BY <1>5, <1>11
<1>13. QED
  BY <1>1, <1>3, <1>11, <1>12, GoOn

LEMMA ExactReturnMap ==
  ASSUME DemandInv, ReadsExactly, Return, stack # << >>, Top.at = "map"
  PROVE  ReadsExactly'
<1>1. phase = "running" /\ ret # Nothing /\ UNCHANGED <<doc, client, idx>>
  BY DEF Return
<1>2. DOMAIN Top = {"at", "len", "entries", "v", "key", "built"}
  BY <1>1, TopFrame DEF Frame, Shape
<1>3. PICK h \in Goals, g \in Goals :
        /\ Result(client, ret, h)
        /\ On(client, doc.tree, Tail(stack), TRUE, g)
        /\ Reading(client, Top, g, TRUE, h)
  BY <1>1, ExactCaller
<1>4. ReadingObject(client, Top, g.tree, TRUE, h) /\ g.tree \in Trees
  BY <1>3, GoalsOf DEF Reading
<1>5. PICK read \in Seq(KeyedType), e \in KeyedType :
        /\ Top.built = MadeEntries(client, read)
        /\ g.tree.entries = Append(read, e) \o Top.entries
        /\ \/ Top.key = Nothing /\ Top.v = e.value /\ h = Goal(Leaf("String", e.key), TRUE)
           \/ Top.key # Nothing /\ Val(Top.key) = e.key /\ Top.v = Nothing /\ h = Goal(e.value, FALSE)
  BY <1>4 DEF ReadingObject
<1>6. /\ g.tree.kind = "Object" /\ Top.entries \in Seq(KeyedType) /\ Top.len = Len(Top.entries)
  BY <1>4 DEF ReadingObject
<1>7. CASE Top.key = Nothing
  <2> DEFINE f == [Top EXCEPT !.key = ret]
  <2>1. stack' = <<f>> \o Tail(stack) /\ ret' = Nothing
    BY <1>7 DEF Return
  <2>2. /\ f.at = "map" /\ f.len = Top.len /\ f.entries = Top.entries /\ f.built = Top.built
        /\ f.key = ret /\ f.v = Top.v
    BY <1>2
  <2> HIDE DEF f
  <2>3. Val(ret) = e.key
    <3>1. h.key /\ h.tree = Leaf("String", e.key)
      BY <1>5, <1>7 DEF Goal
    <3>2. Val(h.tree) = e.key
      BY <3>1 DEF Val, Leaf
    <3>3. QED
      BY <1>3, <3>1, <3>2 DEF Result
  <2>4. ReadingObject(client, f, g.tree, FALSE, h)
    BY <1>1, <1>5, <1>6, <1>7, <2>2, <2>3 DEF ReadingObject
  <2>5. Reading(client, f, g, FALSE, h) /\ Left(f) = Left(Top)
    BY <2>2, <2>4 DEF Reading, Left
  <2>6. \E k \in Goals : On(client, doc.tree, Tail(stack), TRUE, k) /\ Reading(client, f, k, FALSE, h)
    BY <1>3, <2>5
  <2>7. QED
    BY <1>1, <2>1, <2>5, <2>6, GoOn
<1>8. CASE Top.key # Nothing
  <2> DEFINE f == [Top EXCEPT !.key = Nothing, !.built = Insert(@, Val(Top.key), ret)]
  <2>1. stack' = <<f>> \o Tail(stack) /\ ret' = Nothing
    BY <1>8 DEF Return
  <2>2. /\ f.at = "map" /\ f.len = Top.len /\ f.entries = Top.entries
        /\ f.built = Insert(Top.built, Val(Top.key), ret)
        /\ f.key = Nothing /\ f.v = Top.v
    BY <1>2
  <2> HIDE DEF f
  <2>3. ret = Made(client, e.value) /\ Val(Top.key) = e.key /\ Top.v = Nothing
    <3>1. ~ h.key /\ h.tree = e.value
      BY <1>5, <1>8 DEF Goal
    <3>2. QED
      BY <1>3, <1>5, <1>8, <3>1 DEF Result
  <2>4. \A i \in DOMAIN read : read[i].key # e.key
    BY <1>4, <1>5, <1>6, KeysDiffer
  <2> DEFINE all == Append(read, e)
  <2>5. f.built = MadeEntries(client, all) /\ all \in Seq(KeyedType)
    <3>1. f.built = Append(MadeEntries(client, read), Entry(e.key, ret))
      BY <1>5, <2>2, <2>3, <2>4, InsertNew
    <3>2. QED
      BY <2>3, <3>1, MadeOneEntryMore
  <2>6. g.tree.entries = all \o f.entries
    BY <1>5, <2>2
  <2> HIDE DEF all
  <2>7. ReadingObject(client, f, g.tree, FALSE, h)
    BY <1>6, <2>2, <2>3, <2>5, <2>6 DEF ReadingObject
  <2>8. Reading(client, f, g, FALSE, h) /\ Left(f) = Left(Top)
    BY <2>2, <2>7 DEF Reading, Left
  <2>9. \E k \in Goals : On(client, doc.tree, Tail(stack), TRUE, k) /\ Reading(client, f, k, FALSE, h)
    BY <1>3, <2>8
  <2>10. QED
    BY <1>1, <2>1, <2>8, <2>9, GoOn
<1>9. QED
  BY <1>7, <1>8

LEMMA ExactReturnContent ==
  ASSUME DemandInv, ReadsExactly, Return, stack # << >>, Top.at = "content"
  PROVE  ReadsExactly'
<1>1. phase = "running" /\ ret # Nothing /\ UNCHANGED <<doc, client, idx>>
  BY DEF Return
<1>2. stack' = Tail(stack) /\ ret' = VariantOf(Top.name, ret)
  BY DEF Return
<1>3. PICK h \in Goals, g \in Goals :
        /\ Result(client, ret, h)
        /\ On(client, doc.tree, Tail(stack), TRUE, g)
        /\ Reading(client, Top, g, TRUE, h)
  BY <1>1, ExactCaller
<1>4. ReadingVariant(Top, g.tree, TRUE, h) /\ g.tree \in Trees
  BY <1>3, GoalsOf DEF Reading
<1>5. PICK e \in KeyedType :
        g.tree = ObjectOf(<<e>>) /\ Val(Top.name) = e.key /\ h = Goal(e.value, FALSE)
  BY <1>4 DEF ReadingVariant
<1>6. ret = Made(client, e.value)
  <2>1. ~ h.key /\ h.tree = e.value
    BY <1>5 DEF Goal
  <2>2. QED
    BY <1>3, <2>1 DEF Result
<1>7. ret' = Made(client, g.tree)
  BY <1>2, <1>4, <1>5, <1>6, MadeOneEntry DEF VariantOf
<1>8. ret' # Nothing
  <2>1. ret'.kind = "Object"
    BY <1>2 DEF VariantOf, ObjectOf
  <2>2. QED
    BY <2>1 DEF Nothing
<1>9. Remaining(stack') = Remaining(stack)
  <2>1. Left(Top) = << >>
    BY DEF Left
  <2>2. QED
    BY <1>1, <1>2, <2>1, ExactCaller, NoneBefore
<1>10. Result(client, ret', g)
  BY <1>7, ResultOf
<1>11. (ret' # Nothing) = TRUE
  BY <1>8
<1>12. On(client, doc.tree, stack', ret' # Nothing, g)
  BY <1>2, <1>3, <1>11
<1>13. QED
  BY <1>1, <1>9, <1>10, <1>12, ExactMoved

(* The outermost call returns: the document is read. *)
LEMMA ExactDone ==
  ASSUME DemandInv, ReadsExactly, Return, stack = << >>
  PROVE  ret' = Shown(doc.tree)' /\ idx' = (Len(doc.tape) + 1)'
<1>1. phase = "running" /\ ret # Nothing /\ UNCHANGED <<doc, client, idx, ret>>
  BY DEF Return
<1>2. PICK h \in Goals :
        /\ On(client, doc.tree, << >>, TRUE, h) /\ Result(client, ret, h)
        /\ SubSeq(doc.tape, idx, Len(doc.tape)) = Forest(Remaining(<< >>))
  BY <1>1 DEF ReadsExactly
<1>3. h.tree = doc.tree /\ ~ h.key
  <2>1. h = Goal(doc.tree, FALSE)
    BY <1>2, OnEmpty
  <2>2. QED
    BY <2>1 DEF Goal
<1>4. ret = Shown(doc.tree)
  BY <1>2, <1>3, ShownIsMade DEF Result
<1>5. SubSeq(doc.tape, idx, Len(doc.tape)) = << >>
  BY <1>2, RemainingNone, FlattenEmpty DEF Forest
<1>6. doc.tape \in Seq(Nodes) /\ idx \in 1..(Len(doc.tape) + 1)
  BY <1>1, DocShape DEF DemandInv, Known
<1>7. idx = Len(doc.tape) + 1
  <2>1. Len(SubSeq(doc.tape, idx, Len(doc.tape))) = Len(doc.tape) + 1 - idx
    BY <1>6
  <2>2. QED
    BY <1>5, <1>6, <2>1
<1>8. Shown(doc.tree)' = Shown(doc.tree)
  BY <1>1 DEF Shown
<1>9. QED
  BY <1>1, <1>4, <1>7, <1>8

LEMMA InitExact == Init => ExactInv
<1> SUFFICES ASSUME Init PROVE ReadsExactly
  BY DEF ExactInv, Init
<1>1. doc.tree \in Trees /\ doc.tape = Listing[doc.tree] /\ doc.tape \in Seq(Nodes)
  BY DocShape DEF Init
<1> DEFINE f == ValueFrame(doc.tree)
           g == Goal(doc.tree, FALSE)
           none == << >>
<1>2. stack = <<f>> /\ f.at = "value" /\ f.n = doc.tree /\ (ret # Nothing) = FALSE
  BY DEF Init, ValueFrame
<1>3. <<f>> \o none = <<f>>
  OBVIOUS
<1>4. On(client, doc.tree, none, TRUE, g) /\ g \in Goals /\ g.tree = doc.tree
  BY <1>1, OnNothing, GoalsOf
<1> HIDE DEF f, g
<1>5. Reading(client, f, g, FALSE, g)
  BY <1>2, <1>4 DEF Reading
<1>6. On(client, doc.tree, <<f>> \o none, FALSE, g)
  BY <1>4, <1>5, OnPush
<1>7. Left(f) = <<doc.tree>> /\ Left(f) \in Seq(Trees)
  BY <1>1, <1>2 DEF Left
<1>8. Remains(none)
  BY <1>4, OnRemains
<1>9. Remaining(<<f>> \o none) = Left(f) \o Remaining(none)
  BY <1>7, <1>8, RemainingPush
<1>10. Remaining(none) = << >>
  BY RemainingNone
<1>11. Remaining(stack) = <<doc.tree>>
  BY <1>1, <1>2, <1>3, <1>7, <1>9, <1>10
<1>12. SubSeq(doc.tape, idx, Len(doc.tape)) = Forest(<<doc.tree>>)
  BY <1>1, ForestOne, SubSeqFull DEF Init
<1>13. On(client, doc.tree, stack, ret # Nothing, g)
  BY <1>2, <1>3, <1>6
<1>14. QED
  BY <1>2, <1>4, <1>11, <1>12, <1>13 DEF ReadsExactly

LEMMA NextExact == DemandInv /\ ExactInv /\ [Next]_vars => ExactInv'
<1> SUFFICES ASSUME DemandInv, ExactInv, [Next]_vars, client' # "hasty"
             PROVE  /\ phase' = "running" => ReadsExactly'
                    /\ phase' = "done" => ret' = Shown(doc.tree)' /\ idx' = (Len(doc.tape) + 1)'
  BY DEF ExactInv
<1>1. CASE UNCHANGED vars
  <2>1. ReadsExactly => ReadsExactly'
    BY <1>1 DEF vars, ReadsExactly
  <2>2. Shown(doc.tree)' = Shown(doc.tree) /\ client # "hasty"
    BY <1>1 DEF vars, Shown
  <2>3. QED
    BY <1>1, <2>1, <2>2 DEF vars, ExactInv
<1>2. ASSUME phase = "running", client' = client PROVE ReadsExactly
  BY <1>2 DEF ExactInv
<1>3. ASSUME NEW hint \in HintsOfValue, DeserializeValue(hint)
      PROVE  phase' # "done" /\ (phase' = "running" => ReadsExactly')
  <2>1. phase = "running" /\ client' = client /\ phase' \in {"running", "failed"}
    BY <1>3 DEF DeserializeValue, Calls, Settle
  <2>2. QED
    BY <1>2, <1>3, <2>1, ExactValue
<1>4. ASSUME NEW hint \in HintsOfKey, DeserializeKey(hint)
      PROVE  phase' # "done" /\ (phase' = "running" => ReadsExactly')
  <2>1. phase = "running" /\ client' = client /\ phase' \in {"running", "failed"}
    BY <1>4 DEF DeserializeKey, Calls, Settle
  <2>2. hint \in KeyHints
    BY DEF HintsOfKey, BorrowedValueKey, OwnedValueKey, KeyHints
  <2>3. QED
    BY <1>2, <1>4, <2>1, <2>2, ExactKey
<1>5. ASSUME NextElement \/ NextKey
      PROVE  phase' # "done" /\ ReadsExactly'
  <2>1. phase = "running" /\ client' = client /\ phase' \in {"running", "failed"}
    BY <1>5 DEF NextElement, NextKey, Calls, Settle
  <2>2. QED
    BY <1>2, <1>5, <2>1, ExactNextElement, ExactNextKey
<1>6. ASSUME NextValue PROVE phase' # "done" /\ ReadsExactly'
  <2>1. phase = "running" /\ client' = client /\ phase' = phase
    BY <1>6 DEF NextValue, Calls
  <2>2. QED
    BY <1>2, <1>6, <2>1, ExactNextValue
<1>7. ASSUME Stop PROVE FALSE
  BY <1>7 DEF Stop
<1>8. ASSUME VariantSeed PROVE phase' # "done" /\ ReadsExactly'
  <2>1. phase = "running" /\ client' = client /\ phase' \in {"running", "failed"}
    BY <1>8 DEF VariantSeed, Calls, Settle
  <2>2. QED
    BY <1>2, <1>8, <2>1, ExactVariantSeed
<1>9. ASSUME NEW kind \in Variants, ReadVariant(kind)
      PROVE  phase' # "done" /\ (phase' = "running" => ReadsExactly')
  <2>1. phase = "running" /\ client' = client /\ phase' \in {"running", "failed"}
    BY <1>9 DEF ReadVariant, Calls, Settle
  <2>2. QED
    BY <1>2, <1>9, <2>1, ExactReadVariant
<1>10. CASE Return
  <2>1. phase = "running" /\ client' = client /\ ret # Nothing
    BY <1>10 DEF Return
  <2>2. ReadsExactly
    BY <1>2, <2>1
  <2>3. CASE stack = << >>
    <3>1. phase' = "done"
      BY <1>10, <2>3 DEF Return
    <3>2. QED
      BY <1>10, <2>2, <2>3, <3>1, ExactDone
  <2>4. CASE stack # << >>
    <3>1. phase' = "running"
      BY <1>10, <2>1, <2>4 DEF Return
    <3>2. Top.at \in {"seq", "map", "content"}
      BY <2>1, <2>4, TopFrame DEF Frame, Waiting
    <3>3. QED
      BY <1>10, <2>2, <2>4, <3>1, <3>2, ExactReturnSeq, ExactReturnMap, ExactReturnContent
  <2>5. QED
    BY <2>3, <2>4
<1>11. QED
  BY <1>1, <1>3, <1>4, <1>5, <1>6, <1>7, <1>8, <1>9, <1>10, Zenon DEF Next

LEMMA SpecExact == Spec => []ExactInv
BY InitExact, NextExact, SpecDemand, PTL DEF Spec

(* Whatever types a client asks for, as long as each of its visitors       *)
(* exhausts its access, the cursor of the tape is where the iterators over *)
(* the values are: the nodes from it on are those of the values that the   *)
(* calls under way have left.                                              *)
THEOREM CursorFollowsIterators == Spec => []CursorWithIterators
<1>1. ExactInv => CursorWithIterators
  BY DEF ExactInv, ReadsExactly, Remaining, CursorWithIterators
<1>2. QED
  BY <1>1, SpecExact, PTL

(* A client that succeeds has been shown the whole document and nothing    *)
(* else, each value once, in its place and under its key.                  *)
THEOREM SuccessIsWholeDocument == Spec => []ClientSeesDocument
<1>1. ExactInv => ClientSeesDocument
  BY DEF ExactInv, ClientSeesDocument
<1>2. QED
  BY <1>1, SpecExact, PTL

-----------------------------------------------------------------------------
(* A Value as the client: it asks for anything, and for keys as strings.   *)

ValueWaits == {"value", "key", "seq", "map"}

ValueInv ==
  client \in ValueClients =>
    /\ phase # "failed"
    /\ \A i \in DOMAIN stack : stack[i].at \in ValueWaits

(* What holds of all calls holds of those below, and again with another    *)
(* such call on top.                                                       *)
LEMMA CallsBelow ==
  ASSUME NEW S, NEW s \in Seq(S), s # << >>, NEW K, \A i \in DOMAIN s : s[i].at \in K
  PROVE  \A i \in DOMAIN Tail(s) : Tail(s)[i].at \in K
<1>1. \A i \in DOMAIN Tail(s) : i + 1 \in DOMAIN s /\ Tail(s)[i] = s[i + 1]
  OBVIOUS
<1>2. QED
  BY <1>1

LEMMA CallsOnTop ==
  ASSUME NEW S, NEW s \in Seq(S), NEW K, \A i \in DOMAIN s : s[i].at \in K, NEW f, f.at \in K
  PROVE  \A i \in DOMAIN (<<f>> \o s) : (<<f>> \o s)[i].at \in K
<1> DEFINE p == <<f>> \o s
<1>1. /\ DOMAIN p = 1..(Len(s) + 1) /\ p[1] = f /\ Len(s) \in Nat /\ DOMAIN s = 1..Len(s)
      /\ \A i \in 1..Len(s) : p[i + 1] = s[i]
  OBVIOUS
<1> HIDE DEF p
<1>2. ASSUME NEW i \in DOMAIN p PROVE p[i].at \in K
  <2>1. CASE i = 1
    BY <2>1, <1>1
  <2>2. CASE i # 1
    <3>1. i - 1 \in 1..Len(s) /\ i = (i - 1) + 1
      BY <2>2, <1>1
    <3>2. p[i] = s[i - 1]
      BY <3>1, <1>1
    <3>3. QED
      BY <3>1, <3>2, <1>1
  <2>3. QED
    BY <2>1, <2>2
<1>3. QED
  BY <1>2 DEF p

(* The calls that a Value makes in a step: none more, another in the place *)
(* of the innermost, or one more on top of it.                             *)
LEMMA ValueCalls ==
  ASSUME NEW S, stack \in Seq(S), stack # << >>, \A i \in DOMAIN stack : stack[i].at \in ValueWaits,
         \/ stack' = stack \/ stack' = Tail(stack)
         \/ \E f : f.at \in ValueWaits /\ stack' = <<f>> \o Tail(stack)
         \/ \E f, g : f.at \in ValueWaits /\ g.at \in ValueWaits /\ stack' = <<g, f>> \o Tail(stack)
  PROVE  \A i \in DOMAIN stack' : stack'[i].at \in ValueWaits
<1> DEFINE below == Tail(stack)
<1>1. below \in Seq(S) /\ \A i \in DOMAIN below : below[i].at \in ValueWaits
  BY CallsBelow
<1> HIDE DEF below
<1>2. CASE stack' = stack \/ stack' = below
  BY <1>1, <1>2
<1>3. CASE \E f : f.at \in ValueWaits /\ stack' = <<f>> \o below
  BY <1>1, <1>3, CallsOnTop
<1>4. CASE \E f, g : f.at \in ValueWaits /\ g.at \in ValueWaits /\ stack' = <<g, f>> \o below
  <2>1. PICK f, g : f.at \in ValueWaits /\ g.at \in ValueWaits /\ stack' = <<g, f>> \o below
    BY <1>4
  <2> DEFINE more == <<f>> \o below
  <2>2. \A i \in DOMAIN more : more[i].at \in ValueWaits
    BY <1>1, <2>1, CallsOnTop
  <2>3. more \in Seq(S \cup {f})
    BY <1>1
  <2> HIDE DEF more
  <2>4. \A i \in DOMAIN (<<g>> \o more) : (<<g>> \o more)[i].at \in ValueWaits
    BY <2>1, <2>2, <2>3, CallsOnTop
  <2>5. stack' = <<g>> \o more
    BY <1>1, <2>1, TwoOnTop DEF more
  <2>6. QED
    BY <2>4, <2>5
<1>5. QED
  BY <1>2, <1>3, <1>4 DEF below

LEMMA ValueOnValue ==
  ASSUME DemandInv, ExactInv, ValueInv, client \in ValueClients,
         NEW hint \in HintsOfValue, DeserializeValue(hint)
  PROVE  ValueInv'
<1> DEFINE visit == TapeDe(hint, Node)
           n == Top.n
           answers == [r \in live |->
                         IF r = "tape" THEN Answer(hint, visit, Val(Node))
                         ELSE Answer(hint, DomDe(r, hint, n), Val(n))]
           where == [at |-> "value", hint |-> hint, n |-> n]
<1>1. /\ Calls("value") /\ Settle(answers, where)
      /\ IF answers["tape"].step = "error" THEN UNCHANGED <<stack, ret>>
         ELSE Visit(visit, Node, n, Tail(stack))
      /\ UNCHANGED <<doc, client>>
  BY Zenon DEF DeserializeValue
<1>2. /\ phase = "running" /\ ret = Nothing /\ stack # << >> /\ Top.at = "value"
      /\ "tape" \in live /\ live \subseteq Readers
  BY <1>1, CalledOn
<1>3. answers["tape"] = Answer(hint, visit, Val(Node))
  BY <1>2
<1> HIDE DEF answers, where
<1>4. ReadsExactly
  BY <1>2 DEF ExactInv, ValueClients
<1>5. PICK g \in Goals : /\ On(client, doc.tree, Tail(stack), TRUE, g)
                         /\ \E h \in Goals : Reading(client, Top, g, FALSE, h)
  BY <1>2, <1>4, ExactTop
<1>6. Top.n = g.tree /\ g.tree \in Trees
  BY <1>2, <1>5, GoalsOf DEF Reading
<1>7. Node = Header(g.tree)
  <2>1. << >> \in Seq(Trees) /\ Left(Top) = <<g.tree>> \o << >>
    BY <1>2, <1>6 DEF Left
  <2>2. QED
    BY <1>2, <1>4, <1>6, <2>1, ExactNode
<1>8. hint = "any"
  BY DEF HintsOfValue, ValueClients
<1>9. visit = AnyVisit[g.tree.kind] /\ g.tree.kind \in LeafKinds \cup {"Array", "Object"}
  <2>1. visit = AnyVisit[Node.kind]
    BY <1>8 DEF TapeDe, Unchecked, IntHints
  <2>2. Node.kind = g.tree.kind /\ g.tree.kind \in LeafKinds \cup {"Array", "Object"}
    BY <1>6, <1>7, HeaderKind
  <2> HIDE DEF visit
  <2>3. QED
    BY <2>1, <2>2
<1>10. visit \in LeafVisits \cup {"visit_seq", "visit_map"}
  BY <1>9 DEF AnyVisit, LeafKinds, LeafVisits, StrVisits, NumberVisits, IntVisits
<1> HIDE DEF visit
<1>11. answers["tape"].step # "error"
  <2>1. Takes(hint, visit, Val(Node)) /\ visit # "undefined"
    <3>1. visit # "undefined"
      BY <1>10 DEF LeafVisits, StrVisits, NumberVisits, IntVisits
    <3>2. Takes(hint, visit, Val(Node))
      BY <1>8, <1>10 DEF Takes, IntHints
    <3>3. QED
      BY <3>1, <3>2
  <2>2. QED
    BY <1>3, <1>10, <2>1 DEF Answer, LeafVisits, StrVisits, NumberVisits, IntVisits
<1>12. phase' = "running"
  BY <1>1, <1>2, <1>11, Settled
<1>13. Visit(visit, Node, n, Tail(stack))
  BY <1>1, <1>11
<1>14. \/ stack' = Tail(stack)
       \/ \E f : f.at \in ValueWaits /\ stack' = <<f>> \o Tail(stack)
  <2>1. CASE visit \in LeafVisits
    BY <1>13, <2>1 DEF Visit, LeafVisits, StrVisits, NumberVisits, IntVisits
  <2>2. CASE visit = "visit_seq"
    <3> DEFINE f == SeqFrame(Node.len, n)
    <3>1. stack' = <<f>> \o Tail(stack)
      BY <1>13, <2>2 DEF Visit, LeafVisits, StrVisits, NumberVisits, IntVisits
    <3>2. f.at \in ValueWaits
      BY DEF SeqFrame, ValueWaits
    <3>3. QED
      BY <3>1, <3>2
  <2>3. CASE visit = "visit_map"
    <3> DEFINE f == MapFrame(Node.len, n)
    <3>1. stack' = <<f>> \o Tail(stack)
      BY <1>13, <2>3 DEF Visit, LeafVisits, StrVisits, NumberVisits, IntVisits
    <3>2. f.at \in ValueWaits
      BY DEF MapFrame, ValueWaits
    <3>3. QED
      BY <3>1, <3>2
  <2>4. QED
    BY <1>10, <2>1, <2>2, <2>3
<1>15. PICK S : stack \in Seq(S)
  BY <1>4, OnRemains DEF ReadsExactly, Remains
<1>16. QED
  BY <1>2, <1>12, <1>14, <1>15, ValueCalls DEF ValueInv

LEMMA ValueOnKey ==
  ASSUME DemandInv, ExactInv, ValueInv, client \in ValueClients,
         NEW hint \in HintsOfKey, DeserializeKey(hint)
  PROVE  ValueInv'
<1> DEFINE visit == TapeKey(hint, Node)
           n == Top.n
           answers == [r \in live |->
                         IF r = "tape" THEN Answer(hint, visit, Val(Node))
                         ELSE Answer(hint, DomKey(r, hint, n), Val(n))]
           where == [at |-> "key", hint |-> hint, n |-> n]
<1>1. /\ Calls("key") /\ Settle(answers, where)
      /\ IF answers["tape"].step = "error" THEN UNCHANGED <<stack, ret>>
         ELSE Visit(visit, Node, n, Tail(stack))
      /\ UNCHANGED <<doc, client>>
  BY Zenon DEF DeserializeKey
<1>2. /\ phase = "running" /\ ret = Nothing /\ stack # << >> /\ Top.at = "key"
      /\ "tape" \in live /\ live \subseteq Readers
  BY <1>1, CalledOn
<1>3. answers["tape"] = Answer(hint, visit, Val(Node))
  BY <1>2
<1> HIDE DEF answers, where
<1>4. ReadsExactly
  BY <1>2 DEF ExactInv, ValueClients
<1>5. PICK g \in Goals : /\ On(client, doc.tree, Tail(stack), TRUE, g)
                         /\ \E h \in Goals : Reading(client, Top, g, FALSE, h)
  BY <1>2, <1>4, ExactTop
<1>6. Top.n = g.tree /\ g.tree \in Trees /\ g.tree.kind = "String"
  BY <1>2, <1>5 DEF Reading, Goals
<1>7. Node.kind = "String"
  <2>1. << >> \in Seq(Trees) /\ Left(Top) = <<g.tree>> \o << >>
    BY <1>2, <1>6 DEF Left
  <2>2. Node = Header(g.tree)
    BY <1>2, <1>4, <1>6, <2>1, ExactNode
  <2>3. QED
    BY <1>6, <2>2, HeaderKind
<1>8. hint \in {"str", "string"}
  BY DEF HintsOfKey, BorrowedValueKey, OwnedValueKey, ValueClients
<1>9. visit = "visit_borrowed_str"
  BY <1>7, <1>8 DEF TapeKey, IntHints, OneOf
<1> HIDE DEF visit
<1>10. answers["tape"].step # "error"
  <2>1. Takes(hint, visit, Val(Node))
    BY <1>8, <1>9 DEF Takes, StrVisits, IntHints
  <2>2. QED
    BY <1>3, <1>9, <2>1 DEF Answer, LeafVisits, StrVisits
<1>11. phase' = "running"
  BY <1>1, <1>2, <1>10, Settled
<1>12. stack' = Tail(stack)
  <2>1. Visit(visit, Node, n, Tail(stack))
    BY <1>1, <1>10
  <2>2. QED
    BY <1>9, <2>1 DEF Visit, LeafVisits, StrVisits
<1>13. PICK S : stack \in Seq(S)
  BY <1>4, OnRemains DEF ReadsExactly, Remains
<1>14. QED
  BY <1>2, <1>11, <1>12, <1>13, ValueCalls DEF ValueInv

LEMMA ValueOnAccess ==
  ASSUME DemandInv, ExactInv, ValueInv, client \in ValueClients, NextElement \/ NextKey \/ NextValue
  PROVE  ValueInv'
<1>1. /\ phase = "running" /\ ret = Nothing /\ stack # << >> /\ Top.at \in {"seq", "map"}
      /\ (NextElement => Top.at = "seq") /\ (NextKey => Top.at = "map") /\ (NextValue => Top.at = "map")
  BY CalledOn DEF NextElement, NextKey, NextValue
<1>2. phase' = "running"
  BY <1>1, SettledOnAccess DEF NextElement, NextKey, NextValue
<1>3. DOMAIN Top = IF Top.at = "seq" THEN {"at", "len", "items", "built"}
                   ELSE {"at", "len", "entries", "v", "key", "built"}
  BY <1>1, TopFrame DEF Frame, Shape
<1>4. \/ stack' = Tail(stack)
      \/ \E f, g : f.at \in ValueWaits /\ g.at \in ValueWaits /\ stack' = <<g, f>> \o Tail(stack)
  <2>1. CASE NextElement
    <3> DEFINE g == ValueFrame(First(Top.items))
               f == [Top EXCEPT !.len = @ - 1, !.items = Rest(@)]
    <3>1. stack' = Tail(stack) \/ stack' = <<g, f>> \o Tail(stack)
      BY <2>1 DEF NextElement
    <3>2. g.at \in ValueWaits /\ f.at \in ValueWaits
      BY <1>1, <1>3, <2>1 DEF ValueFrame, ValueWaits, NextElement, Calls
    <3>3. QED
      BY <3>1, <3>2
  <2>2. CASE NextKey
    <3> DEFINE e == First(Top.entries)
               g == KeyFrame(e)
               f == [Top EXCEPT !.len = @ - 1, !.entries = Rest(@), !.v = ValueOf(e)]
    <3>1. stack' = Tail(stack) \/ stack' = <<g, f>> \o Tail(stack)
      BY <2>2 DEF NextKey
    <3>2. g.at \in ValueWaits /\ f.at \in ValueWaits
      BY <1>1, <1>3, <2>2 DEF KeyFrame, ValueWaits, NextKey, Calls
    <3>3. QED
      BY <3>1, <3>2
  <2>3. CASE NextValue
    <3> DEFINE g == ValueFrame(Top.v)
               f == [Top EXCEPT !.v = Nothing]
    <3>1. stack' = <<g, f>> \o Tail(stack)
      BY <2>3 DEF NextValue
    <3>2. g.at \in ValueWaits /\ f.at \in ValueWaits
      BY <1>1, <1>3, <2>3 DEF ValueFrame, ValueWaits, NextValue, Calls
    <3>3. QED
      BY <3>1, <3>2
  <2>4. QED
    BY <2>1, <2>2, <2>3
<1>5. PICK S : stack \in Seq(S)
  BY <1>1, OnRemains DEF ExactInv, ValueClients, ReadsExactly, Remains
<1>6. QED
  BY <1>1, <1>2, <1>4, <1>5, ValueCalls DEF ValueInv

LEMMA ValueOnReturn ==
  ASSUME DemandInv, ExactInv, ValueInv, client \in ValueClients, Return
  PROVE  ValueInv'
<1>1. phase = "running" /\ ret # Nothing
  BY DEF Return
<1>2. CASE stack = << >>
  BY <1>1, <1>2 DEF Return, ValueInv
<1>3. CASE stack # << >>
  <2>1. PICK S : stack \in Seq(S)
    BY <1>1, OnRemains DEF ExactInv, ValueClients, ReadsExactly, Remains
  <2>2. Top = stack[1] /\ 1 \in DOMAIN stack /\ phase' = "running"
    BY <1>1, <1>3, <2>1 DEF Top, Return
  <2>3. Top.at \in {"seq", "map"} /\ DOMAIN Top = IF Top.at = "seq" THEN {"at", "len", "items", "built"}
                   ELSE {"at", "len", "entries", "v", "key", "built"}
    BY <1>1, <1>3, <2>2, TopFrame DEF Frame, Waiting, Shape, ValueInv, ValueWaits
  <2>4. \E f : f.at \in ValueWaits /\ stack' = <<f>> \o Tail(stack)
    <3>1. CASE Top.at = "seq"
      <4> DEFINE f == [Top EXCEPT !.built = Append(@, ret)]
      <4>1. stack' = <<f>> \o Tail(stack)
        BY <1>3, <3>1 DEF Return
      <4>2. f.at \in ValueWaits
        BY <2>3, <3>1 DEF ValueWaits
      <4>3. QED
        BY <4>1, <4>2
    <3>2. CASE Top.at = "map" /\ Top.key = Nothing
      <4> DEFINE f == [Top EXCEPT !.key = ret]
      <4>1. stack' = <<f>> \o Tail(stack)
        BY <1>3, <3>2 DEF Return
      <4>2. f.at \in ValueWaits
        BY <2>3, <3>2 DEF ValueWaits
      <4>3. QED
        BY <4>1, <4>2
    <3>3. CASE Top.at = "map" /\ Top.key # Nothing
      <4> DEFINE f == [Top EXCEPT !.key = Nothing, !.built = Insert(@, Val(Top.key), ret)]
      <4>1. stack' = <<f>> \o Tail(stack)
        BY <1>3, <3>3 DEF Return
      <4>2. f.at \in ValueWaits
        BY <2>3, <3>3 DEF ValueWaits
      <4>3. QED
        BY <4>1, <4>2
    <3>4. QED
      BY <2>3, <3>1, <3>2, <3>3
  <2>5. QED
    BY <1>3, <2>1, <2>2, <2>4, ValueCalls DEF ValueInv
<1>4. QED
  BY <1>2, <1>3

LEMMA NextValueInv == DemandInv /\ ExactInv /\ ValueInv /\ [Next]_vars => ValueInv'
<1> SUFFICES ASSUME DemandInv, ExactInv, ValueInv, [Next]_vars, client' \in ValueClients PROVE ValueInv'
  BY DEF ValueInv
<1>1. CASE UNCHANGED vars
  BY <1>1 DEF vars, ValueInv
<1>2. CASE Next
  <2>1. client' = client
    BY <1>2, Zenon DEF Next, DeserializeValue, DeserializeKey, NextElement, NextKey, NextValue, Stop,
                       VariantSeed, ReadVariant, Return
  <2>2. client \in ValueClients
    BY <2>1
  <2>3. ASSUME NEW hint \in HintsOfValue, DeserializeValue(hint) PROVE ValueInv'
    BY <2>2, <2>3, ValueOnValue
  <2>4. ASSUME NEW hint \in HintsOfKey, DeserializeKey(hint) PROVE ValueInv'
    BY <2>2, <2>4, ValueOnKey
  <2>5. ASSUME Stop PROVE FALSE
    BY <2>2, <2>5 DEF Stop, ValueClients
  <2>6. ASSUME Calls("enum") \/ Calls("variant") PROVE FALSE
    <3>1. phase = "running" /\ stack # << >> /\ Top.at \notin ValueWaits
      BY <2>6 DEF Calls, ValueWaits
    <3>2. PICK S : stack \in Seq(S)
      BY <2>2, <3>1, OnRemains DEF ExactInv, ValueClients, ReadsExactly, Remains
    <3>3. Top = stack[1] /\ 1 \in DOMAIN stack
      BY <3>1, <3>2 DEF Top
    <3>4. QED
      BY <2>2, <3>1, <3>3 DEF ValueInv
  <2>7. ASSUME VariantSeed PROVE FALSE
    BY <2>6, <2>7 DEF VariantSeed
  <2>8. ASSUME NEW kind \in Variants, ReadVariant(kind) PROVE FALSE
    BY <2>6, <2>8 DEF ReadVariant
  <2>9. ASSUME NextElement \/ NextKey \/ NextValue PROVE ValueInv'
    BY <2>2, <2>9, ValueOnAccess
  <2>10. ASSUME Return PROVE ValueInv'
    BY <2>2, <2>10, ValueOnReturn
  <2>11. CASE \E hint \in HintsOfValue : DeserializeValue(hint)
    BY <2>3, <2>11
  <2>12. CASE \E hint \in HintsOfKey : DeserializeKey(hint)
    BY <2>4, <2>12
  <2>13. CASE \E kind \in Variants : ReadVariant(kind)
    BY <2>8, <2>13
  <2>14. QED
    BY <1>2, <2>5, <2>7, <2>9, <2>10, <2>11, <2>12, <2>13, Zenon DEF Next
<1>3. QED
  BY <1>1, <1>2

LEMMA SpecValue == Spec => []ValueInv
<1>1. Init => ValueInv
  <2> SUFFICES ASSUME Init PROVE ValueInv
    OBVIOUS
  <2> DEFINE f == ValueFrame(doc.tree)
  <2>1. phase = "running" /\ stack = <<f>> /\ f.at \in ValueWaits
    BY DEF Init, ValueFrame, ValueWaits
  <2> HIDE DEF f
  <2>2. QED
    BY <2>1 DEF ValueInv
<1>2. QED
  BY <1>1, NextValueInv, SpecDemand, SpecExact, PTL DEF Spec

(* Deserializing a Value from the tape never fails and gives the value     *)
(* that the document is, its numbers in their own types: what the DOM      *)
(* builder makes of the same tape.                                         *)
THEOREM ValueFromTapeIsDom == Spec => []ValueFromTape
<1>1. ExactInv /\ ValueInv => ValueFromTape
  BY DEF ExactInv, ValueInv, ValueFromTape, ValueClients, Shown
<1>2. QED
  BY <1>1, SpecExact, SpecValue, PTL

-----------------------------------------------------------------------------
(* The readers answer alike.                                               *)

(* A value shows itself as the tape does, but for how it lends its text.   *)
Shows(any, k) ==
  /\ any[k] \in LeafVisits \cup {"visit_seq", "visit_map"}
  /\ (any[k] = "visit_bool") = (k = "Bool")
  /\ (any[k] = "visit_unit") = (k = "Null")
  /\ (any[k] \in IntVisits) = (k \in {"I64", "U64"})
  /\ (any[k] \in NumberVisits) = (k \in Numbers)
  /\ (any[k] \in StrVisits) = (k = "String")
  /\ (any[k] = "visit_seq") = (k = "Array")
  /\ (any[k] = "visit_map") = (k = "Object")

OwnedVisit == [AnyVisit EXCEPT !.String = "visit_string"]

LEMMA AnyShows ==
  ASSUME NEW k \in LeafKinds \cup {"Array", "Object"}
  PROVE  /\ Shows(AnyVisit, k) /\ Shows(OwnedVisit, k)
         /\ AnyVisit["String"] = "visit_borrowed_str"
         /\ k # "String" => OwnedVisit[k] = AnyVisit[k]
<1> USE DEF AnyVisit, OwnedVisit, LeafVisits, StrVisits, NumberVisits, IntVisits, Numbers
<1>1. CASE k \in {"Null", "Bool", "F64", "I64", "U64", "Array", "Object"}
  BY <1>1 DEF Shows
<1>2. CASE k = "String"
  BY <1>2 DEF Shows
<1>3. QED
  BY <1>1, <1>2 DEF LeafKinds

LEMMA AnswerAlike ==
  ASSUME NEW hint, NEW val, NEW a, NEW b, a # "undefined", b # "undefined",
         Takes(hint, a, val) = Takes(hint, b, val),
         Takes(hint, a, val) => a = b \/ (a \in LeafVisits /\ b \in LeafVisits)
  PROVE  Answer(hint, a, val) = Answer(hint, b, val)
BY DEF Answer

LEMMA ShowsAlike ==
  ASSUME NEW v \in Trees, NEW hint \in Hints, NEW any, Shows(any, v.kind),
         v.kind # "String" => any[v.kind] = AnyVisit[v.kind],
         hint = "str" => any = AnyVisit
  PROVE  Answer(hint, ValueDe(hint, v, any), Val(v)) = Answer(hint, TapeDe(hint, Header(v)), Val(v))
<1> DEFINE n == Header(v)
           k == v.kind
           val == Val(v)
           a == ValueDe(hint, v, any)
           b == TapeDe(hint, n)
           x == any[k]
<1>1. n.kind = k /\ n # Nothing /\ k \in LeafKinds \cup {"Array", "Object"}
  BY HeaderKind
<1>2. k \in LeafKinds => n.val = val
  <2>1. ASSUME k \in LeafKinds PROVE v = Leaf(k, v.val) /\ n = v
    BY <2>1, LeafShape DEF LeafKinds
  <2>2. ASSUME k \in LeafKinds PROVE val = v.val
    BY <2>2, MadeLeaf DEF LeafKinds
  <2>3. QED
    BY <2>1, <2>2
<1>3. k = "Object" => n.len = Len(v.entries)
  BY HeaderKind
<1>4. Shows(AnyVisit, k) /\ AnyVisit["String"] = "visit_borrowed_str"
  BY <1>1, AnyShows
<1>5. hint \in KeyHints \cup {"f64", "unit", "seq", "tuple", "map", "struct", "ignored_any"}
  BY DEF Hints
<1>6. x \notin {"undefined", "error", "visit_some", "visit_newtype_struct", "visit_enum"}
  BY DEF Shows, LeafVisits, StrVisits, NumberVisits, IntVisits
<1> HIDE DEF n, val
<1>7. CASE hint \in {"any", "bytes", "ignored_any"}
  <2>1. a = x /\ b = AnyVisit[k]
    BY <1>7, <1>1 DEF ValueDe, TapeDe, Unchecked, IntHints
  <2>2. CASE k = "String"
    <3>1. a \in StrVisits /\ b \in StrVisits
      BY <1>4, <2>1, <2>2 DEF Shows
    <3> HIDE DEF a, b
    <3>2. a \in LeafVisits /\ b \in LeafVisits /\ a # "undefined" /\ b # "undefined"
      BY <3>1 DEF LeafVisits, StrVisits
    <3>3. Takes(hint, a, val) /\ Takes(hint, b, val)
      BY <1>7, <3>1, <3>2 DEF Takes, IntHints
    <3>4. QED
      BY <3>2, <3>3, AnswerAlike DEF val, a, b, n
  <2>3. CASE k # "String"
    BY <2>1, <2>3 DEF val, n
  <2>4. QED
    BY <2>2, <2>3
<1>8. CASE hint \in IntHints
  <2>1. a = x
    BY <1>8 DEF ValueDe, IntHints
  <2>2. b = IF k \in {"I64", "U64"} /\ IsInt(hint, n.val) THEN "visit_i64" ELSE "error"
    BY <1>8, <1>1 DEF TapeDe, Unchecked, IntHints
  <2>3. \A y : Takes(hint, y, val) = (y \in IntVisits /\ IsInt(hint, val))
    BY <1>8 DEF Takes, IntHints
  <2>4. b = IF k \in {"I64", "U64"} /\ IsInt(hint, val) THEN "visit_i64" ELSE "error"
    BY <1>2, <2>2 DEF LeafKinds
  <2> HIDE DEF a, b
  <2>5. (a \in IntVisits) = (k \in {"I64", "U64"}) /\ a # "undefined" /\ b # "undefined"
    BY <1>6, <2>1, <2>4 DEF Shows
  <2>6. Takes(hint, a, val) = Takes(hint, b, val)
    BY <2>3, <2>4, <2>5 DEF IntVisits
  <2>7. Takes(hint, a, val) => a \in LeafVisits /\ b \in LeafVisits
    BY <2>3, <2>6 DEF LeafVisits, NumberVisits
  <2>8. QED
    BY <2>5, <2>6, <2>7, AnswerAlike DEF val, a, b, n
<1>9. CASE hint = "f64"
  <2>1. a = x
    BY <1>9 DEF ValueDe, IntHints
  <2>2. b = IF k \in Numbers THEN "visit_f64" ELSE "error"
    BY <1>9, <1>1 DEF TapeDe, Unchecked, IntHints, OneOf, Numbers
  <2>3. \A y : Takes(hint, y, val) = (y \in NumberVisits)
    BY <1>9 DEF Takes, IntHints
  <2> HIDE DEF a, b
  <2>4. (a \in NumberVisits) = (k \in Numbers) /\ a # "undefined" /\ b # "undefined"
    BY <1>6, <2>1, <2>2 DEF Shows
  <2>5. (b \in NumberVisits) = (k \in Numbers)
    BY <2>2 DEF NumberVisits, IntVisits
  <2>6. Takes(hint, a, val) = Takes(hint, b, val)
    BY <2>3, <2>4, <2>5
  <2>7. Takes(hint, a, val) => a \in LeafVisits /\ b \in LeafVisits
    BY <2>3, <2>6 DEF LeafVisits
  <2>8. QED
    BY <2>4, <2>6, <2>7, AnswerAlike DEF val, a, b, n
<1>10. CASE hint \in {"str", "string"}
  <2>1. a = x /\ (hint = "str" => any = AnyVisit)
    BY <1>10 DEF ValueDe, IntHints
  <2>2. b = IF k = "String" THEN (IF hint = "str" THEN "visit_borrowed_str" ELSE "visit_str") ELSE "error"
    BY <1>10, <1>1 DEF TapeDe, Unchecked, IntHints, OneOf
  <2>3. \A y : Takes(hint, y, val) = IF hint = "str" THEN y = "visit_borrowed_str" ELSE y \in StrVisits
    BY <1>10 DEF Takes, IntHints
  <2>4. hint = "str" => (a = "visit_borrowed_str") = (k = "String")
    <3>1. k = "String" /\ hint = "str" => a = "visit_borrowed_str"
      BY <1>4, <2>1
    <3>2. a = "visit_borrowed_str" => a \in StrVisits
      BY DEF StrVisits
    <3>3. (a \in StrVisits) = (k = "String")
      BY <2>1 DEF Shows
    <3> HIDE DEF a
    <3>4. QED
      BY <3>1, <3>2, <3>3
  <2>5. (a \in StrVisits) = (k = "String") /\ a # "undefined"
    BY <1>6, <2>1 DEF Shows
  <2> HIDE DEF a, b
  <2>6. b # "undefined" /\ (b \in StrVisits) = (k = "String")
    BY <2>2 DEF StrVisits
  <2>7. Takes(hint, a, val) = Takes(hint, b, val)
    BY <1>10, <2>2, <2>3, <2>4, <2>5, <2>6
  <2>8. Takes(hint, a, val) => a \in LeafVisits /\ b \in LeafVisits
    <3>1. "visit_borrowed_str" \in StrVisits
      BY DEF StrVisits
    <3>2. QED
      BY <1>10, <2>3, <2>7, <3>1 DEF LeafVisits
  <2>9. QED
    BY <2>5, <2>6, <2>7, <2>8, AnswerAlike DEF val, a, b, n
<1>11. CASE hint \in {"bool", "unit", "seq", "tuple", "map"}
  <2> DEFINE visit == CASE hint = "bool" -> "visit_bool" [] hint = "unit" -> "visit_unit"
                        [] hint \in {"seq", "tuple"} -> "visit_seq" [] hint = "map" -> "visit_map"
             kind == CASE hint = "bool" -> "Bool" [] hint = "unit" -> "Null"
                       [] hint \in {"seq", "tuple"} -> "Array" [] hint = "map" -> "Object"
  <2>1. a = x
    BY <1>11 DEF ValueDe, IntHints
  <2>2. b = IF k = kind THEN visit ELSE "error"
    BY <1>11, <1>1 DEF TapeDe, Unchecked, IntHints, OneOf
  <2>3. \A y : Takes(hint, y, val) = (y = visit)
    BY <1>11 DEF Takes, IntHints
  <2>4. visit \notin {"undefined", "error"}
    BY <1>11
  <2>5. (x = visit) = (k = kind)
    BY <1>11 DEF Shows
  <2> HIDE DEF a, b, visit, kind
  <2>6. a # "undefined" /\ b # "undefined" /\ (a = visit) = (k = kind) /\ (b = visit) = (k = kind)
    BY <1>6, <2>1, <2>2, <2>4, <2>5
  <2>7. Takes(hint, a, val) = Takes(hint, b, val) /\ (Takes(hint, a, val) => a = b)
    BY <2>3, <2>6
  <2>8. QED
    BY <2>6, <2>7, AnswerAlike DEF val, a, b, n
<1>12. CASE hint \in {"option", "newtype_struct"}
  <2>1. a = b
    BY <1>12, <1>1 DEF ValueDe, TapeDe, Unchecked, IntHints
  <2>2. QED
    BY <2>1 DEF val, n
<1>13. CASE hint = "struct"
  <2>1. a = OneOf({"Array", "Object"}, v, any[k])
    BY <1>13 DEF ValueDe
  <2>2. b = OneOf({"Array", "Object"}, n, AnyVisit[k])
    BY <1>13, <1>1 DEF TapeDe, Unchecked, IntHints
  <2>3. a = b
    BY <1>1, <2>1, <2>2 DEF OneOf
  <2>4. QED
    BY <2>3 DEF val, n
<1>14. CASE hint = "enum"
  <2>1. a = EnumVisit(v)
    BY <1>14 DEF ValueDe
  <2>2. b = IF n.kind = "String" \/ (n.kind = "Object" /\ n.len = 1) THEN "visit_enum" ELSE "error"
    BY <1>14, <1>1 DEF TapeDe, Unchecked, IntHints
  <2>3. a = b
    BY <1>1, <1>3, <2>1, <2>2 DEF EnumVisit
  <2>4. QED
    BY <2>3 DEF val, n
<1>15. QED
  BY <1>5, <1>7, <1>8, <1>9, <1>10, <1>11, <1>12, <1>13, <1>14 DEF KeyHints

LEMMA HeaderVal ==
  ASSUME NEW v \in Trees
  PROVE  Val(Header(v)) = Val(v)
<1>1. CASE v.kind \notin {"Array", "Object"}
  BY <1>1, LeafShape
<1>2. CASE v.kind = "Array"
  <2>1. v = ArrayOf(v.items) /\ Header(v) = [kind |-> "Array", len |-> Len(v.items)]
    BY <1>2, ArrayShape
  <2>2. Val(Header(v)) = "" /\ Val(ArrayOf(v.items)) = ""
    BY <2>1 DEF ArrayOf, Val
  <2>3. QED
    BY <2>1, <2>2
<1>3. CASE v.kind = "Object"
  <2>1. v = ObjectOf(v.entries) /\ Header(v) = [kind |-> "Object", len |-> Len(v.entries)]
    BY <1>3, ObjectShape
  <2>2. Val(Header(v)) = "" /\ Val(ObjectOf(v.entries)) = ""
    BY <2>1 DEF ObjectOf, Val
  <2>3. QED
    BY <2>1, <2>2
<1>4. QED
  BY <1>1, <1>2, <1>3

LEMMA ValuesAlike ==
  ASSUME NEW v \in Trees, NEW hint \in Hints, NEW r \in Readers \ {"tape"},
         ~ (r = "owned" /\ hint = "str")
  PROVE  Answer(hint, DomDe(r, hint, v), Val(v)) = Answer(hint, TapeDe(hint, Header(v)), Val(Header(v)))
<1>1. v.kind \in LeafKinds \cup {"Array", "Object"} /\ Val(Header(v)) = Val(v)
  BY HeaderKind, HeaderVal
<1>2. Shows(AnyVisit, v.kind) /\ Shows(OwnedVisit, v.kind)
      /\ (v.kind # "String" => OwnedVisit[v.kind] = AnyVisit[v.kind])
  BY <1>1, AnyShows
<1>3. DomDe(r, hint, v) = IF r = "owned" THEN ValueDe(hint, v, OwnedVisit) ELSE ValueDe(hint, v, AnyVisit)
  BY DEF DomDe, Readers, BorrowedDe, BorrowedRefDe, OwnedDe, OwnedRefDe, OwnedVisit
<1>4. Answer(hint, ValueDe(hint, v, AnyVisit), Val(v)) = Answer(hint, TapeDe(hint, Header(v)), Val(v))
  BY <1>2, ShowsAlike
<1>5. hint # "str" =>
        Answer(hint, ValueDe(hint, v, OwnedVisit), Val(v)) = Answer(hint, TapeDe(hint, Header(v)), Val(v))
  BY <1>2, ShowsAlike
<1>6. QED
  BY <1>1, <1>3, <1>4, <1>5

LEMMA KeysAlike ==
  ASSUME NEW v \in Trees, v.kind = "String", NEW hint \in KeyHints, NEW r \in Readers \ {"tape"},
         ~ (r = "owned" /\ hint = "str"), ~ (r \in ByValue /\ hint \in IntHints)
  PROVE  Answer(hint, DomKey(r, hint, v), Val(v)) = Answer(hint, TapeKey(hint, v), Val(v))
<1> DEFINE a == DomKey(r, hint, v)
           b == TapeKey(hint, v)
           val == Val(v)
           text == {"any", "bool", "str", "string"}
<1>1. Header(v) = v /\ v # Nothing /\ v.val = val
  BY LeafShape, MadeLeaf, TreeIsSomething
<1>2. AnyVisit["String"] = "visit_borrowed_str" /\ hint \in Hints
  BY DEF AnyVisit, Hints
<1>3. OwnedVisit["String"] = "visit_string"
  BY DEF OwnedVisit, AnyVisit
<1>4. hint \in text => b = "visit_borrowed_str"
  BY DEF TapeKey, IntHints, OneOf
<1>5. hint \in IntHints => b = IF IsInt(hint, val) THEN "visit_i64" ELSE "error"
  BY <1>1 DEF TapeKey, IntHints
<1>6. (hint = "option" => b = "visit_some") /\ (hint = "newtype_struct" => b = "visit_newtype_struct")
      /\ (hint \in {"enum", "bytes"} => b = TapeDe(hint, v))
  BY DEF TapeKey, IntHints
<1>7. hint \in text \cup IntHints \cup {"option", "newtype_struct", "enum", "bytes"}
  BY DEF KeyHints
<1>8. CASE r \in ByValue
  <2>1. a = DomDe(r, hint, v)
    BY <1>8 DEF DomKey, ByValue
  <2>2. a = ValueDe(hint, v, IF r = "owned" THEN OwnedVisit ELSE AnyVisit)
    BY <1>8, <2>1 DEF DomDe, ByValue, BorrowedDe, OwnedDe, OwnedVisit
  <2>3. CASE hint \in {"enum", "bytes"}
    <3>1. Answer(hint, DomDe(r, hint, v), Val(v)) = Answer(hint, TapeDe(hint, v), Val(v))
      BY <1>1, <1>2, <2>3, ValuesAlike
    <3>2. QED
      BY <1>6, <2>1, <2>3, <3>1
  <2>4. CASE hint \in {"option", "newtype_struct"}
    <3>1. a = b
      BY <1>6, <2>2, <2>4 DEF ValueDe
    <3>2. QED
      BY <3>1
  <2>5. CASE hint \in text
    <3>1. a = IF r = "owned" THEN "visit_string" ELSE "visit_borrowed_str"
      BY <1>2, <1>3, <2>2, <2>5 DEF ValueDe
    <3>2. \A y \in StrVisits : Takes(hint, y, val) = IF hint = "bool" THEN FALSE
                                 ELSE IF hint = "str" THEN y = "visit_borrowed_str" ELSE TRUE
      BY <2>5, ZenonT(30) DEF Takes, IntHints, StrVisits, LeafVisits
    <3>3. b = "visit_borrowed_str"
      BY <1>4, <2>5
    <3> HIDE DEF a, b
    <3>4. /\ a \in StrVisits /\ b \in StrVisits /\ a # "undefined" /\ b # "undefined"
          /\ a \in LeafVisits /\ b \in LeafVisits
      BY <3>1, <3>3 DEF StrVisits, LeafVisits
    <3>5. Takes(hint, a, val) = Takes(hint, b, val)
      BY <3>1, <3>2, <3>3, <3>4
    <3>6. QED
      BY <3>4, <3>5, AnswerAlike DEF a, b
  <2>6. QED
    BY <1>7, <1>8, <2>3, <2>4, <2>5
<1>9. CASE r \notin ByValue
  <2>1. a = RefKey(hint, v)
    BY <1>9 DEF DomKey, ByValue, Readers
  <2>2. CASE hint \in IntHints
    <3>1. a = IF IsInt(hint, val) THEN "visit_i64" ELSE "visit_borrowed_str"
      BY <1>1, <2>1, <2>2 DEF RefKey, IntHints
    <3>2. \A y : Takes(hint, y, val) = (y \in IntVisits /\ IsInt(hint, val))
      BY <2>2 DEF Takes, IntHints
    <3>3. b = IF IsInt(hint, val) THEN "visit_i64" ELSE "error"
      BY <1>5, <2>2
    <3> HIDE DEF a, b
    <3>4. a # "undefined" /\ b # "undefined"
      BY <3>1, <3>3
    <3>5. Takes(hint, a, val) = Takes(hint, b, val) /\ (Takes(hint, a, val) => a = b)
      BY <3>1, <3>2, <3>3
    <3>6. QED
      BY <3>4, <3>5, AnswerAlike DEF a, b
  <2>3. CASE hint \in {"option", "newtype_struct"}
    <3>1. a = b
      BY <1>6, <2>1, <2>3 DEF RefKey, IntHints
    <3>2. QED
      BY <3>1
  <2>4. CASE hint = "enum"
    <3>1. a = "visit_enum" /\ b = "visit_enum"
      BY <1>6, <2>1, <2>4 DEF RefKey, IntHints, TapeDe, Unchecked
    <3>2. QED
      BY <3>1
  <2>5. CASE hint = "bytes"
    <3>1. a = "visit_borrowed_str" /\ b = "visit_borrowed_str"
      BY <1>2, <1>6, <2>1, <2>5 DEF RefKey, IntHints, TapeDe, Unchecked
    <3>2. QED
      BY <3>1
  <2>6. CASE hint \in text
    <3>1. a = "visit_borrowed_str"
      BY <2>1, <2>6 DEF RefKey, IntHints
    <3>2. QED
      BY <1>4, <2>6, <3>1
  <2>7. QED
    BY <1>7, <2>2, <2>3, <2>4, <2>5, <2>6
<1>10. QED
  BY <1>8, <1>9

LEMMA VariantsAlike ==
  ASSUME NEW v \in Trees, NEW kind \in Variants, NEW r \in Readers \ {"tape"},
         ~ (kind = "tuple_variant" /\ v = ArrayOf(<< >>)),
         ~ (kind = "struct_variant" /\ v.kind = "Array")
  PROVE  Answer(VariantHint[kind], DomVariant(r, kind, v), "")
         = Answer(VariantHint[kind], TapeVariant(kind, Header(v)), "")
<1> DEFINE a == DomVariant(r, kind, v)
           b == TapeVariant(kind, Header(v))
           k == v.kind
<1>1. a = BorrowedVariant(kind, v)
  BY DEF DomVariant, Readers, BorrowedRefVariant, OwnedVariant, OwnedRefVariant
<1>2. Header(v).kind = k /\ Header(v) # Nothing /\ k \in LeafKinds \cup {"Array", "Object"}
  BY HeaderKind
<1>3. Shows(AnyVisit, k)
  BY <1>2, AnyShows
<1>4. CASE kind = "unit_variant"
  <2>1. a = AnyVisit[k]
    BY <1>1, <1>4 DEF BorrowedVariant
  <2>2. b = IF k = "Null" THEN "visit_unit" ELSE "error"
    BY <1>2, <1>4 DEF TapeVariant, TapeDe, Unchecked, IntHints, OneOf
  <2>3. VariantHint[kind] = "unit" /\ \A y : Takes("unit", y, "") = (y = "visit_unit")
    BY <1>4 DEF VariantHint, Takes, IntHints
  <2>4. (a = "visit_unit") = (k = "Null") /\ a # "undefined"
    BY <1>3, <2>1 DEF Shows, LeafVisits, StrVisits, NumberVisits, IntVisits
  <2> HIDE DEF a, b
  <2>5. Takes("unit", a, "") = Takes("unit", b, "") /\ (Takes("unit", a, "") => a = b) /\ b # "undefined"
    BY <2>2, <2>3, <2>4
  <2>6. Answer("unit", a, "") = Answer("unit", b, "")
    BY <2>4, <2>5, AnswerAlike
  <2>7. QED
    BY <2>3, <2>6 DEF a, b
<1>5. CASE kind = "newtype_variant"
  <2>1. a = b
    BY <1>1, <1>5 DEF BorrowedVariant, TapeVariant
  <2>2. QED
    BY <2>1
<1>6. CASE kind = "tuple_variant"
  <2>1. a = IF k = "Array" THEN "visit_seq" ELSE "error"
    <3>1. k = "Array" => v.items # << >>
      BY <1>6, ArrayShape
    <3>2. a = IF k # "Array" THEN "error"
              ELSE IF v.items = << >> THEN "visit_unit" ELSE "visit_seq"
      BY <1>1, <1>6 DEF BorrowedVariant
    <3> HIDE DEF a
    <3>3. QED
      BY <3>1, <3>2
  <2>2. b = IF k = "Array" THEN "visit_seq" ELSE "error"
    BY <1>2, <1>6 DEF TapeVariant, TapeDe, Unchecked, IntHints, OneOf
  <2>3. QED
    BY <2>1, <2>2
<1>7. CASE kind = "struct_variant"
  <2>1. a = IF k = "Object" THEN "visit_map" ELSE "error"
    BY <1>1, <1>7 DEF BorrowedVariant, OneOf
  <2>2. b = IF k = "Object" THEN "visit_map" ELSE "error"
    <3>1. b = OneOf({"Array", "Object"}, Header(v), AnyVisit[k])
      BY <1>2, <1>7 DEF TapeVariant, TapeDe, Unchecked, IntHints
    <3>2. k # "Array" /\ AnyVisit["Object"] = "visit_map"
      BY <1>7 DEF AnyVisit
    <3>3. QED
      BY <1>2, <3>1, <3>2 DEF OneOf
  <2>3. QED
    BY <2>1, <2>2
<1>8. QED
  BY <1>4, <1>5, <1>6, <1>7 DEF Variants

LEMMA LeavesLockstep ==
  ASSUME DemandInv, NEW answers, NEW where, Settle(answers, where), NEW r \in live \ live'
  PROVE  /\ answers[r] # answers["tape"] /\ differed' = where
         /\ r \in live /\ r \in Readers \ {"tape"} /\ "tape" \in live
<1>1. "tape" \in live /\ live \subseteq Readers
  BY DEF DemandInv, Known
<1>2. live' = {x \in live : answers[x] = answers["tape"]}
      /\ differed' = IF live' = live THEN differed ELSE where
  BY DEF Settle
<1>3. answers[r] # answers["tape"] /\ live' # live
  BY <1>2
<1>4. QED
  BY <1>1, <1>2, <1>3

LEMMA AgreeOnValue ==
  ASSUME DemandInv, ReadsExactly, NEW hint \in HintsOfValue, DeserializeValue(hint),
         NEW r \in live \ live'
  PROVE  OwnDifference(r)'
<1> DEFINE visit == TapeDe(hint, Node)
           n == Top.n
           answers == [x \in live |->
                         IF x = "tape" THEN Answer(hint, visit, Val(Node))
                         ELSE Answer(hint, DomDe(x, hint, n), Val(n))]
           where == [at |-> "value", hint |-> hint, n |-> n]
<1>1. Calls("value") /\ Settle(answers, where)
  BY Zenon DEF DeserializeValue
<1>2. phase = "running" /\ ret = Nothing /\ stack # << >> /\ Top.at = "value"
  BY <1>1, CalledOn
<1>3. /\ answers[r] # answers["tape"] /\ differed' = where
      /\ r \in live /\ r \in Readers \ {"tape"} /\ "tape" \in live
  <2> HIDE DEF answers, where
  <2>1. QED
    BY <1>1, LeavesLockstep
<1>4. /\ answers["tape"] = Answer(hint, visit, Val(Node))
      /\ answers[r] = Answer(hint, DomDe(r, hint, n), Val(n))
  BY <1>3
<1> HIDE DEF answers
<1>5. PICK g \in Goals : \E h \in Goals : Reading(client, Top, g, FALSE, h)
  BY <1>2, ExactTop
<1>6. n = g.tree /\ n \in Trees
  BY <1>2, <1>5, GoalsOf DEF Reading
<1>7. Node = Header(n)
  <2>1. << >> \in Seq(Trees) /\ Left(Top) = <<n>> \o << >>
    BY <1>2, <1>6 DEF Left
  <2>2. QED
    BY <1>2, <1>6, <2>1, ExactNode
<1>8. hint \in Hints
  BY DEF HintsOfValue, Hints, KeyHints
<1>9. r = "owned" /\ hint = "str"
  <2>1. Answer(hint, DomDe(r, hint, n), Val(n)) # Answer(hint, TapeDe(hint, Header(n)), Val(Header(n)))
    BY <1>3, <1>4, <1>7
  <2> HIDE DEF n
  <2>2. QED
    BY <1>3, <1>6, <1>8, <2>1, ValuesAlike
<1>10. differed'.at = "value" /\ differed'.hint = "str"
  BY <1>3, <1>9
<1>11. QED
  BY <1>9, <1>10 DEF OwnDifference

LEMMA AgreeOnKey ==
  ASSUME DemandInv, ReadsExactly, NEW hint \in HintsOfKey, DeserializeKey(hint),
         NEW r \in live \ live'
  PROVE  OwnDifference(r)'
<1> DEFINE visit == TapeKey(hint, Node)
           n == Top.n
           answers == [x \in live |->
                         IF x = "tape" THEN Answer(hint, visit, Val(Node))
                         ELSE Answer(hint, DomKey(x, hint, n), Val(n))]
           where == [at |-> "key", hint |-> hint, n |-> n]
<1>1. Calls("key") /\ Settle(answers, where)
  BY Zenon DEF DeserializeKey
<1>2. phase = "running" /\ ret = Nothing /\ stack # << >> /\ Top.at = "key"
  BY <1>1, CalledOn
<1>3. /\ answers[r] # answers["tape"] /\ differed' = where
      /\ r \in live /\ r \in Readers \ {"tape"} /\ "tape" \in live
  <2> HIDE DEF answers, where
  <2>1. QED
    BY <1>1, LeavesLockstep
<1>4. /\ answers["tape"] = Answer(hint, visit, Val(Node))
      /\ answers[r] = Answer(hint, DomKey(r, hint, n), Val(n))
  BY <1>3
<1> HIDE DEF answers
<1>5. PICK g \in Goals : \E h \in Goals : Reading(client, Top, g, FALSE, h)
  BY <1>2, ExactTop
<1>6. n = g.tree /\ n \in Trees /\ n.kind = "String"
  BY <1>2, <1>5 DEF Reading, Goals
<1>7. Node = n
  <2>1. << >> \in Seq(Trees) /\ Left(Top) = <<n>> \o << >>
    BY <1>2, <1>6 DEF Left
  <2>2. Node = Header(n)
    BY <1>2, <1>6, <2>1, ExactNode
  <2>3. Header(n) = n
    BY <1>6, LeafShape
  <2>4. QED
    BY <2>2, <2>3
<1>8. hint \in KeyHints
  BY DEF HintsOfKey, BorrowedValueKey, OwnedValueKey, KeyHints
<1>9. (r = "owned" /\ hint = "str") \/ (r \in ByValue /\ hint \in IntHints)
  <2>1. Answer(hint, DomKey(r, hint, n), Val(n)) # Answer(hint, TapeKey(hint, n), Val(n))
    BY <1>3, <1>4, <1>7
  <2> HIDE DEF n
  <2>2. QED
    BY <1>3, <1>6, <1>8, <2>1, KeysAlike
<1>10. differed'.at = "key" /\ differed'.hint = hint
  BY <1>3
<1>11. QED
  BY <1>9, <1>10 DEF OwnDifference

(* An access and an iterator have more at the same time. *)
LEMMA AccessAlike ==
  ASSUME DemandInv, NEW T, NEW items \in Seq(T), NEW where,
         Settle(NextAnswers(Len(items), items), where)
  PROVE  live' = live
<1> DEFINE answers == NextAnswers(Len(items), items)
<1>1. "tape" \in live /\ live \subseteq Readers
  BY DEF DemandInv, Known
<1>2. (Len(items) > 0) = (items # << >>)
  OBVIOUS
<1>3. ASSUME NEW r \in live PROVE answers[r] = answers["tape"]
  BY <1>1, <1>2 DEF NextAnswers, Readers, TapeHasMore, BorrowedHasMore, OwnedHasMore
<1>4. live' = {x \in live : answers[x] = answers["tape"]}
  BY DEF Settle
<1> HIDE DEF answers
<1>5. QED
  BY <1>3, <1>4

LEMMA AgreeOnAccess ==
  ASSUME DemandInv, ReadsExactly, NextElement \/ NextKey
  PROVE  live' = live
<1>1. /\ phase = "running" /\ ret = Nothing /\ stack # << >>
      /\ (NextElement => Top.at = "seq") /\ (NextKey => Top.at = "map")
  BY CalledOn DEF NextElement, NextKey
<1>2. PICK g \in Goals : \E h \in Goals : Reading(client, Top, g, FALSE, h)
  BY <1>1, ExactTop
<1>3. CASE NextElement
  <2>1. Top.items \in Seq(Trees) /\ Top.len = Len(Top.items)
    BY <1>1, <1>2, <1>3 DEF Reading, ReadingArray
  <2>2. PICK items, where : items \in Seq(Trees) /\ Settle(NextAnswers(Len(items), items), where)
    BY <1>3, <2>1 DEF NextElement
  <2>3. QED
    BY <2>2, AccessAlike
<1>4. CASE NextKey
  <2>1. Top.entries \in Seq(KeyedType) /\ Top.len = Len(Top.entries)
    BY <1>1, <1>2, <1>4 DEF Reading, ReadingObject
  <2>2. PICK entries, where : entries \in Seq(KeyedType) /\ Settle(NextAnswers(Len(entries), entries), where)
    BY <1>4, <2>1 DEF NextKey
  <2>3. QED
    BY <2>2, AccessAlike
<1>5. QED
  BY <1>3, <1>4

LEMMA AgreeOnVariantSeed ==
  ASSUME DemandInv, ReadsExactly, VariantSeed
  PROVE  live' = live
<1> DEFINE t == IF Top.unit THEN Top.name ELSE Node
           answers == [x \in live |->
                         IF x = "tape" THEN Answer("string", AnyVisit[t.kind], Val(t))
                         ELSE Answer("string", AnyVisit[Top.key.kind], Val(Top.key))]
           where == [at |-> "enum", hint |-> "variant", n |-> Top.key]
<1>1. Calls("enum") /\ Settle(answers, where)
  BY Zenon DEF VariantSeed
<1>2. /\ phase = "running" /\ ret = Nothing /\ stack # << >> /\ Top.at = "enum"
      /\ "tape" \in live
  BY <1>1, CalledOn
<1>3. PICK g \in Goals, h \in Goals : Reading(client, Top, g, FALSE, h)
  BY <1>2, ExactTop
<1>4. ReadingVariant(Top, g.tree, FALSE, h)
  BY <1>2, <1>3 DEF Reading
<1>5. t = Top.key
  <2>1. CASE Top.unit
    BY <1>2, <1>4, <2>1 DEF ReadingVariant
  <2>2. CASE ~ Top.unit
    <3>1. PICK e \in KeyedType : Top.n = e.value /\ Top.key = Leaf("String", e.key)
      BY <1>2, <1>4, <2>2 DEF ReadingVariant
    <3> DEFINE key == Leaf("String", e.key)
    <3>2. key \in Trees /\ e.value \in Trees /\ key.kind = "String"
      <4>1. e \in EntryType /\ key \in Trees
        BY DEF KeyedType
      <4>2. key.kind = "String"
        BY DEF Leaf
      <4> HIDE DEF key
      <4>3. QED
        BY <4>1, <4>2 DEF EntryType
    <3> HIDE DEF key
    <3>3. Left(Top) = <<key>> \o <<e.value>> /\ <<e.value>> \in Seq(Trees)
      <4>1. Left(Top) = <<Top.key, Top.n>>
        BY <1>2, <2>2 DEF Left
      <4>2. <<key, e.value>> = <<key>> \o <<e.value>>
        BY <3>2
      <4>3. QED
        BY <3>1, <3>2, <4>1, <4>2 DEF key
    <3>4. Node = Header(key)
      BY <1>2, <3>2, <3>3, ExactNode
    <3>5. Header(key) = key
      BY <3>2, LeafShape
    <3>6. QED
      BY <2>2, <3>1, <3>4, <3>5 DEF key
  <2>3. QED
    BY <2>1, <2>2
<1> HIDE DEF t
<1>6. \A x \in live : answers[x] = answers["tape"]
  BY <1>2, <1>5
<1>7. live' = {x \in live : answers[x] = answers["tape"]}
  BY <1>1 DEF Settle
<1> HIDE DEF answers
<1>8. QED
  BY <1>6, <1>7

LEMMA AgreeOnVariant ==
  ASSUME DemandInv, ReadsExactly, NEW kind \in Variants, ReadVariant(kind), NEW r \in live \ live'
  PROVE  OwnDifference(r)'
<1> DEFINE n == Top.n
           hint == VariantHint[kind]
           visit == IF Top.unit THEN UnitOnly(kind) ELSE TapeVariant(kind, Node)
           domVisit(x) == IF Top.unit THEN UnitOnly(kind) ELSE DomVariant(x, kind, n)
           answers == [x \in live |-> Answer(hint, IF x = "tape" THEN visit ELSE domVisit(x), "")]
           where == [at |-> kind, hint |-> hint, n |-> n]
<1>1. Calls("variant") /\ Settle(answers, where)
  BY Zenon DEF ReadVariant
<1>2. phase = "running" /\ ret = Nothing /\ stack # << >> /\ Top.at = "variant"
  BY <1>1, CalledOn
<1>3. /\ answers[r] # answers["tape"] /\ differed' = where
      /\ r \in live /\ r \in Readers \ {"tape"} /\ "tape" \in live
  <2> HIDE DEF answers, where
  <2>1. QED
    BY <1>1, LeavesLockstep
<1>4. answers["tape"] = Answer(hint, visit, "") /\ answers[r] = Answer(hint, domVisit(r), "")
  BY <1>3
<1> HIDE DEF answers
<1>5. ~ Top.unit
  BY <1>3, <1>4
<1>6. PICK g \in Goals, h \in Goals : Reading(client, Top, g, FALSE, h)
  BY <1>2, ExactTop
<1>7. n \in Trees
  <2>1. ReadingVariant(Top, g.tree, FALSE, h)
    BY <1>2, <1>6 DEF Reading
  <2>2. QED
    BY <1>5, <2>1 DEF ReadingVariant, KeyedType, EntryType
<1>8. Node = Header(n)
  <2>1. << >> \in Seq(Trees) /\ Left(Top) = <<n>> \o << >>
    BY <1>2, <1>5 DEF Left
  <2>2. QED
    BY <1>2, <1>7, <2>1, ExactNode
<1>9. \/ kind = "tuple_variant" /\ n = ArrayOf(<< >>)
      \/ kind = "struct_variant" /\ n.kind = "Array"
  <2>1. Answer(VariantHint[kind], DomVariant(r, kind, n), "")
        # Answer(VariantHint[kind], TapeVariant(kind, Header(n)), "")
    BY <1>3, <1>4, <1>5, <1>8
  <2> HIDE DEF n
  <2>2. QED
    BY <1>3, <1>7, <2>1, VariantsAlike
<1>10. differed'.at = kind /\ differed'.n = n
  BY <1>3
<1> HIDE DEF n
<1>11. QED
  BY <1>9, <1>10 DEF OwnDifference

(* A client that exhausts its accesses is answered alike by the tape and   *)
(* by the values made of it, but for the four kinds of request.            *)
THEOREM ReadersAnswerAlike == Spec => ReadersAgree
<1>1. ASSUME DemandInv, ExactInv, [Next]_vars
      PROVE  [client # "hasty" => \A r \in live \ live' : OwnDifference(r)']_live
  <2> SUFFICES ASSUME client # "hasty", live' # live, NEW r \in live \ live'
               PROVE  OwnDifference(r)'
    OBVIOUS
  <2>1. Next
    BY <1>1 DEF vars
  <2>2. phase = "running" => ReadsExactly
    BY <1>1 DEF ExactInv
  <2>3. ASSUME NEW hint \in HintsOfValue, DeserializeValue(hint) PROVE OwnDifference(r)'
    BY <1>1, <2>2, <2>3, AgreeOnValue DEF DeserializeValue, Calls
  <2>4. ASSUME NEW hint \in HintsOfKey, DeserializeKey(hint) PROVE OwnDifference(r)'
    BY <1>1, <2>2, <2>4, AgreeOnKey DEF DeserializeKey, Calls
  <2>5. ASSUME NextElement \/ NextKey PROVE FALSE
    BY <1>1, <2>2, <2>5, AgreeOnAccess DEF NextElement, NextKey, Calls
  <2>6. ASSUME NextValue \/ Stop \/ Return PROVE FALSE
    BY <2>6 DEF NextValue, Stop, Return
  <2>7. ASSUME VariantSeed PROVE FALSE
    BY <1>1, <2>2, <2>7, AgreeOnVariantSeed DEF VariantSeed, Calls
  <2>8. ASSUME NEW kind \in Variants, ReadVariant(kind) PROVE OwnDifference(r)'
    BY <1>1, <2>2, <2>8, AgreeOnVariant DEF ReadVariant, Calls
  <2>9. QED
    BY <2>1, <2>3, <2>4, <2>5, <2>6, <2>7, <2>8, Zenon DEF Next
<1>2. QED
  BY <1>1, SpecDemand, SpecExact, PTL DEF Spec, ReadersAgree

=============================================================================

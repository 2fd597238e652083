--------------------------- MODULE CapacityProofs ---------------------------
(***************************************************************************)
(* The tape fits the capacity that was reserved for it, for every document *)
(* whose cells and row keys are not empty, except in the rows of a nested  *)
(* table that declares none.                                               *)
(*                                                                         *)
(* CapacityInv of Stage2Properties is inductive relative to IndInv.  First *)
(* how many slots the operations on the tape take and how far the cursor   *)
(* moves, then what is owed, then each action, then the theorems.          *)
(***************************************************************************)
EXTENDS ListProofs

-----------------------------------------------------------------------------
(* How many slots are taken. *)

(* y has n slots more than x, and nothing on it that makes up for an empty *)
(* cell on x.                                                              *)
More(x, y, n) ==
  /\ x.tape \in Seq(Nodes) /\ y.tape \in Seq(Nodes)
  /\ n \in Nat
  /\ Len(y.tape) = Len(x.tape) + n
  /\ FilledCells(y) => FilledCells(x)

(* It is so if what was on the tape stays there. *)
LEMMA MoreIfKept ==
  ASSUME NEW x, x.tape \in Seq(Nodes), NEW y, y.tape \in Seq(Nodes), NEW n \in Nat,
         Len(y.tape) = Len(x.tape) + n,
         \A k \in 1..Len(x.tape) : y.tape[k].kind = x.tape[k].kind /\ y.tape[k].tok = x.tape[k].tok
  PROVE  More(x, y, n)
<1>1. \A k \in 1..Len(x.tape) : k \in 1..Len(y.tape)
  OBVIOUS
<1>2. FilledCells(y) => FilledCells(x)
  BY <1>1 DEF FilledCells
<1>3. QED
  BY <1>2 DEF More

LEMMA MoreOn ==
  ASSUME NEW x, NEW y, NEW z, NEW m, NEW n, More(x, y, m), More(y, z, n)
  PROVE  More(x, z, m + n)
<1>1. /\ m \in Nat /\ n \in Nat /\ x.tape \in Seq(Nodes) /\ z.tape \in Seq(Nodes)
      /\ Len(y.tape) = Len(x.tape) + m /\ Len(z.tape) = Len(y.tape) + n
  BY DEF More
<1> DEFINE short == Len(x.tape)
           long == Len(z.tape)
<1>2. short \in Nat /\ m \in Nat /\ n \in Nat /\ long = (short + m) + n
  BY <1>1
<1> HIDE DEF short, long
<1>3. m + n \in Nat /\ long = short + (m + n)
  BY ONLY <1>2
<1>4. FilledCells(z) => FilledCells(x)
  BY DEF More
<1>5. QED
  BY <1>1, <1>3, <1>4 DEF More, short, long

(* The tape stays as it is: an entry is counted, or nothing happens.       *)
LEMMA MoreItself ==
  ASSUME NEW x \in Builders
  PROVE  More(x, x, 0) /\ More(x, Counted(x), 0) /\ Counted(x) \in Builders
<1>1. x.tape \in Seq(Nodes) /\ x.cnt \in Nat
  BY BuilderFields
<1>2. Counted(x) \in Builders /\ Counted(x).tape = x.tape
  BY DEF Counted, Builders
<1>3. QED
  BY <1>1, <1>2, MoreIfKept

(* A node takes one slot. *)
LEMMA MoreWritten ==
  ASSUME NEW x \in Builders, NEW node \in Nodes
  PROVE  LET y == Write(x, node)
         IN  /\ y \in Builders /\ More(x, y, 1)
             /\ Len(x.tape) + 1 \in 1..Len(y.tape)
             /\ y.tape[Len(x.tape) + 1] = node
<1> DEFINE y == Write(x, node)
           tape == Append(x.tape, node)
<1>1. x.tape \in Seq(Nodes) /\ tape \in Seq(Nodes)
  BY BuilderFields
<1>2. y \in Builders /\ y.tape = tape
  <2>1. y = [x EXCEPT !.tape = tape]
    BY DEF Write
  <2> HIDE DEF tape
  <2>2. QED
    BY <1>1, <2>1 DEF Builders
<1> HIDE DEF y
<1>3. /\ y.tape \in Seq(Nodes) /\ Len(y.tape) = Len(x.tape) + 1
      /\ \A k \in 1..Len(x.tape) : y.tape[k] = x.tape[k]
      /\ y.tape[Len(x.tape) + 1] = node
  BY <1>1, <1>2
<1>4. More(x, y, 1)
  BY <1>1, <1>3, MoreIfKept
<1>5. Len(x.tape) + 1 \in 1..Len(y.tape)
  BY <1>1, <1>3
<1>6. QED
  BY <1>2, <1>3, <1>4, <1>5 DEF y

LEMMA MorePut ==
  ASSUME NEW x \in Builders, NEW p \in Nat
  PROVE  /\ PutKey(x, p) \in Builders /\ More(x, PutKey(x, p), 1)
         /\ FilledCells(PutKey(x, p)) => Tok(p) # ":"
         /\ PutValue(x, p) \in Builders /\ More(x, PutValue(x, p), 1)
         /\ FilledCells(PutValue(x, p)) => Tok(p) \notin {"NL", "COMMA", "|", "TAB"}
         /\ \A kind \in Containers : More(x, PutEmpty(x, kind), 1)
         /\ PutHeaderKey(x, p) \in Builders
         /\ \E n \in {0, 1} : More(x, PutHeaderKey(x, p), n)
<1> DEFINE key == Node("Key", p, -1)
           value == Node("Value", p, -1)
           y == Write(x, key)
           z == Write(x, value)
           l == Len(x.tape) + 1
<1>1. key \in Nodes /\ value \in Nodes
  BY NodeFacts
<1>2. key.kind = "Key" /\ key.tok = p /\ value.kind = "Value" /\ value.tok = p
  BY DEF Node
<1> HIDE DEF key, value
<1>3. y \in Builders /\ More(x, y, 1) /\ l \in 1..Len(y.tape) /\ y.tape[l] = key
  BY <1>1, MoreWritten
<1>4. z \in Builders /\ More(x, z, 1) /\ l \in 1..Len(z.tape) /\ z.tape[l] = value
  BY <1>1, MoreWritten
<1> HIDE DEF y, z, l
<1>5. PutKey(x, p) = Counted(y) /\ PutValue(x, p) = z
  BY DEF PutKey, PutValue, y, z, key, value
<1>6. PutKey(x, p) \in Builders /\ More(y, PutKey(x, p), 0)
  BY <1>3, <1>5, MoreItself
<1>7. More(x, PutKey(x, p), 1)
  <2>1. More(x, PutKey(x, p), 1 + 0)
    BY <1>3, <1>6, MoreOn
  <2>2. QED
    BY <2>1
<1>8. FilledCells(PutKey(x, p)) => Tok(p) # ":"
  BY <1>2, <1>3, <1>6 DEF More, FilledCells
<1>9. FilledCells(z) => Tok(p) \notin {"NL", "COMMA", "|", "TAB"}
  BY <1>2, <1>4 DEF FilledCells
<1>10. ASSUME NEW kind \in Containers
       PROVE  More(x, PutEmpty(x, kind), 1)
  <2> DEFINE empty == Node(kind, 0, -1)
  <2>1. empty \in Nodes
    BY NodeFacts
  <2> HIDE DEF empty
  <2>2. More(x, Write(x, empty), 1)
    BY <2>1, MoreWritten
  <2>3. QED
    BY <2>2 DEF PutEmpty, empty
<1>11. PutHeaderKey(x, p) \in Builders /\ \E n \in {0, 1} : More(x, PutHeaderKey(x, p), n)
  BY <1>6, <1>7, MoreItself DEF PutHeaderKey
<1>12. QED
  BY <1>4, <1>5, <1>6, <1>7, <1>8, <1>9, <1>10, <1>11

(* So does a container that is opened; to close it takes none.             *)
LEMMA MoreOpened ==
  ASSUME NEW x \in Builders, NEW kind \in Containers, NEW tag, NEW ws,
         NEW declared \in Nat \cup {-1}
  PROVE  More(x, OpenScope(x, kind, tag, ws, declared), 1)
<1> DEFINE node == Node(kind, 0, declared)
           y == OpenScope(x, kind, tag, ws, declared)
<1>1. x.tape \in Seq(Nodes)
  BY BuilderFields
<1>2. node \in Nodes
  BY NodeFacts
<1> HIDE DEF node
<1>3. y.tape = Append(x.tape, node)
  BY DEF OpenScope, node
<1> HIDE DEF y
<1>4. /\ y.tape \in Seq(Nodes) /\ Len(y.tape) = Len(x.tape) + 1
      /\ \A k \in 1..Len(x.tape) : y.tape[k] = x.tape[k]
  BY <1>1, <1>2, <1>3
<1>5. More(x, y, 1)
  BY <1>1, <1>4, MoreIfKept
<1>6. QED
  BY <1>5 DEF y

LEMMA MoreClosed ==
  ASSUME NEW x, ScopesOK(x)
  PROVE  More(x, CloseScope(x), 0)
<1> DEFINE y == CloseScope(x)
           s == x.start
           count == Len(x.tape) - s
           node == [x.tape[s] EXCEPT !.len = x.cnt, !.count = count]
<1>1. x.tape \in Seq(Nodes) /\ s \in 1..Len(x.tape)
  BY BuilderFields DEF ScopesOK
<1>2. y.tape = [x.tape EXCEPT ![s] = node]
  <2>1. y.tape = [x.tape EXCEPT ![s].len = x.cnt, ![s].count = count]
    BY DEF CloseScope, Close, Backfill
  <2> HIDE DEF y, count
  <2>2. QED
    BY <1>1, <2>1
<1>3. y.tape \in Seq(Nodes)
  <2>1. y \in Builders
    BY CloseScopeFacts
  <2>2. QED
    BY <2>1, BuilderFields
<1>4. node.kind = x.tape[s].kind /\ node.tok = x.tape[s].tok
  <2> HIDE DEF count
  <2>1. x.tape[s] \in Nodes
    BY <1>1
  <2>2. QED
    BY <2>1 DEF Nodes
<1> HIDE DEF y, s, node
<1>5. /\ Len(y.tape) = Len(x.tape)
      /\ \A k \in 1..Len(x.tape) :
           y.tape[k].kind = x.tape[k].kind /\ y.tape[k].tok = x.tape[k].tok
  BY <1>1, <1>2, <1>4
<1>6. Len(y.tape) = Len(x.tape) + 0
  BY <1>1, <1>5
<1>7. More(x, y, 0)
  BY <1>1, <1>3, <1>5, <1>6, MoreIfKept
<1>8. QED
  BY <1>7 DEF y

(* A header takes a slot for its key and one for its container, at most.   *)
LEMMA MoreEntered ==
  ASSUME IndInv, NEW kind \in Containers, NEW ws \in Nat
  PROVE  \E n \in {0, 1, 2} : More(b, Enter(PutHeaderKey(b, hdr.key), kind, ws), n)
<1> DEFINE y == PutHeaderKey(b, hdr.key)
           x == Enter(y, kind, ws)
<1>1. b \in Builders /\ hdr.key \in Nat /\ hdr.n \in Nat \cup {-1}
  BY Here
<1>2. PICK n \in {0, 1} : y \in Builders /\ More(b, y, n)
  BY <1>1, MorePut
<1> HIDE DEF y
<1>3. PICK m \in {0, 1} : More(y, x, m)
  <2>1. CASE hdr.root
    <3> DEFINE indents == Append(y.indents, ws)
    <3>1. x = [y EXCEPT !.indents = indents]
      BY <2>1 DEF Enter
    <3> HIDE DEF indents, x
    <3>2. x.tape = y.tape /\ y.tape \in Seq(Nodes)
      BY <1>2, <3>1, BuilderFields DEF Builders
    <3>3. More(y, x, 0)
      BY <3>2, MoreIfKept
    <3>4. QED
      BY <3>3
  <2>2. CASE ~ hdr.root
    BY <1>1, <1>2, <2>2, MoreOpened DEF Enter
  <2>3. QED
    BY <2>1, <2>2
<1> HIDE DEF x
<1>4. More(b, x, n + m)
  BY <1>2, <1>3, MoreOn
<1>5. n + m \in {0, 1, 2}
  OBVIOUS
<1>6. QED
  BY <1>4, <1>5 DEF x, y

-----------------------------------------------------------------------------
(* How far the cursor moves. *)

(* A value ends at the cursor or behind it. *)
LEMMA ValueEndAhead ==
  ASSUME toks \in Document, NEW p \in 1..N, NEW D
  PROVE  /\ ValueEnd(p, D) \in 1..N /\ ValueEnd(p, D) \in Int
         /\ ValueEnd(p, D) >= p
         /\ Tok(ValueEnd(p, D)) # Tok(p) => ValueEnd(p, D) >= p + 1
<1>1. N \in Nat
  BY DocumentFacts
<1>2. ValueEnd(p, D) \in p..N
  BY ValueEndFacts
<1>3. ValueEnd(p, D) \in Int /\ ValueEnd(p, D) \in 1..N /\ ValueEnd(p, D) >= p
  BY <1>1, <1>2
<1>4. ValueEnd(p, D) # p => ValueEnd(p, D) >= p + 1
  BY <1>1, <1>3
<1>5. QED
  BY <1>3, <1>4

(* A line end takes the cursor to the line behind it. Only at the end of   *)
(* the document it stays.                                                  *)
LEMMA EolAdvances ==
  ASSUME toks \in Document, dedent \in Nat, NEW p \in 1..N, NEW x, NEW pend, NEW blank
  PROVE  LET e == EolState(p, x, pend, blank)
         IN  /\ e.at \in 1..N /\ e.at \in Int /\ e.at >= p
             /\ e.is # "Fail" => \/ e.at >= p + 1
                                 \/ p = N /\ e.at = N /\ e.is = "CloseScope"
<1> DEFINE e == EolState(p, x, pend, blank)
           S == {j \in (p + 1)..N : Tok(j) # "NL" \/ j = N}
           q == Min(S)
           ws == toks[q].ws
           is == IF q > p + 1 /\ Strict /\ (blank \/ InsideArray(ws, x, pend))
                 THEN "Fail" ELSE IndentRelation(ws, x)
<1>1. N \in Nat /\ e.at \in 1..N
  BY DocumentFacts, EolFacts
<1>2. CASE p = N
  BY <1>1, <1>2 DEF EolState
<1>3. CASE p # N
  <2>1. S \subseteq Nat /\ N \in S
    BY <1>1, <1>3
  <2>2. q \in S
    BY <2>1, MinOfNaturals
  <2>3. q \in Int /\ q >= p + 1
    BY <1>1, <2>2
  <2> HIDE DEF q
  <2>4. e = IF Tok(p) # "NL" THEN [is |-> "Fail", at |-> p, ws |-> dedent]
            ELSE IF q = N THEN [is |-> "CloseScope", at |-> q, ws |-> dedent]
            ELSE [is |-> is, at |-> q, ws |-> ws]
    BY <1>3 DEF EolState, q
  <2> HIDE DEF is, ws, e
  <2>5. (e.at = p /\ e.is = "Fail") \/ e.at = q
    BY <2>4
  <2>6. QED
    BY <1>1, <2>3, <2>5 DEF e
<1>4. QED
  BY <1>2, <1>3

(* There are no groups in a header without a field list.                   *)
LEMMA NoGroups ==
  ASSUME NEW h, h.lo = 0, h.hi = 0
  PROVE  Groups(h) = {}
BY DEF Groups

(* A header with a bracket is read to its end behind three tokens or more, *)
(* and only one kind of table has groups.                                  *)
LEMMA BracketAdvances ==
  ASSUME toks \in Document, NEW key \in Nat, NEW p \in 1..N,
         NEW h, h = BracketHeader(key, p), h.type # "Fail"
  PROVE  /\ h.end \in Int /\ h.end >= p + 3
         /\ h.type # "NestedFieldGroupsArray" => Groups(h) = {}
<1> DEFINE keyed == Tok(p + 2) = ":"
           q     == IF keyed THEN p + 3 ELSE p + 2
           other == Tok(q) \in {"|", "TAB"}
           delim == IF other THEN Tok(q) ELSE "COMMA"
           close == IF other THEN q + 1 ELSE q
           n     == NumberOf[Tok(p + 1)]
<1>1. N \in Nat
  BY DocumentFacts
<1>2. close \in Nat /\ close >= p + 2
  BY <1>1
<1>3. h = IF Tok(close + 1) = "LBRACE"
          THEN FieldListHeader(key, n, keyed, delim, close + 1)
          ELSE Header(IF keyed THEN "KeyedTabularObjects"
                      ELSE IF n = 0 THEN "EmptyArray" ELSE "SimpleArray",
                      key, n, delim, 0, 0, close + 1)
  BY DEF BracketHeader, NoHeader, Header
<1>4. keyed \in BOOLEAN
  OBVIOUS
<1> HIDE DEF close, delim, n, keyed
<1>5. CASE Tok(close + 1) = "LBRACE"
  <2> DEFINE lo == close + 1
             hi == Min(Closers(lo))
             g  == Header("TabularArray", key, n, delim, lo, hi, hi + 1)
  <2>1. h = FieldListHeader(key, n, keyed, delim, lo)
    BY <1>3, <1>5
  <2>2. /\ Closers(lo) # {}
        /\ \E t \in {"KeyedTabularObjects", "TabularArray", "NestedFieldGroupsArray"} :
             /\ h = [g EXCEPT !.type = t]
             /\ t # "NestedFieldGroupsArray" => Groups(g) = {}
    <3>1. h = IF \/ Closers(lo) = {}
                 \/ \E j \in (lo + 1)..(hi - 1) : Tok(j) = "NL" /\ ~ Skipped(j)
                 \/ keyed /\ Groups(g) # {}
              THEN NoHeader
              ELSE [g EXCEPT !.type = IF keyed THEN "KeyedTabularObjects"
                                      ELSE IF Groups(g) # {} THEN "NestedFieldGroupsArray"
                                      ELSE "TabularArray"]
      BY <2>1 DEF FieldListHeader
    <3>2. h # NoHeader
      BY DEF NoHeader, Header
    <3> HIDE DEF lo, hi, g
    <3>3. QED
      BY <1>4, <3>1, <3>2
  <2>3. hi \in Int /\ hi >= close + 2
    <3>1. Closers(lo) \subseteq Nat
      BY <1>1, <1>2 DEF Closers
    <3>2. hi \in Closers(lo)
      BY <2>2, <3>1, MinOfNaturals
    <3>3. hi \in (lo + 1)..N
      BY <3>2 DEF Closers
    <3>4. QED
      BY <1>1, <1>2, <3>3
  <2>4. h.end = hi + 1 /\ (h.type # "NestedFieldGroupsArray" => Groups(g) = {})
        /\ Groups(h) = Groups(g)
    <3> HIDE DEF lo, hi
    <3>1. PICK t : /\ h = [g EXCEPT !.type = t]
                   /\ t # "NestedFieldGroupsArray" => Groups(g) = {}
      BY <2>2
    <3>2. h.type = t /\ h.end = g.end /\ h.lo = g.lo /\ h.hi = g.hi /\ g.end = hi + 1
      BY <3>1 DEF Header
    <3>3. Groups(h) = Groups(g)
      BY <3>2 DEF Groups, IsGroup
    <3>4. QED
      BY <3>1, <3>2, <3>3
  <2>5. QED
    BY <1>2, <2>3, <2>4
<1>6. CASE Tok(close + 1) # "LBRACE"
  <2>1. h.end = close + 1 /\ h.lo = 0 /\ h.hi = 0
    BY <1>3, <1>6 DEF Header
  <2>2. QED
    BY <1>2, <2>1, NoGroups
<1>7. QED
  BY <1>5, <1>6

(* What read_header! has read of a line.                                   *)
LEMMA HeaderAdvances ==
  ASSUME toks \in Document, NEW p \in 1..N, NEW h, h = ReadHeader(p)
  PROVE  /\ HeaderOK(h)
         /\ h.type # "Fail" => h.end \in 1..N /\ h.end \in Int /\ h.end >= p
         /\ h.type = "ObjectStart" => h.end >= p + 1
         /\ h.type \in ContainerTypes => h.end >= p + 3
         /\ h.type \in ContainerTypes \ {"NestedFieldGroupsArray"} => Groups(h) = {}
<1> DEFINE e == ValueEnd(p, {":", "["})
           key == IF HasText(p, e) THEN p ELSE 0
<1>1. N \in Nat /\ HeaderOK(h) /\ (h.type # "Fail" => h.end \in 1..N)
  BY DocumentFacts, ReadHeaderFacts DEF HeaderOK
<1>2. e \in 1..N /\ e \in Int /\ e >= p
  BY ValueEndAhead
<1>3. key \in Nat
  BY <1>1
<1>4. h = IF Tok(e) = "[" THEN BracketHeader(key, e)
          ELSE IF Tok(e) = ":"
          THEN IF key = 0 THEN NoHeader ELSE Header("ObjectStart", key, 0, "COMMA", 0, 0, e)
          ELSE Header(IF key = 0 THEN "EmptyObject" ELSE "PrimitiveValue",
                      key, 0, "COMMA", 0, 0, e)
  BY DEF ReadHeader
<1>5. key # 0 => e >= p + 1
  <2>1. HasText(p, e) => \E j \in p..(e - 1) : TRUE
    BY DEF HasText
  <2>2. (\E j \in p..(e - 1) : TRUE) => e >= p + 1
    BY <1>1, <1>2
  <2>3. QED
    BY <2>1, <2>2
<1> HIDE DEF e, key
<1>6. CASE Tok(e) = "["
  <2>1. h = BracketHeader(key, e)
    BY <1>4, <1>6
  <2>2. h.type # "ObjectStart"
    <3>1. \A n, keyed, delim, lo : FieldListHeader(key, n, keyed, delim, lo).type # "ObjectStart"
      BY DEF FieldListHeader, NoHeader, Header
    <3>2. QED
      BY <2>1, <3>1 DEF BracketHeader, NoHeader, Header
  <2>3. h.type # "Fail" => /\ h.end \in Int /\ h.end >= e + 3
                           /\ h.type # "NestedFieldGroupsArray" => Groups(h) = {}
    BY <1>2, <1>3, <2>1, BracketAdvances
  <2>4. h.type # "Fail" => h.end \in Int /\ h.end >= p + 3 /\ h.end >= p
    BY <1>1, <1>2, <2>3
  <2>5. QED
    BY <1>1, <2>2, <2>3, <2>4 DEF ContainerTypes
<1>7. CASE Tok(e) # "["
  <2>1. /\ h.type \in {"Fail", "ObjectStart", "EmptyObject", "PrimitiveValue"}
        /\ h.type # "Fail" => h.end = e
        /\ h.type = "ObjectStart" => key # 0
    BY <1>4, <1>7 DEF NoHeader, Header
  <2>2. QED
    BY <1>1, <1>2, <1>5, <2>1 DEF ContainerTypes
<1>8. QED
  BY <1>6, <1>7

-----------------------------------------------------------------------------
(* What is owed. *)

(* The groups that are still to come are finitely many, and no more than   *)
(* there are.                                                              *)
LEMMA GroupNumbers ==
  ASSUME NEW h \in Headers, NEW c
  PROVE  /\ IsFiniteSet(GroupsFrom(h, c))
         /\ Cardinality(Groups(h)) \in Nat /\ Cardinality(GroupsFrom(h, c)) \in Nat
         /\ Cardinality(GroupsFrom(h, c)) <= Cardinality(Groups(h))
         /\ RowCost(h) \in Nat
<1>1. h.lo \in Nat /\ h.hi \in Nat
  BY DEF Headers
<1>2. IsFiniteSet((h.lo + 1)..h.hi)
  BY <1>1, FS_Interval
<1>3. IsFiniteSet(Groups(h))
  BY <1>2, FS_Subset DEF Groups
<1>4. GroupsFrom(h, c) \subseteq Groups(h)
  BY DEF GroupsFrom
<1>5. /\ IsFiniteSet(GroupsFrom(h, c))
      /\ Cardinality(GroupsFrom(h, c)) <= Cardinality(Groups(h))
  BY <1>3, <1>4, FS_Subset
<1>6. Cardinality(Groups(h)) \in Nat /\ Cardinality(GroupsFrom(h, c)) \in Nat
  BY <1>3, <1>5, FS_CardinalityType
<1>7. RowCost(h) \in Nat
  BY <1>6 DEF RowCost
<1>8. QED
  BY <1>5, <1>6, <1>7

(* From a token of the field list to a later one they get fewer, by one at *)
(* least if the token is a group.                                          *)
LEMMA GroupsPassed ==
  ASSUME NEW h \in Headers, NEW c \in (h.lo + 1)..h.hi, NEW d \in Int, d > c
  PROVE  /\ Cardinality(GroupsFrom(h, d)) <= Cardinality(GroupsFrom(h, c))
         /\ IsGroup(h, c) => Cardinality(GroupsFrom(h, d)) + 1 <= Cardinality(GroupsFrom(h, c))
<1> DEFINE S == GroupsFrom(h, c)
           T == GroupsFrom(h, d)
<1>1. IsFiniteSet(S) /\ Cardinality(S) \in Nat /\ Cardinality(T) \in Nat
  BY GroupNumbers
<1>2. h.lo \in Nat /\ h.hi \in Nat /\ c \in Int
  BY DEF Headers
<1>3. T \subseteq S
  <2>1. \A j \in Groups(h) : j \in Int
    BY <1>2 DEF Groups
  <2>2. \A j \in Groups(h) : d <= j => c <= j
    BY <1>2, <2>1
  <2>3. QED
    BY <2>2 DEF GroupsFrom
<1>4. Cardinality(T) <= Cardinality(S)
  BY <1>1, <1>3, FS_Subset
<1>5. ASSUME IsGroup(h, c)
      PROVE  Cardinality(T) + 1 <= Cardinality(S)
  <2>1. c \in S
    BY <1>2, <1>5 DEF GroupsFrom, Groups
  <2>2. c \notin T
    BY <1>2 DEF GroupsFrom
  <2> HIDE DEF S, T
  <2>3. T \subseteq S \ {c}
    BY <1>3, <2>2
  <2>4. IsFiniteSet(S \ {c}) /\ Cardinality(S \ {c}) = Cardinality(S) - 1
    BY <1>1, <2>1, FS_RemoveElement
  <2>5. Cardinality(T) <= Cardinality(S \ {c})
    BY <2>3, <2>4, FS_Subset
  <2>6. QED
    BY <1>1, <2>4, <2>5
<1>6. QED
  BY <1>4, <1>5

(* What is owed is a number, and not negative.                             *)
LEMMA OwedNumbers ==
  ASSUME NEW h \in Headers, NEW l \in Nat, NEW c, NEW p, NEW pos
  PROVE  /\ SlotsOwed(p, h, l, c) \in Int
         /\ TableKnown(p, h, l, pos) => SlotsOwed(p, h, l, c) >= 0
         /\ LineEndAhead(p, pos) \in {0, 1} /\ LineEndAhead(p, pos) \in Int
<1> DEFINE cost == RowCost(h)
           groups == Cardinality(GroupsFrom(h, c))
<1>1. cost \in Nat /\ groups \in Nat
  BY GroupNumbers
<1>2. h.type = "ParseTabularArrayLenient" => cost = 0
  BY DEF RowCost
<1>3. SlotsOwed(p, h, l, c) = CASE p \in HeaderStates -> 2
                                [] p = "Row"    -> l * cost
                                [] p = "Cell"   -> (l - 1) * cost + 2 * groups
                                [] p = "EndRow" -> (l - 1) * cost
                                [] OTHER        -> 0
  BY DEF SlotsOwed
<1> HIDE DEF cost, groups
<1>4. l * cost \in Nat /\ (l - 1) * cost \in Int
  BY <1>1
<1>5. cost = 0 \/ l >= 1 => (l - 1) * cost >= 0
  BY <1>1
<1>6. TableKnown(p, h, l, pos) /\ p \in {"Cell", "EndRow"} => (l - 1) * cost >= 0
  BY <1>2, <1>5 DEF TableKnown, RowStates
<1>7. LineEndAhead(p, pos) \in {0, 1} /\ LineEndAhead(p, pos) \in Int
  BY DEF LineEndAhead
<1> DEFINE rest == (l - 1) * cost
           all == l * cost
<1> HIDE DEF rest, all
<1>8. SlotsOwed(p, h, l, c) \in {2, all, rest + 2 * groups, rest, 0}
  BY <1>3 DEF rest, all
<1>9. SlotsOwed(p, h, l, c) \in Int
  BY <1>1, <1>4, <1>8 DEF rest, all
<1>10. TableKnown(p, h, l, pos) => SlotsOwed(p, h, l, c) >= 0
  <2>1. TableKnown(p, h, l, pos) /\ p \in {"Cell", "EndRow"} => rest >= 0 /\ rest + 2 * groups >= 0
    BY <1>1, <1>4, <1>6 DEF rest
  <2>2. all >= 0
    BY <1>4 DEF all
  <2>3. QED
    BY <1>3, <2>1, <2>2 DEF rest, all, HeaderStates, TableStates
<1>11. QED
  BY <1>7, <1>9, <1>10

-----------------------------------------------------------------------------
(* Every step can afford the slots it writes.                              *)

CapacityNext ==
  /\ pc' # "Start"
  /\ pc' \notin Final => TableKnown(pc', hdr', left', i')
  /\ FilledCells(b') /\ ~ WrapsRows(hdr') =>
       IF pc' \in Final THEN Len(b'.tape) <= mem'.cap
                        ELSE Fits(pc', hdr', left', cell', b', mem', i')

(* What is read off the tokens is the same in the next state.              *)
LEMMA CapacityNextSuffices ==
  ASSUME toks' = toks, CapacityNext
  PROVE  CapacityInv'
<1>1. /\ N' = N /\ (\A j : Tok(j)' = Tok(j)) /\ (\A j : Opens(j)' = Opens(j))
      /\ Tok(i)' = Tok(i')
  BY SameTokens
<1>2. Groups(hdr)' = Groups(hdr')
  BY <1>1 DEF Groups, IsGroup
<1>3. GroupsFrom(hdr, cell)' = GroupsFrom(hdr', cell') /\ RowCost(hdr)' = RowCost(hdr')
  BY <1>2 DEF GroupsFrom, RowCost
<1>4. SlotsOwed(pc, hdr, left, cell)' = SlotsOwed(pc', hdr', left', cell')
  BY <1>3 DEF SlotsOwed
<1>5. LineEndAhead(pc, i)' = LineEndAhead(pc', i')
  BY <1>1 DEF LineEndAhead
<1>6. Fits(pc, hdr, left, cell, b, mem, i)' <=> Fits(pc', hdr', left', cell', b', mem', i')
  BY <1>1, <1>4, <1>5 DEF Fits
<1>7. WrapsRows(hdr)' <=> WrapsRows(hdr')
  BY DEF WrapsRows
<1>8. TableKnown(pc, hdr, left, i)' <=> TableKnown(pc', hdr', left', i')
  BY <1>1, <1>2, <1>7 DEF TableKnown
<1>9. FilledCells(b)' <=> FilledCells(b')
  <2>1. \A k : Tok(b.tape[k].tok)' = Tok(b'.tape[k].tok)
    BY SameTokens
  <2>2. QED
    BY <2>1 DEF FilledCells
<1>10. Running' <=> pc' \notin Final \cup {"Start"}
  BY DEF Running, Done, Final
<1>11. TapeFits' <=> Len(b'.tape) <= mem'.cap
  BY DEF TapeFits
<1>12. QED
  BY <1>6, <1>7, <1>8, <1>9, <1>10, <1>11 DEF CapacityInv, CapacityNext

(* The State a step comes to is well typed.                                *)
LEMMA HereNext ==
  ASSUME IndInv', toks' = toks
  PROVE  /\ hdr' \in Headers /\ left' \in Nat /\ i' \in 1..N /\ b' \in Builders
         /\ mem' \in [cap : Nat, slack : Nat]
<1>1. N' = N
  BY SameTokens
<1>2. QED
  BY <1>1 DEF IndInv, TypeOK

(* Beside the slots that are owed the tokens ahead pay for one slot each.  *)
Budget(p, h, l, c, pos) == SlotsOwed(p, h, l, c) - pos - LineEndAhead(p, pos)

(* What the invariant says of a step: if no cell is empty behind it, none  *)
(* was before.                                                             *)
LEMMA CapacityNow ==
  ASSUME IndInv, CapacityInv, pc \notin Final \cup {"Start"}
  PROVE  /\ TableKnown(pc, hdr, left, i)
         /\ pc \notin RowStates => ~ WrapsRows(hdr)
         /\ FilledCells(b) /\ ~ WrapsRows(hdr) => Fits(pc, hdr, left, cell, b, mem, i)
         /\ Budget(pc, hdr, left, cell, i) \in Int
<1>1. Running
  BY DEF Running, Done, Final
<1>2. TableKnown(pc, hdr, left, i)
  BY <1>1 DEF CapacityInv
<1>3. FilledCells(b) /\ ~ WrapsRows(hdr) => Fits(pc, hdr, left, cell, b, mem, i)
  BY <1>1 DEF CapacityInv
<1>4. Budget(pc, hdr, left, cell, i) \in Int
  <2>1. hdr \in Headers /\ left \in Nat
    BY Here
  <2>2. SlotsOwed(pc, hdr, left, cell) \in Int /\ LineEndAhead(pc, i) \in Int /\ i \in Int
    BY <2>1, OwedNumbers, CursorFacts
  <2>3. QED
    BY <2>2 DEF Budget
<1>5. QED
  BY <1>2, <1>3, <1>4 DEF TableKnown

(* A step that writes n slots and sets d aside can afford them if it owes  *)
(* so much less behind it.                                                 *)
LEMMA Affords ==
  ASSUME IndInv, CapacityInv, pc \notin Final \cup {"Start"},
         IndInv', toks' = toks, pc' \notin Final \cup {"Start"},
         pc \in RowStates => hdr' = hdr,
         TableKnown(pc', hdr', left', i'),
         NEW n, More(b, b', n),
         NEW d \in Nat, mem'.cap - mem'.slack = mem.cap - mem.slack + d,
         FilledCells(b') /\ ~ WrapsRows(hdr') =>
           n + Budget(pc', hdr', left', cell', i') <= Budget(pc, hdr, left, cell, i) + d
  PROVE  CapacityNext
<1> DEFINE l     == Len(b.tape)
           ll    == Len(b'.tape)
           cap   == mem.cap
           ccap  == mem'.cap
           slack == mem.slack
           sslack == mem'.slack
           owed  == SlotsOwed(pc, hdr, left, cell)
           oowed == SlotsOwed(pc', hdr', left', cell')
           eol   == LineEndAhead(pc, i)
           eeol  == LineEndAhead(pc', i')
           pos   == i'
<1>1. SUFFICES ASSUME FilledCells(b'), ~ WrapsRows(hdr')
               PROVE  Fits(pc', hdr', left', cell', b', mem', i')
  BY DEF CapacityNext
<1>2. FilledCells(b) /\ ~ WrapsRows(hdr)
  BY <1>1, CapacityNow DEF More
<1>3. l + owed + (N - i + 1) + slack <= cap + eol
  BY <1>2, CapacityNow DEF Fits
<1>4. /\ owed \in Int /\ eol \in Int /\ oowed \in Int /\ eeol \in Int
  <2>1. hdr \in Headers /\ left \in Nat /\ hdr' \in Headers /\ left' \in Nat
    BY Here, HereNext
  <2>2. QED
    BY <2>1, OwedNumbers
<1>5. /\ cap \in Int /\ slack \in Int /\ ccap \in Int /\ sslack \in Int
      /\ N \in Int /\ i \in Int /\ pos \in Int
  <2>1. mem \in [cap : Nat, slack : Nat] /\ mem' \in [cap : Nat, slack : Nat]
        /\ N \in Nat /\ i \in 1..N /\ i' \in 1..N
    BY Here, HereNext
  <2>2. QED
    BY <2>1
<1>6. l \in Int /\ n \in Int /\ ll = l + n
  <2>1. b.tape \in Seq(Nodes) /\ n \in Nat /\ ll = l + n
    BY DEF More
  <2>2. QED
    BY <2>1
<1>7. n + (oowed - pos - eeol) <= (owed - i - eol) + d
  BY <1>1 DEF Budget
<1>8. ccap - sslack = cap - slack + d
  OBVIOUS
<1> HIDE DEF l, ll, cap, ccap, slack, sslack, owed, oowed, eol, eeol, pos
<1>9. ll + oowed + (N - pos + 1) + sslack <= ccap + eeol
  BY <1>3, <1>4, <1>5, <1>6, <1>7, <1>8
<1>10. QED
  BY <1>9 DEF Fits, ll, oowed, pos, sslack, ccap, eeol

(* A step that sets no slots aside. *)
LEMMA AffordsHere ==
  ASSUME IndInv, CapacityInv, pc \notin Final \cup {"Start"},
         IndInv', toks' = toks, pc' \notin Final \cup {"Start"},
         pc \in RowStates => hdr' = hdr,
         TableKnown(pc', hdr', left', i'),
         NEW n, More(b, b', n), mem' = mem,
         FilledCells(b') /\ ~ WrapsRows(hdr') =>
           n + Budget(pc', hdr', left', cell', i') <= Budget(pc, hdr, left, cell, i)
  PROVE  CapacityNext
<1>1. mem'.cap - mem'.slack = mem.cap - mem.slack + 0
  <2>1. mem.cap \in Nat /\ mem.slack \in Nat
    BY Here
  <2>2. QED
    BY <2>1
<1>2. Budget(pc, hdr, left, cell, i) + 0 = Budget(pc, hdr, left, cell, i)
  BY CapacityNow
<1>3. QED
  BY <1>1, <1>2, Affords

(* The last step: no more than what is owed is written.                    *)
LEMMA EndsFitting ==
  ASSUME IndInv, CapacityInv, pc \notin Final \cup {"Start"}, pc' \in Final,
         pc \in RowStates => hdr' = hdr,
         NEW n, More(b, b', n), n = 0 \/ n <= SlotsOwed(pc, hdr, left, cell),
         mem'.cap \in Nat, mem'.cap >= mem.cap
  PROVE  CapacityNext
<1> DEFINE l     == Len(b.tape)
           ll    == Len(b'.tape)
           cap   == mem.cap
           ccap  == mem'.cap
           slack == mem.slack
           owed  == SlotsOwed(pc, hdr, left, cell)
           eol   == LineEndAhead(pc, i)
<1>1. SUFFICES ASSUME FilledCells(b'), ~ WrapsRows(hdr')
               PROVE  ll <= ccap
  BY DEF CapacityNext, Final
<1>2. FilledCells(b) /\ ~ WrapsRows(hdr)
  BY <1>1, CapacityNow DEF More
<1>3. l + owed + (N - i + 1) + slack <= cap + eol
  BY <1>2, CapacityNow DEF Fits
<1>4. owed \in Int /\ owed >= 0 /\ eol \in {0, 1}
  <2>1. hdr \in Headers /\ left \in Nat
    BY Here
  <2>2. QED
    BY <2>1, CapacityNow, OwedNumbers
<1>5. cap \in Nat /\ slack \in Nat /\ N \in Int /\ i \in Int /\ i <= N
  <2>1. mem \in [cap : Nat, slack : Nat] /\ N \in Nat /\ i \in 1..N
    BY Here
  <2>2. QED
    BY <2>1
<1>6. l \in Int /\ n \in Int /\ ll = l + n
  <2>1. b.tape \in Seq(Nodes) /\ n \in Nat /\ ll = l + n
    BY DEF More
  <2>2. QED
    BY <2>1
<1>7. ccap \in Int /\ ccap >= cap /\ (n = 0 \/ n <= owed)
  OBVIOUS
<1> HIDE DEF l, ll, cap, ccap, slack, owed, eol
<1>8. QED
  BY <1>3, <1>4, <1>5, <1>6, <1>7

(* A document that is rejected.                                            *)
LEMMA FailsFitting ==
  ASSUME IndInv, CapacityInv, pc \notin Final \cup {"Start"},
         pc' \in {"Failed", "Panicked"}, b' = b,
         pc \in RowStates => hdr' = hdr,
         mem'.cap \in Nat, mem'.cap >= mem.cap
  PROVE  CapacityNext
<1>1. More(b, b', 0)
  BY Here, MoreItself
<1>2. QED
  BY <1>1, EndsFitting DEF Final

LEMMA FailsHere ==
  ASSUME IndInv, CapacityInv, pc \notin Final \cup {"Start"},
         pc' \in {"Failed", "Panicked"}, b' = b,
         pc \in RowStates => hdr' = hdr, mem' = mem
  PROVE  CapacityNext
<1>1. mem.cap \in Nat
  BY Here
<1>2. mem'.cap \in Nat /\ mem'.cap >= mem.cap
  BY <1>1
<1>3. QED
  BY <1>2, FailsFitting

(* The States in which every slot is paid for by the token it is written   *)
(* for.                                                                    *)
Walking == {"ParseHeader", "ParseSimpleObjectValue", "Element", "ExpectBlockArrayItem"}

LEMMA Budgets ==
  ASSUME NEW p \in Walking \cup HeaderStates \cup {"ScopeEnd"}, NEW h \in Headers,
         NEW l \in Nat, NEW c, NEW pos \in Int
  PROVE  /\ Budget(p, h, l, c, pos)
              = (IF p \in HeaderStates THEN 2 ELSE 0) - pos - LineEndAhead(p, pos)
         /\ p # "ScopeEnd" => LineEndAhead(p, pos) = 0
         /\ p = "ScopeEnd" => LineEndAhead(p, pos) = IF Tok(pos) = "NL" THEN 1 ELSE 0
<1>1. SlotsOwed(p, h, l, c) = IF p \in HeaderStates THEN 2 ELSE 0
  BY DEF SlotsOwed, Walking, HeaderStates, TableStates
<1>2. /\ p # "ScopeEnd" => LineEndAhead(p, pos) = 0
      /\ p = "ScopeEnd" => LineEndAhead(p, pos) = IF Tok(pos) = "NL" THEN 1 ELSE 0
  BY DEF LineEndAhead, Walking, HeaderStates, TableStates
<1>3. QED
  BY <1>1, <1>2 DEF Budget

(* A step between them needs n tokens for its n slots.                     *)
LEMMA PaidByTokens ==
  ASSUME IndInv, CapacityInv, IndInv', UNCHANGED <<toks, hdr, mem>>,
         pc \in Walking \cup HeaderStates \cup {"ScopeEnd"}, pc' \in Walking \cup {"ScopeEnd"},
         NEW n, More(b, b', n),
         n + i + LineEndAhead(pc, i)
           <= i' + LineEndAhead(pc', i') + (IF pc \in HeaderStates THEN 2 ELSE 0)
  PROVE  CapacityNext
<1> DEFINE owed == IF pc \in HeaderStates THEN 2 ELSE 0
           eol  == LineEndAhead(pc, i)
           eeol == LineEndAhead(pc', i')
           pos  == i'
           now  == Budget(pc, hdr, left, cell, i)
           next == Budget(pc', hdr', left', cell', i')
<1>1. i \in Int /\ pos \in Int /\ n \in Int /\ eol \in Int /\ eeol \in Int /\ owed \in Int
  <2>1. i \in 1..N /\ N \in Nat /\ i' \in 1..N
    BY Here, HereNext
  <2>2. n \in Nat /\ eol \in {0, 1} /\ eeol \in {0, 1} /\ owed \in {0, 2}
    BY DEF More, LineEndAhead
  <2> HIDE DEF eol, eeol, owed
  <2>3. QED
    BY <2>1, <2>2
<1>2. now = owed - i - eol /\ next = 0 - pos - eeol
  <2>1. hdr \in Headers /\ left \in Nat /\ hdr' \in Headers /\ left' \in Nat
    BY Here, HereNext
  <2>2. pc' \notin HeaderStates
    BY DEF Walking, HeaderStates, TableStates
  <2>3. now = owed - i - eol
    BY <1>1, <2>1, Budgets
  <2>4. next = (IF pc' \in HeaderStates THEN 2 ELSE 0) - pos - eeol
    BY <1>1, <2>1, Budgets
  <2>5. QED
    BY <2>2, <2>3, <2>4
<1>3. n + next <= now
  <2>1. n + i + eol <= pos + eeol + owed
    OBVIOUS
  <2> HIDE DEF owed, eol, eeol, pos, now, next
  <2>2. QED
    BY <1>1, <1>2, <2>1
<1>4. pc \notin Final \cup {"Start"} /\ pc' \notin Final \cup {"Start"} /\ pc \notin RowStates
      /\ pc' \notin RowStates /\ pc' \notin TableStates
  BY DEF Walking, HeaderStates, TableStates, Final, RowStates
<1>5. TableKnown(pc', hdr', left', i')
  <2>1. ~ WrapsRows(hdr)
    BY <1>4, CapacityNow
  <2>2. ~ WrapsRows(hdr')
    BY <2>1 DEF WrapsRows
  <2>3. QED
    BY <1>4, <2>2 DEF TableKnown
<1>6. QED
  BY <1>3, <1>4, <1>5, AffordsHere

(* A line end that is read is a token; and the last one is paid when it is *)
(* left to ScopeEnd.                                                       *)
LEMMA FollowPays ==
  ASSUME IndInv, NEW p \in 1..N, NEW z, NEW pend, NEW blank, NEW e, e = EolState(p, z, pend, blank),
         NEW x, NEW arms, Follow(e, x, arms), "Fail" \notin DOMAIN arms,
         "CloseScope" \in DOMAIN arms => arms["CloseScope"] = "ScopeEnd"
  PROVE  \/ pc' = "Failed" /\ b' = b
         \/ /\ \E a \in DOMAIN arms : pc' = arms[a]
            /\ b' = x /\ i' \in Int
            /\ p + 1 <= i' + LineEndAhead(pc', i')
<1>1. toks \in Document /\ dedent \in Nat /\ N \in Nat
  BY Here
<1>2. /\ e.at \in Int
      /\ e.is # "Fail" => e.at >= p + 1 \/ (p = N /\ e.at = N /\ e.is = "CloseScope")
  BY <1>1, EolAdvances
<1> HIDE DEF EolState
<1>3. \/ Fail
      \/ e.is \in DOMAIN arms /\ pc' = arms[e.is] /\ b' = x /\ i' = e.at
  BY DEF Follow, Goto
<1>4. CASE e.is \in DOMAIN arms /\ pc' = arms[e.is] /\ b' = x /\ i' = e.at
  <2>1. LineEndAhead(pc', i') \in {0, 1}
    BY DEF LineEndAhead
  <2>2. CASE e.at >= p + 1
    BY <1>1, <1>2, <1>4, <2>1, <2>2
  <2>3. CASE p = N /\ e.at = N /\ e.is = "CloseScope"
    <3>1. pc' = "ScopeEnd" /\ Tok(i') = "NL" /\ i' = p
      BY <1>1, <1>4, <2>3, DocumentFacts
    <3>2. LineEndAhead(pc', i') = 1
      BY <3>1 DEF LineEndAhead
    <3>3. i' \in Int /\ p + 1 <= i' + LineEndAhead(pc', i')
      BY <1>1, <3>1, <3>2
    <3>4. QED
      BY <1>4, <3>3
  <2>4. QED
    BY <1>2, <1>4, <2>2, <2>3
<1>5. QED
  BY <1>3, <1>4 DEF Fail

LEMMA FollowsPaid ==
  ASSUME IndInv, CapacityInv, IndInv', UNCHANGED <<toks, hdr, mem>>,
         pc \in Walking \cup HeaderStates,
         NEW p \in 1..N, NEW z, NEW pend, NEW blank, NEW e, e = EolState(p, z, pend, blank),
         NEW x, NEW arms, Follow(e, x, arms), "Fail" \notin DOMAIN arms,
         "CloseScope" \in DOMAIN arms => arms["CloseScope"] = "ScopeEnd",
         \A a \in DOMAIN arms : arms[a] \in Walking \cup {"ScopeEnd"},
         NEW n, More(b, x, n), n + i <= p + 1 + (IF pc \in HeaderStates THEN 2 ELSE 0)
  PROVE  CapacityNext
<1>1. \/ pc' = "Failed" /\ b' = b
      \/ /\ pc' \in Walking \cup {"ScopeEnd"} /\ b' = x /\ i' \in Int
         /\ p + 1 <= i' + LineEndAhead(pc', i')
  BY FollowPays
<1>2. pc \notin Final \cup {"Start"} /\ pc \notin RowStates /\ LineEndAhead(pc, i) = 0
  BY DEF Walking, HeaderStates, TableStates, Final, RowStates, LineEndAhead
<1>3. CASE pc' = "Failed" /\ b' = b
  BY <1>2, <1>3, FailsHere
<1>4. CASE /\ pc' \in Walking \cup {"ScopeEnd"} /\ b' = x /\ i' \in Int
           /\ p + 1 <= i' + LineEndAhead(pc', i')
  <2> DEFINE owed == IF pc \in HeaderStates THEN 2 ELSE 0
             now  == LineEndAhead(pc, i)
             paid == i' + LineEndAhead(pc', i')
  <2>1. /\ n \in Int /\ i \in Int /\ p \in Int /\ owed \in Int /\ now = 0 /\ paid \in Int
        /\ n + i <= p + 1 + owed /\ p + 1 <= paid
    <3>1. n \in Nat /\ N \in Nat /\ i \in 1..N /\ LineEndAhead(pc', i') \in {0, 1}
      BY Here DEF More, LineEndAhead
    <3>2. QED
      BY <1>2, <1>4, <3>1
  <2>2. n + i + now <= paid + owed
    <3> HIDE DEF now, paid, owed
    <3>1. QED
      BY <2>1
  <2>3. QED
    BY <1>4, <2>2, PaidByTokens
<1>5. QED
  BY <1>1, <1>3, <1>4

LEMMA LinesPaid ==
  ASSUME IndInv, CapacityInv, IndInv', UNCHANGED <<toks, hdr, mem>>,
         pc \in Walking \cup HeaderStates,
         NEW p \in 1..N, NEW z, NEW pend, NEW blank, NEW e, e = EolState(p, z, pend, blank),
         NEW x, NEW s \in Walking \cup {"ScopeEnd"},
         \/ Follow(e, x, [Nested |-> s]) \/ Follow(e, x, [Sibling |-> s])
         \/ Follow(e, x, [CloseScope |-> "ScopeEnd"])
         \/ Follow(e, x, [Sibling |-> s, CloseScope |-> "ScopeEnd"]),
         NEW n, More(b, x, n), n + i <= p + 1 + (IF pc \in HeaderStates THEN 2 ELSE 0)
  PROVE  CapacityNext
<1>1. ASSUME NEW arms, Follow(e, x, arms), DOMAIN arms \subseteq {"Nested", "Sibling", "CloseScope"},
             \A a \in DOMAIN arms : arms[a] \in {s, "ScopeEnd"},
             "CloseScope" \in DOMAIN arms => arms["CloseScope"] = "ScopeEnd"
      PROVE  CapacityNext
  <2>1. "Fail" \notin DOMAIN arms /\ \A a \in DOMAIN arms : arms[a] \in Walking \cup {"ScopeEnd"}
    BY <1>1
  <2>2. QED
    BY <1>1, <2>1, FollowsPaid
<1>2. CASE Follow(e, x, [Nested |-> s])
  <2> DEFINE arms == [Nested |-> s]
  <2>1. DOMAIN arms = {"Nested"} /\ arms["Nested"] = s /\ Follow(e, x, arms)
    BY <1>2
  <2> HIDE DEF arms
  <2>2. QED
    BY <1>1, <2>1
<1>3. CASE Follow(e, x, [Sibling |-> s])
  <2> DEFINE arms == [Sibling |-> s]
  <2>1. DOMAIN arms = {"Sibling"} /\ arms["Sibling"] = s /\ Follow(e, x, arms)
    BY <1>3
  <2> HIDE DEF arms
  <2>2. QED
    BY <1>1, <2>1
<1>4. CASE Follow(e, x, [CloseScope |-> "ScopeEnd"])
  <2> DEFINE arms == [CloseScope |-> "ScopeEnd"]
  <2>1. DOMAIN arms = {"CloseScope"} /\ arms["CloseScope"] = "ScopeEnd" /\ Follow(e, x, arms)
    BY <1>4
  <2> HIDE DEF arms
  <2>2. QED
    BY <1>1, <2>1
<1>5. CASE Follow(e, x, [Sibling |-> s, CloseScope |-> "ScopeEnd"])
  <2> DEFINE arms == [Sibling |-> s, CloseScope |-> "ScopeEnd"]
  <2>1. /\ DOMAIN arms = {"Sibling", "CloseScope"} /\ Follow(e, x, arms)
        /\ arms["Sibling"] = s /\ arms["CloseScope"] = "ScopeEnd"
    BY <1>5
  <2> HIDE DEF arms
  <2>2. QED
    BY <1>1, <2>1
<1>6. QED
  BY <1>2, <1>3, <1>4, <1>5

-----------------------------------------------------------------------------
(* The steps. *)

(* What stands behind a colon takes one slot at most.                      *)
LEMMA ParseSimpleObjectValueFits ==
  ASSUME IndInv, CapacityInv, IndInv', ParseSimpleObjectValue
  PROVE  CapacityNext
<1> DEFINE e   == EolState(i, b, pending, FALSE)
           end == ValueEnd(i, {})
           x   == IF IsEmptyList(i, end) THEN PutEmpty(b, "Array") ELSE PutValue(b, i)
           f   == EolState(end, x, pending, FALSE)
           o   == OpenScope(b, "Object", "Object", Indent(b) + IndentSize, -1)
           y   == PutEmpty(b, "Object")
<1>1. /\ pc = "ParseSimpleObjectValue" /\ UNCHANGED <<toks, hdr, mem>>
      /\ pc \in Walking \cup HeaderStates /\ ~ (pc \in HeaderStates)
  BY DEF ParseSimpleObjectValue, Walking, HeaderStates, TableStates
<1>2. /\ b \in Builders /\ toks \in Document /\ i \in 1..N /\ i \in Nat /\ N \in Nat /\ Tok(N) = "NL"
  BY Here, CursorFacts, DocumentFacts
<1>3. More(b, x, 1) /\ More(b, y, 1) /\ More(b, b, 0)
  BY <1>2, MorePut, MoreItself DEF Containers
<1>4. More(b, o, 1)
  BY <1>2, MoreOpened DEF Containers
<1>5. end \in 1..N /\ end \in Int /\ end >= i
  BY <1>2, ValueEndAhead
<1>6. /\ 1 + i <= i + 1 + 0 /\ 0 + i <= i + 1 + 0 /\ 1 + i <= end + 1 + 0
  BY <1>2, <1>5
<1>7. \/ Tok(i) = "NL" /\ i = N /\ Goto("ScopeEnd", y, i)
      \/ Follow(e, o, [Nested |-> "ParseHeader"])
      \/ Follow(e, y, [Sibling |-> "ParseHeader"])
      \/ Follow(e, b, [CloseScope |-> "ScopeEnd"])
      \/ Follow(f, x, [Sibling |-> "ParseHeader", CloseScope |-> "ScopeEnd"])
      \/ Fail
  <2>1. e.is \in {"Sibling", "Nested", "CloseScope", "Fail"}
    BY EolAnswers
  <2> HIDE DEF e, o, y, x, f
  <2>2. QED
    BY <2>1 DEF ParseSimpleObjectValue, e, o, y, x, f, end
<1> HIDE DEF o, y, x, end
<1>8. CASE i = N /\ Goto("ScopeEnd", y, i)
  <2>1. pc' = "ScopeEnd" /\ b' = y /\ i' = i /\ Tok(i') = "NL"
    BY <1>2, <1>8 DEF Goto
  <2>2. LineEndAhead(pc', i') = 1 /\ LineEndAhead(pc, i) = 0
    BY <1>1, <2>1 DEF LineEndAhead
  <2>3. 1 + i + 0 <= i + 1 + 0
    BY <1>2
  <2>4. QED
    BY <1>1, <1>3, <2>1, <2>2, <2>3, PaidByTokens
<1>9. "ParseHeader" \in Walking \cup {"ScopeEnd"}
  BY DEF Walking
<1>10. e = EolState(i, b, pending, FALSE) /\ f = EolState(end, x, pending, FALSE)
  OBVIOUS
<1> HIDE DEF e, f
<1>11. CASE Follow(e, o, [Nested |-> "ParseHeader"])
  BY <1>1, <1>2, <1>4, <1>6, <1>9, <1>10, <1>11, LinesPaid
<1>12. CASE Follow(e, y, [Sibling |-> "ParseHeader"])
  BY <1>1, <1>2, <1>3, <1>6, <1>9, <1>10, <1>12, LinesPaid
<1>13. CASE Follow(e, b, [CloseScope |-> "ScopeEnd"])
  BY <1>1, <1>2, <1>3, <1>6, <1>9, <1>10, <1>13, LinesPaid
<1>14. CASE Follow(f, x, [Sibling |-> "ParseHeader", CloseScope |-> "ScopeEnd"])
  BY <1>1, <1>3, <1>5, <1>6, <1>9, <1>10, <1>14, LinesPaid
<1>15. CASE Fail
  BY <1>1, <1>15, FailsHere DEF Fail, Final, RowStates
<1>16. QED
  BY <1>7, <1>8, <1>11, <1>12, <1>13, <1>14, <1>15

(* The key and the container of a header are owed.                         *)
LEMMA ParseEmptyArrayFits ==
  ASSUME IndInv, CapacityInv, IndInv', ParseEmptyArray
  PROVE  CapacityNext
<1> DEFINE y == PutHeaderKey(b, hdr.key)
           ws == Indent(y) + IndentSize
           x == Enter(y, "Array", ws)
           e == EolState(i + 1, x, pending, FALSE)
           arms == [Sibling |-> "ScopeEnd", CloseScope |-> "ScopeEnd"]
<1>1. /\ pc = "ParseEmptyArray" /\ UNCHANGED <<toks, hdr, mem>>
      /\ pc \in Walking \cup HeaderStates /\ pc \in HeaderStates
  BY DEF ParseEmptyArray, Walking, HeaderStates, TableStates
<1>2. (i < N /\ Follow(e, x, arms)) \/ Fail
  BY DEF ParseEmptyArray
<1>3. i \in Nat /\ N \in Nat
  BY CursorFacts
<1>4. ws \in Nat
  BY <1>1, Here, HereOutsideRows, PutFacts, ScopesFacts DEF Final
<1>5. PICK n \in {0, 1, 2} : More(b, x, n)
  BY <1>4, MoreEntered DEF Containers
<1> HIDE DEF x
<1>6. CASE i < N /\ Follow(e, x, arms)
  <2>1. i + 1 \in 1..N /\ n + i <= i + 1 + 1 + 2
    BY <1>3, <1>6
  <2>2. e = EolState(i + 1, x, pending, FALSE)
    OBVIOUS
  <2> HIDE DEF e
  <2>3. QED
    BY <1>1, <1>5, <1>6, <2>1, <2>2, LinesPaid
<1>7. CASE Fail
  BY <1>1, <1>7, FailsHere DEF Fail, Final, RowStates
<1>8. QED
  BY <1>2, <1>6, <1>7

LEMMA ParseInlineArrayFits ==
  ASSUME IndInv, CapacityInv, IndInv', ParseInlineArray
  PROVE  CapacityNext
<1> DEFINE y == PutHeaderKey(b, hdr.key)
           ws == IF hdr.root THEN Indent(y) + IndentSize ELSE Indent(y)
           x == Enter(y, "Array", ws)
<1>1. /\ pc = "ParseInlineArray" /\ UNCHANGED <<toks, hdr, mem>>
      /\ pc \in Walking \cup HeaderStates /\ pc \in HeaderStates
  BY DEF ParseInlineArray, Walking, HeaderStates, TableStates
<1>2. Goto("Element", x, i) \/ Fail
  BY DEF ParseInlineArray
<1>3. i \in Nat
  BY CursorFacts
<1>4. ws \in Nat
  BY <1>1, Here, HereOutsideRows, PutFacts, ScopesFacts DEF Final
<1>5. PICK n \in {0, 1, 2} : More(b, x, n)
  BY <1>4, MoreEntered DEF Containers
<1> HIDE DEF x
<1>6. CASE Goto("Element", x, i)
  <2>1. pc' = "Element" /\ b' = x /\ i' = i
    BY <1>6 DEF Goto
  <2>2. LineEndAhead(pc', i') = 0 /\ LineEndAhead(pc, i) = 0
    BY <1>1, <2>1 DEF LineEndAhead
  <2>3. n + i + 0 <= i + 0 + 2
    BY <1>3
  <2>4. pc' \in Walking \cup {"ScopeEnd"}
    BY <2>1 DEF Walking
  <2>5. QED
    BY <1>1, <1>5, <2>1, <2>2, <2>3, <2>4, PaidByTokens
<1>7. CASE Fail
  BY <1>1, <1>7, FailsHere DEF Fail, Final, RowStates
<1>8. QED
  BY <1>2, <1>6, <1>7

LEMMA ParseBlockArrayFits ==
  ASSUME IndInv, CapacityInv, IndInv', ParseBlockArray
  PROVE  CapacityNext
<1> DEFINE y == PutHeaderKey(b, hdr.key)
           ws == Indent(y) + IndentSize
           x == Enter(y, "Array", ws)
           e == EolState(i, y, pending, FALSE)
           arms == [Nested |-> "ExpectBlockArrayItem"]
<1>1. /\ pc = "ParseBlockArray" /\ UNCHANGED <<toks, hdr, mem>>
      /\ pc \in Walking \cup HeaderStates /\ pc \in HeaderStates
  BY DEF ParseBlockArray, Walking, HeaderStates, TableStates
<1>2. Follow(e, x, arms) \/ Fail
  BY DEF ParseBlockArray
<1>3. i \in Nat /\ N \in Nat /\ i \in 1..N
  BY CursorFacts, Here
<1>4. ws \in Nat
  BY <1>1, Here, HereOutsideRows, PutFacts, ScopesFacts DEF Final
<1>5. PICK n \in {0, 1, 2} : More(b, x, n)
  BY <1>4, MoreEntered DEF Containers
<1> HIDE DEF x
<1>6. CASE Follow(e, x, arms)
  <2>1. n + i <= i + 1 + 2
    BY <1>3
  <2>2. arms["Nested"] = "ExpectBlockArrayItem" /\ DOMAIN arms = {"Nested"}
    OBVIOUS
  <2>3. QED
    BY <1>1, <1>3, <1>5, <1>6, <2>1, <2>2, FollowsPaid DEF Walking
<1>7. CASE Fail
  BY <1>1, <1>7, FailsHere DEF Fail, Final, RowStates
<1>8. QED
  BY <1>2, <1>6, <1>7

(* Every element has a token of its own, the delimiter or line end behind  *)
(* it if it has no other.                                                  *)
LEMMA ElementFits ==
  ASSUME IndInv, CapacityInv, IndInv', Element
  PROVE  CapacityNext
<1> DEFINE delims == IF left > 1 THEN {hdr.delim} ELSE {"NL"}
           end    == ValueEnd(i, delims)
           x      == PutValue(Counted(b), i)
           e      == EolState(end, x, pending, TRUE)
           arms   == [Sibling |-> "ScopeEnd", CloseScope |-> "ScopeEnd"]
<1>1. /\ pc = "Element" /\ UNCHANGED <<toks, hdr, mem>>
      /\ pc \in Walking \cup HeaderStates /\ ~ (pc \in HeaderStates)
  BY DEF Element, ElementEnds, Walking, HeaderStates, TableStates
<1>2. Goto("Element", x, end + 1) \/ Follow(e, x, arms) \/ Fail
  BY DEF Element, ElementEnds
<1>3. toks \in Document /\ i \in Nat /\ N \in Nat /\ i \in 1..N /\ b \in Builders
  BY CursorFacts, Here
<1>4. end \in 1..N /\ end \in Int /\ end >= i
  BY <1>3, ValueEndAhead
<1>5. More(b, x, 1)
  <2> DEFINE y == Counted(b)
  <2>1. y \in Builders /\ More(b, y, 0)
    BY <1>3, MoreItself
  <2>2. x = PutValue(y, i)
    OBVIOUS
  <2> HIDE DEF x, y
  <2>3. More(y, x, 1)
    BY <1>3, <2>1, <2>2, MorePut
  <2>4. More(b, x, 0 + 1)
    BY <2>1, <2>3, MoreOn
  <2>5. QED
    BY <2>4
<1> HIDE DEF x, end
<1>6. CASE Goto("Element", x, end + 1)
  <2>1. pc' = "Element" /\ b' = x /\ i' = end + 1
    BY <1>6 DEF Goto
  <2>2. LineEndAhead(pc', i') = 0 /\ LineEndAhead(pc, i) = 0
    BY <1>1, <2>1 DEF LineEndAhead
  <2>3. 1 + i + 0 <= (end + 1) + 0 + 0
    BY <1>3, <1>4
  <2>4. pc' \in Walking \cup {"ScopeEnd"}
    BY <2>1 DEF Walking
  <2>5. QED
    BY <1>1, <1>5, <2>1, <2>2, <2>3, <2>4, PaidByTokens
<1>7. CASE Follow(e, x, arms)
  <2>1. 1 + i <= end + 1 + 0
    BY <1>3, <1>4
  <2>2. e = EolState(end, x, pending, TRUE)
    OBVIOUS
  <2> HIDE DEF e
  <2>3. QED
    BY <1>1, <1>4, <1>5, <1>7, <2>1, <2>2, LinesPaid
<1>8. CASE Fail
  BY <1>1, <1>8, FailsHere DEF Fail, Final, RowStates
<1>9. QED
  BY <1>2, <1>6, <1>7, <1>8

(* A header stands for three tokens or more, and a key for two.            *)
LEMMA DispatchFits ==
  ASSUME IndInv, CapacityInv, IndInv', UNCHANGED <<toks, mem>>, pc \in Walking,
         NEW p \in 1..N, NEW h, h = ReadHeader(p), NEW x \in Builders,
         NEW m, More(b, x, m), m + i <= p,
         Dispatch(h, x, FALSE)
  PROVE  CapacityNext
<1>1. /\ pc \in Walking \cup HeaderStates \cup {"ScopeEnd"} /\ pc \notin HeaderStates
      /\ pc \notin Final \cup {"Start"} /\ pc \notin RowStates /\ pc # "ScopeEnd"
  BY DEF Walking, HeaderStates, TableStates, Final, RowStates
<1>2. toks \in Document /\ i \in Int /\ p \in Int /\ m \in Int /\ m >= 0
  <2>1. toks \in Document /\ i \in Nat /\ N \in Nat /\ m \in Nat
    BY Here, CursorFacts DEF More
  <2>2. QED
    BY <2>1
<1>3. /\ HeaderOK(h)
      /\ h.type # "Fail" => h.end \in 1..N /\ h.end \in Int /\ h.end >= p
      /\ h.type = "ObjectStart" => h.end >= p + 1
      /\ h.type \in ContainerTypes => h.end >= p + 3
      /\ h.type \in ContainerTypes \ {"NestedFieldGroupsArray"} => Groups(h) = {}
  BY <1>2, HeaderAdvances
<1>4. h \in Headers /\ h.key \in Nat /\ h.type \in HeaderTypes
  BY <1>3 DEF HeaderOK, Headers
<1>5. hdr' = [h EXCEPT !.root = FALSE]
  BY DEF Dispatch
<1>6. ~ WrapsRows(hdr') /\ Groups(hdr') = Groups(h)
  <2>1. hdr'.type = h.type /\ hdr'.lo = h.lo /\ hdr'.hi = h.hi
    BY <1>4, <1>5 DEF Headers
  <2>2. Groups(hdr') = Groups(h)
    BY <2>1 DEF Groups, IsGroup
  <2>3. QED
    BY <1>4, <2>1, <2>2 DEF WrapsRows, HeaderTypes
<1>7. /\ hdr \in Headers /\ left \in Nat /\ hdr' \in Headers /\ left' \in Nat
  BY Here, HereNext
<1>8. Budget(pc, hdr, left, cell, i) = 0 - i
  <2>1. Budget(pc, hdr, left, cell, i) = 0 - i - 0
    BY <1>1, <1>2, <1>7, Budgets
  <2>2. QED
    BY <1>2, <2>1
<1>9. ASSUME pc' = "ParseSimpleObjectValue", b' = PutKey(x, h.key), i' = h.end + 1,
             h.type = "ObjectStart"
      PROVE  CapacityNext
  <2>1. More(x, b', 1)
    BY <1>4, <1>9, MorePut
  <2>2. More(b, b', m + 1)
    BY <2>1, MoreOn
  <2>3. i' \in Int /\ i' >= p + 2
    BY <1>2, <1>3, <1>9
  <2>4. Budget(pc', hdr', left', cell', i') = 0 - i'
    <3>1. pc' \in Walking \cup HeaderStates \cup {"ScopeEnd"} /\ pc' \notin HeaderStates
          /\ pc' # "ScopeEnd"
      BY <1>9 DEF Walking, HeaderStates, TableStates
    <3>2. Budget(pc', hdr', left', cell', i') = 0 - i' - 0
      BY <1>7, <2>3, <3>1, Budgets
    <3>3. QED
      BY <2>3, <3>2
  <2>5. m + 1 + Budget(pc', hdr', left', cell', i') <= Budget(pc, hdr, left, cell, i)
    <3> DEFINE pos == i'
    <3>1. pos \in Int /\ pos >= p + 2
      BY <2>3
    <3> HIDE DEF pos
    <3>2. m + 1 + (0 - pos) <= 0 - i
      BY <1>2, <3>1
    <3>3. QED
      BY <1>8, <2>4, <3>2 DEF pos
  <2>6. TableKnown(pc', hdr', left', i') /\ pc' \notin Final \cup {"Start"}
    BY <1>6, <1>9 DEF TableKnown, TableStates, RowStates, Final
  <2>7. QED
    BY <1>1, <2>2, <2>5, <2>6, AffordsHere
<1>10. ASSUME pc' \in HeaderStates, b' = x, i' \in {h.end, h.end + 1}, h.type \in ContainerTypes,
              pc' \in TableStates /\ pc' # "ParseNestedFieldGroupsArrayStrict" =>
                h.type # "NestedFieldGroupsArray"
       PROVE  CapacityNext
  <2>1. i' \in Int /\ i' >= p + 3
    BY <1>2, <1>3, <1>10 DEF ContainerTypes
  <2>2. Budget(pc', hdr', left', cell', i') = 2 - i'
    <3>1. pc' \in Walking \cup HeaderStates \cup {"ScopeEnd"} /\ pc' # "ScopeEnd"
      BY <1>10 DEF HeaderStates, TableStates
    <3>2. Budget(pc', hdr', left', cell', i') = 2 - i' - 0
      BY <1>7, <1>10, <2>1, <3>1, Budgets
    <3>3. QED
      BY <2>1, <3>2
  <2>3. m + Budget(pc', hdr', left', cell', i') <= Budget(pc, hdr, left, cell, i)
    <3> DEFINE pos == i'
    <3>1. pos \in Int /\ pos >= p + 3
      BY <2>1
    <3> HIDE DEF pos
    <3>2. m + (2 - pos) <= 0 - i
      BY <1>2, <3>1
    <3>3. QED
      BY <1>8, <2>2, <3>2 DEF pos
  <2>4. TableKnown(pc', hdr', left', i') /\ pc' \notin Final \cup {"Start"}
    BY <1>3, <1>6, <1>10 DEF TableKnown, HeaderStates, TableStates, RowStates, Final
  <2>5. QED
    BY <1>1, <1>10, <2>3, <2>4, AffordsHere
<1>11. \/ /\ h.type = "ObjectStart" /\ Goto("ParseSimpleObjectValue", PutKey(x, h.key), h.end + 1)
       \/ /\ h.type = "SimpleArray"
          /\ Goto(IF Tok(h.end + 1) = "NL" THEN "ParseBlockArray" ELSE "ParseInlineArray",
                  x, h.end + 1)
       \/ /\ h.type \in ContainerTypes \ {"SimpleArray"} /\ Goto(Arm(h.type, FALSE), x, h.end)
       \/ Fail
  BY Zenon DEF Dispatch, ContainerTypes
<1> HIDE DEF Dispatch
<1>12. CASE h.type = "ObjectStart" /\ Goto("ParseSimpleObjectValue", PutKey(x, h.key), h.end + 1)
  BY <1>9, <1>12 DEF Goto
<1>13. CASE /\ h.type = "SimpleArray"
            /\ Goto(IF Tok(h.end + 1) = "NL" THEN "ParseBlockArray" ELSE "ParseInlineArray",
                    x, h.end + 1)
  <2>1. pc' \in {"ParseBlockArray", "ParseInlineArray"} /\ b' = x /\ i' = h.end + 1
    BY <1>13 DEF Goto
  <2>2. QED
    BY <1>10, <1>13, <2>1 DEF HeaderStates, TableStates, ContainerTypes
<1>14. CASE h.type \in ContainerTypes \ {"SimpleArray"} /\ Goto(Arm(h.type, FALSE), x, h.end)
  <2>1. pc' = Arm(h.type, FALSE) /\ b' = x /\ i' = h.end
    BY <1>14 DEF Goto
  <2>2. /\ pc' \in HeaderStates
        /\ pc' \in TableStates /\ pc' # "ParseNestedFieldGroupsArrayStrict" =>
             h.type # "NestedFieldGroupsArray"
    BY <1>14, <2>1 DEF Arm, HeaderStates, TableStates, ContainerTypes
  <2>3. QED
    BY <1>10, <1>14, <2>1, <2>2
<1>15. CASE Fail
  BY <1>1, <1>15, FailsHere DEF Fail
<1>16. QED
  BY <1>11, <1>12, <1>13, <1>14, <1>15

LEMMA ParseHeaderFits ==
  ASSUME IndInv, CapacityInv, IndInv', ParseHeader
  PROVE  CapacityNext
<1> DEFINE h == ReadHeader(i)
<1>1. pc = "ParseHeader" /\ UNCHANGED <<toks, mem>> /\ Dispatch(h, b, FALSE) /\ pc \in Walking
  BY DEF ParseHeader, Walking
<1>2. i \in 1..N /\ i \in Nat /\ b \in Builders
  BY Here, CursorFacts
<1>3. More(b, b, 0) /\ 0 + i <= i
  BY <1>2, MoreItself
<1> HIDE DEF h
<1>4. h = ReadHeader(i)
  BY DEF h
<1>5. QED
  BY <1>1, <1>2, <1>3, <1>4, DispatchFits

(* The hyphen of an item pays for its object, or for its value.            *)
LEMMA ExpectBlockArrayItemFits ==
  ASSUME IndInv, CapacityInv, IndInv', ExpectBlockArrayItem
  PROVE  CapacityNext
<1> DEFINE h       == ReadHeader(i + 1)
           x       == Counted(b)
           simple  == h.type \in {"PrimitiveValue", "EmptyObject"}
           y       == IF h.type = "EmptyObject" THEN PutEmpty(x, "Object")
                                                ELSE PutValue(x, h.key)
           ws      == Indent(x) + BehindHyphen(h)
           z       == IF h.key = 0 THEN x ELSE OpenScope(x, "Object", "Array", ws, -1)
           e       == EolState(h.end, y, pending, FALSE)
           arms    == [Sibling |-> "ExpectBlockArrayItem", CloseScope |-> "ScopeEnd"]
<1>1. /\ pc = "ExpectBlockArrayItem" /\ UNCHANGED <<toks, mem>>
      /\ pc \in Walking /\ ~ (pc \in HeaderStates)
  BY DEF ExpectBlockArrayItem, Walking, HeaderStates, TableStates
<1>2. \/ Fail \/ Underflow
      \/ Tok(i) = "-" /\ ~ simple /\ Dispatch(h, z, FALSE)
      \/ Tok(i) = "-" /\ simple /\ Follow(e, y, arms) /\ UNCHANGED hdr
  BY DEF ExpectBlockArrayItem
<1>3. toks \in Document /\ N \in Nat /\ i \in 1..N /\ i \in Nat /\ b \in Builders
  BY Here, CursorFacts
<1>4. x \in Builders /\ More(b, x, 0)
  BY <1>3, MoreItself
<1> HIDE DEF x
<1>5. ASSUME Tok(i) = "-"
      PROVE  /\ i + 1 \in 1..N /\ HeaderOK(h) /\ h.key \in Nat
             /\ h.type # "Fail" => h.end \in 1..N /\ h.end \in Int /\ h.end >= i + 1
  <2>1. i < N
    BY <1>3, <1>5, DocumentFacts
  <2>2. i + 1 \in 1..N
    BY <1>3, <2>1, Behind, Zenon
  <2>3. /\ HeaderOK(h)
        /\ h.type # "Fail" => h.end \in 1..N /\ h.end \in Int /\ h.end >= i + 1
    BY <1>3, <2>2, HeaderAdvances
  <2> HIDE DEF h
  <2>4. QED
    BY <2>2, <2>3 DEF HeaderOK, Headers
<1>6. CASE Tok(i) = "-" /\ ~ simple /\ Dispatch(h, z, FALSE)
  <2>1. i + 1 \in 1..N /\ h = ReadHeader(i + 1)
    BY <1>5, <1>6
  <2>2. z \in Builders /\ \E m \in {0, 1} : More(b, z, m)
    <3>1. CASE h.key = 0
      BY <1>4, <3>1
    <3>2. CASE h.key # 0
      <4>1. Indent(x) \in Nat /\ ws \in Nat
        <5>1. ScopesOK(x)
          BY <1>1, HereOutsideRows, CountedFacts DEF x, Final
        <5>2. QED
          BY <5>1, ScopesFacts, ConstantsAssumption DEF BehindHyphen
      <4>2. z = OpenScope(x, "Object", "Array", ws, -1)
        BY <3>2
      <4>3. ScopesOK(x)
        BY <1>1, HereOutsideRows, CountedFacts DEF x, Final
      <4> HIDE DEF ws
      <4>4. z \in Builders
        BY <4>1, <4>2, <4>3, OpenScopeFacts DEF Containers, ScopesOK
      <4>5. More(x, z, 1)
        BY <1>4, <4>2, MoreOpened DEF Containers
      <4>6. More(b, z, 0 + 1)
        BY <1>4, <4>5, MoreOn
      <4>7. More(b, z, 1)
        BY <4>6
      <4>8. QED
        BY <4>4, <4>7
    <3>3. QED
      BY <3>1, <3>2
  <2>3. PICK m \in {0, 1} : More(b, z, m)
    BY <2>2
  <2>4. m + i <= i + 1
    BY <1>3
  <2> HIDE DEF z, h
  <2>5. Dispatch(h, z, FALSE)
    BY <1>6
  <2>6. QED
    BY <1>1, <2>1, <2>2, <2>3, <2>4, <2>5, DispatchFits
<1>7. CASE Tok(i) = "-" /\ simple /\ Follow(e, y, arms) /\ UNCHANGED hdr
  <2>1. h.key \in Nat /\ h.end \in 1..N /\ h.end \in Int /\ h.end >= i + 1
    BY <1>5, <1>7
  <2>2. More(x, y, 1)
    <3> HIDE DEF h
    <3>1. QED
      BY <1>4, <2>1, MorePut DEF Containers
  <2>3. More(b, y, 0 + 1)
    BY <1>4, <2>2, MoreOn
  <2>4. More(b, y, 1)
    BY <2>3
  <2> HIDE DEF y, h
  <2>5. 1 + i <= h.end + 1 + 0
    BY <1>3, <2>1
  <2>6. arms["Sibling"] = "ExpectBlockArrayItem" /\ arms["CloseScope"] = "ScopeEnd"
        /\ DOMAIN arms = {"Sibling", "CloseScope"}
    OBVIOUS
  <2>7. e = EolState(h.end, y, pending, FALSE) /\ Follow(e, y, arms) /\ UNCHANGED hdr
    BY <1>7
  <2> HIDE DEF e, arms
  <2>8. QED
    BY <1>1, <2>1, <2>4, <2>5, <2>6, <2>7, FollowsPaid DEF Walking
<1>8. CASE Fail \/ Underflow
  <2>1. pc' \in {"Failed", "Panicked"} /\ b' = b
    BY <1>8 DEF Fail, Underflow
  <2>2. QED
    BY <1>1, <2>1, FailsHere DEF Final, RowStates
<1>9. QED
  BY <1>2, <1>6, <1>7, <1>8

(* The root has a slot, and the header that opens it three tokens or more, *)
(* or a key and its colon two.                                             *)
LEMMA StartDispatches ==
  ASSUME IndInv, CapacityInv, IndInv', UNCHANGED <<toks, mem>>, pc = "Start",
         NEW p \in 1..N, NEW h, h = ReadHeader(p),
         NEW x \in Builders, Len(x.tape) = 1, Dispatch(h, x, TRUE)
  PROVE  CapacityNext
<1> DEFINE cap == mem.cap
           slack == mem.slack
<1>1. /\ toks \in Document /\ N \in Int /\ p \in Int /\ p >= 1 /\ cap \in Int /\ slack \in Int
      /\ b.tape = << >> /\ N + slack <= cap /\ cap \in Nat
  <2>1. toks \in Document /\ N \in Nat /\ mem \in [cap : Nat, slack : Nat]
    BY Here
  <2>2. b.tape = << >> /\ N + mem.slack <= mem.cap
    BY DEF CapacityInv
  <2>3. QED
    BY <2>1, <2>2
<1>2. /\ HeaderOK(h)
      /\ h.type # "Fail" => h.end \in 1..N /\ h.end \in Int /\ h.end >= p
      /\ h.type = "ObjectStart" => h.end >= p + 1
      /\ h.type \in ContainerTypes => h.end >= p + 3
      /\ h.type \in ContainerTypes \ {"NestedFieldGroupsArray"} => Groups(h) = {}
  BY <1>1, HeaderAdvances
<1>3. h \in Headers /\ h.key \in Nat /\ h.type \in HeaderTypes
  BY <1>2 DEF HeaderOK, Headers
<1>4. ~ WrapsRows(hdr') /\ Groups(hdr') = Groups(h)
  <2>1. hdr' = [h EXCEPT !.root = TRUE /\ h.key = 0]
    BY DEF Dispatch
  <2>2. hdr'.type = h.type /\ hdr'.lo = h.lo /\ hdr'.hi = h.hi
    BY <1>3, <2>1 DEF Headers
  <2>3. Groups(hdr') = Groups(h)
    BY <2>2 DEF Groups, IsGroup
  <2>4. QED
    BY <1>3, <2>2, <2>3 DEF WrapsRows, HeaderTypes
<1>5. ASSUME pc' = "ParseSimpleObjectValue", b' = PutKey(x, h.key), i' = h.end + 1,
             h.type = "ObjectStart"
      PROVE  CapacityNext
  <2>1. More(x, b', 1)
    BY <1>3, <1>5, MorePut
  <2>2. Len(b'.tape) = 2
    BY <2>1 DEF More
  <2>3. SlotsOwed(pc', hdr', left', cell') = 0 /\ LineEndAhead(pc', i') = 0
    BY <1>5 DEF SlotsOwed, LineEndAhead, HeaderStates, TableStates
  <2>4. i' \in Int /\ i' >= 3
    BY <1>1, <1>2, <1>5
  <2>5. Fits(pc', hdr', left', cell', b', mem', i')
    <3> DEFINE pos == i'
    <3>1. 2 + 0 + (N - pos + 1) + slack <= cap + 0
      <4> HIDE DEF pos, cap, slack
      <4>1. pos \in Int /\ pos >= 3
        BY <2>4 DEF pos
      <4>2. QED
        BY <1>1, <4>1
    <3>2. QED
      BY <2>2, <2>3, <3>1 DEF Fits
  <2>6. QED
    BY <1>4, <1>5, <2>5 DEF CapacityNext, TableKnown, TableStates, RowStates, Final
<1>6. ASSUME pc' \in HeaderStates, b' = x, i' \in {h.end, h.end + 1}, h.type \in ContainerTypes,
             pc' \in TableStates /\ pc' # "ParseNestedFieldGroupsArrayStrict" =>
               h.type # "NestedFieldGroupsArray"
      PROVE  CapacityNext
  <2>1. i' \in Int /\ i' >= 4
    BY <1>1, <1>2, <1>6 DEF ContainerTypes
  <2>2. SlotsOwed(pc', hdr', left', cell') = 2 /\ LineEndAhead(pc', i') = 0
    BY <1>6 DEF SlotsOwed, LineEndAhead, HeaderStates, TableStates
  <2>3. Fits(pc', hdr', left', cell', b', mem', i')
    <3> DEFINE pos == i'
    <3>1. 1 + 2 + (N - pos + 1) + slack <= cap + 0
      <4> HIDE DEF pos, cap, slack
      <4>1. pos \in Int /\ pos >= 4
        BY <2>1 DEF pos
      <4>2. QED
        BY <1>1, <4>1
    <3>2. QED
      BY <1>6, <2>2, <3>1 DEF Fits
  <2>4. TableKnown(pc', hdr', left', i') /\ pc' \notin Final \cup {"Start"}
    BY <1>2, <1>4, <1>6 DEF TableKnown, HeaderStates, TableStates, RowStates, Final
  <2>5. QED
    BY <2>3, <2>4 DEF CapacityNext
<1>7. \/ /\ h.type = "ObjectStart" /\ Goto("ParseSimpleObjectValue", PutKey(x, h.key), h.end + 1)
      \/ /\ h.type = "SimpleArray"
         /\ Goto(IF Tok(h.end + 1) = "NL" THEN "ParseBlockArray" ELSE "ParseInlineArray",
                 x, h.end + 1)
      \/ /\ h.type \in ContainerTypes \ {"SimpleArray"} /\ Goto(Arm(h.type, TRUE), x, h.end)
      \/ Fail
  BY Zenon DEF Dispatch, ContainerTypes
<1> HIDE DEF Dispatch
<1>8. CASE h.type = "ObjectStart" /\ Goto("ParseSimpleObjectValue", PutKey(x, h.key), h.end + 1)
  BY <1>5, <1>8 DEF Goto
<1>9. CASE /\ h.type = "SimpleArray"
           /\ Goto(IF Tok(h.end + 1) = "NL" THEN "ParseBlockArray" ELSE "ParseInlineArray",
                   x, h.end + 1)
  <2>1. pc' \in {"ParseBlockArray", "ParseInlineArray"} /\ b' = x /\ i' = h.end + 1
    BY <1>9 DEF Goto
  <2>2. QED
    BY <1>6, <1>9, <2>1 DEF HeaderStates, TableStates, ContainerTypes
<1>10. CASE h.type \in ContainerTypes \ {"SimpleArray"} /\ Goto(Arm(h.type, TRUE), x, h.end)
  <2>1. pc' = Arm(h.type, TRUE) /\ b' = x /\ i' = h.end
    BY <1>10 DEF Goto
  <2>2. /\ pc' \in HeaderStates
        /\ pc' \in TableStates /\ pc' # "ParseNestedFieldGroupsArrayStrict" =>
             h.type # "NestedFieldGroupsArray"
    BY <1>10, <2>1 DEF Arm, HeaderStates, TableStates, ContainerTypes
  <2>3. QED
    BY <1>6, <1>10, <2>1, <2>2
<1>11. CASE Fail
  <2>1. pc' = "Failed" /\ b'.tape = << >> /\ mem'.cap = cap
    BY <1>1, <1>11 DEF Fail
  <2>2. Len(b'.tape) <= mem'.cap
    BY <1>1, <2>1
  <2>3. QED
    BY <2>1, <2>2 DEF CapacityNext, Final
<1>12. QED
  BY <1>7, <1>8, <1>9, <1>10, <1>11

LEMMA StartFits ==
  ASSUME IndInv, CapacityInv, IndInv', Start
  PROVE  CapacityNext
<1> DEFINE first == IF Tok(1) = "#" THEN 2 ELSE 1
           lines == {j \in first..N : Tok(j) # "NL"}
           p == Min(lines)
           h == ReadHeader(p)
           array == h.key = 0 /\ h.type \in {"SimpleArray", "EmptyArray", "TabularArray",
                                             "NestedFieldGroupsArray"}
           kind == IF array THEN "Array" ELSE "Object"
           declared == IF h.key = 0 THEN h.n ELSE -1
           node == Node(kind, 0, declared)
           root == [stack   |-> <<[tag |-> "Start", start |-> 1, cnt |-> 0]>>,
                    indents |-> <<0>>, start |-> 1, cnt |-> 0,
                    tape    |-> <<node>>]
<1>1. toks \in Document /\ N \in Nat /\ N >= 1 /\ b \in Builders /\ mem.cap \in Nat /\ mem.slack \in Nat
  BY Here
<1>2. pc = "Start" /\ b.tape = << >> /\ N + mem.slack <= mem.cap /\ UNCHANGED <<toks, mem>>
  BY DEF Start, CapacityInv
<1>3. lines # {} => p \in 1..N /\ HeaderOK(h)
  <2>1. lines # {} => p \in 1..N
    BY <1>1, MinOfNaturals
  <2>2. QED
    BY <1>1, <2>1, ReadHeaderFacts
<1>4. CASE lines # {} /\ Dispatch(h, root, TRUE)
  <2>1. h.key \in Nat /\ h.n \in Nat
    BY <1>3, <1>4 DEF HeaderOK, Headers
  <2>2. kind \in Containers /\ declared \in Nat \cup {-1}
    BY <2>1 DEF Containers
  <2>3. node \in Nodes
    <3> HIDE DEF kind, declared
    <3>1. QED
      BY <2>2, NewNode
  <2> HIDE DEF node, kind, declared
  <2>4. root \in Builders
    <3>1. [tag |-> "Start", start |-> 1, cnt |-> 0] \in Frames
      BY DEF Frames
    <3>2. QED
      BY <2>3, <3>1 DEF Builders
  <2>5. Len(root.tape) = 1
    OBVIOUS
  <2>6. p \in 1..N
    BY <1>3, <1>4
  <2>7. h = ReadHeader(p) /\ Dispatch(h, root, TRUE)
    BY <1>4
  <2> HIDE DEF root, h, p
  <2>8. QED
    BY <1>2, <2>4, <2>5, <2>6, <2>7, StartDispatches
<1>5. CASE lines # {} /\ Goto("Success", PutValue(b, h.key), N)
  <2>1. h.key \in Nat
    BY <1>3, <1>5 DEF HeaderOK, Headers
  <2>2. pc' = "Success" /\ b' = PutValue(b, h.key)
    BY <1>5 DEF Goto
  <2>3. More(b, b', 1)
    BY <1>1, <2>1, <2>2, MorePut
  <2>4. Len(b'.tape) = 1
    BY <1>2, <2>3 DEF More
  <2>5. Len(b'.tape) <= mem'.cap
    BY <1>1, <1>2, <2>4
  <2>6. QED
    BY <2>2, <2>5 DEF CapacityNext, Final
<1>6. CASE Fail
  <2>1. pc' = "Failed" /\ b'.tape = << >>
    BY <1>2, <1>6 DEF Fail
  <2>2. Len(b'.tape) <= mem'.cap
    BY <1>1, <1>2, <2>1
  <2>3. QED
    BY <2>1, <2>2 DEF CapacityNext, Final
<1>7. QED
  BY <1>4, <1>5, <1>6 DEF Start

-----------------------------------------------------------------------------
(* Tables. *)

(* The slots that grow_res! adds are slack; those that are set aside are   *)
(* not slack any more.                                                     *)
LEMMA GrowKeeps ==
  ASSUME NEW m \in [cap : Nat, slack : Nat], NEW n \in Nat
  PROVE  /\ Grow(m, n).cap - Grow(m, n).slack = m.cap - m.slack
         /\ Grow(m, n).cap >= m.cap
<1> DEFINE added == Max({m.cap \div 5, n})
<1>1. m.cap \in Nat /\ m.slack \in Nat
  OBVIOUS
<1>2. m.cap \div 5 \in Nat
  BY <1>1
<1>3. added \in Nat
  BY <1>2, MaxOfTwo
<1>4. Grow(m, n) = [cap |-> m.cap + added, slack |-> m.slack + added]
  BY DEF Grow
<1> HIDE DEF added
<1>5. QED
  BY <1>1, <1>3, <1>4

LEMMA SetAsideKeeps ==
  ASSUME NEW m \in [cap : Nat, slack : Nat], NEW n \in Nat
  PROVE  /\ SetAside(m, n).cap - SetAside(m, n).slack = m.cap - m.slack + n
         /\ SetAside(m, n).cap \in Nat /\ SetAside(m, n).cap >= m.cap
<1> DEFINE g == IF n > m.slack THEN Grow(m, n - m.slack) ELSE m
<1>1. m.cap \in Nat /\ m.slack \in Nat
  OBVIOUS
<1>2. g \in [cap : Nat, slack : Nat] /\ g.cap - g.slack = m.cap - m.slack /\ g.cap >= m.cap
  <2>1. CASE n > m.slack
    <3> DEFINE d == n - m.slack
    <3>1. d \in Nat
      BY <1>1, <2>1
    <3>2. g = Grow(m, d)
      BY <2>1
    <3> HIDE DEF d, g
    <3>3. QED
      BY <3>1, <3>2, GrowFacts, GrowKeeps
  <2>2. CASE ~ (n > m.slack)
    BY <1>1, <2>2
  <2>3. QED
    BY <2>1, <2>2
<1>3. SetAside(m, n) = [g EXCEPT !.slack = g.slack - n]
  BY DEF SetAside
<1> HIDE DEF g
<1>4. SetAside(m, n).cap = g.cap /\ SetAside(m, n).slack = g.slack - n
  BY <1>2, <1>3
<1>5. g.cap \in Nat /\ g.slack \in Nat
  BY <1>2
<1>6. QED
  BY <1>1, <1>2, <1>4, <1>5

(* What a State for the rows owes. *)
LEMMA RowBudgets ==
  ASSUME NEW h \in Headers, NEW l \in Nat, NEW c, NEW pos \in Int
  PROVE  /\ Budget("Row", h, l, c, pos) = l * RowCost(h) - pos
         /\ Budget("Cell", h, l, c, pos)
              = (l - 1) * RowCost(h) + 2 * Cardinality(GroupsFrom(h, c)) - pos
                  - LineEndAhead("Cell", pos)
         /\ Budget("EndRow", h, l, c, pos)
              = (l - 1) * RowCost(h) - pos - LineEndAhead("EndRow", pos)
         /\ l * RowCost(h) = (l - 1) * RowCost(h) + RowCost(h)
         /\ l * RowCost(h) \in Nat /\ (l - 1) * RowCost(h) \in Int
<1> DEFINE cost == RowCost(h)
           all  == l * cost
           rest == (l - 1) * cost
<1>1. cost \in Nat
  BY GroupNumbers
<1> HIDE DEF cost
<1>2. all \in Nat /\ rest \in Int /\ all = rest + cost
  BY <1>1
<1> HIDE DEF all, rest
<1>3. LineEndAhead("Row", pos) = 0
  BY DEF LineEndAhead
<1>4. /\ SlotsOwed("Row", h, l, c) = all
      /\ SlotsOwed("Cell", h, l, c) = rest + 2 * Cardinality(GroupsFrom(h, c))
      /\ SlotsOwed("EndRow", h, l, c) = rest
  BY DEF SlotsOwed, HeaderStates, TableStates, all, rest, cost
<1>5. Budget("Row", h, l, c, pos) = all - pos
  BY <1>2, <1>3, <1>4 DEF Budget
<1>6. /\ Budget("Cell", h, l, c, pos)
           = rest + 2 * Cardinality(GroupsFrom(h, c)) - pos - LineEndAhead("Cell", pos)
      /\ Budget("EndRow", h, l, c, pos) = rest - pos - LineEndAhead("EndRow", pos)
  <2> DEFINE groups == Cardinality(GroupsFrom(h, c))
             eol == LineEndAhead("Cell", pos)
  <2>1. groups \in Nat /\ eol \in Int
    BY GroupNumbers DEF LineEndAhead
  <2>2. /\ Budget("Cell", h, l, c, pos) = (rest + 2 * groups) - pos - eol
        /\ Budget("EndRow", h, l, c, pos) = rest - pos - LineEndAhead("EndRow", pos)
    BY <1>4 DEF Budget
  <2> HIDE DEF groups, eol
  <2>3. (rest + 2 * groups) - pos - eol = rest + 2 * groups - pos - eol
    BY <1>2, <2>1
  <2>4. QED
    BY <2>2, <2>3 DEF groups, eol
<1>7. /\ l * RowCost(h) = (l - 1) * RowCost(h) + RowCost(h)
      /\ l * RowCost(h) \in Nat /\ (l - 1) * RowCost(h) \in Int
  BY <1>2, Zenon DEF all, rest, cost
<1>8. Budget("Row", h, l, c, pos) = l * RowCost(h) - pos
  BY <1>5 DEF all, cost
<1>9. /\ Budget("Cell", h, l, c, pos)
           = (l - 1) * RowCost(h) + 2 * Cardinality(GroupsFrom(h, c)) - pos
               - LineEndAhead("Cell", pos)
      /\ Budget("EndRow", h, l, c, pos)
           = (l - 1) * RowCost(h) - pos - LineEndAhead("EndRow", pos)
  BY <1>6 DEF rest, cost
<1>10. QED
  BY <1>7, <1>8, <1>9

(* The slots for the rows and their groups are set aside by the State that *)
(* opens the table, the others are paid for by the header and its line end.*)
LEMMA TableFits ==
  ASSUME IndInv, CapacityInv, IndInv', pc \in TableStates, toks' = toks,
         NEW kind \in Containers, NEW next \in {"Row", "ScopeEnd"}, OpenTable(kind, next),
         hdr' = [hdr EXCEPT !.type = pc],
         NEW d \in Nat, mem'.cap - mem'.slack = mem.cap - mem.slack + d,
         mem'.cap \in Nat, mem'.cap >= mem.cap,
         next = "Row" /\ pc # "ParseTabularArrayLenient" => left' >= 1,
         next = "Row" /\ ~ WrapsRows(hdr') => left' * RowCost(hdr') <= d,
         WrapsRows(hdr') => next = "Row" /\ left' = N + 1
  PROVE  CapacityNext
<1> DEFINE y == PutHeaderKey(b, hdr.key)
           ws == Indent(y) + IndentSize
           x == Enter(y, kind, ws)
           e == EolState(i + 1, y, pending, FALSE)
           arms == [Nested |-> next]
<1>1. /\ pc \in Walking \cup HeaderStates \cup {"ScopeEnd"} /\ pc \in HeaderStates
      /\ pc \notin Final \cup {"Start", "Cell", "EndRow"} /\ pc \notin RowStates /\ pc # "ScopeEnd"
  BY DEF HeaderStates, TableStates, Final, RowStates
<1>2. (i < N /\ Follow(e, x, arms)) \/ Fail
  BY DEF OpenTable
<1>3. i \in Nat /\ N \in Nat
  BY CursorFacts
<1>4. ws \in Nat
  BY <1>1, Here, HereOutsideRows, PutFacts, ScopesFacts
<1>5. PICK n \in {0, 1, 2} : More(b, x, n)
  BY <1>4, MoreEntered
<1> HIDE DEF x
<1>6. CASE Fail \/ (pc' = "Failed" /\ b' = b)
  BY <1>1, <1>6, FailsFitting DEF Fail
<1>7. CASE /\ pc' = next /\ b' = x /\ i' \in Int /\ i + 2 <= i' + LineEndAhead(pc', i')
  <2>1. hdr \in Headers /\ left \in Nat /\ hdr' \in Headers /\ left' \in Nat /\ i' \in 1..N
    BY Here, HereNext
  <2>2. Budget(pc, hdr, left, cell, i) = 2 - i
    <3>1. Budget(pc, hdr, left, cell, i) = 2 - i - 0
      BY <1>1, <1>3, <2>1, Budgets
    <3>2. QED
      BY <1>3, <3>1
  <2>3. hdr'.type = pc /\ Groups(hdr') = Groups(hdr)
    <3>1. hdr'.type = pc /\ hdr'.lo = hdr.lo /\ hdr'.hi = hdr.hi
      BY <2>1 DEF Headers
    <3>2. QED
      BY <3>1 DEF Groups, IsGroup
  <2>4. TableKnown(pc', hdr', left', i')
    <3>1. pc # "ParseNestedFieldGroupsArrayStrict" => Groups(hdr) = {}
      BY <1>1, CapacityNow DEF TableKnown
    <3>2. WrapsRows(hdr') => left' + i' >= N + 2
      BY <1>3, <2>1
    <3>3. QED
      BY <1>7, <2>3, <3>1, <3>2 DEF TableKnown, TableStates, RowStates
  <2>5. ASSUME ~ WrapsRows(hdr')
        PROVE  n + Budget(pc', hdr', left', cell', i') <= Budget(pc, hdr, left, cell, i) + d
    <3>1. CASE pc' = "Row"
      <4> DEFINE rows == left' * RowCost(hdr')
                 pos  == i'
      <4>1. Budget("Row", hdr', left', cell', i') = rows - pos /\ rows \in Nat
        BY <1>7, <2>1, RowBudgets
      <4>2. rows <= d
        BY <1>7, <2>5, <3>1
      <4>3. pos \in Int /\ i + 2 <= pos + 0
        BY <1>7, <3>1 DEF LineEndAhead
      <4> HIDE DEF rows, pos
      <4>4. n + (rows - pos) <= (2 - i) + d
        BY <1>3, <4>1, <4>2, <4>3
      <4>5. QED
        BY <2>2, <3>1, <4>1, <4>4
    <3>2. CASE pc' = "ScopeEnd"
      <4> DEFINE eol == LineEndAhead(pc', i')
                 pos == i'
      <4>1. Budget(pc', hdr', left', cell', i') = 0 - pos - eol
        <5>1. pc' \notin HeaderStates
          BY <3>2 DEF HeaderStates, TableStates
        <5>2. Budget(pc', hdr', left', cell', i')
                = (IF pc' \in HeaderStates THEN 2 ELSE 0) - pos - eol
          BY <1>7, <2>1, <3>2, Budgets
        <5>3. QED
          BY <5>1, <5>2
      <4>2. eol \in Int /\ pos \in Int /\ i + 2 <= pos + eol
        BY <1>7 DEF LineEndAhead
      <4> HIDE DEF eol, pos
      <4>3. n + (0 - pos - eol) <= (2 - i) + d
        BY <1>3, <4>2
      <4>4. QED
        BY <2>2, <4>1, <4>3
    <3>3. QED
      BY <1>7, <3>1, <3>2
  <2>6. pc' \notin Final \cup {"Start"} /\ pc \notin Final \cup {"Start"}
    BY <1>1, <1>7 DEF Final
  <2>7. More(b, b', n)
    BY <1>5, <1>7
  <2>8. QED
    BY <1>1, <2>4, <2>5, <2>6, <2>7, Affords
<1>8. CASE i < N /\ Follow(e, x, arms)
  <2>1. i + 1 \in 1..N
    BY <1>3, <1>8
  <2>2. e = EolState(i + 1, y, pending, FALSE) /\ Follow(e, x, arms)
    BY <1>8
  <2>3. DOMAIN arms = {"Nested"} /\ arms["Nested"] = next
    OBVIOUS
  <2>4. "Fail" \notin DOMAIN arms /\ "CloseScope" \notin DOMAIN arms
    BY <2>3
  <2> HIDE DEF e, arms
  <2>5. \/ pc' = "Failed" /\ b' = b
        \/ /\ pc' = next /\ b' = x /\ i' \in Int
           /\ (i + 1) + 1 <= i' + LineEndAhead(pc', i')
    BY <2>1, <2>2, <2>3, <2>4, FollowPays
  <2>6. (i + 1) + 1 = i + 2
    BY <1>3
  <2>7. QED
    BY <1>6, <1>7, <2>5, <2>6
<1>9. QED
  BY <1>2, <1>6, <1>8

(* A debug build panics behind the header; what it wrote was owed.         *)
LEMMA TablePanics ==
  ASSUME IndInv, CapacityInv, pc \in TableStates, NEW kind \in Containers,
         OpenTable(kind, "Panicked"), mem'.cap \in Nat, mem'.cap >= mem.cap
  PROVE  CapacityNext
<1> DEFINE y == PutHeaderKey(b, hdr.key)
           ws == Indent(y) + IndentSize
           x == Enter(y, kind, ws)
           e == EolState(i + 1, y, pending, FALSE)
<1>1. /\ pc \in HeaderStates /\ pc \notin RowStates
      /\ pc \notin Final \cup {"Start", "Cell", "EndRow"}
  BY DEF HeaderStates, TableStates, Final, RowStates
<1>2. Follow(e, x, [Nested |-> "Panicked"]) \/ Fail
  BY DEF OpenTable
<1>3. ws \in Nat
  BY <1>1, Here, HereOutsideRows, PutFacts, ScopesFacts
<1>4. PICK n \in {0, 1, 2} : More(b, x, n)
  BY <1>3, MoreEntered
<1> HIDE DEF x, e
<1>5. SlotsOwed(pc, hdr, left, cell) = 2
  BY <1>1 DEF SlotsOwed, HeaderStates, TableStates
<1>6. CASE Fail \/ (pc' = "Failed" /\ b' = b)
  BY <1>1, <1>6, FailsFitting DEF Fail
<1>7. CASE pc' = "Panicked" /\ b' = x
  <2>1. n = 0 \/ n <= SlotsOwed(pc, hdr, left, cell)
    BY <1>5
  <2>2. QED
    BY <1>1, <1>4, <1>7, <2>1, EndsFitting DEF Final
<1>8. Follow(e, x, [Nested |-> "Panicked"]) => \/ pc' = "Failed" /\ b' = b
                                               \/ pc' = "Panicked" /\ b' = x
  BY DEF Follow, Goto, Fail
<1>9. QED
  BY <1>2, <1>6, <1>7, <1>8

(* What is set aside is the cost of the rows. *)
LEMMA TablesFit ==
  ASSUME IndInv, CapacityInv, IndInv',
         \/ ParseTabularObjects \/ ParseTabularArrayStrict \/ ParseTabularArrayLenient
         \/ ParseNestedFieldGroupsArrayStrict
  PROVE  CapacityNext
<1>1. /\ hdr \in Headers /\ hdr.n \in Nat /\ mem \in [cap : Nat, slack : Nat]
      /\ mem.cap \in Nat /\ mem.slack \in Nat /\ N \in Nat /\ N >= 1
  BY Here
<1>2. "Array" \in Containers /\ "Object" \in Containers
  BY DEF Containers
<1>3. mem' = mem => /\ mem'.cap - mem'.slack = mem.cap - mem.slack + 0
                    /\ mem'.cap \in Nat /\ mem'.cap >= mem.cap
  BY <1>1
<1>4. \A n \in Nat : mem' = SetAside(mem, n) =>
         /\ mem'.cap - mem'.slack = mem.cap - mem.slack + n
         /\ mem'.cap \in Nat /\ mem'.cap >= mem.cap
  BY <1>1, SetAsideKeeps
<1>5. \A t : hdr' = [hdr EXCEPT !.type = t] =>
         hdr'.type = t /\ hdr'.n = hdr.n /\ Groups(hdr') = Groups(hdr)
  <2>1. ASSUME NEW t, hdr' = [hdr EXCEPT !.type = t]
        PROVE  hdr'.type = t /\ hdr'.n = hdr.n /\ Groups(hdr') = Groups(hdr)
    <3>1. hdr'.type = t /\ hdr'.n = hdr.n /\ hdr'.lo = hdr.lo /\ hdr'.hi = hdr.hi
      BY <1>1, <2>1 DEF Headers
    <3>2. QED
      BY <3>1 DEF Groups, IsGroup
  <2>2. QED
    BY <2>1
<1>6. CASE ParseTabularObjects
  <2>1. /\ pc = "ParseTabularObjects" /\ pc \in TableStates /\ toks' = toks
        /\ OpenTable("Object", RowsOrEnd) /\ hdr' = [hdr EXCEPT !.type = pc]
        /\ left' = hdr.n /\ mem' = mem
    BY <1>6 DEF ParseTabularObjects, TableStates
  <2>2. hdr'.type = "ParseTabularObjects"
    BY <1>5, <2>1
  <2>3. RowCost(hdr') = 0 /\ ~ WrapsRows(hdr')
    BY <2>2 DEF RowCost, WrapsRows
  <2>4. left' * RowCost(hdr') <= 0
    BY <1>1, <2>1, <2>3
  <2>5. RowsOrEnd \in {"Row", "ScopeEnd"} /\ (RowsOrEnd = "Row" => left' >= 1)
    BY <1>1, <2>1 DEF RowsOrEnd
  <2> HIDE DEF RowsOrEnd
  <2>6. QED
    BY <1>2, <1>3, <2>1, <2>3, <2>4, <2>5, TableFits
<1>7. CASE ParseTabularArrayStrict
  <2>1. /\ pc = "ParseTabularArrayStrict" /\ pc \in TableStates /\ toks' = toks
        /\ OpenTable("Array", RowsOrEnd) /\ hdr' = [hdr EXCEPT !.type = pc]
        /\ left' = hdr.n /\ mem' = SetAside(mem, hdr.n)
    BY <1>7 DEF ParseTabularArrayStrict, TableStates
  <2>2. hdr'.type = "ParseTabularArrayStrict"
    BY <1>5, <2>1
  <2>3. RowCost(hdr') = 1 /\ ~ WrapsRows(hdr')
    BY <2>2 DEF RowCost, WrapsRows
  <2>4. left' * RowCost(hdr') <= hdr.n
    BY <1>1, <2>1, <2>3
  <2>5. RowsOrEnd \in {"Row", "ScopeEnd"} /\ (RowsOrEnd = "Row" => left' >= 1)
    BY <1>1, <2>1 DEF RowsOrEnd
  <2> HIDE DEF RowsOrEnd
  <2>6. QED
    BY <1>1, <1>2, <1>4, <2>1, <2>3, <2>4, <2>5, TableFits
<1>8. CASE ParseTabularArrayLenient
  <2>1. /\ pc = "ParseTabularArrayLenient" /\ pc \in TableStates /\ toks' = toks
        /\ OpenTable("Array", "Row") /\ hdr' = [hdr EXCEPT !.type = pc]
        /\ left' = 0 /\ mem' = mem
    BY <1>8 DEF ParseTabularArrayLenient, TableStates
  <2>2. hdr'.type = "ParseTabularArrayLenient"
    BY <1>5, <2>1
  <2>3. RowCost(hdr') = 0 /\ ~ WrapsRows(hdr')
    BY <2>2 DEF RowCost, WrapsRows
  <2>4. left' * RowCost(hdr') <= 0
    BY <2>1, <2>3
  <2>5. QED
    BY <1>2, <1>3, <2>1, <2>3, <2>4, TableFits
<1>9. CASE ParseNestedFieldGroupsArrayStrict
  <2> DEFINE groups == Cardinality(Groups(hdr))
             d == hdr.n * (1 + 2 * groups)
  <2>1. /\ pc = "ParseNestedFieldGroupsArrayStrict" /\ pc \in TableStates /\ toks' = toks
        /\ \/ hdr.n = 0 /\ Debug /\ OpenTable("Array", "Panicked")
           \/ OpenTable("Array", "Row")
        /\ hdr' = [hdr EXCEPT !.type = pc]
        /\ left' = (IF hdr.n = 0 THEN N + 1 ELSE hdr.n) /\ mem' = SetAside(mem, d)
    BY <1>9 DEF ParseNestedFieldGroupsArrayStrict, TableStates
  <2>2. groups \in Nat
    BY <1>1, GroupNumbers
  <2>3. RowCost(hdr') = 1 + 2 * groups /\ (WrapsRows(hdr') <=> hdr.n = 0)
    <3>1. hdr'.type = "ParseNestedFieldGroupsArrayStrict" /\ hdr'.n = hdr.n
          /\ Groups(hdr') = Groups(hdr)
      BY <1>5, <2>1
    <3>2. QED
      BY <3>1 DEF RowCost, WrapsRows
  <2> HIDE DEF groups
  <2>4. d \in Nat
    BY <1>1, <2>2
  <2>5. ~ WrapsRows(hdr') => left' * RowCost(hdr') <= d
    <3>1. ~ WrapsRows(hdr') => left' * RowCost(hdr') = d
      BY <2>1, <2>3
    <3>2. d <= d
      BY <2>4
    <3>3. QED
      BY <3>1, <3>2
  <2> HIDE DEF d
  <2>6. /\ mem'.cap - mem'.slack = mem.cap - mem.slack + d
        /\ mem'.cap \in Nat /\ mem'.cap >= mem.cap
    BY <1>4, <2>1, <2>4
  <2>7. left' >= 1 /\ (WrapsRows(hdr') => left' = N + 1)
    BY <1>1, <2>1, <2>3
  <2>8. CASE OpenTable("Array", "Panicked")
    BY <1>2, <2>1, <2>6, <2>8, TablePanics
  <2>9. CASE OpenTable("Array", "Row")
    BY <1>2, <2>1, <2>4, <2>5, <2>6, <2>7, <2>9, TableFits
  <2>10. QED
    BY <2>1, <2>8, <2>9
<1>10. QED
  BY <1>6, <1>7, <1>8, <1>9

(* While rows are read the header stays the same.                          *)
LEMMA StaysInTable ==
  ASSUME IndInv, CapacityInv, pc \in RowStates, pc' \in RowStates, hdr' = hdr, left' = left,
         i' \in Int, i' >= i
  PROVE  TableKnown(pc', hdr', left', i')
<1>1. TableKnown(pc, hdr, left, i)
  BY CapacityNow DEF RowStates, Final
<1>2. left \in Int /\ i \in Int /\ N \in Int
  <2>1. left \in Nat /\ i \in Nat /\ N \in Nat
    BY Here, CursorFacts
  <2>2. QED
    BY <2>1
<1>3. left + i >= N + 2 => left' + i' >= N + 2
  BY <1>2, StaysBeyond
<1>4. QED
  BY <1>1, <1>3 DEF TableKnown, RowStates, TableStates

(* A row of a lenient table takes its slot from the slack.                 *)
LEMMA RowMemory ==
  ASSUME IndInv, Row
  PROVE  /\ mem'.cap \in Nat /\ mem'.cap >= mem.cap
         /\ hdr.type # "ParseTabularArrayLenient" => mem' = mem
         /\ hdr.type = "ParseTabularArrayLenient" =>
              mem'.cap - mem'.slack = mem.cap - mem.slack + 1
<1> DEFINE g == IF mem.slack <= 1 THEN Grow(mem, 1) ELSE mem
<1>1. mem \in [cap : Nat, slack : Nat] /\ mem.cap \in Nat /\ mem.slack \in Nat
  BY Here
<1>2. g \in [cap : Nat, slack : Nat] /\ g.cap - g.slack = mem.cap - mem.slack /\ g.cap >= mem.cap
  <2>1. CASE mem.slack <= 1
    BY <1>1, <2>1, GrowFacts, GrowKeeps
  <2>2. CASE ~ (mem.slack <= 1)
    BY <1>1, <2>2
  <2>3. QED
    BY <2>1, <2>2
<1>3. mem' = IF hdr.type # "ParseTabularArrayLenient" THEN mem
             ELSE [g EXCEPT !.slack = g.slack - 1]
  BY DEF Row
<1> HIDE DEF g
<1>4. CASE hdr.type # "ParseTabularArrayLenient"
  BY <1>1, <1>3, <1>4
<1>5. CASE hdr.type = "ParseTabularArrayLenient"
  <2>1. mem'.cap = g.cap /\ mem'.slack = g.slack - 1
    BY <1>2, <1>3, <1>5
  <2>2. g.cap \in Nat /\ g.slack \in Nat
    BY <1>2
  <2>3. QED
    BY <1>1, <1>2, <1>5, <2>1, <2>2
<1>6. QED
  BY <1>4, <1>5

(* The object of a row, and the groups in it, were set aside for; or there *)
(* are the key and its colon.                                              *)
LEMMA RowFits ==
  ASSUME IndInv, CapacityInv, IndInv', Row
  PROVE  CapacityNext
<1> DEFINE keyed == hdr.type = "ParseTabularObjects"
           end   == ValueEnd(i, {":"})
           row(x, tag) == OpenScope(x, "Object", tag, Indent(x), -1)
           cost  == RowCost(hdr)
           rest  == (left - 1) * RowCost(hdr)
           groups == Cardinality(GroupsFrom(hdr, cell'))
           eol   == LineEndAhead("Cell", i')
<1>1. pc = "Row" /\ UNCHANGED <<toks, hdr, left>> /\ pc \in RowStates /\ pc \notin Final \cup {"Start"}
  BY DEF Row, RowStates, Final
<1>2. /\ toks \in Document /\ i \in 1..N /\ i \in Nat /\ i \in Int /\ b \in Builders
      /\ hdr \in Headers /\ left \in Nat /\ i' \in 1..N /\ N \in Nat
  <2>1. i \in Nat /\ N \in Nat /\ i \in Int
    BY CursorFacts
  <2>2. i' \in 1..N
    BY <1>1, HereNext
  <2>3. QED
    BY <2>1, <2>2, Here
<1>3. /\ hdr.type \in TableStates
      /\ hdr.type # "ParseNestedFieldGroupsArrayStrict" => Groups(hdr) = {}
  BY <1>1, CapacityNow DEF TableKnown, RowStates
<1>4. end \in 1..N /\ end \in Int /\ end >= i /\ (Tok(end) # Tok(i) => end >= i + 1)
  BY <1>2, ValueEndAhead
<1>5. /\ cost \in Nat /\ groups \in Nat /\ groups <= Cardinality(Groups(hdr))
      /\ Cardinality(Groups(hdr)) \in Nat
      /\ rest \in Int /\ eol \in Int /\ eol >= 0
      /\ Budget(pc, hdr, left, cell, i) = rest + cost - i
  <2>1. eol \in {0, 1}
    BY DEF LineEndAhead
  <2>2. /\ Budget(pc, hdr, left, cell, i) = left * RowCost(hdr) - i
        /\ left * RowCost(hdr) = rest + cost /\ rest \in Int
    BY <1>1, <1>2, RowBudgets
  <2>3. QED
    BY <1>2, <2>1, <2>2, GroupNumbers
<1>6. i' \in Int /\ Budget("Cell", hdr, left, cell', i') = rest + 2 * groups - i' - eol
  <2>1. i' \in Int
    BY <1>2
  <2>2. QED
    BY <1>2, <2>1, RowBudgets
<1>7. hdr.type # "ParseNestedFieldGroupsArrayStrict" => groups = 0
  <2>1. Groups(hdr) = {} => GroupsFrom(hdr, cell') = {}
    BY DEF GroupsFrom
  <2>2. QED
    BY <1>3, <2>1, FS_EmptySet
<1> HIDE DEF end, groups, eol
<1>8. CASE ~ keyed /\ Goto("Cell", row(Counted(b), "Array"), i)
  <2> DEFINE x == Counted(b)
             ws == Indent(x)
             y == OpenScope(x, "Object", "Array", ws, -1)
             d == IF hdr.type = "ParseTabularArrayLenient" THEN 1 ELSE 0
  <2>1. x \in Builders /\ More(b, x, 0)
    BY <1>2, MoreItself
  <2>2. pc' = "Cell" /\ b' = y /\ i' = i
    BY <1>8 DEF Goto
  <2> HIDE DEF x, ws
  <2>3. More(x, y, 1)
    BY <2>1, MoreOpened DEF Containers
  <2>4. More(b, y, 0 + 1)
    BY <2>1, <2>3, MoreOn
  <2>5. More(b, b', 1)
    BY <2>2, <2>4
  <2>6. cost + d >= 1 + 2 * groups
    <3>1. CASE hdr.type = "ParseTabularArrayStrict"
      BY <1>5, <1>7, <3>1 DEF RowCost
    <3>2. CASE hdr.type = "ParseTabularArrayLenient"
      BY <1>5, <1>7, <3>2 DEF RowCost
    <3>3. CASE hdr.type = "ParseNestedFieldGroupsArrayStrict"
      <4> DEFINE all == Cardinality(Groups(hdr))
      <4>1. cost = 1 + 2 * all /\ d = 0
        BY <3>3 DEF RowCost
      <4> HIDE DEF all, cost, d
      <4>2. all \in Nat /\ groups <= all /\ groups \in Nat
        BY <1>5 DEF all
      <4>3. QED
        BY <4>1, <4>2
    <3>4. QED
      BY <1>3, <1>8, <3>1, <3>2, <3>3 DEF TableStates
  <2>7. mem'.cap - mem'.slack = mem.cap - mem.slack + d /\ d \in Nat
    <3>1. mem.cap \in Nat /\ mem.slack \in Nat
      BY Here
    <3>2. QED
      BY <3>1, RowMemory
  <2>8. 1 + Budget(pc', hdr', left', cell', i') <= Budget(pc, hdr, left, cell, i) + d
    <3>1. Budget(pc', hdr', left', cell', i') = rest + 2 * groups - i - eol
      BY <1>1, <1>6, <2>2
    <3> HIDE DEF rest, cost, d
    <3>2. 1 + (rest + 2 * groups - i - eol) <= (rest + cost - i) + d
      BY <1>2, <1>5, <2>6, <2>7
    <3>3. QED
      BY <1>5, <3>1, <3>2
  <2>9. TableKnown(pc', hdr', left', i') /\ pc' \notin Final \cup {"Start"}
    <3>1. pc' \in RowStates /\ pc' \notin Final \cup {"Start"} /\ i' \in Int /\ i' >= i
      BY <1>2, <2>2 DEF RowStates, Final
    <3>2. QED
      BY <1>1, <3>1, StaysInTable
  <2> HIDE DEF d
  <2>10. QED
    BY <1>1, <2>5, <2>7, <2>8, <2>9, Affords
<1>9. CASE keyed /\ Tok(end) = ":" /\ Goto("Cell", row(PutKey(b, i), "Object"), end + 1)
  <2> DEFINE x == PutKey(b, i)
             ws == Indent(x)
             y == OpenScope(x, "Object", "Object", ws, -1)
  <2>1. x \in Builders /\ More(b, x, 1) /\ (FilledCells(x) => Tok(i) # ":")
    BY <1>2, MorePut
  <2>2. pc' = "Cell" /\ b' = y /\ i' = end + 1
    BY <1>9 DEF Goto
  <2> HIDE DEF x, ws
  <2>3. More(x, y, 1)
    BY <2>1, MoreOpened DEF Containers
  <2>4. More(b, y, 1 + 1)
    BY <2>1, <2>3, MoreOn
  <2>5. More(b, b', 2)
    BY <2>2, <2>4
  <2>6. cost = 0 /\ groups = 0 /\ mem' = mem
    BY <1>7, <1>9, RowMemory DEF RowCost
  <2>7. ASSUME FilledCells(b')
        PROVE  2 + Budget(pc', hdr', left', cell', i') <= Budget(pc, hdr, left, cell, i)
    <3>1. Tok(i) # ":"
      BY <2>1, <2>2, <2>3, <2>7 DEF More
    <3>2. end >= i + 1
      BY <1>4, <1>9, <3>1
    <3>3. Budget(pc', hdr', left', cell', i') = rest + 2 * groups - (end + 1) - eol
      BY <1>1, <1>6, <2>2
    <3> HIDE DEF rest, cost
    <3>4. 2 + (rest + 2 * groups - (end + 1) - eol) <= rest + cost - i
      BY <1>2, <1>4, <1>5, <2>6, <3>2
    <3>5. QED
      BY <1>5, <3>3, <3>4
  <2>8. TableKnown(pc', hdr', left', i') /\ pc' \notin Final \cup {"Start"}
    <3>1. pc' \in RowStates /\ pc' \notin Final \cup {"Start"} /\ i' \in Int /\ i' >= i
      BY <1>2, <1>4, <2>2 DEF RowStates, Final
    <3>2. QED
      BY <1>1, <3>1, StaysInTable
  <2>9. QED
    BY <1>1, <2>5, <2>6, <2>7, <2>8, AffordsHere
<1>10. CASE Underflow \/ Fail
  <2>1. pc' \in {"Failed", "Panicked"} /\ b' = b
    BY <1>10 DEF Underflow, Fail
  <2>2. QED
    BY <1>1, <2>1, RowMemory, FailsFitting
<1>11. QED
  <2>1. \/ ~ keyed /\ Goto("Cell", row(Counted(b), "Array"), i)
        \/ keyed /\ Tok(end) = ":" /\ Goto("Cell", row(PutKey(b, i), "Object"), end + 1)
        \/ Underflow \/ Fail
    BY Zenon DEF Row, end
  <2>2. QED
    BY <1>8, <1>9, <1>10, <2>1

(* The groups behind the field that was filled. *)
LEMMA GroupsAhead ==
  ASSUME IndInv, Cell, pc' \in {"Cell", "EndRow"},
         NEW now, now = Cardinality(GroupsFrom(hdr, cell)),
         NEW next, next = IF pc' = "Cell" THEN Cardinality(GroupsFrom(hdr, cell')) ELSE 0
  PROVE  /\ now \in Nat /\ next \in Nat /\ next <= now
         /\ IsGroup(hdr, cell) => next + 1 <= now
<1> DEFINE todo == {j \in (cell + 1)..hdr.hi :
                      IsLeaf(hdr, j) \/ IsGroup(hdr, j) \/ IsGroupEnd(hdr, j)}
           c == cell'
           behind == Cardinality(GroupsFrom(hdr, cell + 1))
<1>1. /\ hdr \in Headers /\ cell \in (hdr.lo + 1)..hdr.hi /\ hdr.lo \in Nat /\ hdr.hi \in Nat
  <2>1. hdr \in Headers
    BY Here
  <2>2. hdr.lo \in Nat /\ hdr.hi \in Nat
    BY Here
  <2>3. cell \in (hdr.lo + 1)..hdr.hi
    <3>1. pc = "Cell"
      BY DEF Cell
    <3>2. QED
      BY <3>1 DEF IndInv, Good
  <2>4. QED
    BY <2>1, <2>2, <2>3
<1>2. now \in Nat /\ next \in Nat /\ behind \in Nat
  BY <1>1, GroupNumbers
<1>3. CASE pc' = "Cell"
  <2>1. todo # {} /\ c = Min(todo)
    BY <1>3 DEF Cell, Goto, Fail
  <2>2. c \in todo
    BY <1>1, <2>1, MinOfNaturals
  <2> HIDE DEF c
  <2>3. c \in Int /\ c > cell
    BY <1>1, <2>2
  <2>4. next = Cardinality(GroupsFrom(hdr, c))
    BY <1>3 DEF c
  <2>5. QED
    BY <1>1, <1>2, <2>3, <2>4, GroupsPassed
<1>4. CASE pc' = "EndRow"
  <2>1. IsGroup(hdr, cell) => behind + 1 <= now
    <3>1. cell + 1 \in Int /\ cell + 1 > cell
      BY <1>1
    <3>2. QED
      BY <1>1, <3>1, GroupsPassed
  <2> HIDE DEF behind
  <2>2. next = 0
    BY <1>4
  <2>3. QED
    BY <1>2, <2>1, <2>2
<1>5. QED
  BY <1>3, <1>4

(* A cell that is not empty has a token of its own before the delimiter or *)
(* line end behind it; a group has the slots that were set aside for it.   *)
LEMMA CellFits ==
  ASSUME IndInv, CapacityInv, IndInv', Cell
  PROVE  CapacityNext
<1> DEFINE leaf   == IsLeaf(hdr, cell)
           last   == \A j \in Leaves(hdr) : j <= cell
           delims == CellEnds(last)
           end    == ValueEnd(i, delims)
           name   == NameStart(hdr, cell)
           key    == PutKey(b, name)
           before == IF leaf THEN PutValue(key, i)
                     ELSE IF IsGroup(hdr, cell)
                     THEN OpenScope(key, "Object", "Object", Indent(b), -1)
                     ELSE b
           after  == IF IsGroupEnd(hdr, cell) THEN CloseScope(before) ELSE before
           todo   == {j \in (cell + 1)..hdr.hi :
                        IsLeaf(hdr, j) \/ IsGroup(hdr, j) \/ IsGroupEnd(hdr, j)}
           step   == IF todo = {} THEN "EndRow" ELSE "Cell"
           rest   == (left - 1) * RowCost(hdr)
           now    == Cardinality(GroupsFrom(hdr, cell))
           next   == IF pc' = "Cell" THEN Cardinality(GroupsFrom(hdr, cell')) ELSE 0
           ahead(p) == IF Tok(p) = "NL" THEN 1 ELSE 0
           paid   == i' + ahead(i')
<1>1. /\ pc = "Cell" /\ UNCHANGED <<toks, hdr, left, mem>>
      /\ pc \in RowStates /\ pc \notin Final \cup {"Start"}
  BY DEF Cell, RowStates, Final
<1>2. /\ hdr.lo # 0 /\ cell \in (hdr.lo + 1)..hdr.hi
      /\ toks \in Document /\ hdr.delim \in Delims /\ hdr \in Headers /\ ScopesOK(b)
      /\ hdr.lo \in Nat /\ hdr.hi \in Nat /\ left \in Nat /\ i \in 1..N
  <2>1. /\ toks \in Document /\ hdr \in Headers /\ left \in Nat /\ i \in 1..N /\ ScopesOK(b)
    BY <1>1, Here
  <2>2. hdr.lo \in Nat /\ hdr.hi \in Nat /\ hdr.delim \in Delims
    BY Here
  <2>3. hdr.lo # 0 /\ cell \in (hdr.lo + 1)..hdr.hi
    BY <1>1 DEF IndInv, Good
  <2>4. QED
    BY <2>1, <2>2, <2>3
<1>3. i \in Nat /\ i \in Int /\ N \in Nat /\ i' \in 1..N
  BY <1>1, CursorFacts, HereNext
<1>4. end \in 1..N /\ end \in Int /\ end >= i /\ (Tok(end) # Tok(i) => end >= i + 1)
  BY <1>2, ValueEndAhead
<1>5. name \in Nat
  <2>1. cell \in Nat /\ cell > hdr.lo
    BY <1>2
  <2>2. QED
    BY <1>2, <2>1, NameStartFacts
<1> HIDE DEF name
<1>6. ScopesOK(key) /\ key \in Builders /\ b \in Builders /\ More(b, key, 1)
  <2>1. b \in Builders
    BY <1>2 DEF ScopesOK
  <2>2. QED
    BY <1>2, <1>5, <2>1, PutFacts, MorePut
<1> HIDE DEF key
<1>7. rest \in Int /\ Budget("Cell", hdr, left, cell, i) = rest + 2 * now - i - ahead(i)
  <2>1. LineEndAhead("Cell", i) = ahead(i)
    BY DEF LineEndAhead
  <2> HIDE DEF ahead
  <2>2. QED
    BY <1>2, <1>3, <2>1, RowBudgets
<1> HIDE DEF rest
<1>8. pc' \in {"Cell", "EndRow"} =>
        /\ now \in Nat /\ next \in Nat /\ next <= now
        /\ IsGroup(hdr, cell) => next + 1 <= now
  <2> HIDE DEF now, next
  <2>1. /\ now = Cardinality(GroupsFrom(hdr, cell))
        /\ next = IF pc' = "Cell" THEN Cardinality(GroupsFrom(hdr, cell')) ELSE 0
    BY DEF now, next
  <2>2. QED
    BY <2>1, GroupsAhead
<1>9. ASSUME pc' \in {"Cell", "EndRow"}
      PROVE  Budget(pc', hdr', left', cell', i') = rest + 2 * next - paid
  <2> DEFINE pos == i'
             eol == ahead(pos)
  <2>1. /\ LineEndAhead("Cell", pos) = eol /\ LineEndAhead("EndRow", pos) = eol
        /\ eol \in Int /\ pos \in Int
    BY <1>3 DEF LineEndAhead
  <2>2. pc' = "Cell" => Budget(pc', hdr', left', cell', i') = rest + 2 * next - pos - eol
    BY <1>1, <1>2, <2>1, RowBudgets DEF rest
  <2>3. pc' = "EndRow" => Budget(pc', hdr', left', cell', i') = rest - pos - eol
    BY <1>1, <1>2, <2>1, RowBudgets DEF rest
  <2>4. paid = pos + eol /\ (pc' = "EndRow" => next = 0)
    OBVIOUS
  <2> HIDE DEF pos, eol, next, paid
  <2>5. rest + 2 * next - pos - eol = rest + 2 * next - (pos + eol)
    BY <1>7, <1>8, <1>9, <2>1
  <2>6. next = 0 => rest - pos - eol = rest + 2 * next - (pos + eol)
    BY <1>7, <2>1
  <2>7. QED
    BY <1>9, <2>2, <2>3, <2>4, <2>5, <2>6
<1>10. ahead(i) \in {0, 1} /\ ahead(i') \in {0, 1} /\ paid \in Int
  BY <1>3
<1> HIDE DEF now, next
<1>11. ASSUME pc' \in {"Cell", "EndRow"}, NEW n, More(b, b', n), i' >= i,
              FilledCells(b') => n + 2 * next + i + ahead(i) <= 2 * now + paid
       PROVE  CapacityNext
  <2>1. pc' \in RowStates /\ pc' \notin Final \cup {"Start"} /\ i' \in Int
    BY <1>3, <1>11 DEF RowStates, Final
  <2>2. TableKnown(pc', hdr', left', i')
    BY <1>1, <1>11, <2>1, StaysInTable
  <2>3. ASSUME FilledCells(b')
        PROVE  n + Budget(pc', hdr', left', cell', i') <= Budget(pc, hdr, left, cell, i)
    <3> DEFINE eol == ahead(i)
    <3>1. n + 2 * next + i + eol <= 2 * now + paid
      BY <1>11, <2>3
    <3>2. n \in Nat /\ eol \in Int
      BY <1>11 DEF More
    <3>3. Budget(pc, hdr, left, cell, i) = rest + 2 * now - i - eol
      BY <1>1, <1>7
    <3> HIDE DEF eol, paid
    <3>4. n + (rest + 2 * next - paid) <= rest + 2 * now - i - eol
      BY <1>3, <1>7, <1>8, <1>10, <1>11, <3>1, <3>2
    <3>5. QED
      BY <1>9, <1>11, <3>3, <3>4
  <2>4. QED
    BY <1>1, <1>11, <2>1, <2>2, <2>3, AffordsHere
<1>12. ASSUME ScopesOK(before)
       PROVE  More(before, after, 0)
  <2>1. before \in Builders
    BY <1>12 DEF ScopesOK
  <2> HIDE DEF before
  <2>2. QED
    BY <1>12, <2>1, MoreClosed, MoreItself
<1>13. CASE leaf /\ Tok(end) \in delims
                 /\ Goto(step, after, IF Tok(end) = "NL" THEN end ELSE end + 1)
  <2> DEFINE x == PutValue(key, i)
             pos == IF Tok(end) = "NL" THEN end ELSE end + 1
  <2>1. before = x /\ pc' \in {"Cell", "EndRow"} /\ b' = after /\ i' = pos
    BY <1>13 DEF Goto
  <2>2. /\ ScopesOK(x) /\ More(key, x, 1)
        /\ FilledCells(x) => Tok(i) \notin {"NL", "COMMA", "|", "TAB"}
    BY <1>3, <1>6, PutFacts, MorePut
  <2>3. Tok(end) \in {"NL", "COMMA", "|", "TAB"}
    BY <1>2, <1>13 DEF CellEnds, Delims
  <2> HIDE DEF x, before, delims, after
  <2>4. More(before, after, 0)
    BY <1>12, <2>1, <2>2
  <2>5. More(b, b', 2)
    <3>1. More(b, x, 1 + 1)
      BY <1>6, <2>2, MoreOn
    <3>2. More(b, after, 1 + 1 + 0)
      BY <2>1, <2>4, <3>1, MoreOn
    <3>3. 1 + 1 + 0 = 2
      OBVIOUS
    <3>4. QED
      BY <2>1, <3>2, <3>3
  <2>6. i' >= i
    BY <1>3, <1>4, <2>1
  <2>7. ASSUME FilledCells(b')
        PROVE  2 + 2 * next + i + ahead(i) <= 2 * now + paid
    <3>1. FilledCells(x)
      BY <2>1, <2>4, <2>7 DEF More
    <3>2. Tok(i) \notin {"NL", "COMMA", "|", "TAB"}
      BY <2>2, <3>1
    <3>3. end >= i + 1 /\ ahead(i) = 0
      BY <1>4, <2>3, <3>2
    <3>4. paid >= i + 2 /\ paid \in Int
      <4>1. CASE Tok(end) = "NL"
        <5>1. i' = end /\ ahead(i') = 1
          BY <2>1, <4>1
        <5>2. paid = end + 1
          BY <5>1
        <5> HIDE DEF end, paid
        <5>3. QED
          BY <1>3, <1>4, <3>3, <5>2
      <4>2. CASE Tok(end) # "NL"
        <5> DEFINE eol == ahead(i')
        <5>1. i' = end + 1 /\ eol \in {0, 1}
          BY <1>10, <2>1, <4>2
        <5>2. paid = (end + 1) + eol
          BY <5>1
        <5> HIDE DEF end, eol
        <5>3. QED
          BY <1>3, <1>4, <3>3, <5>1, <5>2
      <4>3. QED
        BY <4>1, <4>2
    <3> HIDE DEF paid, ahead
    <3>5. now \in Nat /\ next \in Nat /\ next <= now
      BY <1>8, <2>1
    <3>6. QED
      BY <1>3, <3>3, <3>4, <3>5
  <2>8. QED
    BY <1>11, <2>1, <2>5, <2>6, <2>7
<1>14. CASE ~ leaf /\ Goto(step, after, i)
  <2>1. pc' \in {"Cell", "EndRow"} /\ b' = after /\ i' = i
    BY <1>14 DEF Goto
  <2>2. paid = i + ahead(i) /\ ahead(i) \in Int /\ i' >= i
    BY <1>3, <1>10, <2>1
  <2>3. now \in Nat /\ next \in Nat /\ next <= now /\ (IsGroup(hdr, cell) => next + 1 <= now)
    BY <1>8, <2>1
  <2>4. CASE IsGroup(hdr, cell)
    <3> DEFINE ws == Indent(b)
    <3>1. before = OpenScope(key, "Object", "Object", ws, -1)
      BY <1>14, <2>4
    <3>2. ~ IsGroupEnd(hdr, cell)
      BY <2>4 DEF IsGroup, IsGroupEnd, Opens
    <3>3. b' = before
      BY <2>1, <3>2
    <3> HIDE DEF ws, before
    <3>4. More(key, before, 1)
      BY <1>6, <3>1, MoreOpened DEF Containers
    <3>5. More(b, b', 1 + 1)
      BY <1>6, <3>3, <3>4, MoreOn
    <3>6. (1 + 1) + 2 * next + i + ahead(i) <= 2 * now + paid
      <4> HIDE DEF paid, ahead
      <4>1. QED
        BY <1>3, <2>2, <2>3, <2>4
    <3>7. QED
      BY <1>11, <2>1, <2>2, <3>5, <3>6
  <2>5. CASE ~ IsGroup(hdr, cell)
    <3>1. before = b
      BY <1>14, <2>5
    <3> HIDE DEF before, after
    <3>2. More(b, b', 0)
      BY <1>2, <1>12, <2>1, <3>1
    <3>3. 0 + 2 * next + i + ahead(i) <= 2 * now + paid
      <4> HIDE DEF paid, ahead
      <4>1. QED
        BY <1>3, <2>2, <2>3
    <3>4. QED
      BY <1>11, <2>1, <2>2, <3>2, <3>3
  <2>6. QED
    BY <2>4, <2>5
<1>15. CASE Fail
  <2>1. pc' = "Failed" /\ b' = b
    BY <1>15 DEF Fail
  <2>2. QED
    BY <1>1, <2>1, FailsHere
<1>16. QED
  <2>1. \/ leaf /\ Tok(end) \in delims
                /\ Goto(step, after, IF Tok(end) = "NL" THEN end ELSE end + 1)
        \/ ~ leaf /\ Goto(step, after, i)
        \/ Fail
    BY Zenon DEF Cell, after, before, key, leaf, name, delims, end, last, step, todo
  <2>2. QED
    BY <1>13, <1>14, <1>15, <2>1

(* Behind a row the slots for the rows that are left are owed, and nothing *)
(* is behind the last.                                                     *)
LEMMA EndRowFits ==
  ASSUME IndInv, CapacityInv, IndInv', EndRow
  PROVE  CapacityNext
<1> DEFINE x       == CloseScope(b)
           lenient == hdr.type = "ParseTabularArrayLenient"
           e       == EolState(i, x, pending, TRUE)
           cost    == RowCost(hdr)
           rest    == (left - 1) * RowCost(hdr)
           eol     == LineEndAhead("EndRow", i)
           later   == i' + LineEndAhead(pc', i')
           l       == left'
           pos     == i'
<1>1. /\ pc = "EndRow" /\ UNCHANGED <<toks, hdr, mem>> /\ l = IF left = 0 THEN 0 ELSE left - 1
      /\ pc \in RowStates /\ pc \notin Final \cup {"Start"}
  BY DEF EndRow, RowStates, Final
<1>2. /\ hdr \in Headers /\ left \in Nat /\ i \in 1..N /\ i \in Int /\ i <= N /\ N \in Int
      /\ l \in Nat /\ pos \in Int /\ ScopesOK(b)
  <2>1. i \in Nat /\ N \in Nat /\ i <= N /\ i' \in 1..N /\ l \in Nat
    BY <1>1, CursorFacts, HereNext
  <2>2. ScopesOK(b)
    BY <1>1, Here
  <2> HIDE DEF l, pos
  <2>3. i \in Int /\ N \in Int
    BY <2>1
  <2>4. pos \in Int
    <3>1. \A p \in 1..N : p \in Int
      BY <2>1
    <3>2. QED
      BY <2>1, <3>1 DEF pos
  <2>5. QED
    BY <2>1, <2>2, <2>3, <2>4, Here
<1>3. /\ hdr.type \in TableStates
      /\ hdr.type # "ParseNestedFieldGroupsArrayStrict" => Groups(hdr) = {}
      /\ ~ lenient => left >= 1
      /\ WrapsRows(hdr) => left + i >= N + 2
  BY <1>1, CapacityNow DEF TableKnown, RowStates
<1>4. /\ cost \in Nat /\ rest \in Int /\ eol \in {0, 1} /\ eol \in Int
      /\ Budget(pc, hdr, left, cell, i) = rest - i - eol
  BY <1>1, <1>2, RowBudgets, GroupNumbers DEF LineEndAhead
<1>5. lenient => cost = 0 /\ rest = 0 /\ ~ WrapsRows(hdr)
  <2>1. lenient => RowCost(hdr) = 0 /\ ~ WrapsRows(hdr)
    BY DEF RowCost, WrapsRows
  <2>2. (left - 1) * 0 = 0
    BY <1>2
  <2>3. QED
    BY <2>1, <2>2
<1>6. More(b, x, 0)
  BY <1>2, MoreClosed
<1> HIDE DEF x
<1>7. ASSUME pc' \in {"Row", "ScopeEnd"}, b' = x, TableKnown(pc', hdr', left', i'),
             NEW v \in Int, Budget(pc', hdr', left', cell', i') = v, v <= rest - i - eol
      PROVE  CapacityNext
  <2>1. pc' \notin Final \cup {"Start"} /\ More(b, b', 0)
    BY <1>6, <1>7 DEF Final
  <2>2. 0 + Budget(pc', hdr', left', cell', i') <= Budget(pc, hdr, left, cell, i)
    <3>1. 0 + v <= rest - i - eol
      BY <1>7
    <3>2. QED
      BY <1>4, <1>7, <3>1
  <2>3. QED
    BY <1>1, <1>7, <2>1, <2>2, AffordsHere
<1>8. ASSUME pc' = "ScopeEnd", b' = x, ~ WrapsRows(hdr), rest = 0, i + eol <= later
      PROVE  CapacityNext
  <2> DEFINE ahead == LineEndAhead("ScopeEnd", pos)
  <2>1. TableKnown(pc', hdr', left', i')
    <3>1. ~ WrapsRows(hdr')
      BY <1>1, <1>8 DEF WrapsRows
    <3>2. QED
      BY <1>8, <3>1 DEF TableKnown, RowStates, TableStates
  <2>2. ahead \in Int /\ later = pos + ahead
    BY <1>8 DEF LineEndAhead
  <2>3. Budget(pc', hdr', left', cell', i') = 0 - pos - ahead
    <3> HIDE DEF l, pos
    <3>1. Budget("ScopeEnd", hdr, l, cell', pos) = 0 - pos - ahead
      BY <1>2, Budgets DEF HeaderStates, TableStates
    <3>2. QED
      BY <1>1, <1>8, <3>1 DEF l, pos
  <2> HIDE DEF ahead, pos, later, rest, eol
  <2>4. 0 - pos - ahead \in Int /\ 0 - pos - ahead <= rest - i - eol
    BY <1>2, <1>4, <1>8, <2>2
  <2>5. QED
    BY <1>7, <1>8, <2>1, <2>3, <2>4
<1>9. ASSUME pc' = "Row", b' = x, pos >= i + 1, left # 1 \/ lenient
      PROVE  CapacityNext
  <2>1. l * cost = rest
    <3>1. CASE lenient
      <4> HIDE DEF l, cost, rest
      <4>1. l * 0 = 0
        BY <1>2
      <4>2. QED
        BY <1>5, <3>1, <4>1
    <3>2. CASE ~ lenient
      BY <1>1, <1>2, <1>3, <3>2
    <3>3. QED
      BY <3>1, <3>2
  <2>2. Budget(pc', hdr', left', cell', i') = rest - pos
    <3>1. Budget(pc', hdr', left', cell', i') = l * cost - pos
      BY <1>1, <1>2, <1>9, RowBudgets
    <3>2. QED
      BY <2>1, <3>1
  <2>3. ~ lenient => l = left - 1 /\ l >= 1
    BY <1>1, <1>2, <1>3, <1>9
  <2>4. left + i >= N + 2 /\ ~ lenient => l + pos >= N + 2
    <3> HIDE DEF l, pos
    <3>1. QED
      BY <1>2, <1>9, <2>3
  <2>5. TableKnown(pc', hdr', left', i')
    <3>1. /\ hdr'.type = hdr.type /\ Groups(hdr') = Groups(hdr)
          /\ (WrapsRows(hdr') <=> WrapsRows(hdr))
      BY <1>1 DEF WrapsRows
    <3>2. WrapsRows(hdr) => l + pos >= N + 2
      BY <1>3, <1>5, <2>4
    <3>3. QED
      BY <1>1, <1>3, <1>9, <2>3, <3>1, <3>2 DEF TableKnown, RowStates, TableStates
  <2> HIDE DEF pos, rest, eol
  <2>6. rest - pos \in Int /\ rest - pos <= rest - i - eol
    BY <1>2, <1>4, <1>9
  <2>7. QED
    BY <1>7, <1>9, <2>2, <2>5, <2>6
<1>10. CASE left = 1 /\ ~ lenient /\ Goto("ScopeEnd", x, i)
  <2>1. pc' = "ScopeEnd" /\ b' = x /\ i' = i
    BY <1>10 DEF Goto
  <2>2. ~ WrapsRows(hdr)
    BY <1>2, <1>3, <1>10
  <2>3. rest = 0
    <3>1. left - 1 = 0 /\ 0 * cost = 0
      BY <1>4, <1>10
    <3>2. QED
      BY <3>1
  <2>4. later = i + eol
    BY <2>1 DEF LineEndAhead
  <2>5. i + eol <= later
    <3> HIDE DEF later, eol
    <3>1. QED
      BY <1>2, <1>4, <2>4
  <2>6. QED
    BY <1>8, <2>1, <2>2, <2>3, <2>5
<1>11. ASSUME left # 1 \/ lenient,
              NEW arms, Follow(e, x, arms), "Sibling" \in DOMAIN arms, arms["Sibling"] = "Row",
              DOMAIN arms \subseteq {"Sibling", "CloseScope"},
              "CloseScope" \in DOMAIN arms => lenient /\ arms["CloseScope"] = "ScopeEnd"
       PROVE  CapacityNext
  <2>1. \/ pc' = "Failed" /\ b' = b
        \/ /\ \E a \in DOMAIN arms : pc' = arms[a]
           /\ b' = x /\ i' \in Int
           /\ i + 1 <= i' + LineEndAhead(pc', i')
    <3> HIDE DEF e
    <3>1. "Fail" \notin DOMAIN arms /\ e = EolState(i, x, pending, TRUE)
      BY <1>11 DEF e
    <3>2. QED
      BY <1>2, <1>11, <3>1, FollowPays
  <2>2. CASE pc' = "Failed" /\ b' = b
    BY <1>1, <2>2, FailsHere
  <2>3. CASE pc' = "Row" /\ b' = x /\ i + 1 <= i' + LineEndAhead(pc', i')
    <3>1. LineEndAhead(pc', i') = 0
      BY <2>3 DEF LineEndAhead
    <3>2. pos >= i + 1
      BY <1>2, <2>3, <3>1
    <3>3. QED
      BY <1>9, <1>11, <2>3, <3>2
  <2>4. CASE pc' = "ScopeEnd" /\ lenient /\ b' = x /\ i + 1 <= i' + LineEndAhead(pc', i')
    <3>1. LineEndAhead(pc', i') \in {0, 1} /\ i + 1 <= later
      BY <2>4 DEF LineEndAhead
    <3>2. later \in Int
      BY <1>2, <3>1
    <3> HIDE DEF later, eol
    <3>3. i + eol <= later
      BY <1>2, <1>4, <3>1, <3>2
    <3>4. QED
      BY <1>5, <1>8, <2>4, <3>3
  <2>5. QED
    BY <1>11, <2>1, <2>2, <2>3, <2>4
<1>12. CASE lenient /\ Follow(e, x, [Sibling |-> "Row", CloseScope |-> "ScopeEnd"])
  <2> DEFINE arms == [Sibling |-> "Row", CloseScope |-> "ScopeEnd"]
  <2>1. /\ DOMAIN arms = {"Sibling", "CloseScope"} /\ Follow(e, x, arms)
        /\ arms["Sibling"] = "Row" /\ arms["CloseScope"] = "ScopeEnd"
    BY <1>12
  <2> HIDE DEF arms, e
  <2>2. QED
    BY <1>11, <1>12, <2>1
<1>13. CASE ~ lenient /\ left # 1 /\ Follow(e, x, [Sibling |-> "Row"])
  <2> DEFINE arms == [Sibling |-> "Row"]
  <2>1. DOMAIN arms = {"Sibling"} /\ arms["Sibling"] = "Row" /\ Follow(e, x, arms)
    BY <1>13
  <2> HIDE DEF arms, e
  <2>2. QED
    BY <1>11, <1>13, <2>1
<1>14. QED
  <2>1. IF left = 1 /\ ~ lenient THEN Goto("ScopeEnd", x, i)
        ELSE Follow(e, x, IF lenient THEN [Sibling |-> "Row", CloseScope |-> "ScopeEnd"]
                                     ELSE [Sibling |-> "Row"])
    BY Zenon DEF EndRow, x, e, lenient
  <2> HIDE DEF lenient, e
  <2>2. QED
    BY <1>10, <1>12, <1>13, <2>1

(* Closing a scope writes no slot; what it moves on for is the line end.   *)
LEMMA ScopeEndFits ==
  ASSUME IndInv, CapacityInv, IndInv', ScopeEnd
  PROVE  CapacityNext
<1> DEFINE own   == pending # << >> /\ Last(pending).depth = Len(b.stack)
           pend  == IF own THEN Front(pending) ELSE pending
           outer == CloseScope(b)
           tag   == Last(b.stack).tag
           e     == IF Tok(i) = "NL" THEN EolState(i, outer, pend, FALSE) ELSE Cascade(outer, pend)
           back  == IF tag = "Object" THEN "ParseHeader" ELSE "ExpectBlockArrayItem"
           arms  == [Sibling |-> back, CloseScope |-> "ScopeEnd"]
           eol   == LineEndAhead(pc, i)
           later == i' + LineEndAhead(pc', i')
<1>1. /\ pc = "ScopeEnd" /\ UNCHANGED <<toks, hdr, mem>>
      /\ pc \notin RowStates /\ pc \notin Final \cup {"Start"} /\ pc \notin HeaderStates
  BY DEF ScopeEnd, RowStates, Final, HeaderStates, TableStates
<1>2. ScopesOK(b) /\ i \in 1..N /\ i \in Int /\ N \in Nat /\ mem.cap \in Nat
  <2>1. i \in Nat
    BY CursorFacts
  <2>2. ScopesOK(b)
    BY <1>1, HereOutsideRows DEF Final
  <2>3. mem.cap \in Nat
    BY Here
  <2>4. i \in Int
    BY <2>1
  <2>5. QED
    BY <2>2, <2>3, <2>4, Here
<1>3. More(b, outer, 0)
  BY <1>2, MoreClosed
<1>4. eol = (IF Tok(i) = "NL" THEN 1 ELSE 0) /\ eol \in Int
  BY <1>1 DEF LineEndAhead
<1>5. back \in Walking /\ DOMAIN arms = {"Sibling", "CloseScope"}
      /\ arms["Sibling"] = back /\ arms["CloseScope"] = "ScopeEnd"
  BY DEF Walking
<1>6. \/ Fail
      \/ Goto("Success", outer, N)
      \/ Goto("ScopeEnd", outer, i)
      \/ Follow(e, outer, arms)
  BY Zenon DEF ScopeEnd, own, pend, outer, tag, e, back, arms
<1> HIDE DEF own, pend, outer, back, arms
<1>7. ASSUME pc' \in Walking \cup {"ScopeEnd"}, b' = outer, i + eol <= later
      PROVE  CapacityNext
  <2>1. 0 + i + LineEndAhead(pc, i) <= i' + LineEndAhead(pc', i') + (IF pc \in HeaderStates THEN 2 ELSE 0)
    <3> DEFINE pos == i'
               ahead == LineEndAhead(pc', i')
    <3>1. pos \in Int /\ ahead \in Int /\ i + eol <= pos + ahead
      <4>1. i' \in 1..N /\ ahead \in {0, 1}
        BY <1>1, HereNext DEF LineEndAhead
      <4>2. QED
        BY <1>2, <1>7, <4>1
    <3> HIDE DEF pos, ahead, eol
    <3>2. 0 + i + eol <= pos + ahead + 0
      BY <1>2, <1>4, <3>1
    <3>3. QED
      BY <1>1, <3>2 DEF pos, ahead, eol
  <2>2. QED
    BY <1>1, <1>3, <1>7, <2>1, PaidByTokens
<1>8. CASE Fail
  BY <1>1, <1>8, FailsHere DEF Fail
<1>9. CASE Goto("Success", outer, N)
  <2>1. pc' \in Final /\ b' = outer
    BY <1>9 DEF Goto, Final
  <2>2. mem'.cap \in Nat /\ mem'.cap >= mem.cap
    BY <1>1, <1>2
  <2>3. QED
    BY <1>1, <1>3, <2>1, <2>2, EndsFitting
<1>10. CASE Goto("ScopeEnd", outer, i)
  <2>1. pc' = "ScopeEnd" /\ b' = outer /\ i' = i
    BY <1>10 DEF Goto
  <2>2. later = i + eol
    BY <1>1, <2>1
  <2> HIDE DEF later, eol
  <2>3. i + eol <= later
    BY <1>2, <1>4, <2>2
  <2>4. QED
    BY <1>7, <2>1, <2>3
<1>11. CASE Follow(e, outer, arms)
  <2>1. CASE Tok(i) = "NL"
    <3>1. e = EolState(i, outer, pend, FALSE)
      BY <2>1
    <3> HIDE DEF e
    <3>2. "Fail" \notin DOMAIN arms
      BY <1>5
    <3>3. \/ pc' = "Failed" /\ b' = b
          \/ (\E a \in DOMAIN arms : pc' = arms[a]) /\ b' = outer /\ i + 1 <= later
      BY <1>2, <1>5, <1>11, <3>1, <3>2, FollowPays
    <3>4. eol = 1
      BY <1>4, <2>1
    <3> HIDE DEF later, eol
    <3>5. QED
      BY <1>1, <1>5, <1>7, <3>3, <3>4, FailsHere
  <2>2. CASE Tok(i) # "NL"
    <3>1. e.at = i
      BY <2>2 DEF Cascade
    <3> HIDE DEF e
    <3>2. \/ pc' = "Failed" /\ b' = b
          \/ (\E a \in DOMAIN arms : pc' = arms[a]) /\ b' = outer /\ i' = i
      BY <1>11, <3>1 DEF Follow, Goto, Fail
    <3>3. i' = i => i + eol <= later
      <4> DEFINE ahead == LineEndAhead(pc', i')
      <4>1. ahead \in {0, 1} /\ later = i' + ahead /\ eol = 0
        BY <1>4, <2>2 DEF LineEndAhead
      <4> HIDE DEF later, eol, ahead
      <4>2. QED
        BY <1>2, <4>1
    <3> HIDE DEF later, eol
    <3>4. QED
      BY <1>1, <1>5, <1>7, <3>2, <3>3, FailsHere
  <2>3. QED
    BY <2>1, <2>2
<1>12. QED
  BY <1>6, <1>8, <1>9, <1>10, <1>11

-----------------------------------------------------------------------------
(* The theorems. *)

(* Every step can afford the slots it writes.                              *)
LEMMA NextFits ==
  ASSUME IndInv, CapacityInv, [Next]_vars
  PROVE  CapacityInv'
<1>1. CASE UNCHANGED vars
  <2>1. /\ toks' = toks /\ pc' = pc /\ hdr' = hdr /\ left' = left /\ cell' = cell /\ b' = b
        /\ mem' = mem /\ i' = i
    BY <1>1 DEF vars
  <2>2. CASE pc = "Start"
    <3>1. N' = N /\ Tok(i)' = Tok(i) /\ (\A j : Tok(j)' = Tok(j))
      BY <2>1, SameTokens
    <3>2. ~ Running /\ ~ Running'
      BY <2>1, <2>2 DEF Running
    <3>3. (FilledCells(b)' <=> FilledCells(b)) /\ (WrapsRows(hdr)' <=> WrapsRows(hdr))
      BY <2>1, <3>1 DEF FilledCells, WrapsRows
    <3>4. TapeFits' <=> TapeFits
      BY <2>1 DEF TapeFits
    <3>5. QED
      BY <2>1, <2>2, <3>1, <3>2, <3>3, <3>4 DEF CapacityInv
  <2>3. CASE pc # "Start"
    <3>1. pc \in Final => (FilledCells(b) /\ ~ WrapsRows(hdr) => Len(b.tape) <= mem.cap)
      BY <2>3 DEF CapacityInv, Running, Done, Final, TapeFits
    <3>2. pc \notin Final => /\ TableKnown(pc, hdr, left, i)
                             /\ FilledCells(b) /\ ~ WrapsRows(hdr) =>
                                  Fits(pc, hdr, left, cell, b, mem, i)
      BY <2>3, CapacityNow
    <3>3. CapacityNext
      BY <2>1, <2>3, <3>1, <3>2 DEF CapacityNext
    <3>4. QED
      BY <2>1, <3>3, CapacityNextSuffices
  <2>4. QED
    BY <2>2, <2>3
<1>2. CASE Return
  BY <1>1, <1>2 DEF Return
<1>3. CASE Next /\ ~ Return
  <2>1. toks' = toks
    BY <1>3 DEF Next, Start, ParseHeader, ParseSimpleObjectValue, ParseEmptyArray,
       ParseInlineArray, Element, ParseBlockArray, ExpectBlockArrayItem, ParseTabularObjects,
       ParseTabularArrayStrict, ParseTabularArrayLenient, ParseNestedFieldGroupsArrayStrict,
       Row, Cell, EndRow, ScopeEnd
  <2>2. IndInv'
    BY NextPreserves
  <2>3. CapacityNext
    BY <1>3, <2>2, StartFits, ParseHeaderFits, ParseSimpleObjectValueFits, ParseEmptyArrayFits,
       ParseInlineArrayFits, ElementFits, ParseBlockArrayFits, ExpectBlockArrayItemFits,
       TablesFit, RowFits, CellFits, EndRowFits, ScopeEndFits DEF Next
  <2>4. QED
    BY <2>1, <2>3, CapacityNextSuffices
<1>4. QED
  BY <1>1, <1>2, <1>3

(* While a document is read, what is on the tape, what is owed, one slot   *)
(* for every token ahead and the slack are within what was reserved.       *)
THEOREM CapacityInductive == Spec => []CapacityInv
<1>1. ASSUME Init PROVE CapacityInv
  <2> DEFINE spare == N \div 5
             cap   == Max({4, N + spare})
  <2>1. /\ pc = "Start" /\ b.tape = << >> /\ mem = [cap |-> cap, slack |-> spare]
        /\ toks \in Document
    BY <1>1, ConstantsAssumption DEF Init, NoTape
  <2>2. N \in Nat /\ spare \in Nat
    BY <2>1, DocumentFacts
  <2> HIDE DEF spare
  <2>3. N + spare <= cap /\ cap \in Nat
    BY <2>2, MaxOfTwo
  <2> HIDE DEF cap
  <2>4. mem.cap = cap /\ mem.slack = spare /\ Len(b.tape) = 0
    BY <2>1
  <2>5. N + mem.slack <= mem.cap /\ Len(b.tape) <= mem.cap
    BY <2>2, <2>3, <2>4
  <2>6. QED
    BY <2>1, <2>5 DEF CapacityInv, Running, TapeFits
<1>2. IndInv /\ CapacityInv /\ [Next]_vars => CapacityInv'
  BY NextFits
<1>3. QED
  BY <1>1, <1>2, Inductive, PTL DEF Spec

(* insert_res! never writes beyond what was reserved for the tape, if no   *)
(* value and no key of a row is empty and no nested table declares 0 rows. *)
THEOREM TapeCapacity == Spec => []TapeFitsFilledCells
<1>1. ASSUME IndInv, CapacityInv PROVE TapeFitsFilledCells
  <2>1. SUFFICES ASSUME FilledCells(b), ~ WrapsRows(hdr)
                 PROVE  TapeFits
    BY DEF TapeFitsFilledCells
  <2>2. CASE pc \in Final \cup {"Start"}
    BY <1>1, <2>1, <2>2 DEF CapacityInv, Running, Done, Final
  <2>3. CASE pc \notin Final \cup {"Start"}
    <3> DEFINE l    == Len(b.tape)
               owed == SlotsOwed(pc, hdr, left, cell)
               eol  == LineEndAhead(pc, i)
               cap  == mem.cap
               slack == mem.slack
    <3>1. l + owed + (N - i + 1) + slack <= cap + eol
      BY <1>1, <2>1, <2>3, CapacityNow DEF Fits
    <3>2. owed \in Int /\ owed >= 0 /\ eol \in {0, 1}
      <4>1. hdr \in Headers /\ left \in Nat /\ TableKnown(pc, hdr, left, i)
        BY <1>1, <2>3, Here, CapacityNow
      <4>2. QED
        BY <4>1, OwedNumbers
    <3>3. l \in Nat
      <4>1. b.tape \in Seq(Nodes)
        BY <1>1, Here DEF Builders
      <4>2. QED
        BY <4>1
    <3>4. cap \in Nat /\ slack \in Nat /\ i \in Nat /\ N \in Nat /\ i <= N
      BY <1>1, Here, CursorFacts
    <3> HIDE DEF l, owed, eol, cap, slack
    <3>5. l <= cap
      BY <3>1, <3>2, <3>3, <3>4
    <3>6. QED
      BY <3>5 DEF TapeFits, l, cap
  <2>4. QED
    BY <2>2, <2>3
<1>2. QED
  BY <1>1, Inductive, CapacityInductive, PTL
=============================================================================

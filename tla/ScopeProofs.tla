----------------------------- MODULE ScopeProofs -----------------------------
(***************************************************************************)
(* The tape and its open scopes, for every document, option and build.     *)
(*                                                                         *)
(* The tape only grows: a step of stage 2 either writes behind its nodes   *)
(* (Extends) or closes the innermost scope (Backfills).  First what the    *)
(* operations on the tape do, then each action, then the theorem.          *)
(*                                                                         *)
(* The open scopes nest: NestInv of Stage2Properties is inductive relative *)
(* to IndInv.  First what the operations on the tape do to the scopes,     *)
(* then each action, then the theorems.                                    *)
(***************************************************************************)
EXTENDS Stage2Proofs

-----------------------------------------------------------------------------
(* Operations on the tape. *)

(* The tape of y is that of x with nothing or some nodes behind it.        *)
Extends(x, y) ==
  /\ x.tape \in Seq(Nodes) /\ y.tape \in Seq(Nodes)
  /\ Len(x.tape) <= Len(y.tape)
  /\ \A k \in 1..Len(x.tape) : y.tape[k] = x.tape[k]

(* The innermost scope of x is closed in y, and its node is backfilled     *)
(* (and behind it there may be nodes that x does not have).                *)
Backfills(x, y) ==
  /\ Len(y.tape) \in Nat
  /\ Len(x.tape) <= Len(y.tape)
  /\ Len(y.stack) < Len(x.stack)
  /\ \A k \in 1..Len(x.tape) : k # x.start => y.tape[k] = x.tape[k]

(* A step that writes nothing extends the tape.                            *)
LEMMA ExtendsItself ==
  ASSUME NEW x \in Builders
  PROVE  Extends(x, x)
<1>1. x.tape \in Seq(Nodes)
  BY BuilderFields
<1>2. QED
  BY <1>1 DEF Extends

(* A step may write more than one node.                                    *)
LEMMA ExtendsOn ==
  ASSUME NEW x, NEW y, NEW z, Extends(x, y), Extends(y, z)
  PROVE  Extends(x, z)
<1>1. /\ x.tape \in Seq(Nodes) /\ y.tape \in Seq(Nodes) /\ z.tape \in Seq(Nodes)
      /\ Len(x.tape) <= Len(y.tape) /\ Len(y.tape) <= Len(z.tape)
  BY DEF Extends
<1>2. Len(x.tape) \in Nat /\ Len(y.tape) \in Nat /\ Len(z.tape) \in Nat
  BY <1>1
<1>3. ASSUME NEW k \in 1..Len(x.tape)
      PROVE  z.tape[k] = x.tape[k]
  <2>1. k \in 1..Len(y.tape)
    BY <1>1, <1>2
  <2>2. QED
    BY <2>1 DEF Extends
<1>4. QED
  BY <1>1, <1>2, <1>3 DEF Extends

(* A tape with one node more extends the tape.                             *)
LEMMA AppendExtends ==
  ASSUME NEW x, x.tape \in Seq(Nodes), NEW node \in Nodes,
         NEW y, y.tape = Append(x.tape, node)
  PROVE  Extends(x, y)
<1>1. /\ y.tape \in Seq(Nodes)
      /\ Len(y.tape) = Len(x.tape) + 1
      /\ \A k \in 1..Len(x.tape) : y.tape[k] = x.tape[k]
      /\ Len(x.tape) \in Nat
  OBVIOUS
<1>2. QED
  BY <1>1 DEF Extends

(* Writing a node, and counting it, extend the tape of the same container. *)
LEMMA WriteExtends ==
  ASSUME NEW x \in Builders, NEW node \in Nodes
  PROVE  /\ Extends(x, Write(x, node)) /\ Extends(x, Counted(Write(x, node)))
         /\ Write(x, node).start = x.start /\ Counted(Write(x, node)).start = x.start
<1> DEFINE y == Write(x, node)
           tape == Append(x.tape, node)
<1>1. x.tape \in Seq(Nodes) /\ tape \in Seq(Nodes)
  BY BuilderFields
<1>2. y = [x EXCEPT !.tape = tape]
  BY DEF Write
<1> HIDE DEF tape
<1>3. y.tape = tape /\ y.start = x.start /\ y \in Builders
  BY <1>1, <1>2 DEF Builders, y
<1>4. Counted(y).tape = tape /\ Counted(y).start = x.start
  BY <1>3 DEF Counted, Builders
<1>5. QED
  BY <1>1, <1>3, <1>4, AppendExtends DEF tape

(* Counting an entry does not touch the tape.                              *)
LEMMA CountedExtends ==
  ASSUME NEW x \in Builders
  PROVE  Extends(x, Counted(x))
<1>1. x.tape \in Seq(Nodes) /\ Counted(x).tape = x.tape
  BY BuilderFields DEF Counted, Builders
<1>2. QED
  BY <1>1 DEF Extends

(* The inserts of keys, values and empty containers extend the tape.       *)
LEMMA PutExtends ==
  ASSUME NEW x \in Builders, NEW p \in Nat
  PROVE  /\ Extends(x, PutKey(x, p)) /\ Extends(x, PutHeaderKey(x, p))
         /\ Extends(x, PutValue(x, p))
         /\ \A kind \in Containers : Extends(x, PutEmpty(x, kind))
         /\ PutKey(x, p).start = x.start /\ PutValue(x, p).start = x.start
<1>1. /\ Node("Key", p, -1) \in Nodes /\ Node("Value", p, -1) \in Nodes
      /\ \A kind \in Containers : Node(kind, 0, -1) \in Nodes
  BY NodeFacts
<1>2. Extends(x, PutKey(x, p)) /\ PutKey(x, p).start = x.start
  BY <1>1, WriteExtends DEF PutKey
<1>3. Extends(x, PutHeaderKey(x, p))
  BY <1>2, ExtendsItself DEF PutHeaderKey
<1>4. Extends(x, PutValue(x, p)) /\ PutValue(x, p).start = x.start
  BY <1>1, WriteExtends DEF PutValue
<1>5. ASSUME NEW kind \in Containers
      PROVE  Extends(x, PutEmpty(x, kind))
  BY <1>1, WriteExtends DEF PutEmpty
<1>6. QED
  BY <1>2, <1>3, <1>4, <1>5

(* open_scope! writes the container's node behind the tape.                *)
LEMMA OpenScopeExtends ==
  ASSUME NEW x \in Builders, NEW kind \in Containers, NEW tag, NEW ws,
         NEW declared \in Nat \cup {-1}
  PROVE  Extends(x, OpenScope(x, kind, tag, ws, declared))
<1>1. x.tape \in Seq(Nodes)
  BY BuilderFields
<1>2. Node(kind, 0, declared) \in Nodes
  BY NodeFacts
<1>3. OpenScope(x, kind, tag, ws, declared).tape = Append(x.tape, Node(kind, 0, declared))
  BY DEF OpenScope
<1>4. QED
  BY <1>1, <1>2, <1>3, AppendExtends

(* The container of a header extends the tape, or is on it already.        *)
LEMMA EnterExtends ==
  ASSUME hdr \in Headers, NEW x \in Builders, NEW kind \in Containers, NEW ws
  PROVE  Extends(x, Enter(x, kind, ws))
<1>1. x.tape \in Seq(Nodes)
  BY BuilderFields
<1>2. CASE hdr.root
  <2> DEFINE indents == Append(x.indents, ws)
  <2>1. Enter(x, kind, ws) = [x EXCEPT !.indents = indents]
    BY <1>2 DEF Enter
  <2> HIDE DEF indents
  <2>2. Enter(x, kind, ws).tape = x.tape
    BY <2>1 DEF Builders
  <2>3. QED
    BY <1>1, <2>2 DEF Extends
<1>3. CASE ~ hdr.root
  <2>1. hdr.n \in Nat \cup {-1}
    BY DEF Headers
  <2>2. Enter(x, kind, ws) = OpenScope(x, kind, FrameTag(hdr.key), ws, hdr.n)
    BY <1>3 DEF Enter
  <2>3. QED
    BY <2>1, <2>2, OpenScopeExtends
<1>4. QED
  BY <1>2, <1>3

(* The key and the container of the header at hand extend the tape.        *)
LEMMA EnterHereExtends ==
  ASSUME IndInv, pc \notin Final \cup {"Start", "Cell", "EndRow"}, NEW kind \in Containers, NEW ws
  PROVE  Extends(b, Enter(PutHeaderKey(b, hdr.key), kind, ws))
<1>1. hdr \in Headers /\ hdr.key \in Nat /\ b \in Builders
  BY Here
<1>2. PutHeaderKey(b, hdr.key) \in Builders
  BY <1>1, HereOutsideRows, PutFacts, ScopesFacts
<1>3. Extends(b, PutHeaderKey(b, hdr.key))
  BY <1>1, PutExtends
<1>4. Extends(PutHeaderKey(b, hdr.key), Enter(PutHeaderKey(b, hdr.key), kind, ws))
  BY <1>1, <1>2, EnterExtends
<1>5. QED
  BY <1>3, <1>4, ExtendsOn

(* CloseScope changes no other node than that of the innermost container.  *)
LEMMA CloseScopeBackfills ==
  ASSUME NEW x, ScopesOK(x)
  PROVE  Backfills(x, CloseScope(x))
<1> DEFINE n == Len(x.tape) - x.start
           tape == Backfill(x, x.start, n)
           node == [x.tape[x.start] EXCEPT !.len = x.cnt, !.count = n]
<1>1. x \in Builders /\ Len(x.stack) \in Nat
  BY ScopesFacts
<1>2. x.tape \in Seq(Nodes) /\ x.start \in 1..Len(x.tape)
  BY <1>1, BuilderFields DEF ScopesOK
<1>3. CloseScope(x).tape = tape
  BY DEF CloseScope, Close
<1>4. tape = [x.tape EXCEPT ![x.start] = node]
  BY <1>2 DEF Backfill
<1> HIDE DEF tape, node
<1>5. Len(tape) = Len(x.tape) /\ Len(x.tape) \in Nat
      /\ \A k \in 1..Len(x.tape) : k # x.start => tape[k] = x.tape[k]
  BY <1>2, <1>4
<1>6. Len(CloseScope(x).stack) = Len(x.stack) - 1
  BY CloseScopeFacts
<1>7. QED
  BY <1>1, <1>3, <1>5, <1>6 DEF Backfills

(* A step may write nodes and close the scope they belong to.              *)
LEMMA ExtendedBackfills ==
  ASSUME NEW x, NEW y, NEW z, Extends(x, y), y.start = x.start, y.stack = x.stack,
         Backfills(y, z)
  PROVE  Backfills(x, z)
<1>1. /\ Len(x.tape) \in Nat /\ Len(y.tape) \in Nat /\ Len(z.tape) \in Nat
      /\ Len(x.tape) <= Len(y.tape) /\ Len(y.tape) <= Len(z.tape) /\ Len(z.stack) < Len(x.stack)
  BY DEF Extends, Backfills
<1>2. ASSUME NEW k \in 1..Len(x.tape), k # x.start
      PROVE  z.tape[k] = x.tape[k]
  <2>1. k \in 1..Len(y.tape)
    BY <1>1
  <2>2. QED
    BY <1>2, <2>1 DEF Extends, Backfills
<1>3. QED
  BY <1>1, <1>2 DEF Backfills

-----------------------------------------------------------------------------
(* Every step extends the tape or closes a scope.                          *)

Grows == Extends(b, b') \/ Backfills(b, b')

(* A step that leaves the tape alone. *)
LEMMA KeepsTape ==
  ASSUME IndInv, b' = b
  PROVE  Grows
<1>1. b \in Builders
  BY Here
<1>2. QED
  BY <1>1, ExtendsItself DEF Grows

(* A step that follows a line end does so with x, or fails. *)
LEMMA FollowGrows ==
  ASSUME IndInv, NEW x, Extends(b, x) \/ Backfills(b, x), NEW e, NEW arms, Follow(e, x, arms)
  PROVE  Grows
<1>1. b' = x \/ b' = b
  BY DEF Follow, Goto, Fail
<1>2. QED
  BY <1>1, KeepsTape DEF Grows

(* Reading a header writes at most the key behind what x has. *)
LEMMA DispatchGrows ==
  ASSUME IndInv, NEW x, ScopesOK(x), Extends(b, x), NEW h, HeaderOK(h), NEW first, Dispatch(h, x, first)
  PROVE  Grows
<1>1. x \in Builders /\ h.key \in Nat
  BY ScopesFacts DEF HeaderOK, Headers
<1>2. b' \in {b, x, PutKey(x, h.key)}
  BY DEF Dispatch, Goto, Fail
<1>3. Extends(b, PutKey(x, h.key))
  BY <1>1, PutExtends, ExtendsOn
<1>4. QED
  BY <1>2, <1>3, KeepsTape DEF Grows

(* A header writes at most its key.                                        *)
LEMMA ParseHeaderGrows ==
  ASSUME IndInv, ParseHeader
  PROVE  Grows
<1>1. pc = "ParseHeader" /\ Dispatch(ReadHeader(i), b, FALSE)
  BY DEF ParseHeader
<1>2. ScopesOK(b) /\ toks \in Document /\ i \in 1..N /\ b \in Builders
  BY <1>1, Here DEF Final
<1>3. HeaderOK(ReadHeader(i))
  BY <1>2, ReadHeaderFacts
<1>4. QED
  BY <1>1, <1>2, <1>3, ExtendsItself, DispatchGrows

(* The value of a field, or the object it opens, comes behind the key.     *)
LEMMA ParseSimpleObjectValueGrows ==
  ASSUME IndInv, ParseSimpleObjectValue
  PROVE  Grows
<1> DEFINE open == OpenScope(b, "Object", "Object", Indent(b) + IndentSize, -1)
           builders == {b, PutValue(b, i), PutEmpty(b, "Array"), PutEmpty(b, "Object"), open}
<1>1. b \in Builders /\ i \in Nat
  <2>1. N \in Nat /\ i \in 1..N /\ b \in Builders
    BY Here
  <2>2. QED
    BY <2>1
<1>2. \A x \in builders : Extends(b, x)
  BY <1>1, ExtendsItself, PutExtends, OpenScopeExtends DEF Containers
<1>3. b' \in builders
  <2> DEFINE e == EolState(i, b, pending, FALSE)
  <2>1. e.is \in {"Sibling", "Nested", "CloseScope", "Fail"}
    BY EolAnswers
  <2>2. CASE Tok(i) = "NL" /\ i < N
    <3> HIDE DEF e
    <3>1. b' \in {b, PutEmpty(b, "Object"), open}
      BY <1>1, <2>1, <2>2 DEF ParseSimpleObjectValue, Follow, Goto, Fail, e
    <3>2. QED
      BY <3>1
  <2>3. CASE ~ (Tok(i) = "NL" /\ i < N)
    <3>1. b' \in {b, PutValue(b, i), PutEmpty(b, "Array"), PutEmpty(b, "Object")}
      BY <2>3 DEF ParseSimpleObjectValue, Follow, Goto, Fail
    <3>2. QED
      BY <3>1
  <2>4. QED
    BY <2>2, <2>3
<1>4. QED
  BY <1>2, <1>3 DEF Grows

(* An empty array opens its own scope.                                     *)
LEMMA ParseEmptyArrayGrows ==
  ASSUME IndInv, ParseEmptyArray
  PROVE  Grows
<1> DEFINE y == PutHeaderKey(b, hdr.key)
           x == Enter(y, "Array", Indent(y) + IndentSize)
<1>1. pc = "ParseEmptyArray" /\ b' \in {b, x}
  BY DEF ParseEmptyArray, Follow, Goto, Fail
<1>2. Extends(b, x)
  BY <1>1, EnterHereExtends DEF Final, Containers
<1>3. QED
  BY <1>1, <1>2, KeepsTape DEF Grows

(* An inline array opens its scope.                                        *)
LEMMA ParseInlineArrayGrows ==
  ASSUME IndInv, ParseInlineArray
  PROVE  Grows
<1> DEFINE y == PutHeaderKey(b, hdr.key)
           x == Enter(y, "Array", IF hdr.root THEN Indent(y) + IndentSize ELSE Indent(y))
<1>1. pc = "ParseInlineArray" /\ b' \in {b, x}
  BY DEF ParseInlineArray, Goto, Fail
<1>2. Extends(b, x)
  BY <1>1, EnterHereExtends DEF Final, Containers
<1>3. QED
  BY <1>1, <1>2, KeepsTape DEF Grows

(* An element is written behind the ones before it.                        *)
LEMMA ElementGrows ==
  ASSUME IndInv, Element
  PROVE  Grows
<1> DEFINE x == PutValue(Counted(b), i)
<1>1. pc = "Element" /\ b' \in {b, x}
  BY DEF Element, ElementEnds, Follow, Goto, Fail
<1>2. ScopesOK(b) /\ b \in Builders /\ i \in Nat
  <2>1. ScopesOK(b) /\ b \in Builders /\ N \in Nat /\ i \in 1..N
    BY <1>1, Here DEF Final
  <2>2. QED
    BY <2>1
<1>3. Counted(b) \in Builders /\ Extends(b, Counted(b))
  BY <1>2, CountedFacts, CountedExtends, ScopesFacts
<1>4. Extends(b, x)
  BY <1>2, <1>3, PutExtends, ExtendsOn
<1>5. QED
  BY <1>1, <1>4, KeepsTape DEF Grows

(* A block array opens its scope.                                          *)
LEMMA ParseBlockArrayGrows ==
  ASSUME IndInv, ParseBlockArray
  PROVE  Grows
<1> DEFINE y == PutHeaderKey(b, hdr.key)
           x == Enter(y, "Array", Indent(y) + IndentSize)
<1>1. pc = "ParseBlockArray" /\ b' \in {b, x}
  BY DEF ParseBlockArray, Follow, Goto, Fail
<1>2. Extends(b, x)
  BY <1>1, EnterHereExtends DEF Final, Containers
<1>3. QED
  BY <1>1, <1>2, KeepsTape DEF Grows

(* An item is a value, an empty object or an object with a first field.    *)
LEMMA ExpectBlockArrayItemGrows ==
  ASSUME IndInv, ExpectBlockArrayItem
  PROVE  Grows
<1> DEFINE h  == ReadHeader(i + 1)
           x  == Counted(b)
           ws == Indent(x) + BehindHyphen(h)
           z  == IF h.key = 0 THEN x ELSE OpenScope(x, "Object", "Array", ws, -1)
<1>1. pc = "ExpectBlockArrayItem"
  BY DEF ExpectBlockArrayItem
<1>2. ScopesOK(b) /\ b \in Builders /\ toks \in Document /\ N \in Nat /\ i \in 1..N
  BY <1>1, Here DEF Final
<1>3. CASE b' = b
  BY <1>3, KeepsTape
<1>4. CASE b' # b
  <2>1. Tok(i) = "-"
    BY <1>4 DEF ExpectBlockArrayItem, Fail, Underflow
  <2>2. i + 1 \in 1..N
    BY <1>2, <2>1, DocumentFacts
  <2>3. HeaderOK(h)
    BY <1>2, <2>2, ReadHeaderFacts
  <2>4. h.key \in Nat
    BY <2>3 DEF HeaderOK, Headers
  <2> HIDE DEF h
  <2>5. ScopesOK(x) /\ x \in Builders /\ Extends(b, x)
    BY <1>2, CountedFacts, CountedExtends, ScopesFacts
  <2>6. ScopesOK(z) /\ Extends(b, z)
    <3>1. ws \in Nat
      BY <2>5, IndentFacts, ConstantsAssumption DEF BehindHyphen
    <3> HIDE DEF x, ws
    <3>2. CASE h.key = 0
      BY <2>5, <3>2
    <3>3. CASE h.key # 0
      BY <2>5, <3>1, <3>3, OpenScopeFacts, OpenScopeExtends, ExtendsOn DEF Containers
    <3>4. QED
      BY <3>2, <3>3
  <2>7. Extends(b, PutEmpty(x, "Object")) /\ Extends(b, PutValue(x, h.key))
    BY <2>4, <2>5, PutExtends, ExtendsOn DEF Containers
  <2>8. b' \in {PutEmpty(x, "Object"), PutValue(x, h.key)} \/ Dispatch(h, z, FALSE)
    BY <1>4 DEF ExpectBlockArrayItem, Follow, Goto, Fail, Underflow, h
  <2>9. QED
    BY <2>3, <2>6, <2>7, <2>8, DispatchGrows DEF Grows
<1>5. QED
  BY <1>3, <1>4

(* The four states of a table open its container. *)
LEMMA OpenTableGrows ==
  ASSUME IndInv, pc \in TableStates, NEW kind \in Containers, NEW next, OpenTable(kind, next)
  PROVE  Grows
<1> DEFINE y == PutHeaderKey(b, hdr.key)
           x == Enter(y, kind, Indent(y) + IndentSize)
<1>1. b' \in {b, x}
  BY DEF OpenTable, Follow, Goto, Fail
<1>2. Extends(b, x)
  BY EnterHereExtends DEF Final, TableStates
<1>3. QED
  BY <1>1, <1>2, KeepsTape DEF Grows

(* The four kinds of table open the scope of their rows.                   *)
LEMMA TableGrows ==
  ASSUME IndInv,
         ParseTabularObjects \/ ParseTabularArrayStrict \/ ParseTabularArrayLenient
           \/ ParseNestedFieldGroupsArrayStrict
  PROVE  Grows
<1>1. CASE ParseTabularObjects
  BY <1>1, OpenTableGrows DEF ParseTabularObjects, TableStates, Containers
<1>2. CASE ParseTabularArrayStrict
  BY <1>2, OpenTableGrows DEF ParseTabularArrayStrict, TableStates, Containers
<1>3. CASE ParseTabularArrayLenient
  BY <1>3, OpenTableGrows DEF ParseTabularArrayLenient, TableStates, Containers
<1>4. CASE ParseNestedFieldGroupsArrayStrict
  BY <1>4, OpenTableGrows DEF ParseNestedFieldGroupsArrayStrict, TableStates, Containers
<1>5. QED
  BY <1>1, <1>2, <1>3, <1>4

(* A row is an object, behind its key in a table of objects.               *)
LEMMA RowGrows ==
  ASSUME IndInv, Row
  PROVE  Grows
<1> DEFINE x(y, tag) == OpenScope(y, "Object", tag, Indent(y), -1)
           elem == x(Counted(b), "Array")
           entry == x(PutKey(b, i), "Object")
<1>1. pc = "Row" /\ b' \in {b, elem, entry}
  BY DEF Row, Goto, Fail, Underflow
<1>2. ScopesOK(b) /\ b \in Builders /\ i \in Nat
  <2>1. ScopesOK(b) /\ b \in Builders /\ N \in Nat /\ i \in 1..N
    BY <1>1, Here DEF Final
  <2>2. QED
    BY <2>1
<1>3. Counted(b) \in Builders /\ PutKey(b, i) \in Builders
  BY <1>2, CountedFacts, PutFacts, ScopesFacts
<1>4. Extends(b, Counted(b)) /\ Extends(b, PutKey(b, i))
  BY <1>2, CountedExtends, PutExtends
<1>5. Extends(Counted(b), elem) /\ Extends(PutKey(b, i), entry)
  BY <1>3, OpenScopeExtends DEF Containers
<1>6. Extends(b, elem) /\ Extends(b, entry)
  <2> HIDE DEF elem, entry
  <2>1. QED
    BY <1>4, <1>5, ExtendsOn
<1>7. QED
  BY <1>1, <1>6, KeepsTape DEF Grows

(* A cell writes its key and its value, a group its key and its object,    *)
(* and the end of a group closes it.                                       *)
LEMMA CellGrows ==
  ASSUME IndInv, Cell
  PROVE  Grows
<1> DEFINE name  == NameStart(hdr, cell)
           field == PutValue(PutKey(b, name), i)
           group == OpenScope(PutKey(b, name), "Object", "Object", Indent(b), -1)
           leaf  == IsLeaf(hdr, cell)
           opens == IsGroup(hdr, cell)
           ends  == IsGroupEnd(hdr, cell)
           y     == IF leaf THEN field ELSE IF opens THEN group ELSE b
           x     == IF ends THEN CloseScope(y) ELSE y
<1>1. pc = "Cell" /\ (b' = b \/ b' = x)
  BY DEF Cell, Goto, Fail
<1>2. ScopesOK(b) /\ b \in Builders /\ i \in Nat /\ hdr \in Headers
  <2>1. ScopesOK(b) /\ b \in Builders /\ N \in Nat /\ i \in 1..N /\ hdr \in Headers
    BY <1>1, Here DEF Final
  <2>2. QED
    BY <2>1
<1>3. name \in Nat
  <2>1. hdr.lo # 0 /\ cell \in (hdr.lo + 1)..hdr.hi
    BY <1>1 DEF IndInv, Good
  <2>2. hdr.lo \in Nat /\ hdr.hi \in Nat
    BY Here
  <2>3. cell \in Nat /\ cell > hdr.lo
    BY <2>1, <2>2
  <2>4. QED
    BY <2>2, <2>3, NameStartFacts
<1>4. PutKey(b, name) \in Builders /\ Extends(b, PutKey(b, name))
  BY <1>2, <1>3, PutFacts, PutExtends, ScopesFacts
<1>5. Extends(b, field) /\ Extends(b, group)
  <2>1. Extends(PutKey(b, name), field)
    BY <1>2, <1>4, PutExtends
  <2>2. Extends(PutKey(b, name), group)
    BY <1>4, OpenScopeExtends DEF Containers
  <2> HIDE DEF field, group
  <2>3. QED
    BY <1>4, <2>1, <2>2, ExtendsOn
<1>6. ~ (opens /\ ends)
  BY DEF IsGroup, IsGroupEnd, Opens
<1>7. field.start = b.start /\ field.stack = b.stack /\ ScopesOK(field)
  <2>1. /\ PutKey(b, name).start = b.start /\ PutKey(b, name).stack = b.stack
        /\ ScopesOK(PutKey(b, name))
    BY <1>2, <1>3, PutFacts, PutExtends
  <2>2. QED
    BY <1>2, <1>4, <2>1, PutFacts, PutExtends
<1> HIDE DEF field, group, name, leaf, opens, ends
<1>8. y \in {b, field, group} /\ (ends => y \in {b, field})
  <2>1. leaf => y = field
    OBVIOUS
  <2>2. ~ leaf /\ opens => y = group
    OBVIOUS
  <2>3. ~ leaf /\ ~ opens => y = b
    OBVIOUS
  <2> HIDE DEF y
  <2>4. QED
    BY <1>6, <2>1, <2>2, <2>3
<1>9. Extends(b, y)
  <2> HIDE DEF y
  <2>1. QED
    BY <1>2, <1>5, <1>8, ExtendsItself
<1>10. CASE ends
  <2>1. ScopesOK(y) /\ y.start = b.start /\ y.stack = b.stack
    <3> HIDE DEF y
    <3>1. QED
      BY <1>2, <1>7, <1>8, <1>10
  <2>2. x = CloseScope(y)
    BY <1>10
  <2> HIDE DEF x, y
  <2>3. Backfills(y, x)
    BY <2>1, <2>2, CloseScopeBackfills
  <2>4. Backfills(b, x)
    BY <1>9, <2>1, <2>3, ExtendedBackfills
  <2>5. QED
    BY <1>1, <2>4, KeepsTape DEF Grows
<1>11. CASE ~ ends
  <2>1. x = y
    BY <1>11
  <2> HIDE DEF x, y
  <2>2. QED
    BY <1>1, <1>9, <2>1, KeepsTape DEF Grows
<1>12. QED
  BY <1>10, <1>11

(* A row ends with its object. *)
LEMMA EndRowGrows ==
  ASSUME IndInv, EndRow
  PROVE  Grows
<1>1. pc = "EndRow" /\ b' \in {b, CloseScope(b)}
  BY DEF EndRow, Follow, Goto, Fail
<1>2. ScopesOK(b)
  BY <1>1, Here DEF Final
<1>3. QED
  BY <1>1, <1>2, CloseScopeBackfills, KeepsTape DEF Grows

(* The end of a scope backfills its container and nothing else.            *)
LEMMA ScopeEndGrows ==
  ASSUME IndInv, ScopeEnd
  PROVE  Grows
<1>1. pc = "ScopeEnd" /\ b' \in {b, CloseScope(b)}
  BY DEF ScopeEnd, Follow, Goto, Fail
<1>2. ScopesOK(b)
  BY <1>1, Here DEF Final
<1>3. QED
  BY <1>1, <1>2, CloseScopeBackfills, KeepsTape DEF Grows

(* Every step behind the prologue extends the tape or closes a scope.      *)
LEMMA NextGrows ==
  ASSUME IndInv, [Next]_vars, pc # "Start"
  PROVE  Grows
<1>1. CASE UNCHANGED vars
  BY <1>1, KeepsTape DEF vars
<1>2. CASE Return
  BY <1>2, KeepsTape DEF Return, vars
<1>3. ~ Start
  BY DEF Start
<1>4. QED
  BY <1>1, <1>2, <1>3, ParseHeaderGrows, ParseSimpleObjectValueGrows, ParseEmptyArrayGrows,
     ParseInlineArrayGrows, ElementGrows, ParseBlockArrayGrows, ExpectBlockArrayItemGrows,
     TableGrows, RowGrows, CellGrows, EndRowGrows, ScopeEndGrows DEF Next

(* Every node written stays on the tape where it is and as it is, except   *)
(* that closing a scope fills in its container's len and count: what the   *)
(* scopes remember of the tape (last_start, the frames) stays true.        *)
THEOREM NodesStay == Spec => TapeOnlyGrows
<1>1. ASSUME Grows, b \in Builders
      PROVE  /\ Len(b'.tape) >= Len(b.tape)
             /\ \A k \in 1..Len(b.tape) :
                  b'.tape[k] # b.tape[k] => k = b.start /\ Len(b'.stack) < Depth
  <2>1. Len(b.tape) \in Nat
    BY <1>1, BuilderFields
  <2>2. CASE Extends(b, b')
    <3>1. Len(b'.tape) \in Nat /\ Len(b'.tape) >= Len(b.tape)
      BY <2>1, <2>2 DEF Extends
    <3>2. QED
      BY <2>2, <3>1 DEF Extends
  <2>3. CASE Backfills(b, b')
    BY <2>1, <2>3 DEF Backfills, Depth
  <2>4. QED
    BY <1>1, <2>2, <2>3 DEF Grows
<1>2. IndInv /\ [Next]_vars =>
        [pc # "Start" =>
           /\ Len(b'.tape) >= Len(b.tape)
           /\ \A k \in 1..Len(b.tape) :
                b'.tape[k] # b.tape[k] => k = b.start /\ Len(b'.stack) < Depth]_vars
  BY <1>1, NextGrows, Here
<1>3. QED
  BY <1>2, Inductive, PTL DEF Spec, TapeOnlyGrows


-----------------------------------------------------------------------------
(* Operations on the scopes. *)

(* y is x with entries written or counted in the innermost container.      *)
WritesIn(x, y) ==
  /\ Extends(x, y)
  /\ y.stack = x.stack /\ y.start = x.start /\ y.indents = x.indents

(* Nothing is written in no step.                                          *)
LEMMA WritesInItself ==
  ASSUME NEW x \in Builders
  PROVE  WritesIn(x, x)
BY ExtendsItself DEF WritesIn

(* Two steps that write in the innermost container.                        *)
LEMMA WritesInOn ==
  ASSUME NEW x, NEW y, NEW z, WritesIn(x, y), WritesIn(y, z)
  PROVE  WritesIn(x, z)
BY ExtendsOn DEF WritesIn

(* Writing a node, and counting it, stay in the innermost container.       *)
LEMMA WriteWritesIn ==
  ASSUME NEW x \in Builders, NEW node \in Nodes
  PROVE  WritesIn(x, Write(x, node)) /\ WritesIn(x, Counted(Write(x, node)))
<1> DEFINE y == Write(x, node)
           tape == Append(x.tape, node)
<1>1. Extends(x, y) /\ Extends(x, Counted(y))
  BY WriteExtends
<1>2. x.tape \in Seq(Nodes) /\ tape \in Seq(Nodes)
  BY BuilderFields
<1>3. y = [x EXCEPT !.tape = tape]
  BY DEF Write
<1> HIDE DEF tape
<1>4. y \in Builders /\ y.stack = x.stack /\ y.start = x.start /\ y.indents = x.indents
  BY <1>2, <1>3 DEF Builders, y
<1>5. /\ Counted(y).stack = x.stack /\ Counted(y).start = x.start
      /\ Counted(y).indents = x.indents
  BY <1>4 DEF Counted, Builders
<1>6. QED
  BY <1>1, <1>4, <1>5 DEF WritesIn

(* Counting an entry writes nothing.                                       *)
LEMMA CountedWritesIn ==
  ASSUME NEW x \in Builders
  PROVE  WritesIn(x, Counted(x))
<1>1. /\ Counted(x).stack = x.stack /\ Counted(x).start = x.start
      /\ Counted(x).indents = x.indents
  BY DEF Counted, Builders
<1>2. QED
  BY <1>1, CountedExtends DEF WritesIn

(* The inserts of keys, values and empty containers stay in the innermost  *)
(* container.                                                              *)
LEMMA PutWritesIn ==
  ASSUME NEW x \in Builders, NEW p \in Nat
  PROVE  /\ WritesIn(x, PutKey(x, p)) /\ WritesIn(x, PutHeaderKey(x, p))
         /\ WritesIn(x, PutValue(x, p))
         /\ \A kind \in Containers : WritesIn(x, PutEmpty(x, kind))
<1>1. /\ Node("Key", p, -1) \in Nodes /\ Node("Value", p, -1) \in Nodes
      /\ \A kind \in Containers : Node(kind, 0, -1) \in Nodes
  BY NodeFacts
<1>2. WritesIn(x, PutKey(x, p))
  BY <1>1, WriteWritesIn DEF PutKey
<1>3. WritesIn(x, PutHeaderKey(x, p))
  BY <1>2, WritesInItself DEF PutHeaderKey
<1>4. WritesIn(x, PutValue(x, p))
  BY <1>1, WriteWritesIn DEF PutValue
<1>5. ASSUME NEW kind \in Containers
      PROVE  WritesIn(x, PutEmpty(x, kind))
  BY <1>1, WriteWritesIn DEF PutEmpty
<1>6. QED
  BY <1>2, <1>3, <1>4, <1>5

(* The scopes of a state: in order, and when clean tagged and accounted    *)
(* for in pend as far as the n-th.                                         *)
ScopesIn(x, n, pend, clean) ==
  /\ ScopesOK(x)
  /\ Ordered(x)
  /\ clean => Tagged(x) /\ ArraysPending(x, n, pend)

(* Writing in the innermost container does not change the scopes.          *)
LEMMA WritesInKeeps ==
  ASSUME NEW x, NEW n, NEW pend, NEW clean, ScopesIn(x, n, pend, clean),
         NEW y, ScopesOK(y), WritesIn(x, y)
  PROVE  /\ ScopesIn(y, n, pend, clean)
         /\ \A kind : Inside(x, kind) => Inside(y, kind)
         /\ Indent(y) = Indent(x)
<1>1. /\ y.stack = x.stack /\ y.start = x.start /\ y.indents = x.indents
      /\ \A k \in 1..Len(x.tape) : y.tape[k] = x.tape[k]
  BY DEF WritesIn, Extends
<1>2. x.start \in 1..Len(x.tape) /\ \A d \in 2..Len(x.stack) : x.stack[d].start \in 1..Len(x.tape)
  BY DEF ScopesIn, ScopesOK
<1>3. Ordered(y)
  BY <1>1 DEF ScopesIn, Ordered
<1>4. Tagged(x) => Tagged(y)
  BY <1>1, <1>2 DEF Tagged
<1>5. ArraysPending(x, n, pend) => ArraysPending(y, n, pend)
  BY <1>1 DEF ArraysPending
<1>6. \A kind : Inside(x, kind) => Inside(y, kind)
  BY <1>1, <1>2 DEF Inside
<1>7. Indent(y) = Indent(x)
  BY <1>1 DEF Indent
<1>8. QED
  BY <1>3, <1>4, <1>5, <1>6, <1>7 DEF ScopesIn

(* An indentation that is not less than the last one keeps the order.      *)
LEMMA IndentsStayOrdered ==
  ASSUME NEW s \in Seq(Nat), Len(s) >= 1,
         \A d, e \in 1..Len(s) : d < e => s[d] <= s[e],
         NEW ws \in Nat, ws >= s[Len(s)]
  PROVE  \A d, e \in 1..Len(Append(s, ws)) : d < e => Append(s, ws)[d] <= Append(s, ws)[e]
<1> DEFINE t == Append(s, ws)
<1>1. /\ Len(s) \in Nat /\ Len(t) = Len(s) + 1 /\ t[Len(s) + 1] = ws
      /\ \A d \in 1..Len(s) : t[d] = s[d] /\ s[d] \in Nat
  BY ElementOfSeq
<1> HIDE DEF t
<1>2. ASSUME NEW d \in 1..Len(t), NEW e \in 1..Len(t), d < e
      PROVE  t[d] <= t[e]
  <2>1. d \in 1..Len(s) /\ t[d] = s[d] /\ s[d] \in Nat
    BY <1>1, <1>2
  <2>2. CASE e = Len(s) + 1
    <3>1. Len(s) \in 1..Len(s) /\ s[Len(s)] \in Nat
      BY <1>1
    <3>2. d = Len(s) \/ d < Len(s)
      BY <1>1, <2>1
    <3>3. d < Len(s) => s[d] <= s[Len(s)]
      BY <2>1, <3>1
    <3>4. s[d] <= s[Len(s)]
      BY <2>1, <3>2, <3>3
    <3>5. QED
      BY <1>1, <2>1, <2>2, <3>1, <3>4
  <2>3. CASE e # Len(s) + 1
    <3>1. e \in 1..Len(s) /\ t[e] = s[e]
      BY <1>1, <1>2, <2>3
    <3>2. QED
      BY <1>2, <2>1, <3>1
  <2>4. QED
    BY <2>2, <2>3
<1>3. QED
  BY <1>2 DEF t

(* The indentation of the innermost scope is the last one.                 *)
LEMMA IndentIsLast ==
  ASSUME NEW x, ScopesOK(x)
  PROVE  /\ x.indents \in Seq(Nat) /\ Len(x.indents) \in Nat /\ Len(x.indents) >= 1
         /\ Indent(x) = x.indents[Len(x.indents)]
<1>1. x.indents \in Seq(Nat) /\ x.stack \in Seq(Frames)
  BY BuilderFields DEF ScopesOK
<1>2. Len(x.indents) \in Nat /\ Len(x.stack) \in Nat
  BY <1>1
<1>3. Len(x.indents) >= 1
  BY <1>2 DEF ScopesOK
<1>4. x.indents # << >>
  BY <1>3
<1>5. QED
  BY <1>1, <1>2, <1>3, <1>4 DEF Indent, Last

(* open_scope! opens a scope inside all others: its container comes last   *)
(* on the tape, its lines are not indented less, and its frame is tagged   *)
(* with the kind of the container it was opened in, when that is so.       *)
LEMMA OpenScopeNests ==
  ASSUME NEW x, NEW n, NEW pend, NEW clean \in BOOLEAN, ScopesIn(x, n, pend, clean),
         n <= Len(x.stack), n \in Int,
         NEW kind \in Containers, NEW tag \in {"Object", "Array"},
         NEW ws \in Nat, ws >= Indent(x), NEW declared \in Nat \cup {-1},
         clean => Inside(x, tag),
         NEW y, y = OpenScope(x, kind, tag, ws, declared)
  PROVE  /\ ScopesIn(y, n, pend, clean)
         /\ Inside(y, kind)
         /\ Len(y.stack) = Len(x.stack) + 1
         /\ y.stack[Len(x.stack) + 1].tag = tag
         /\ \A d \in 1..Len(x.stack) : y.stack[d] = x.stack[d]
<1> DEFINE node == Node(kind, 0, declared)
           frame == [tag |-> tag, start |-> x.start, cnt |-> x.cnt]
<1>1. /\ x.stack \in Seq(Frames) /\ x.indents \in Seq(Nat) /\ x.start \in Nat \ {0}
      /\ x.cnt \in Nat /\ x.tape \in Seq(Nodes)
  BY BuilderFields DEF ScopesIn, ScopesOK
<1>2. /\ Len(x.stack) \in Nat /\ Len(x.stack) >= 1 /\ Len(x.indents) \in Nat
      /\ Len(x.indents) >= 1 /\ Len(x.tape) \in Nat /\ x.start \in 1..Len(x.tape)
  BY <1>1 DEF ScopesIn, ScopesOK
<1>3. node \in Nodes /\ node.kind = kind
  BY NodeFacts
<1>4. frame \in Frames /\ frame.start = x.start /\ frame.tag = tag
  BY <1>1 DEF Frames
<1>5. y = [stack |-> Append(x.stack, frame), indents |-> Append(x.indents, ws),
           start |-> Len(x.tape) + 1, cnt |-> 0, tape |-> Append(x.tape, node)]
  BY DEF OpenScope
<1> HIDE DEF node, frame
<1>6. /\ Len(y.stack) = Len(x.stack) + 1
      /\ y.stack[Len(x.stack) + 1] = frame
      /\ \A d \in 1..Len(x.stack) : y.stack[d] = x.stack[d]
  BY <1>1, <1>4, <1>5
<1>7. /\ y.tape[Len(x.tape) + 1] = node
      /\ \A k \in 1..Len(x.tape) : y.tape[k] = x.tape[k]
      /\ y.start = Len(x.tape) + 1
  BY <1>1, <1>3, <1>5
<1>8. ScopesOK(y)
  BY OpenScopeFacts DEF ScopesIn
<1>9. Inside(y, kind)
  BY <1>3, <1>7 DEF Inside
<1>10. Ordered(y)
  <2>1. ASSUME NEW d \in 2..Len(y.stack)
        PROVE  y.stack[d].start \in 1..Len(x.tape)
    <3>1. CASE d = Len(x.stack) + 1
      BY <1>2, <1>4, <1>6, <3>1
    <3>2. CASE d # Len(x.stack) + 1
      <4>1. d \in 2..Len(x.stack) /\ y.stack[d] = x.stack[d]
        BY <1>2, <1>6, <2>1, <3>2
      <4>2. QED
        BY <4>1 DEF ScopesIn, ScopesOK
    <3>3. QED
      BY <3>1, <3>2
  <2>2. \A d \in 2..Len(y.stack) : y.stack[d].start < y.start
    BY <1>2, <1>7, <2>1
  <2>3. ASSUME NEW d \in 2..Len(y.stack), NEW e \in 2..Len(y.stack), d < e
        PROVE  y.stack[d].start < y.stack[e].start
    <3>1. d \in 2..Len(x.stack) /\ y.stack[d] = x.stack[d]
      <4> DEFINE m == Len(x.stack)
      <4>1. m \in Nat /\ d \in 2..(m + 1) /\ e \in 2..(m + 1) /\ d < e
        BY <1>2, <1>6, <2>3
      <4> HIDE DEF m
      <4>2. d \in 2..m /\ d \in 1..m
        BY ONLY <4>1
      <4>3. QED
        BY <1>6, <4>2 DEF m
    <3>2. CASE e = Len(x.stack) + 1
      <4>1. x.stack[d].start < x.start
        BY <3>1 DEF ScopesIn, Ordered
      <4>2. y.stack[e].start = x.start
        BY <1>4, <1>6, <3>2
      <4>3. QED
        BY <3>1, <4>1, <4>2
    <3>3. CASE e # Len(x.stack) + 1
      <4> DEFINE m == Len(x.stack)
      <4>1. m \in Nat /\ e \in 2..(m + 1) /\ e # m + 1
        BY <1>2, <1>6, <2>3, <3>3
      <4> HIDE DEF m
      <4>2. e \in 2..m /\ e \in 1..m
        BY ONLY <4>1
      <4>3. e \in 2..Len(x.stack) /\ y.stack[e] = x.stack[e]
        BY <1>6, <4>2 DEF m
      <4>4. x.stack[d].start < x.stack[e].start
        BY <2>3, <3>1, <4>3 DEF ScopesIn, Ordered
      <4>5. QED
        BY <3>1, <4>3, <4>4
    <3>4. QED
      BY <3>2, <3>3
  <2>4. \A d, e \in 1..Len(y.indents) : d < e => y.indents[d] <= y.indents[e]
    <3>1. ScopesOK(x) /\ \A d, e \in 1..Len(x.indents) : d < e => x.indents[d] <= x.indents[e]
      BY DEF ScopesIn, Ordered
    <3>2. y.indents = Append(x.indents, ws)
      BY <1>5
    <3>3. QED
      BY <3>1, <3>2, IndentIsLast, IndentsStayOrdered
  <2>5. QED
    BY <2>2, <2>3, <2>4 DEF Ordered
<1>11. ASSUME clean
       PROVE  Tagged(y) /\ ArraysPending(y, n, pend)
  <2>1. ASSUME NEW d \in 2..Len(y.stack)
        PROVE  y.tape[y.stack[d].start].kind = y.stack[d].tag
    <3>1. CASE d = Len(x.stack) + 1
      BY <1>2, <1>4, <1>6, <1>7, <1>11, <3>1 DEF Inside
    <3>2. CASE d # Len(x.stack) + 1
      <4>1. d \in 2..Len(x.stack) /\ y.stack[d] = x.stack[d]
        BY <1>2, <1>6, <2>1, <3>2
      <4>2. x.stack[d].start \in 1..Len(x.tape)
        BY <4>1 DEF ScopesIn, ScopesOK
      <4>3. QED
        BY <1>7, <1>11, <4>1, <4>2 DEF ScopesIn, Tagged
    <3>3. QED
      BY <3>1, <3>2
  <2>2. ArraysPending(y, n, pend)
    <3>1. ASSUME NEW d \in 2..n, y.stack[d].tag = "Array"
          PROVE  IsPending(pend, d - 1)
      <4>1. d \in 1..Len(x.stack)
        BY <1>2
      <4>2. y.stack[d] = x.stack[d]
        BY <1>6, <4>1
      <4>3. QED
        BY <1>11, <3>1, <4>2 DEF ScopesIn, ArraysPending
    <3>2. QED
      BY <3>1 DEF ArraysPending
  <2>3. QED
    BY <2>1, <2>2 DEF Tagged
<1>12. QED
  BY <1>4, <1>6, <1>8, <1>9, <1>10, <1>11 DEF ScopesIn

(* CloseScope returns to the container the frame is tagged with.           *)
LEMMA CloseScopeNests ==
  ASSUME NEW x, NEW n, NEW pend, NEW clean \in BOOLEAN, ScopesIn(x, n, pend, clean),
         Len(x.stack) >= 2, n \in Int, n <= Len(x.stack) - 1,
         NEW y, y = CloseScope(x)
  PROVE  /\ ScopesIn(y, n, pend, clean)
         /\ clean => Inside(y, x.stack[Len(x.stack)].tag)
         /\ Len(y.stack) = Len(x.stack) - 1
         /\ \A d \in 1..Len(y.stack) : y.stack[d] = x.stack[d]
<1> DEFINE m == Len(x.tape) - x.start
           tape == [x.tape EXCEPT ![x.start].len = x.cnt, ![x.start].count = m]
<1>1. /\ x \in Builders /\ x.stack \in Seq(Frames) /\ x.indents \in Seq(Nat)
      /\ x.start \in Nat \ {0} /\ x.cnt \in Nat /\ x.tape \in Seq(Nodes)
  BY BuilderFields DEF ScopesIn, ScopesOK
<1>2. /\ Len(x.stack) \in Nat /\ Len(x.tape) \in Nat /\ Len(x.indents) \in Nat
      /\ Len(x.indents) >= 1 /\ x.start \in 1..Len(x.tape)
  <2>1. ScopesOK(x)
    BY DEF ScopesIn
  <2>2. QED
    BY ONLY <1>1, <2>1 DEF ScopesOK
<1>3. y = [stack |-> Front(x.stack), indents |-> Front(x.indents),
           start |-> Last(x.stack).start, cnt |-> Last(x.stack).cnt, tape |-> tape]
  BY DEF CloseScope, Close, Backfill
<1>4. \A k \in 1..Len(x.tape) : tape[k].kind = x.tape[k].kind
  <2> HIDE DEF m
  <2>1. x.tape[x.start] \in Nodes
    BY <1>1, <1>2
  <2>2. [x.tape[x.start] EXCEPT !.len = x.cnt, !.count = m].kind = x.tape[x.start].kind
    BY <2>1 DEF Nodes
  <2>3. tape = [x.tape EXCEPT ![x.start] = [x.tape[x.start] EXCEPT !.len = x.cnt, !.count = m]]
    BY <1>1, <1>2
  <2> HIDE DEF tape
  <2>4. QED
    BY <1>1, <1>2, <2>2, <2>3
<1> HIDE DEF m, tape
<1>5. /\ Len(y.stack) = Len(x.stack) - 1
      /\ \A d \in 1..(Len(x.stack) - 1) : y.stack[d] = x.stack[d]
      /\ y.start = x.stack[Len(x.stack)].start
  <2>1. Len(x.stack) >= 1
    BY <1>2
  <2>2. /\ Len(Front(x.stack)) = Len(x.stack) - 1
        /\ \A d \in 1..(Len(x.stack) - 1) : Front(x.stack)[d] = x.stack[d]
        /\ Last(x.stack) = x.stack[Len(x.stack)]
    BY <1>1, <2>1, FrontFacts
  <2>3. QED
    BY <1>3, <2>2
<1>6. /\ Len(y.indents) = Len(x.indents) - 1
      /\ \A d \in 1..(Len(x.indents) - 1) : y.indents[d] = x.indents[d]
  <2>1. /\ Len(Front(x.indents)) = Len(x.indents) - 1
        /\ \A d \in 1..(Len(x.indents) - 1) : Front(x.indents)[d] = x.indents[d]
    BY <1>1, <1>2, FrontFacts
  <2>2. QED
    BY <1>3, <2>1
<1>7. y.tape = tape
  BY <1>3
<1>8. ScopesOK(y)
  BY CloseScopeFacts DEF ScopesIn
<1>9. Len(x.stack) \in 2..Len(x.stack) /\ x.stack[Len(x.stack)].start \in 1..Len(x.tape)
  BY <1>2 DEF ScopesIn, ScopesOK
<1>10. \A d \in 2..Len(y.stack) : /\ d \in 2..Len(x.stack) /\ y.stack[d] = x.stack[d]
                                  /\ d < Len(x.stack)
  BY <1>2, <1>5
<1>11. Ordered(y)
  <2>1. \A d, e \in 2..Len(y.stack) : d < e => y.stack[d].start < y.stack[e].start
    BY <1>10 DEF ScopesIn, Ordered
  <2>2. \A d \in 2..Len(y.stack) : y.stack[d].start < y.start
    BY <1>5, <1>9, <1>10 DEF ScopesIn, Ordered
  <2>3. \A d \in 1..Len(y.indents) : d \in 1..Len(x.indents) /\ y.indents[d] = x.indents[d]
    BY <1>2, <1>6
  <2>4. \A d, e \in 1..Len(y.indents) : d < e => y.indents[d] <= y.indents[e]
    BY <2>3 DEF ScopesIn, Ordered
  <2>5. QED
    BY <2>1, <2>2, <2>4 DEF Ordered
<1>12. ASSUME clean
       PROVE  /\ Tagged(y) /\ ArraysPending(y, n, pend)
              /\ Inside(y, x.stack[Len(x.stack)].tag)
  <2>1. \A d \in 2..Len(x.stack) : tape[x.stack[d].start].kind = x.stack[d].tag
    BY <1>4, <1>12 DEF ScopesIn, ScopesOK, Tagged
  <2>2. Tagged(y)
    BY <1>7, <1>10, <2>1 DEF Tagged
  <2>3. Inside(y, x.stack[Len(x.stack)].tag)
    BY <1>5, <1>7, <1>9, <2>1 DEF Inside
  <2>4. ASSUME NEW d \in 2..n, y.stack[d].tag = "Array"
        PROVE  IsPending(pend, d - 1)
    <3>1. d \in 1..(Len(x.stack) - 1)
      BY <1>2
    <3>2. y.stack[d] = x.stack[d]
      BY <1>5, <3>1
    <3>3. QED
      BY <1>12, <2>4, <3>2 DEF ScopesIn, ArraysPending
  <2>5. QED
    BY <2>2, <2>3, <2>4 DEF ArraysPending
<1>13. QED
  BY <1>5, <1>8, <1>11, <1>12 DEF ScopesIn

(* The innermost scope counts too if it is not in an array, or in a block  *)
(* array that is pending.                                                  *)
LEMMA OneMore ==
  ASSUME NEW x, NEW n \in Nat, NEW pend, NEW clean, ScopesIn(x, n, pend, clean),
         clean => (x.stack[n + 1].tag = "Array" => IsPending(pend, n))
  PROVE  ScopesIn(x, n + 1, pend, clean)
<1>1. ASSUME clean, NEW d \in 2..(n + 1), x.stack[d].tag = "Array"
      PROVE  IsPending(pend, d - 1)
  <2>1. CASE d = n + 1
    <3>1. d - 1 = n
      BY <2>1
    <3>2. QED
      BY <1>1, <2>1, <3>1
  <2>2. CASE d # n + 1
    <3>1. d \in 2..n
      BY <1>1, <2>2
    <3>2. QED
      BY <1>1, <3>1 DEF ScopesIn, ArraysPending
  <2>3. QED
    BY <2>1, <2>2
<1>2. QED
  BY <1>1 DEF ScopesIn, ArraysPending

(* A scope that is opened in the innermost container nests in it.          *)
LEMMA OpenHere ==
  ASSUME NEW x, NEW pend, NEW clean \in BOOLEAN, ScopesIn(x, Len(x.stack), pend, clean),
         NEW kind \in Containers, NEW tag \in {"Object", "Array"},
         NEW ws \in Nat, ws >= Indent(x), NEW declared \in Nat \cup {-1},
         clean => Inside(x, tag),
         clean => (tag = "Array" => IsPending(pend, Len(x.stack)))
  PROVE  LET y == OpenScope(x, kind, tag, ws, declared)
         IN  /\ ScopesIn(y, Len(y.stack), pend, clean)
             /\ Inside(y, kind)
<1> DEFINE y == OpenScope(x, kind, tag, ws, declared)
           n == Len(x.stack)
<1>1. n \in Nat /\ n \in Int /\ n <= Len(x.stack)
  <2>1. Len(x.stack) \in Nat
    BY ScopesFacts DEF ScopesIn
  <2>2. QED
    BY <2>1
<1>2. y = OpenScope(x, kind, tag, ws, declared) /\ ScopesIn(x, n, pend, clean)
  OBVIOUS
<1> HIDE DEF n, y
<1>3. /\ ScopesIn(y, n, pend, clean) /\ Inside(y, kind)
      /\ Len(y.stack) = Len(x.stack) + 1 /\ y.stack[Len(x.stack) + 1].tag = tag
  BY <1>1, <1>2, OpenScopeNests
<1>4. clean => (y.stack[n + 1].tag = "Array" => IsPending(pend, n))
  BY <1>3 DEF n
<1>5. ScopesIn(y, n + 1, pend, clean)
  BY <1>1, <1>3, <1>4, OneMore
<1>6. ScopesIn(y, Len(y.stack), pend, clean) /\ Inside(y, kind)
  BY <1>3, <1>5 DEF n
<1>7. QED
  BY <1>6 DEF y

(* What is pending stays so when a count comes on top.                     *)
LEMMA PendingAppends ==
  ASSUME NEW pend \in PendingCounts, NEW c \in [depth : Nat \ {0}, n : Nat]
  PROVE  /\ IsPending(Append(pend, c), c.depth)
         /\ \A d : IsPending(pend, d) => IsPending(Append(pend, c), d)
<1> DEFINE more == Append(pend, c)
<1>1. /\ Len(pend) \in Nat /\ Len(more) = Len(pend) + 1 /\ more[Len(pend) + 1] = c
      /\ \A k \in 1..Len(pend) : more[k] = pend[k]
  BY DEF PendingCounts
<1> HIDE DEF more
<1>2. Len(pend) + 1 \in 1..Len(more) /\ \A k \in 1..Len(pend) : k \in 1..Len(more)
  BY <1>1
<1>3. IsPending(more, c.depth)
  BY <1>1, <1>2 DEF IsPending
<1>4. \A d : IsPending(pend, d) => IsPending(more, d)
  BY <1>1, <1>2 DEF IsPending
<1>5. QED
  BY <1>3, <1>4 DEF more

-----------------------------------------------------------------------------
(* Every step keeps the scopes nested.                                     *)

Clean == "keyless field" \notin lapses

(* The next state, in terms of this state's document. *)
NestNext == pc' \in Final \/ Nests(pc', hdr', cell', b', pending', lapses')

(* What is read off the tokens is the same in the next state.              *)
LEMMA NestNextSuffices ==
  ASSUME toks' = toks, NestNext
  PROVE  NestInv'
<1>1. Level(hdr.lo, cell - 1)' = Level(hdr'.lo, cell' - 1)
  BY SameTokens
<1>2. Base(pc, hdr, cell, b)' = Base(pc', hdr', cell', b')
  BY <1>1 DEF Base
<1>3. AtHome(pc, hdr, cell, b, pending)' <=> AtHome(pc', hdr', cell', b', pending')
  BY <1>2 DEF AtHome, Inside, IsPending
<1>4. CASE pc' \in Final
  BY <1>4 DEF NestInv, Running, Done, Final
<1>5. CASE Nests(pc', hdr', cell', b', pending', lapses')
  BY <1>2, <1>3, <1>5 DEF NestInv, Nests, Ordered, Tagged, ArraysPending, IsPending
<1>6. QED
  BY <1>4, <1>5 DEF NestNext

(* What the invariant says of this state. *)
LEMMA Now ==
  ASSUME IndInv, NestInv, pc \notin Final \cup {"Start"}
  PROVE  /\ ScopesIn(b, Base(pc, hdr, cell, b), pending, Clean)
         /\ Clean => AtHome(pc, hdr, cell, b, pending)
         /\ b \in Builders /\ Clean \in BOOLEAN
<1>1. ScopesOK(b) /\ b \in Builders
  BY Here
<1>2. Nests(pc, hdr, cell, b, pending, lapses)
  BY DEF NestInv, Running, Done, Final
<1>3. QED
  BY <1>1, <1>2 DEF Nests, ScopesIn, Clean

(* Outside of the rows it speaks of all the scopes.                        *)
LEMMA NowOutsideRows ==
  ASSUME IndInv, NestInv, pc \notin Final \cup {"Start", "Cell", "EndRow"}
  PROVE  /\ ScopesIn(b, Len(b.stack), pending, Clean)
         /\ Clean => AtHome(pc, hdr, cell, b, pending)
         /\ ScopesOK(b) /\ b \in Builders /\ Clean \in BOOLEAN
         /\ Len(b.stack) \in Nat /\ Len(b.stack) >= 1
<1>1. /\ ScopesIn(b, Base(pc, hdr, cell, b), pending, Clean)
      /\ Clean => AtHome(pc, hdr, cell, b, pending)
      /\ b \in Builders /\ Clean \in BOOLEAN
  BY Now
<1>2. ScopesOK(b) /\ Len(b.stack) \in Nat /\ Len(b.stack) >= 1
  BY <1>1, ScopesFacts DEF ScopesIn
<1>3. Base(pc, hdr, cell, b) = Len(b.stack)
  BY <1>2, BaseOutsideRows
<1>4. QED
  BY <1>1, <1>2, <1>3

(* Steps to a state outside of the rows. *)
LEMMA Arrives ==
  ASSUME pc' \notin {"Cell", "EndRow"}, NEW clean, ScopesIn(b', Len(b'.stack), pending', clean),
         "keyless field" \notin lapses' => clean,
         clean => AtHome(pc', hdr', cell', b', pending')
  PROVE  NestNext
<1>1. Base(pc', hdr', cell', b') = Len(b'.stack)
  BY BaseOutsideRows DEF ScopesIn
<1>2. QED
  BY <1>1 DEF NestNext, Nests, ScopesIn

(* Steps to the states that do not mind where they are. *)
LEMMA AtRest ==
  ASSUME NEW p \in {"ScopeEnd", "Element"}, NEW h, NEW c, NEW x, NEW pend
  PROVE  AtHome(p, h, c, x, pend)
BY DEF AtHome, HeaderStates, TableStates

(* A line end leads to one of the arms, or to an error.                    *)
LEMMA FollowsArms ==
  ASSUME NEW e, NEW x, NEW arms, Follow(e, x, arms), NEW P, \A a \in DOMAIN arms : arms[a] \in P
  PROVE  pc' = "Failed" \/ (pc' \in P /\ b' = x)
BY DEF Follow, Goto, Fail

(* A line end with one arm.                                                *)
LEMMA FollowsOne ==
  ASSUME NEW e, NEW x, NEW p,
         \/ Follow(e, x, [Nested |-> p]) \/ Follow(e, x, [Sibling |-> p])
         \/ Follow(e, x, [CloseScope |-> p])
  PROVE  pc' = "Failed" \/ (pc' = p /\ b' = x)
<1> DEFINE P == {p}
<1>1. /\ \A a \in DOMAIN [Nested |-> p] : [Nested |-> p][a] \in P
      /\ \A a \in DOMAIN [Sibling |-> p] : [Sibling |-> p][a] \in P
      /\ \A a \in DOMAIN [CloseScope |-> p] : [CloseScope |-> p][a] \in P
  OBVIOUS
<1>2. \A y : y \in P <=> y = p
  OBVIOUS
<1> HIDE DEF P
<1>3. CASE Follow(e, x, [Nested |-> p])
  BY <1>1, <1>2, <1>3, FollowsArms
<1>4. CASE Follow(e, x, [Sibling |-> p])
  BY <1>1, <1>2, <1>4, FollowsArms
<1>5. CASE Follow(e, x, [CloseScope |-> p])
  BY <1>1, <1>2, <1>5, FollowsArms
<1>6. QED
  BY <1>3, <1>4, <1>5

(* A line end with an arm for a sibling and one for a shallower line.      *)
LEMMA FollowsTwo ==
  ASSUME NEW e, NEW x, NEW p, NEW q, Follow(e, x, [Sibling |-> p, CloseScope |-> q])
  PROVE  pc' = "Failed" \/ (pc' \in {p, q} /\ b' = x)
<1> DEFINE arms == [Sibling |-> p, CloseScope |-> q]
           P == {p, q}
<1>1. \A a \in DOMAIN arms : arms[a] \in P
  OBVIOUS
<1>2. Follow(e, x, arms)
  OBVIOUS
<1> HIDE DEF arms, P
<1>3. pc' = "Failed" \/ (pc' \in P /\ b' = x)
  BY <1>1, <1>2, FollowsArms
<1>4. QED
  BY <1>3 DEF P

ContainerTypes == {"SimpleArray", "EmptyArray", "KeyedTabularObjects", "TabularArray",
                   "NestedFieldGroupsArray"}

(* Where a header belongs: a field in an object, an array without a key in *)
(* a block array, or in the root that is written for it.                   *)
Belongs(h, x, first) ==
  /\ h.type = "ObjectStart" => Inside(x, "Object")
  /\ h.type \in ContainerTypes =>
       IF first /\ h.key = 0
       THEN Inside(x, IF h.type = "KeyedTabularObjects" THEN "Object" ELSE "Array")
       ELSE Inside(x, FrameTag(h.key)) /\ (h.key = 0 => IsPending(pending, Len(x.stack)))

(* Handing a header over to its State keeps the scopes nested.             *)
LEMMA DispatchNests ==
  ASSUME NEW h, HeaderOK(h), NEW x, NEW clean \in BOOLEAN, NEW first \in BOOLEAN,
         Dispatch(h, x, first), UNCHANGED pending,
         ScopesIn(x, Len(x.stack), pending, clean),
         pc' # "Failed" /\ "keyless field" \notin lapses' => clean,
         clean => Belongs(h, x, first)
  PROVE  NestNext
<1>1. h \in Headers /\ h.key \in Nat
  BY DEF HeaderOK, Headers
<1>2. hdr'.root = (first /\ h.key = 0) /\ hdr'.key = h.key
  BY <1>1 DEF Dispatch, Headers
<1>3. ScopesOK(x) /\ x \in Builders
  BY ScopesFacts DEF ScopesIn
<1>4. CASE pc' = "ParseSimpleObjectValue" /\ b' = PutKey(x, h.key) /\ h.type = "ObjectStart"
  <2>1. ScopesOK(b') /\ b'.stack = x.stack /\ WritesIn(x, b')
    BY <1>1, <1>3, <1>4, PutFacts, PutWritesIn
  <2>2. ScopesIn(b', Len(b'.stack), pending', clean) /\ (clean => Inside(b', "Object"))
    BY <1>4, <2>1, WritesInKeeps DEF Belongs
  <2>3. clean => AtHome(pc', hdr', cell', b', pending')
    BY <1>4, <2>2 DEF AtHome, HeaderStates, TableStates
  <2>4. QED
    BY <1>4, <2>2, <2>3, Arrives
<1>5. CASE /\ b' = x /\ h.type \in ContainerTypes /\ pc' \in HeaderStates
           /\ TableKind(pc') = IF h.type = "KeyedTabularObjects" THEN "Object" ELSE "Array"
  <2>1. clean => AtHome(pc', hdr', cell', b', pending')
    BY <1>2, <1>5 DEF AtHome, HeaderStates, TableStates, Belongs
  <2>2. pc' \notin {"Cell", "EndRow", "Failed"}
    BY <1>5 DEF HeaderStates, TableStates
  <2>3. QED
    BY <1>5, <2>1, <2>2, Arrives
<1>6. CASE pc' = "Failed"
  BY <1>6 DEF NestNext, Final
<1>7. QED
  <2>1. CASE h.type = "ObjectStart"
    BY <1>4, <1>6, <2>1 DEF Dispatch, Goto, Fail
  <2>2. CASE h.type = "SimpleArray"
    BY <1>5, <1>6, <2>2 DEF Dispatch, Goto, Fail, HeaderStates, TableStates, TableKind,
                              ContainerTypes
  <2>3. CASE h.type \in ContainerTypes \ {"SimpleArray"}
    <3>1. /\ Arm(h.type, first) \in HeaderStates
          /\ TableKind(Arm(h.type, first)) =
               IF h.type = "KeyedTabularObjects" THEN "Object" ELSE "Array"
      BY <2>3 DEF Arm, ContainerTypes, HeaderStates, TableStates, TableKind
    <3>2. pc' = Arm(h.type, first) /\ b' = x
      BY <2>3 DEF Dispatch, Goto, ContainerTypes
    <3>3. QED
      BY <1>5, <2>3, <3>1, <3>2
  <2>4. CASE h.type \notin ContainerTypes \cup {"ObjectStart"}
    BY <1>6, <2>4 DEF Dispatch, Fail, ContainerTypes
  <2>5. QED
    BY <2>1, <2>2, <2>3, <2>4

(* The prologue writes the root that the first header belongs in.          *)
LEMMA StartNests ==
  ASSUME IndInv, Start
  PROVE  NestNext
<1> DEFINE first == IF Tok(1) = "#" THEN 2 ELSE 1
           lines == {j \in first..N : Tok(j) # "NL"}
           p == Min(lines)
           h == ReadHeader(p)
           array == h.key = 0 /\ h.type \in {"SimpleArray", "EmptyArray", "TabularArray",
                                             "NestedFieldGroupsArray"}
           kind == IF array THEN "Array" ELSE "Object"
           node == Node(kind, 0, IF h.key = 0 THEN h.n ELSE -1)
           root == [stack   |-> <<[tag |-> "Start", start |-> 1, cnt |-> 0]>>,
                    indents |-> <<0>>, start |-> 1, cnt |-> 0,
                    tape    |-> <<node>>]
<1>1. CASE pc' \in Final
  BY <1>1 DEF NestNext
<1>2. CASE pc' \notin Final
  <2>1. lines # {} /\ Dispatch(h, root, TRUE) /\ UNCHANGED pending
    BY <1>2 DEF Start, Fail, Goto, Final
  <2>2. toks \in Document /\ N \in Nat
    BY Here
  <2>3. p \in 1..N
    BY <2>1, <2>2, MinOfNaturals
  <2>4. HeaderOK(h)
    BY <2>2, <2>3, ReadHeaderFacts
  <2>5. h.key \in Nat /\ h.n \in Nat
    BY <2>4 DEF HeaderOK, Headers
  <2>6. kind \in Containers
    BY DEF Containers
  <2>7. node \in Nodes /\ node.kind = kind
    BY <2>5, <2>6, NodeFacts
  <2>8. kind = "Object" \/ array
    OBVIOUS
  <2>9. array => kind = "Array"
    OBVIOUS
  <2> HIDE DEF node, kind
  <2>10. root \in Builders
    <3>1. [tag |-> "Start", start |-> 1, cnt |-> 0] \in Frames
      BY DEF Frames
    <3>2. QED
      BY <2>7, <3>1 DEF Builders
  <2>11. ScopesOK(root) /\ Len(root.stack) = 1 /\ Len(root.indents) = 1 /\ Inside(root, kind)
    BY <2>6, <2>7, <2>10 DEF ScopesOK, Inside
  <2> HIDE DEF root, h
  <2>12. Ordered(root) /\ Tagged(root) /\ ArraysPending(root, Len(root.stack), pending)
    BY <2>11 DEF Ordered, Tagged, ArraysPending
  <2>13. ScopesIn(root, Len(root.stack), pending, TRUE)
    BY <2>11, <2>12 DEF ScopesIn
  <2>14. Belongs(h, root, TRUE)
    <3>1. h.type \in ContainerTypes /\ h.key = 0 /\ h.type # "KeyedTabularObjects" => kind = "Array"
      BY <2>9 DEF ContainerTypes
    <3>2. ~ (h.type \in ContainerTypes /\ h.key = 0 /\ h.type # "KeyedTabularObjects")
            => kind = "Object"
      BY <2>8 DEF ContainerTypes
    <3>3. h.key # 0 => FrameTag(h.key) = "Object"
      BY DEF FrameTag
    <3>4. h.type = "ObjectStart" => h.type \notin ContainerTypes
      BY DEF ContainerTypes
    <3> HIDE DEF array
    <3>5. QED
      BY <2>11, <3>1, <3>2, <3>3, <3>4 DEF Belongs
  <2>15. QED
    BY <2>1, <2>4, <2>13, <2>14, DispatchNests
<1>3. QED
  BY <1>1, <1>2

(* A field belongs in the object that is read, unless it has no key.       *)
LEMMA ParseHeaderNests ==
  ASSUME IndInv, NestInv, ParseHeader
  PROVE  NestNext
<1> DEFINE h == ReadHeader(i)
           clean == Clean /\ h.key # 0
<1>1. /\ pc = "ParseHeader" /\ Dispatch(h, b, FALSE) /\ UNCHANGED pending
      /\ lapses' = IF h.key = 0 /\ pc' # "Failed" THEN lapses \cup {"keyless field"} ELSE lapses
  BY DEF ParseHeader
<1>2. HeaderOK(h)
  BY Here, ReadHeaderFacts
<1>3. ScopesIn(b, Len(b.stack), pending, Clean) /\ (Clean => Inside(b, "Object"))
  BY <1>1, NowOutsideRows DEF Final, AtHome
<1> HIDE DEF h
<1>4. pc' # "Failed" /\ "keyless field" \notin lapses' => clean
  BY <1>1 DEF Clean
<1>5. ScopesIn(b, Len(b.stack), pending, clean)
  BY <1>3 DEF ScopesIn
<1>6. clean => Belongs(h, b, FALSE)
  BY <1>3 DEF Belongs, FrameTag
<1>7. clean \in BOOLEAN
  BY DEF Clean
<1> HIDE DEF clean
<1>8. QED
  BY <1>1, <1>2, <1>4, <1>5, <1>6, <1>7, DispatchNests

(* The value of a field may be an object on the lines below.               *)
LEMMA ParseSimpleObjectValueNests ==
  ASSUME IndInv, NestInv, ParseSimpleObjectValue
  PROVE  NestNext
<1> DEFINE open == OpenScope(b, "Object", "Object", Indent(b) + IndentSize, -1)
           written == {b, PutValue(b, i), PutEmpty(b, "Array"), PutEmpty(b, "Object")}
<1>1. pc = "ParseSimpleObjectValue" /\ UNCHANGED pending
  BY DEF ParseSimpleObjectValue
<1>2. /\ ScopesIn(b, Len(b.stack), pending, Clean)
      /\ ScopesOK(b) /\ b \in Builders /\ Clean \in BOOLEAN
      /\ Clean => Inside(b, "Object")
      /\ Len(b.stack) \in Nat
  BY <1>1, NowOutsideRows DEF Final, AtHome
<1>3. "keyless field" \notin lapses' => Clean
  BY DEF ParseSimpleObjectValue, Clean
<1>4. i \in Nat /\ N \in Nat /\ i <= N
  <2>1. N \in Nat /\ i \in 1..N
    BY Here
  <2>2. QED
    BY <2>1
<1>5. ASSUME NEW x \in written, b' = x, pc' \in {"ParseHeader", "ScopeEnd"}
      PROVE  NestNext
  <2>1. ScopesOK(x) /\ x.stack = b.stack /\ WritesIn(b, x)
    BY <1>2, <1>4, PutFacts, PutWritesIn, WritesInItself DEF Containers
  <2>2. ScopesIn(x, Len(x.stack), pending, Clean) /\ (Clean => Inside(x, "Object"))
    BY <1>2, <2>1, WritesInKeeps
  <2>3. Clean => AtHome(pc', hdr', cell', b', pending')
    BY <1>5, <2>2 DEF AtHome, HeaderStates, TableStates
  <2>4. QED
    BY <1>1, <1>3, <1>5, <2>2, <2>3, Arrives
<1>6. ASSUME b' = open, pc' = "ParseHeader"
      PROVE  NestNext
  <2>1. Indent(b) \in Nat /\ Indent(b) + IndentSize \in Nat /\ Indent(b) + IndentSize >= Indent(b)
    BY <1>2, ScopesFacts, ConstantsAssumption
  <2>2. /\ ScopesIn(open, Len(b.stack), pending, Clean)
        /\ Inside(open, "Object")
        /\ Len(open.stack) = Len(b.stack) + 1
        /\ open.stack[Len(b.stack) + 1].tag = "Object"
    BY <1>2, <2>1, OpenScopeNests DEF Containers
  <2> HIDE DEF open
  <2>3. ScopesIn(open, Len(open.stack), pending, Clean)
    BY <1>2, <2>2, OneMore
  <2>4. Clean => AtHome(pc', hdr', cell', b', pending')
    BY <1>6, <2>2 DEF AtHome, HeaderStates, TableStates
  <2>5. QED
    BY <1>1, <1>3, <1>6, <2>3, <2>4, Arrives
<1>7. CASE pc' = "Failed"
  BY <1>7 DEF NestNext, Final
<1>8. QED
  <2> DEFINE e == EolState(i, b, pending, FALSE)
  <2>1. e.is \in {"Sibling", "Nested", "CloseScope", "Fail"}
    BY EolAnswers
  <2>2. CASE Tok(i) = "NL" /\ i < N
    <3> HIDE DEF e
    <3> HIDE DEF open
    <3>1. CASE i = N
      <4>1. ~ (i < N)
        BY <1>4, <3>1
      <4>2. Goto("ScopeEnd", PutEmpty(b, "Object"), i)
        BY <2>2, <3>1, <4>1 DEF ParseSimpleObjectValue
      <4>3. pc' = "ScopeEnd" /\ b' = PutEmpty(b, "Object")
        BY <4>2 DEF Goto
      <4>4. QED
        BY <1>5, <4>3
    <3>2. CASE i # N /\ e.is = "Nested"
      <4>1. Follow(e, open, [Nested |-> "ParseHeader"])
        BY <2>2, <3>2 DEF ParseSimpleObjectValue, e, open
      <4>2. QED
        BY <1>6, <1>7, <4>1, FollowsOne
    <3>3. CASE i # N /\ e.is = "Sibling"
      <4>1. Follow(e, PutEmpty(b, "Object"), [Sibling |-> "ParseHeader"])
        BY <2>2, <3>3 DEF ParseSimpleObjectValue, e
      <4>2. QED
        BY <1>5, <1>7, <4>1, FollowsOne
    <3>4. CASE i # N /\ e.is = "CloseScope"
      <4>1. Follow(e, b, [CloseScope |-> "ScopeEnd"])
        BY <2>2, <3>4 DEF ParseSimpleObjectValue, e
      <4>2. QED
        BY <1>5, <1>7, <4>1, FollowsOne
    <3>5. CASE i # N /\ e.is = "Fail"
      <4>1. pc' = "Failed"
        BY <2>2, <3>5 DEF ParseSimpleObjectValue, Fail, e
      <4>2. QED
        BY <1>7, <4>1
    <3>6. QED
      BY <2>1, <3>1, <3>2, <3>3, <3>4, <3>5
  <2>3. CASE ~ (Tok(i) = "NL" /\ i < N)
    <3> DEFINE end == ValueEnd(i, {})
               x == IF IsEmptyList(i, end) THEN PutEmpty(b, "Array") ELSE PutValue(b, i)
               f == EolState(end, x, pending, FALSE)
               arms == [Sibling |-> "ParseHeader", CloseScope |-> "ScopeEnd"]
    <3>1. Tok(i) # "NL" \/ (Tok(i) = "NL" /\ i = N)
      BY <1>4, <2>3
    <3>2. CASE Tok(i) = "NL" /\ i = N
      <4>1. ~ (i < N)
        BY <1>4, <3>2
      <4>2. Goto("ScopeEnd", PutEmpty(b, "Object"), i)
        BY <3>2, <4>1 DEF ParseSimpleObjectValue
      <4>3. pc' = "ScopeEnd" /\ b' = PutEmpty(b, "Object")
        BY <4>2 DEF Goto
      <4>4. QED
        BY <1>5, <4>3
    <3>3. CASE Tok(i) # "NL"
      <4>1. Follow(f, x, arms) \/ Fail
        BY <3>3 DEF ParseSimpleObjectValue
      <4>2. x \in written
        OBVIOUS
      <4> HIDE DEF x, f, end
      <4>3. pc' = "Failed" \/ (pc' \in {"ParseHeader", "ScopeEnd"} /\ b' = x)
        BY <4>1, FollowsTwo DEF Fail
      <4>4. QED
        BY <1>5, <1>7, <4>2, <4>3
    <3>4. QED
      BY <3>1, <3>2, <3>3
  <2>4. QED
    BY <2>2, <2>3

(* The container of the header at hand is opened where it belongs.         *)
LEMMA EnterNests ==
  ASSUME IndInv, NestInv, pc \in HeaderStates, NEW kind \in Containers,
         NEW y, y = PutHeaderKey(b, hdr.key),
         NEW ws, ws \in {Indent(y), Indent(y) + IndentSize},
         NEW x, x = Enter(y, kind, ws), kind = TableKind(pc)
  PROVE  /\ ScopesIn(x, Len(x.stack), pending, Clean)
         /\ Clean => Inside(x, kind)
<1>1. pc \notin Final \cup {"Start", "Cell", "EndRow"}
  BY DEF HeaderStates, TableStates, Final
<1>2. /\ ScopesIn(b, Len(b.stack), pending, Clean)
      /\ Clean => AtHome(pc, hdr, cell, b, pending)
      /\ ScopesOK(b) /\ b \in Builders /\ Clean \in BOOLEAN
      /\ Len(b.stack) \in Nat
  BY <1>1, NowOutsideRows
<1>3. hdr \in Headers /\ hdr.key \in Nat /\ hdr.n \in Nat /\ hdr.root \in BOOLEAN
  BY Here
<1>4. ScopesOK(y) /\ y.stack = b.stack /\ WritesIn(b, y)
  BY <1>2, <1>3, PutFacts, PutWritesIn
<1>5. /\ ScopesIn(y, Len(b.stack), pending, Clean)
      /\ \A k : Inside(b, k) => Inside(y, k)
  BY <1>2, <1>4, WritesInKeeps
<1>6. ws \in Nat /\ ws >= Indent(y)
  <2>1. Indent(y) \in Nat /\ Indent(y) + IndentSize \in Nat /\ Indent(y) + IndentSize >= Indent(y)
    BY <1>4, ScopesFacts, ConstantsAssumption
  <2>2. QED
    BY <2>1
<1>7. CASE hdr.root
  <2> DEFINE indents == Append(y.indents, ws)
  <2>1. x = [y EXCEPT !.indents = indents]
    BY <1>7 DEF Enter
  <2>2. \A d, e \in 1..Len(indents) : d < e => indents[d] <= indents[e]
    <3>1. \A d, e \in 1..Len(y.indents) : d < e => y.indents[d] <= y.indents[e]
      BY <1>5 DEF ScopesIn, Ordered
    <3>2. QED
      BY <1>4, <1>6, <3>1, IndentIsLast, IndentsStayOrdered
  <2> HIDE DEF indents
  <2>3. x.stack = y.stack /\ x.start = y.start /\ x.tape = y.tape /\ x.indents = indents
    BY <1>4, <2>1 DEF ScopesOK, Builders
  <2>4. ScopesOK(x)
    BY <1>3, <1>4, <1>6, EnterFacts
  <2>5. Ordered(x)
    BY <1>5, <2>2, <2>3 DEF ScopesIn, Ordered
  <2>6. Clean => Tagged(x) /\ ArraysPending(x, Len(x.stack), pending)
    BY <1>4, <1>5, <2>3 DEF ScopesIn, Tagged, ArraysPending
  <2>7. Clean => Inside(x, kind)
    <3>1. Clean => Inside(b, kind)
      BY <1>2, <1>7 DEF AtHome
    <3>2. QED
      BY <1>5, <2>3, <3>1 DEF Inside
  <2>8. QED
    BY <2>4, <2>5, <2>6, <2>7 DEF ScopesIn
<1>8. CASE ~ hdr.root
  <2> DEFINE tag == FrameTag(hdr.key)
  <2>1. x = OpenScope(y, kind, tag, ws, hdr.n)
    BY <1>8 DEF Enter
  <2>2. tag \in {"Object", "Array"} /\ hdr.n \in Nat \cup {-1}
    BY <1>3 DEF FrameTag
  <2>3. Clean => Inside(y, tag) /\ (tag = "Array" => IsPending(pending, Len(b.stack)))
    BY <1>2, <1>5, <1>8 DEF AtHome, FrameTag
  <2> HIDE DEF tag
  <2>4. ScopesIn(y, Len(y.stack), pending, Clean)
    BY <1>4, <1>5
  <2>5. (Clean => Inside(y, tag)) /\ (Clean => (tag = "Array" => IsPending(pending, Len(y.stack))))
    BY <1>4, <2>3
  <2>6. Clean \in BOOLEAN
    BY <1>2
  <2>7. kind \in Containers
    OBVIOUS
  <2>8. QED
    BY ONLY <1>6, <2>1, <2>2, <2>4, <2>5, <2>6, <2>7, OpenHere
<1>9. QED
  BY <1>3, <1>7, <1>8

(* An empty array is opened where its header belongs.                      *)
LEMMA ParseEmptyArrayNests ==
  ASSUME IndInv, NestInv, ParseEmptyArray
  PROVE  NestNext
<1> DEFINE y == PutHeaderKey(b, hdr.key)
           x == Enter(y, "Array", Indent(y) + IndentSize)
<1>1. pc = "ParseEmptyArray" /\ UNCHANGED <<pending, lapses>>
  BY DEF ParseEmptyArray
<1>2. ScopesIn(x, Len(x.stack), pending, Clean)
  BY <1>1, EnterNests DEF HeaderStates, TableStates, TableKind, Containers
<1> DEFINE e == EolState(i + 1, x, pending, FALSE)
           arms == [Sibling |-> "ScopeEnd", CloseScope |-> "ScopeEnd"]
<1>3. Follow(e, x, arms) \/ Fail
  BY DEF ParseEmptyArray
<1> HIDE DEF e, x
<1>4. pc' = "Failed" \/ (pc' \in {"ScopeEnd"} /\ b' = x)
  BY <1>3, FollowsTwo DEF Fail
<1>5. QED
  BY <1>1, <1>2, <1>4, AtRest, Arrives DEF NestNext, Final, Clean

(* An inline array is opened where its header belongs.                     *)
LEMMA ParseInlineArrayNests ==
  ASSUME IndInv, NestInv, ParseInlineArray
  PROVE  NestNext
<1> DEFINE y == PutHeaderKey(b, hdr.key)
           ws == IF hdr.root THEN Indent(y) + IndentSize ELSE Indent(y)
           x == Enter(y, "Array", ws)
<1>1. pc = "ParseInlineArray" /\ UNCHANGED <<pending, lapses>>
  BY DEF ParseInlineArray
<1>2. ws \in {Indent(y), Indent(y) + IndentSize}
  OBVIOUS
<1>3. pc' = "Failed" \/ (pc' = "Element" /\ b' = x)
  BY DEF ParseInlineArray, Goto, Fail
<1> HIDE DEF ws
<1>4. ScopesIn(x, Len(x.stack), pending, Clean)
  BY <1>1, <1>2, EnterNests DEF HeaderStates, TableStates, TableKind, Containers
<1> HIDE DEF x
<1>5. QED
  BY <1>1, <1>3, <1>4, AtRest, Arrives DEF NestNext, Final, Clean

(* Elements are written in their array.                                    *)
LEMMA ElementNests ==
  ASSUME IndInv, NestInv, Element
  PROVE  NestNext
<1> DEFINE y == Counted(b)
           x == PutValue(y, i)
<1>1. pc = "Element" /\ UNCHANGED <<pending, lapses>>
  BY DEF Element, ElementEnds
<1>2. ScopesIn(b, Len(b.stack), pending, Clean) /\ ScopesOK(b) /\ b \in Builders
  BY <1>1, NowOutsideRows DEF Final
<1>3. i \in Nat
  <2>1. N \in Nat /\ i \in 1..N
    BY Here
  <2>2. QED
    BY <2>1
<1>4. pc' = "Failed" \/ (pc' \in {"Element", "ScopeEnd"} /\ b' = x)
  <2> DEFINE delims == IF left > 1 THEN {hdr.delim} ELSE {"NL"}
             end == ValueEnd(i, delims)
             e == EolState(end, x, pending, TRUE)
             arms == [Sibling |-> "ScopeEnd", CloseScope |-> "ScopeEnd"]
  <2>1. Follow(e, x, arms) \/ Goto("Element", x, end + 1) \/ Fail
    BY DEF Element, ElementEnds
  <2> HIDE DEF e, x, end
  <2>2. Follow(e, x, arms) => pc' = "Failed" \/ (pc' = "ScopeEnd" /\ b' = x)
    BY FollowsTwo
  <2>3. QED
    BY <2>1, <2>2 DEF Goto, Fail
<1>5. ScopesOK(y) /\ y.stack = b.stack /\ y \in Builders /\ WritesIn(b, y)
  BY <1>2, CountedFacts, CountedWritesIn, ScopesFacts
<1>6. ScopesOK(x) /\ x.stack = b.stack /\ WritesIn(y, x)
  BY <1>3, <1>5, PutFacts, PutWritesIn
<1> HIDE DEF x, y
<1>7. ScopesIn(x, Len(x.stack), pending, Clean)
  BY <1>2, <1>5, <1>6, WritesInOn, WritesInKeeps
<1>8. QED
  BY <1>1, <1>4, <1>7, AtRest, Arrives DEF NestNext, Final, Clean

(* The items of a block array find it pending. *)
LEMMA ParseBlockArrayNests ==
  ASSUME IndInv, NestInv, ParseBlockArray
  PROVE  NestNext
<1> DEFINE y == PutHeaderKey(b, hdr.key)
           x == Enter(y, "Array", Indent(y) + IndentSize)
           c == PendingCount(x)
           more == Append(pending, c)
<1>1. pc = "ParseBlockArray" /\ UNCHANGED lapses
  BY DEF ParseBlockArray
<1>2. ScopesIn(x, Len(x.stack), pending, Clean) /\ (Clean => Inside(x, "Array"))
  BY <1>1, EnterNests DEF HeaderStates, TableStates, TableKind, Containers
<1>3. pc' = "Failed" \/ (pc' = "ExpectBlockArrayItem" /\ b' = x /\ pending' = more)
  <2> DEFINE e == EolState(i, y, pending, FALSE)
             arms == [Nested |-> "ExpectBlockArrayItem"]
  <2>1. (Follow(e, x, arms) /\ pending' = more) \/ Fail
    BY DEF ParseBlockArray
  <2> HIDE DEF e, x, more
  <2>2. Follow(e, x, arms) => pc' = "Failed" \/ (pc' = "ExpectBlockArrayItem" /\ b' = x)
    BY FollowsOne
  <2>3. QED
    BY <2>1, <2>2 DEF Fail
<1> HIDE DEF x
<1>4. Len(x.stack) \in Nat /\ Len(x.stack) >= 1
  BY <1>2, ScopesFacts DEF ScopesIn
<1>5. c \in [depth : Nat \ {0}, n : Nat] /\ c.depth = Len(x.stack)
  <2>1. c = [depth |-> Len(x.stack), n |-> hdr.n]
    BY DEF PendingCount
  <2>2. hdr.n \in Nat
    BY Here
  <2>3. QED
    BY <1>4, <2>1, <2>2
<1>6. IsPending(more, Len(x.stack)) /\ \A d : IsPending(pending, d) => IsPending(more, d)
  BY <1>5, Here, PendingAppends
<1> HIDE DEF more
<1>7. ScopesIn(x, Len(x.stack), more, Clean)
  <2>1. ArraysPending(x, Len(x.stack), pending) => ArraysPending(x, Len(x.stack), more)
    BY <1>6 DEF ArraysPending
  <2>2. QED
    BY ONLY <1>2, <2>1 DEF ScopesIn
<1>8. CASE pc' = "ExpectBlockArrayItem" /\ b' = x /\ pending' = more
  <2>1. Clean => AtHome(pc', hdr', cell', b', pending')
    BY <1>2, <1>6, <1>8 DEF AtHome, HeaderStates, TableStates
  <2>2. QED
    BY <1>1, <1>7, <1>8, <2>1, Arrives DEF Clean
<1>9. QED
  BY <1>3, <1>8 DEF NestNext, Final

(* An item of a block array is counted in it; what it opens nests in it.   *)
LEMMA ExpectBlockArrayItemNests ==
  ASSUME IndInv, NestInv, ExpectBlockArrayItem
  PROVE  NestNext
<1> DEFINE h       == ReadHeader(i + 1)
           x       == Counted(b)
           simple  == h.type \in {"PrimitiveValue", "EmptyObject"}
           y       == IF h.type = "EmptyObject" THEN PutEmpty(x, "Object")
                                                ELSE PutValue(x, h.key)
           ws      == Indent(x) + BehindHyphen(h)
           z       == IF h.key = 0 THEN x ELSE OpenScope(x, "Object", "Array", ws, -1)
           e       == EolState(h.end, y, pending, FALSE)
           arms    == [Sibling |-> "ExpectBlockArrayItem", CloseScope |-> "ScopeEnd"]
<1>1. pc = "ExpectBlockArrayItem" /\ UNCHANGED <<pending, lapses>>
  BY DEF ExpectBlockArrayItem
<1>2. /\ ScopesIn(b, Len(b.stack), pending, Clean)
      /\ Clean => Inside(b, "Array") /\ IsPending(pending, Len(b.stack))
      /\ ScopesOK(b) /\ b \in Builders /\ Clean \in BOOLEAN
  BY <1>1, NowOutsideRows DEF Final, AtHome
<1>3. toks \in Document /\ N \in Nat /\ i \in 1..N
  BY Here
<1>4. ScopesOK(x) /\ x.stack = b.stack /\ x \in Builders /\ WritesIn(b, x)
  BY <1>2, CountedFacts, CountedWritesIn, ScopesFacts
<1> HIDE DEF x, h
<1>5. /\ ScopesIn(x, Len(x.stack), pending, Clean)
      /\ Clean => Inside(x, "Array")
      /\ Clean => IsPending(pending, Len(x.stack))
  BY <1>2, <1>4, WritesInKeeps
<1>6. "keyless field" \notin lapses' => Clean
  BY <1>1 DEF Clean
<1>7. ASSUME Tok(i) = "-"
      PROVE  HeaderOK(h)
  <2>1. i < N
    BY <1>3, <1>7, DocumentFacts
  <2>2. i + 1 \in 1..N
    BY <1>3, <2>1, Behind, Zenon
  <2>3. QED
    BY <1>3, <2>2, ReadHeaderFacts DEF h
<1>8. CASE Tok(i) = "-" /\ ~ simple /\ Dispatch(h, z, FALSE)
  <2>1. HeaderOK(h)
    BY <1>7, <1>8
  <2>2. ScopesIn(z, Len(z.stack), pending, Clean) /\ (h.key # 0 => Inside(z, "Object"))
    <3>1. CASE h.key = 0
      BY <1>5, <3>1
    <3>2. CASE h.key # 0
      <4>1. Indent(x) \in Nat /\ IndentSize \in Nat
        BY <1>4, ScopesFacts, ConstantsAssumption
      <4>2. ws \in Nat /\ ws >= Indent(x)
        BY <4>1 DEF BehindHyphen
      <4> HIDE DEF ws
      <4>3. "Object" \in Containers /\ -1 \in Nat \cup {-1} /\ Clean \in BOOLEAN
        BY <1>2 DEF Containers
      <4>4. /\ ScopesIn(OpenScope(x, "Object", "Array", ws, -1),
                        Len(OpenScope(x, "Object", "Array", ws, -1).stack), pending, Clean)
            /\ Inside(OpenScope(x, "Object", "Array", ws, -1), "Object")
        BY <1>5, <4>2, <4>3, OpenHere
      <4>5. z = OpenScope(x, "Object", "Array", ws, -1)
        BY <3>2
      <4>6. QED
        BY <4>4, <4>5
    <3>3. QED
      BY <3>1, <3>2
  <2>3. h.type = "ObjectStart" => h.key # 0
    BY <2>1 DEF HeaderOK
  <2>4. h.key = 0 => z = x
    OBVIOUS
  <2> HIDE DEF z
  <2>5. Clean => Belongs(h, z, FALSE)
    BY <1>5, <2>2, <2>3, <2>4 DEF Belongs, FrameTag
  <2>6. Clean \in BOOLEAN /\ FALSE \in BOOLEAN
    BY <1>2
  <2>7. pc' # "Failed" /\ "keyless field" \notin lapses' => Clean
    BY <1>6
  <2>8. UNCHANGED pending /\ Dispatch(h, z, FALSE)
    BY <1>1, <1>8
  <2>9. QED
    BY <2>1, <2>2, <2>5, <2>6, <2>7, <2>8, DispatchNests
<1>9. CASE Tok(i) = "-" /\ simple /\ Follow(e, y, arms) /\ UNCHANGED hdr
  <2>1. h.key \in Nat
    BY <1>7, <1>9 DEF HeaderOK, Headers
  <2>2. ScopesOK(y) /\ y.stack = x.stack /\ WritesIn(x, y)
    BY <1>4, <2>1, PutFacts, PutWritesIn DEF Containers
  <2> HIDE DEF e, y
  <2>3. /\ ScopesIn(y, Len(y.stack), pending, Clean)
        /\ Clean => Inside(y, "Array") /\ IsPending(pending, Len(y.stack))
    BY <1>5, <2>2, WritesInKeeps
  <2>4. pc' = "Failed" \/ (pc' \in {"ExpectBlockArrayItem", "ScopeEnd"} /\ b' = y)
    BY <1>9, FollowsTwo
  <2>5. CASE pc' \in {"ExpectBlockArrayItem", "ScopeEnd"} /\ b' = y
    <3>1. Clean => AtHome(pc', hdr', cell', b', pending')
      BY <1>1, <2>3, <2>5 DEF AtHome, HeaderStates, TableStates
    <3>2. QED
      BY <1>1, <1>6, <2>3, <2>5, <3>1, Arrives
  <2>6. QED
    BY <2>4, <2>5 DEF NestNext, Final
<1>10. CASE pc' \in Final
  BY <1>10 DEF NestNext
<1>11. QED
  <2>1. \/ Fail \/ Underflow
        \/ Tok(i) = "-" /\ ~ simple /\ Dispatch(h, z, FALSE)
        \/ Tok(i) = "-" /\ simple /\ Follow(e, y, arms) /\ UNCHANGED hdr
    BY DEF ExpectBlockArrayItem, h, x
  <2>2. Fail \/ Underflow => pc' \in Final
    BY DEF Fail, Underflow, Final
  <2>3. QED
    BY <1>8, <1>9, <1>10, <2>1, <2>2

(* A table opens the container of its rows. *)
LEMMA TableNests ==
  ASSUME IndInv, NestInv, pc \in TableStates, NEW next \in {"Row", "ScopeEnd", "Panicked"},
         OpenTable(TableKind(pc), next), hdr' = [hdr EXCEPT !.type = pc],
         UNCHANGED <<pending, lapses>>
  PROVE  NestNext
<1> DEFINE kind == TableKind(pc)
           y == PutHeaderKey(b, hdr.key)
           e == EolState(i + 1, y, pending, FALSE)
           x == Enter(y, kind, Indent(y) + IndentSize)
<1>1. kind \in Containers /\ pc \in HeaderStates
  BY DEF TableKind, Containers, HeaderStates
<1>2. hdr'.type = pc
  <2>1. hdr \in Headers
    BY Here
  <2>2. QED
    BY <2>1 DEF Headers
<1>3. Follow(e, x, [Nested |-> next]) \/ Fail
  BY DEF OpenTable
<1> HIDE DEF e
<1>4. ScopesIn(x, Len(x.stack), pending, Clean) /\ (Clean => Inside(x, kind))
  BY <1>1, EnterNests
<1> HIDE DEF x
<1>5. pc' = "Failed" \/ (pc' = next /\ b' = x)
  BY <1>3, FollowsOne DEF Fail
<1>6. CASE pc' = next /\ b' = x /\ next \in {"Row", "ScopeEnd"}
  <2>1. Clean => AtHome(pc', hdr', cell', b', pending')
    BY <1>2, <1>4, <1>6 DEF AtHome, HeaderStates, TableStates
  <2>2. "keyless field" \notin lapses' => Clean
    BY DEF Clean
  <2>3. QED
    BY <1>4, <1>6, <2>1, <2>2, Arrives
<1>7. QED
  BY <1>5, <1>6 DEF NestNext, Final

(* All four kinds of table do.                                             *)
LEMMA TablesNest ==
  ASSUME IndInv, NestInv,
         \/ ParseTabularObjects \/ ParseTabularArrayStrict \/ ParseTabularArrayLenient
         \/ ParseNestedFieldGroupsArrayStrict
  PROVE  NestNext
<1>1. RowsOrEnd \in {"Row", "ScopeEnd", "Panicked"}
  BY DEF RowsOrEnd
<1>2. /\ TableKind("ParseTabularObjects") = "Object"
      /\ TableKind("ParseTabularArrayStrict") = "Array"
      /\ TableKind("ParseTabularArrayLenient") = "Array"
      /\ TableKind("ParseNestedFieldGroupsArrayStrict") = "Array"
  BY DEF TableKind
<1>3. CASE ParseTabularObjects
  BY <1>1, <1>2, <1>3, TableNests DEF ParseTabularObjects, TableStates
<1>4. CASE ParseTabularArrayStrict
  BY <1>1, <1>2, <1>4, TableNests DEF ParseTabularArrayStrict, TableStates
<1>5. CASE ParseTabularArrayLenient
  BY <1>2, <1>5, TableNests DEF ParseTabularArrayLenient, TableStates
<1>6. CASE ParseNestedFieldGroupsArrayStrict
  BY <1>2, <1>6, TableNests DEF ParseNestedFieldGroupsArrayStrict, TableStates
<1>7. QED
  BY <1>3, <1>4, <1>5, <1>6

(* Inside of a row of a table that holds rows in a container of this kind, *)
(* on top of the n scopes around it.                                       *)
InRow(x, n, kind) ==
  /\ Inside(x, "Object")
  /\ Len(x.stack) >= n + 1
  /\ x.stack[n + 1].tag = kind
  /\ \A d \in (n + 2)..Len(x.stack) : x.stack[d].tag = "Object"

(* A row is not left by what happens on top of its own scope.              *)
LEMMA StaysInRow ==
  ASSUME NEW x, NEW n \in Nat, NEW kind, InRow(x, n, kind), Len(x.stack) \in Nat,
         NEW y, Len(y.stack) \in Nat, Len(y.stack) >= n + 1, Inside(y, "Object"),
         \A d \in 1..Len(y.stack) :
           IF d <= Len(x.stack) THEN y.stack[d] = x.stack[d] ELSE y.stack[d].tag = "Object"
  PROVE  InRow(y, n, kind)
<1>1. y.stack[n + 1].tag = kind
  <2>1. n + 1 \in 1..Len(y.stack) /\ n + 1 <= Len(x.stack)
    BY DEF InRow
  <2>2. QED
    BY <2>1 DEF InRow
<1>2. ASSUME NEW d \in (n + 2)..Len(y.stack)
      PROVE  y.stack[d].tag = "Object"
  <2>1. d \in 1..Len(y.stack) /\ d \in Int
    OBVIOUS
  <2>2. CASE d <= Len(x.stack)
    <3>1. d \in (n + 2)..Len(x.stack)
      BY <2>1, <2>2
    <3>2. QED
      BY <2>1, <2>2, <3>1 DEF InRow
  <2>3. CASE ~ (d <= Len(x.stack))
    BY <2>1, <2>3
  <2>4. QED
    BY <2>2, <2>3
<1>3. QED
  BY <1>1, <1>2 DEF InRow

(* In a row the state is at home. *)
LEMMA RowIsHome ==
  ASSUME pc' \in {"Cell", "EndRow"}, hdr' = hdr,
         ScopesIn(b', Base(pc', hdr', cell', b'), pending', Clean),
         Clean => InRow(b', Base(pc', hdr', cell', b'), TableKind(hdr.type)),
         "keyless field" \notin lapses' => Clean
  PROVE  NestNext
<1>1. Clean => AtHome(pc', hdr', cell', b', pending')
  BY DEF AtHome, InRow, HeaderStates, TableStates
<1>2. QED
  BY <1>1 DEF NestNext, Nests, ScopesIn

(* A row is an object in the container of the table. *)
LEMMA RowNests ==
  ASSUME IndInv, NestInv, Row
  PROVE  NestNext
<1> DEFINE keyed == hdr.type = "ParseTabularObjects"
           end   == ValueEnd(i, {":"})
           row(x, tag) == OpenScope(x, "Object", tag, Indent(x), -1)
           kind == TableKind(hdr.type)
<1>1. pc = "Row" /\ UNCHANGED <<hdr, pending, lapses>>
  BY DEF Row
<1>2. /\ ScopesIn(b, Len(b.stack), pending, Clean)
      /\ Clean => Inside(b, kind)
      /\ ScopesOK(b) /\ b \in Builders /\ Clean \in BOOLEAN
      /\ Len(b.stack) \in Nat
  BY <1>1, NowOutsideRows DEF Final, AtHome
<1>3. i \in Nat
  <2>1. N \in Nat /\ i \in 1..N
    BY Here
  <2>2. QED
    BY <2>1
<1>4. kind \in {"Object", "Array"} /\ kind = (IF keyed THEN "Object" ELSE "Array")
  BY DEF TableKind
<1> HIDE DEF kind
<1>5. ASSUME NEW x, ScopesOK(x), x.stack = b.stack, WritesIn(b, x),
             pc' = "Cell", b' = row(x, kind)
      PROVE  NestNext
  <2> DEFINE n == Len(x.stack)
             z == row(x, kind)
  <2>1. ScopesIn(x, n, pending, Clean) /\ (Clean => Inside(x, kind))
    BY <1>2, <1>5, WritesInKeeps
  <2>2. n \in Nat /\ n \in Int /\ n <= Len(x.stack) /\ n = Len(b.stack)
    <3>1. n = Len(b.stack)
      BY <1>5
    <3>2. QED
      BY <1>2, <3>1
  <2>3. /\ Indent(x) \in Nat /\ Indent(x) >= Indent(x)
        /\ -1 \in Nat \cup {-1} /\ "Object" \in Containers
    <3>1. Indent(x) \in Nat
      BY <1>5, ScopesFacts
    <3>2. QED
      BY <3>1 DEF Containers
  <2>4. Clean \in BOOLEAN /\ z = OpenScope(x, "Object", kind, Indent(x), -1)
    BY <1>2
  <2>5. b' = z
    BY <1>5
  <2> HIDE DEF n, z
  <2>6. /\ ScopesIn(z, n, pending, Clean) /\ Inside(z, "Object")
        /\ Len(z.stack) = Len(x.stack) + 1 /\ z.stack[Len(x.stack) + 1].tag = kind
    BY <1>4, <2>1, <2>2, <2>3, <2>4, OpenScopeNests
  <2>7. Len(z.stack) = n + 1 /\ z.stack[n + 1].tag = kind
    BY <2>6 DEF n
  <2>8. InRow(z, n, kind)
    BY <2>2, <2>6, <2>7 DEF InRow
  <2>9. Base(pc', hdr', cell', b') = n
    BY <1>1, <1>5, <2>2, RowStep DEF Final
  <2>10. "keyless field" \notin lapses' => Clean
    BY <1>1 DEF Clean
  <2>11. ScopesIn(b', n, pending', Clean) /\ (Clean => InRow(b', n, TableKind(hdr.type)))
    BY <1>1, <2>5, <2>6, <2>8 DEF kind
  <2>12. hdr' = hdr /\ pc' \in {"Cell", "EndRow"}
    BY <1>1, <1>5
  <2>13. /\ ScopesIn(b', Base(pc', hdr', cell', b'), pending', Clean)
         /\ Clean => InRow(b', Base(pc', hdr', cell', b'), TableKind(hdr.type))
    BY <2>9, <2>11
  <2>14. QED
    BY <2>10, <2>12, <2>13, RowIsHome
<1>6. CASE ~ keyed /\ Goto("Cell", row(Counted(b), "Array"), i)
  <2>1. pc' = "Cell" /\ b' = row(Counted(b), kind)
    BY <1>4, <1>6 DEF Goto
  <2>2. ScopesOK(Counted(b)) /\ Counted(b).stack = b.stack /\ WritesIn(b, Counted(b))
    BY <1>2, CountedFacts, CountedWritesIn
  <2>3. QED
    BY <1>5, <2>1, <2>2
<1>7. CASE keyed /\ Goto("Cell", row(PutKey(b, i), "Object"), end + 1)
  <2>1. pc' = "Cell" /\ b' = row(PutKey(b, i), kind)
    BY <1>4, <1>7 DEF Goto
  <2>2. ScopesOK(PutKey(b, i)) /\ PutKey(b, i).stack = b.stack /\ WritesIn(b, PutKey(b, i))
    BY <1>2, <1>3, PutFacts, PutWritesIn
  <2>3. QED
    BY <1>5, <2>1, <2>2
<1>8. QED
  <2>1. \/ ~ keyed /\ Goto("Cell", row(Counted(b), "Array"), i)
        \/ keyed /\ Goto("Cell", row(PutKey(b, i), "Object"), end + 1)
        \/ Underflow \/ Fail
    BY Zenon DEF Row
  <2>2. Underflow \/ Fail => NestNext
    BY DEF Underflow, Fail, NestNext, Final
  <2>3. QED
    BY <1>6, <1>7, <2>1, <2>2

(* The end of a row leads back to the container of the table. *)
LEMMA EndRowNests ==
  ASSUME IndInv, NestInv, EndRow
  PROVE  NestNext
<1> DEFINE x == CloseScope(b)
           n == Len(b.stack) - 1
           lenient == hdr.type = "ParseTabularArrayLenient"
           arms == IF lenient THEN [Sibling |-> "Row", CloseScope |-> "ScopeEnd"]
                   ELSE [Sibling |-> "Row"]
           e == EolState(i, x, pending, TRUE)
<1>1. pc = "EndRow" /\ UNCHANGED <<hdr, pending, lapses>>
  BY DEF EndRow
<1>2. Base(pc, hdr, cell, b) = n
  BY <1>1 DEF Base
<1>3. ScopesOK(b) /\ n >= 1
  BY <1>1, <1>2, Here DEF Final
<1>4. Len(b.stack) \in Nat /\ Len(b.stack) >= 2 /\ n \in Int /\ n + 1 = Len(b.stack)
  <2>1. Len(b.stack) \in Nat
    BY <1>3, ScopesFacts
  <2>2. QED
    BY <1>3, <2>1
<1>5. /\ ScopesIn(b, n, pending, Clean) /\ Clean \in BOOLEAN
      /\ Clean => b.stack[n + 1].tag = TableKind(hdr.type)
  BY <1>1, <1>2, Now DEF AtHome, Final
<1>6. x = CloseScope(b) /\ n <= Len(b.stack) - 1
  BY <1>4
<1> HIDE DEF x, n
<1>7. /\ ScopesIn(x, n, pending, Clean)
      /\ Clean => Inside(x, b.stack[Len(b.stack)].tag)
      /\ Len(x.stack) = Len(b.stack) - 1
  <2>1. ScopesIn(b, n, pending, Clean) /\ Clean \in BOOLEAN
    BY <1>5
  <2>2. Len(b.stack) >= 2 /\ n \in Int
    BY <1>4
  <2>3. ASSUME NEW k \in Int, k <= Len(b.stack) - 1, ScopesIn(b, k, pending, Clean)
        PROVE  ScopesIn(x, k, pending, Clean)
    BY <1>6, <2>1, <2>2, <2>3, CloseScopeNests
  <2>4. QED
    BY <1>6, <2>1, <2>2, <2>3, CloseScopeNests
<1>8. ScopesIn(x, Len(x.stack), pending, Clean) /\ (Clean => Inside(x, TableKind(hdr.type)))
  BY <1>4, <1>5, <1>7 DEF n
<1>9. pc' = "Failed" \/ (pc' \in {"Row", "ScopeEnd"} /\ b' = x)
  <2>1. Goto("ScopeEnd", x, i) \/ Follow(e, x, arms)
    BY DEF EndRow, x
  <2>2. CASE Follow(e, x, arms) /\ lenient
    <3>1. Follow(e, x, [Sibling |-> "Row", CloseScope |-> "ScopeEnd"])
      BY <2>2
    <3>2. QED
      BY <3>1, FollowsTwo
  <2>3. CASE Follow(e, x, arms) /\ ~ lenient
    <3>1. Follow(e, x, [Sibling |-> "Row"])
      BY <2>3
    <3>2. QED
      BY <3>1, FollowsOne
  <2>4. QED
    BY <2>1, <2>2, <2>3 DEF Goto
<1>10. CASE pc' \in {"Row", "ScopeEnd"} /\ b' = x
  <2>1. Clean => AtHome(pc', hdr', cell', b', pending')
    BY <1>1, <1>8, <1>10 DEF AtHome, HeaderStates, TableStates
  <2>2. QED
    BY <1>1, <1>8, <1>10, <2>1, Arrives DEF Clean
<1>11. QED
  BY <1>9, <1>10 DEF NestNext, Final

(* The groups of a row are objects in the object of the row.               *)
LEMMA CellNests ==
  ASSUME IndInv, NestInv, Cell
  PROVE  NestNext
<1> DEFINE leaf   == IsLeaf(hdr, cell)
           last   == \A j \in Leaves(hdr) : j <= cell
           delims == CellEnds(last)
           end    == ValueEnd(i, delims)
           name   == NameStart(hdr, cell)
           key    == PutKey(b, name)
           before == IF leaf THEN PutValue(key, i)
                     ELSE IF IsGroup(hdr, cell)
                     THEN OpenScope(key, "Object", "Object", Indent(b), -1)
                     ELSE b
           after  == IF IsGroupEnd(hdr, cell) THEN CloseScope(before) ELSE before
           todo   == {j \in (cell + 1)..hdr.hi :
                        IsLeaf(hdr, j) \/ IsGroup(hdr, j) \/ IsGroupEnd(hdr, j)}
           next   == IF todo = {} THEN "EndRow" ELSE "Cell"
           outer  == Base("Cell", hdr, cell, b)
           kind   == TableKind(hdr.type)
           home(z) == ScopesIn(z, outer, pending, Clean) /\ (Clean => InRow(z, outer, kind))
<1>1. pc = "Cell" /\ UNCHANGED <<hdr, pending, lapses>>
  BY DEF Cell
<1>2. hdr.lo # 0 /\ cell \in (hdr.lo + 1)..hdr.hi
  BY <1>1 DEF IndInv, Good
<1>3. /\ toks \in Document /\ FieldList(hdr.lo, hdr.hi) /\ hdr.delim \in Delims
      /\ hdr.lo \in Nat /\ hdr.hi \in Nat
  BY <1>2, Here
<1>4. i \in Nat /\ cell \in Nat /\ cell > hdr.lo
  <2>1. N \in Nat /\ i \in 1..N
    BY Here
  <2>2. QED
    BY <1>2, <1>3, <2>1
<1>5. /\ Level(hdr.lo, cell - 1) \in Int /\ Level(hdr.lo, cell - 1) >= 1
      /\ cell < hdr.hi => /\ Level(hdr.lo, cell) >= 1
                          /\ Level(hdr.lo, cell) = Level(hdr.lo, cell - 1)
                                                   + (IF IsGroup(hdr, cell) THEN 1 ELSE 0)
                                                   - (IF IsGroupEnd(hdr, cell) THEN 1 ELSE 0)
  BY <1>2, <1>3, LevelAt
<1>6. /\ ScopesOK(b) /\ b \in Builders /\ outer >= 1
      /\ Len(b.stack) \in Nat
  <2>1. ScopesOK(b) /\ b \in Builders /\ outer >= 1
    BY <1>1, Here DEF Final
  <2>2. QED
    BY <2>1, ScopesFacts
<1>7. outer = Len(b.stack) - Level(hdr.lo, cell - 1)
  BY DEF Base
<1>8. ScopesIn(b, outer, pending, Clean) /\ Clean \in BOOLEAN
  BY <1>1, Now DEF Final
<1>9. Clean => /\ Inside(b, "Object") /\ b.stack[outer + 1].tag = kind
               /\ \A d \in (outer + 2)..Len(b.stack) : b.stack[d].tag = "Object"
  BY <1>1, Now DEF Final, AtHome
<1>10. name \in Nat
  BY <1>3, <1>4, NameStartFacts
<1> HIDE DEF outer, kind, name
<1>11. outer \in Nat /\ outer \in Int /\ Len(b.stack) >= outer + 1
  BY <1>5, <1>6, <1>7
<1>12. Clean => InRow(b, outer, kind)
  BY <1>9, <1>11 DEF InRow
<1>13. IsGroupEnd(hdr, cell) => Len(b.stack) >= outer + 2 /\ ~ IsGroup(hdr, cell)
  <2>1. SUFFICES ASSUME IsGroupEnd(hdr, cell)
                 PROVE  Len(b.stack) >= outer + 2 /\ ~ IsGroup(hdr, cell)
    OBVIOUS
  <2>2. ~ IsGroup(hdr, cell)
    BY <2>1 DEF IsGroup, IsGroupEnd, Opens
  <2>3. cell < hdr.hi
    BY <1>3, <1>4, <2>1 DEF IsGroupEnd
  <2>4. Level(hdr.lo, cell - 1) >= 2
    BY <1>5, <2>1, <2>2, <2>3
  <2>5. QED
    BY <1>5, <1>6, <1>7, <2>2, <2>4
<1>14. ~ (leaf /\ IsGroup(hdr, cell))
  BY <1>3 DEF IsLeaf, IsGroup, Opens, Delims
<1>15. /\ ScopesOK(key) /\ key \in Builders /\ key.stack = b.stack /\ WritesIn(b, key)
       /\ ScopesIn(key, outer, pending, Clean)
       /\ Clean => Inside(key, "Object")
       /\ Indent(key) = Indent(b)
  <2>1. ScopesOK(key) /\ key.stack = b.stack /\ WritesIn(b, key)
    BY <1>6, <1>10, PutFacts, PutWritesIn
  <2>2. key \in Builders
    BY <2>1, ScopesFacts
  <2> HIDE DEF key
  <2>3. QED
    BY <1>8, <1>9, <2>1, <2>2, WritesInKeeps
<1> HIDE DEF key
<1>16. /\ home(before) /\ Len(before.stack) \in Nat
       /\ (~ IsGroup(hdr, cell) => Len(before.stack) = Len(b.stack))
  <2>1. CASE leaf
    <3>1. ScopesOK(before) /\ before.stack = key.stack /\ WritesIn(key, before)
      BY <1>4, <1>15, <2>1, PutFacts, PutWritesIn
    <3> HIDE DEF before, leaf
    <3>2. ScopesIn(before, outer, pending, Clean) /\ (Clean => Inside(before, "Object"))
      BY <1>15, <3>1, WritesInKeeps
    <3>3. before.stack = b.stack
      BY <1>15, <3>1
    <3>4. Clean => InRow(before, outer, kind)
      BY <1>12, <3>2, <3>3 DEF InRow
    <3>5. QED
      BY <1>6, <3>2, <3>3, <3>4
  <2>2. CASE ~ leaf /\ IsGroup(hdr, cell)
    <3>1. before = OpenScope(key, "Object", "Object", Indent(b), -1)
      BY <2>2
    <3>2. /\ Indent(b) \in Nat /\ Indent(b) >= Indent(key)
          /\ -1 \in Nat \cup {-1} /\ "Object" \in Containers
      <4>1. Indent(b) \in Nat
        BY <1>6, ScopesFacts
      <4>2. QED
        BY <1>15, <4>1 DEF Containers
    <3>3. Len(key.stack) = Len(b.stack) /\ outer <= Len(key.stack)
      BY <1>6, <1>11, <1>15
    <3> HIDE DEF before, leaf
    <3>4. ASSUME NEW k \in Int, k <= Len(key.stack), ScopesIn(key, k, pending, Clean)
          PROVE  ScopesIn(before, k, pending, Clean)
      <4>1. Clean \in BOOLEAN /\ (Clean => Inside(key, "Object"))
        BY <1>8, <1>15 DEF Inside
      <4>2. QED
        BY ONLY <3>1, <3>2, <3>4, <4>1, OpenScopeNests
    <3>5. ScopesIn(key, outer, pending, Clean) /\ Clean \in BOOLEAN
      BY <1>8, <1>15 DEF Inside
    <3>6. outer \in Int /\ (Clean => Inside(key, "Object"))
      BY <1>11, <1>15
    <3>7. /\ Inside(before, "Object")
           /\ Len(before.stack) = Len(key.stack) + 1
           /\ before.stack[Len(key.stack) + 1].tag = "Object"
           /\ \A d \in 1..Len(key.stack) : before.stack[d] = key.stack[d]
      BY <3>1, <3>2, <3>3, <3>5, <3>6, OpenScopeNests
    <3>8. /\ ScopesIn(before, outer, pending, Clean) /\ Inside(before, "Object")
          /\ Len(before.stack) = Len(b.stack) + 1
          /\ before.stack[Len(b.stack) + 1].tag = "Object"
          /\ \A d \in 1..Len(b.stack) : before.stack[d] = b.stack[d]
      BY <1>11, <1>15, <3>3, <3>4, <3>7
    <3>9. Len(before.stack) \in Nat /\ Len(before.stack) >= outer + 1
      BY <1>6, <1>11, <3>8
    <3>10. \A d \in 1..Len(before.stack) :
            IF d <= Len(b.stack) THEN before.stack[d] = b.stack[d]
                                 ELSE before.stack[d].tag = "Object"
      BY <1>6, <3>8
    <3>11. Clean => InRow(before, outer, kind)
      BY <1>6, <1>11, <1>12, <3>8, <3>9, <3>10, StaysInRow
    <3>12. QED
      BY <2>2, <3>8, <3>9, <3>11
  <2>3. CASE ~ leaf /\ ~ IsGroup(hdr, cell)
    BY <1>6, <1>8, <1>12, <2>3
  <2>4. QED
    BY <2>1, <2>2, <2>3
<1> HIDE DEF before, leaf
<1>17. home(after)
  <2>1. CASE ~ IsGroupEnd(hdr, cell)
    BY <1>16, <2>1
  <2>2. CASE IsGroupEnd(hdr, cell)
    <3>1. after = CloseScope(before)
      BY <2>2
    <3>2. /\ Len(before.stack) >= outer + 2 /\ Len(before.stack) = Len(b.stack)
          /\ Len(before.stack) >= 2
          /\ outer <= Len(before.stack) - 1
      BY <1>6, <1>11, <1>13, <1>16, <2>2
    <3> HIDE DEF after
    <3>3. ASSUME NEW k \in Int, k <= Len(before.stack) - 1, ScopesIn(before, k, pending, Clean)
          PROVE  ScopesIn(after, k, pending, Clean)
      BY <1>8, <3>1, <3>2, <3>3, CloseScopeNests
    <3>4. ScopesIn(before, outer, pending, Clean) /\ Clean \in BOOLEAN /\ outer \in Int
      BY <1>8, <1>11, <1>16
    <3>5. /\ ScopesIn(after, outer, pending, Clean)
          /\ Clean => Inside(after, before.stack[Len(before.stack)].tag)
          /\ Len(after.stack) = Len(before.stack) - 1
          /\ \A d \in 1..Len(after.stack) : after.stack[d] = before.stack[d]
      BY <3>1, <3>2, <3>3, <3>4, CloseScopeNests
    <3>6. Len(after.stack) \in Nat /\ Len(after.stack) >= outer + 1
      BY <1>11, <1>16, <3>2, <3>5
    <3>7. Clean => before.stack[Len(before.stack)].tag = "Object"
      <4>1. Len(before.stack) \in (outer + 2)..Len(before.stack)
        BY <1>11, <1>16, <3>2
      <4>2. QED
        BY <1>16, <4>1 DEF InRow
    <3>8. \A d \in 1..Len(after.stack) :
            IF d <= Len(before.stack) THEN after.stack[d] = before.stack[d]
                                      ELSE after.stack[d].tag = "Object"
      BY <1>16, <3>5, <3>6
    <3>9. Clean => Inside(after, "Object")
      BY <3>5, <3>7
    <3>10. Clean => InRow(after, outer, kind)
      BY <1>11, <1>16, <3>6, <3>8, <3>9, StaysInRow
    <3>11. QED
      BY <3>5, <3>10
  <2>3. QED
    BY <2>1, <2>2
<1> HIDE DEF after, todo
<1>18. CASE pc' \in {"Cell", "EndRow"} /\ b' = after
  <2>1. Base(pc', hdr', cell', b') = outer
    BY <1>1, <1>18, CellStep DEF outer
  <2>2. /\ ScopesIn(b', Base(pc', hdr', cell', b'), pending', Clean)
        /\ Clean => InRow(b', Base(pc', hdr', cell', b'), TableKind(hdr.type))
    BY <1>1, <1>17, <1>18, <2>1 DEF kind
  <2>3. QED
    BY <1>1, <1>18, <2>2, RowIsHome DEF Clean
<1>19. QED
  <2>1. \/ Goto(next, after, IF Tok(end) = "NL" THEN end ELSE end + 1) /\ UNCHANGED dedent
        \/ Goto(next, after, i) /\ UNCHANGED dedent
        \/ Fail
    BY Zenon DEF Cell, after, before, key, leaf, todo, name
  <2>2. pc' = "Failed" \/ (pc' \in {"Cell", "EndRow"} /\ b' = after)
    BY <2>1 DEF Goto, Fail
  <2>3. QED
    BY <1>18, <2>2 DEF NestNext, Final

(* The end of a scope leads back to the container around it, and takes no  *)
(* other array off the pending ones than its own.                          *)
LEMMA ScopeEndNests ==
  ASSUME IndInv, NestInv, ScopeEnd
  PROVE  NestNext
<1> DEFINE own   == pending # << >> /\ Last(pending).depth = Len(b.stack)
           pend  == IF own THEN Front(pending) ELSE pending
           outer == CloseScope(b)
           tag   == Last(b.stack).tag
           e     == IF Tok(i) = "NL" THEN EolState(i, outer, pend, FALSE) ELSE Cascade(outer, pend)
           back  == IF tag = "Object" THEN "ParseHeader" ELSE "ExpectBlockArrayItem"
           arms  == [Sibling |-> back, CloseScope |-> "ScopeEnd"]
           depth == Len(b.stack) - 1
<1>1. pc = "ScopeEnd" /\ UNCHANGED <<hdr, lapses>> /\ pending' = pend
  BY DEF ScopeEnd
<1>2. /\ ScopesIn(b, Len(b.stack), pending, Clean) /\ ScopesOK(b) /\ Clean \in BOOLEAN
      /\ Len(b.stack) \in Nat /\ Len(b.stack) >= 1
  BY <1>1, NowOutsideRows DEF Final
<1>3. tag = b.stack[Len(b.stack)].tag
  BY DEF Last
<1>4. ASSUME NEW d, d # Len(b.stack), IsPending(pending, d)
      PROVE  IsPending(pend, d)
  <2>1. CASE ~ own
    BY <1>4, <2>1
  <2>2. CASE own
    <3>1. pending \in Seq([depth : Nat \ {0}, n : Nat])
      BY Here DEF PendingCounts
    <3>2. Len(pending) \in Nat /\ Len(pending) >= 1
      BY <2>2, <3>1
    <3>3. pend = Front(pending)
      BY <2>2
    <3> HIDE DEF pend
    <3>4. /\ Len(pend) = Len(pending) - 1
          /\ \A k \in 1..(Len(pending) - 1) : pend[k] = pending[k]
          /\ Last(pending) = pending[Len(pending)]
      BY <3>1, <3>2, <3>3, FrontFacts
    <3>5. PICK k \in 1..Len(pending) : pending[k].depth = d
      BY <1>4 DEF IsPending
    <3>6. k # Len(pending)
      BY <1>4, <2>2, <3>4, <3>5
    <3>7. k \in 1..Len(pend) /\ pend[k].depth = d
      BY <3>2, <3>4, <3>5, <3>6
    <3>8. QED
      BY <3>7 DEF IsPending
  <2>3. QED
    BY <2>1, <2>2
<1> HIDE DEF own, pend, outer, tag
<1>5. CASE pc' \in {back, "ScopeEnd"} /\ b' = outer /\ tag \in {"Object", "Array"}
  <2>1. /\ Len(b.stack) >= 2 /\ depth >= 1 /\ depth <= Len(b.stack) - 1
        /\ depth \in Int /\ depth \in Nat
    <3> DEFINE d == Len(b.stack)
    <3>1. \A m \in 1..d : b.stack[m].tag = "Start" <=> m = 1
      BY <1>2 DEF ScopesOK
    <3>2. d \in 1..d /\ d \in Nat /\ d >= 1 /\ depth = d - 1 /\ tag = b.stack[d].tag
      BY <1>2, <1>3
    <3>3. Len(b.stack) = d
      OBVIOUS
    <3> HIDE DEF d, depth
    <3>4. tag # "Start"
      BY <1>5
    <3>5. d # 1
      BY <3>1, <3>2, <3>4
    <3>6. QED
      BY <3>2, <3>3, <3>5
  <2>2. \A d \in 2..Len(b.stack) : Clean => (b.stack[d].tag = "Array" => IsPending(pending, d - 1))
    BY <1>2 DEF ScopesIn, ArraysPending
  <2>3. ASSUME Clean, NEW d \in 2..Len(b.stack), b.stack[d].tag = "Array"
        PROVE  IsPending(pend, d - 1)
    <3>1. IsPending(pending, d - 1) /\ d - 1 # Len(b.stack)
      BY <1>2, <2>2, <2>3
    <3>2. QED
      BY <1>4, <3>1
  <2>4. ScopesIn(b, depth, pend, Clean)
    <3>1. \A d \in 2..depth : d \in 2..Len(b.stack)
      BY <1>2, <2>1
    <3>2. Clean => ArraysPending(b, depth, pend)
      BY <2>3, <3>1 DEF ArraysPending
    <3>3. QED
      BY <1>2, <3>2 DEF ScopesIn
  <2>5. Clean /\ tag = "Array" => IsPending(pend, depth)
    <3>1. Len(b.stack) \in 2..Len(b.stack)
      BY <1>2, <2>1
    <3>2. QED
      BY <1>3, <2>3, <3>1
  <2>6. outer = CloseScope(b)
    BY DEF outer
  <2> HIDE DEF depth
  <2>7. ASSUME NEW k \in Int, k <= Len(b.stack) - 1, ScopesIn(b, k, pend, Clean)
        PROVE  ScopesIn(outer, k, pend, Clean)
    BY <1>2, <2>1, <2>6, <2>7, CloseScopeNests
  <2>8. ScopesIn(b, depth, pend, Clean) /\ Clean \in BOOLEAN
    BY <1>2, <2>4
  <2>9. depth \in Int /\ depth <= Len(b.stack) - 1 /\ Len(b.stack) >= 2
    BY <2>1
  <2>10. /\ ScopesIn(outer, depth, pend, Clean)
         /\ Clean => Inside(outer, b.stack[Len(b.stack)].tag)
         /\ Len(outer.stack) = Len(b.stack) - 1
    BY <2>6, <2>7, <2>8, <2>9, CloseScopeNests
  <2>11. ScopesIn(outer, Len(outer.stack), pend, Clean) /\ Len(outer.stack) = depth
    BY <2>10 DEF depth
  <2>12. Clean => AtHome(pc', hdr', cell', b', pending')
    BY <1>1, <1>3, <1>5, <2>5, <2>10, <2>11 DEF AtHome, HeaderStates, TableStates
  <2>13. pc' \notin {"Cell", "EndRow"}
    BY <1>5
  <2>14. ScopesIn(b', Len(b'.stack), pending', Clean)
    BY <1>1, <1>5, <2>11
  <2>15. "keyless field" \notin lapses' => Clean
    BY <1>1 DEF Clean
  <2>16. QED
    BY <2>12, <2>13, <2>14, <2>15, Arrives
<1>6. CASE pc' \in Final
  BY <1>6 DEF NestNext
<1>7. QED
  <2>1. \/ Fail
        \/ Goto("Success", outer, N)
        \/ tag = "Array" /\ Goto("ScopeEnd", outer, i)
        \/ tag \in {"Object", "Array"} /\ Follow(e, outer, arms)
    BY DEF ScopeEnd, outer, pend, own, tag
  <2> HIDE DEF e, back
  <2>2. Follow(e, outer, arms) => pc' = "Failed" \/ (pc' \in {back, "ScopeEnd"} /\ b' = outer)
    BY FollowsTwo
  <2>3. QED
    BY <1>5, <1>6, <2>1, <2>2 DEF Fail, Goto, Final

(* Every step keeps the scopes nested.                                     *)
LEMMA NextNests ==
  ASSUME IndInv, NestInv, [Next]_vars
  PROVE  NestInv'
<1>1. CASE UNCHANGED vars
  <2>1. /\ toks' = toks /\ pc' = pc /\ hdr' = hdr /\ cell' = cell /\ b' = b
        /\ pending' = pending /\ lapses' = lapses
    BY <1>1 DEF vars
  <2>2. CASE ~ Running
    BY <2>1, <2>2 DEF NestInv, Running, Done
  <2>3. CASE Running
    <3>1. Nests(pc', hdr', cell', b', pending', lapses')
      BY <2>1, <2>3 DEF NestInv
    <3>2. QED
      BY <2>1, <3>1, NestNextSuffices DEF NestNext
  <2>4. QED
    BY <2>2, <2>3
<1>2. CASE Return
  BY <1>1, <1>2 DEF Return
<1>3. CASE Next /\ ~ Return
  <2>1. toks' = toks
    BY <1>3 DEF Next, Start, ParseHeader, ParseSimpleObjectValue, ParseEmptyArray,
       ParseInlineArray, Element, ParseBlockArray, ExpectBlockArrayItem, ParseTabularObjects,
       ParseTabularArrayStrict, ParseTabularArrayLenient, ParseNestedFieldGroupsArrayStrict,
       Row, Cell, EndRow, ScopeEnd
  <2>2. NestNext
    BY <1>3, StartNests, ParseHeaderNests, ParseSimpleObjectValueNests, ParseEmptyArrayNests,
       ParseInlineArrayNests, ElementNests, ParseBlockArrayNests, ExpectBlockArrayItemNests,
       TablesNest, RowNests, CellNests, EndRowNests, ScopeEndNests DEF Next
  <2>3. QED
    BY <2>1, <2>2, NestNextSuffices
<1>4. QED
  BY <1>1, <1>2, <1>3

(* On every document the scopes nest, and each State works in a container  *)
(* of the kind it fills.                                                   *)
THEOREM NestsInductive == Spec => []NestInv
<1>1. Init => NestInv
  BY DEF Init, NestInv, Running
<1>2. IndInv /\ NestInv /\ [Next]_vars => NestInv'
  BY NextNests
<1>3. QED
  BY <1>1, <1>2, Inductive, PTL DEF Spec

(* The scopes of every document nest: frames point ever deeper into the    *)
(* tape, each is tagged with the kind of the container it returns to       *)
(* (unless a header without a key was let pass in an object), and no scope *)
(* is indented less than the one around it.                                *)
THEOREM NestedScopes == Spec => []ScopesNest
<1> DEFINE starts == [d \in 2..(Depth + 1) |-> IF d > Depth THEN b.start ELSE b.stack[d].start]
<1>1. ASSUME IndInv, NestInv, Running
      PROVE  /\ \A d \in 1..Depth : (b.stack[d].tag = "Start") <=> (d = 1)
             /\ \A d \in 2..Depth : starts[d] < starts[d + 1]
             /\ "keyless field" \notin lapses =>
                  \A d \in 2..Depth : b.tape[b.stack[d].start].kind = b.stack[d].tag
             /\ \A d \in 1..(Len(b.indents) - 1) : b.indents[d] <= b.indents[d + 1]
  <2>1. ScopesOK(b) /\ Depth \in Nat
    BY <1>1, RunningScopes DEF Depth
  <2>2. Ordered(b) /\ ("keyless field" \notin lapses => Tagged(b))
    BY <1>1 DEF NestInv, Nests
  <2>3. ASSUME NEW d \in 2..Depth
        PROVE  starts[d] < starts[d + 1]
    <3>1. d \in 2..(Depth + 1) /\ d + 1 \in 2..(Depth + 1) /\ ~ (d > Depth)
      BY <2>1
    <3>2. starts[d] = b.stack[d].start
      BY <3>1
    <3>3. CASE d = Depth
      <4>1. d + 1 > Depth
        BY <2>1, <3>3
      <4>2. starts[d + 1] = b.start
        BY <3>1, <4>1
      <4>3. QED
        BY <2>2, <3>2, <4>2 DEF Ordered, Depth
    <3>4. CASE d # Depth
      <4>1. d + 1 \in 2..Depth /\ ~ (d + 1 > Depth) /\ d < d + 1
        BY <2>1, <3>4
      <4>2. starts[d + 1] = b.stack[d + 1].start
        BY <3>1, <4>1
      <4>3. b.stack[d].start < b.stack[d + 1].start
        BY <2>2, <4>1 DEF Ordered, Depth
      <4>4. QED
        BY <3>2, <4>2, <4>3
    <3>5. QED
      BY <3>3, <3>4
  <2>4. ASSUME NEW d \in 1..(Len(b.indents) - 1)
        PROVE  b.indents[d] <= b.indents[d + 1]
    <3>1. Len(b.indents) \in Nat
      BY <2>1, IndentIsLast
    <3>2. d \in 1..Len(b.indents) /\ d + 1 \in 1..Len(b.indents) /\ d < d + 1
      BY <3>1
    <3>3. QED
      BY <2>2, <3>2 DEF Ordered
  <2> HIDE DEF starts
  <2>5. QED
    BY <2>1, <2>2, <2>3, <2>4 DEF ScopesOK, Tagged, Depth
<1>2. IndInv /\ NestInv => ScopesNest
  BY <1>1 DEF ScopesNest
<1>3. QED
  BY <1>2, Inductive, NestsInductive, PTL

(* The debug_assert_eq! of expect_block_array_item! holds on every         *)
(* document in which no header without a key was let pass in an object:    *)
(* an item counts for the array it is in.                                  *)
THEOREM CountedItems == Spec => []ItemsAreCounted
<1>1. ASSUME IndInv, NestInv, pc = "ExpectBlockArrayItem", lapses = {}
      PROVE  pending # << >> /\ Last(pending).depth = Depth /\ b.tape[b.start].kind = "Array"
  <2>1. Inside(b, "Array") /\ IsPending(pending, Len(b.stack))
    BY <1>1, NowOutsideRows DEF Final, AtHome, Clean
  <2>2. PendingOK(pending, Len(b.stack)) /\ Len(b.stack) \in Nat
    BY <1>1, HereOutsideRows, ScopesFacts DEF Final
  <2>3. pending \in Seq([depth : Nat \ {0}, n : Nat])
    BY <1>1, Here DEF PendingCounts
  <2>4. Len(pending) \in Nat
    BY <2>3
  <2>5. PICK k \in 1..Len(pending) : pending[k].depth = Len(b.stack)
    BY <2>1 DEF IsPending
  <2>6. k = Len(pending)
    <3> DEFINE m == Len(pending)
    <3>1. SUFFICES ASSUME k # m
                   PROVE  FALSE
      OBVIOUS
    <3>2. m \in 1..Len(pending) /\ k < m
      BY <2>4, <3>1
    <3> HIDE DEF m
    <3>3. pending[k].depth < pending[m].depth /\ pending[m].depth \in 1..Len(b.stack)
      BY <2>2, <3>2 DEF PendingOK
    <3>4. QED
      BY <2>2, <2>5, <3>3
  <2>7. pending # << >> /\ Last(pending) = pending[Len(pending)]
    BY <2>3, <2>5 DEF Last
  <2>8. QED
    BY <2>1, <2>5, <2>6, <2>7 DEF Inside, Depth
<1>2. IndInv /\ NestInv => ItemsAreCounted
  BY <1>1 DEF ItemsAreCounted
<1>3. QED
  BY <1>2, Inductive, NestsInductive, PTL
=============================================================================

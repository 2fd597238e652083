-------------------------------- MODULE Tape --------------------------------
(***************************************************************************)
(* The readers of a tape: tape::Value, tape::Object, tape::Array and their *)
(* iterators, which trust the count of a node, the DOM builder, which      *)
(* trusts its len, and the writer of JSON text, which iterates.            *)
(*                                                                         *)
(* A tape is a sequence of nodes; a value on it is a slice of that         *)
(* sequence, here the subsequence itself.  What a reader hands out is a    *)
(* record with a type; Panic stands for an index or a split out of bounds. *)
(***************************************************************************)
EXTENDS Integers, Sequences

Containers == {"Array", "Object"}
LeafKinds  == {"Null", "Bool", "I64", "String"}

Leaf(kind, val)            == [kind |-> kind, val |-> val, len |-> 0, count |-> 0]
Container(kind, len, count) == [kind |-> kind, val |-> "", len |-> len, count |-> count]

(* Node::count: a container spans its own node as well. (A mutated form:   *)
(* the nodes below it only.)                                               *)
CountBelow(n) == IF n.kind \in Containers THEN n.count ELSE 1

Count(n) == IF n.kind \in Containers THEN n.count + 1 ELSE 1

None  == [type |-> "None"]
Error == [type |-> "Error"]
Panic == [type |-> "Panic"]

OnTape(type, ns) == [type |-> type, rep |-> "Tape", nodes |-> ns]

(* The slice of n nodes from the i-th on, indexed with bounds checks. (A   *)
(* mutated form: cut off at the end.)                                      *)
SliceClamped(type, ns, i, n) == 
  OnTape(type, SubSeq(ns, i, IF i + n - 1 > Len(ns) THEN Len(ns) ELSE i + n - 1))

Slice(type, ns, i, n) ==
  IF i + n - 1 > Len(ns) THEN Panic ELSE OnTape(type, SubSeq(ns, i, i + n - 1))

-----------------------------------------------------------------------------
(* Containers: the slice keeps the container's node in front.  (A mutated  *)
(* form: without the one more node that makes room for it.)                *)

AsContainerShort(kind, ns) ==
  IF ns # << >> /\ ns[1].kind = kind THEN Slice(kind, ns, 1, ns[1].count) ELSE None

AsContainer(kind, ns) ==
  IF ns # << >> /\ ns[1].kind = kind THEN Slice(kind, ns, 1, ns[1].count + 1) ELSE None

(* Object::get: len entries are tried from the front. *)
ObjectGet(ns, k) ==
  LET Try[i \in Nat, len \in Nat] ==
        IF len = 0 \/ i + 1 > Len(ns) \/ ns[i].kind # "String" THEN None
        ELSE IF ns[i].val = k THEN Slice("Value", ns, i + 1, Count(ns[i + 1]))
        ELSE Try[i + 1 + Count(ns[i + 1]), len - 1]
  IN  IF ns = << >> \/ ns[1].kind # "Object" THEN None ELSE Try[2, ns[1].len]

(* Array::get: n elements are stepped over; the end of the slice is the    *)
(* only bound.                                                             *)
ArrayGet(ns, n) ==
  LET Step[i \in Nat, left \in Nat] ==
        IF i > Len(ns) THEN None
        ELSE IF left = 0 THEN Slice("Value", ns, i, Count(ns[i]))
        ELSE Step[i + Count(ns[i]), left - 1]
  IN  Step[2, n]

(* Value::get_array, get_object and their try_ variants search on their    *)
(* own, with the slice taken of as many nodes as lie below the container:  *)
(* its last node is left out.  other is what a value of another type is.   *)
GetContainer(kind, ns, k, other) ==
  LET Try[i \in Nat, len \in Nat] ==
        IF len = 0 THEN None
        ELSE IF i + 1 > Len(ns) \/ ns[i].kind # "String" THEN Panic
        ELSE IF ns[i].val # k THEN Try[i + 1 + Count(ns[i + 1]), len - 1]
        ELSE IF ns[i + 1].kind # kind THEN other
        ELSE Slice(kind, ns, i + 1, ns[i + 1].count)
  IN  IF ns = << >> THEN Panic
      ELSE IF ns[1].kind # "Object" THEN other
      ELSE Try[2, ns[1].len]

(* Array::len, Object::len *)
ContainerLen(kind, ns) ==
  IF ns # << >> /\ ns[1].kind = kind THEN [type |-> "Number", n |-> ns[1].len] ELSE Panic

-----------------------------------------------------------------------------
(* Iterators: what is left of the slice. *)

IterOn(what, ns) == [type |-> "Iter", what |-> what, rep |-> "Tape", nodes |-> ns]

(* iter, keys and values: everything behind the container's node. *)
TapeIter(what, ns) == IF ns = << >> THEN Panic ELSE IterOn(what, Tail(ns))

(* A call of next: what it returns, and the iterator it leaves. *)
ArrayNext(it) ==
  LET ns == it.nodes
      c  == Count(ns[1])
  IN  IF ns = << >> THEN [item |-> None, iter |-> it]
      ELSE IF c > Len(ns) THEN [item |-> Panic, iter |-> it]
      ELSE [item |-> OnTape("Value", SubSeq(ns, 1, c)),
            iter |-> IterOn(it.what, SubSeq(ns, c + 1, Len(ns)))]

Entry(what, key, ns) ==
  CASE what = "Pairs"  -> [type |-> "Pair", key |-> key, rep |-> "Tape", nodes |-> ns]
    [] what = "Keys"   -> [type |-> "Key", key |-> key]
    [] what = "Values" -> OnTape("Value", ns)

ObjectNext(it) ==
  LET ns == it.nodes
      c  == Count(ns[2])
  IN  IF \/ Len(ns) < 2
         \/ it.what # "Values" /\ ns[1].kind # "String"
      THEN [item |-> None, iter |-> it]
      ELSE IF c > Len(ns) - 1 THEN [item |-> Panic, iter |-> it]
      ELSE [item |-> Entry(it.what, ns[1].val, SubSeq(ns, 2, c + 1)),
            iter |-> IterOn(it.what, SubSeq(ns, c + 2, Len(ns)))]

-----------------------------------------------------------------------------
(* JSON values: leaves, arrays of items, objects of fields. *)

LeafOf(n)       == [kind |-> n.kind, val |-> n.val]
ArrayOf(items)  == [kind |-> "Array", items |-> items]
ObjectOf(fields) == [kind |-> "Object", fields |-> fields]
NoFields        == [k \in {} |-> k]

With(f, k, v) == [x \in DOMAIN f \cup {k} |-> IF x = k THEN v ELSE f[x]]
Without(f, k) == [x \in DOMAIN f \ {k} |-> f[x]]

(* What a cursor reads that has left the tape's structure. *)
Garbage == [kind |-> "Garbage"]

(* BorrowSliceDeserializer: a cursor that steps from node to node; a       *)
(* container reads len values, an object a key before each.  A key read    *)
(* again replaces the value inserted for it before.                        *)
Parse(ns) ==
  LET IsKey(i) == i <= Len(ns) /\ ns[i].kind = "String"
      Read[i \in Nat] ==
        IF i > Len(ns) THEN [value |-> Garbage, next |-> i]
        ELSE LET n     == ns[i]
                 keyed == IF n.kind = "Object" THEN 1 ELSE 0
                 At[j \in 1..(n.len + 1)] ==
                   IF j = 1 THEN i + 1 + keyed ELSE Read[At[j - 1]].next + keyed
                 Fields[j \in 0..n.len] ==
                   IF j = 0 THEN NoFields
                   ELSE With(Fields[j - 1], ns[At[j] - 1].val, Read[At[j]].value)
             IN  CASE n.kind = "Array" ->
                        [value |-> ArrayOf([j \in 1..n.len |-> Read[At[j]].value]),
                         next  |-> At[n.len + 1]]
                   [] n.kind = "Object" ->
                        [value |-> IF \A j \in 1..n.len : IsKey(At[j] - 1)
                                     THEN ObjectOf(Fields[n.len]) ELSE Garbage,
                         next  |-> At[n.len + 1] - 1]
                   [] OTHER -> [value |-> LeafOf(n), next |-> i + 1]
  IN  Read[1].value

(* Generator::write_json: the value that the text denotes.  A container of *)
(* len 0 is empty, any other is what its iterator yields.                  *)
Render(ns) ==
  LET Write[i \in Nat] ==
        LET n   == ns[i]
            end == i + n.count
            Items[j \in Nat] ==
              IF j > end THEN << >> ELSE <<Write[j]>> \o Items[j + Count(ns[j])]
            Fields[j \in Nat] ==
              IF j > end THEN NoFields
              ELSE LET rest == Fields[j + 1 + Count(ns[j + 1])]
                   IN  IF ns[j].val \in DOMAIN rest THEN rest
                       ELSE With(rest, ns[j].val, Write[j + 1])
        IN  CASE n.kind = "Array"  -> ArrayOf(IF n.len = 0 THEN << >> ELSE Items[i + 1])
              [] n.kind = "Object" -> ObjectOf(IF n.len = 0 THEN NoFields ELSE Fields[i + 1])
              [] OTHER             -> LeafOf(n)
  IN  Write[1]
=============================================================================

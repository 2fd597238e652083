-------------------------------- MODULE Lazy --------------------------------
(***************************************************************************)
(* A client of a lazy value (src/value/lazy).  The value is a slice of a   *)
(* tape until it is written, and a DOM from then on; reads hand out values *)
(* and containers of either representation.                                *)
(*                                                                         *)
(* A container handed out borrows the value, so that the value is written  *)
(* only when none is in use.  A DOM is copied where a Cow would be.        *)
(***************************************************************************)
EXTENDS Tape, FiniteSets

CONSTANTS Tapes,       \* the tapes that the value may be created from
          Keys,        \* the keys the client asks for
          Leaves,      \* the values it writes
          MaxIndex,    \* it asks for the elements 0..MaxIndex of an array,
          MaxWrites    \* and writes so many times

VARIABLES here,        \* the lazy value
          call,        \* the client's last call
          out,         \* what it returned, or the iterator it left
          item,        \* what it returned, if it was an iterator's next
          writes,      \* calls so far that write
          short        \* out comes from a slice that GetContainer left short

vars == <<here, call, out, item, writes, short>>

OnDom(type, dom) == [type |-> type, rep |-> "Dom", dom |-> dom]
LeafResult(leaf) == [type |-> "Leaf", json |-> leaf]
Flag(b)          == [type |-> "Flag", flag |-> b]

OnTapeRep(v) == v.rep = "Tape"

(* Option::map: Value::Tape or Value::Value around what is found. *)
Found(type, found, dom) == IF found THEN OnDom(type, dom) ELSE None

-----------------------------------------------------------------------------
(* Reads of a value: each asks the representation it has. *)

KindOf(v) == IF OnTapeRep(v) THEN v.nodes[1].kind ELSE v.dom.kind

HasField(dom, k) == dom.kind = "Object" /\ k \in DOMAIN dom.fields
HasItem(dom, n)  == dom.kind = "Array" /\ n < Len(dom.items)

ValueAs(kind, v) ==
  IF OnTapeRep(v) THEN AsContainer(kind, v.nodes) ELSE Found(kind, v.dom.kind = kind, v.dom)

ObjectField(o, k) ==
  IF OnTapeRep(o) THEN ObjectGet(o.nodes, k)
  ELSE IF HasField(o.dom, k) THEN OnDom("Value", o.dom.fields[k]) ELSE None

ArrayItem(a, n) ==
  IF OnTapeRep(a) THEN ArrayGet(a.nodes, n)
  ELSE IF HasItem(a.dom, n) THEN OnDom("Value", a.dom.items[n + 1]) ELSE None

(* get, try_get, get_idx, try_get_idx: other is what any other value gives. *)
ValueField(v, k, other) ==
  LET o == ValueAs("Object", v) IN IF o.type = "Object" THEN ObjectField(o, k) ELSE other

ValueItem(v, n, other) ==
  LET a == ValueAs("Array", v) IN IF a.type = "Array" THEN ArrayItem(a, n) ELSE other

(* as_bool and its like. *)
ValueLeaf(v, kind, other) ==
  IF KindOf(v) # kind THEN other
  ELSE LeafResult(IF OnTapeRep(v) THEN LeafOf(v.nodes[1]) ELSE v.dom)

(* get_bool and its like, and try_get_bool: the field, then its leaf. *)
FieldLeaf(v, k, kind, other) ==
  LET f == ValueField(v, k, other)
  IN  IF f.type = "Value" THEN ValueLeaf(f, kind, other) ELSE f

(* get_array, get_object and their try_ variants. *)
FieldContainer(v, k, kind, other) ==
  IF OnTapeRep(v) THEN GetContainer(kind, v.nodes, k, other)
  ELSE IF v.dom.kind # "Object" THEN other
  ELSE IF ~HasField(v.dom, k) THEN None
  ELSE IF v.dom.fields[k].kind = kind THEN OnDom(kind, v.dom.fields[k])
  ELSE other

Encoded(v) ==
  [type |-> "Text", json |-> IF OnTapeRep(v) THEN Render(v.nodes) ELSE v.dom]

-----------------------------------------------------------------------------
(* Containers and iterators. *)

LenOf(c) ==
  IF OnTapeRep(c) THEN ContainerLen(c.type, c.nodes)
  ELSE [type |-> "Number",
        n |-> IF c.type = "Array" THEN Len(c.dom.items)
              ELSE Cardinality(DOMAIN c.dom.fields)]

IterOver(what, c) ==
  IF OnTapeRep(c) THEN TapeIter(what, c.nodes)
  ELSE [type |-> "Iter", what |-> what, rep |-> "Dom", dom |-> c.dom]

DomEntry(what, k, v) ==
  CASE what = "Pairs"  -> [type |-> "Pair", key |-> k, rep |-> "Dom", dom |-> v]
    [] what = "Keys"   -> [type |-> "Key", key |-> k]
    [] what = "Values" -> OnDom("Value", v)

(* The possible outcomes of next: a map yields its entries in any order.   *)
NextOf(it) ==
  IF OnTapeRep(it)
  THEN {IF it.what = "Items" THEN ArrayNext(it) ELSE ObjectNext(it)}
  ELSE IF it.what = "Items"
  THEN {IF it.dom.items = << >> THEN [item |-> None, iter |-> it]
        ELSE [item |-> OnDom("Value", Head(it.dom.items)),
              iter |-> [it EXCEPT !.dom = ArrayOf(Tail(it.dom.items))]]}
  ELSE IF DOMAIN it.dom.fields = {}
  THEN {[item |-> None, iter |-> it]}
  ELSE {[item |-> DomEntry(it.what, k, it.dom.fields[k]),
         iter |-> [it EXCEPT !.dom = ObjectOf(Without(it.dom.fields, k))]]
          : k \in DOMAIN it.dom.fields}

-----------------------------------------------------------------------------
(* The client's calls. *)

Init ==
  /\ \E ns \in Tapes : here = OnTape("Value", ns)
  /\ call = [op |-> "none"] /\ out = None /\ item = None
  /\ writes = 0 /\ short = FALSE

Running == out.type # "Panic" /\ item.type # "Panic"

(* A call on the value, and one on the container it handed out. *)
Returns(c, x) ==
  /\ Running
  /\ call' = c /\ out' = x /\ item' = None
  /\ short' = (c.op = "get_container" /\ x.type \in Containers /\ OnTapeRep(x))
  /\ UNCHANGED <<here, writes>>

Gives(c, x) ==
  /\ Running
  /\ call' = c /\ out' = x /\ item' = None
  /\ UNCHANGED <<here, writes, short>>

(* What a call returns for a value of another kind. *)
Wrong(try) == IF try THEN Error ELSE None

Get ==
  \E k \in Keys, try \in BOOLEAN :
    Returns([op |-> "get", key |-> k, try |-> try], ValueField(here, k, Wrong(try)))

GetIdx ==
  \E n \in 0..MaxIndex, try \in BOOLEAN :
    Returns([op |-> "get_idx", idx |-> n, try |-> try], ValueItem(here, n, Wrong(try)))

GetLeaf ==
  \E k \in Keys, kind \in LeafKinds \ {"Null"}, try \in BOOLEAN :
    Returns([op |-> "get_leaf", key |-> k, kind |-> kind, try |-> try],
            FieldLeaf(here, k, kind, Wrong(try)))

GetContainerOf ==
  \E k \in Keys, kind \in Containers, try \in BOOLEAN :
    Returns([op |-> "get_container", key |-> k, kind |-> kind, try |-> try],
            FieldContainer(here, k, kind, Wrong(try)))

AsLeaf ==
  \E kind \in LeafKinds : Returns([op |-> "as_leaf", kind |-> kind], ValueLeaf(here, kind, None))

AsArrayOrObject ==
  \E kind \in Containers : Returns([op |-> "as_container", kind |-> kind], ValueAs(kind, here))

ContainsKey ==
  \E k \in Keys :
    LET f == ValueField(here, k, None)
    IN  Returns([op |-> "contains_key", key |-> k],
                IF f = Panic THEN Panic ELSE Flag(f.type = "Value"))

Encode == Returns([op |-> "encode"], Encoded(here))

ContainerGet ==
  \/ /\ out.type = "Object"
     /\ \E k \in Keys : Gives([op |-> "field", key |-> k], ObjectField(out, k))
  \/ /\ out.type = "Array"
     /\ \E n \in 0..MaxIndex : Gives([op |-> "item", idx |-> n], ArrayItem(out, n))

ContainerLength == out.type \in Containers /\ Gives([op |-> "len"], LenOf(out))

Iterate ==
  /\ out.type \in Containers
  /\ \E what \in (IF out.type = "Array" THEN {"Items"} ELSE {"Pairs", "Keys", "Values"}) :
       Gives([op |-> "iter", what |-> what], IterOver(what, out))

IterNext ==
  /\ Running /\ out.type = "Iter"
  /\ call' = [op |-> "next"]
  /\ \E r \in NextOf(out) : item' = r.item /\ out' = r.iter
  /\ UNCHANGED <<here, writes, short>>

(* The client goes on with a value it was given, by itself or in a pair    *)
(* (into_owned).                                                           *)
Follow ==
  /\ Running
  /\ call' = [op |-> "follow"]
  /\ \E v \in {out, item} :
       /\ v.type \in {"Value", "Pair"}
       /\ here' = IF OnTapeRep(v) THEN OnTape("Value", v.nodes) ELSE OnDom("Value", v.dom)
  /\ out' = None /\ item' = None /\ short' = FALSE
  /\ UNCHANGED writes

-----------------------------------------------------------------------------
(* Writes: as_mut upgrades a tape, whether or not the write that follows   *)
(* finds a container of its kind.                                          *)

Upgraded(v) == IF OnTapeRep(v) THEN Parse(v.nodes) ELSE v.dom

(* Writes result and returns x to a DOM of the given kind, refuses others. *)
Writes(c, kind, dom, result, x) ==
  /\ Running /\ writes < MaxWrites
  /\ call' = c
  /\ here' = OnDom("Value", IF dom.kind = kind THEN result ELSE dom)
  /\ out' = IF dom.kind = kind THEN x ELSE Error
  /\ item' = None /\ short' = FALSE
  /\ writes' = writes + 1

Insert ==
  \E k \in Keys, leaf \in Leaves :
    LET dom == Upgraded(here)
    IN  Writes([op |-> "insert", key |-> k, leaf |-> leaf], "Object", dom,
               ObjectOf(With(dom.fields, k, leaf)),
               Found("Value", HasField(dom, k), dom.fields[k]))

Remove ==
  \E k \in Keys :
    LET dom == Upgraded(here)
    IN  Writes([op |-> "remove", key |-> k], "Object", dom,
               ObjectOf(Without(dom.fields, k)),
               Found("Value", HasField(dom, k), dom.fields[k]))

Push ==
  \E leaf \in Leaves :
    LET dom == Upgraded(here)
    IN  Writes([op |-> "push", leaf |-> leaf], "Array", dom,
               ArrayOf(Append(dom.items, leaf)), None)

Pop ==
  LET dom  == Upgraded(here)
      last == Len(dom.items)
  IN  Writes([op |-> "pop"], "Array", dom,
             ArrayOf(SubSeq(dom.items, 1, last - 1)),
             Found("Value", last > 0, dom.items[last]))

(* into_value *)
IntoValue ==
  /\ Running /\ writes < MaxWrites
  /\ call' = [op |-> "into_value"]
  /\ here' = OnDom("Value", Upgraded(here))
  /\ out' = None /\ item' = None /\ short' = FALSE
  /\ writes' = writes + 1

Next ==
  \/ Get \/ GetIdx \/ GetLeaf \/ GetContainerOf \/ AsLeaf \/ AsArrayOrObject
  \/ ContainsKey \/ Encode
  \/ ContainerGet \/ ContainerLength \/ Iterate \/ IterNext \/ Follow
  \/ Insert \/ Remove \/ Push \/ Pop \/ IntoValue

Spec == Init /\ [][Next]_vars
=============================================================================

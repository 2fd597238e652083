--------------------------- MODULE LazyProperties ---------------------------
(***************************************************************************)
(* What a lazy value must get right.  Documents are trees; the tape of a   *)
(* document lists its nodes, the value of a document is the JSON value it  *)
(* means, and the lazy value over the tape has to be that JSON value to    *)
(* its client (module Json), before and after it is upgraded.              *)
(***************************************************************************)
EXTENDS Lazy

LOCAL S == INSTANCE SequencesExt

CONSTANT Documents     \* leaves, arrays of items, objects of entries

(* The nodes of a document, depth first, with len and count as stage 2     *)
(* writes them.                                                            *)
RECURSIVE Listing(_)
Listing(d) ==
  CASE d.kind = "Array" ->
         LET below == S!FlattenSeq([j \in DOMAIN d.items |-> Listing(d.items[j])])
         IN  <<Container("Array", Len(d.items), Len(below))>> \o below
    [] d.kind = "Object" ->
         LET below == S!FlattenSeq([j \in DOMAIN d.entries |->
                        <<Leaf("String", d.entries[j].key)>> \o Listing(d.entries[j].value)])
         IN  <<Container("Object", Len(d.entries), Len(below))>> \o below
    [] OTHER -> <<Leaf(d.kind, d.val)>>

KeysOf(d) == {d.entries[j].key : j \in DOMAIN d.entries}

(* The value: the last entry of a key counts. *)
RECURSIVE ValueOf(_)
ValueOf(d) ==
  CASE d.kind = "Array"  -> ArrayOf([j \in DOMAIN d.items |-> ValueOf(d.items[j])])
    [] d.kind = "Object" ->
         ObjectOf([k \in KeysOf(d) |->
           ValueOf(d.entries[S!SelectLastInSeq(d.entries, LAMBDA e : e.key = k)].value)])
    [] OTHER -> d

(* A document and all that is in it; and what is left of a container when  *)
(* an iterator has passed its first entries.                               *)
RECURSIVE PartsOf(_)
PartsOf(d) ==
  {d} \cup CASE d.kind = "Array"  -> UNION {PartsOf(d.items[j]) : j \in DOMAIN d.items}
             [] d.kind = "Object" -> UNION {PartsOf(d.entries[j].value) : j \in DOMAIN d.entries}
             [] OTHER -> {}

Parts == UNION {PartsOf(d) : d \in Documents}

RestsOf(d) ==
  CASE d.kind = "Array"  -> {[d EXCEPT !.items = SubSeq(@, n, Len(@))] : n \in 1..(Len(d.items) + 1)}
    [] d.kind = "Object" -> {[d EXCEPT !.entries = SubSeq(@, n, Len(@))] : n \in 1..(Len(d.entries) + 1)}
    [] OTHER -> {}

Rests == UNION {RestsOf(d) : d \in Parts}

-----------------------------------------------------------------------------
(* What the slices of a tape mean: a slice that lists a part of a document *)
(* means its value, any other is garbage.                                  *)

Listings == {Listing(d) : d \in Parts}
Meanings == [ns \in Listings |-> ValueOf(CHOOSE d \in Parts : Listing(d) = ns)]

LeftOf(d)    == <<d.kind, Tail(Listing(d))>>
RestMeanings == [left \in {LeftOf(d) : d \in Rests} |-> ValueOf(CHOOSE d \in Rests : LeftOf(d) = left)]

Meaning(ns) == IF ns \in Listings THEN Meanings[ns] ELSE Garbage

RestMeaning(kind, ns) ==
  IF <<kind, ns>> \in DOMAIN RestMeanings THEN RestMeanings[<<kind, ns>>] ELSE Garbage

JsonOf(x) ==
  IF x.rep = "Dom" THEN x.dom
  ELSE IF x.type = "Iter"
  THEN RestMeaning(IF x.what = "Items" THEN "Array" ELSE "Object", x.nodes)
  ELSE Meaning(x.nodes)

(* A result without its representation. *)
Abstract(x) ==
  CASE x.type \in Containers \cup {"Value"} -> [type |-> x.type, json |-> JsonOf(x)]
    [] x.type = "Pair" -> [type |-> "Pair", key |-> x.key, json |-> JsonOf(x)]
    [] x.type = "Iter" -> [type |-> "Iter", what |-> x.what, json |-> JsonOf(x)]
    [] OTHER -> x

J == INSTANCE Json WITH Values <- {ValueOf(d) : d \in Documents},
                        here   <- JsonOf(here),
                        call   <- call,
                        out    <- Abstract(out),
                        item   <- Abstract(item)

-----------------------------------------------------------------------------
(* A slice of the tape that was handed out starts with a node and ends     *)
(* where that node's count says it ends.                                   *)
Whole(x) ==
  x.type \in Containers \cup {"Value", "Pair"} /\ x.rep = "Tape" =>
    x.nodes # << >> /\ Len(x.nodes) = Count(x.nodes[1])

(* The types, and Whole for all slices but those of get_array and          *)
(* get_object (lazy::Value, tape::Value).                                  *)
TypeOK ==
  /\ here.type = "Value" /\ here.rep \in {"Tape", "Dom"} /\ Whole(here)
  /\ out.type \in Containers \cup {"None", "Error", "Panic", "Value", "Leaf", "Flag", "Number",
                                   "Text", "Iter"}
  /\ item.type \in {"None", "Panic", "Value", "Pair", "Key"}
  /\ writes \in 0..MaxWrites /\ short \in BOOLEAN
  /\ ~short => Whole(out) /\ Whole(item)

(* A lazy value implements Json: whatever calls came before, read, written *)
(* or followed, on a tape or on the DOM it was upgraded to, a client gets  *)
(* the answers of the JSON value, and no call panics.  Calls through a     *)
(* slice that get_array or get_object left short are excepted              *)
(* (HandsOutWholeContainers is about those).                               *)
BehavesAsJson ==
  J!Init /\ [][short \/ short' \/ J!Next]_<<JsonOf(here), call, Abstract(out), Abstract(item)>>

(* Every value that a client is handed is a part of the document, node for *)
(* node, also when it came through a slice that get_array or get_object    *)
(* left short: what is missing there is not found, or a panic, but never   *)
(* read as something else (tape::Array, tape::Object and their iterators). *)
ValuesArePartsOfDocument ==
  \A x \in {here, out, item} :
    x.type \in {"Value", "Pair"} /\ x.rep = "Tape" => x.nodes \in Listings

(* Every container is handed out with its header and all of its nodes, as  *)
(* as_array and as_object do (tape/trait_impls.rs:181).                    *)
HandsOutWholeContainers == Whole(out)
=============================================================================

------------------------ MODULE DeserializeProperties ------------------------
(***************************************************************************)
(* What the readers of a document owe to a serde client.                   *)
(***************************************************************************)
EXTENDS Deserialize, FiniteSets, SequencesExt

CONSTANTS Trees,       \* the JSON values of the documents, and their parts
          Depth        \* how deep a value nests

(* The nodes that stage 2 writes for a JSON value: its own, which for a    *)
(* container holds the number of elements or entries, and those of its     *)
(* parts, the keys of an object among them.                                *)
Header(v) ==
  CASE v.kind = "Array"  -> [kind |-> "Array", len |-> Len(v.items)]
    [] v.kind = "Object" -> [kind |-> "Object", len |-> Len(v.entries)]
    [] OTHER             -> v

Fields(es) == FlattenSeq([i \in DOMAIN es |-> <<Leaf("String", es[i].key), es[i].value>>])
Parts(v)   == IF v.kind = "Object" THEN Fields(Entries(v)) ELSE Items(v)

Listing[v \in Trees] ==
  <<Header(v)>> \o FlattenSeq([i \in DOMAIN Parts(v) |-> Listing[Parts(v)[i]]])

Forest(ts) == FlattenSeq([i \in DOMAIN ts |-> Listing[ts[i]]])

(* A value is a leaf or has parts, less deep, that are values.  The keys   *)
(* of an object differ.                                                    *)
LeafKinds == {"Null", "Bool", "F64", "I64", "U64", "String"}
TreeType  == [kind : LeafKinds, val : STRING] \cup [kind : {"Array"}, items : Seq(Trees)]
             \cup [kind : {"Object"}, entries : Seq([key : STRING, value : Trees])]

ASSUME TreesAssumption ==
  /\ Depth \in [Trees -> Nat]
  /\ \A v \in Trees :
       /\ v \in TreeType
       /\ \A i \in DOMAIN Items(v) : Depth[Items(v)[i]] < Depth[v]
       /\ \A i \in DOMAIN Entries(v) :
            LET key == Leaf("String", Entries(v)[i].key)
            IN  /\ key \in Trees /\ Depth[key] < Depth[v]
                /\ Depth[Entries(v)[i].value] < Depth[v]
       /\ \A i, j \in DOMAIN Entries(v) : Entries(v)[i].key = Entries(v)[j].key => i = j

(* A document is a value and the tape that stage 2 makes of it. *)
ASSUME DocsAssumption ==
  \A d \in Docs : d.tree \in Trees /\ d = [tree |-> d.tree, tape |-> Listing[d.tree]]

Frames == {"value", "key", "seq", "map", "enum", "variant", "content"}

(* The state is well formed: the cursor is a position of the tape or just  *)
(* behind it, and the tape's own reader never leaves the lockstep.         *)
TypeOK ==
  /\ doc \in Docs
  /\ client \in Clients
  /\ idx \in 1..(Len(doc.tape) + 1) \/ phase = "failed"
  /\ \A i \in DOMAIN stack : stack[i].at \in Frames
  /\ ret \in {Nothing} \/ ret.kind \in {"Number", "Array", "Object"} \cup {BorrowedVisited[v] : v \in LeafVisits}
  /\ "tape" \in live /\ live \subseteq Readers
  /\ phase \in {"running", "done", "failed"}

(* What the calls under way have still to read of the value. *)
Left(f) ==
  CASE f.at \in {"value", "key"} -> <<f.n>>
    [] f.at = "seq"     -> f.items
    [] f.at = "map"     -> (IF f.v = Nothing THEN << >> ELSE <<f.v>>) \o Fields(f.entries)
    [] f.at = "enum"    -> IF f.unit THEN << >> ELSE <<f.key, f.n>>
    [] f.at = "variant" -> IF f.unit THEN << >> ELSE <<f.n>>
    [] f.at = "content" -> << >>

(* The cursor of the tape is where the iterators over the values are:      *)
(* whatever types a client asks for, as long as each of its visitors       *)
(* exhausts its access, the nodes from the cursor on are those of the      *)
(* items, keys and values that the values' iterators have left.            *)
CursorWithIterators ==
  client # "hasty" /\ phase = "running" =>
    SubSeq(doc.tape, idx, Len(doc.tape)) = Forest(FlattenSeq([i \in DOMAIN stack |-> Left(stack[i])]))

(* A client reads the same from a document and from the value that it was  *)
(* parsed into, but for four kinds of request: an owned value does not     *)
(* lend its strings; a key of a consumed value is not parsed as an         *)
(* integer; a value hands an empty tuple variant to visit_unit; and only   *)
(* the tape reads a struct variant from an array.                          *)
ByValue == {"borrowed", "owned"}

OwnDifference(r) ==
  \/ r = "owned" /\ differed.at \in {"value", "key"} /\ differed.hint = "str"
  \/ r \in ByValue /\ differed.at = "key" /\ differed.hint \in IntHints
  \/ differed.at = "tuple_variant" /\ differed.n = ArrayOf(<< >>)
  \/ differed.at = "struct_variant" /\ differed.n.kind = "Array"

ReadersAgree ==
  [][client # "hasty" => \A r \in live \ live' : OwnDifference(r)']_live

(* The typed hints read the next node without a check.  They may: however  *)
(* early the visitors return, in whatever nesting, a client that is about  *)
(* to read has a node under the cursor.                                    *)
AboutToRead ==
  /\ phase = "running" /\ ret = Nothing /\ stack # << >>
  /\ Top.at \in {"value", "key"} \/ (Top.at \in {"enum", "variant"} /\ ~Top.unit)

ReadsInsideTape == AboutToRead => idx <= Len(doc.tape)

(* What a client makes of a JSON value: a Value is the value itself, for   *)
(* any other type it is the value up to the types of its numbers.          *)
Plain[v \in Trees] ==
  IF v.kind = "Array" THEN ArrayOf([i \in DOMAIN v.items |-> Plain[v.items[i]]])
  ELSE IF v.kind = "Object"
    THEN ObjectOf([i \in DOMAIN v.entries |->
                     Entry(v.entries[i].key, Plain[v.entries[i].value])])
  ELSE IF v.kind \in {"I64", "U64", "F64"} THEN Leaf("Number", v.val) ELSE v

Shown(v) == IF client \in {"borrowed", "owned"} THEN v ELSE Plain[v]

(* A client that succeeds has been shown the whole document and nothing    *)
(* else, each value once, in its place and under its key.                  *)
ClientSeesDocument ==
  client # "hasty" /\ phase = "done" => ret = Shown(doc.tree) /\ idx = Len(doc.tape) + 1

(* Deserializing into a Value from the tape gives the value that the DOM   *)
(* builder gives, numbers in their own type, and never fails.              *)
ValueFromTape ==
  client \in {"borrowed", "owned"} =>
                      /\ phase # "failed"
                      /\ phase = "done" => ret = doc.tree

(* SeqAccess and MapAccess let a visitor go through the elements and       *)
(* entries of their own container: the node that a client is about to read *)
(* is the one that the value's iterator hands out in its place.            *)
AccessStaysInContainer ==
  AboutToRead /\ Top.at \in {"value", "key"} /\ live = Readers => Node = Header(Top.n)
=============================================================================

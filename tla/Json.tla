-------------------------------- MODULE Json --------------------------------
(***************************************************************************)
(* What a lazy value promises: a client that reads and writes it cannot    *)
(* tell it from a JSON value, whatever it is represented by.               *)
(***************************************************************************)
EXTENDS Integers, Sequences, FiniteSets

CONSTANTS Values      \* what the value may be at first

VARIABLES here,       \* the value
          call,       \* the client's last call
          out,        \* what it returned, or the iterator it left
          item        \* what it returned, if it was an iterator's next

vars == <<here, call, out, item>>

None           == [type |-> "None"]
Error          == [type |-> "Error"]
Of(type, j)    == [type |-> type, json |-> j]
Iter(what, j)  == [type |-> "Iter", what |-> what, json |-> j]
Some(found, x) == IF found THEN x ELSE None

IsArray(j)  == j.kind = "Array"
IsObject(j) == j.kind = "Object"

Put(j, k, v) ==
  [j EXCEPT !.fields = [x \in DOMAIN j.fields \cup {k} |-> IF x = k THEN v ELSE j.fields[x]]]
Drop(j, k)  == [j EXCEPT !.fields = [x \in DOMAIN j.fields \ {k} |-> j.fields[x]]]
Add(j, v)   == [j EXCEPT !.items = Append(j.items, v)]
Rest(j)     == [j EXCEPT !.items = Tail(j.items)]
Front(j)    == [j EXCEPT !.items = SubSeq(j.items, 1, Len(j.items) - 1)]

-----------------------------------------------------------------------------
(* Reads.  A call on a value of another kind fails if the client asked for *)
(* an error, and finds nothing if it did not.                              *)

Field(j, k) == Some(k \in DOMAIN j.fields, Of("Value", j.fields[k]))
Item(j, n)  == Some(n < Len(j.items), Of("Value", j.items[n + 1]))
Size(j)     == IF IsArray(j) THEN Len(j.items) ELSE Cardinality(DOMAIN j.fields)

Wrong(c) == IF c.try THEN Error ELSE None

FieldAs(j, c, type) ==
  IF ~IsObject(j) THEN Wrong(c)
  ELSE IF c.key \notin DOMAIN j.fields THEN None
  ELSE IF j.fields[c.key].kind = c.kind THEN Of(type, j.fields[c.key])
  ELSE Wrong(c)

ReadOps == {"get", "get_idx", "get_leaf", "get_container", "as_leaf", "as_container",
            "contains_key", "encode"}

Answer(j, c) ==
  CASE c.op = "get"           -> IF IsObject(j) THEN Field(j, c.key) ELSE Wrong(c)
    [] c.op = "get_idx"       -> IF IsArray(j) THEN Item(j, c.idx) ELSE Wrong(c)
    [] c.op = "get_leaf"      -> FieldAs(j, c, "Leaf")
    [] c.op = "get_container" -> FieldAs(j, c, c.kind)
    [] c.op = "as_leaf"       -> Some(j.kind = c.kind, Of("Leaf", j))
    [] c.op = "as_container"  -> Some(j.kind = c.kind, Of(c.kind, j))
    [] c.op = "contains_key"  -> [type |-> "Flag", flag |-> IsObject(j) /\ c.key \in DOMAIN j.fields]
    [] c.op = "encode"        -> Of("Text", j)

Read ==
  /\ call'.op \in ReadOps
  /\ out' = Answer(here, call') /\ item' = None
  /\ UNCHANGED here

(* Reads of a container handed out before. *)
ReadContainer ==
  LET j == out.json
      c == call'
  IN  /\ out.type \in {"Array", "Object"}
      /\ \/ c.op = "field" /\ IsObject(j) /\ out' = Field(j, c.key)
         \/ c.op = "item" /\ IsArray(j) /\ out' = Item(j, c.idx)
         \/ c.op = "len" /\ out' = [type |-> "Number", n |-> Size(j)]
         \/ c.op = "iter" /\ out' = Iter(c.what, j)
      /\ item' = None
      /\ UNCHANGED here

(* An iterator hands out the items of an array in their order, the entries *)
(* of an object in any, each of them once.                                 *)
Entry(what, j, k) ==
  CASE what = "Pairs"  -> [type |-> "Pair", key |-> k, json |-> j.fields[k]]
    [] what = "Keys"   -> [type |-> "Key", key |-> k]
    [] what = "Values" -> Of("Value", j.fields[k])

IterNext ==
  LET j == out.json
  IN  /\ call'.op = "next" /\ out.type = "Iter"
      /\ \/ Size(j) = 0 /\ item' = None /\ UNCHANGED out
         \/ /\ IsArray(j) /\ j.items # << >>
            /\ item' = Of("Value", Head(j.items))
            /\ out' = Iter(out.what, Rest(j))
         \/ /\ IsObject(j)
            /\ \E k \in DOMAIN j.fields :
                 item' = Entry(out.what, j, k) /\ out' = Iter(out.what, Drop(j, k))
      /\ UNCHANGED here

Follow ==
  /\ call'.op = "follow"
  /\ \E v \in {out, item} : v.type \in {"Value", "Pair"} /\ here' = v.json
  /\ out' = None /\ item' = None

-----------------------------------------------------------------------------
(* Writes; one that finds a value of another kind changes nothing. *)

Old(j, k) == Some(k \in DOMAIN j.fields, Of("Value", j.fields[k]))

Write ==
  LET j == here
      c == call'
  IN  /\ \/ /\ c.op = "insert" /\ IsObject(j)
            /\ here' = Put(j, c.key, c.leaf) /\ out' = Old(j, c.key)
         \/ /\ c.op = "remove" /\ IsObject(j)
            /\ here' = Drop(j, c.key) /\ out' = Old(j, c.key)
         \/ /\ c.op = "push" /\ IsArray(j)
            /\ here' = Add(j, c.leaf) /\ out' = None
         \/ /\ c.op = "pop" /\ IsArray(j)
            /\ IF j.items = << >> THEN here' = j /\ out' = None
               ELSE here' = Front(j) /\ out' = Of("Value", j.items[Len(j.items)])
         \/ /\ \/ c.op \in {"insert", "remove"} /\ ~IsObject(j)
               \/ c.op \in {"push", "pop"} /\ ~IsArray(j)
            /\ here' = j /\ out' = Error
         \/ /\ c.op = "into_value"
            /\ here' = j /\ out' = None
      /\ item' = None

Init ==
  /\ here \in Values
  /\ call = [op |-> "none"] /\ out = None /\ item = None

Next == Read \/ ReadContainer \/ IterNext \/ Follow \/ Write

Spec == Init /\ [][Next]_vars
=============================================================================

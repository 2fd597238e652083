------------------------------ MODULE Serialize ------------------------------
(***************************************************************************)
(* Serde serialization.  The Serialize implementation of some type makes   *)
(* one call of a Serializer per value: a primitive is written at once, a   *)
(* container is opened, given its elements or entries one by one, and      *)
(* ended.  The same calls run in lockstep on the three serializers of the  *)
(* library: to_vec, which writes compact text, to_vec_pretty, which lays   *)
(* it out in lines, and to_value, which builds a value (borrowed or        *)
(* owned).  The value that was built is then serialized in its turn.  A    *)
(* serializer that returns an error leaves the lockstep.                   *)
(***************************************************************************)
EXTENDS Integers, Sequences

CONSTANT Values        \* what is serialized

VARIABLES value,       \* what is being serialized: a type's value, then the Value
          into,        \* which to_value: "borrowed" or "owned"
          bits128,     \* the feature "128bit"
          task,        \* the value to serialize next, or Nothing
          stack,       \* the open containers, innermost first
          compact,     \* the text of to_vec, as tokens
          pretty,      \* the text of to_vec_pretty, as tokens and line ends
          dent,        \* PrettySerializer.dent
          result,      \* what to_value returned, or Nothing
          live,        \* the serializers that have not returned an error
          phase        \* "running", "done" (of the type), "again" (of the
                       \* Value), "over" or "failed"

vars == <<value, into, bits128, task, stack, compact, pretty, dent, result, live, phase>>

Nothing == [m |-> "nothing"]
Writers == {"compact", "pretty", "dom"}

(* The data model of serde.  Seq stands for sequences, tuples and tuple    *)
(* structs, Unit for none, unit and unit structs; a length may be unknown. *)
Texts    == {"str", "char", "unit_variant"}
Integral == {"i64", "u64", "i128"}
Prims    == Texts \cup Integral \cup {"unit", "bool", "f64"}
Variants == {"newtype_variant", "tuple_variant", "struct_variant"}
Forwards == {"some", "newtype_struct"}

Prim(m, val)  == [m |-> m, val |-> val]
Bytes(n)      == [m |-> "bytes", vals |-> n]
Compound(m, name, sized, keys, items) ==
  [m |-> m, name |-> name, sized |-> sized, keys |-> keys, items |-> items]
Forward(m, v) == [m |-> m, of |-> v]

(* A Value, too, is a value of the data model.                             *)
Array(items)        == Compound("Array", "", TRUE, << >>, items)
Object(keys, items) == Compound("Object", "", TRUE, keys, items)

(* Value::serialize: containers tell their length. *)
AsCalls(v) ==
  CASE v.m = "Array"  -> [v EXCEPT !.m = "seq"]
    [] v.m = "Object" -> [v EXCEPT !.m = "map"]
    [] OTHER          -> v

KnownEmpty(v) == v.sized /\ v.items = << >>

-----------------------------------------------------------------------------
(* Text: punctuation, strings, literals; and the ends of lines.            *)

Punct(s) == [t |-> s]
Str(s)   == [t |-> "str", v |-> s]
Lit(s)   == [t |-> "lit", v |-> s]
Line(d)  == [t |-> "line", dent |-> d]
Comma    == Punct(",")
Colon    == Punct(":")

PrimToken(p) == IF p.m \in Texts THEN Str(p.val) ELSE Lit(p.val)

(* MapKeySerializer: keys are strings, integers are written as strings.    *)
RECURSIVE KeyText(_)
KeyText(k) ==
  CASE k.m \in Texts \cup Integral -> k.val
    [] k.m = "newtype_struct"      -> KeyText(k.of)
    [] OTHER                       -> "KeyMustBeAString"

PrettyKeyText(k) == KeyText(k)

(* What to_vec writes. *)
Commas(vals) == [i \in 1..(2 * Len(vals) - 1) |-> IF i % 2 = 1 THEN Lit(vals[(i + 1) \div 2]) ELSE Comma]

CompactBytes(vals) ==
  <<Punct("[")>> \o (IF vals = << >> THEN << >> ELSE Commas(vals)) \o <<Punct("]")>>

OpenBrackets(v, open, close) ==
  IF KnownEmpty(v) THEN <<Punct(open), Punct(close)>> ELSE <<Punct(open)>>

CompactOpen(v) ==
  LET name == <<Punct("{"), Str(v.name), Colon>>
  IN  CASE v.m = "seq"             -> OpenBrackets(v, "[", "]")
        [] v.m \in {"map", "struct"} -> OpenBrackets(v, "{", "}")
        [] v.m = "newtype_variant" -> name
        [] v.m = "tuple_variant"   -> name \o OpenBrackets(v, "[", "]")
        [] v.m = "struct_variant"  -> name \o OpenBrackets(v, "{", "}")

CompactNext(f) == IF f.first THEN << >> ELSE <<Comma>>

CompactSeqEnd(f) == IF f.first THEN << >> ELSE <<Punct("]")>>
CompactMapEnd(f) == IF KnownEmpty(f.v) THEN << >> ELSE <<Punct("}")>>
CompactStructEnd(f) == IF f.first THEN << >> ELSE <<Punct("}")>>
(* (A mutated form: one brace where a struct variant needs two.) *)
CompactVariantEndOnce(f) ==
  CASE f.v.m = "newtype_variant" -> <<Punct("}")>>
    [] f.v.m = "tuple_variant"   -> IF f.first THEN <<Punct("}")>> ELSE <<Punct("]"), Punct("}")>>
    [] f.v.m = "struct_variant"  -> <<Punct("}")>>
CompactVariantEnd(f) ==
  CASE f.v.m = "newtype_variant" -> <<Punct("}")>>
    [] f.v.m = "tuple_variant"   -> IF f.first THEN <<Punct("}")>> ELSE <<Punct("]"), Punct("}")>>
    [] f.v.m = "struct_variant"  -> IF f.first THEN <<Punct("}")>> ELSE <<Punct("}"), Punct("}")>>

CompactEnd(f) ==
  CASE f.v.m = "seq"      -> CompactSeqEnd(f)
    [] f.v.m = "map"      -> CompactMapEnd(f)
    [] f.v.m = "struct"   -> CompactStructEnd(f)
    [] f.v.m \in Variants -> CompactVariantEnd(f)

-----------------------------------------------------------------------------
(* What to_vec_pretty writes when dent is d, and the dent it leaves.       *)

Laid(out, d) == [out |-> out, dent |-> d]

PrettyBytes(vals, d) ==
  Laid(<<Punct("[")>>
       \o (IF vals = << >> THEN << >> ELSE <<Line(d + 1)>> \o Commas(vals) \o <<Line(d)>>)
       \o <<Punct("]")>>, d)

PrettyOpen(v, d) ==
  LET name == <<Punct("{"), Line(d + 1), Str(v.name), Colon>>
  IN  CASE v.m = "seq" -> Laid(OpenBrackets(v, "[", "]"), IF KnownEmpty(v) THEN d ELSE d + 1)
        [] v.m \in {"map", "struct"} -> Laid(OpenBrackets(v, "{", "}"), IF KnownEmpty(v) THEN d ELSE d + 1)
        [] v.m = "newtype_variant" -> Laid(<<Punct("{"), Str(v.name), Colon>>, d)
        [] v.m = "tuple_variant" -> Laid(name \o OpenBrackets(v, "[", "]"), IF KnownEmpty(v) THEN d + 1 ELSE d + 2)
        [] v.m = "struct_variant" -> Laid(name \o OpenBrackets(v, "{", "}"), d + 1)

(* Only the first field of a struct goes on a line of its own, and the     *)
(* first field of a struct variant indents.                                *)
(* (Mutated: an element's comma is forgotten.) *)
PrettySeqNextBare(f, d) == Laid(<<Line(d)>>, d)
PrettySeqNext(f, d) == Laid(IF f.first THEN <<Line(d)>> ELSE <<Comma, Line(d)>>, d)
PrettyMapNext(f, d) == Laid(IF f.first THEN <<Line(d)>> ELSE <<Comma, Line(d)>>, d)
PrettyStructNext(f, d) == Laid(IF f.first THEN <<Line(d)>> ELSE <<Comma>>, d)
(* (A mutated form: it does not.) *)
PrettyStructVariantNextFlat(f, d) == Laid(IF f.first THEN <<Line(d)>> ELSE <<Comma>>, d)
PrettyStructVariantNext(f, d) ==
  IF f.first THEN Laid(<<Line(d + 1)>>, d + 1) ELSE Laid(<<Comma>>, d)

PrettyNext(f, d) ==
  CASE f.v.m \in {"seq", "tuple_variant"} -> PrettySeqNext(f, d)
    [] f.v.m = "map"            -> PrettyMapNext(f, d)
    [] f.v.m = "struct"         -> PrettyStructNext(f, d)
    [] f.v.m = "struct_variant" -> PrettyStructVariantNext(f, d)

Close(f, close, d) ==
  IF f.first THEN Laid(<< >>, d) ELSE Laid(<<Line(d - 1), Punct(close)>>, d - 1)

PrettySeqEnd(f, d)     == Close(f, "]", d)
PrettyTupleVariantEnd(f, d) == Close(f, "}", d)
PrettyMapEnd(f, d)     == Close(f, "}", d)
(* (A mutated form: the braces of a struct variant that has no fields.) *)
PrettyStructVariantEndTwice(f, d) ==
  Laid(<<Line(d - 1), Punct("}"), Line(d - 2), Punct("}")>>, d - 2)
PrettyStructVariantEnd(f, d) ==
  IF f.first THEN Laid(<<Line(d - 1), Punct("}")>>, d - 1)
  ELSE Laid(<<Line(d - 1), Punct("}"), Line(d - 2), Punct("}")>>, d - 2)

PrettyEnd(f, d) ==
  CASE f.v.m = "seq"              -> PrettySeqEnd(f, d)
    [] f.v.m = "tuple_variant"    -> PrettyTupleVariantEnd(f, d)
    [] f.v.m \in {"map", "struct"} -> PrettyMapEnd(f, d)
    [] f.v.m = "newtype_variant"  -> Laid(<<Punct("}")>>, d)
    [] f.v.m = "struct_variant"   -> PrettyStructVariantEnd(f, d)

-----------------------------------------------------------------------------
(* What to_value builds.  Without the feature there are no 128 bit         *)
(* integers in a Value.                                                    *)

BorrowedPrim(p) ==
  CASE p.m \in Texts             -> Prim("str", p.val)
    [] p.m = "i128" /\ ~bits128  -> Nothing
    [] OTHER                     -> p
OwnedPrim(p) == BorrowedPrim(p)

DomBytes(vals) == Array([i \in DOMAIN vals |-> Prim("u64", vals[i])])

(* (A mutated form: to_value takes booleans for keys.) *)
RECURSIVE BorrowedKeyLax(_)
BorrowedKeyLax(k) ==
  CASE k.m \in Texts \cup {"i64", "u64", "bool"} -> k.val
    [] k.m = "newtype_struct"                    -> BorrowedKeyLax(k.of)
    [] OTHER                                     -> "KeyMustBeAString"

RECURSIVE BorrowedKey(_), OwnedKey(_)
BorrowedKey(k) ==
  CASE k.m \in Texts \cup {"i64", "u64"} -> k.val
    [] k.m = "newtype_struct"            -> BorrowedKey(k.of)
    [] OTHER                             -> "KeyMustBeAString"
OwnedKey(k) ==
  CASE k.m \in Texts \cup {"i64", "u64"} -> k.val
    [] k.m = "newtype_struct"            -> OwnedKey(k.of)
    [] OTHER                             -> "KeyMustBeAString"

DomPrim(p)   == IF into = "owned" THEN OwnedPrim(p) ELSE BorrowedPrim(p)
DomKey(k)    == IF into = "owned" THEN OwnedKey(k) ELSE BorrowedKey(k)

(* The frame of an open container: the entries that were given, and the    *)
(* key that waits for its value.                                           *)
Frame(v) == [v |-> v, given |-> 0, first |-> TRUE, key |-> "", hasKey |-> FALSE,
             keys |-> << >>, items |-> << >>]

Put(f, x) ==
  LET at == {i \in DOMAIN f.keys : f.keys[i] = f.key}
  IN  IF f.v.m \in {"seq", "tuple_variant", "newtype_variant"}
        THEN [f EXCEPT !.items = Append(@, x)]
      ELSE IF at # {}
        THEN [f EXCEPT !.items = [i \in DOMAIN @ |-> IF i \in at THEN x ELSE @[i]]]
      ELSE [f EXCEPT !.keys = Append(@, f.key), !.items = Append(@, x)]

Tagged(name, x) == Object(<<Prim("str", name)>>, <<x>>)
Built(f)   == IF f.v.m \in {"seq", "tuple_variant"} THEN Array(f.items)
              ELSE Object([i \in DOMAIN f.keys |-> Prim("str", f.keys[i])], f.items)

(* (A mutated form: the variant's name is lost.) *)
BorrowedEndBare(f) ==
  IF f.v.m = "newtype_variant" THEN Tagged(f.v.name, f.items[1]) ELSE Built(f)

BorrowedEnd(f) ==
  CASE f.v.m = "newtype_variant" -> Tagged(f.v.name, f.items[1])
    [] f.v.m \in {"tuple_variant", "struct_variant"} -> Tagged(f.v.name, Built(f))
    [] OTHER -> Built(f)
OwnedEnd(f) ==
  CASE f.v.m = "newtype_variant" -> Tagged(f.v.name, f.items[1])
    [] f.v.m \in {"tuple_variant", "struct_variant"} -> Tagged(f.v.name, Built(f))
    [] OTHER -> Built(f)
DomEnd(f) == IF into = "owned" THEN OwnedEnd(f) ELSE BorrowedEnd(f)

-----------------------------------------------------------------------------
Running == phase \in {"running", "again"}
Top     == Head(stack)

Write(c, p) ==
  /\ compact' = compact \o c
  /\ pretty' = pretty \o p.out
  /\ dent' = p.dent

(* A value is finished: its container takes it, or all is done. *)
Finished(x, below) ==
  IF below = << >>
    THEN /\ stack' = below
         /\ result' = x
         /\ phase' = IF live' = {} THEN "failed" ELSE IF phase = "running" THEN "done" ELSE "over"
    ELSE /\ stack' = <<IF x = Nothing THEN Head(below) ELSE Put(Head(below), x)>> \o Tail(below)
         /\ result' = result
         /\ phase' = IF live' = {} THEN "failed" ELSE phase

SerializePrim ==
  /\ Running /\ task.m \in Prims
  /\ live' = IF DomPrim(task) = Nothing THEN live \ {"dom"} ELSE live
  /\ Write(<<PrimToken(task)>>, Laid(<<PrimToken(task)>>, dent))
  /\ Finished(DomPrim(task), stack)
  /\ task' = Nothing
  /\ UNCHANGED <<value, into, bits128>>

SerializeBytes ==
  /\ Running /\ task.m = "bytes"
  /\ live' = live
  /\ Write(CompactBytes(task.vals), PrettyBytes(task.vals, dent))
  /\ Finished(DomBytes(task.vals), stack)
  /\ task' = Nothing
  /\ UNCHANGED <<value, into, bits128>>

(* serialize_some and serialize_newtype_struct. *)
SerializeForward ==
  /\ Running /\ task.m \in Forwards
  /\ task' = task.of
  /\ UNCHANGED <<value, into, bits128, stack, compact, pretty, dent, result, live, phase>>

(* serialize_seq and its like, up to where elements can be given. *)
SerializeCompound ==
  /\ Running /\ task.m \in {"seq", "map", "struct"} \cup Variants
  /\ Write(CompactOpen(task), PrettyOpen(task, dent))
  /\ stack' = <<Frame(task)>> \o stack
  /\ task' = Nothing
  /\ UNCHANGED <<value, into, bits128, result, live, phase>>

Given(f) == AsCalls(f.v.items[f.given + 1])
HasMore  == Running /\ task = Nothing /\ stack # << >> /\ Top.given < Len(Top.v.items)
Give     == [Top EXCEPT !.given = @ + 1, !.first = FALSE]

NewtypeContent ==
  /\ HasMore /\ Top.v.m = "newtype_variant"
  /\ task' = Given(Top)
  /\ stack' = <<Give>> \o Tail(stack)
  /\ UNCHANGED <<value, into, bits128, compact, pretty, dent, result, live, phase>>

SerializeElement ==
  /\ HasMore /\ Top.v.m \in {"seq", "tuple_variant"}
  /\ Write(CompactNext(Top), PrettyNext(Top, dent))
  /\ task' = Given(Top)
  /\ stack' = <<Give>> \o Tail(stack)
  /\ UNCHANGED <<value, into, bits128, result, live, phase>>

(* A key that is not a string is an error of every serializer. *)
SerializeKey ==
  /\ HasMore /\ Top.v.m = "map" /\ ~Top.hasKey
  /\ LET k == Top.v.keys[Top.given + 1]
         p == PrettyNext(Top, dent)
         refuse == {w \in live : "KeyMustBeAString" =
                      CASE w = "compact" -> KeyText(k) [] w = "pretty" -> PrettyKeyText(k) [] w = "dom" -> DomKey(k)}
     IN  /\ live' = live \ refuse
         /\ phase' = IF live' = {} THEN "failed" ELSE phase
         /\ Write(CompactNext(Top) \o <<Str(KeyText(k)), Colon>>,
                  Laid(p.out \o <<Str(PrettyKeyText(k)), Colon>>, p.dent))
         /\ stack' = <<[Top EXCEPT !.hasKey = TRUE, !.key = DomKey(k), !.first = FALSE]>> \o Tail(stack)
  /\ UNCHANGED <<value, into, bits128, task, result>>

SerializeValue ==
  /\ HasMore /\ Top.v.m = "map" /\ Top.hasKey
  /\ task' = Given(Top)
  /\ stack' = <<[Top EXCEPT !.hasKey = FALSE, !.given = @ + 1]>> \o Tail(stack)
  /\ UNCHANGED <<value, into, bits128, compact, pretty, dent, result, live, phase>>

SerializeField ==
  /\ HasMore /\ Top.v.m \in {"struct", "struct_variant"}
  /\ LET k == Top.v.keys[Top.given + 1].val
         p == PrettyNext(Top, dent)
     IN  /\ Write(CompactNext(Top) \o <<Str(k), Colon>>, Laid(p.out \o <<Str(k), Colon>>, p.dent))
         /\ stack' = <<[Give EXCEPT !.key = k]>> \o Tail(stack)
  /\ task' = Given(Top)
  /\ UNCHANGED <<value, into, bits128, result, live, phase>>

(* The parts of an entry that to_value refused are missing from a frame,   *)
(* but then nothing is built from it.                                      *)
End ==
  /\ Running /\ task = Nothing /\ stack # << >> /\ Top.given = Len(Top.v.items)
  /\ Write(CompactEnd(Top), PrettyEnd(Top, dent))
  /\ live' = live
  /\ Finished(IF "dom" \in live THEN DomEnd(Top) ELSE Nothing, Tail(stack))
  /\ UNCHANGED <<value, into, bits128, task>>

(* The Value that was built is serialized, by new serializers. *)
Again ==
  /\ phase = "done" /\ "dom" \in live
  /\ phase' = "again"
  /\ value' = result
  /\ task' = AsCalls(result)
  /\ compact' = << >> /\ pretty' = << >> /\ dent' = 0
  /\ live' = Writers
  /\ UNCHANGED <<into, bits128, stack, result>>

Init ==
  /\ value \in Values
  /\ into \in {"borrowed", "owned"}
  /\ bits128 \in BOOLEAN
  /\ task = value
  /\ stack = << >>
  /\ compact = << >> /\ pretty = << >> /\ dent = 0
  /\ result = Nothing
  /\ live = Writers
  /\ phase = "running"

Next == \/ SerializePrim \/ SerializeBytes \/ SerializeForward
        \/ SerializeCompound \/ NewtypeContent \/ SerializeElement
        \/ SerializeKey \/ SerializeValue \/ SerializeField
        \/ End \/ Again

Spec == Init /\ [][Next]_vars
=============================================================================

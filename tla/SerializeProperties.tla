------------------------- MODULE SerializeProperties -------------------------
(***************************************************************************)
(* What the serializers promise: text that is JSON and says what the value *)
(* says, laid out by its nesting, and a Value that says the same.          *)
(***************************************************************************)
EXTENDS Serialize, FiniteSets

LOCAL INSTANCE SequencesExt

(* The state is well formed; dent, which is unsigned, does not underflow.  *)
TypeOK ==
  /\ into \in {"borrowed", "owned"} /\ bits128 \in BOOLEAN
  /\ task.m \in Prims \cup Variants \cup Forwards \cup {"nothing", "bytes", "seq", "map", "struct"}
  /\ \A i \in DOMAIN stack : stack[i].given \in 0..Len(stack[i].v.items)
  /\ dent \in Nat /\ \A i \in DOMAIN pretty : pretty[i].t = "line" => pretty[i].dent \in Nat
  /\ live \subseteq Writers
  /\ phase \in {"running", "done", "again", "over", "failed"}

-----------------------------------------------------------------------------
(* Definitions by recursion over a value, to measure the serializers by.   *)

Between(texts) == FlattenSeq([i \in DOMAIN texts |-> IF i = 1 THEN texts[i] ELSE <<Comma>> \o texts[i]])
Array_(texts)   == <<Punct("[")>> \o Between(texts) \o <<Punct("]")>>
Object_(fields) == <<Punct("{")>> \o Between(fields) \o <<Punct("}")>>
Field(k, text)  == <<Str(k), Colon>> \o text

(* The JSON text of a value of the data model. *)
RECURSIVE JsonText(_)
JsonText(v) ==
  IF v.m \in Prims THEN <<PrimToken(v)>>
  ELSE IF v.m = "bytes" THEN Array_([i \in DOMAIN v.vals |-> <<Lit(v.vals[i])>>])
  ELSE IF v.m \in Forwards THEN JsonText(v.of)
  ELSE LET texts  == [i \in DOMAIN v.items |-> JsonText(v.items[i])]
           fields == [i \in DOMAIN v.keys |-> Field(KeyText(v.keys[i]), texts[i])]
       IN  CASE v.m \in {"seq", "Array"}            -> Array_(texts)
             [] v.m \in {"map", "struct", "Object"} -> Object_(fields)
             [] v.m = "newtype_variant" -> Object_(<<Field(v.name, texts[1])>>)
             [] v.m = "tuple_variant"   -> Object_(<<Field(v.name, Array_(texts))>>)
             [] v.m = "struct_variant"  -> Object_(<<Field(v.name, Object_(fields))>>)

(* A value and all values in it. *)
RECURSIVE Parts(_)
Parts(v) ==
  {v} \cup (IF v.m \in Prims \cup {"bytes"} THEN {}
            ELSE IF v.m \in Forwards THEN Parts(v.of)
            ELSE UNION {Parts(v.items[i]) : i \in DOMAIN v.items})

Keys(p) == IF p.m = "map" THEN {p.keys[i] : i \in DOMAIN p.keys} ELSE {}

EmptyOfUnknownLength(p, ms) == p.m \in ms /\ ~p.sized /\ p.items = << >>
KeysDiffer(p) ==
  p.m = "map" => \A i, j \in DOMAIN p.keys : KeyText(p.keys[i]) = KeyText(p.keys[j]) => i = j

Complete == phase \in {"done", "over"}

-----------------------------------------------------------------------------
(* to_vec writes the JSON text of a value, whatever its type calls, except *)
(* that a sequence that did not tell its length and has no elements is     *)
(* left open.                                                              *)
CompactIsJson ==
  Complete /\ "compact" \in live =>
    (compact = JsonText(value)) = ~\E p \in Parts(value) : EmptyOfUnknownLength(p, {"seq"})

(* to_vec_pretty writes the same, but for the line ends.  It leaves maps   *)
(* of unknown length open, too, and tuple variants, whose SerializeSeq     *)
(* writes one bracket where there are two to close.                        *)
Unclosed(p) == EmptyOfUnknownLength(p, {"seq", "map"}) \/ p.m = "tuple_variant"
Flat(text)  == SelectSeq(text, LAMBDA x : x.t # "line")

PrettyIsJson ==
  Complete /\ "pretty" \in live =>
    (Flat(pretty) = JsonText(value)) = ~\E p \in Parts(value) : Unclosed(p)

(* A bracket that closes at the start of a line stands under the line of   *)
(* the bracket that it closes: dent goes up and down with the containers   *)
(* and is back at 0 in the end.                                            *)
Opens(text, i)  == text[i].t \in {"[", "{"}
Closes(text, i) == text[i].t \in {"]", "}"}
Depth(text, n)  ==
  Cardinality({i \in 1..n : Opens(text, i)}) - Cardinality({i \in 1..n : Closes(text, i)})
OpenerOf(text, i) ==
  CHOOSE j \in 1..(i - 1) : /\ Opens(text, j) /\ Depth(text, j - 1) = Depth(text, i)
                            /\ \A k \in j..(i - 1) : Depth(text, k) > Depth(text, i)
DentOf(text, i) ==
  LET lines == {j \in 1..i : text[j].t = "line"}
  IN  IF lines = {} THEN 0 ELSE text[CHOOSE j \in lines : \A k \in lines : k <= j].dent

ClosedUnderOpened ==
  Complete /\ "pretty" \in live /\ ~(\E p \in Parts(value) : Unclosed(p)) =>
    /\ dent = 0
    /\ \A i \in 2..Len(pretty) :
         Closes(pretty, i) /\ pretty[i - 1].t = "line" =>
           pretty[i - 1].dent = DentOf(pretty, OpenerOf(pretty, i))

(* The three serializers refuse the same values, those with a key that is  *)
(* no string, and to_value those with an integer of 128 bits, as a value   *)
(* without the feature and as a key even with it.                          *)
RECURSIVE IsString(_)
IsString(k) == k.m \in Texts \cup Integral \/ (k.m = "newtype_struct" /\ IsString(k.of))
BadKeys(v)  == \E p \in Parts(v) : \E k \in Keys(p) : ~IsString(k)
TooWide(v)  == \E p \in Parts(v) : \/ p.m = "i128" /\ ~bits128
                                   \/ \E k \in Keys(p) : k.m = "i128"

RefusedAlike ==
  phase \in {"done", "over", "failed"} =>
    /\ ("compact" \in live) = ~BadKeys(value)
    /\ ("pretty" \in live)  = ~BadKeys(value)
    /\ ("dom" \in live)     = (~BadKeys(value) /\ ~TooWide(value))

(* to_value says the same as the text, as long as no two keys of a map     *)
(* have the same text; and the Value that it builds, serialized again, is  *)
(* refused by none and builds itself.                                      *)
DomIsJson ==
  /\ phase = "done" /\ "dom" \in live /\ (\A p \in Parts(value) : KeysDiffer(p)) =>
       JsonText(result) = JsonText(value)
  /\ phase = "over" => live = Writers /\ result = value
=============================================================================

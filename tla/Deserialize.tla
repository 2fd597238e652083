----------------------------- MODULE Deserialize -----------------------------
(***************************************************************************)
(* Serde deserialization.  A client, the Deserialize implementation of     *)
(* some type, asks a deserializer for a value with a hint of what it       *)
(* wants; the deserializer answers by calling one method of the client's   *)
(* visitor, which for a container gets an access object to ask on.  The    *)
(* same client runs in lockstep on the five deserializers of the library:  *)
(* the cursor on the tape, and borrowed and owned values, consumed or by   *)
(* reference.  A reader that is answered otherwise than the tape leaves    *)
(* the lockstep.                                                           *)
(***************************************************************************)
EXTENDS Integers, Sequences

CONSTANTS Docs,        \* the documents, [tree |-> JSON value, tape |-> nodes]
          Number       \* the values of the texts that are integers

VARIABLES doc,         \* the document
          client,      \* what is asked for: a Value type, or any type, which
                       \* may be hasty and not exhaust what it is given
          idx,         \* the tape's cursor (1 is the first node)
          stack,       \* the client's calls under way, innermost first
          ret,         \* what the innermost call returns, or Nothing
          live,        \* the readers that answered as the tape did
          phase,       \* "running", "done" or "failed"
          differed     \* the last call on which a reader left the lockstep

vars == <<doc, client, idx, stack, ret, live, phase, differed>>

Clients  == {"typed", "hasty", "borrowed", "owned"}
Readers  == {"tape", "borrowed", "borrowed_ref", "owned", "owned_ref"}
IntHints == {"i8", "u8"}
KeyHints == {"any", "bool", "str", "string", "bytes", "option", "newtype_struct", "enum"} \cup IntHints
Hints    == KeyHints \cup {"f64", "unit", "seq", "tuple", "map", "struct", "ignored_any"}

Nothing  == [kind |-> "Nothing"]
Leaf(kind, val)  == [kind |-> kind, val |-> val]
ArrayOf(items)   == [kind |-> "Array", items |-> items]
ObjectOf(entries) == [kind |-> "Object", entries |-> entries]
Entry(k, v)      == [key |-> k, value |-> v]

Val(n) == IF "val" \in DOMAIN n THEN n.val ELSE ""

(* Integer conversions that fail out of range, and parsing of a key. *)
InRange(hint, x) ==
  CASE hint = "i8" -> x \in -128..127
    [] hint = "u8" -> x \in 0..255
IsInt(hint, text) == text \in DOMAIN Number /\ InRange(hint, Number[text])

(* Which methods of its visitor a client implements that gives the hint.   *)
StrVisits  == {"visit_borrowed_str", "visit_str", "visit_string"}
IntVisits  == {"visit_i64", "visit_u64"}
NumberVisits == IntVisits \cup {"visit_f64"}
LeafVisits == StrVisits \cup NumberVisits \cup {"visit_unit", "visit_bool"}

Takes(hint, visit, val) ==
  CASE hint \in {"any", "ignored_any"} -> visit \in LeafVisits \cup {"visit_seq", "visit_map"}
    [] hint = "bool"           -> visit = "visit_bool"
    [] hint \in IntHints       -> visit \in IntVisits /\ IsInt(hint, val)
    [] hint = "f64"            -> visit \in NumberVisits
    [] hint = "str"            -> visit = "visit_borrowed_str"
    [] hint \in {"string", "bytes"} -> visit \in StrVisits
    [] hint = "unit"           -> visit = "visit_unit"
    [] hint = "option"         -> visit \in {"visit_unit", "visit_some"}
    [] hint = "newtype_struct" -> visit = "visit_newtype_struct"
    [] hint \in {"seq", "tuple"} -> visit = "visit_seq"
    [] hint = "map"            -> visit = "visit_map"
    [] hint = "struct"         -> visit \in {"visit_seq", "visit_map"}
    [] hint = "enum"           -> visit = "visit_enum"

-----------------------------------------------------------------------------
(* The method each deserializer calls for a hint.                          *)

AnyVisit == [Null |-> "visit_unit", Bool |-> "visit_bool", F64 |-> "visit_f64",
             I64 |-> "visit_i64", U64 |-> "visit_u64", String |-> "visit_borrowed_str",
             Array |-> "visit_seq", Object |-> "visit_map", Nothing |-> "error"]

(* The tape: a node of another type than the hint is an error, and a node  *)
(* that is read without a check may not be there.                          *)
Unchecked(hint) == hint \in IntHints \cup {"f64"}

OneOf(kinds, n, visit) == IF n.kind \in kinds THEN visit ELSE "error"

TapeDe(hint, n) ==
  IF Unchecked(hint) /\ n = Nothing THEN "undefined" ELSE
  CASE hint \in {"any", "bytes", "ignored_any"} -> AnyVisit[n.kind]
    [] hint = "bool" -> OneOf({"Bool"}, n, "visit_bool")
    [] hint \in IntHints ->
         IF n.kind \in {"I64", "U64"} /\ IsInt(hint, n.val) THEN "visit_i64" ELSE "error"
    [] hint = "f64" -> OneOf({"F64", "I64", "U64"}, n, "visit_f64")
    [] hint = "str" -> OneOf({"String"}, n, "visit_borrowed_str")
    [] hint = "string" -> OneOf({"String"}, n, "visit_str")
    [] hint = "option" ->
         IF n = Nothing THEN "error" ELSE IF n.kind = "Null" THEN "visit_unit" ELSE "visit_some"
    [] hint = "unit" -> OneOf({"Null"}, n, "visit_unit")
    [] hint = "newtype_struct" -> "visit_newtype_struct"
    [] hint \in {"seq", "tuple"} -> OneOf({"Array"}, n, "visit_seq")
    [] hint = "map" -> OneOf({"Object"}, n, "visit_map")
    [] hint = "struct" -> OneOf({"Array", "Object"}, n, AnyVisit[n.kind])
    [] hint = "enum" ->
         IF n.kind = "String" \/ (n.kind = "Object" /\ n.len = 1) THEN "visit_enum" ELSE "error"

(* Deserializer::next, next_ and peek: how far an answer moves the cursor. *)
(* (Mutated forms: deserialize_option takes what it should look at, and    *)
(* deserialize_bool reads twice.)                                          *)
ConsumedBySome(visit) == IF visit = "visit_newtype_struct" THEN 0 ELSE 1
ConsumedTwice(visit) ==
  IF visit \in {"visit_some", "visit_newtype_struct"} THEN 0 ELSE IF visit = "visit_bool" THEN 2 ELSE 1

Consumed(visit) == IF visit \in {"visit_some", "visit_newtype_struct"} THEN 0 ELSE 1

(* MapKey: integers are parsed from the key. *)
TapeKey(hint, n) ==
  CASE hint \in IntHints ->
         IF n = Nothing THEN "undefined"
         ELSE IF n.kind = "String" /\ IsInt(hint, n.val) THEN "visit_i64" ELSE "error"
    [] hint = "option"         -> "visit_some"
    [] hint = "newtype_struct" -> "visit_newtype_struct"
    [] hint \in {"enum", "bytes"} -> TapeDe(hint, n)
    [] OTHER -> OneOf({"String"}, n, "visit_borrowed_str")

(* The values: most hints are ignored, the value shows itself as it is.    *)
EnumVisit(n) ==
  IF n.kind = "String" \/ (n.kind = "Object" /\ Len(n.entries) = 1) THEN "visit_enum" ELSE "error"

ValueDe(hint, n, anyVisit) ==
  CASE hint = "option"         -> IF n.kind = "Null" THEN "visit_unit" ELSE "visit_some"
    [] hint = "newtype_struct" -> "visit_newtype_struct"
    [] hint = "struct"         -> OneOf({"Array", "Object"}, n, anyVisit[n.kind])
    [] hint = "enum"           -> EnumVisit(n)
    [] OTHER                   -> anyVisit[n.kind]

BorrowedDe(hint, n)    == ValueDe(hint, n, AnyVisit)
BorrowedRefDe(hint, n) == ValueDe(hint, n, AnyVisit)
OwnedDe(hint, n)       == ValueDe(hint, n, [AnyVisit EXCEPT !.String = "visit_string"])
OwnedRefDe(hint, n)    == ValueDe(hint, n, AnyVisit)

(* MapKeyDeserializer: a key that is no integer shows itself as a string.  *)
(* (A mutated form: it always does.)                                       *)
RefKeyNoIntegers(hint, n) ==
  CASE hint = "option"         -> "visit_some"
    [] hint = "newtype_struct" -> "visit_newtype_struct"
    [] hint = "enum"           -> "visit_enum"
    [] OTHER                   -> "visit_borrowed_str"

RefKey(hint, n) ==
  CASE hint \in IntHints ->
         IF IsInt(hint, n.val) THEN "visit_i64" ELSE "visit_borrowed_str"
    [] hint = "option"         -> "visit_some"
    [] hint = "newtype_struct" -> "visit_newtype_struct"
    [] hint = "enum"           -> "visit_enum"
    [] OTHER                   -> "visit_borrowed_str"

DomDe(r, hint, n) ==
  CASE r = "borrowed"     -> BorrowedDe(hint, n)
    [] r = "borrowed_ref" -> BorrowedRefDe(hint, n)
    [] r = "owned"        -> OwnedDe(hint, n)
    [] r = "owned_ref"    -> OwnedRefDe(hint, n)

(* next_key_seed wraps a key: as a value, or for a reference as a key. *)
DomKey(r, hint, n) ==
  CASE r \in {"borrowed", "owned"} -> DomDe(r, hint, n)
    [] r \in {"borrowed_ref", "owned_ref"} -> RefKey(hint, n)

(* VariantAccess on the content n of a variant, Nothing if there is none.  *)
Variants == {"unit_variant", "newtype_variant", "tuple_variant", "struct_variant"}

TapeVariant(kind, n) ==
  CASE kind = "unit_variant"    -> TapeDe("unit", n)
    [] kind = "newtype_variant" -> "visit_newtype_struct"
    [] kind = "tuple_variant"   -> TapeDe("seq", n)
    [] kind = "struct_variant"  -> TapeDe("struct", n)

(* A variant that was read from a string has no content. *)
UnitOnly(kind) == IF kind = "unit_variant" THEN "visit_unit" ELSE "error"

BorrowedVariant(kind, n) ==
  CASE kind = "unit_variant"    -> AnyVisit[n.kind]
    [] kind = "newtype_variant" -> "visit_newtype_struct"
    [] kind = "tuple_variant"   ->
         IF n.kind # "Array" THEN "error"
         ELSE IF n.items = << >> THEN "visit_unit" ELSE "visit_seq"
    [] kind = "struct_variant"  -> OneOf({"Object"}, n, "visit_map")

BorrowedRefVariant(kind, n) == BorrowedVariant(kind, n)
OwnedVariant(kind, n)       == BorrowedVariant(kind, n)
OwnedRefVariant(kind, n)    == BorrowedVariant(kind, n)

DomVariant(r, kind, n) ==
  CASE r = "borrowed"     -> BorrowedVariant(kind, n)
    [] r = "borrowed_ref" -> BorrowedRefVariant(kind, n)
    [] r = "owned"        -> OwnedVariant(kind, n)
    [] r = "owned_ref"    -> OwnedRefVariant(kind, n)

VariantHint == [unit_variant |-> "unit", newtype_variant |-> "newtype_struct",
                tuple_variant |-> "tuple", struct_variant |-> "struct"]

-----------------------------------------------------------------------------
(* What a call does to the client.  An answer is the same for two readers  *)
(* if the client goes on in the same way with the same value.              *)

Answer(hint, visit, val) ==
  IF visit = "undefined" \/ ~Takes(hint, visit, val) THEN [step |-> "error", val |-> ""]
  ELSE [step |-> IF visit \in LeafVisits THEN "leaf" ELSE visit, val |-> val]

Top      == Head(stack)
Node     == IF idx <= Len(doc.tape) THEN doc.tape[idx] ELSE Nothing
First(s) == IF s = << >> THEN Nothing ELSE Head(s)
Rest(s)  == IF s = << >> THEN s ELSE Tail(s)
Items(n)   == IF n.kind = "Array" THEN n.items ELSE << >>
Entries(n) == IF n.kind = "Object" THEN n.entries ELSE << >>

KeyOf(e)   == IF e = Nothing THEN e ELSE Leaf("String", e.key)
ValueOf(e) == IF e = Nothing THEN e ELSE e.value

ValueFrame(n)    == [at |-> "value", n |-> n]
KeyFrame(e)      == [at |-> "key", n |-> KeyOf(e)]
SeqFrameOneLess(len, n) ==       \* (a mutated form, as the next)
  [at |-> "seq", len |-> IF len > 0 THEN len - 1 ELSE 0, items |-> Items(n), built |-> << >>]
SeqFrame(len, n) == [at |-> "seq", len |-> len, items |-> Items(n), built |-> << >>]
MapFrameOneMore(len, n) ==
  [at |-> "map", len |-> len + 1, entries |-> Entries(n), v |-> Nothing,
   key |-> Nothing, built |-> << >>]
MapFrame(len, n) == [at |-> "map", len |-> len, entries |-> Entries(n), v |-> Nothing,
                     key |-> Nothing, built |-> << >>]

(* An enum's variant: named by the string itself, or by the only key of an *)
(* object, whose value is its content.                                     *)
EnumFrame(t, n) ==
  LET e == First(Entries(n))
  IN  IF t.kind = "String" THEN [at |-> "enum", unit |-> TRUE, name |-> t, key |-> n, n |-> Nothing]
      ELSE [at |-> "enum", unit |-> FALSE, name |-> Nothing,
            key |-> KeyOf(e), n |-> ValueOf(e)]

(* What ValueVisitor makes of a leaf, in the borrowed and in the owned     *)
(* form.  (And a mutated form.)                                            *)
VisitedSigned == [visit_unit |-> "Null", visit_bool |-> "Bool", visit_f64 |-> "F64",
                  visit_i64 |-> "I64", visit_u64 |-> "I64", visit_borrowed_str |-> "String",
                  visit_str |-> "String", visit_string |-> "String"]
BorrowedVisited == [visit_unit |-> "Null", visit_bool |-> "Bool", visit_f64 |-> "F64",
                    visit_i64 |-> "I64", visit_u64 |-> "U64", visit_borrowed_str |-> "String",
                    visit_str |-> "String", visit_string |-> "String"]
OwnedVisited == BorrowedVisited

(* Another visitor converts a number to the type it is for. *)
Taken(visit, val) ==
  Leaf(CASE client = "borrowed" -> BorrowedVisited[visit]
         [] client = "owned"    -> OwnedVisited[visit]
         [] OTHER -> IF visit \in NumberVisits THEN "Number" ELSE BorrowedVisited[visit], val)

(* The visitor is called: a leaf is its result, for anything else it goes  *)
(* on with what it was given, t on the tape and n in the values.           *)
Visit(visit, t, n, below) ==
  CASE visit \in LeafVisits ->
         /\ ret' = Taken(visit, Val(t)) /\ stack' = below
    [] visit = "visit_seq"  -> stack' = <<SeqFrame(t.len, n)>> \o below /\ ret' = ret
    [] visit = "visit_map"  -> stack' = <<MapFrame(t.len, n)>> \o below /\ ret' = ret
    [] visit = "visit_enum" -> stack' = <<EnumFrame(t, n)>> \o below /\ ret' = ret
    [] OTHER -> UNCHANGED <<stack, ret>>

(* The readers that do not answer as the tape does leave the lockstep, and *)
(* an error of the tape ends it.                                           *)
Settle(answers, where) ==
  LET same == {r \in live : answers[r] = answers["tape"]}
  IN  /\ live' = same
      /\ differed' = IF same = live THEN differed ELSE where
      /\ phase' = IF answers["tape"].step = "error" THEN "failed" ELSE "running"

Calls(at) ==
  /\ phase = "running" /\ ret = Nothing /\ stack # << >>
  /\ Top.at = at

-----------------------------------------------------------------------------
(* The hints a client uses: those of its type, or deserialize_any for a    *)
(* Value, whose visit_map asks for keys of type &str or String.            *)
BorrowedValueKey == "str"
OwnedValueKey    == "string"

HintsOfValue == IF client \in {"borrowed", "owned"} THEN {"any"} ELSE Hints
HintsOfKey   == CASE client = "borrowed" -> {BorrowedValueKey}
                  [] client = "owned"    -> {OwnedValueKey}
                  [] OTHER               -> KeyHints

DeserializeValue(hint) ==
  /\ Calls("value")
  /\ LET n == Top.n
         visit == TapeDe(hint, Node)
         answers == [r \in live |->
                       IF r = "tape" THEN Answer(hint, visit, Val(Node))
                       ELSE Answer(hint, DomDe(r, hint, n), Val(n))]
     IN  /\ Settle(answers, [at |-> "value", hint |-> hint, n |-> n])
         /\ idx' = idx + Consumed(visit)
         /\ IF answers["tape"].step = "error" THEN UNCHANGED <<stack, ret>>
            ELSE Visit(visit, Node, n, Tail(stack))
  /\ UNCHANGED <<doc, client>>

DeserializeKey(hint) ==
  /\ Calls("key")
  /\ LET n == Top.n
         visit == TapeKey(hint, Node)
         answers == [r \in live |->
                       IF r = "tape" THEN Answer(hint, visit, Val(Node))
                       ELSE Answer(hint, DomKey(r, hint, n), Val(n))]
     IN  /\ Settle(answers, [at |-> "key", hint |-> hint, n |-> n])
         /\ idx' = idx + Consumed(visit)
         /\ IF answers["tape"].step = "error" THEN UNCHANGED <<stack, ret>>
            ELSE Visit(visit, Node, n, Tail(stack))
  /\ UNCHANGED <<doc, client>>

(* An access that has handed out len values has no more; those of the      *)
(* values are iterators over vectors and maps.                             *)
TapeHasMore(len)       == len > 0
BorrowedHasMore(items) == items # << >>
OwnedHasMore(items)    == items # << >>

NextAnswers(len, items) ==
  LET more(r) == CASE r = "tape" -> TapeHasMore(len)
                   [] r \in {"borrowed", "borrowed_ref"} -> BorrowedHasMore(items)
                   [] r \in {"owned", "owned_ref"}       -> OwnedHasMore(items)
  IN  [r \in live |-> [step |-> IF more(r) THEN "some" ELSE "none", val |-> ""]]

NextElement ==
  /\ Calls("seq")
  /\ Settle(NextAnswers(Top.len, Top.items), [at |-> "seq", hint |-> "next_element", n |-> Nothing])
  /\ IF Top.len = 0
     THEN ret' = ArrayOf(Top.built) /\ stack' = Tail(stack)
     ELSE /\ stack' = <<ValueFrame(First(Top.items)),
                        [Top EXCEPT !.len = @ - 1, !.items = Rest(@)]>> \o Tail(stack)
          /\ ret' = ret
  /\ UNCHANGED <<doc, client, idx>>

NextKey ==
  /\ Calls("map") /\ Top.key = Nothing
  /\ Settle(NextAnswers(Top.len, Top.entries), [at |-> "map", hint |-> "next_key", n |-> Nothing])
  /\ LET e == First(Top.entries)
     IN  IF Top.len = 0
         THEN ret' = ObjectOf(Top.built) /\ stack' = Tail(stack)
         ELSE /\ stack' = <<KeyFrame(e), [Top EXCEPT !.len = @ - 1, !.entries = Rest(@),
                                                      !.v = ValueOf(e)]>> \o Tail(stack)
              /\ ret' = ret
  /\ UNCHANGED <<doc, client, idx>>

NextValue ==
  /\ Calls("map") /\ Top.key # Nothing
  /\ stack' = <<ValueFrame(Top.v), [Top EXCEPT !.v = Nothing]>> \o Tail(stack)
  /\ UNCHANGED <<doc, client, idx, ret, live, phase, differed>>

(* A visitor that has what it needs: a tuple, or a struct read from an     *)
(* array, asks for as many elements as it has fields and no more.          *)
Stop ==
  /\ client = "hasty"
  /\ Calls("seq") \/ Calls("map")
  /\ Top.len > 0
  /\ ret' = IF Top.at = "seq" THEN ArrayOf(Top.built) ELSE ObjectOf(Top.built)
  /\ stack' = Tail(stack)
  /\ UNCHANGED <<doc, client, idx, live, phase, differed>>

(* The name of a variant, which is a string. *)
VariantSeed ==
  /\ Calls("enum")
  /\ LET t == IF Top.unit THEN Top.name ELSE Node
         answers == [r \in live |->
                       IF r = "tape" THEN Answer("string", AnyVisit[t.kind], Val(t))
                       ELSE Answer("string", AnyVisit[Top.key.kind], Val(Top.key))]
     IN  /\ Settle(answers, [at |-> "enum", hint |-> "variant", n |-> Top.key])
         /\ idx' = IF Top.unit THEN idx ELSE idx + 1
         /\ stack' = <<[Top EXCEPT !.at = "variant", !.name = t]>> \o Tail(stack)
  /\ UNCHANGED <<doc, client, ret>>

VariantOf(name, content) == ObjectOf(<<Entry(Val(name), content)>>)

ReadVariant(kind) ==
  /\ Calls("variant")
  /\ LET n    == Top.n
         hint == VariantHint[kind]
         visit == IF Top.unit THEN UnitOnly(kind) ELSE TapeVariant(kind, Node)
         domVisit(r) == IF Top.unit THEN UnitOnly(kind) ELSE DomVariant(r, kind, n)
         answers == [r \in live |-> Answer(hint, IF r = "tape" THEN visit ELSE domVisit(r), "")]
         content == <<[Top EXCEPT !.at = "content"]>> \o Tail(stack)
     IN  /\ Settle(answers, [at |-> kind, hint |-> hint, n |-> n])
         /\ idx' = IF Top.unit THEN idx ELSE idx + Consumed(visit)
         /\ IF answers["tape"].step = "error" THEN UNCHANGED <<stack, ret>>
            ELSE IF Top.unit THEN ret' = Leaf("String", Val(Top.name)) /\ stack' = Tail(stack)
            ELSE IF kind = "newtype_variant"
              THEN stack' = <<ValueFrame(n)>> \o content /\ ret' = ret
            ELSE Visit(visit, Node, n, content)
  /\ UNCHANGED <<doc, client>>

(* The innermost call returns to the visitor that made it. *)
Insert(built, k, v) ==
  IF \E i \in DOMAIN built : built[i].key = k
    THEN [i \in DOMAIN built |-> IF built[i].key = k THEN Entry(k, v) ELSE built[i]]
    ELSE Append(built, Entry(k, v))

Return ==
  /\ phase = "running" /\ ret # Nothing
  /\ IF stack = << >> THEN phase' = "done" /\ UNCHANGED <<stack, ret>>
     ELSE /\ phase' = phase
          /\ CASE Top.at = "seq" ->
                    /\ stack' = <<[Top EXCEPT !.built = Append(@, ret)]>> \o Tail(stack)
                    /\ ret' = Nothing
               [] Top.at = "map" /\ Top.key = Nothing ->
                    /\ stack' = <<[Top EXCEPT !.key = ret]>> \o Tail(stack)
                    /\ ret' = Nothing
               [] Top.at = "map" /\ Top.key # Nothing ->
                    /\ stack' = <<[Top EXCEPT !.key = Nothing,
                                              !.built = Insert(@, Val(Top.key), ret)]>> \o Tail(stack)
                    /\ ret' = Nothing
               [] Top.at = "content" ->
                    stack' = Tail(stack) /\ ret' = VariantOf(Top.name, ret)
  /\ UNCHANGED <<doc, client, idx, live, differed>>

(* from_slice and its variants: T::deserialize from the first node on.     *)
Init ==
  /\ doc \in Docs
  /\ client \in Clients
  /\ idx = 1
  /\ stack = <<ValueFrame(doc.tree)>>
  /\ ret = Nothing
  /\ live = Readers
  /\ phase = "running"
  /\ differed = Nothing

Next ==
  \/ \E hint \in HintsOfValue : DeserializeValue(hint)
  \/ \E hint \in HintsOfKey : DeserializeKey(hint)
  \/ NextElement
  \/ NextKey
  \/ NextValue
  \/ Stop
  \/ VariantSeed
  \/ \E kind \in Variants : ReadVariant(kind)
  \/ Return

Spec == Init /\ [][Next]_vars
=============================================================================

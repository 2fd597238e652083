----------------------------- MODULE MCSerialize -----------------------------
(***************************************************************************)
(* Small values of the data model: every primitive and every key, and all  *)
(* containers, of known and unknown length, of up to two of a few small    *)
(* values, in each other.                                                  *)
(***************************************************************************)
EXTENDS SerializeProperties

U    == Prim("unit", "null")
One  == Prim("u64", "1")
Wide == Prim("i128", "5")
A    == Prim("str", "a")

MCPrims == {U, One, Wide, A, Prim("bool", "true"), Prim("f64", "1.5"), Prim("i64", "-1"),
            Prim("char", "c"), Prim("unit_variant", "V")}
MCKeys  == MCPrims \cup {Forward("newtype_struct", A), Forward("newtype_struct", U),
                         Forward("some", A), Bytes(<< >>)}

Seqs(items) == {Compound("seq", "", sized, << >>, items) : sized \in BOOLEAN}
Maps(keys, items) == {Compound("map", "", sized, keys, items) : sized \in BOOLEAN}

Of(keys, items) ==
  Seqs(items) \cup Maps(keys, items)
  \cup {Compound("tuple_variant", "T", TRUE, << >>, items), Compound("struct", "", TRUE, keys, items),
        Compound("struct_variant", "S", TRUE, keys, items)}

Tag(v)  == Compound("newtype_variant", "N", TRUE, << >>, <<v>>)
AB      == <<A, Prim("str", "b")>>
None0   == Of(<< >>, << >>)
Ones(S) == UNION {Of(<<A>>, <<v>>) : v \in S} \cup {Tag(v) : v \in S} \cup {Forward("some", v) : v \in S}
Twos(S, T) == UNION {Of(AB, <<v, w>>) : v \in S, w \in T}

Flats   == None0 \cup Ones({U, One}) \cup Twos({A}, {One}) \cup {Bytes(<< >>), Bytes(<<"1", "2">>)}
MCValues ==
  MCPrims \cup Flats \cup Ones(MCPrims) \cup Ones(Flats) \cup Twos(Flats, {A}) \cup Twos({A}, Flats)
  \cup UNION {Maps(<<k>>, <<U>>) \cup Maps(<<A, k>>, <<U, One>>) : k \in MCKeys}
  \cup UNION {Maps(<<A, Prim("i64", "7")>>, <<v, Wide>>) : v \in None0}
  \cup Ones(Ones(None0))
=============================================================================

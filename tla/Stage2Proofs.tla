---------------------------- MODULE Stage2Proofs ----------------------------
(***************************************************************************)
(* Proofs about stage 2, for every document, option and build.             *)
(*                                                                         *)
(* Everything rests on one inductive invariant, IndInv of Stage2Properties.*)
(* The lemmas come in the order of the code: tokens, field lists, headers, *)
(* scopes; then what each State needs and gives; then one lemma per action *)
(* of the specification; then the theorems.                                *)
(***************************************************************************)
EXTENDS Stage2Properties, FiniteSetTheorems, SequenceTheorems, WellFoundedInduction,
        TLAPS

-----------------------------------------------------------------------------
(* Numbers. *)

(* A set of naturals that is not empty has a least element, and Min picks  *)
(* it.                                                                     *)
LEMMA MinOfNaturals ==
  ASSUME NEW S, S \subseteq Nat, S # {}
  PROVE  Min(S) \in S /\ \A y \in S : Min(S) <= y
<1>1. IsWellFoundedOn(OpToRel(<, Nat), Nat)
  BY NatLessThanWellFounded
<1>2. PICK x \in S : \A y \in S : ~ (<<y, x>> \in OpToRel(<, Nat))
  BY <1>1, WFMin
<1>3. ASSUME NEW y \in S PROVE x <= y
  <2>1. ~ (<<y, x>> \in OpToRel(<, Nat))
    BY <1>2
  <2>2. ~ (y < x)
    BY <2>1 DEF OpToRel
  <2>3. QED
    BY <2>2
<1>4. QED
  BY <1>3 DEF Min

(* Max of two naturals is a natural, not less than either (grow_res!,      *)
(* vec_size).                                                              *)
LEMMA MaxOfTwo ==
  ASSUME NEW m \in Nat, NEW n \in Nat
  PROVE  Max({m, n}) \in Nat /\ Max({m, n}) >= m /\ Max({m, n}) >= n
BY DEF Max

-----------------------------------------------------------------------------
(* Documents. *)

(* A document has at least one token and ends with a line end (fill_tape   *)
(* pushes it).                                                             *)
LEMMA DocumentFacts ==
  ASSUME toks \in Document
  PROVE  /\ N \in Nat /\ N >= 1
         /\ Tok(N) = "NL"
         /\ \A p \in 1..N : toks[p].c \in Char /\ toks[p].ws \in Nat
<1>1. toks \in Seq(Token) /\ toks # << >> /\ toks[Len(toks)].c = "NL"
  BY DEF Document
<1>2. Len(toks) \in Nat /\ Len(toks) >= 1 /\ \A p \in 1..Len(toks) : toks[p] \in Token
  BY <1>1
<1>3. N \in Nat /\ N >= 1 /\ N \in 1..N
  BY <1>2 DEF N
<1>4. Tok(N) = "NL"
  BY <1>1, <1>3 DEF Tok, N
<1>5. \A p \in 1..N : toks[p].c \in Char /\ toks[p].ws \in Nat
  BY <1>2 DEF N, Token
<1>6. QED
  BY <1>3, <1>4, <1>5

(* get_value_end! stops at or behind where it starts, on a delimiter or a  *)
(* line end, and short of the last token unless it stops on a line end.    *)
LEMMA ValueEndFacts ==
  ASSUME toks \in Document, NEW p \in 1..N, NEW D
  PROVE  /\ ValueEnd(p, D) \in p..N
         /\ Tok(ValueEnd(p, D)) \in D \cup {"NL"}
         /\ Tok(ValueEnd(p, D)) # "NL" => ValueEnd(p, D) < N
<1> DEFINE S == {j \in p..N : Tok(j) \in D \cup {"NL"}}
<1>1. N \in Nat /\ Tok(N) = "NL"
  BY DocumentFacts
<1>2. S \subseteq Nat /\ N \in S
  BY <1>1
<1>3. Min(S) \in S
  BY <1>2, MinOfNaturals
<1>4. QED
  BY <1>1, <1>3 DEF ValueEnd

(* get_eol_state! leaves the cursor inside the document.                   *)
LEMMA EolFacts ==
  ASSUME toks \in Document, dedent \in Nat, NEW p \in 1..N, NEW x, NEW pend, NEW blank
  PROVE  /\ EolState(p, x, pend, blank).at \in 1..N
         /\ EolState(p, x, pend, blank).ws \in Nat
<1>1. N \in Nat /\ \A q \in 1..N : toks[q].ws \in Nat
  BY DocumentFacts
<1> DEFINE S == {j \in (p + 1)..N : Tok(j) # "NL" \/ j = N}
<1>2. CASE p = N
  BY <1>2 DEF EolState
<1>3. CASE p # N
  <2>1. S \subseteq Nat /\ N \in S
    BY <1>1, <1>3
  <2>2. Min(S) \in 1..N
    BY <2>1, <1>1, MinOfNaturals
  <2>3. toks[Min(S)].ws \in Nat
    BY <2>2, <1>1
  <2> DEFINE q == Min(S)
  <2> HIDE DEF q
  <2>4. q \in 1..N /\ toks[q].ws \in Nat
    BY <2>2, <2>3 DEF q
  <2>5. EolState(p, x, pend, blank) =
           IF p = N THEN [is |-> "CloseScope", at |-> p, ws |-> dedent]
      ELSE IF Tok(p) # "NL" THEN [is |-> "Fail", at |-> p, ws |-> dedent]
      ELSE IF q = N THEN [is |-> "CloseScope", at |-> q, ws |-> dedent]
      ELSE [is |-> IF q > p + 1 /\ Strict /\ (blank \/ InsideArray(toks[q].ws, x, pend))
                   THEN "Fail" ELSE IndentRelation(toks[q].ws, x),
            at |-> q, ws |-> toks[q].ws]
    BY DEF EolState, q
  <2>6. QED
    BY <2>4, <2>5, <1>3
<1>4. QED
  BY <1>2, <1>3

-----------------------------------------------------------------------------
(* Field lists. *)

(* Counting the members of P in an interval that grows by one token.       *)
LEMMA CountStep ==
  ASSUME NEW P, NEW lo \in Nat, NEW j \in Nat, lo <= j + 1
  PROVE  /\ Cardinality((lo..j) \cap P) \in Nat
         /\ Cardinality((lo..(j + 1)) \cap P)
              = Cardinality((lo..j) \cap P) + (IF j + 1 \in P THEN 1 ELSE 0)
<1> DEFINE S == (lo..j) \cap P
<1>1. IsFiniteSet(lo..j)
  BY FS_Interval
<1>2. IsFiniteSet(S)
  BY <1>1, FS_Subset
<1>3. Cardinality(S) \in Nat
  BY <1>2, FS_CardinalityType
<1>4. CASE j + 1 \in P
  <2>1. (lo..(j + 1)) \cap P = S \cup {j + 1}
    BY <1>4
  <2>2. j + 1 \notin S
    OBVIOUS
  <2>3. Cardinality(S \cup {j + 1}) = Cardinality(S) + 1
    BY <1>2, <2>2, FS_AddElement
  <2>4. QED
    BY <1>3, <1>4, <2>1, <2>3
<1>5. CASE j + 1 \notin P
  <2>1. (lo..(j + 1)) \cap P = S
    BY <1>5
  <2>2. Cardinality((lo..(j + 1)) \cap P) = Cardinality(S)
    BY <2>1
  <2>3. QED
    BY <1>3, <1>5, <2>2
<1>6. QED
  BY <1>4, <1>5

LevelOf(lo, j, openers, closers) ==
  Cardinality((lo..j) \cap openers) - Cardinality((lo..j) \cap closers)

Openers == {k \in Int : Opens(k)}
Braces == {k \in Int : Tok(k) = "RBRACE"}

(* Level, written over sets that do not depend on the variables.           *)
LEMMA LevelIsLevelOf ==
  ASSUME NEW lo \in Int, NEW j \in Int
  PROVE  Level(lo, j) = LevelOf(lo, j, Openers, Braces)
<1>1. {k \in lo..j : Opens(k)} = (lo..j) \cap Openers
  BY DEF Openers
<1>2. {k \in lo..j : Tok(k) = "RBRACE"} = (lo..j) \cap Braces
  BY DEF Braces
<1>3. QED
  BY <1>1, <1>2 DEF Level, LevelOf

(* A token changes the level of the field list by its brace.               *)
LEMMA LevelStep ==
  ASSUME NEW lo \in Nat, NEW j \in Nat, lo <= j + 1
  PROVE  /\ Level(lo, j) \in Int
         /\ Level(lo, j + 1) = Level(lo, j) + (IF Opens(j + 1) THEN 1 ELSE 0)
                                           - (IF Tok(j + 1) = "RBRACE" THEN 1 ELSE 0)
<1>1. (j + 1 \in Openers <=> Opens(j + 1)) /\ (j + 1 \in Braces <=> Tok(j + 1) = "RBRACE")
  BY DEF Openers, Braces
<1>2. /\ Cardinality((lo..j) \cap Openers) \in Nat
      /\ Cardinality((lo..(j + 1)) \cap Openers)
           = Cardinality((lo..j) \cap Openers) + (IF j + 1 \in Openers THEN 1 ELSE 0)
  BY CountStep
<1>3. /\ Cardinality((lo..j) \cap Braces) \in Nat
      /\ Cardinality((lo..(j + 1)) \cap Braces)
           = Cardinality((lo..j) \cap Braces) + (IF j + 1 \in Braces THEN 1 ELSE 0)
  BY CountStep
<1>4. /\ Level(lo, j) = LevelOf(lo, j, Openers, Braces)
      /\ Level(lo, j + 1) = LevelOf(lo, j + 1, Openers, Braces)
  BY LevelIsLevelOf
<1>5. QED
  BY <1>1, <1>2, <1>3, <1>4 DEF LevelOf

(* Between braces the level stays. *)
LEMMA LevelStays ==
  ASSUME NEW lo \in Nat, NEW j \in Nat, NEW m \in Nat, lo <= j + 1, j <= m,
         \A k \in (j + 1)..m : ~ Opens(k) /\ Tok(k) # "RBRACE"
  PROVE  Level(lo, m) = Level(lo, j)
<1>1. {k \in lo..m : Opens(k)} = {k \in lo..j : Opens(k)}
  OBVIOUS
<1>2. {k \in lo..m : Tok(k) = "RBRACE"} = {k \in lo..j : Tok(k) = "RBRACE"}
  OBVIOUS
<1>3. QED
  BY <1>1, <1>2 DEF Level

(* Behind its own brace a field list has one open group, itself.           *)
LEMMA LevelStarts ==
  ASSUME NEW lo \in Nat, Opens(lo)
  PROVE  Level(lo, lo) = 1
<1>1. {k \in lo..lo : Opens(k)} = {lo}
  OBVIOUS
<1>2. Tok(lo) = "LBRACE"
  BY DEF Opens
<1>3. {k \in lo..lo : Tok(k) = "RBRACE"} = {}
  BY <1>2
<1>4. Cardinality({lo}) = 1 /\ Cardinality({}) = 0
  BY FS_Singleton, FS_EmptySet
<1>5. /\ Cardinality({k \in lo..lo : Opens(k)}) = 1
      /\ Cardinality({k \in lo..lo : Tok(k) = "RBRACE"}) = 0
  BY <1>1, <1>3, <1>4
<1>6. QED
  BY <1>5 DEF Level

(* Up to the first position where every brace is closed, read_header! is   *)
(* inside of the field list.                                               *)
LEMMA ClosersFacts ==
  ASSUME toks \in Document, NEW lo \in 1..N, Opens(lo), Closers(lo) # {}
  PROVE  FieldList(lo, Min(Closers(lo)))
<1>1. N \in Nat /\ N >= 1 /\ Tok(N) = "NL"
  BY DocumentFacts
<1>2. Closers(lo) \subseteq Nat
  BY <1>1 DEF Closers
<1>3. /\ Min(Closers(lo)) \in Closers(lo)
      /\ \A y \in Closers(lo) : Min(Closers(lo)) <= y
  BY <1>2, MinOfNaturals
<1>4. PICK hi \in (lo + 1)..N : /\ hi = Min(Closers(lo))
                                /\ Level(lo, hi) = 0
                                /\ \A y \in (lo + 1)..N : Level(lo, y) = 0 => hi <= y
  BY <1>3 DEF Closers
<1>5. \A j \in lo..(hi - 1) : Level(lo, j) >= 1
  <2> DEFINE S == {j \in lo..(hi - 1) : Level(lo, j) < 1}
  <2>1. SUFFICES ASSUME S # {} PROVE FALSE
    <3>1. \A j \in lo..(hi - 1) : Level(lo, j) \in Int
      BY <1>1, LevelStep
    <3>2. QED
      BY <2>1, <3>1
  <2>2. S \subseteq Nat
    BY <1>1
  <2>3. PICK j \in S : \A y \in S : j <= y
    BY <2>1, <2>2, MinOfNaturals
  <2>4. j # lo
    BY <1>1, <2>3, LevelStarts
  <2>5. j - 1 \in lo..(hi - 1) /\ j - 1 \notin S
    BY <2>3, <2>4
  <2>6. Level(lo, j - 1) >= 1 /\ Level(lo, j - 1) \in Int
    BY <1>1, <2>5, LevelStep
  <2>7. Level(lo, j) >= Level(lo, j - 1) - 1 /\ Level(lo, j) \in Int
    <3>1. j - 1 \in Nat /\ lo \in Nat /\ lo <= (j - 1) + 1 /\ (j - 1) + 1 = j
      BY <1>1, <2>5
    <3>2. Level(lo, (j - 1) + 1) =
            Level(lo, j - 1) + (IF Opens((j - 1) + 1) THEN 1 ELSE 0)
                             - (IF Tok((j - 1) + 1) = "RBRACE" THEN 1 ELSE 0)
      BY <3>1, LevelStep
    <3>3. QED
      BY <3>1, <3>2, <2>6
  <2>8. Level(lo, j) = 0
    BY <2>3, <2>6, <2>7
  <2>9. QED
    BY <1>4, <2>3, <2>4, <2>8, <1>1
<1>6. Tok(hi) = "RBRACE"
  <2>1. hi - 1 \in Nat /\ lo \in Nat /\ lo <= (hi - 1) + 1 /\ (hi - 1) + 1 = hi
    BY <1>1, <1>4
  <2>2. Level(lo, (hi - 1) + 1) =
          Level(lo, hi - 1) + (IF Opens((hi - 1) + 1) THEN 1 ELSE 0)
                            - (IF Tok((hi - 1) + 1) = "RBRACE" THEN 1 ELSE 0)
    BY <2>1, LevelStep
  <2>3. Level(lo, hi - 1) >= 1 /\ Level(lo, hi - 1) \in Int
    BY <1>1, <1>4, <1>5, <2>1, LevelStep
  <2>4. QED
    BY <1>4, <2>1, <2>2, <2>3
<1>7. hi \in (lo + 1)..(N - 1)
  BY <1>1, <1>4, <1>6
<1>8. QED
  BY <1>4, <1>5, <1>6, <1>7 DEF FieldList

-----------------------------------------------------------------------------
(* Headers. *)

Delims == {"COMMA", "|", "TAB"}

HeaderOK(h) ==
  /\ h \in Headers
  /\ h.type \in HeaderTypes
  /\ h.type # "Fail" => h.end \in 1..N
  /\ h.type = "ObjectStart" => h.end \in 1..(N - 1) /\ h.key # 0
  /\ h.type = "SimpleArray" => h.n > 0
  /\ h.type \in {"TabularArray", "NestedFieldGroupsArray"} => h.lo # 0
  /\ h.lo # 0 => FieldList(h.lo, h.hi)

(* The header that stands for a failed read_header! is one.                *)
LEMMA NoHeaderOK == HeaderOK(NoHeader)
BY DEF HeaderOK, NoHeader, Header, Headers, HeaderTypes

(* What read_header! returns for a header with a field list: a header,     *)
(* whose field list is well braced.                                        *)
LEMMA FieldListHeaderFacts ==
  ASSUME toks \in Document, NEW key \in Nat, NEW n \in Nat, NEW keyed \in BOOLEAN,
         NEW delim \in Delims, NEW lo \in 1..N, Opens(lo)
  PROVE  HeaderOK(FieldListHeader(key, n, keyed, delim, lo))
<1> DEFINE hi == Min(Closers(lo))
           h == Header("TabularArray", key, n, delim, lo, hi, hi + 1)
           f == FieldListHeader(key, n, keyed, delim, lo)
<1>1. N \in Nat /\ N >= 1
  BY DocumentFacts
<1>2. CASE Closers(lo) = {}
  BY <1>2, NoHeaderOK DEF FieldListHeader
<1>3. CASE Closers(lo) # {}
  <2>1. FieldList(lo, hi)
    BY <1>3, ClosersFacts
  <2>2. hi \in (lo + 1)..(N - 1)
    BY <2>1 DEF FieldList
  <2>3. f = NoHeader \/ \E t \in {"KeyedTabularObjects", "NestedFieldGroupsArray",
                                  "TabularArray"} : f = [h EXCEPT !.type = t]
    <3> HIDE DEF hi
    <3>1. QED
      BY DEF FieldListHeader, hi
  <2> HIDE DEF hi
  <2>4. ASSUME NEW t \in {"KeyedTabularObjects", "NestedFieldGroupsArray", "TabularArray"},
               f = [h EXCEPT !.type = t]
        PROVE  HeaderOK(f)
    <3>1. f = [type |-> t, key |-> key, n |-> n, delim |-> delim,
               lo |-> lo, hi |-> hi, end |-> hi + 1, root |-> FALSE]
      BY <2>4 DEF Header
    <3> HIDE DEF f
    <3>2. lo \in Nat /\ hi \in Nat /\ hi + 1 \in 1..N /\ lo # 0
      BY <1>1, <2>2
    <3>3. f \in Headers
      <4>1. delim \in {"COMMA", "|", "TAB"} /\ t \in HeaderTypes \cup TableStates
        BY <2>4 DEF Delims, HeaderTypes
      <4>2. QED
        BY <3>1, <3>2, <4>1 DEF Headers
    <3>4. /\ f.type = t /\ f.end = hi + 1 /\ f.lo = lo /\ f.hi = hi
          /\ t \in HeaderTypes
      BY <3>1, <2>4 DEF HeaderTypes
    <3>5. QED
      BY <2>1, <2>4, <3>2, <3>3, <3>4 DEF HeaderOK
  <2>5. QED
    BY <2>3, <2>4, NoHeaderOK
<1>4. QED
  BY <1>2, <1>3

(* The same for every header with a bracket.                               *)
LEMMA BracketHeaderFacts ==
  ASSUME toks \in Document, NEW key \in Nat, NEW p \in 1..N
  PROVE  HeaderOK(BracketHeader(key, p))
<1> DEFINE keyed == Tok(p + 2) = ":"
           q     == IF keyed THEN p + 3 ELSE p + 2
           other == Tok(q) \in {"|", "TAB"}
           delim == IF other THEN Tok(q) ELSE "COMMA"
           close == IF other THEN q + 1 ELSE q
           n     == NumberOf[Tok(p + 1)]
           h     == BracketHeader(key, p)
<1>1. N \in Nat /\ N >= 1 /\ Tok(N) = "NL"
  BY DocumentFacts
<1>2. CASE Tok(p + 1) \notin Numerals \/ Tok(close) # "]" \/ toks[p + 2].ws # 0
  BY <1>2, NoHeaderOK DEF BracketHeader
<1>3. CASE Tok(p + 1) \in Numerals /\ Tok(close) = "]" /\ toks[p + 2].ws = 0
  <2>1. n \in Nat
    BY <1>3, ConstantsAssumption
  <2>2. delim \in Delims
    BY DEF Delims
  <2>3. close \in Nat
    BY <1>1
  <2>4. close \in 1..(N - 1)
    BY <1>1, <1>3, <2>3 DEF Tok
  <2>5. keyed \in BOOLEAN
    OBVIOUS
  <2>6. h = IF Tok(close + 1) = "LBRACE"
            THEN FieldListHeader(key, n, keyed, delim, close + 1)
            ELSE Header(IF keyed THEN "KeyedTabularObjects"
                        ELSE IF n = 0 THEN "EmptyArray" ELSE "SimpleArray",
                        key, n, delim, 0, 0, close + 1)
    BY <1>3 DEF BracketHeader
  <2>7. Tok(close) = "]"
    BY <1>3
  <2> HIDE DEF n, delim, close, keyed, h
  <2>8. CASE Tok(close + 1) = "LBRACE"
    <3>1. close + 1 \in 1..N /\ (close + 1) - 1 = close
      BY <1>1, <2>4
    <3>2. Opens(close + 1)
      BY <3>1, <2>7, <2>8 DEF Opens, Skipped
    <3>3. HeaderOK(FieldListHeader(key, n, keyed, delim, close + 1))
      BY <2>1, <2>2, <2>5, <3>1, <3>2, FieldListHeaderFacts
    <3>4. QED
      BY <2>6, <2>8, <3>3 DEF h
  <2>9. CASE Tok(close + 1) # "LBRACE"
    <3> DEFINE t == IF keyed THEN "KeyedTabularObjects"
                    ELSE IF n = 0 THEN "EmptyArray" ELSE "SimpleArray"
    <3>1. t \in {"KeyedTabularObjects", "EmptyArray", "SimpleArray"}
      OBVIOUS
    <3>2. t = "SimpleArray" => n > 0
      BY <2>1
    <3>3. h = [type |-> t, key |-> key, n |-> n, delim |-> delim,
               lo |-> 0, hi |-> 0, end |-> close + 1, root |-> FALSE]
      BY <2>6, <2>9 DEF Header
    <3> HIDE DEF t
    <3>4. close + 1 \in 1..N /\ close + 1 \in Nat
      BY <1>1, <2>4
    <3>5. h \in Headers
      BY <2>1, <2>2, <3>1, <3>3, <3>4 DEF Headers, HeaderTypes, Delims
    <3>6. /\ h.type = t /\ h.n = n /\ h.end = close + 1 /\ h.lo = 0
          /\ t \in HeaderTypes
      BY <3>1, <3>3 DEF HeaderTypes
    <3>7. HeaderOK(h)
      BY <3>1, <3>2, <3>4, <3>5, <3>6 DEF HeaderOK
    <3>8. QED
      BY <3>7 DEF h
  <2>10. QED
    BY <2>8, <2>9 DEF h
<1>4. QED
  BY <1>2, <1>3

(* The same for every line: read_header! returns a header, whose field     *)
(* list, if there is one, is well braced.                                  *)
LEMMA ReadHeaderFacts ==
  ASSUME toks \in Document, NEW p \in 1..N
  PROVE  HeaderOK(ReadHeader(p))
<1> DEFINE e == ValueEnd(p, {":", "["})
           key == IF HasText(p, e) THEN p ELSE 0
           h == ReadHeader(p)
<1>1. N \in Nat /\ N >= 1
  BY DocumentFacts
<1>2. e \in p..N /\ (Tok(e) # "NL" => e < N)
  BY ValueEndFacts
<1>3. key \in Nat /\ e \in 1..N
  BY <1>1, <1>2
<1>4. h = IF Tok(e) = "[" THEN BracketHeader(key, e)
          ELSE IF Tok(e) = ":"
          THEN IF key = 0 THEN NoHeader ELSE Header("ObjectStart", key, 0, "COMMA", 0, 0, e)
          ELSE Header(IF key = 0 THEN "EmptyObject" ELSE "PrimitiveValue",
                      key, 0, "COMMA", 0, 0, e)
  BY DEF ReadHeader
<1> HIDE DEF e, key, h
<1>5. CASE Tok(e) = "["
  BY <1>3, <1>4, <1>5, BracketHeaderFacts DEF h
<1>6. ASSUME NEW t \in {"ObjectStart", "EmptyObject", "PrimitiveValue"},
             h = Header(t, key, 0, "COMMA", 0, 0, e),
             t = "ObjectStart" => e < N /\ key # 0
      PROVE  HeaderOK(h)
  BY <1>1, <1>3, <1>6 DEF HeaderOK, Header, Headers, HeaderTypes
<1>7. CASE Tok(e) = ":" /\ key = 0
  BY <1>4, <1>7, NoHeaderOK DEF h
<1>8. CASE Tok(e) = ":" /\ key # 0
  BY <1>2, <1>4, <1>6, <1>8 DEF h
<1>9. CASE Tok(e) # "[" /\ Tok(e) # ":"
  BY <1>4, <1>6, <1>9 DEF h
<1>10. QED
  BY <1>5, <1>7, <1>8, <1>9

-----------------------------------------------------------------------------
(* Scopes. *)

(* A builder is the record of its five fields.                             *)
LEMMA BuilderFields ==
  ASSUME NEW x \in Builders
  PROVE  /\ x = [stack |-> x.stack, indents |-> x.indents, start |-> x.start,
                 cnt |-> x.cnt, tape |-> x.tape]
         /\ x.stack \in Seq(Frames) /\ x.indents \in Seq(Nat) /\ x.start \in Nat \ {0}
         /\ x.cnt \in Nat /\ x.tape \in Seq(Nodes)
BY DEF Builders

(* insert_str! and its like write nodes of the tape.                       *)
LEMMA NodeFacts ==
  ASSUME NEW kind \in {"Key", "Value"} \cup Containers, NEW tok \in Nat,
         NEW declared \in Nat \cup {-1}
  PROVE  /\ Node(kind, tok, declared) \in Nodes
         /\ Node(kind, tok, declared).kind = kind
BY DEF Node, Nodes

(* curr_indent! is a natural.                                              *)
LEMMA IndentFacts ==
  ASSUME NEW x \in Builders
  PROVE  Indent(x) \in Nat
<1>1. x.indents \in Seq(Nat)
  BY BuilderFields
<1>2. QED
  BY <1>1 DEF Indent, Last

(* Writing a node leaves the open scopes as they are.                      *)
LEMMA WriteFacts ==
  ASSUME NEW x, ScopesOK(x), NEW node \in Nodes
  PROVE  ScopesOK(Write(x, node)) /\ Write(x, node).stack = x.stack
<1> DEFINE y == Write(x, node)
<1>1. x \in Builders
  BY DEF ScopesOK
<1>2. /\ x.stack \in Seq(Frames) /\ x.indents \in Seq(Nat) /\ x.start \in Nat \ {0}
      /\ x.cnt \in Nat /\ x.tape \in Seq(Nodes)
  BY <1>1, BuilderFields
<1>3. y = [stack |-> x.stack, indents |-> x.indents, start |-> x.start,
           cnt |-> x.cnt, tape |-> Append(x.tape, node)]
  <2>1. y = [x EXCEPT !.tape = Append(x.tape, node)]
    BY DEF Write
  <2> DEFINE t == Append(x.tape, node)
  <2> HIDE DEF t, y
  <2>2. y = [x EXCEPT !.tape = t]
    BY <2>1 DEF t
  <2>3. y = [stack |-> x.stack, indents |-> x.indents, start |-> x.start,
             cnt |-> x.cnt, tape |-> t]
    BY <2>2, <1>1 DEF Builders
  <2>4. QED
    BY <2>3 DEF t
<1> HIDE DEF y
<1>4. /\ y.tape \in Seq(Nodes)
      /\ Len(y.tape) = Len(x.tape) + 1
      /\ \A k \in 1..Len(x.tape) : y.tape[k] = x.tape[k]
  BY <1>2, <1>3
<1>5. y \in Builders
  BY <1>2, <1>3, <1>4 DEF Builders
<1>6. y.stack = x.stack /\ y.indents = x.indents /\ y.start = x.start
  BY <1>3
<1>7. y.start \in 1..Len(y.tape) /\ y.tape[y.start].kind \in Containers
  BY <1>2, <1>4, <1>6 DEF ScopesOK
<1>8. ASSUME NEW d \in 2..Len(y.stack)
      PROVE  /\ y.stack[d].start \in 1..Len(y.tape)
             /\ y.tape[y.stack[d].start].kind \in Containers
  <2>1. /\ x.stack[d].start \in 1..Len(x.tape)
        /\ x.tape[x.stack[d].start].kind \in Containers
    BY <1>6 DEF ScopesOK
  <2>2. y.stack[d].start = x.stack[d].start /\ Len(x.tape) \in Nat
    BY <1>2, <1>6
  <2>3. QED
    BY <2>1, <2>2, <1>4
<1>9. ScopesOK(y)
  BY <1>5, <1>6, <1>7, <1>8 DEF ScopesOK
<1>10. QED
  BY <1>6, <1>9 DEF y

(* Counting an entry leaves the open scopes as they are.                   *)
LEMMA CountedFacts ==
  ASSUME NEW x, ScopesOK(x)
  PROVE  ScopesOK(Counted(x)) /\ Counted(x).stack = x.stack
<1> DEFINE y == Counted(x)
<1>1. x \in Builders
  BY DEF ScopesOK
<1>2. /\ x.stack \in Seq(Frames) /\ x.indents \in Seq(Nat) /\ x.start \in Nat \ {0}
      /\ x.cnt \in Nat /\ x.tape \in Seq(Nodes)
  BY <1>1, BuilderFields
<1>3. y = [stack |-> x.stack, indents |-> x.indents, start |-> x.start,
           cnt |-> x.cnt + 1, tape |-> x.tape]
  BY <1>1, BuilderFields DEF Counted
<1> HIDE DEF y
<1>4. y \in Builders
  BY <1>2, <1>3 DEF Builders
<1>5. ScopesOK(y) /\ y.stack = x.stack
  BY <1>3, <1>4 DEF ScopesOK
<1>6. QED
  BY <1>5 DEF y

(* The inserts of keys, values and empty containers leave the scopes as    *)
(* they are.                                                               *)
LEMMA PutFacts ==
  ASSUME NEW x, ScopesOK(x), NEW p \in Nat
  PROVE  /\ ScopesOK(PutKey(x, p)) /\ PutKey(x, p).stack = x.stack
         /\ ScopesOK(PutHeaderKey(x, p)) /\ PutHeaderKey(x, p).stack = x.stack
         /\ ScopesOK(PutValue(x, p)) /\ PutValue(x, p).stack = x.stack
         /\ \A kind \in Containers : /\ ScopesOK(PutEmpty(x, kind))
                                     /\ PutEmpty(x, kind).stack = x.stack
<1>1. /\ Node("Key", p, -1) \in Nodes /\ Node("Value", p, -1) \in Nodes
      /\ \A kind \in Containers : Node(kind, 0, -1) \in Nodes
  BY NodeFacts
<1>2. ScopesOK(PutKey(x, p)) /\ PutKey(x, p).stack = x.stack
  BY <1>1, WriteFacts, CountedFacts DEF PutKey
<1>3. ScopesOK(PutHeaderKey(x, p)) /\ PutHeaderKey(x, p).stack = x.stack
  BY <1>2 DEF PutHeaderKey
<1>4. ScopesOK(PutValue(x, p)) /\ PutValue(x, p).stack = x.stack
  BY <1>1, WriteFacts DEF PutValue
<1>5. ASSUME NEW kind \in Containers
      PROVE  ScopesOK(PutEmpty(x, kind)) /\ PutEmpty(x, kind).stack = x.stack
  BY <1>1, WriteFacts DEF PutEmpty
<1>6. QED
  BY <1>2, <1>3, <1>4, <1>5

(* open_scope! adds one scope, and the slot it will backfill is a          *)
(* container.                                                              *)
LEMMA OpenScopeFacts ==
  ASSUME NEW x, ScopesOK(x), NEW kind \in Containers, NEW tag \in {"Object", "Array"},
         NEW ws \in Nat, NEW declared \in Nat \cup {-1}
  PROVE  /\ ScopesOK(OpenScope(x, kind, tag, ws, declared))
         /\ Len(OpenScope(x, kind, tag, ws, declared).stack) = Len(x.stack) + 1
<1> DEFINE y == OpenScope(x, kind, tag, ws, declared)
           node == Node(kind, 0, declared)
           frame == [tag |-> tag, start |-> x.start, cnt |-> x.cnt]
<1>1. x \in Builders
  BY DEF ScopesOK
<1>2. /\ x.stack \in Seq(Frames) /\ x.indents \in Seq(Nat) /\ x.start \in Nat \ {0}
      /\ x.cnt \in Nat /\ x.tape \in Seq(Nodes)
  BY <1>1, BuilderFields
<1>3. node \in Nodes /\ node.kind = kind
  BY NodeFacts
<1>4. frame \in Frames /\ frame.start = x.start /\ frame.tag = tag
  BY <1>2 DEF Frames
<1>5. y = [stack |-> Append(x.stack, frame), indents |-> Append(x.indents, ws),
           start |-> Len(x.tape) + 1, cnt |-> 0, tape |-> Append(x.tape, node)]
  BY DEF OpenScope
<1> HIDE DEF y, node, frame
<1>6. /\ y.stack \in Seq(Frames)
      /\ Len(y.stack) = Len(x.stack) + 1
      /\ y.stack[Len(x.stack) + 1] = frame
      /\ \A d \in 1..Len(x.stack) : y.stack[d] = x.stack[d]
  BY <1>2, <1>4, <1>5
<1>7. /\ y.tape \in Seq(Nodes)
      /\ Len(y.tape) = Len(x.tape) + 1
      /\ y.tape[Len(x.tape) + 1] = node
      /\ \A k \in 1..Len(x.tape) : y.tape[k] = x.tape[k]
  BY <1>2, <1>3, <1>5
<1>8. y.indents \in Seq(Nat) /\ Len(y.indents) = Len(x.indents) + 1
  BY <1>2, <1>5
<1>9. y.start = Len(x.tape) + 1 /\ y.cnt = 0
  BY <1>5
<1>10. y \in Builders
  BY <1>2, <1>5, <1>6, <1>7, <1>8, <1>9 DEF Builders
<1>11. /\ Len(x.stack) \in Nat /\ Len(x.tape) \in Nat
       /\ Len(x.stack) >= 1 /\ Len(x.indents) >= Len(x.stack) /\ Len(x.indents) \in Nat
  BY <1>2 DEF ScopesOK
<1>12. Len(y.stack) >= 1 /\ Len(y.indents) >= Len(y.stack)
  BY <1>6, <1>8, <1>11
<1>13. y.start \in 1..Len(y.tape) /\ y.tape[y.start].kind \in Containers
  BY <1>3, <1>7, <1>9, <1>11
<1>14. ASSUME NEW d \in 2..Len(y.stack)
       PROVE  /\ y.stack[d].start \in 1..Len(y.tape)
              /\ y.tape[y.stack[d].start].kind \in Containers
  <2>1. CASE d = Len(x.stack) + 1
    BY <2>1, <1>4, <1>6, <1>7, <1>11 DEF ScopesOK
  <2>2. CASE d # Len(x.stack) + 1
    <3>1. d \in 2..Len(x.stack) /\ y.stack[d] = x.stack[d]
      BY <2>2, <1>6, <1>11
    <3>2. /\ x.stack[d].start \in 1..Len(x.tape)
          /\ x.tape[x.stack[d].start].kind \in Containers
      BY <3>1 DEF ScopesOK
    <3>3. y.stack[d].start = x.stack[d].start
      BY <3>1
    <3> DEFINE p == x.stack[d].start
    <3>4. p \in 1..Len(x.tape) /\ x.tape[p].kind \in Containers /\ y.stack[d].start = p
      BY <3>2, <3>3
    <3> HIDE DEF p
    <3>5. p \in 1..Len(y.tape) /\ y.tape[p] = x.tape[p]
      BY ONLY <3>4, <1>7, <1>11
    <3>6. QED
      BY ONLY <3>4, <3>5
  <2>3. QED
    BY <2>1, <2>2
<1>15. ASSUME NEW d \in 1..Len(y.stack)
       PROVE  y.stack[d].tag = "Start" <=> d = 1
  <2>1. CASE d = Len(x.stack) + 1
    BY <2>1, <1>4, <1>6, <1>11
  <2>2. CASE d # Len(x.stack) + 1
    <3>1. d \in 1..Len(x.stack) /\ y.stack[d] = x.stack[d]
      BY <2>2, <1>6, <1>11
    <3>2. QED
      BY <3>1 DEF ScopesOK
  <2>3. QED
    BY <2>1, <2>2
<1>16. ScopesOK(y)
  BY <1>10, <1>12, <1>13, <1>14, <1>15 DEF ScopesOK
<1>17. QED
  BY <1>6, <1>16 DEF y

(* A sequence without its last element, and its last element.              *)
LEMMA FrontFacts ==
  ASSUME NEW S, NEW s \in Seq(S), Len(s) >= 1
  PROVE  /\ Front(s) \in Seq(S)
         /\ Len(Front(s)) = Len(s) - 1
         /\ \A k \in 1..(Len(s) - 1) : Front(s)[k] = s[k]
         /\ Last(s) = s[Len(s)] /\ Last(s) \in S
<1>1. Len(s) - 1 \in Nat /\ Len(s) \in Nat
  OBVIOUS
<1>2. Front(s) = SubSeq(s, 1, Len(s) - 1)
  BY DEF Front
<1>3. Front(s) \in Seq(S) /\ Len(Front(s)) = Len(s) - 1
  <2> DEFINE n == Len(s) - 1
  <2>1. n \in Int /\ 1 \in Int /\ \A k \in 1..n : s[k] \in S
    BY <1>1
  <2>2. n >= 0
    BY <1>1
  <2> HIDE DEF n
  <2>3. SubSeq(s, 1, n) \in Seq(S) /\ Len(SubSeq(s, 1, n)) = IF 1 <= n THEN n - 1 + 1 ELSE 0
    BY <2>1, SubSeqProperties
  <2>4. SubSeq(s, 1, n) \in Seq(S) /\ Len(SubSeq(s, 1, n)) = n
    BY <2>1, <2>2, <2>3
  <2>5. QED
    BY <1>2, <2>4 DEF n
<1>4. ASSUME NEW k \in 1..(Len(s) - 1)
      PROVE  Front(s)[k] = s[k]
  BY <1>1, <1>2
<1>5. Last(s) = s[Len(s)] /\ Last(s) \in S
  BY <1>1 DEF Last
<1>6. QED
  BY <1>3, <1>4, <1>5

(* CloseScope returns to the scope around the innermost one, if there is   *)
(* one; behind the last scope the tape is complete.                        *)
LEMMA CloseScopeFacts ==
  ASSUME NEW x, ScopesOK(x)
  PROVE  /\ CloseScope(x) \in Builders
         /\ Len(CloseScope(x).stack) = Len(x.stack) - 1
         /\ Len(x.stack) >= 2 => ScopesOK(CloseScope(x))
<1> DEFINE y == CloseScope(x)
           n == Len(x.tape) - x.start
           tape == [x.tape EXCEPT ![x.start].len = x.cnt, ![x.start].count = n]
<1>1. x \in Builders
  BY DEF ScopesOK
<1>2. /\ x.stack \in Seq(Frames) /\ x.indents \in Seq(Nat) /\ x.start \in Nat \ {0}
      /\ x.cnt \in Nat /\ x.tape \in Seq(Nodes)
  BY <1>1, BuilderFields
<1>3. /\ Len(x.stack) \in Nat /\ Len(x.tape) \in Nat /\ Len(x.indents) \in Nat
      /\ Len(x.stack) >= 1 /\ Len(x.indents) >= Len(x.stack)
      /\ x.start \in 1..Len(x.tape)
  BY <1>2 DEF ScopesOK
<1>4. n \in Nat
  BY <1>3
<1>5. y = [stack |-> Front(x.stack), indents |-> Front(x.indents),
           start |-> Last(x.stack).start, cnt |-> Last(x.stack).cnt, tape |-> tape]
  BY DEF CloseScope, Close, Backfill
<1>6. /\ tape \in Seq(Nodes)
      /\ Len(tape) = Len(x.tape)
      /\ \A k \in 1..Len(x.tape) : tape[k].kind = x.tape[k].kind
  <2> HIDE DEF n
  <2>1. x.tape[x.start] \in Nodes
    BY <1>2, <1>3
  <2>2. [x.tape[x.start] EXCEPT !.len = x.cnt, !.count = n] \in Nodes
    BY <2>1, <1>2, <1>4 DEF Nodes
  <2>3. tape = [x.tape EXCEPT ![x.start] =
                  [x.tape[x.start] EXCEPT !.len = x.cnt, !.count = n]]
    BY <1>2, <1>3
  <2>4. [x.tape[x.start] EXCEPT !.len = x.cnt, !.count = n].kind = x.tape[x.start].kind
    BY <2>1 DEF Nodes
  <2> HIDE DEF tape
  <2>5. QED
    BY <2>2, <2>3, <2>4, <1>2, <1>3
<1> HIDE DEF y, n, tape
<1>7. /\ Front(x.stack) \in Seq(Frames)
      /\ Len(Front(x.stack)) = Len(x.stack) - 1
      /\ \A k \in 1..(Len(x.stack) - 1) : Front(x.stack)[k] = x.stack[k]
      /\ Last(x.stack) = x.stack[Len(x.stack)] /\ Last(x.stack) \in Frames
  BY <1>2, <1>3, FrontFacts
<1>8. Front(x.indents) \in Seq(Nat) /\ Len(Front(x.indents)) = Len(x.indents) - 1
  <2>1. x.indents \in Seq(Nat) /\ Len(x.indents) >= 1
    BY <1>2, <1>3
  <2>2. QED
    BY <2>1, FrontFacts
<1>9. Last(x.stack).start \in Nat \ {0} /\ Last(x.stack).cnt \in Nat
  BY <1>7 DEF Frames
<1>10. y \in Builders
  BY <1>5, <1>6, <1>7, <1>8, <1>9 DEF Builders
<1>11. Len(y.stack) = Len(x.stack) - 1
  BY <1>5, <1>7
<1>12. ASSUME Len(x.stack) >= 2
       PROVE  ScopesOK(y)
  <2>1. /\ x.stack[Len(x.stack)].start \in 1..Len(x.tape)
        /\ x.tape[x.stack[Len(x.stack)].start].kind \in Containers
    BY <1>3, <1>12 DEF ScopesOK
  <2>2. y.start \in 1..Len(y.tape) /\ y.tape[y.start].kind \in Containers
    BY <2>1, <1>5, <1>6, <1>7
  <2>3. ASSUME NEW d \in 2..Len(y.stack)
        PROVE  /\ y.stack[d].start \in 1..Len(y.tape)
               /\ y.tape[y.stack[d].start].kind \in Containers
    <3>1. d \in 2..Len(x.stack) /\ y.stack[d] = x.stack[d]
      BY <1>3, <1>5, <1>7, <1>11
    <3>2. /\ x.stack[d].start \in 1..Len(x.tape)
          /\ x.tape[x.stack[d].start].kind \in Containers
      BY <3>1 DEF ScopesOK
    <3>3. QED
      BY <3>1, <3>2, <1>5, <1>6
  <2>4. ASSUME NEW d \in 1..Len(y.stack)
        PROVE  y.stack[d].tag = "Start" <=> d = 1
    <3>1. d \in 1..Len(x.stack) /\ y.stack[d] = x.stack[d]
      BY <1>3, <1>5, <1>7, <1>11
    <3>2. QED
      BY <3>1 DEF ScopesOK
  <2>5. Len(y.stack) >= 1 /\ Len(y.indents) >= Len(y.stack)
    BY <1>3, <1>5, <1>8, <1>11, <1>12
  <2>6. QED
    BY <2>2, <2>3, <2>4, <2>5, <1>10 DEF ScopesOK
<1>13. QED
  BY <1>10, <1>11, <1>12 DEF y

-----------------------------------------------------------------------------
(* The inductive invariant. *)

(* The next state, in terms of this state's document. *)
NextGood ==
  /\ toks' = toks /\ i' \in 1..N /\ pc' \in States
  /\ hdr' \in Headers /\ left' \in Nat /\ cell' \in Nat /\ b' \in Builders
  /\ pending' \in PendingCounts /\ dedent' \in Nat
  /\ mem' \in [cap : Nat, slack : Nat] /\ lapses' \subseteq {"keyless field", "no value"}
  /\ Good(pc', hdr', left', cell', b', pending')

(* What is read off the tokens stays as it is. *)
LEMMA SameTokens ==
  ASSUME toks' = toks
  PROVE  /\ N' = N
         /\ \A j : Tok(j)' = Tok(j)
         /\ \A j : Opens(j)' = Opens(j)
         /\ \A lo, j : Level(lo, j)' = Level(lo, j)
<1>1. N' = N
  BY DEF N
<1>2. \A j : Tok(j)' = Tok(j)
  BY <1>1 DEF Tok
<1>3. \A j : Opens(j)' = Opens(j)
  BY <1>2 DEF Opens, Skipped
<1>4. ASSUME NEW lo, NEW j
      PROVE  Level(lo, j)' = Level(lo, j)
  <2>1. {k \in lo..j : Opens(k)'} = {k \in lo..j : Opens(k)}
    BY <1>3
  <2>2. {k \in lo..j : Tok(k)' = "RBRACE"} = {k \in lo..j : Tok(k) = "RBRACE"}
    BY <1>2
  <2>3. QED
    BY <2>1, <2>2 DEF Level
<1>5. QED
  BY <1>1, <1>2, <1>3, <1>4

(* NextGood is the invariant in the next state, with the variables a step  *)
(* leaves alone taken out.                                                 *)
LEMMA NextGoodSuffices ==
  ASSUME TypeOK, NextGood
  PROVE  IndInv'
<1>1. toks' = toks
  BY DEF NextGood
<1>2. /\ N' = N
      /\ \A j : Tok(j)' = Tok(j)
      /\ \A j : Opens(j)' = Opens(j)
      /\ \A lo, j : Level(lo, j)' = Level(lo, j)
  BY <1>1, SameTokens
<1>3. \A lo, hi : FieldList(lo, hi)' <=> FieldList(lo, hi)
  BY <1>2 DEF FieldList
<1>4. Good(pc, hdr, left, cell, b, pending)'
  <2>1. Good(pc', hdr', left', cell', b', pending')
    BY DEF NextGood
  <2>2. FieldList(hdr.lo, hdr.hi)' <=> FieldList(hdr'.lo, hdr'.hi)
    BY <1>3
  <2>3. Level(hdr.lo, cell - 1)' = Level(hdr'.lo, cell' - 1)
    BY <1>2
  <2>4. QED
    BY <2>1, <2>2, <2>3 DEF Good, Base, ScopesOK, PendingOK, Final
<1>5. TypeOK'
  BY <1>1, <1>2 DEF NextGood, TypeOK, PendingCounts
<1>6. QED
  BY <1>4, <1>5 DEF IndInv

(* What the invariant says of the current state, in parts that are cited.  *)
LEMMA Here ==
  ASSUME IndInv
  PROVE  /\ toks \in Document /\ N \in Nat /\ N >= 1 /\ i \in 1..N /\ pc \in States
         /\ hdr \in Headers /\ hdr.key \in Nat /\ hdr.n \in Nat /\ hdr.root \in BOOLEAN
         /\ hdr.delim \in Delims /\ hdr.lo \in Nat /\ hdr.hi \in Nat
         /\ left \in Nat /\ cell \in Nat /\ b \in Builders /\ pending \in PendingCounts
         /\ dedent \in Nat /\ mem \in [cap : Nat, slack : Nat]
         /\ lapses \subseteq {"keyless field", "no value"}
         /\ hdr.lo # 0 => FieldList(hdr.lo, hdr.hi)
         /\ pc \notin Final \cup {"Start"} =>
              ScopesOK(b) /\ Base(pc, hdr, cell, b) >= 1 /\ PendingOK(pending, Base(pc, hdr, cell, b))
<1>1. TypeOK /\ Good(pc, hdr, left, cell, b, pending)
  BY DEF IndInv
<1>2. N \in Nat /\ N >= 1
  BY <1>1, DocumentFacts DEF TypeOK
<1>3. /\ hdr.key \in Nat /\ hdr.n \in Nat /\ hdr.root \in BOOLEAN
      /\ hdr.delim \in Delims /\ hdr.lo \in Nat /\ hdr.hi \in Nat
  BY <1>1 DEF TypeOK, Headers, Delims
<1>4. QED
  BY <1>1, <1>2, <1>3 DEF TypeOK, Good, PendingCounts

(* Pending counts that lie among n scopes lie among more.                  *)
LEMMA PendingGrows ==
  ASSUME NEW pend, NEW n \in Int, NEW m \in Int, n <= m, PendingOK(pend, n)
  PROVE  PendingOK(pend, m)
BY DEF PendingOK

(* The states that need no more than the scopes they work in. *)
Plain == {"ParseHeader", "ParseSimpleObjectValue", "ParseEmptyArray",
          "ExpectBlockArrayItem", "ParseTabularObjects", "ScopeEnd"}

(* A state that relies on nothing but the scopes has what it relies on.    *)
LEMMA PlainGood ==
  ASSUME NEW p \in Plain, NEW x, ScopesOK(x), NEW pend, PendingOK(pend, Len(x.stack)),
         NEW h, h.lo # 0 => FieldList(h.lo, h.hi), NEW l, NEW c
  PROVE  Good(p, h, l, c, x, pend)
<1>1. Len(x.stack) \in Nat /\ Len(x.stack) >= 1
  BY BuilderFields DEF ScopesOK
<1>2. Base(p, h, c, x) = Len(x.stack)
  BY <1>1 DEF Base, Plain
<1>3. QED
  BY <1>1, <1>2 DEF Good, Plain

(* When build_tape has returned nothing is relied on.                      *)
LEMMA FinalGood ==
  ASSUME NEW p \in Final, NEW x, NEW pend, NEW h, h.lo # 0 => FieldList(h.lo, h.hi),
         NEW l, NEW c
  PROVE  Good(p, h, l, c, x, pend)
BY DEF Good, Final

(* The container of a header adds one scope, unless it is the root, which  *)
(* has its scope already.                                                  *)
LEMMA EnterFacts ==
  ASSUME hdr \in Headers, NEW x, ScopesOK(x), NEW kind \in Containers, NEW ws \in Nat
  PROVE  /\ ScopesOK(Enter(x, kind, ws))
         /\ Len(Enter(x, kind, ws).stack) = Len(x.stack) + (IF hdr.root THEN 0 ELSE 1)
<1>1. CASE hdr.root
  <2> DEFINE y == Enter(x, kind, ws)
             indents == Append(x.indents, ws)
  <2>1. x \in Builders
    BY DEF ScopesOK
  <2>2. /\ x.stack \in Seq(Frames) /\ x.indents \in Seq(Nat) /\ x.start \in Nat \ {0}
        /\ x.cnt \in Nat /\ x.tape \in Seq(Nodes)
    BY <2>1, BuilderFields
  <2>3. indents \in Seq(Nat) /\ Len(indents) = Len(x.indents) + 1
    BY <2>2
  <2>4. y = [x EXCEPT !.indents = indents]
    BY <1>1 DEF Enter
  <2> HIDE DEF y, indents
  <2>5. /\ y \in Builders
        /\ y.stack = x.stack /\ y.start = x.start /\ y.tape = x.tape /\ y.indents = indents
    BY <2>1, <2>3, <2>4 DEF Builders
  <2>6. Len(y.indents) >= Len(y.stack)
    BY <2>2, <2>3, <2>5 DEF ScopesOK
  <2>7. ScopesOK(y)
    BY <2>5, <2>6 DEF ScopesOK
  <2>8. QED
    BY <1>1, <2>2, <2>5, <2>7 DEF y
<1>2. CASE ~ hdr.root
  <2>1. FrameTag(hdr.key) \in {"Object", "Array"}
    BY DEF FrameTag
  <2>2. hdr.n \in Nat \cup {-1}
    BY DEF Headers
  <2>3. Enter(x, kind, ws) = OpenScope(x, kind, FrameTag(hdr.key), ws, hdr.n)
    BY <1>2 DEF Enter
  <2>4. QED
    BY <1>2, <2>1, <2>2, <2>3, OpenScopeFacts
<1>3. QED
  BY <1>1, <1>2

(* Open scopes have a depth and an indentation.                            *)
LEMMA ScopesFacts ==
  ASSUME NEW x, ScopesOK(x)
  PROVE  /\ x \in Builders
         /\ Len(x.stack) \in Nat /\ Len(x.stack) >= 1
         /\ Indent(x) \in Nat /\ Indent(x) + IndentSize \in Nat
<1>1. x \in Builders /\ Len(x.stack) >= 1
  BY DEF ScopesOK
<1>2. x.stack \in Seq(Frames)
  BY <1>1, BuilderFields
<1>3. Indent(x) \in Nat
  BY <1>1, IndentFacts
<1>4. QED
  BY <1>1, <1>2, <1>3, ConstantsAssumption

(* In a state that is not within a row. *)
LEMMA HereOutsideRows ==
  ASSUME IndInv, pc \notin Final \cup {"Start", "Cell", "EndRow"}
  PROVE  ScopesOK(b) /\ PendingOK(pending, Len(b.stack))
<1>1. ScopesOK(b) /\ PendingOK(pending, Base(pc, hdr, cell, b))
  BY Here
<1>2. Base(pc, hdr, cell, b) = Len(b.stack)
  BY <1>1, ScopesFacts DEF Base
<1>3. QED
  BY <1>1, <1>2

(* The part of NextGood that does not depend on the state a step leads to. *)
Rest ==
  /\ toks' = toks
  /\ hdr' \in Headers /\ left' \in Nat /\ cell' \in Nat
  /\ hdr'.lo # 0 => FieldList(hdr'.lo, hdr'.hi)
  /\ pending' \in PendingCounts
  /\ mem' \in [cap : Nat, slack : Nat] /\ lapses' \subseteq {"keyless field", "no value"}

(* A step that returns from build_tape preserves the invariant.            *)
LEMMA FinalStep ==
  ASSUME IndInv, Rest, pc' \in Final, i' \in 1..N, dedent' \in Nat, b' \in Builders
  PROVE  NextGood
<1>1. Good(pc', hdr', left', cell', b', pending')
  BY FinalGood DEF Rest
<1>2. pc' \in States
  BY DEF Final, States
<1>3. QED
  BY <1>1, <1>2 DEF NextGood, Rest

(* A step that fails (fail!, s2try!) or panics preserves the invariant.    *)
LEMMA FailStep ==
  ASSUME IndInv, Rest, pc' \in Final, UNCHANGED <<i, b, dedent>>
  PROVE  NextGood
BY Here, FinalStep

(* A step to a state that relies on the scopes alone preserves the         *)
(* invariant, if it preserves the scopes.                                  *)
LEMMA PlainStep ==
  ASSUME IndInv, Rest, pc' \in Plain, i' \in 1..N, dedent' \in Nat,
         ScopesOK(b'), PendingOK(pending', Len(b'.stack))
  PROVE  NextGood
<1>1. Good(pc', hdr', left', cell', b', pending')
  BY PlainGood DEF Rest
<1>2. pc' \in States
  BY DEF Plain, States, TableStates
<1>3. b' \in Builders
  BY ScopesFacts
<1>4. QED
  BY <1>1, <1>2, <1>3 DEF NextGood, Rest

(* Following a line end leads to the state the arm names, or to an error.  *)
LEMMA Follows ==
  ASSUME NEW e, e.at \in 1..N, e.ws \in Nat, NEW x, NEW arms, Follow(e, x, arms)
  PROVE  \/ /\ e.is \in DOMAIN arms /\ pc' = arms[e.is]
            /\ b' = x /\ i' \in 1..N /\ dedent' \in Nat
         \/ pc' = "Failed" /\ UNCHANGED <<i, b, dedent>>
BY DEF Follow, Goto, Fail

(* A step that follows a line end to plain states. *)
LEMMA FollowStep ==
  ASSUME IndInv, Rest, NEW e, e.at \in 1..N, e.ws \in Nat, NEW x, NEW arms, Follow(e, x, arms),
         \A a \in DOMAIN arms : arms[a] \in Plain,
         ScopesOK(x), PendingOK(pending', Len(x.stack))
  PROVE  NextGood
<1>1. CASE e.is \in DOMAIN arms /\ pc' = arms[e.is] /\ b' = x /\ i' \in 1..N /\ dedent' \in Nat
  <2>1. pc' \in Plain
    BY <1>1
  <2>2. QED
    BY <1>1, <2>1, PlainStep
<1>2. CASE pc' = "Failed" /\ UNCHANGED <<i, b, dedent>>
  BY <1>2, FailStep DEF Final
<1>3. QED
  BY <1>1, <1>2, Follows

(* Outside the rows of a table all of the scopes count. *)
LEMMA BaseOutsideRows ==
  ASSUME NEW p, p \notin {"Cell", "EndRow"}, NEW x, ScopesOK(x), NEW h, NEW c
  PROVE  Base(p, h, c, x) = Len(x.stack)
BY ScopesFacts DEF Base

(* The token behind any but the last is a token. *)
LEMMA Behind ==
  ASSUME NEW n \in Nat, NEW k, k \in 1..(n - 1) \/ (k \in 1..n /\ k < n)
  PROVE  k + 1 \in 1..n
OBVIOUS

(* The container of the header at hand, opened behind its key. *)
LEMMA EnterHere ==
  ASSUME IndInv, pc \notin Final \cup {"Start", "Cell", "EndRow"}, NEW kind \in Containers,
         NEW y, y = PutHeaderKey(b, hdr.key),
         NEW ws, ws \in {Indent(y), Indent(y) + IndentSize},
         NEW x, x = Enter(y, kind, ws)
  PROVE  /\ ScopesOK(y) /\ y.stack = b.stack
         /\ ScopesOK(x) /\ PendingOK(pending, Len(x.stack))
         /\ Len(x.stack) = Len(b.stack) + (IF hdr.root THEN 0 ELSE 1)
<1>1. ScopesOK(b) /\ PendingOK(pending, Len(b.stack))
  BY HereOutsideRows
<1>2. ScopesOK(y) /\ y.stack = b.stack
  BY <1>1, Here, PutFacts
<1>3. ws \in Nat
  BY <1>2, ScopesFacts
<1>4. ScopesOK(x) /\ Len(x.stack) = Len(y.stack) + (IF hdr.root THEN 0 ELSE 1)
  BY <1>2, <1>3, Here, EnterFacts
<1>5. Len(x.stack) = Len(b.stack) + (IF hdr.root THEN 0 ELSE 1)
  BY <1>2, <1>4
<1>6. Len(b.stack) \in Int
  BY <1>1, ScopesFacts
<1>7. Len(x.stack) \in Int
  BY <1>4, ScopesFacts
<1>8. Len(b.stack) <= Len(x.stack)
  <2>1. CASE hdr.root
    BY <2>1, <1>5, <1>6
  <2>2. CASE ~ hdr.root
    BY <2>2, <1>5, <1>6
  <2>3. QED
    BY <2>1, <2>2
<1>9. PendingOK(pending, Len(x.stack))
  BY <1>1, <1>6, <1>7, <1>8, PendingGrows
<1>10. QED
  BY <1>2, <1>4, <1>5, <1>9

-----------------------------------------------------------------------------
(* Every action preserves the invariant. *)

(* ParseEmptyArray opens a scope, for ScopeEnd to close it again.          *)
LEMMA ParseEmptyArrayStep ==
  ASSUME IndInv, ParseEmptyArray
  PROVE  NextGood
<1> DEFINE y == PutHeaderKey(b, hdr.key)
           x == Enter(y, "Array", Indent(y) + IndentSize)
           e == EolState(i + 1, x, pending, FALSE)
           arms == [Sibling |-> "ScopeEnd", CloseScope |-> "ScopeEnd"]
<1>1. /\ pc = "ParseEmptyArray"
      /\ UNCHANGED <<toks, hdr, left, cell, pending, mem, lapses>>
  BY DEF ParseEmptyArray
<1>2. ScopesOK(x) /\ PendingOK(pending, Len(x.stack))
  BY <1>1, EnterHere DEF Containers, Final
<1> HIDE DEF y, x
<1>3. Rest
  BY <1>1, Here DEF Rest
<1>4. CASE i < N /\ Decodes(hdr.key)
  <2>1. N \in Nat /\ i \in 1..N
    BY Here
  <2>2. i + 1 \in 1..N
    BY <1>4, <2>1
  <2>3. e.at \in 1..N /\ e.ws \in Nat
    BY <2>2, Here, EolFacts
  <2>4. Follow(e, x, arms)
    BY <1>4 DEF ParseEmptyArray, x, y
  <2>5. \A a \in DOMAIN arms : arms[a] \in Plain
    BY DEF Plain
  <2> HIDE DEF e, arms
  <2>6. QED
    BY <1>1, <1>2, <1>3, <2>3, <2>4, <2>5, FollowStep
<1>5. CASE ~ (i < N /\ Decodes(hdr.key))
  BY <1>3, <1>5, FailStep DEF ParseEmptyArray, Fail, Final
<1>6. QED
  BY <1>4, <1>5

(* ParseInlineArray opens a scope, and there are elements left, because a  *)
(* header of none is an EmptyArray.                                        *)
LEMMA ParseInlineArrayStep ==
  ASSUME IndInv, ParseInlineArray
  PROVE  NextGood
<1> DEFINE y == PutHeaderKey(b, hdr.key)
           ws == IF hdr.root THEN Indent(y) + IndentSize ELSE Indent(y)
           x == Enter(y, "Array", ws)
<1>1. /\ pc = "ParseInlineArray"
      /\ UNCHANGED <<toks, hdr, cell, pending, mem, lapses>>
  BY DEF ParseInlineArray
<1>2. ws \in {Indent(y), Indent(y) + IndentSize}
  OBVIOUS
<1> HIDE DEF ws
<1>3. ScopesOK(x) /\ PendingOK(pending, Len(x.stack))
  BY <1>1, <1>2, EnterHere DEF Containers, Final
<1> HIDE DEF y, x
<1>4. CASE Decodes(hdr.key)
  <2>1. pc' = "Element" /\ b' = x /\ i' = i /\ left' = hdr.n /\ UNCHANGED dedent
    BY <1>4 DEF ParseInlineArray, Goto, x, y, ws
  <2>2. hdr.n \in Nat /\ hdr.n > 0
    BY <1>1, Here DEF IndInv, Good
  <2>3. Rest
    BY <1>1, <2>1, <2>2, Here DEF Rest
  <2>4. Base("Element", hdr, cell, x) = Len(x.stack)
    BY <1>3, ScopesFacts DEF Base
  <2>5. Good("Element", hdr, hdr.n, cell, x, pending)
    BY <1>3, <2>2, <2>4, ScopesFacts, Here DEF Good
  <2>6. QED
    BY <1>1, <1>3, <2>1, <2>3, <2>5, ScopesFacts, Here DEF NextGood, Rest, States
<1>5. CASE ~ Decodes(hdr.key)
  <2>1. pc' = "Failed" /\ UNCHANGED <<i, b, dedent, left>>
    BY <1>5 DEF ParseInlineArray, Fail
  <2>2. Rest
    BY <1>1, <2>1, Here DEF Rest
  <2>3. QED
    BY <2>1, <2>2, FailStep DEF Final
<1>6. QED
  BY <1>4, <1>5

(* An element is written into the open scope; there are elements left as   *)
(* long as the state is Element.                                           *)
LEMMA ElementStep ==
  ASSUME IndInv, Element
  PROVE  NextGood
<1> DEFINE delims == IF left > 1 THEN {hdr.delim} ELSE {"NL"}
           end == ValueEnd(i, delims)
           x == PutValue(Counted(b), i)
           e == EolState(end, x, pending, TRUE)
           arms == [Sibling |-> "ScopeEnd", CloseScope |-> "ScopeEnd"]
<1>1. /\ pc = "Element" /\ left' = left - 1
      /\ UNCHANGED <<toks, hdr, cell, pending, mem, lapses>>
  BY DEF Element, ElementEnds
<1>2. ScopesOK(b) /\ PendingOK(pending, Len(b.stack))
  BY <1>1, HereOutsideRows DEF Final
<1>3. N \in Nat /\ i \in 1..N /\ i \in Nat
  <2>1. N \in Nat /\ i \in 1..N
    BY Here
  <2>2. QED
    BY <2>1
<1>4. ScopesOK(Counted(b)) /\ Counted(b).stack = b.stack
  BY <1>2, CountedFacts
<1>5. ScopesOK(x) /\ x.stack = b.stack
  BY <1>3, <1>4, PutFacts
<1>6. left \in Nat /\ left > 0
  BY <1>1, Here DEF IndInv, Good
<1>7. Rest
  <2>1. left' \in Nat
    BY <1>1, <1>6
  <2>2. QED
    BY <1>1, <2>1, Here DEF Rest
<1>8. end \in i..N /\ (Tok(end) # "NL" => end < N)
  BY <1>3, Here, ValueEndFacts
<1> HIDE DEF end, x
<1>9. CASE Tok(end) \notin delims \/ ~ Decodes(i)
  BY <1>7, <1>9, FailStep DEF Element, ElementEnds, Fail, Final, end
<1>10. CASE Tok(end) \in delims /\ Decodes(i) /\ left > 1
  <2>1. pc' = "Element" /\ b' = x /\ i' = end + 1 /\ UNCHANGED dedent
    BY <1>10 DEF Element, ElementEnds, Goto, end, x
  <2>2. Tok(end) # "NL"
    BY <1>10, Here DEF Delims
  <2>3. end + 1 \in 1..N
    BY <1>3, <1>8, <2>2
  <2>4. left - 1 > 0
    BY <1>6, <1>10
  <2>5. Base("Element", hdr, cell, x) = Len(x.stack)
    BY <1>5, ScopesFacts DEF Base
  <2>6. Good("Element", hdr, left - 1, cell, x, pending)
    BY <1>2, <1>5, <2>4, <2>5, ScopesFacts, Here DEF Good
  <2>7. QED
    BY <1>1, <1>5, <1>7, <2>1, <2>3, <2>6, ScopesFacts, Here DEF NextGood, Rest, States
<1>11. CASE Tok(end) \in delims /\ Decodes(i) /\ ~ (left > 1)
  <2>1. Follow(e, x, arms)
    BY <1>11 DEF Element, ElementEnds, end, x
  <2>2. end \in 1..N
    BY <1>3, <1>8
  <2>3. e.at \in 1..N /\ e.ws \in Nat
    BY <2>2, Here, EolFacts
  <2>4. \A a \in DOMAIN arms : arms[a] \in Plain
    BY DEF Plain
  <2>5. PendingOK(pending', Len(x.stack))
    BY <1>1, <1>2, <1>5
  <2> HIDE DEF e, arms
  <2>6. QED
    BY <1>5, <1>7, <2>1, <2>3, <2>4, <2>5, FollowStep
<1>12. QED
  BY <1>9, <1>10, <1>11

(* Handing over a header preserves the invariant: each State gets a header *)
(* of its kind, with a well braced field list where the State needs one.   *)
LEMMA DispatchStep ==
  ASSUME IndInv, NEW h, HeaderOK(h), NEW x, ScopesOK(x), NEW first \in BOOLEAN,
         Dispatch(h, x, first),
         PendingOK(pending, Len(x.stack)), first => pending = << >>,
         UNCHANGED <<toks, left, cell, pending, mem>>,
         lapses' \subseteq {"keyless field", "no value"}
  PROVE  NextGood
<1> DEFINE g == [h EXCEPT !.root = first /\ h.key = 0]
<1>1. hdr' = g
  BY DEF Dispatch
<1>2. /\ h \in Headers /\ h.key \in Nat /\ h.n \in Nat /\ h.end \in Nat /\ h.lo \in Nat
  BY DEF HeaderOK, Headers
<1>3. /\ g \in Headers
      /\ g.type = h.type /\ g.key = h.key /\ g.n = h.n /\ g.lo = h.lo /\ g.hi = h.hi
      /\ g.root = (first /\ h.key = 0)
  BY <1>2 DEF Headers
<1> HIDE DEF g
<1>4. g.lo # 0 => FieldList(g.lo, g.hi)
  BY <1>3 DEF HeaderOK
<1>5. Rest
  BY <1>1, <1>3, <1>4, Here DEF Rest
<1>6. N \in Nat /\ i \in 1..N /\ dedent \in Nat /\ left \in Nat /\ cell \in Nat
  BY Here
<1>7. Len(x.stack) \in Nat /\ Len(x.stack) >= 1 /\ x \in Builders
  BY ScopesFacts
<1>8. CASE /\ h.type = "ObjectStart"
           /\ Goto("ParseSimpleObjectValue", PutKey(x, h.key), h.end + 1)
           /\ UNCHANGED dedent
  <2>1. ScopesOK(PutKey(x, h.key)) /\ PutKey(x, h.key).stack = x.stack
    BY <1>2, PutFacts
  <2>2. h.end \in 1..(N - 1)
    BY <1>8 DEF HeaderOK
  <2>3. h.end + 1 \in 1..N
    <3> DEFINE k == h.end
    <3>1. N \in Nat /\ k \in 1..(N - 1)
      BY <1>6, <2>2
    <3> HIDE DEF k
    <3>2. k + 1 \in 1..N
      BY <3>1, Behind, Zenon
    <3>3. QED
      BY <3>2 DEF k
  <2>4. /\ pc' = "ParseSimpleObjectValue" /\ b' = PutKey(x, h.key) /\ i' = h.end + 1
        /\ dedent' = dedent /\ pending' = pending
    BY <1>8 DEF Goto
  <2>5. pc' \in Plain
    BY <2>4 DEF Plain
  <2>6. ScopesOK(b') /\ PendingOK(pending', Len(b'.stack))
    BY <2>1, <2>4
  <2>7. i' \in 1..N /\ dedent' \in Nat
    BY <1>6, <2>3, <2>4
  <2>8. QED
    BY <1>5, <2>5, <2>6, <2>7, PlainStep
<1>9. CASE /\ h.type = "SimpleArray"
           /\ h.end < N
           /\ Goto(IF Tok(h.end + 1) = "NL" THEN "ParseBlockArray" ELSE "ParseInlineArray",
                   x, h.end + 1)
           /\ UNCHANGED dedent
  <2>1. h.end \in 1..N /\ h.n > 0
    BY <1>9 DEF HeaderOK
  <2>2. /\ pc' \in {"ParseBlockArray", "ParseInlineArray"} /\ b' = x /\ i' = h.end + 1
        /\ dedent' = dedent /\ pending' = pending
    BY <1>9 DEF Goto
  <2>3. i' \in 1..N
    <3> DEFINE k == h.end
    <3>1. N \in Nat /\ k \in 1..N /\ k < N
      BY <1>6, <1>9, <2>1
    <3>2. i' = k + 1
      BY <2>2
    <3> HIDE DEF k
    <3>3. k + 1 \in 1..N
      BY <3>1, Behind, Zenon
    <3>4. QED
      BY <3>2, <3>3
  <2>4. Base(pc', g, cell, x) = Len(x.stack)
    <3>1. pc' \notin {"Cell", "EndRow"}
      BY <2>2
    <3>2. QED
      BY <3>1, BaseOutsideRows
  <2>5. g.root => pending = << >>
    BY <1>3
  <2>6. Good(pc', g, left, cell, x, pending)
    BY <1>3, <1>4, <1>7, <2>1, <2>2, <2>4, <2>5 DEF Good
  <2>7. pc' \in States
    BY <2>2 DEF States
  <2>8. QED
    BY <1>1, <1>5, <1>6, <1>7, <2>2, <2>3, <2>6, <2>7 DEF NextGood, Rest
<1>10. CASE /\ h.type \in {"EmptyArray", "KeyedTabularObjects", "TabularArray",
                           "NestedFieldGroupsArray"}
            /\ Goto(Arm(h.type, first), x, h.end)
            /\ UNCHANGED dedent
  <2>1. h.end \in 1..N
    BY <1>10 DEF HeaderOK
  <2>2. /\ pc' = Arm(h.type, first) /\ b' = x /\ i' = h.end
        /\ dedent' = dedent /\ pending' = pending
    BY <1>10 DEF Goto
  <2>3. \/ h.type = "EmptyArray" /\ pc' = "ParseEmptyArray"
        \/ h.type = "KeyedTabularObjects" /\ pc' = "ParseTabularObjects"
        \/ /\ h.type \in {"TabularArray", "NestedFieldGroupsArray"}
           /\ pc' \in {"ParseTabularArrayStrict", "ParseTabularArrayLenient",
                       "ParseNestedFieldGroupsArrayStrict"}
    BY <1>10, <2>2 DEF Arm
  <2>4. Base(pc', g, cell, x) = Len(x.stack)
    <3>1. pc' \notin {"Cell", "EndRow"}
      BY <2>3
    <3>2. QED
      BY <3>1, BaseOutsideRows
  <2>5. h.type \in {"TabularArray", "NestedFieldGroupsArray"} => g.lo # 0
    BY <1>3 DEF HeaderOK
  <2>6. Good(pc', g, left, cell, x, pending)
    BY <1>4, <1>7, <2>3, <2>4, <2>5 DEF Good
  <2>7. pc' \in States
    BY <2>3 DEF States, TableStates
  <2>8. QED
    BY <1>1, <1>5, <1>6, <1>7, <2>1, <2>2, <2>6, <2>7 DEF NextGood, Rest
<1>11. CASE Fail
  BY <1>5, <1>11, FailStep DEF Fail, Final
<1>12. QED
  BY <1>8, <1>9, <1>10, <1>11 DEF Dispatch

(* A field of an object hands over the header read_header! returned.       *)
LEMMA ParseHeaderStep ==
  ASSUME IndInv, ParseHeader
  PROVE  NextGood
<1> DEFINE h == ReadHeader(i)
<1>1. pc = "ParseHeader" /\ UNCHANGED <<toks, left, cell, pending, mem>>
  BY DEF ParseHeader
<1>2. ScopesOK(b) /\ PendingOK(pending, Len(b.stack))
  BY <1>1, HereOutsideRows DEF Final
<1>3. toks \in Document /\ i \in 1..N /\ lapses \subseteq {"keyless field", "no value"}
  BY Here
<1>4. HeaderOK(h)
  BY <1>3, ReadHeaderFacts
<1>5. Dispatch(h, b, FALSE) /\ lapses' \subseteq {"keyless field", "no value"}
  BY <1>3 DEF ParseHeader
<1> HIDE DEF h
<1>6. QED
  BY <1>1, <1>2, <1>4, <1>5, DispatchStep

(* The prologue opens the scope of the root, where the scopes start.       *)
LEMMA StartStep ==
  ASSUME IndInv, Start
  PROVE  NextGood
<1> DEFINE first == IF Tok(1) = "#" THEN 2 ELSE 1
           lines == {j \in first..N : Tok(j) # "NL"}
           p == Min(lines)
           h == ReadHeader(p)
           array == h.key = 0 /\ h.type \in {"SimpleArray", "EmptyArray", "TabularArray",
                                             "NestedFieldGroupsArray"}
           node == Node(IF array THEN "Array" ELSE "Object", 0, IF h.key = 0 THEN h.n ELSE -1)
           root == [stack   |-> <<[tag |-> "Start", start |-> 1, cnt |-> 0]>>,
                    indents |-> <<0>>, start |-> 1, cnt |-> 0,
                    tape    |-> <<node>>]
<1>1. pc = "Start" /\ UNCHANGED <<toks, left, cell, pending, mem, lapses>>
  BY DEF Start
<1>2. pending = << >>
  BY <1>1 DEF IndInv, Good
<1>3. toks \in Document /\ N \in Nat /\ N >= 1
  BY Here
<1>4. CASE lines = {}
  <2>1. pc' = "Failed" /\ UNCHANGED <<i, b, dedent, hdr>>
    BY <1>4 DEF Start, Fail
  <2>2. Rest
    BY <1>1, <2>1, Here DEF Rest
  <2>3. QED
    BY <2>1, <2>2, FailStep DEF Final
<1>5. CASE lines # {}
  <2>1. lines \subseteq 1..N
    BY <1>3
  <2>2. p \in 1..N
    BY <1>5, <2>1, <1>3, MinOfNaturals
  <2>3. HeaderOK(h)
    BY <1>3, <2>2, ReadHeaderFacts
  <2>4. h.key \in Nat /\ h.n \in Nat
    BY <2>3 DEF HeaderOK, Headers
  <2>5. (h.type = "PrimitiveValue" /\ UNCHANGED hdr) \/ Dispatch(h, root, TRUE)
    BY <1>5 DEF Start
  <2>6. CASE h.type = "PrimitiveValue" /\ UNCHANGED hdr
    <3>1. Rest
      BY <1>1, <2>6, Here DEF Rest
    <3>2. \/ /\ pc' = "Success" /\ b' = PutValue(b, h.key) /\ i' = N /\ dedent' = dedent
          \/ Fail
      BY <1>5, <2>6 DEF Start, Goto
    <3>3. CASE Fail
      BY <3>1, <3>3, FailStep DEF Fail, Final
    <3>4. CASE pc' = "Success" /\ b' = PutValue(b, h.key) /\ i' = N /\ dedent' = dedent
      <4>1. Node("Value", h.key, -1) \in Nodes
        BY <2>4, NodeFacts
      <4>2. b' \in Builders
        <5>1. b \in Builders
          BY Here
        <5> DEFINE v == Node("Value", h.key, -1)
                   t == Append(b.tape, v)
        <5>2. b' = [b EXCEPT !.tape = t]
          BY <3>4 DEF PutValue, Write
        <5>3. v \in Nodes
          BY <4>1
        <5> HIDE DEF v
        <5>4. b.tape \in Seq(Nodes)
          BY <5>1, BuilderFields
        <5>5. t \in Seq(Nodes)
          BY <5>3, <5>4
        <5> HIDE DEF t
        <5>6. QED
          BY <5>1, <5>2, <5>5 DEF Builders
      <4>3. i' \in 1..N /\ dedent' \in Nat
        <5>1. dedent \in Nat
          BY Here
        <5>2. N \in 1..N
          BY <1>3
        <5>3. QED
          BY <3>4, <5>1, <5>2
      <4>4. QED
        BY <3>1, <3>4, <4>2, <4>3, FinalStep DEF Final
    <3>5. QED
      BY <3>2, <3>3, <3>4
  <2>7. CASE Dispatch(h, root, TRUE)
    <3>1. node \in Nodes /\ node.kind \in Containers
      <4>1. (IF array THEN "Array" ELSE "Object") \in Containers
        BY DEF Containers
      <4>2. (IF h.key = 0 THEN h.n ELSE -1) \in Nat \cup {-1}
        BY <2>4
      <4>3. QED
        BY <4>1, <4>2, NodeFacts
    <3> HIDE DEF node
    <3>2. [tag |-> "Start", start |-> 1, cnt |-> 0] \in Frames
      BY DEF Frames
    <3>3. root \in Builders
      BY <3>1, <3>2 DEF Builders
    <3>4. ScopesOK(root) /\ Len(root.stack) = 1
      BY <3>1, <3>3 DEF ScopesOK
    <3>5. PendingOK(pending, Len(root.stack))
      BY <1>2 DEF PendingOK
    <3>6. lapses' \subseteq {"keyless field", "no value"}
      BY <1>1, Here
    <3> HIDE DEF root, h
    <3>7. QED
      BY <1>1, <1>2, <2>3, <2>7, <3>4, <3>5, <3>6, DispatchStep
  <2>8. QED
    BY <2>5, <2>6, <2>7
<1>6. QED
  BY <1>4, <1>5

(* get_eol_state! has four answers.                                        *)
LEMMA EolAnswers ==
  ASSUME NEW p, NEW x, NEW pend, NEW blank
  PROVE  EolState(p, x, pend, blank).is \in {"Sibling", "Nested", "CloseScope", "Fail"}
<1> DEFINE q == Min({j \in (p + 1)..N : Tok(j) # "NL" \/ j = N})
           fails == q > p + 1 /\ Strict /\ (blank \/ InsideArray(toks[q].ws, x, pend))
<1>1. EolState(p, x, pend, blank) =
           IF p = N THEN [is |-> "CloseScope", at |-> p, ws |-> dedent]
      ELSE IF Tok(p) # "NL" THEN [is |-> "Fail", at |-> p, ws |-> dedent]
      ELSE IF q = N THEN [is |-> "CloseScope", at |-> q, ws |-> dedent]
      ELSE [is |-> IF fails THEN "Fail" ELSE IndentRelation(toks[q].ws, x),
            at |-> q, ws |-> toks[q].ws]
  BY DEF EolState
<1>2. IndentRelation(toks[q].ws, x) \in {"Sibling", "Nested", "CloseScope", "Fail"}
  BY DEF IndentRelation
<1> HIDE DEF q, fails
<1>3. QED
  BY <1>1, <1>2

(* The value behind `key:` opens a scope, writes a value, or writes        *)
(* nothing.                                                                *)
LEMMA ParseSimpleObjectValueStep ==
  ASSUME IndInv, ParseSimpleObjectValue
  PROVE  NextGood
<1> DEFINE e   == EolState(i, b, pending, FALSE)
           end == ValueEnd(i, {})
           x   == IF IsEmptyList(i, end) THEN PutEmpty(b, "Array") ELSE PutValue(b, i)
           ws  == Indent(b) + IndentSize
           y   == OpenScope(b, "Object", "Object", ws, -1)
<1>1. pc = "ParseSimpleObjectValue" /\ UNCHANGED <<toks, hdr, left, cell, pending, mem>>
  BY DEF ParseSimpleObjectValue
<1>2. ScopesOK(b) /\ PendingOK(pending, Len(b.stack))
  BY <1>1, HereOutsideRows DEF Final
<1>3. toks \in Document /\ N \in Nat /\ i \in 1..N /\ dedent \in Nat
  BY Here
<1>4. i \in Nat
  BY <1>3
<1>5. lapses \subseteq {"keyless field", "no value"}
  BY Here
<1>6. lapses' \subseteq {"keyless field", "no value"}
  BY <1>5 DEF ParseSimpleObjectValue
<1>7. Rest
  BY <1>1, <1>6, Here DEF Rest
<1>8. /\ ScopesOK(PutEmpty(b, "Object")) /\ PutEmpty(b, "Object").stack = b.stack
      /\ ScopesOK(x) /\ x.stack = b.stack
  BY <1>2, <1>4, PutFacts DEF Containers
<1>9. ScopesOK(y) /\ Len(y.stack) = Len(b.stack) + 1
  <2>1. ws \in Nat
    BY <1>2, ScopesFacts
  <2> HIDE DEF ws
  <2>2. "Object" \in Containers /\ -1 \in Nat \cup {-1}
    BY DEF Containers
  <2>3. QED
    BY <1>2, <2>1, <2>2, OpenScopeFacts
<1>10. /\ PendingOK(pending', Len(PutEmpty(b, "Object").stack))
       /\ PendingOK(pending', Len(x.stack)) /\ PendingOK(pending', Len(b.stack))
  BY <1>1, <1>2, <1>8
<1>11. PendingOK(pending', Len(y.stack))
  <2>1. Len(b.stack) \in Int /\ Len(b.stack) + 1 \in Int /\ Len(b.stack) <= Len(b.stack) + 1
    BY <1>2, ScopesFacts
  <2>2. PendingOK(pending, Len(b.stack) + 1)
    BY <1>2, <2>1, PendingGrows
  <2>3. QED
    BY <1>1, <1>9, <2>2
<1>12. e.at \in 1..N /\ e.ws \in Nat
  BY <1>3, EolFacts
<1>13. e.is \in {"Sibling", "Nested", "CloseScope", "Fail"}
  BY EolAnswers
<1> HIDE DEF x, y, e, end
<1>14. CASE Tok(i) = "NL" /\ i = N
  <2>1. pc' = "ScopeEnd" /\ b' = PutEmpty(b, "Object") /\ i' = i /\ dedent' = dedent
    <3>1. ~ (i < N)
      BY <1>3, <1>14
    <3>2. \/ Goto("ScopeEnd", PutEmpty(b, "Object"), i) /\ UNCHANGED <<dedent, lapses>>
          \/ i < N
          \/ Tok(i) # "NL"
      BY Zenon DEF ParseSimpleObjectValue
    <3>3. QED
      BY <1>14, <3>1, <3>2 DEF Goto
  <2>2. pc' \in Plain
    BY <2>1 DEF Plain
  <2>3. i' \in 1..N /\ dedent' \in Nat
    BY <1>3, <2>1
  <2>4. ScopesOK(b') /\ PendingOK(pending', Len(b'.stack))
    BY <1>8, <1>10, <2>1
  <2>5. QED
    BY <1>7, <2>2, <2>3, <2>4, PlainStep
<1>15. CASE Tok(i) = "NL" /\ i # N
  <2>1. CASE e.is = "Nested"
    <3> DEFINE arms == [Nested |-> "ParseHeader"]
    <3>1. Follow(e, y, arms)
      BY <1>15, <2>1 DEF ParseSimpleObjectValue, e, y
    <3>2. \A a \in DOMAIN arms : arms[a] \in Plain
      BY DEF Plain
    <3> HIDE DEF arms
    <3>3. QED
      BY <1>7, <1>9, <1>11, <1>12, <3>1, <3>2, FollowStep
  <2>2. CASE e.is = "Sibling"
    <3> DEFINE arms == [Sibling |-> "ParseHeader"]
    <3>1. Follow(e, PutEmpty(b, "Object"), arms)
      BY <1>15, <2>2 DEF ParseSimpleObjectValue, e
    <3>2. \A a \in DOMAIN arms : arms[a] \in Plain
      BY DEF Plain
    <3> HIDE DEF arms
    <3>3. QED
      BY <1>7, <1>8, <1>10, <1>12, <3>1, <3>2, FollowStep
  <2>3. CASE e.is = "CloseScope"
    <3> DEFINE arms == [CloseScope |-> "ScopeEnd"]
    <3>1. Follow(e, b, arms)
      BY <1>15, <2>3 DEF ParseSimpleObjectValue, e
    <3>2. \A a \in DOMAIN arms : arms[a] \in Plain
      BY DEF Plain
    <3> HIDE DEF arms
    <3>3. QED
      BY <1>2, <1>7, <1>10, <1>12, <3>1, <3>2, FollowStep
  <2>4. CASE e.is = "Fail"
    <3>1. Fail
      BY <1>15, <2>4 DEF ParseSimpleObjectValue, e
    <3>2. QED
      BY <1>7, <3>1, FailStep DEF Fail, Final
  <2>5. QED
    BY <1>13, <2>1, <2>2, <2>3, <2>4
<1>16. CASE Tok(i) # "NL"
  <2> DEFINE arms == [Sibling |-> "ParseHeader", CloseScope |-> "ScopeEnd"]
             f == EolState(end, x, pending, FALSE)
  <2>1. Follow(f, x, arms) \/ Fail
    BY <1>16 DEF ParseSimpleObjectValue, end, x
  <2>2. CASE Fail
    BY <1>7, <2>2, FailStep DEF Fail, Final
  <2>3. CASE Follow(f, x, arms)
    <3>1. end \in i..N
      BY <1>3, ValueEndFacts DEF end
    <3>2. end \in 1..N
      BY <1>3, <3>1
    <3>3. f.at \in 1..N /\ f.ws \in Nat
      BY <1>3, <3>2, EolFacts
    <3>4. \A a \in DOMAIN arms : arms[a] \in Plain
      BY DEF Plain
    <3> HIDE DEF arms, f
    <3>5. QED
      BY <1>7, <1>8, <1>10, <2>3, <3>3, <3>4, FollowStep
  <2>4. QED
    BY <2>1, <2>2, <2>3
<1>17. QED
  BY <1>14, <1>15, <1>16

(* A block array opens a scope, and its declared length is pending in that *)
(* scope: it lies deeper than all that were pending before.                *)
LEMMA ParseBlockArrayStep ==
  ASSUME IndInv, ParseBlockArray
  PROVE  NextGood
<1> DEFINE y == PutHeaderKey(b, hdr.key)
           e == EolState(i, y, pending, FALSE)
           x == Enter(y, "Array", Indent(y) + IndentSize)
           pend == Append(pending, PendingCount(x))
           arms == [Nested |-> "ExpectBlockArrayItem"]
<1>1. /\ pc = "ParseBlockArray"
      /\ UNCHANGED <<toks, hdr, left, cell, mem, lapses>>
  BY DEF ParseBlockArray
<1>2. /\ ScopesOK(b) /\ PendingOK(pending, Len(b.stack))
      /\ ScopesOK(x) /\ Len(x.stack) = Len(b.stack) + (IF hdr.root THEN 0 ELSE 1)
  BY <1>1, EnterHere, HereOutsideRows DEF Containers, Final
<1>3. /\ Len(b.stack) \in Nat /\ Len(b.stack) >= 1
      /\ Len(x.stack) \in Nat /\ Len(x.stack) >= 1
  BY <1>2, ScopesFacts
<1> HIDE DEF y, x
<1>4. pending \in PendingCounts
  BY Here
<1>5. hdr.n \in Nat /\ hdr.root \in BOOLEAN
  BY Here
<1>6. PendingCount(x) \in [depth : Nat \ {0}, n : Nat] /\ PendingCount(x).depth = Len(x.stack)
  BY <1>3, <1>5 DEF PendingCount
<1>7. /\ pend \in PendingCounts
      /\ Len(pend) = Len(pending) + 1
      /\ pend[Len(pending) + 1].depth = Len(x.stack)
      /\ \A k \in 1..Len(pending) : pend[k] = pending[k]
      /\ Len(pending) \in Nat
  <2> DEFINE c == PendingCount(x)
  <2> HIDE DEF c
  <2>1. /\ Append(pending, c) \in PendingCounts
        /\ Len(Append(pending, c)) = Len(pending) + 1
        /\ Append(pending, c)[Len(pending) + 1] = c
        /\ \A k \in 1..Len(pending) : Append(pending, c)[k] = pending[k]
        /\ Len(pending) \in Nat
    BY <1>4, <1>6 DEF c, PendingCounts
  <2>2. pend = Append(pending, c)
    BY DEF c
  <2>3. QED
    BY <1>6, <2>1, <2>2 DEF c
<1>8. hdr.root => pending = << >>
  BY <1>1 DEF IndInv, Good
<1> HIDE DEF pend
<1>9. \A k \in 1..Len(pending) : /\ pending[k].depth \in 1..Len(b.stack)
                                 /\ pending[k].depth < Len(x.stack)
  <2>1. CASE hdr.root
    BY <1>8, <2>1
  <2>2. CASE ~ hdr.root
    BY <1>2, <1>3, <2>2 DEF PendingOK
  <2>3. QED
    BY <2>1, <2>2
<1>10. PendingOK(pend, Len(x.stack))
  <2>1. ASSUME NEW k \in 1..Len(pend)
        PROVE  pend[k].depth \in 1..Len(x.stack)
    <3>1. CASE k = Len(pending) + 1
      BY <3>1, <1>3, <1>7
    <3>2. CASE k # Len(pending) + 1
      <4>1. k \in 1..Len(pending)
        BY <3>2, <1>7
      <4>2. pending[k].depth \in 1..Len(b.stack) /\ pending[k].depth < Len(x.stack)
        BY <4>1, <1>9
      <4>3. pend[k] = pending[k]
        BY <4>1, <1>7
      <4>4. QED
        BY <4>2, <4>3, <1>3
    <3>3. QED
      BY <3>1, <3>2
  <2>2. ASSUME NEW k \in 1..Len(pend), NEW m \in 1..Len(pend), k < m
        PROVE  pend[k].depth < pend[m].depth
    <3>1. k \in 1..Len(pending)
      BY <2>2, <1>7
    <3>2. pend[k] = pending[k]
      BY <3>1, <1>7
    <3>3. CASE m = Len(pending) + 1
      BY <3>1, <3>2, <3>3, <1>7, <1>9
    <3>4. CASE m # Len(pending) + 1
      <4>1. m \in 1..Len(pending)
        BY <3>4, <1>7
      <4>2. pend[m] = pending[m]
        BY <4>1, <1>7
      <4>3. pending[k].depth < pending[m].depth
        BY <2>2, <3>1, <4>1, <1>2 DEF PendingOK
      <4>4. QED
        BY <3>2, <4>2, <4>3
    <3>5. QED
      BY <3>3, <3>4
  <2>3. QED
    BY <2>1, <2>2 DEF PendingOK
<1>11. CASE Decodes(hdr.key) /\ e.is = "Nested"
  <2>1. Follow(e, x, arms) /\ pending' = pend
    BY <1>11 DEF ParseBlockArray, y, x, pend
  <2>2. e.at \in 1..N /\ e.ws \in Nat
    BY Here, EolFacts
  <2>3. \A a \in DOMAIN arms : arms[a] \in Plain
    BY DEF Plain
  <2>4. Rest
    BY <1>1, <1>7, <2>1, Here DEF Rest
  <2>5. PendingOK(pending', Len(x.stack))
    BY <1>10, <2>1
  <2> HIDE DEF e, arms
  <2>6. QED
    BY <1>2, <2>1, <2>2, <2>3, <2>4, <2>5, FollowStep
<1>12. CASE ~ (Decodes(hdr.key) /\ e.is = "Nested")
  <2>1. Fail /\ pending' = pending
    BY <1>12 DEF ParseBlockArray, y
  <2>2. Rest
    BY <1>1, <2>1, Here DEF Rest
  <2>3. QED
    BY <2>1, <2>2, FailStep DEF Fail, Final
<1>13. QED
  BY <1>11, <1>12

(* An item of an array is a value, a header of its own, or opens an        *)
(* object.                                                                 *)
LEMMA ExpectBlockArrayItemStep ==
  ASSUME IndInv, ExpectBlockArrayItem
  PROVE  NextGood
<1> DEFINE h       == ReadHeader(i + 1)
           x       == Counted(b)
           simple  == h.type \in {"PrimitiveValue", "EmptyObject"}
           y       == IF h.type = "EmptyObject" THEN PutEmpty(x, "Object")
                                                ELSE PutValue(x, h.key)
           ws      == Indent(x) + BehindHyphen(h)
           z       == IF h.key = 0 THEN x ELSE OpenScope(x, "Object", "Array", ws, -1)
           e       == EolState(h.end, y, pending, FALSE)
           arms    == [Sibling |-> "ExpectBlockArrayItem", CloseScope |-> "ScopeEnd"]
<1>1. pc = "ExpectBlockArrayItem" /\ UNCHANGED <<toks, left, cell, pending, mem, lapses>>
  BY DEF ExpectBlockArrayItem
<1>2. ScopesOK(b) /\ PendingOK(pending, Len(b.stack))
  BY <1>1, HereOutsideRows DEF Final
<1>3. toks \in Document /\ N \in Nat /\ i \in 1..N
  BY Here
<1>4. ScopesOK(x) /\ x.stack = b.stack
  BY <1>2, CountedFacts
<1>5. PendingOK(pending, Len(x.stack))
  BY <1>2, <1>4
<1> HIDE DEF x, h
<1>6. ASSUME UNCHANGED hdr
      PROVE  Rest
  BY <1>1, <1>6, Here DEF Rest
<1>7. CASE UNCHANGED hdr /\ (Fail \/ Underflow)
  <2>1. pc' \in Final /\ UNCHANGED <<i, b, dedent>>
    BY <1>7 DEF Fail, Underflow, Final
  <2>2. QED
    BY <1>6, <1>7, <2>1, FailStep
<1>8. ASSUME Tok(i) = "-"
      PROVE  HeaderOK(h)
  <2>1. i < N
    BY <1>3, <1>8, DocumentFacts
  <2>2. i + 1 \in 1..N
    BY <1>3, <2>1, Behind, Zenon
  <2>3. QED
    BY <1>3, <2>2, ReadHeaderFacts DEF h
<1>9. CASE Tok(i) = "-" /\ ~ simple /\ Dispatch(h, z, FALSE)
  <2>1. HeaderOK(h)
    BY <1>8, <1>9
  <2>2. ScopesOK(z) /\ Len(x.stack) <= Len(z.stack)
    <3>1. CASE h.key = 0
      BY <1>4, <3>1, ScopesFacts
    <3>2. CASE h.key # 0
      <4>1. ws \in Nat
        BY <1>4, ScopesFacts, ConstantsAssumption DEF BehindHyphen
      <4> HIDE DEF ws
      <4>2. "Object" \in Containers /\ -1 \in Nat \cup {-1}
        BY DEF Containers
      <4>3. ScopesOK(z) /\ Len(z.stack) = Len(x.stack) + 1
        BY <1>4, <3>2, <4>1, <4>2, OpenScopeFacts
      <4>4. QED
        BY <1>4, <4>3, ScopesFacts
    <3>3. QED
      BY <3>1, <3>2
  <2>3. Len(x.stack) \in Int /\ Len(z.stack) \in Int
    BY <1>4, <2>2, ScopesFacts
  <2>4. PendingOK(pending, Len(z.stack))
    BY <1>5, <2>2, <2>3, PendingGrows
  <2> HIDE DEF z
  <2>5. lapses' \subseteq {"keyless field", "no value"}
    BY <1>1, Here
  <2>6. QED
    BY <1>1, <1>9, <2>1, <2>2, <2>4, <2>5, DispatchStep
<1>10. CASE Tok(i) = "-" /\ simple /\ Follow(e, y, arms) /\ UNCHANGED hdr
  <2>1. HeaderOK(h)
    BY <1>8, <1>10
  <2>2. h.end \in 1..N /\ h.key \in Nat
    BY <1>10, <2>1 DEF HeaderOK, Headers
  <2>3. e.at \in 1..N /\ e.ws \in Nat
    BY <2>2, Here, EolFacts
  <2>4. ScopesOK(y) /\ y.stack = x.stack
    BY <1>4, <2>2, PutFacts DEF Containers
  <2>5. \A a \in DOMAIN arms : arms[a] \in Plain
    BY DEF Plain
  <2>6. PendingOK(pending', Len(y.stack))
    BY <1>1, <1>5, <2>4
  <2>7. Rest
    BY <1>6, <1>10
  <2> HIDE DEF e, y, arms
  <2>8. QED
    BY <1>10, <2>3, <2>4, <2>5, <2>6, <2>7, FollowStep
<1>11. QED
  <2>1. \/ UNCHANGED hdr /\ (Fail \/ Underflow)
        \/ Tok(i) = "-" /\ ~ simple /\ Dispatch(h, z, FALSE)
        \/ Tok(i) = "-" /\ simple /\ Follow(e, y, arms) /\ UNCHANGED hdr
    BY DEF ExpectBlockArrayItem, h, x
  <2>2. QED
    BY <1>7, <1>9, <1>10, <2>1

(* The part the four kinds of tables share. *)
LEMMA OpenTableFacts ==
  ASSUME IndInv, pc \in TableStates, NEW kind \in Containers, NEW next, OpenTable(kind, next)
  PROVE  \/ pc' = "Failed" /\ UNCHANGED <<i, b, dedent>>
         \/ /\ pc' = next /\ i' \in 1..N /\ dedent' \in Nat
            /\ ScopesOK(b') /\ PendingOK(pending, Len(b'.stack))
<1> DEFINE y == PutHeaderKey(b, hdr.key)
           e == EolState(i + 1, y, pending, FALSE)
           x == Enter(y, kind, Indent(y) + IndentSize)
           arms == [Nested |-> next]
<1>1. pc \notin Final \cup {"Start", "Cell", "EndRow"}
  BY DEF TableStates, Final
<1>2. ScopesOK(x) /\ PendingOK(pending, Len(x.stack))
  BY <1>1, EnterHere
<1>3. N \in Nat /\ i \in 1..N
  BY Here
<1> HIDE DEF y, x
<1>4. CASE i < N /\ Decodes(hdr.key) /\ e.is = "Nested"
  <2>1. i + 1 \in 1..N
    BY <1>3, <1>4, Behind, Zenon
  <2>2. e.at \in 1..N /\ e.ws \in Nat
    BY <2>1, Here, EolFacts
  <2>3. Follow(e, x, arms)
    BY <1>4 DEF OpenTable, x, y
  <2> HIDE DEF e
  <2>4. e.is = "Nested"
    BY <1>4
  <2>5. arms[e.is] = next
    BY <2>4
  <2> HIDE DEF arms
  <2>6. \/ pc' = next /\ b' = x /\ i' \in 1..N /\ dedent' \in Nat
        \/ pc' = "Failed" /\ UNCHANGED <<i, b, dedent>>
    BY <2>2, <2>3, <2>5, Follows
  <2>7. QED
    BY <1>2, <2>6
<1>5. CASE ~ (i < N /\ Decodes(hdr.key) /\ e.is = "Nested")
  BY <1>5 DEF OpenTable, Fail, y
<1>6. QED
  BY <1>4, <1>5

(* The four kinds of table preserve the invariant; rows start in the       *)
(* table's own scope.                                                      *)
LEMMA TableStep ==
  ASSUME IndInv, pc \in TableStates, NEW kind \in Containers,
         NEW next \in {"Row", "ScopeEnd", "Panicked"}, OpenTable(kind, next),
         hdr' = [hdr EXCEPT !.type = pc], UNCHANGED <<toks, cell, pending, lapses>>,
         left' \in Nat, mem' \in [cap : Nat, slack : Nat]
  PROVE  NextGood
<1>1. hdr \in Headers
  BY Here
<1>2. /\ hdr' \in Headers /\ hdr'.type = pc
      /\ hdr'.lo = hdr.lo /\ hdr'.hi = hdr.hi /\ hdr'.root = hdr.root
  BY <1>1 DEF Headers
<1>3. hdr'.lo # 0 => FieldList(hdr'.lo, hdr'.hi)
  BY <1>2, Here
<1>4. Rest
  BY <1>2, <1>3, Here DEF Rest
<1>5. CASE pc' = "Failed" /\ UNCHANGED <<i, b, dedent>>
  BY <1>4, <1>5, FailStep DEF Final
<1>6. CASE /\ pc' = next /\ i' \in 1..N /\ dedent' \in Nat
           /\ ScopesOK(b') /\ PendingOK(pending, Len(b'.stack))
  <2>1. CASE next = "Row"
    <3>1. Base("Row", hdr', cell', b') = Len(b'.stack)
      BY <1>6, BaseOutsideRows
    <3>2. hdr'.lo = 0 => hdr'.type = "ParseTabularObjects"
      <4>1. pc # "ParseTabularObjects" => hdr.lo # 0
        BY DEF IndInv, Good, TableStates
      <4>2. QED
        BY <1>2, <4>1
    <3>3. Good("Row", hdr', left', cell', b', pending')
      BY <1>3, <1>6, <3>1, <3>2, ScopesFacts DEF Good
    <3>4. QED
      BY <1>4, <1>6, <2>1, <3>3, ScopesFacts DEF NextGood, Rest, States
  <2>2. CASE next = "ScopeEnd"
    BY <1>4, <1>6, <2>2, PlainStep DEF Plain
  <2>3. CASE next = "Panicked"
    BY <1>4, <1>6, <2>3, FinalStep, ScopesFacts DEF Final
  <2>4. QED
    BY <2>1, <2>2, <2>3
<1>7. QED
  BY <1>5, <1>6, OpenTableFacts

(* grow_res! adds at least what it is asked for.                           *)
LEMMA GrowFacts ==
  ASSUME NEW m \in [cap : Nat, slack : Nat], NEW n \in Nat
  PROVE  /\ Grow(m, n) \in [cap : Nat, slack : Nat]
         /\ Grow(m, n).slack >= m.slack + n
<1> DEFINE added == Max({m.cap \div 5, n})
<1>1. m.cap \in Nat /\ m.slack \in Nat
  OBVIOUS
<1>2. m.cap \div 5 \in Nat
  BY <1>1
<1>3. added \in Nat /\ added >= n
  BY <1>2, MaxOfTwo
<1>4. Grow(m, n) = [cap |-> m.cap + added, slack |-> m.slack + added]
  BY DEF Grow
<1> HIDE DEF added
<1>5. QED
  BY <1>1, <1>3, <1>4

(* Setting slots aside never takes more than there is slack.               *)
LEMMA SetAsideFacts ==
  ASSUME NEW m \in [cap : Nat, slack : Nat], NEW n \in Nat
  PROVE  SetAside(m, n) \in [cap : Nat, slack : Nat]
<1> DEFINE g == IF n > m.slack THEN Grow(m, n - m.slack) ELSE m
<1>1. m.slack \in Nat
  OBVIOUS
<1>2. g \in [cap : Nat, slack : Nat] /\ g.slack >= n
  <2>1. CASE n > m.slack
    <3> DEFINE d == n - m.slack
    <3>1. d \in Nat /\ m.slack + d = n
      BY <1>1, <2>1
    <3> HIDE DEF d
    <3>2. Grow(m, d) \in [cap : Nat, slack : Nat] /\ Grow(m, d).slack >= m.slack + d
      BY <3>1, GrowFacts
    <3>3. g = Grow(m, d)
      BY <2>1 DEF d
    <3>4. QED
      BY <3>1, <3>2, <3>3
  <2>2. CASE ~ (n > m.slack)
    BY <1>1, <2>2
  <2>3. QED
    BY <2>1, <2>2
<1>3. SetAside(m, n) = [g EXCEPT !.slack = g.slack - n]
  BY DEF SetAside
<1> HIDE DEF g
<1>4. g.slack - n \in Nat
  BY <1>2
<1>5. QED
  BY <1>2, <1>3, <1>4

(* A keyed table.                                                          *)
LEMMA ParseTabularObjectsStep ==
  ASSUME IndInv, ParseTabularObjects
  PROVE  NextGood
<1>1. /\ pc = "ParseTabularObjects" /\ OpenTable("Object", RowsOrEnd)
      /\ left' = hdr.n /\ hdr' = [hdr EXCEPT !.type = pc]
      /\ UNCHANGED <<toks, cell, pending, mem, lapses>>
  BY DEF ParseTabularObjects
<1>2. RowsOrEnd \in {"Row", "ScopeEnd", "Panicked"}
  BY DEF RowsOrEnd
<1>3. left' \in Nat /\ mem' \in [cap : Nat, slack : Nat]
  BY <1>1, Here
<1>4. QED
  BY <1>1, <1>2, <1>3, TableStep DEF TableStates, Containers

(* A tabular array in strict mode, or behind the first header.             *)
LEMMA ParseTabularArrayStrictStep ==
  ASSUME IndInv, ParseTabularArrayStrict
  PROVE  NextGood
<1>1. /\ pc = "ParseTabularArrayStrict" /\ OpenTable("Array", RowsOrEnd)
      /\ left' = hdr.n /\ hdr' = [hdr EXCEPT !.type = pc]
      /\ mem' = SetAside(mem, hdr.n)
      /\ UNCHANGED <<toks, cell, pending, lapses>>
  BY DEF ParseTabularArrayStrict
<1>2. RowsOrEnd \in {"Row", "ScopeEnd", "Panicked"}
  BY DEF RowsOrEnd
<1>3. hdr.n \in Nat /\ mem \in [cap : Nat, slack : Nat]
  BY Here
<1>4. left' \in Nat /\ mem' \in [cap : Nat, slack : Nat]
  BY <1>1, <1>3, SetAsideFacts
<1>5. QED
  BY <1>1, <1>2, <1>4, TableStep DEF TableStates, Containers

(* A tabular array in lenient mode.                                        *)
LEMMA ParseTabularArrayLenientStep ==
  ASSUME IndInv, ParseTabularArrayLenient
  PROVE  NextGood
<1>1. /\ pc = "ParseTabularArrayLenient" /\ OpenTable("Array", "Row")
      /\ left' = 0 /\ hdr' = [hdr EXCEPT !.type = pc]
      /\ UNCHANGED <<toks, cell, pending, mem, lapses>>
  BY DEF ParseTabularArrayLenient
<1>2. left' \in Nat /\ mem' \in [cap : Nat, slack : Nat]
  BY <1>1, Here
<1>3. QED
  BY <1>1, <1>2, TableStep DEF TableStates, Containers

(* A tabular array with nested field groups; the header has a field list,  *)
(* so that its cells can be counted.                                       *)
LEMMA ParseNestedFieldGroupsArrayStrictStep ==
  ASSUME IndInv, ParseNestedFieldGroupsArrayStrict
  PROVE  NextGood
<1> DEFINE g == Cardinality(Groups(hdr))
<1>1. /\ pc = "ParseNestedFieldGroupsArrayStrict"
      /\ OpenTable("Array", "Panicked") \/ OpenTable("Array", "Row")
      /\ left' = (IF hdr.n = 0 THEN N + 1 ELSE hdr.n) /\ hdr' = [hdr EXCEPT !.type = pc]
      /\ mem' = SetAside(mem, hdr.n * (1 + 2 * g))
      /\ UNCHANGED <<toks, cell, pending, lapses>>
  BY DEF ParseNestedFieldGroupsArrayStrict
<1>2. hdr.n \in Nat /\ hdr.lo \in Nat /\ hdr.hi \in Nat /\ N \in Nat
  BY Here
<1>3. mem \in [cap : Nat, slack : Nat]
  BY Here
<1>4. g \in Nat
  <2> DEFINE from == hdr.lo + 1
  <2>1. from \in Int /\ hdr.hi \in Int
    BY <1>2
  <2> HIDE DEF from
  <2>2. IsFiniteSet(from..hdr.hi)
    BY <2>1, FS_Interval
  <2>3. Groups(hdr) \subseteq from..hdr.hi
    BY DEF Groups, from
  <2>4. IsFiniteSet(Groups(hdr))
    BY <2>2, <2>3, FS_Subset
  <2>5. QED
    BY <2>4, FS_CardinalityType
<1> HIDE DEF g
<1>5. hdr.n * (1 + 2 * g) \in Nat
  BY <1>2, <1>4
<1>6. left' \in Nat /\ mem' \in [cap : Nat, slack : Nat]
  <2>1. mem' \in [cap : Nat, slack : Nat]
    BY <1>1, <1>3, <1>5, SetAsideFacts
  <2>2. left' \in Nat
    BY <1>1, <1>2
  <2>3. QED
    BY <2>1, <2>2
<1>7. QED
  BY <1>1, <1>6, TableStep DEF TableStates, Containers

(* The first field of a list lies in the outermost group. *)
LEMMA FirstField ==
  ASSUME toks \in Document, NEW h, h.delim \in Delims, FieldList(h.lo, h.hi)
  PROVE  LET fields == {j \in (h.lo + 1)..h.hi : IsLeaf(h, j) \/ IsGroup(h, j)}
         IN  Min(fields) \in (h.lo + 1)..h.hi /\ Level(h.lo, Min(fields) - 1) = 1
<1> DEFINE fields == {j \in (h.lo + 1)..h.hi : IsLeaf(h, j) \/ IsGroup(h, j)}
           R == {j \in (h.lo + 1)..h.hi : Tok(j) = "RBRACE"}
           r == Min(R)
           f == Min(fields)
<1>1. N \in Nat
  BY DocumentFacts
<1>2. h.lo \in 1..N /\ h.hi \in (h.lo + 1)..(N - 1) /\ Opens(h.lo) /\ Tok(h.hi) = "RBRACE"
  BY DEF FieldList
<1>3. h.lo \in Nat /\ h.hi \in Nat /\ h.lo + 1 \in Nat
  BY <1>1, <1>2
<1>4. R \subseteq Nat /\ h.hi \in R /\ fields \subseteq Nat
  BY <1>2, <1>3
<1>5. r \in R /\ \A j \in R : r <= j
  BY <1>4, MinOfNaturals
<1> HIDE DEF r
<1>6. r \in fields
  <2>1. r \in (h.lo + 1)..h.hi /\ Tok(r) = "RBRACE"
    BY <1>5
  <2>2. r - 1 \in h.lo..h.hi /\ r - 1 < r
    BY <1>3, <2>1
  <2>3. Tok(r - 1) # "RBRACE"
    <3>1. CASE r - 1 = h.lo
      BY <1>2, <3>1 DEF Opens
    <3>2. CASE r - 1 # h.lo
      <4>1. r - 1 \in (h.lo + 1)..h.hi
        BY <1>3, <2>2, <3>2
      <4>2. r \in Int /\ r - 1 \in Int /\ ~ (r <= r - 1)
        BY <1>3, <2>1
      <4>3. r - 1 \notin R
        BY <4>2, <1>5
      <4>4. QED
        BY <4>1, <4>3
    <3>3. QED
      BY <3>1, <3>2
  <2>4. IsLeaf(h, r)
    BY <2>1, <2>3 DEF IsLeaf
  <2>5. QED
    BY <2>1, <2>4
<1>7. f \in fields /\ \A j \in fields : f <= j
  BY <1>4, <1>6, MinOfNaturals
<1> HIDE DEF f
<1>8. f \in (h.lo + 1)..h.hi /\ f <= r
  BY <1>6, <1>7
<1>9. \A k \in (h.lo + 1)..(f - 1) : ~ Opens(k) /\ Tok(k) # "RBRACE"
  <2>1. SUFFICES ASSUME NEW k \in (h.lo + 1)..(f - 1)
                 PROVE  ~ Opens(k) /\ Tok(k) # "RBRACE"
    OBVIOUS
  <2>2. k \in (h.lo + 1)..h.hi /\ k \in (h.lo + 1)..(h.hi - 1) /\ ~ (f <= k) /\ ~ (r <= k)
    BY <1>3, <1>5, <1>8, <2>1
  <2>3. k \notin fields /\ k \notin R
    BY <1>5, <1>7, <2>2
  <2>4. ~ IsGroup(h, k)
    BY <2>2, <2>3
  <2>5. QED
    BY <2>2, <2>3, <2>4 DEF IsGroup
<1>10. f - 1 \in Nat /\ h.lo <= f - 1 /\ h.lo <= h.lo + 1
  BY <1>3, <1>8
<1>11. Level(h.lo, f - 1) = Level(h.lo, h.lo)
  <2> DEFINE m == f - 1
  <2>1. m \in Nat /\ h.lo <= m /\ \A k \in (h.lo + 1)..m : ~ Opens(k) /\ Tok(k) # "RBRACE"
    BY <1>9, <1>10
  <2> HIDE DEF m
  <2>2. Level(h.lo, m) = Level(h.lo, h.lo)
    BY <1>3, <1>10, <2>1, LevelStays
  <2>3. QED
    BY <2>2 DEF m
<1>12. Level(h.lo, h.lo) = 1
  BY <1>2, <1>3, LevelStarts
<1>13. QED
  BY <1>8, <1>11, <1>12 DEF f

(* A row opens the scope of its object, on top of the scopes of the table. *)
LEMMA RowStep ==
  ASSUME IndInv, Row
  PROVE  /\ NextGood
         /\ pc' \notin Final => pc' = "Cell" /\ Base(pc', hdr, cell', b') = Len(b.stack)
<1> DEFINE keyed == hdr.type = "ParseTabularObjects"
           end   == ValueEnd(i, {":"})
           fields == {j \in (hdr.lo + 1)..hdr.hi : IsLeaf(hdr, j) \/ IsGroup(hdr, j)}
           row(x, tag) == OpenScope(x, "Object", tag, Indent(x), -1)
           grown == IF mem.slack <= 1 THEN Grow(mem, 1) ELSE mem
<1>1. pc = "Row" /\ UNCHANGED <<toks, hdr, left, pending, lapses>>
  BY DEF Row
<1>2. ScopesOK(b) /\ PendingOK(pending, Len(b.stack))
  BY <1>1, HereOutsideRows DEF Final
<1>3. toks \in Document /\ N \in Nat /\ i \in 1..N /\ dedent \in Nat /\ i \in Nat
  <2>1. toks \in Document /\ N \in Nat /\ i \in 1..N /\ dedent \in Nat
    BY Here
  <2>2. QED
    BY <2>1
<1>4. mem' \in [cap : Nat, slack : Nat]
  <2>1. mem \in [cap : Nat, slack : Nat]
    BY Here
  <2>2. mem' = (IF hdr.type # "ParseTabularArrayLenient" THEN mem
                ELSE [grown EXCEPT !.slack = grown.slack - 1])
    BY DEF Row
  <2>3. grown \in [cap : Nat, slack : Nat] /\ grown.slack >= 1
    <3>1. Grow(mem, 1) \in [cap : Nat, slack : Nat] /\ Grow(mem, 1).slack >= mem.slack + 1
      BY <2>1, GrowFacts
    <3>2. QED
      BY <2>1, <3>1
  <2> HIDE DEF grown
  <2>4. QED
    BY <2>1, <2>2, <2>3
<1> HIDE DEF grown
<1>5. hdr.lo # 0 =>
        /\ FieldList(hdr.lo, hdr.hi)
        /\ Min(fields) \in (hdr.lo + 1)..hdr.hi /\ Level(hdr.lo, Min(fields) - 1) = 1
  BY Here, FirstField
<1>6. cell' = (IF hdr.lo = 0 THEN 0 ELSE Min(fields))
  BY DEF Row
<1> HIDE DEF fields
<1>7. cell' \in Nat
  <2>1. hdr.lo \in Nat /\ hdr.hi \in Nat
    BY Here
  <2>2. QED
    BY <1>5, <1>6, <2>1
<1>8. Rest
  BY <1>1, <1>4, <1>7, Here DEF Rest
<1>9. ASSUME NEW x, ScopesOK(x), x.stack = b.stack, NEW tag \in {"Object", "Array"},
             hdr.lo # 0, pc' = "Cell", b' = row(x, tag), i' \in 1..N, UNCHANGED dedent
      PROVE  NextGood /\ Base(pc', hdr, cell', b') = Len(b.stack)
  <2>1. Indent(x) \in Nat /\ -1 \in Nat \cup {-1} /\ "Object" \in Containers
    BY <1>9, ScopesFacts DEF Containers
  <2>2. ScopesOK(b') /\ Len(b'.stack) = Len(b.stack) + 1
    BY <1>9, <2>1, OpenScopeFacts
  <2>3. Len(b.stack) \in Nat /\ Len(b.stack) >= 1
    BY <1>2, ScopesFacts
  <2>4. Level(hdr.lo, cell' - 1) = 1 /\ cell' \in (hdr.lo + 1)..hdr.hi
    BY <1>5, <1>6, <1>9
  <2>5. Base("Cell", hdr, cell', b') = Len(b.stack)
    BY <2>2, <2>3, <2>4 DEF Base
  <2>6. Good("Cell", hdr, left, cell', b', pending)
    BY <1>2, <1>5, <1>9, <2>2, <2>3, <2>4, <2>5 DEF Good
  <2>7. b' \in Builders
    BY <2>2, ScopesFacts
  <2>8. QED
    BY <1>1, <1>3, <1>8, <1>9, <2>5, <2>6, <2>7 DEF NextGood, Rest, States
<1>10. CASE ~ keyed /\ Goto("Cell", row(Counted(b), "Array"), i) /\ UNCHANGED dedent
  <2>1. pc' = "Cell" /\ b' = row(Counted(b), "Array") /\ i' = i
    BY <1>10 DEF Goto
  <2>2. ScopesOK(Counted(b)) /\ Counted(b).stack = b.stack
    BY <1>2, CountedFacts
  <2>3. hdr.lo # 0
    BY <1>1, <1>10 DEF IndInv, Good
  <2>4. QED
    BY <1>3, <1>9, <1>10, <2>1, <2>2, <2>3
<1>11. CASE /\ Tok(end) = ":" /\ hdr.lo # 0
            /\ Goto("Cell", row(PutKey(b, i), "Object"), end + 1) /\ UNCHANGED dedent
  <2>1. pc' = "Cell" /\ b' = row(PutKey(b, i), "Object") /\ i' = end + 1
    BY <1>11 DEF Goto
  <2>2. ScopesOK(PutKey(b, i)) /\ PutKey(b, i).stack = b.stack
    BY <1>2, <1>3, PutFacts
  <2>3. end \in i..N /\ (Tok(end) # "NL" => end < N)
    BY <1>3, ValueEndFacts
  <2> HIDE DEF end
  <2>4. end \in 1..N /\ end < N
    BY <1>3, <1>11, <2>3
  <2>5. end + 1 \in 1..N
    BY <1>3, <2>4, Behind, Zenon
  <2>6. QED
    BY <1>9, <1>11, <2>1, <2>2, <2>5
<1>12. CASE Underflow \/ Fail
  <2>1. pc' \in Final /\ UNCHANGED <<i, b, dedent>>
    BY <1>12 DEF Fail, Underflow, Final
  <2>2. QED
    BY <1>8, <2>1, FailStep
<1>13. QED
  <2>1. \/ ~ keyed /\ Goto("Cell", row(Counted(b), "Array"), i) /\ UNCHANGED dedent
        \/ /\ Tok(end) = ":" /\ hdr.lo # 0
           /\ Goto("Cell", row(PutKey(b, i), "Object"), end + 1) /\ UNCHANGED dedent
        \/ Underflow \/ Fail
    BY Zenon DEF Row
  <2>2. QED
    BY <1>10, <1>11, <1>12, <2>1

(* A bounded set of naturals that is not empty has a greatest element, and *)
(* Max picks it.                                                           *)
LEMMA MaxOfNaturals ==
  ASSUME NEW m \in Nat, NEW S, S \subseteq 0..m, S # {}
  PROVE  Max(S) \in S
<1> DEFINE T == {m - y : y \in S}
<1>1. T \subseteq Nat /\ T # {}
  <2>1. ASSUME NEW y \in S PROVE m - y \in Nat
    <3>1. y \in 0..m
      OBVIOUS
    <3>2. QED
      BY <3>1
  <2>2. PICK y \in S : TRUE
    OBVIOUS
  <2>3. m - y \in T
    BY <2>2
  <2>4. QED
    BY <2>1, <2>3
<1>2. PICK t \in T : \A u \in T : t <= u
  BY <1>1, MinOfNaturals
<1>3. PICK x \in S : t = m - x
  BY <1>2
<1>4. ASSUME NEW y \in S PROVE x >= y
  <2>1. m - y \in T
    OBVIOUS
  <2>2. m - x <= m - y
    BY <1>2, <1>3, <2>1
  <2>3. x \in 0..m /\ y \in 0..m
    OBVIOUS
  <2>4. QED
    BY <2>2, <2>3
<1>5. QED
  BY <1>4 DEF Max

(* The name of a field starts at a token.                                  *)
LEMMA NameStartFacts ==
  ASSUME NEW h, h.lo \in Nat, NEW j \in Nat, j > h.lo
  PROVE  NameStart(h, j) \in Nat
<1> DEFINE S == {k \in h.lo..(j - 1) : \/ k = h.lo
                                       \/ Tok(k) \in {h.delim, "LBRACE", "RBRACE"}
                                       \/ Tok(k - 1) = "RBRACE"}
<1>1. h.lo \in S /\ S \subseteq 0..(j - 1) /\ j - 1 \in Nat
  OBVIOUS
<1> DEFINE m == j - 1
<1>2. m \in Nat /\ S \subseteq 0..m
  BY <1>1
<1> HIDE DEF m
<1>3. Max(S) \in S
  <2> HIDE DEF S
  <2>1. QED
    BY <1>1, <1>2, MaxOfNaturals
<1>4. Max(S) \in Nat
  BY <1>2, <1>3
<1>5. NameStart(h, j) = 1 + Max(S)
  BY DEF NameStart
<1> HIDE DEF S
<1>6. QED
  BY <1>4, <1>5

(* What a token of the field list does to the level of the groups.         *)
LEMMA LevelAt ==
  ASSUME toks \in Document, NEW h, h.delim \in Delims, FieldList(h.lo, h.hi),
         NEW c \in (h.lo + 1)..h.hi
  PROVE  /\ Level(h.lo, c - 1) \in Int /\ Level(h.lo, c - 1) >= 1
         /\ c < h.hi => /\ Level(h.lo, c) \in Int /\ Level(h.lo, c) >= 1
                        /\ Level(h.lo, c) = Level(h.lo, c - 1)
                                            + (IF IsGroup(h, c) THEN 1 ELSE 0)
                                            - (IF IsGroupEnd(h, c) THEN 1 ELSE 0)
<1>1. h.lo \in Nat /\ h.hi \in Nat /\ c \in Nat
  <2>1. N \in Nat /\ h.lo \in 1..N /\ h.hi \in (h.lo + 1)..(N - 1)
    BY DocumentFacts DEF FieldList
  <2>2. QED
    BY <2>1
<1>2. c - 1 \in h.lo..(h.hi - 1) /\ c - 1 \in Nat /\ (c - 1) + 1 = c /\ h.lo <= (c - 1) + 1
  BY <1>1
<1>3. Level(h.lo, c - 1) \in Int /\ Level(h.lo, c - 1) >= 1
  BY <1>1, <1>2, LevelStep DEF FieldList
<1>4. ASSUME c < h.hi
      PROVE  /\ Level(h.lo, c) \in Int /\ Level(h.lo, c) >= 1
             /\ Level(h.lo, c) = Level(h.lo, c - 1)
                                 + (IF IsGroup(h, c) THEN 1 ELSE 0)
                                 - (IF IsGroupEnd(h, c) THEN 1 ELSE 0)
  <2>1. c \in (h.lo + 1)..(h.hi - 1) /\ c \in h.lo..(h.hi - 1) /\ h.lo <= c + 1
    BY <1>1, <1>4
  <2>2. (IsGroup(h, c) <=> Opens(c)) /\ (IsGroupEnd(h, c) <=> Tok(c) = "RBRACE")
    BY <2>1 DEF IsGroup, IsGroupEnd
  <2>3. Level(h.lo, (c - 1) + 1) = Level(h.lo, c - 1)
                                   + (IF Opens((c - 1) + 1) THEN 1 ELSE 0)
                                   - (IF Tok((c - 1) + 1) = "RBRACE" THEN 1 ELSE 0)
    BY <1>1, <1>2, LevelStep
  <2>4. Level(h.lo, c) \in Int /\ Level(h.lo, c) >= 1
    BY <1>1, <2>1, LevelStep DEF FieldList
  <2>5. QED
    BY <1>2, <2>2, <2>3, <2>4
<1>5. QED
  BY <1>3, <1>4

(* The brace that ends a field list closes the list itself.                *)
LEMMA LastLevel ==
  ASSUME toks \in Document, NEW lo, NEW hi, FieldList(lo, hi)
  PROVE  Level(lo, hi - 1) = 1
<1>1. N \in Nat /\ lo \in 1..N /\ hi \in (lo + 1)..(N - 1)
  BY DocumentFacts DEF FieldList
<1>2. lo \in Nat /\ hi - 1 \in Nat /\ (hi - 1) + 1 = hi /\ lo <= (hi - 1) + 1
  BY <1>1
<1>3. /\ Level(lo, hi - 1) \in Int
      /\ Level(lo, (hi - 1) + 1) = Level(lo, hi - 1)
                                   + (IF Opens((hi - 1) + 1) THEN 1 ELSE 0)
                                   - (IF Tok((hi - 1) + 1) = "RBRACE" THEN 1 ELSE 0)
  BY <1>2, LevelStep
<1>4. Tok(hi) = "RBRACE" /\ Level(lo, hi) = 0 /\ ~ Opens(hi)
  BY DEF FieldList, Opens
<1>5. QED
  BY <1>2, <1>3, <1>4

(* Behind the last token that does something only the list is open.        *)
LEMMA NoField ==
  ASSUME toks \in Document, NEW h, FieldList(h.lo, h.hi), NEW c \in (h.lo + 1)..h.hi, c < h.hi,
         {j \in (c + 1)..h.hi : IsLeaf(h, j) \/ IsGroup(h, j) \/ IsGroupEnd(h, j)} = {}
  PROVE  Level(h.lo, c) = 1
<1> DEFINE m == h.hi - 1
<1>1. h.lo \in Nat /\ h.hi \in Nat /\ c \in Nat
  <2>1. N \in Nat /\ h.lo \in 1..N /\ h.hi \in (h.lo + 1)..(N - 1)
    BY DocumentFacts DEF FieldList
  <2>2. QED
    BY <2>1
<1>2. m \in Nat /\ c <= m /\ h.lo <= c + 1
  BY <1>1
<1>3. \A k \in (c + 1)..m : ~ Opens(k) /\ Tok(k) # "RBRACE"
  <2>1. SUFFICES ASSUME NEW k \in (c + 1)..m
                 PROVE  ~ Opens(k) /\ Tok(k) # "RBRACE"
    OBVIOUS
  <2>2. k \in (c + 1)..h.hi /\ k \in (h.lo + 1)..(h.hi - 1)
    BY <1>1, <2>1
  <2>3. ~ IsGroup(h, k) /\ ~ IsGroupEnd(h, k)
    BY <2>2
  <2>4. QED
    BY <2>2, <2>3 DEF IsGroup, IsGroupEnd
<1>4. Level(h.lo, m) = 1
  BY LastLevel
<1> HIDE DEF m
<1>5. QED
  BY <1>1, <1>2, <1>3, <1>4, LevelStays

(* The next token of the field list that does something, if there is one.  *)
LEMMA NextField ==
  ASSUME toks \in Document, NEW h, FieldList(h.lo, h.hi), NEW c \in (h.lo + 1)..h.hi
  PROVE  LET todo == {j \in (c + 1)..h.hi : IsLeaf(h, j) \/ IsGroup(h, j) \/ IsGroupEnd(h, j)}
         IN  todo # {} => /\ c < h.hi
                          /\ Min(todo) \in (h.lo + 1)..h.hi
                          /\ Level(h.lo, Min(todo) - 1) = Level(h.lo, c)
<1> DEFINE todo == {j \in (c + 1)..h.hi : IsLeaf(h, j) \/ IsGroup(h, j) \/ IsGroupEnd(h, j)}
           f == Min(todo)
<1>1. SUFFICES ASSUME todo # {}
               PROVE  /\ c < h.hi /\ f \in (h.lo + 1)..h.hi
                      /\ Level(h.lo, f - 1) = Level(h.lo, c)
  OBVIOUS
<1>2. h.lo \in Nat /\ h.hi \in Nat /\ c \in Nat
  <2>1. N \in Nat /\ h.lo \in 1..N /\ h.hi \in (h.lo + 1)..(N - 1)
    BY DocumentFacts DEF FieldList
  <2>2. QED
    BY <2>1
<1>3. todo \subseteq Nat
  BY <1>2
<1>4. f \in todo /\ \A j \in todo : f <= j
  BY <1>1, <1>3, MinOfNaturals
<1> HIDE DEF f
<1>5. f \in (c + 1)..h.hi /\ f \in (h.lo + 1)..h.hi /\ c < h.hi
  BY <1>2, <1>4
<1> DEFINE m == f - 1
<1>6. m \in Nat /\ c <= m /\ h.lo <= c + 1
  BY <1>2, <1>5
<1>7. \A k \in (c + 1)..m : ~ Opens(k) /\ Tok(k) # "RBRACE"
  <2>1. SUFFICES ASSUME NEW k \in (c + 1)..m
                 PROVE  ~ Opens(k) /\ Tok(k) # "RBRACE"
    OBVIOUS
  <2>2. k \in (c + 1)..h.hi /\ k \in (h.lo + 1)..(h.hi - 1) /\ ~ (f <= k)
    BY <1>2, <1>5, <2>1
  <2>3. k \notin todo
    BY <1>4, <2>2
  <2>4. QED
    BY <2>2, <2>3 DEF IsGroup, IsGroupEnd
<1> HIDE DEF m
<1>8. Level(h.lo, m) = Level(h.lo, c)
  BY <1>2, <1>6, <1>7, LevelStays
<1>9. QED
  BY <1>5, <1>8 DEF m

(* A cell keeps the scopes in step with the groups of the field list: a    *)
(* group opens one, its brace closes one, and the row's own is still open  *)
(* when the next cell is read.                                             *)
LEMMA CellStep ==
  ASSUME IndInv, Cell
  PROVE  /\ NextGood
         /\ pc' # "Failed" => /\ pc' \in {"Cell", "EndRow"}
                              /\ Base(pc', hdr, cell', b') = Base("Cell", hdr, cell, b)
<1> DEFINE leaf   == IsLeaf(hdr, cell)
           last   == \A j \in Leaves(hdr) : j <= cell
           delims == CellEnds(last)
           end    == ValueEnd(i, delims)
           name   == NameStart(hdr, cell)
           y      == IF leaf THEN PutValue(PutKey(b, name), i)
                     ELSE IF IsGroup(hdr, cell)
                     THEN OpenScope(PutKey(b, name), "Object", "Object", Indent(b), -1)
                     ELSE b
           x      == IF IsGroupEnd(hdr, cell) THEN CloseScope(y) ELSE y
           todo   == {j \in (cell + 1)..hdr.hi :
                        IsLeaf(hdr, j) \/ IsGroup(hdr, j) \/ IsGroupEnd(hdr, j)}
           next   == IF todo = {} THEN "EndRow" ELSE "Cell"
           outer  == Len(b.stack) - Level(hdr.lo, cell - 1)
<1>1. pc = "Cell" /\ UNCHANGED <<toks, hdr, left, pending, mem, lapses>>
  BY DEF Cell
<1>2. toks \in Document /\ N \in Nat /\ i \in 1..N /\ dedent \in Nat /\ i \in Nat
  <2>1. toks \in Document /\ N \in Nat /\ i \in 1..N /\ dedent \in Nat
    BY Here
  <2>2. QED
    BY <2>1
<1>3. hdr.lo # 0 /\ cell \in (hdr.lo + 1)..hdr.hi
  BY <1>1 DEF IndInv, Good
<1>4. FieldList(hdr.lo, hdr.hi) /\ hdr.delim \in Delims
  BY <1>3, Here
<1>5. hdr.lo \in Nat /\ hdr.hi \in Nat
  BY Here
<1>6. cell \in Nat /\ cell > hdr.lo
  BY <1>3, <1>5
<1>7. ScopesOK(b) /\ outer >= 1 /\ PendingOK(pending, outer)
  BY <1>1, Here DEF Base, Final
<1>8. /\ Level(hdr.lo, cell - 1) \in Int /\ Level(hdr.lo, cell - 1) >= 1
      /\ cell < hdr.hi =>
           /\ Level(hdr.lo, cell) \in Int /\ Level(hdr.lo, cell) >= 1
           /\ Level(hdr.lo, cell) = Level(hdr.lo, cell - 1)
                                    + (IF IsGroup(hdr, cell) THEN 1 ELSE 0)
                                    - (IF IsGroupEnd(hdr, cell) THEN 1 ELSE 0)
  BY <1>2, <1>3, <1>4, LevelAt
<1>9. Len(b.stack) \in Nat /\ outer \in Nat /\ Len(b.stack) >= 2
  <2>1. Len(b.stack) \in Nat
    BY <1>7, ScopesFacts
  <2>2. QED
    BY <2>1, <1>7, <1>8
<1>10. todo # {} => /\ cell < hdr.hi
                    /\ Min(todo) \in (hdr.lo + 1)..hdr.hi
                    /\ Level(hdr.lo, Min(todo) - 1) = Level(hdr.lo, cell)
  BY <1>2, <1>3, <1>4, NextField
<1>11. todo = {} => IF cell < hdr.hi THEN Level(hdr.lo, cell) = 1
                                     ELSE Level(hdr.lo, cell - 1) = 1
  <2>1. todo = {} /\ cell < hdr.hi => Level(hdr.lo, cell) = 1
    BY <1>2, <1>3, <1>4, NoField
  <2>2. ~ (cell < hdr.hi) => cell = hdr.hi
    BY <1>3, <1>5, <1>6
  <2>3. Level(hdr.lo, hdr.hi - 1) = 1
    BY <1>2, <1>4, LastLevel
  <2>4. QED
    BY <2>1, <2>2, <2>3
<1>12. cell' = (IF todo = {} THEN hdr.hi ELSE Min(todo))
  BY DEF Cell
<1>13. name \in Nat
  BY <1>5, <1>6, NameStartFacts
<1>14. /\ ~ (leaf /\ IsGroup(hdr, cell))
       /\ ~ (IsGroup(hdr, cell) /\ IsGroupEnd(hdr, cell))
       /\ IsGroup(hdr, cell) \/ IsGroupEnd(hdr, cell) => cell < hdr.hi
  <2>1. ~ (leaf /\ IsGroup(hdr, cell))
    BY <1>4 DEF IsLeaf, IsGroup, Opens, Delims
  <2>2. ~ (IsGroup(hdr, cell) /\ IsGroupEnd(hdr, cell))
    BY DEF IsGroup, IsGroupEnd, Opens
  <2>3. IsGroup(hdr, cell) \/ IsGroupEnd(hdr, cell) => cell < hdr.hi
    BY <1>5, <1>6 DEF IsGroup, IsGroupEnd
  <2>4. QED
    BY <2>1, <2>2, <2>3
<1> HIDE DEF outer, todo, name
<1>15. ScopesOK(PutKey(b, name)) /\ PutKey(b, name).stack = b.stack
  BY <1>7, <1>13, PutFacts
<1>16. ScopesOK(y) /\ Len(y.stack) = Len(b.stack) + (IF IsGroup(hdr, cell) THEN 1 ELSE 0)
  <2>1. CASE leaf
    <3>1. ScopesOK(y) /\ y.stack = b.stack
      BY <1>2, <1>15, <2>1, PutFacts
    <3>2. ~ IsGroup(hdr, cell)
      BY <1>14, <2>1
    <3>3. Len(y.stack) = Len(b.stack)
      BY <3>1
    <3> HIDE DEF y, leaf
    <3>4. QED
      BY <1>9, <3>1, <3>2, <3>3
  <2>2. CASE ~ leaf /\ IsGroup(hdr, cell)
    <3>1. Indent(b) \in Nat /\ "Object" \in Containers /\ -1 \in Nat \cup {-1}
      BY <1>7, ScopesFacts DEF Containers
    <3>2. y = OpenScope(PutKey(b, name), "Object", "Object", Indent(b), -1)
      BY <2>2
    <3>3. ScopesOK(y) /\ Len(y.stack) = Len(PutKey(b, name).stack) + 1
      BY <1>15, <3>1, <3>2, OpenScopeFacts
    <3> HIDE DEF y, leaf
    <3>4. QED
      BY <1>15, <2>2, <3>3
  <2>3. CASE ~ leaf /\ ~ IsGroup(hdr, cell)
    <3>1. y = b
      BY <2>3
    <3> HIDE DEF y, leaf
    <3>2. QED
      BY <1>7, <1>9, <2>3, <3>1
  <2>4. QED
    BY <2>1, <2>2, <2>3
<1> HIDE DEF y, leaf
<1>17. /\ ScopesOK(x)
       /\ Len(x.stack) = Len(b.stack) + (IF IsGroup(hdr, cell) THEN 1 ELSE 0)
                                      - (IF IsGroupEnd(hdr, cell) THEN 1 ELSE 0)
  <2>1. CASE IsGroupEnd(hdr, cell)
    <3>1. Len(y.stack) = Len(b.stack)
      BY <1>9, <1>14, <1>16, <2>1
    <3>2. ScopesOK(x) /\ Len(x.stack) = Len(y.stack) - 1
      BY <1>9, <1>16, <2>1, <3>1, CloseScopeFacts
    <3> HIDE DEF x
    <3>3. QED
      BY <1>9, <1>14, <2>1, <3>1, <3>2
  <2>2. CASE ~ IsGroupEnd(hdr, cell)
    <3>1. x = y
      BY <2>2
    <3> HIDE DEF x
    <3>2. ScopesOK(x) /\ Len(x.stack) = Len(y.stack)
      BY <1>16, <3>1
    <3>3. Len(x.stack) = Len(b.stack) + (IF IsGroup(hdr, cell) THEN 1 ELSE 0)
      BY <1>16, <3>2
    <3>4. QED
      BY <1>9, <2>2, <3>2, <3>3
  <2>3. QED
    BY <2>1, <2>2
<1> HIDE DEF x
<1>18. cell' \in Nat
  BY <1>5, <1>10, <1>12
<1>19. Rest
  BY <1>1, <1>18, Here DEF Rest
<1>20. ASSUME pc' = next, b' = x, i' \in 1..N, UNCHANGED dedent
       PROVE  /\ NextGood /\ pc' \in {"Cell", "EndRow"}
              /\ Base(pc', hdr, cell', b') = Base("Cell", hdr, cell, b)
  <2>1. Base("Cell", hdr, cell, b) = outer
    BY DEF Base, outer
  <2>2. /\ cell < hdr.hi => Len(x.stack) = outer + Level(hdr.lo, cell)
        /\ ~ (cell < hdr.hi) => Len(x.stack) = Len(b.stack)
    <3>1. CASE cell < hdr.hi
      <4> DEFINE before == Level(hdr.lo, cell - 1)
                 opens  == IF IsGroup(hdr, cell) THEN 1 ELSE 0
                 closes == IF IsGroupEnd(hdr, cell) THEN 1 ELSE 0
      <4>1. opens \in Int /\ closes \in Int
        OBVIOUS
      <4>2. before \in Int /\ Level(hdr.lo, cell) = before + opens - closes
        BY <1>8, <3>1
      <4>3. Len(b.stack) = outer + before
        BY <1>9, <4>2 DEF outer
      <4>4. Len(x.stack) = Len(b.stack) + opens - closes
        BY <1>17
      <4> HIDE DEF before, opens, closes
      <4>5. QED
        BY <1>9, <3>1, <4>1, <4>2, <4>3, <4>4
    <3>2. CASE ~ (cell < hdr.hi)
      <4>1. ~ IsGroup(hdr, cell) /\ ~ IsGroupEnd(hdr, cell)
        BY <1>14, <3>2
      <4>2. QED
        BY <1>9, <1>17, <3>2, <4>1
    <3>3. QED
      BY <3>1, <3>2
  <2>3. CASE todo # {}
    <3>1. pc' = "Cell" /\ cell' = Min(todo) /\ cell' \in (hdr.lo + 1)..hdr.hi
          /\ Level(hdr.lo, cell' - 1) = Level(hdr.lo, cell) /\ cell < hdr.hi
      BY <1>10, <1>12, <1>20, <2>3
    <3>2. Base("Cell", hdr, cell', x) = Len(x.stack) - Level(hdr.lo, cell)
      BY <3>1 DEF Base
    <3>3. Base("Cell", hdr, cell', x) = outer
      BY <1>8, <1>9, <2>2, <3>1, <3>2
    <3>4. Good("Cell", hdr, left, cell', x, pending)
      BY <1>3, <1>4, <1>7, <1>17, <3>1, <3>3 DEF Good
    <3>5. x \in Builders
      BY <1>17, ScopesFacts
    <3>6. QED
      BY <1>1, <1>2, <1>19, <1>20, <2>1, <3>1, <3>3, <3>4, <3>5 DEF NextGood, Rest, States
  <2>4. CASE todo = {}
    <3>1. pc' = "EndRow"
      BY <1>20, <2>4
    <3>2. Base("EndRow", hdr, cell', x) = Len(x.stack) - 1
      BY DEF Base
    <3>3. Len(x.stack) - 1 \in Int /\ Len(x.stack) - 1 = outer
      <4>1. CASE cell < hdr.hi
        BY <1>9, <1>11, <2>2, <2>4, <4>1
      <4>2. CASE ~ (cell < hdr.hi)
        BY <1>9, <1>11, <2>2, <2>4, <4>2 DEF outer
      <4>3. QED
        BY <4>1, <4>2
    <3>4. PendingOK(pending, Len(x.stack) - 1)
      BY <1>7, <3>3
    <3>5. Len(x.stack) - 1 >= 1
      BY <1>7, <1>9, <3>3
    <3>6. Good("EndRow", hdr, left, cell', x, pending)
      BY <1>3, <1>4, <1>17, <3>2, <3>4, <3>5 DEF Good
    <3>7. x \in Builders
      BY <1>17, ScopesFacts
    <3>8. QED
      BY <1>1, <1>2, <1>19, <1>20, <2>1, <3>1, <3>2, <3>3, <3>6, <3>7 DEF NextGood, Rest, States
  <2>5. QED
    BY <2>3, <2>4
<1>21. end \in i..N /\ (Tok(end) # "NL" => end < N)
  BY <1>2, ValueEndFacts
<1>22. CASE Goto(next, x, IF Tok(end) = "NL" THEN end ELSE end + 1) /\ UNCHANGED dedent
  <2> HIDE DEF end
  <2>1. end \in 1..N
    BY <1>2, <1>21
  <2>2. Tok(end) # "NL" => end + 1 \in 1..N
    BY <1>2, <1>21, <2>1, Behind, Zenon
  <2>3. i' = (IF Tok(end) = "NL" THEN end ELSE end + 1)
    BY <1>22 DEF Goto
  <2>4. i' \in 1..N
    BY <2>1, <2>2, <2>3
  <2>5. pc' = next /\ b' = x
    BY <1>22 DEF Goto
  <2>6. QED
    BY <1>20, <1>22, <2>4, <2>5
<1>23. CASE Goto(next, x, i) /\ UNCHANGED dedent
  <2>1. pc' = next /\ b' = x /\ i' = i
    BY <1>23 DEF Goto
  <2>2. QED
    BY <1>2, <1>20, <1>23, <2>1
<1>24. CASE Fail
  BY <1>19, <1>24, FailStep DEF Fail, Final
<1>25. QED
  <2>1. \/ Goto(next, x, IF Tok(end) = "NL" THEN end ELSE end + 1) /\ UNCHANGED dedent
        \/ Goto(next, x, i) /\ UNCHANGED dedent
        \/ Fail
    BY Zenon DEF Cell, x, y, leaf, todo, name
  <2>2. QED
    BY <1>22, <1>23, <1>24, <2>1

(* The end of a row closes exactly the scope the row opened.               *)
LEMMA EndRowStep ==
  ASSUME IndInv, EndRow
  PROVE  NextGood
<1> DEFINE x == CloseScope(b)
           lenient == hdr.type = "ParseTabularArrayLenient"
           arms == IF lenient THEN [Sibling |-> "Row", CloseScope |-> "ScopeEnd"]
                   ELSE [Sibling |-> "Row"]
           e == EolState(i, x, pending, TRUE)
<1>1. pc = "EndRow" /\ UNCHANGED <<toks, hdr, cell, pending, mem, lapses>>
  BY DEF EndRow
<1>2. toks \in Document /\ i \in 1..N /\ dedent \in Nat /\ left \in Nat
  BY Here
<1>3. ScopesOK(b) /\ Len(b.stack) - 1 >= 1 /\ PendingOK(pending, Len(b.stack) - 1)
  BY <1>1, Here DEF Base, Final
<1>4. Len(b.stack) \in Nat /\ Len(b.stack) >= 2
  <2>1. Len(b.stack) \in Nat
    BY <1>3, ScopesFacts
  <2>2. QED
    BY <1>3, <2>1
<1>5. ScopesOK(x) /\ Len(x.stack) = Len(b.stack) - 1
  BY <1>3, <1>4, CloseScopeFacts
<1>6. PendingOK(pending, Len(x.stack))
  BY <1>3, <1>5
<1> HIDE DEF x
<1>7. left' \in Nat
  <2>1. left' = IF left = 0 THEN 0 ELSE left - 1
    BY DEF EndRow
  <2>2. QED
    BY <1>2, <2>1
<1>8. Rest
  BY <1>1, <1>7, Here DEF Rest
<1>9. hdr.lo # 0
  BY <1>1 DEF IndInv, Good
<1>10. CASE Goto("ScopeEnd", x, i) /\ UNCHANGED dedent
  <2>1. pc' = "ScopeEnd" /\ b' = x /\ i' = i
    BY <1>10 DEF Goto
  <2>2. QED
    BY <1>1, <1>2, <1>5, <1>6, <1>8, <1>10, <2>1, PlainStep DEF Plain
<1>11. CASE Follow(e, x, arms)
  <2>1. e.at \in 1..N /\ e.ws \in Nat
    BY <1>2, EolFacts
  <2>2. \A a \in DOMAIN arms : arms[a] \in {"Row", "ScopeEnd"}
    OBVIOUS
  <2> HIDE DEF arms, e
  <2>3. \/ /\ pc' \in {"Row", "ScopeEnd"}
           /\ b' = x /\ i' \in 1..N /\ dedent' \in Nat
        \/ pc' = "Failed" /\ UNCHANGED <<i, b, dedent>>
    BY <1>11, <2>1, <2>2, Follows
  <2>4. CASE pc' = "Row" /\ b' = x /\ i' \in 1..N /\ dedent' \in Nat
    <3>1. Base("Row", hdr, cell, x) = Len(x.stack)
      BY <1>5, BaseOutsideRows
    <3>2. Good("Row", hdr, left', cell, x, pending)
      BY <1>5, <1>6, <1>9, <3>1, ScopesFacts, Here DEF Good
    <3>3. x \in Builders
      BY <1>5, ScopesFacts
    <3>4. QED
      BY <1>1, <1>8, <2>4, <3>2, <3>3 DEF NextGood, Rest, States
  <2>5. CASE pc' = "ScopeEnd" /\ b' = x /\ i' \in 1..N /\ dedent' \in Nat
    BY <1>1, <1>5, <1>6, <1>8, <2>5, PlainStep DEF Plain
  <2>6. CASE pc' = "Failed" /\ UNCHANGED <<i, b, dedent>>
    BY <1>8, <2>6, FailStep DEF Final
  <2>7. QED
    BY <2>3, <2>4, <2>5, <2>6
<1>12. QED
  <2>1. \/ Goto("ScopeEnd", x, i) /\ UNCHANGED dedent
        \/ Follow(e, x, arms)
    BY DEF EndRow, x
  <2>2. QED
    BY <1>10, <1>11, <2>1

(* ScopeEnd closes the innermost scope and, if that is the array of the    *)
(* last pending count, takes the count off; the bottom frame is the        *)
(* document's, so that only the document's end leaves no scope.            *)
LEMMA ScopeEndStep ==
  ASSUME IndInv, ScopeEnd
  PROVE  NextGood
<1> DEFINE own  == pending # << >> /\ Last(pending).depth = Len(b.stack)
           pend == IF own THEN Front(pending) ELSE pending
           x    == CloseScope(b)
           tag  == Last(b.stack).tag
           e    == IF Tok(i) = "NL" THEN EolState(i, x, pend, FALSE) ELSE Cascade(x, pend)
           back == IF tag = "Object" THEN "ParseHeader" ELSE "ExpectBlockArrayItem"
           arms == [Sibling |-> back, CloseScope |-> "ScopeEnd"]
<1>1. pc = "ScopeEnd" /\ UNCHANGED <<toks, hdr, left, cell, mem, lapses>>
  BY DEF ScopeEnd
<1>2. toks \in Document /\ N \in Nat /\ N >= 1 /\ i \in 1..N /\ dedent \in Nat
  BY Here
<1>3. ScopesOK(b) /\ PendingOK(pending, Len(b.stack))
  BY <1>1, HereOutsideRows DEF Final
<1>4. Len(b.stack) \in Nat /\ Len(b.stack) >= 1
  BY <1>3, ScopesFacts
<1>5. pending \in Seq([depth : Nat \ {0}, n : Nat])
  BY Here DEF PendingCounts
<1>6. Len(pending) \in Nat
  BY <1>5
<1>7. own => /\ Len(pending) >= 1
             /\ pend \in PendingCounts /\ Len(pend) = Len(pending) - 1
             /\ \A k \in 1..(Len(pending) - 1) : pend[k] = pending[k]
             /\ pending[Len(pending)].depth = Len(b.stack)
  <2>1. SUFFICES ASSUME own
                 PROVE  /\ Len(pending) >= 1
                        /\ pend \in PendingCounts /\ Len(pend) = Len(pending) - 1
                        /\ \A k \in 1..(Len(pending) - 1) : pend[k] = pending[k]
                        /\ pending[Len(pending)].depth = Len(b.stack)
    OBVIOUS
  <2>2. Len(pending) >= 1
    BY <1>5, <2>1
  <2>3. pend = Front(pending)
    BY <2>1
  <2> HIDE DEF pend
  <2>4. /\ pend \in PendingCounts /\ Len(pend) = Len(pending) - 1
        /\ \A k \in 1..(Len(pending) - 1) : pend[k] = pending[k]
        /\ Last(pending) = pending[Len(pending)]
    BY <1>5, <2>2, <2>3, FrontFacts DEF PendingCounts
  <2>5. pending[Len(pending)].depth = Len(b.stack)
    BY <2>1, <2>4
  <2>6. QED
    BY <2>2, <2>4, <2>5
<1>8. ~ own => pend = pending
  OBVIOUS
<1>9. ~ own /\ Len(pending) >= 1 => pending[Len(pending)].depth # Len(b.stack)
  BY <1>5 DEF Last
<1> HIDE DEF own, pend, x, tag
<1>10. pend \in PendingCounts
  BY <1>5, <1>7, <1>8 DEF PendingCounts
<1>11. Len(b.stack) >= 2 =>
         PendingOK(pend, Len(b.stack) - 1)
  <2>1. SUFFICES ASSUME Len(b.stack) >= 2
                 PROVE  PendingOK(pend, Len(b.stack) - 1)
    OBVIOUS
  <2>2. /\ Len(pend) \in Nat /\ Len(pend) <= Len(pending)
        /\ \A k \in 1..Len(pend) : pend[k] = pending[k]
    BY <1>6, <1>7, <1>8
  <2>3. ASSUME NEW k \in 1..Len(pend)
        PROVE  pend[k].depth \in 1..(Len(b.stack) - 1)
    <3>1. k \in 1..Len(pending) /\ pend[k] = pending[k]
      BY <1>6, <2>2
    <3>2. pending[k].depth \in 1..Len(b.stack)
      BY <3>1, <1>3 DEF PendingOK
    <3>3. pending[k].depth # Len(b.stack)
      <4>1. CASE k = Len(pending)
        <5>1. ~ own
          BY <1>6, <1>7, <2>2, <4>1
        <5>2. QED
          BY <1>6, <1>9, <3>1, <4>1, <5>1
      <4>2. CASE k # Len(pending)
        <5> DEFINE m == Len(pending)
        <5>1. m \in 1..Len(pending) /\ k < m
          BY <1>6, <3>1, <4>2
        <5> HIDE DEF m
        <5>2. pending[k].depth < pending[m].depth /\ pending[m].depth \in 1..Len(b.stack)
          BY <1>3, <3>1, <5>1 DEF PendingOK
        <5>3. QED
          BY <1>4, <3>2, <5>2
      <4>3. QED
        BY <4>1, <4>2
    <3>4. QED
      BY <1>4, <3>1, <3>2, <3>3
  <2>4. ASSUME NEW k \in 1..Len(pend), NEW m \in 1..Len(pend), k < m
        PROVE  pend[k].depth < pend[m].depth
    <3>1. /\ k \in 1..Len(pending) /\ pend[k] = pending[k]
          /\ m \in 1..Len(pending) /\ pend[m] = pending[m]
      BY <1>6, <2>2
    <3>2. pending[k].depth < pending[m].depth
      BY <2>4, <3>1, <1>3 DEF PendingOK
    <3>3. QED
      BY <3>1, <3>2
  <2>5. QED
    BY <2>3, <2>4 DEF PendingOK
<1>12. tag = "Start" <=> Len(b.stack) = 1
  <2> DEFINE d == Len(b.stack)
  <2>1. \A m \in 1..d : b.stack[m].tag = "Start" <=> m = 1
    BY <1>3 DEF ScopesOK
  <2>2. d \in 1..d
    BY <1>4
  <2>3. tag = b.stack[d].tag
    BY DEF tag, Last
  <2> HIDE DEF d
  <2>4. tag = "Start" <=> d = 1
    BY <2>1, <2>2, <2>3, Zenon
  <2>5. QED
    BY <2>4 DEF d
<1>13. /\ x \in Builders /\ Len(x.stack) = Len(b.stack) - 1
       /\ Len(b.stack) >= 2 => ScopesOK(x)
  BY <1>3, CloseScopeFacts DEF x
<1>14. pending' = pend
  BY DEF ScopeEnd, pend, own
<1>15. Rest
  BY <1>1, <1>10, <1>14, Here DEF Rest
<1>16. tag # "Start" => ScopesOK(x) /\ PendingOK(pending', Len(x.stack))
  <2>1. SUFFICES ASSUME tag # "Start"
                 PROVE  ScopesOK(x) /\ PendingOK(pending', Len(x.stack))
    OBVIOUS
  <2>2. Len(b.stack) # 1
    BY <1>12, <2>1
  <2>3. Len(b.stack) >= 2
    <3> DEFINE d == Len(b.stack)
    <3>1. d \in Nat /\ d >= 1 /\ d # 1
      BY <1>4, <2>2
    <3> HIDE DEF d
    <3>2. d >= 2
      BY <3>1
    <3>3. QED
      BY <3>2 DEF d
  <2>4. Len(b.stack) - 1 = Len(x.stack)
    BY <1>13
  <2>5. QED
    BY <1>11, <1>13, <1>14, <2>3, <2>4
<1>17. CASE Fail
  BY <1>15, <1>17, FailStep DEF Fail, Final
<1>18. CASE Goto("Success", x, N) /\ UNCHANGED dedent
  <2>1. pc' = "Success" /\ b' = x /\ i' = N
    BY <1>18 DEF Goto
  <2>2. i' \in 1..N
    BY <1>2, <2>1
  <2>3. QED
    BY <1>2, <1>13, <1>15, <1>18, <2>1, <2>2, FinalStep DEF Final
<1>19. CASE tag # "Start" /\ Goto("ScopeEnd", x, i) /\ UNCHANGED dedent
  <2>1. pc' = "ScopeEnd" /\ b' = x /\ i' = i
    BY <1>19 DEF Goto
  <2>2. QED
    BY <1>2, <1>15, <1>16, <1>19, <2>1, PlainStep DEF Plain
<1>20. CASE tag # "Start" /\ Follow(e, x, arms)
  <2>1. e.at \in 1..N /\ e.ws \in Nat
    <3>1. CASE Tok(i) = "NL"
      BY <1>2, <3>1, EolFacts
    <3>2. CASE Tok(i) # "NL"
      BY <1>2, <3>2 DEF Cascade
    <3>3. QED
      BY <3>1, <3>2
  <2>2. \A a \in DOMAIN arms : arms[a] \in Plain
    BY DEF Plain
  <2> HIDE DEF e, arms
  <2>3. QED
    BY <1>15, <1>16, <1>20, <2>1, <2>2, FollowStep
<1>21. QED
  <2>1. \/ Fail
        \/ tag = "Start" /\ Goto("Success", x, N) /\ UNCHANGED dedent
        \/ tag = "Array" /\ Goto("ScopeEnd", x, i) /\ UNCHANGED dedent
        \/ tag \in {"Object", "Array"} /\ Follow(e, x, arms)
    BY DEF ScopeEnd, x, pend, own, tag
  <2>2. QED
    BY <1>17, <1>18, <1>19, <1>20, <2>1

(* Steps that change nothing: the parser has returned.                     *)
LEMMA StutterStep ==
  ASSUME IndInv, UNCHANGED vars
  PROVE  NextGood
<1>1. UNCHANGED <<toks, i, pc, hdr, left, cell, b, pending, dedent, mem, lapses>>
  BY DEF vars
<1>2. TypeOK /\ Good(pc, hdr, left, cell, b, pending)
  BY DEF IndInv
<1>3. QED
  BY <1>1, <1>2 DEF NextGood, TypeOK, PendingCounts

(* The initial states satisfy the invariant.                               *)
LEMMA InitEstablishes ==
  ASSUME Init
  PROVE  IndInv
<1>1. toks \in Document
  BY ConstantsAssumption DEF Init
<1>2. N \in Nat /\ N >= 1
  BY <1>1, DocumentFacts
<1>3. /\ i = 1 /\ pc = "Start" /\ hdr = NoHeader /\ left = 0 /\ cell = 0 /\ b = NoTape
      /\ pending = << >> /\ dedent = 0 /\ lapses = {}
      /\ mem = [cap |-> Max({4, N + N \div 5}), slack |-> N \div 5]
  BY DEF Init
<1>4. HeaderOK(NoHeader) /\ NoHeader.lo = 0
  BY NoHeaderOK DEF NoHeader, Header
<1>5. NoTape \in Builders
  BY DEF NoTape, Builders
<1>6. mem \in [cap : Nat, slack : Nat]
  <2> DEFINE slack == N \div 5
             total == N + slack
  <2>1. slack \in Nat
    BY <1>2
  <2> HIDE DEF slack
  <2>2. total \in Nat
    BY <1>2, <2>1
  <2> HIDE DEF total
  <2>3. Max({4, total}) \in Nat
    BY <2>2, MaxOfTwo
  <2>4. mem = [cap |-> Max({4, total}), slack |-> slack]
    BY <1>3 DEF slack, total
  <2>5. QED
    BY <2>1, <2>3, <2>4
<1>7. i \in 1..N
  BY <1>2, <1>3
<1>8. pending \in Seq([depth : Nat \ {0}, n : Nat])
  BY <1>3
<1>9. TypeOK
  BY <1>1, <1>3, <1>4, <1>5, <1>6, <1>7, <1>8 DEF TypeOK, States, HeaderOK
<1>10. Good(pc, hdr, left, cell, b, pending)
  BY <1>3, <1>4 DEF Good
<1>11. QED
  BY <1>9, <1>10 DEF IndInv

(* Every step of stage 2 preserves the invariant.                          *)
LEMMA NextPreserves ==
  ASSUME IndInv, [Next]_vars
  PROVE  IndInv'
<1>1. CASE Start
  BY <1>1, StartStep, NextGoodSuffices DEF IndInv
<1>2. CASE ParseHeader
  BY <1>2, ParseHeaderStep, NextGoodSuffices DEF IndInv
<1>3. CASE ParseSimpleObjectValue
  BY <1>3, ParseSimpleObjectValueStep, NextGoodSuffices DEF IndInv
<1>4. CASE ParseEmptyArray
  BY <1>4, ParseEmptyArrayStep, NextGoodSuffices DEF IndInv
<1>5. CASE ParseInlineArray
  BY <1>5, ParseInlineArrayStep, NextGoodSuffices DEF IndInv
<1>6. CASE Element
  BY <1>6, ElementStep, NextGoodSuffices DEF IndInv
<1>7. CASE ParseBlockArray
  BY <1>7, ParseBlockArrayStep, NextGoodSuffices DEF IndInv
<1>8. CASE ExpectBlockArrayItem
  BY <1>8, ExpectBlockArrayItemStep, NextGoodSuffices DEF IndInv
<1>9. CASE ParseTabularObjects
  BY <1>9, ParseTabularObjectsStep, NextGoodSuffices DEF IndInv
<1>10. CASE ParseTabularArrayStrict
  BY <1>10, ParseTabularArrayStrictStep, NextGoodSuffices DEF IndInv
<1>11. CASE ParseTabularArrayLenient
  BY <1>11, ParseTabularArrayLenientStep, NextGoodSuffices DEF IndInv
<1>12. CASE ParseNestedFieldGroupsArrayStrict
  BY <1>12, ParseNestedFieldGroupsArrayStrictStep, NextGoodSuffices DEF IndInv
<1>13. CASE Row
  BY <1>13, RowStep, NextGoodSuffices DEF IndInv
<1>14. CASE Cell
  BY <1>14, CellStep, NextGoodSuffices DEF IndInv
<1>15. CASE EndRow
  BY <1>15, EndRowStep, NextGoodSuffices DEF IndInv
<1>16. CASE ScopeEnd
  BY <1>16, ScopeEndStep, NextGoodSuffices DEF IndInv
<1>17. CASE Return
  <2>1. UNCHANGED vars
    BY <1>17 DEF Return
  <2>2. QED
    BY <2>1, StutterStep, NextGoodSuffices DEF IndInv
<1>18. CASE UNCHANGED vars
  BY <1>18, StutterStep, NextGoodSuffices DEF IndInv
<1>19. QED
  BY <1>1, <1>2, <1>3, <1>4, <1>5, <1>6, <1>7, <1>8, <1>9, <1>10, <1>11, <1>12,
     <1>13, <1>14, <1>15, <1>16, <1>17, <1>18 DEF Next

(* The inductive invariant: in every state of build_tape, on every         *)
(* document, the scopes are those that the field list and the pending      *)
(* counts say, and each State finds the header it relies on.               *)
THEOREM Inductive == Spec => []IndInv
<1>1. Init => IndInv
  BY InitEstablishes
<1>2. IndInv /\ [Next]_vars => IndInv'
  BY NextPreserves
<1>3. QED
  BY <1>1, <1>2, PTL DEF Spec

(* While the document is read the invariant speaks of all the scopes.      *)
LEMMA RunningScopes ==
  ASSUME IndInv, Running
  PROVE  /\ ScopesOK(b) /\ Len(b.stack) \in Nat
         /\ Base(pc, hdr, cell, b) \in Int /\ Base(pc, hdr, cell, b) >= 1
         /\ Base(pc, hdr, cell, b) <= Len(b.stack)
         /\ PendingOK(pending, Base(pc, hdr, cell, b))
<1>1. pc \notin Final \cup {"Start"}
  BY DEF Running, Done, Final
<1>2. /\ ScopesOK(b) /\ Base(pc, hdr, cell, b) >= 1
      /\ PendingOK(pending, Base(pc, hdr, cell, b))
  BY <1>1, Here
<1>3. Len(b.stack) \in Nat
  BY <1>2, ScopesFacts
<1>4. Base(pc, hdr, cell, b) \in Int /\ Base(pc, hdr, cell, b) <= Len(b.stack)
  <2>1. CASE pc = "Cell"
    <3>1. hdr.lo # 0 /\ cell \in (hdr.lo + 1)..hdr.hi
      BY <2>1 DEF IndInv, Good
    <3>2. toks \in Document /\ hdr.delim \in Delims /\ FieldList(hdr.lo, hdr.hi)
      BY <3>1, Here
    <3>3. Level(hdr.lo, cell - 1) \in Int /\ Level(hdr.lo, cell - 1) >= 1
      BY <3>1, <3>2, LevelAt
    <3>4. Base(pc, hdr, cell, b) = Len(b.stack) - Level(hdr.lo, cell - 1)
      BY <2>1 DEF Base
    <3>5. QED
      BY <1>3, <3>3, <3>4
  <2>2. CASE pc = "EndRow"
    <3>1. Base(pc, hdr, cell, b) = Len(b.stack) - 1
      BY <2>2 DEF Base
    <3>2. QED
      BY <1>3, <3>1
  <2>3. CASE pc \notin {"Cell", "EndRow"}
    <3>1. Base(pc, hdr, cell, b) = Len(b.stack)
      BY <1>2, <2>3, BaseOutsideRows
    <3>2. QED
      BY <1>3, <3>1
  <2>4. QED
    BY <2>1, <2>2, <2>3
<1>5. QED
  BY <1>2, <1>3, <1>4

(* Every state of stage 2 has the variables it should have, whatever the   *)
(* documents and the options.                                              *)
THEOREM TypeCorrect == Spec => []TypeOK
<1>1. IndInv => TypeOK
  BY DEF IndInv
<1>2. QED
  BY <1>1, Inductive, PTL

(* The backfill of a scope's container, at the end of ScopeEnd and in      *)
(* close_and_pop_state!, never hits anything but a container, on every     *)
(* document.                                                               *)
THEOREM BackfillsContainers == Spec => []BackfillHitsContainer
<1>1. IndInv => BackfillHitsContainer
  BY RunningScopes DEF BackfillHitsContainer, ScopesOK, Depth
<1>2. QED
  BY <1>1, Inductive, PTL

(* content_ws_stack[d - 1] in get_eol_state! is never out of bounds, and   *)
(* a declared length is only compared with the count of its own array.     *)
THEOREM PendingBelongsToScopes == Spec => []PendingWithinScopes
<1>1. ASSUME IndInv, Running
      PROVE  /\ \A k \in 1..Len(pending) : pending[k].depth \in 1..Len(b.stack)
             /\ \A k \in 1..(Len(pending) - 1) : pending[k].depth < pending[k + 1].depth
             /\ Len(b.indents) >= Len(b.stack)
  <2>1. PendingOK(pending, Len(b.stack)) /\ Len(b.indents) >= Len(b.stack)
    BY <1>1, RunningScopes, PendingGrows DEF ScopesOK
  <2>2. Len(pending) \in Nat
    <3>1. pending \in PendingCounts
      BY <1>1, Here
    <3>2. QED
      BY <3>1 DEF PendingCounts
  <2>3. ASSUME NEW k \in 1..(Len(pending) - 1)
        PROVE  pending[k].depth < pending[k + 1].depth
    <3> DEFINE m == k + 1
    <3>1. k \in 1..Len(pending) /\ m \in 1..Len(pending) /\ k < m
      BY <2>2
    <3> HIDE DEF m
    <3>2. pending[k].depth < pending[m].depth
      BY <2>1, <3>1 DEF PendingOK
    <3>3. QED
      BY <3>2 DEF m
  <2>4. QED
    BY <2>1, <2>3 DEF PendingOK
<1>2. IndInv => PendingWithinScopes
  BY <1>1 DEF PendingWithinScopes, Depth
<1>3. QED
  BY <1>2, Inductive, PTL
=============================================================================

---------------------------- MODULE Stage1Proofs ----------------------------
(***************************************************************************)
(* Proofs about stage 1, for every text and every size of a block.         *)
(***************************************************************************)
EXTENDS Stage1Properties, FiniteSetTheorems, SequenceTheorems, WellFoundedInduction,
        TLAPS

-----------------------------------------------------------------------------
(* Numbers. *)

(* A set of naturals that is not empty has a least element. *)
LEMMA LeastOf ==
  ASSUME NEW S, S \subseteq Nat, S # {}
  PROVE  \E x \in S : \A y \in S : x <= y
<1>1. IsWellFoundedOn(OpToRel(<, Nat), Nat)
  BY NatLessThanWellFounded
<1>2. PICK x \in S : \A y \in S : ~ (<<y, x>> \in OpToRel(<, Nat))
  BY <1>1, WFMin
<1>3. ASSUME NEW y \in S PROVE x <= y
  <2>1. ~ (<<y, x>> \in OpToRel(<, Nat))
    BY <1>2
  <2>2. ~ (y < x)
    BY <2>1 DEF OpToRel
  <2>3. QED
    BY <2>2
<1>4. QED
  BY <1>3

(* A bounded one has a greatest, and Max picks it. *)
LEMMA MaxOf ==
  ASSUME NEW S, S \subseteq Nat, S # {}, NEW bound \in Nat, \A x \in S : x <= bound
  PROVE  Max(S) \in S /\ \A y \in S : y <= Max(S)
<1> DEFINE T == {bound - x : x \in S}
<1>1. T \subseteq Nat /\ T # {}
  <2>1. \A x \in S : x \in Nat /\ bound - x \in Nat
    OBVIOUS
  <2>2. QED
    BY <2>1
<1>2. PICK t \in T : \A u \in T : t <= u
  BY <1>1, LeastOf
<1>3. PICK x \in S : t = bound - x
  OBVIOUS
<1>4. ASSUME NEW y \in S PROVE x >= y
  <2>1. bound - y \in T
    OBVIOUS
  <2>2. QED
    BY <2>1, <1>2, <1>3
<1>5. QED
  BY <1>3, <1>4 DEF Max

(* The last line end of the longest text still has its own offset. *)
LEMMA Remainders ==
  ASSUME NEW m \in Nat \ {0}, NEW x \in Int
  PROVE  /\ x \in 0..m - 1 => x % m = x
         /\ x \in - m..-1 => x % m = x + m
         /\ x = m => x % m = 0
  OBVIOUS

LEMMA Multiples ==
  ASSUME NEW m \in Nat \ {0}, NEW x \in Nat, x % m = 0, NEW y \in Nat, y % m = 0
  PROVE  /\ (x + m) % m = 0
         /\ x < y + m => x <= y
         /\ x > 0 => m <= x
         /\ \A b \in 0..m - 1 : (x + b) \div m = x \div m
         /\ \A k \in Nat : k < x => k \div m < x \div m
<1>1. PICK p \in Nat : x = p * m /\ p = x \div m
  OBVIOUS
<1>2. PICK q \in Nat : y = q * m
  OBVIOUS
<1>3. (x + m) % m = 0
  <2>1. PICK r \in Int : r = (x + m) % m /\ 0 <= r /\ r < m /\ x + m = ((x + m) \div m) * m + r
    OBVIOUS
  <2>2. PICK c \in Int : c = (x + m) \div m
    OBVIOUS
  <2>3. (c - p - 1) * m + r = 0
    BY <1>1, <2>1, <2>2
  <2>4. c - p - 1 = 0
    BY <2>1, <2>3
  <2>5. QED
    BY <2>1, <2>3, <2>4
<1>4. ASSUME x < y + m PROVE x <= y
  <2>1. p * m < (q + 1) * m
    BY <1>1, <1>2, <1>4
  <2>2. p < q + 1
    BY <2>1
  <2>3. p <= q
    BY <2>2
  <2>4. QED
    BY <2>3, <1>1, <1>2
<1>5. x > 0 => m <= x
  BY <1>1
<1>6. ASSUME NEW b \in 0..m - 1 PROVE (x + b) \div m = x \div m
  BY <1>1
<1>7. ASSUME NEW k \in Nat, k < x PROVE k \div m < x \div m
  <2>1. PICK c \in Int : c = k \div m /\ c * m <= k
    OBVIOUS
  <2>2. c * m < p * m
    BY <1>1, <1>7, <2>1
  <2>3. c < p
    BY <2>2
  <2>4. QED
    BY <2>1, <2>3, <1>1
<1>8. QED
  BY <1>3, <1>4, <1>5, <1>6, <1>7

-----------------------------------------------------------------------------
(* The constants. *)

LEMMA Blocks ==
  /\ BlockSize \in Nat \ {0} /\ BlockSize >= 2
  /\ Bit = 0..BlockSize - 1 /\ LastBit \in Bit /\ LastBit = BlockSize - 1
  /\ \A b \in Bit : b \in Nat /\ b < BlockSize
  /\ MaxLength \in Nat /\ BlockSize <= MaxLength + 1
<1>1. BlockSize \in Nat \ {0} /\ BlockSize >= 2
  BY BlockSizeAssumption
<1>2. MaxLength \in Nat /\ BlockSize <= MaxLength + 1
  BY <1>1, MaxLengthAssumption, Multiples
<1>3. QED
  BY <1>1, <1>2 DEF Bit, LastBit

LEMMA Texts ==
  ASSUME NEW t \in Inputs \cup Later
  PROVE  /\ Length(t) \in Nat /\ DOMAIN t = 0..Length(t) - 1
         /\ t \in [DOMAIN t -> Byte] /\ \A k \in DOMAIN t : t[k] \in Byte
BY TextAssumption, FS_CardinalityType DEF Length

-----------------------------------------------------------------------------
(* Sequences. *)

LEMMA SeqOfOther ==
  ASSUME NEW S, NEW T, NEW seq \in Seq(S), \A n \in 1..Len(seq) : seq[n] \in T
  PROVE  seq \in Seq(T)
<1>1. Len(seq) \in Nat /\ seq \in [1..Len(seq) -> S]
  BY LenProperties
<1>2. seq \in [1..Len(seq) -> T]
  BY <1>1
<1>3. QED
  BY <1>1, <1>2

(* The front of a list is as ascending as the list. *)
LEMMA Front ==
  ASSUME NEW S, NEW seq \in Seq(S), NEW c \in Nat, c <= Len(seq)
  PROVE  LET front == SubSeq(seq, 1, Len(seq) - c)
         IN  /\ front \in Seq(S) /\ Len(front) = Len(seq) - c
             /\ \A n \in 1..Len(front) : front[n] = seq[n] /\ n \in 1..Len(seq)
             /\ Ascending(seq) => Ascending(front)
<1> DEFINE front == SubSeq(seq, 1, Len(seq) - c)
<1>1. /\ front \in Seq(S) /\ Len(front) = Len(seq) - c /\ Len(seq) \in Nat
      /\ \A n \in 1..Len(front) : front[n] = seq[n]
  BY LenProperties, SubSeqProperties
<1> HIDE DEF front
<1>2. \A n \in 1..Len(front) : n \in 1..Len(seq)
  BY <1>1
<1>3. Ascending(seq) => Ascending(front)
  BY <1>1, <1>2 DEF Ascending
<1>4. QED
  BY <1>1, <1>2, <1>3 DEF front

-----------------------------------------------------------------------------
(* Masks as lists of offsets. *)

(* Every rank below the size of a set of bits is the rank of one of them,  *)
(* and ranks grow with the bits.                                           *)
LEMMA Ranks ==
  ASSUME NEW m, m \subseteq Bit
  PROVE  /\ IsFiniteSet(m) /\ Cardinality(m) \in Nat
         /\ \A b \in m : Cardinality({c \in m : c < b}) \in 0..Cardinality(m) - 1
         /\ \A b, c \in m : b < c => Cardinality({d \in m : d < b}) < Cardinality({d \in m : d < c})
         /\ \A n \in 0..Cardinality(m) - 1 : \E b \in m : Cardinality({c \in m : c < b}) = n
<1> DEFINE below(b) == {c \in m : c < b}
           rank == [b \in m |-> Cardinality(below(b))]
           ranks == 0..Cardinality(m) - 1
<1>1. IsFiniteSet(m) /\ Cardinality(m) \in Nat
  <2>1. IsFiniteSet(Bit)
    BY Blocks, FS_Interval
  <2>2. QED
    BY <2>1, FS_Subset, FS_CardinalityType
<1>2. \A b \in m : IsFiniteSet(below(b)) /\ Cardinality(below(b)) \in Nat
  BY <1>1, FS_Subset, FS_CardinalityType
<1>3. \A b \in m : b \in Int
  BY Blocks
<1>4. ASSUME NEW S \in SUBSET m, NEW T \in SUBSET S, NEW x \in S, x \notin T
      PROVE  Cardinality(T) < Cardinality(S)
  <2>1. IsFiniteSet(S) /\ IsFiniteSet(T) /\ Cardinality(S) \in Nat /\ Cardinality(T) \in Nat
    BY <1>1, FS_Subset, FS_CardinalityType
  <2>2. Cardinality(T) <= Cardinality(S) /\ (Cardinality(S) = Cardinality(T) => S = T)
    BY <2>1, FS_Subset
  <2>3. QED
    BY <2>1, <2>2, <1>4
<1>5. ASSUME NEW b \in m PROVE Cardinality(below(b)) < Cardinality(m)
  <2>1. below(b) \in SUBSET m /\ b \notin below(b)
    BY <1>3
  <2>2. QED
    BY <2>1, <1>4
<1>6. ASSUME NEW b \in m, NEW c \in m, b < c
      PROVE  Cardinality(below(b)) < Cardinality(below(c))
  <2>1. below(c) \in SUBSET m /\ below(b) \in SUBSET below(c)
    BY <1>3, <1>6
  <2>2. b \in below(c) /\ b \notin below(b)
    BY <1>3, <1>6
  <2>3. QED
    BY <2>1, <2>2, <1>4
<1> HIDE DEF below
<1>7. rank \in [m -> ranks]
  BY <1>1, <1>2, <1>5
<1>8. rank \in Injection(m, ranks)
  <2>1. ASSUME NEW b \in m, NEW c \in m, rank[b] = rank[c] PROVE b = c
    <3>1. ~ (b < c) /\ ~ (c < b)
      BY <1>2, <1>6, <2>1
    <3>2. QED
      BY <1>3, <3>1
  <2>2. QED
    BY <1>7, <2>1 DEF Injection, IsInjective
<1>9. IsFiniteSet(ranks) /\ Cardinality(ranks) = Cardinality(m)
  BY <1>1, FS_Interval
<1>10. rank \in Surjection(m, ranks)
  BY <1>8, <1>9, FS_Injection
<1>11. ASSUME NEW n \in ranks PROVE \E b \in m : Cardinality(below(b)) = n
  BY <1>10, <1>11 DEF Surjection
<1>12. /\ \A b \in m : Cardinality(below(b)) \in 0..Cardinality(m) - 1
       /\ \A b, c \in m : b < c => Cardinality(below(b)) < Cardinality(below(c))
       /\ \A n \in 0..Cardinality(m) - 1 : \E b \in m : Cardinality(below(b)) = n
  BY <1>1, <1>2, <1>5, <1>6, <1>11
<1>13. QED
  BY <1>1, <1>12 DEF below

(* Flattened lists the bits of a block as offsets in ascending order: they *)
(* fit in a u32 even behind the last block of the longest texts.           *)
LEMMA FlattenedLists ==
  ASSUME NEW m, m \subseteq Bit, NEW next \in Nat, next % BlockSize = 0,
         next <= MaxLength + 1, m # {} => next > 0
  PROVE  LET list == Flattened(m, next)
         IN  /\ list \in Seq(Nat)
             /\ \A n \in 1..Len(list) : \E b \in m : list[n] = next - BlockSize + b
             /\ \A b \in m : \E n \in 1..Len(list) : list[n] = next - BlockSize + b
             /\ Ascending(list)
<1> DEFINE below(b) == Cardinality({c \in m : c < b})
           bit(n) == CHOOSE b \in m : below(b) = n - 1
           list == Flattened(m, next)
           L == Cardinality(m)
<1>1. /\ L \in Nat
      /\ \A b \in m : below(b) \in 0..L - 1
      /\ \A b, c \in m : b < c => below(b) < below(c)
      /\ \A n \in 0..L - 1 : \E b \in m : below(b) = n
  BY Ranks
<1>2. \A b \in m : b \in Nat /\ b < BlockSize
  BY Blocks
<1> HIDE DEF below, L
<1>3. ASSUME NEW n \in 1..L PROVE bit(n) \in m /\ below(bit(n)) = n - 1
  <2>1. n - 1 \in 0..L - 1
    BY <1>1
  <2>2. QED
    BY <2>1, <1>1
<1>4. ASSUME NEW b \in m PROVE below(b) + 1 \in 1..L /\ bit(below(b) + 1) = b
  <2>1. below(b) + 1 \in 1..L /\ (below(b) + 1) - 1 = below(b)
    BY <1>1
  <2>2. PICK c : c = bit(below(b) + 1)
    OBVIOUS
  <2>3. c \in m /\ below(c) = below(b)
    BY <2>1, <2>2, <1>3
  <2>4. ~ (b < c) /\ ~ (c < b)
    BY <2>1, <2>3, <1>1
  <2>5. QED
    BY <2>1, <2>2, <2>3, <2>4, <1>2
<1>5. ASSUME NEW n \in 1..L, NEW o \in 1..L, n < o PROVE bit(n) < bit(o)
  <2>1. PICK b \in m, c \in m : b = bit(n) /\ c = bit(o) /\ below(b) = n - 1 /\ below(c) = o - 1
    BY <1>3
  <2>2. ~ (c < b) /\ b # c
    BY <1>1, <1>5, <2>1
  <2>3. QED
    BY <1>2, <2>1, <2>2
<1>6. list = [n \in 1..L |-> ((next % (MaxLength + 1)) - BlockSize + bit(n)) % (MaxLength + 1)]
  BY DEF Flattened, L, below
<1> HIDE DEF bit, list
<1>7. ASSUME NEW b \in m
      PROVE  ((next % (MaxLength + 1)) - BlockSize + b) % (MaxLength + 1) = next - BlockSize + b
  <2>1. BlockSize <= next
    BY Blocks, Multiples
  <2>2. MaxLength + 1 \in Nat \ {0} /\ BlockSize \in Nat /\ BlockSize <= MaxLength + 1
    BY Blocks
  <2>3. CASE next = MaxLength + 1
    <3>1. next % (MaxLength + 1) = 0
      BY <2>2, <2>3, Remainders
    <3>2. 0 - BlockSize + b \in - (MaxLength + 1)..-1
      BY <2>2, <1>2
    <3>3. (0 - BlockSize + b) % (MaxLength + 1) = 0 - BlockSize + b + (MaxLength + 1)
      BY <2>2, <3>2, Remainders
    <3>4. QED
      BY <2>2, <2>3, <3>1, <3>3, <1>2
  <2>4. CASE next # MaxLength + 1
    <3>1. next % (MaxLength + 1) = next
      BY <2>2, <2>4, Remainders
    <3>2. next - BlockSize + b \in 0..(MaxLength + 1) - 1
      BY <2>1, <2>2, <2>4, <1>2
    <3>3. QED
      BY <2>2, <3>1, <3>2, Remainders
  <2>5. QED
    BY <2>3, <2>4
<1>8. ASSUME NEW b \in m PROVE next - BlockSize + b \in Nat
  <2>1. BlockSize <= next
    BY Blocks, Multiples
  <2>2. QED
    BY <2>1, <1>2, Blocks
<1>9. \A n \in 1..L : list[n] = next - BlockSize + bit(n)
  BY <1>3, <1>6, <1>7
<1>10. list \in Seq(Nat) /\ Len(list) = L
  <2>1. list \in [1..L -> Nat]
    BY <1>3, <1>6, <1>8, <1>9
  <2>2. QED
    BY <2>1, <1>1
<1>11. Ascending(list)
  <2>1. ASSUME NEW n \in 1..L, NEW o \in 1..L, n < o PROVE list[n] < list[o]
    <3>1. bit(n) < bit(o) /\ bit(n) \in Nat /\ bit(o) \in Nat
      BY <1>2, <1>3, <1>5, <2>1
    <3>2. QED
      BY <3>1, <1>9, Blocks
  <2>2. QED
    BY <2>1, <1>10 DEF Ascending
<1>12. QED
  BY <1>3, <1>4, <1>9, <1>10, <1>11 DEF list

-----------------------------------------------------------------------------
(* One block: the parts of Scanned, by name. *)

Raw       == Block(input, idx)
Newlines  == Find(Raw, {"NL"})
Spaces    == Find(Raw, {Space})
Emitted   == indexes \o Flattened(structurals, idx)
Opening   == Openers(Spaces, Newlines, Find(Raw, {"#"}))
Blanked   == Body(Opening, Newlines) \cup NewlinesBefore(Opening, Newlines)
Earlier   == EarlierNewline(Opening, Newlines, Emitted)
Text      == Blank(input, {idx + b : b \in Blanked} \cup Earlier)
Cleaned   == Block(Text, idx)
Structure == Find(Raw, Structural) \ Blanked
White     == Spaces \cup Blanked
Quotes    == QuoteBits(Cleaned)
Mask      == QuoteMask(Quotes)

LEMMA ScanBlockParts ==
  ASSUME ScanBlock
  PROVE  /\ input' = Text
         /\ indexes' = SubSeq(Emitted, 1, Len(Emitted) - Cardinality(Earlier))
         /\ structurals' = FinalizeStructurals(Structure, White, Mask, Quotes) \ Blanked
         /\ carry' = [odd     |-> OddCarries(Cleaned).overflow,
                      quote   |-> LastBit \in Mask,
                      pred    |-> LastBit \in PseudoPred(Structure, White, Mask, Quotes),
                      indent  |-> InsideIndent(Spaces, Newlines),
                      comment |-> CommentBody(Opening, Newlines).overflow]
         /\ invalid' = (invalid \/ Mask \cap Find(Cleaned, Control) # {})
         /\ broken' = (broken \/ "bad" \in {Raw[b] : b \in Bit})
         /\ idx' = idx + BlockSize
         /\ source' = source /\ buffer' = buffer /\ result' = result
<1>1. Scanned =
        [input       |-> Text,
         indexes     |-> SubSeq(Emitted, 1, Len(Emitted) - Cardinality(Earlier)),
         structurals |-> FinalizeStructurals(Structure, White, Mask, Quotes) \ Blanked,
         carry       |-> [odd     |-> OddCarries(Cleaned).overflow,
                          quote   |-> LastBit \in Mask,
                          pred    |-> LastBit \in PseudoPred(Structure, White, Mask, Quotes),
                          indent  |-> InsideIndent(Spaces, Newlines),
                          comment |-> CommentBody(Opening, Newlines).overflow],
         invalid     |-> Mask \cap Find(Cleaned, Control) # {},
         broken      |-> "bad" \in {Raw[b] : b \in Bit}]
  BY DEF Scanned, Raw, Newlines, Spaces, Emitted, Opening, Blanked, Earlier, Text, Cleaned,
         Structure, White, Quotes, Mask
<1>2. PICK new \in {Scanned} :
         /\ input' = new.input
         /\ indexes' = new.indexes
         /\ structurals' = new.structurals
         /\ carry' = new.carry
         /\ invalid' = (invalid \/ new.invalid)
         /\ broken' = (broken \/ new.broken)
         /\ idx' = idx + BlockSize
         /\ UNCHANGED <<source, buffer, result>>
  BY DEF ScanBlock
<1>3. /\ new.input = Text
      /\ new.indexes = SubSeq(Emitted, 1, Len(Emitted) - Cardinality(Earlier))
      /\ new.structurals = FinalizeStructurals(Structure, White, Mask, Quotes) \ Blanked
      /\ new.carry = [odd     |-> OddCarries(Cleaned).overflow,
                      quote   |-> LastBit \in Mask,
                      pred    |-> LastBit \in PseudoPred(Structure, White, Mask, Quotes),
                      indent  |-> InsideIndent(Spaces, Newlines),
                      comment |-> CommentBody(Opening, Newlines).overflow]
      /\ new.invalid = (Mask \cap Find(Cleaned, Control) # {})
      /\ new.broken = ("bad" \in {Raw[b] : b \in Bit})
  BY <1>1, <1>2
<1>4. QED
  BY <1>2, <1>3

(* What was found so far, as a list. *)
LEMMA EmittedList ==
  ASSUME TypeOK, OrderInv, result = "scanning"
  PROVE  /\ Emitted \in Seq(Nat)
         /\ \A n \in 1..Len(Emitted) : Emitted[n] < idx /\ Emitted[n] < Length(source)
         /\ Ascending(Emitted)
         /\ Found = {Emitted[n] : n \in 1..Len(Emitted)}
<1> DEFINE list == Flattened(structurals, idx)
<1>1. /\ idx \in Nat /\ idx % BlockSize = 0 /\ structurals \subseteq Bit
      /\ indexes \in Seq(Nat)
      /\ source \in Inputs \cup Later
  <2>1. 0..Length(source) \subseteq Nat
    OBVIOUS
  <2>2. indexes \in Seq(0..Length(source))
    BY DEF TypeOK
  <2>3. indexes \in Seq(Nat)
    BY <2>1, <2>2, SeqOfOther, ElementOfSeq
  <2>4. QED
    BY <2>3 DEF TypeOK
<1>2. Length(source) \in Nat /\ DOMAIN source = 0..Length(source) - 1
  BY <1>1, Texts
<1>3. idx <= MaxLength + 1
  <2>1. MaxLength + 1 \in Nat /\ (MaxLength + 1) % BlockSize = 0 /\ idx < (MaxLength + 1) + BlockSize
    BY <1>1, <1>2, MaxLengthAssumption, Blocks DEF OrderInv
  <2>2. QED
    BY <1>1, <2>1, Blocks, Multiples
<1>4. \A b \in structurals : b \in Nat /\ b < BlockSize /\ idx - BlockSize + b \in 0..Length(source) - 1
  BY <1>1, <1>2, Blocks DEF OrderInv
<1>5. structurals # {} => idx > 0
  <2>1. ASSUME NEW b \in structurals PROVE idx > 0
    BY <1>1, <1>4, <2>1, Blocks
  <2>2. QED
    BY <2>1
<1>6. /\ list \in Seq(Nat)
      /\ \A n \in 1..Len(list) : \E b \in structurals : list[n] = idx - BlockSize + b
      /\ \A b \in structurals : \E n \in 1..Len(list) : list[n] = idx - BlockSize + b
      /\ Ascending(list)
  BY <1>1, <1>3, <1>5, FlattenedLists
<1>7. Ascending(indexes) /\ \A n \in 1..Len(indexes) : indexes[n] < idx - BlockSize
  BY DEF OrderInv
<1>8. Emitted = indexes \o list
  BY DEF Emitted
<1> HIDE DEF list
<1>9. \A n \in 1..Len(list) : /\ list[n] \in Nat /\ list[n] >= idx - BlockSize
                              /\ list[n] < idx /\ list[n] < Length(source)
  <2>1. ASSUME NEW n \in 1..Len(list)
        PROVE  /\ list[n] \in Nat /\ list[n] >= idx - BlockSize
               /\ list[n] < idx /\ list[n] < Length(source)
    <3>1. PICK b \in structurals : list[n] = idx - BlockSize + b
      BY <1>6
    <3>2. b \in Nat /\ b < BlockSize /\ idx - BlockSize + b \in 0..Length(source) - 1
      BY <1>4
    <3>3. QED
      BY <3>1, <3>2, <1>1, <1>2, Blocks
  <2>2. QED
    BY <2>1
<1>10. /\ Emitted \in Seq(Nat) /\ Len(Emitted) = Len(indexes) + Len(list)
       /\ \A n \in 1..Len(indexes) : Emitted[n] = indexes[n]
       /\ \A n \in 1..Len(list) : Emitted[Len(indexes) + n] = list[n]
       /\ Len(indexes) \in Nat /\ Len(list) \in Nat
  BY <1>1, <1>6, <1>8
<1>11. ASSUME NEW n \in 1..Len(Emitted)
       PROVE  \/ n \in 1..Len(indexes) /\ Emitted[n] = indexes[n]
              \/ n - Len(indexes) \in 1..Len(list) /\ Emitted[n] = list[n - Len(indexes)]
  <2>1. CASE n <= Len(indexes)
    BY <2>1, <1>10
  <2>2. CASE n > Len(indexes)
    <3>1. n - Len(indexes) \in 1..Len(list) /\ Len(indexes) + (n - Len(indexes)) = n
      BY <2>2, <1>10
    <3>2. QED
      BY <3>1, <1>10
  <2>3. QED
    BY <2>1, <2>2, <1>10
<1>12. ASSUME NEW n \in 1..Len(indexes)
       PROVE  indexes[n] \in Nat /\ indexes[n] < idx /\ indexes[n] < Length(source)
  BY <1>1, <1>2, <1>7, Blocks DEF OrderInv
<1>13. \A n \in 1..Len(Emitted) : Emitted[n] < idx /\ Emitted[n] < Length(source)
  BY <1>9, <1>11, <1>12
<1>14. ASSUME NEW m \in 1..Len(Emitted), NEW n \in 1..Len(Emitted), m < n
       PROVE  Emitted[m] < Emitted[n]
  <2>1. CASE m \in 1..Len(indexes) /\ n \in 1..Len(indexes)
    BY <2>1, <1>7, <1>10, <1>14 DEF Ascending
  <2>2. CASE m \in 1..Len(indexes) /\ n - Len(indexes) \in 1..Len(list)
    <3>1. n \notin 1..Len(indexes)
      BY <2>2, <1>10
    <3>2. Emitted[m] = indexes[m] /\ Emitted[n] = list[n - Len(indexes)]
      BY <2>2, <3>1, <1>10, <1>11
    <3>3. indexes[m] < idx - BlockSize /\ list[n - Len(indexes)] >= idx - BlockSize
      BY <2>2, <1>7, <1>9
    <3>4. indexes[m] \in Nat /\ list[n - Len(indexes)] \in Nat /\ idx - BlockSize \in Int
      BY <2>2, <1>1, <1>9, <1>12, Blocks
    <3>5. QED
      BY <3>2, <3>3, <3>4
  <2>3. CASE m \notin 1..Len(indexes)
    <3>1. m - Len(indexes) \in 1..Len(list) /\ Emitted[m] = list[m - Len(indexes)]
      BY <2>3, <1>11
    <3>2. n \notin 1..Len(indexes)
      BY <3>1, <1>10, <1>14
    <3>3. n - Len(indexes) \in 1..Len(list) /\ Emitted[n] = list[n - Len(indexes)]
      BY <3>2, <1>11
    <3>4. m - Len(indexes) < n - Len(indexes)
      BY <1>10, <1>14
    <3>5. QED
      BY <3>1, <3>3, <3>4, <1>6 DEF Ascending
  <2>4. QED
    BY <2>1, <2>2, <2>3, <1>11
<1>15. Found = {Emitted[n] : n \in 1..Len(Emitted)}
  <2>1. ASSUME NEW k \in Found PROVE \E n \in 1..Len(Emitted) : k = Emitted[n]
    <3>1. CASE \E n \in 1..Len(indexes) : k = indexes[n]
      BY <3>1, <1>10
    <3>2. CASE \E b \in structurals : k = idx - BlockSize + b
      <4>1. PICK n \in 1..Len(list) : k = list[n]
        BY <3>2, <1>6
      <4>2. Len(indexes) + n \in 1..Len(Emitted) /\ Emitted[Len(indexes) + n] = k
        BY <4>1, <1>10
      <4>3. QED
        BY <4>2
    <3>3. QED
      BY <2>1, <3>1, <3>2 DEF Found
  <2>2. ASSUME NEW n \in 1..Len(Emitted) PROVE Emitted[n] \in Found
    BY <1>6, <1>11 DEF Found
  <2>3. QED
    BY <2>1, <2>2
<1>16. QED
  BY <1>10, <1>13, <1>14, <1>15 DEF Ascending

LEMMA Shapes ==
  ASSUME TypeOK
  PROVE  /\ Length(source) \in Nat /\ DOMAIN source = 0..Length(source) - 1
         /\ DOMAIN input = DOMAIN source /\ Length(input) = Length(source)
         /\ idx \in Nat /\ idx % BlockSize = 0
         /\ indexes \in Seq(Nat) /\ Len(indexes) \in Nat
         /\ \A n \in 1..Len(indexes) : indexes[n] \in Nat /\ indexes[n] <= Length(source)
<1>1. source \in Inputs \cup Later /\ DOMAIN input = DOMAIN source
  BY DEF TypeOK
<1>2. Length(source) \in Nat /\ DOMAIN source = 0..Length(source) - 1
  BY <1>1, Texts
<1>3. Length(input) = Length(source)
  BY <1>1 DEF Length
<1>4. indexes \in Seq(0..Length(source))
  BY DEF TypeOK
<1>5. \A n \in 1..Len(indexes) : indexes[n] \in 0..Length(source)
  BY <1>4, ElementOfSeq
<1>6. \A n \in 1..Len(indexes) : indexes[n] \in Nat /\ indexes[n] <= Length(source)
  BY <1>2, <1>5
<1>7. indexes \in Seq(Nat) /\ Len(indexes) \in Nat
  BY <1>4, <1>6, SeqOfOther, LenProperties
<1>8. QED
  BY <1>1, <1>2, <1>3, <1>6, <1>7 DEF TypeOK

(* A line end that goes with a comment of the next block is the last that  *)
(* was found.                                                              *)
LEMMA EarlierIsLast ==
  ASSUME NEW e \in Seq(Nat), NEW openers, NEW newlines
  PROVE  LET earlier == EarlierNewline(openers, newlines, e)
         IN  \/ earlier = {} /\ Cardinality(earlier) = 0
             \/ earlier = {e[Len(e)]} /\ Cardinality(earlier) = 1 /\ Len(e) > 0
<1> DEFINE earlier == EarlierNewline(openers, newlines, e)
<1>1. Len(e) \in Nat /\ (e = << >> <=> Len(e) = 0)
  BY LenProperties, EmptySeq
<1>2. \A k \in earlier : e # << >> /\ k = e[Len(e)]
  BY DEF EarlierNewline
<1> HIDE DEF earlier
<1>3. CASE earlier = {}
  BY <1>3, FS_EmptySet DEF earlier
<1>4. CASE earlier # {}
  <2>1. earlier = {e[Len(e)]} /\ e # << >>
    BY <1>2, <1>4
  <2>2. Cardinality(earlier) = 1
    BY <2>1, FS_Singleton
  <2>3. QED
    BY <1>1, <2>1, <2>2 DEF earlier
<1>5. QED
  BY <1>3, <1>4

(* A block sees the bytes of the input from idx on. *)
LEMMA RawBytes ==
  ASSUME TypeOK
  PROVE  /\ DOMAIN Raw = Bit
         /\ \A b \in Bit : /\ idx + b \in DOMAIN input => Raw[b] = input[idx + b]
                           /\ idx + b \notin DOMAIN input => Raw[b] = Space
         /\ \A b \in Bit : Raw[b] \in Byte
<1>1. \A k \in DOMAIN input : input[k] \in Byte
  BY DEF TypeOK
<1>2. Space \in Byte
  BY DEF Byte
<1>3. QED
  BY <1>1, <1>2 DEF Raw, Block

(* What is blanked was no space; nothing else changes. *)
LEMMA TextBytes ==
  ASSUME TypeOK
  PROVE  /\ DOMAIN Text = DOMAIN input /\ Text \in [DOMAIN input -> Byte]
         /\ \A k \in DOMAIN input : Text[k] = Space \/ Text[k] = input[k]
         /\ \A k \in DOMAIN input : Text[k] \in Byte
         /\ \A b \in Bit : Cleaned[b] = Space \/ Cleaned[b] = Raw[b]
<1>1. DOMAIN Text = DOMAIN input /\ \A k \in DOMAIN input : Text[k] = Space \/ Text[k] = input[k]
  BY DEF Text, Blank
<1>2. \A k \in DOMAIN input : input[k] \in Byte
  BY DEF TypeOK
<1>3. \A b \in Bit : Cleaned[b] = Space \/ Cleaned[b] = Raw[b]
  BY <1>1 DEF Cleaned, Raw, Block
<1>4. Space \in Byte
  BY DEF Byte
<1>5. Text \in [DOMAIN input -> Byte]
  BY <1>2, <1>4 DEF Text, Blank
<1>6. QED
  BY <1>1, <1>2, <1>3, <1>4, <1>5

(* The line ends that are taken: those with no other between them and a    *)
(* comment.                                                                *)
LEMMA NewlinesTaken ==
  ASSUME NEW openers, openers \subseteq Bit, NEW newlines, newlines \subseteq Bit, NEW q
  PROVE  q \in NewlinesBefore(openers, newlines) <=>
           q \in newlines /\ \E o \in openers : q < o /\ \A n \in newlines : n < o => n <= q
<1> DEFINE before(o) == {n \in newlines : n < o}
<1>1. \A b \in Bit : b \in Nat /\ b <= BlockSize
  BY Blocks
<1>2. ASSUME NEW o \in openers, before(o) # {}
      PROVE  Max(before(o)) \in before(o) /\ \A y \in before(o) : y <= Max(before(o))
  <2>1. before(o) \subseteq Nat /\ \A x \in before(o) : x <= BlockSize
    BY <1>1
  <2>2. QED
    BY <2>1, <1>2, Blocks, MaxOf
<1>3. ASSUME q \in NewlinesBefore(openers, newlines)
      PROVE  q \in newlines /\ \E o \in openers : q < o /\ \A n \in newlines : n < o => n <= q
  <2>1. PICK o \in openers : before(o) # {} /\ q = Max(before(o))
    BY <1>3 DEF NewlinesBefore
  <2>2. QED
    BY <2>1, <1>2
<1>4. ASSUME q \in newlines, NEW o \in openers, q < o, \A n \in newlines : n < o => n <= q
      PROVE  q \in NewlinesBefore(openers, newlines)
  <2>1. before(o) # {} /\ q \in before(o)
    BY <1>4
  <2>2. Max(before(o)) \in before(o) /\ q <= Max(before(o))
    BY <2>1, <1>2
  <2>3. q = Max(before(o))
    BY <1>1, <1>4, <2>2
  <2>4. QED
    BY <2>1, <2>3, <1>4 DEF NewlinesBefore
<1>5. QED
  BY <1>3, <1>4

LEMMA Masks ==
  /\ Newlines \subseteq Bit /\ Spaces \subseteq Bit /\ Opening \subseteq Bit
  /\ Blanked \subseteq Bit /\ Structure \subseteq Bit /\ White \subseteq Bit
  /\ Mask \subseteq Bit /\ Quotes \subseteq Bit
<1>1. Newlines \subseteq Bit /\ Spaces \subseteq Bit /\ Find(Raw, Structural) \subseteq Bit
  BY DEF Newlines, Spaces, Find
<1>2. Opening \subseteq Bit
  BY DEF Opening, Openers, Indentation, Plus, Find
<1>3. Blanked \subseteq Bit
  BY <1>1, <1>2, NewlinesTaken DEF Blanked, Body, Not
<1>4. Mask \subseteq Bit /\ Quotes \subseteq Bit
  BY DEF Mask, QuoteMask, Quotes, QuoteBits, Find
<1>5. QED
  BY <1>1, <1>2, <1>3, <1>4 DEF Structure, White

(* A shifted mask. *)
LEMMA Shifted ==
  ASSUME NEW m, m \subseteq Bit
  PROVE  /\ Shl(m) \subseteq Bit
         /\ \A b \in Bit : b \in Shl(m) <=> b > 0 /\ b - 1 \in m
<1>1. \A b \in m : b \in Nat /\ b < BlockSize
  BY Blocks
<1>2. Bit = 0..BlockSize - 1 /\ LastBit = BlockSize - 1 /\ BlockSize \in Nat
  BY Blocks
<1>3. ASSUME NEW b \in Bit, b > 0, b - 1 \in m PROVE b \in Shl(m)
  <2>1. b - 1 \in m \ {LastBit} /\ (b - 1) + 1 = b
    BY <1>2, <1>3
  <2>2. QED
    BY <2>1 DEF Shl
<1>4. ASSUME NEW b \in Shl(m) PROVE b \in Bit /\ b > 0 /\ b - 1 \in m
  <2>1. PICK c \in m \ {LastBit} : b = c + 1
    BY DEF Shl
  <2>2. c \in Nat /\ c < BlockSize - 1 /\ b - 1 = c
    BY <1>1, <1>2, <2>1
  <2>3. QED
    BY <1>2, <2>1, <2>2
<1>5. QED
  BY <1>3, <1>4

(* No space and nothing behind the text is structural. *)
LEMMA StructuralsAreBytes ==
  ASSUME TypeOK,
         NEW b \in FinalizeStructurals(Structure, White, Mask, Quotes) \ Blanked
  PROVE  b \in Bit /\ Raw[b] # Space /\ idx + b \in DOMAIN input
<1> DEFINE pred == PseudoPred(Structure, White, Mask, Quotes)
<1>1. \/ b \in Structure
      \/ b \in Quotes
      \/ b \in (Shl(pred) \cup Carried(carry.pred)) \ (White \cup Mask)
  BY DEF FinalizeStructurals
<1>2. pred \subseteq Bit
  BY Masks DEF PseudoPred
<1>3. Shl(pred) \subseteq Bit /\ Carried(carry.pred) \subseteq Bit
  BY <1>2, Shifted, Blocks DEF Carried
<1>4. b \in Bit
  BY <1>1, <1>3, Masks
<1>5. b \in Structure => Raw[b] # Space
  BY DEF Structure, Find, Structural, Space
<1>6. b \in Quotes => Raw[b] # Space
  <2>1. b \in Quotes => Cleaned[b] = Quote
    BY DEF Quotes, QuoteBits, Find
  <2>2. QED
    BY <2>1, <1>4, TextBytes DEF Quote, Space
<1>7. b \notin White => Raw[b] # Space
  BY <1>4 DEF White, Spaces, Find
<1>8. Raw[b] # Space
  BY <1>1, <1>5, <1>6, <1>7
<1>9. QED
  BY <1>4, <1>8, RawBytes

-----------------------------------------------------------------------------
(* Types and order, one action after the other. *)

LEMMA CarriesBoolean ==
  ASSUME NEW m, NEW n
  PROVE  Plus(m, n).overflow \in BOOLEAN
BY DEF Plus, Carries

LEMMA CarryType ==
  ASSUME NEW o \in BOOLEAN, NEW q \in BOOLEAN, NEW p \in BOOLEAN, NEW i \in BOOLEAN,
         NEW c \in BOOLEAN
  PROVE  [odd |-> o, quote |-> q, pred |-> p, indent |-> i, comment |-> c]
           \in [{"odd", "quote", "pred", "indent", "comment"} -> BOOLEAN]
OBVIOUS

LEMMA ScanBlockOrder ==
  ASSUME TypeOK, OrderInv, result = "scanning", idx < Length(input), ScanBlock
  PROVE  TypeOK' /\ OrderInv'
<1> DEFINE L == Length(source)
           found == FinalizeStructurals(Structure, White, Mask, Quotes) \ Blanked
           c == Cardinality(Earlier)
<1>1. /\ L \in Nat /\ DOMAIN source = 0..L - 1 /\ DOMAIN input = DOMAIN source
      /\ idx \in Nat /\ idx % BlockSize = 0 /\ idx < L /\ Length(input) = L
  BY Shapes
<1>2. /\ input' = Text /\ structurals' = found
      /\ indexes' = SubSeq(Emitted, 1, Len(Emitted) - c)
      /\ idx' = idx + BlockSize /\ source' = source /\ buffer' = buffer /\ result' = result
  BY ScanBlockParts
<1>3. /\ Emitted \in Seq(Nat) /\ Ascending(Emitted)
      /\ \A n \in 1..Len(Emitted) : Emitted[n] < idx /\ Emitted[n] < L
  BY EmittedList
<1>4. c \in Nat /\ c <= Len(Emitted)
  BY <1>3, EarlierIsLast, LenProperties DEF Earlier
<1>5. /\ indexes' \in Seq(Nat) /\ Ascending(indexes')
      /\ \A n \in 1..Len(indexes') : indexes'[n] = Emitted[n] /\ n \in 1..Len(Emitted)
  <2> DEFINE front == SubSeq(Emitted, 1, Len(Emitted) - c)
  <2> HIDE DEF c
  <2>1. /\ front \in Seq(Nat) /\ (Ascending(Emitted) => Ascending(front))
        /\ \A n \in 1..Len(front) : front[n] = Emitted[n] /\ n \in 1..Len(Emitted)
    BY <1>3, <1>4, Front
  <2>2. indexes' = front
    BY <1>2
  <2> HIDE DEF front
  <2>3. QED
    BY <1>3, <2>1, <2>2
<1>6. \A n \in 1..Len(indexes') : indexes'[n] \in Nat /\ indexes'[n] < idx /\ indexes'[n] < L
  BY <1>3, <1>5, ElementOfSeq
<1>7. \A b \in found : b \in Bit /\ idx + b \in DOMAIN input
  BY StructuralsAreBytes
<1> HIDE DEF found, c, L
<1>8. indexes' \in Seq(0..L)
  BY <1>1, <1>5, <1>6, SeqOfOther
<1>9. input' \in [DOMAIN source' -> Byte]
  BY <1>1, <1>2, TextBytes
<1>10. idx' \in Nat /\ idx' % BlockSize = 0 /\ idx' - BlockSize = idx
  <2>1. (idx + BlockSize) % BlockSize = 0
    BY <1>1, Multiples, Blocks
  <2>2. idx + BlockSize \in Nat /\ (idx + BlockSize) - BlockSize = idx
    BY <1>1, Blocks
  <2>3. QED
    BY <2>1, <2>2, <1>2
<1>11. carry' \in [{"odd", "quote", "pred", "indent", "comment"} -> BOOLEAN]
  <2>1. OddCarries(Cleaned).overflow \in BOOLEAN /\ CommentBody(Opening, Newlines).overflow \in BOOLEAN
    BY CarriesBoolean DEF OddCarries, CommentBody
  <2>2. (LastBit \in Mask) \in BOOLEAN /\ InsideIndent(Spaces, Newlines) \in BOOLEAN
        /\ (LastBit \in PseudoPred(Structure, White, Mask, Quotes)) \in BOOLEAN
    BY DEF InsideIndent
  <2>3. carry' = [odd     |-> OddCarries(Cleaned).overflow,
                  quote   |-> LastBit \in Mask,
                  pred    |-> LastBit \in PseudoPred(Structure, White, Mask, Quotes),
                  indent  |-> InsideIndent(Spaces, Newlines),
                  comment |-> CommentBody(Opening, Newlines).overflow]
    BY ScanBlockParts
  <2>4. QED
    BY ONLY <2>1, <2>2, <2>3, CarryType
<1>12. invalid' \in BOOLEAN /\ broken' \in BOOLEAN
  BY ScanBlockParts
<1>13. Length(source') = L
  BY <1>2 DEF L
<1>14. TypeOK'
  <2>1. /\ source' \in Inputs \cup Later
        /\ Length(buffer') \in Nat /\ DOMAIN buffer' = 0..Length(buffer') - 1
        /\ \A k \in DOMAIN buffer' : buffer'[k] \in Byte \cup {Garbage}
        /\ result' \in {"scanning", "Ok", "Syntax", "Eof", "InvalidUtf8", "InputTooLarge"}
    BY <1>2 DEF TypeOK
  <2>2. structurals' \subseteq Bit
    BY <1>2, <1>7
  <2>3. QED
    BY <2>1, <2>2, <1>8, <1>9, <1>10, <1>11, <1>12, <1>13 DEF TypeOK
<1>15. OrderInv'
  <2>1. L <= MaxLength /\ L + BlockSize <= Length(buffer)
    BY DEF OrderInv, L
  <2>2. \A n \in 1..Len(indexes') : indexes'[n] <= MaxLength /\ indexes'[n] < idx' - BlockSize
    <3>1. MaxLength \in Nat /\ L \in Nat
      BY <1>1, Blocks
    <3>2. QED
      BY <1>6, <1>10, <2>1, <3>1
  <2>3. \A b \in structurals' : idx' - BlockSize + b \in DOMAIN source'
    BY <1>1, <1>2, <1>7, <1>10
  <2>4. idx' < Length(source') + BlockSize
    BY <1>1, <1>2, <1>13, Blocks
  <2>5. Length(source') + BlockSize <= Length(buffer') /\ Length(source') <= MaxLength
    BY <1>2, <1>13, <2>1
  <2>6. QED
    BY <1>5, <2>2, <2>3, <2>4, <2>5 DEF OrderInv
<1>16. QED
  BY <1>14, <1>15

LEMMA BuffersAllocated ==
  ASSUME NEW n \in Nat
  PROVE  /\ DOMAIN Allocated(n) = 0..n - 1 /\ Length(Allocated(n)) = n
         /\ \A k \in DOMAIN Allocated(n) : Allocated(n)[k] = Garbage
<1>1. DOMAIN Allocated(n) = 0..n - 1 /\ \A k \in DOMAIN Allocated(n) : Allocated(n)[k] = Garbage
  BY DEF Allocated
<1>2. Cardinality(0..n - 1) = n
  BY FS_Interval
<1>3. QED
  BY <1>1, <1>2 DEF Length

LEMMA BuffersReserved ==
  ASSUME NEW text, Length(text) \in Nat, NEW buf, Length(buf) \in Nat
  PROVE  LET new == Reserved(buf, text)
         IN  /\ Length(new) \in Nat /\ DOMAIN new = 0..Length(new) - 1
             /\ \A k \in DOMAIN new : new[k] = Garbage
             /\ Length(text) + BlockSize <= Length(new)
<1> DEFINE n == IF Length(buf) < Length(text) + BlockSize
                THEN Length(text) + BlockSize ELSE Length(buf)
<1>1. n \in Nat /\ Length(text) + BlockSize <= n
  BY Blocks
<1>2. Reserved(buf, text) = Allocated(n)
  BY DEF Reserved
<1> HIDE DEF n
<1>3. QED
  BY <1>1, <1>2, BuffersAllocated

LEMMA NoCarryType == NoCarry \in [{"odd", "quote", "pred", "indent", "comment"} -> BOOLEAN]
<1>1. TRUE \in BOOLEAN /\ FALSE \in BOOLEAN
  OBVIOUS
<1>2. QED
  BY ONLY <1>1, CarryType DEF NoCarry

(* What a document starts with, in buffers of any size. *)
LEMMA StartOrder ==
  ASSUME NEW text \in Inputs \cup Later, source' = text, input' = text, idx' = 0,
         structurals' = {}, indexes' = << >>, carry' = NoCarry,
         invalid' = FALSE, broken' = FALSE,
         NEW buf, Length(buf) \in Nat, DOMAIN buf = 0..Length(buf) - 1,
         \A k \in DOMAIN buf : buf[k] \in Byte \cup {Garbage},
         IF Length(text) > MaxLength
         THEN result' = "InputTooLarge" /\ buffer' = buf
         ELSE result' = "scanning" /\ buffer' = Reserved(buf, text)
  PROVE  TypeOK' /\ OrderInv'
<1>1. /\ Length(text) \in Nat /\ DOMAIN text = 0..Length(text) - 1
      /\ text \in [DOMAIN text -> Byte]
  BY Texts
<1>2. MaxLength \in Nat /\ BlockSize \in Nat \ {0} /\ 0 % BlockSize = 0
  BY Blocks, Remainders
<1>3. indexes' \in Seq(0..Length(text)) /\ Len(indexes') = 0
  OBVIOUS
<1>4. /\ Length(buffer') \in Nat /\ DOMAIN buffer' = 0..Length(buffer') - 1
      /\ \A k \in DOMAIN buffer' : buffer'[k] \in Byte \cup {Garbage}
      /\ Length(text) > MaxLength \/ Length(text) + BlockSize <= Length(buffer')
  <2> DEFINE new == Reserved(buf, text)
  <2>1. /\ Length(new) \in Nat /\ DOMAIN new = 0..Length(new) - 1
        /\ \A k \in DOMAIN new : new[k] = Garbage
        /\ Length(text) + BlockSize <= Length(new)
    BY <1>1, BuffersReserved
  <2> HIDE DEF new
  <2>2. CASE Length(text) > MaxLength
    BY <2>2
  <2>3. CASE ~ (Length(text) > MaxLength)
    <3>1. buffer' = new
      BY <2>3 DEF new
    <3>2. QED
      BY <2>1, <3>1
  <2>4. QED
    BY <2>2, <2>3
<1>5. result' \in {"scanning", "InputTooLarge"} /\ (result' = "scanning" => ~ (Length(text) > MaxLength))
  OBVIOUS
<1>6. TypeOK'
  BY <1>1, <1>2, <1>3, <1>4, <1>5, NoCarryType DEF TypeOK
<1>7. OrderInv'
  <2>1. Ascending(indexes') /\ \A n \in 1..Len(indexes') : FALSE
    BY <1>3 DEF Ascending
  <2>2. result' = "scanning" => /\ Length(text) <= MaxLength
                                /\ Length(text) + BlockSize <= Length(buffer')
                                /\ idx' < Length(text) + BlockSize
    BY <1>1, <1>2, <1>4, <1>5
  <2>3. QED
    BY <2>1, <2>2 DEF OrderInv
<1>8. QED
  BY <1>6, <1>7

LEMMA FinishOrder ==
  ASSUME TypeOK, OrderInv, Finish
  PROVE  TypeOK' /\ OrderInv'
<1> DEFINE L == Length(source)
<1>1. /\ result = "scanning" /\ UNCHANGED <<source, input, idx, structurals, carry, invalid, broken>>
      /\ result' \in {"Syntax", "Eof", "InvalidUtf8", "Ok"}
      /\ indexes' = indexes \/ indexes' = Emitted \/ indexes' = Append(Emitted, Length(input))
      /\ buffer' = buffer \/ buffer' = Copied(buffer, input)
  BY DEF Finish, Emitted
<1>2. /\ L \in Nat /\ Length(input) = L
      /\ indexes \in Seq(Nat) /\ \A n \in 1..Len(indexes) : indexes[n] \in Nat /\ indexes[n] <= L
  BY Shapes
<1>3. /\ Emitted \in Seq(Nat)
      /\ \A n \in 1..Len(Emitted) : Emitted[n] < L
  BY <1>1, EmittedList
<1>4. L <= MaxLength /\ MaxLength \in Nat
  BY <1>1, Blocks DEF OrderInv
<1> HIDE DEF L
<1>5. \A n \in 1..Len(Emitted) : Emitted[n] \in 0..L
  BY <1>2, <1>3, ElementOfSeq
<1>6. Emitted \in Seq(0..L) /\ indexes \in Seq(0..L)
  <2>1. Emitted \in Seq(0..L)
    BY <1>3, <1>5, SeqOfOther
  <2>2. \A n \in 1..Len(indexes) : indexes[n] \in 0..L
    BY <1>2
  <2>3. indexes \in Seq(0..L)
    BY <1>2, <2>2, SeqOfOther
  <2>4. QED
    BY <2>1, <2>3
<1>7. Append(Emitted, L) \in Seq(0..L)
  BY <1>2, <1>6
<1>8. indexes' \in Seq(0..L)
  BY <1>1, <1>2, <1>6, <1>7
<1>9. \A n \in 1..Len(indexes') : indexes'[n] <= MaxLength
  <2>1. \A n \in 1..Len(indexes') : indexes'[n] \in 0..L
    BY <1>8, ElementOfSeq
  <2>2. QED
    BY <1>2, <1>4, <2>1
<1>10. /\ Length(buffer') \in Nat /\ DOMAIN buffer' = 0..Length(buffer') - 1
       /\ \A k \in DOMAIN buffer' : buffer'[k] \in Byte \cup {Garbage}
  <2>1. /\ Length(buffer) \in Nat /\ DOMAIN buffer = 0..Length(buffer) - 1
        /\ \A k \in DOMAIN buffer : buffer[k] \in Byte \cup {Garbage}
        /\ \A k \in DOMAIN input : input[k] \in Byte
    BY DEF TypeOK
  <2>2. DOMAIN Copied(buffer, input) = DOMAIN buffer
    BY DEF Copied
  <2>3. \A k \in DOMAIN buffer : Copied(buffer, input)[k] \in Byte \cup {Garbage}
    <3>1. "NL" \in Byte /\ Space \in Byte
      BY DEF Byte, Structural
    <3>2. QED
      BY <2>1, <3>1 DEF Copied
  <2>4. Length(Copied(buffer, input)) = Length(buffer)
    BY <2>2 DEF Length
  <2>5. QED
    BY <1>1, <2>1, <2>2, <2>3, <2>4
<1>11. TypeOK'
  <2>1. Length(source') = L
    BY <1>1 DEF L
  <2>2. QED
    BY <1>1, <1>8, <1>10, <2>1 DEF TypeOK
<1>12. OrderInv'
  BY <1>1, <1>9 DEF OrderInv
<1>13. QED
  BY <1>11, <1>12

LEMMA NextDocumentOrder ==
  ASSUME TypeOK, OrderInv, NextDocument
  PROVE  TypeOK' /\ OrderInv'
<1>1. PICK text \in Later :
         /\ source' = text /\ input' = text
         /\ IF Length(text) > MaxLength
            THEN /\ result' = "InputTooLarge"
                 /\ UNCHANGED <<idx, structurals, indexes, carry, invalid, broken, buffer>>
            ELSE /\ result' = "scanning" /\ idx' = 0 /\ structurals' = {} /\ indexes' = << >>
                 /\ carry' = NoCarry /\ invalid' = FALSE /\ broken' = FALSE
                 /\ buffer' = Reserved(buffer, text)
  BY DEF NextDocument
<1>2. text \in Inputs \cup Later
  OBVIOUS
<1>3. CASE Length(text) > MaxLength
  <2>1. /\ Length(text) \in Nat /\ DOMAIN text = 0..Length(text) - 1
        /\ text \in [DOMAIN text -> Byte]
    BY <1>2, Texts
  <2>2. \A n \in 1..Len(indexes) : indexes[n] \in 0..Length(text)
    <3>1. \A n \in 1..Len(indexes) : indexes[n] \in Nat /\ indexes[n] <= MaxLength
      BY Shapes DEF OrderInv
    <3>2. QED
      BY <1>3, <2>1, <3>1, Blocks
  <2>3. indexes' \in Seq(0..Length(text))
    BY <1>1, <1>3, <2>2, Shapes, SeqOfOther
  <2>4. /\ UNCHANGED <<idx, structurals, indexes, carry, invalid, broken, buffer>>
        /\ result' = "InputTooLarge"
    BY <1>1, <1>3
  <2>5. TypeOK'
    BY <1>1, <1>2, <2>1, <2>3, <2>4 DEF TypeOK
  <2>6. OrderInv'
    BY <2>4 DEF OrderInv
  <2>7. QED
    BY <2>5, <2>6
<1>4. CASE ~ (Length(text) > MaxLength)
  <2>1. /\ Length(buffer) \in Nat /\ DOMAIN buffer = 0..Length(buffer) - 1
        /\ \A k \in DOMAIN buffer : buffer[k] \in Byte \cup {Garbage}
    BY DEF TypeOK
  <2>2. QED
    BY <1>1, <1>2, <1>4, <2>1, StartOrder
<1>5. QED
  BY <1>3, <1>4

LEMMA InitOrder ==
  ASSUME Init
  PROVE  TypeOK /\ OrderInv
<1> DEFINE new == Allocated(Capacity + BlockSize)
<1>1. /\ source \in Inputs \cup Later /\ input = source /\ idx = 0 /\ structurals = {}
      /\ indexes = << >> /\ carry = NoCarry /\ invalid = FALSE /\ broken = FALSE
      /\ IF Length(source) > MaxLength
         THEN result = "InputTooLarge" /\ buffer = new
         ELSE result = "scanning" /\ buffer = Reserved(new, source)
  BY DEF Init
<1>2. /\ Length(source) \in Nat /\ DOMAIN source = 0..Length(source) - 1
      /\ source \in [DOMAIN source -> Byte]
  BY <1>1, Texts
<1>3. MaxLength \in Nat /\ BlockSize \in Nat \ {0} /\ 0 % BlockSize = 0 /\ Capacity + BlockSize \in Nat
  BY Blocks, Remainders, CapacityAssumption
<1>4. /\ Length(new) \in Nat /\ DOMAIN new = 0..Length(new) - 1
      /\ \A k \in DOMAIN new : new[k] = Garbage
  BY <1>3, BuffersAllocated
<1>5. /\ Length(Reserved(new, source)) \in Nat
      /\ DOMAIN Reserved(new, source) = 0..Length(Reserved(new, source)) - 1
      /\ \A k \in DOMAIN Reserved(new, source) : Reserved(new, source)[k] = Garbage
      /\ Length(source) + BlockSize <= Length(Reserved(new, source))
  BY <1>2, <1>4, BuffersReserved
<1> HIDE DEF new
<1>6. /\ Length(buffer) \in Nat /\ DOMAIN buffer = 0..Length(buffer) - 1
      /\ \A k \in DOMAIN buffer : buffer[k] \in Byte \cup {Garbage}
      /\ result \in {"scanning", "InputTooLarge"}
      /\ result = "scanning" => /\ Length(source) <= MaxLength
                                /\ Length(source) + BlockSize <= Length(buffer)
  BY <1>1, <1>2, <1>3, <1>4, <1>5
<1>7. indexes \in Seq(0..Length(source)) /\ Len(indexes) = 0
  BY <1>1
<1>8. TypeOK
  BY <1>1, <1>2, <1>3, <1>6, <1>7, NoCarryType DEF TypeOK
<1>9. OrderInv
  <2>1. Ascending(indexes) /\ \A n \in 1..Len(indexes) : FALSE
    BY <1>7 DEF Ascending
  <2>2. idx < Length(source) + BlockSize
    BY <1>1, <1>2, <1>3
  <2>3. QED
    BY <1>1, <1>6, <2>1, <2>2 DEF OrderInv
<1>10. QED
  BY <1>8, <1>9

(* Types, and that offsets come in ascending order from blocks that have   *)
(* been read, inside the text, that the buffer has room for it with a      *)
(* block behind it: with whatever documents came before.                   *)
THEOREM OrderInductive == Spec => [](TypeOK /\ OrderInv)
<1>1. Init => TypeOK /\ OrderInv
  BY InitOrder
<1>2. ASSUME TypeOK /\ OrderInv, [Next]_vars PROVE (TypeOK /\ OrderInv)'
  <2>1. CASE WholeBlock
    <3>1. Length(input) \in Nat /\ idx \in Nat
      BY <1>2, Shapes
    <3>2. result = "scanning" /\ idx < Length(input) - BlockSize /\ ScanBlock
      BY <2>1 DEF WholeBlock
    <3>3. idx < Length(input)
      BY <3>1, <3>2, Blocks
    <3>4. QED
      BY <1>2, <3>2, <3>3, ScanBlockOrder
  <2>2. CASE LastBlock
    BY <1>2, <2>2, ScanBlockOrder DEF LastBlock
  <2>3. CASE Finish
    BY <1>2, <2>3, FinishOrder
  <2>4. CASE NextDocument
    BY <1>2, <2>4, NextDocumentOrder
  <2>5. CASE UNCHANGED vars
    BY <1>2, <2>5 DEF vars, scan, TypeOK, OrderInv
  <2>6. QED
    BY <1>2, <2>1, <2>2, <2>3, <2>4, <2>5 DEF Next
<1>3. QED
  BY <1>1, <1>2, PTL DEF Spec

(* The types of stage 1. *)
THEOREM Stage1Types == Spec => []TypeOK
BY OrderInductive, PTL
=============================================================================

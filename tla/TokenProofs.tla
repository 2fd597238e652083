----------------------------- MODULE TokenProofs -----------------------------
(***************************************************************************)
(* Stage 1 finds what the reference definitions say of the whole text,     *)
(* wherever the boundaries of the blocks fall: proofs of TokensExact,      *)
(* VerdictExact, HandsOverDocument and CarriesSummarize.                   *)
(***************************************************************************)
EXTENDS Stage1Proofs

-----------------------------------------------------------------------------
(* The reference definitions do not look ahead: texts that agree up to an  *)
(* offset are the same there.                                              *)

LEMMA IndentedAgree ==
  ASSUME NEW t, NEW u, NEW k \in Nat, \A j \in 0..k - 1 : t[j] = u[j]
  PROVE  Indented(t, k) <=> Indented(u, k)
<1>1. ASSUME NEW l \in 0..k PROVE StartsLine(t, l) <=> StartsLine(u, l)
  BY DEF StartsLine
<1>2. ASSUME NEW l \in 0..k, NEW j \in l..k - 1 PROVE t[j] = u[j]
  OBVIOUS
<1>3. QED
  BY <1>1, <1>2 DEF Indented

LEMMA CommentedAgree ==
  ASSUME NEW t, NEW u, NEW k \in Nat, \A j \in 0..k : t[j] = u[j]
  PROVE  Commented(t, k) <=> Commented(u, k)
<1>1. ASSUME NEW h \in 0..k PROVE Opens(t, h) <=> Opens(u, h)
  <2>1. Indented(t, h) <=> Indented(u, h)
    BY IndentedAgree
  <2>2. QED
    BY <2>1 DEF Opens
<1>2. ASSUME NEW h \in 0..k, NEW j \in h..k PROVE t[j] = u[j]
  OBVIOUS
<1>3. QED
  BY <1>1, <1>2 DEF Commented

(* Equal but for line ends that may be blanked. *)
Alike(c, d) == c = d \/ {c, d} \subseteq {Space, "NL"}

LEMMA AlikeBytes ==
  ASSUME NEW c, NEW d, Alike(c, d)
  PROVE  (c = Backslash <=> d = Backslash) /\ (c = Quote <=> d = Quote)
BY DEF Alike, Space, Backslash, Quote

LEMMA EscapedAgree ==
  ASSUME NEW t, NEW u, NEW k \in Nat, \A j \in 0..k - 1 : Alike(t[j], u[j])
  PROVE  Escaped(t, k) <=> Escaped(u, k)
<1>1. \A j \in 0..k - 1 : t[j] = Backslash <=> u[j] = Backslash
  BY AlikeBytes
<1>2. ASSUME NEW l \in 0..k, NEW j \in l..k - 1 PROVE j \in 0..k - 1
  OBVIOUS
<1>3. ASSUME NEW l \in 0..k, l > 0 PROVE l - 1 \in 0..k - 1
  BY <1>3
<1>4. QED
  BY <1>1, <1>2, <1>3 DEF Escaped

LEMMA DelimitsAgree ==
  ASSUME NEW t, NEW u, NEW k \in Nat, \A j \in 0..k : Alike(t[j], u[j])
  PROVE  Delimits(t, k) <=> Delimits(u, k)
<1>1. Escaped(t, k) <=> Escaped(u, k)
  BY EscapedAgree
<1>2. t[k] = Quote <=> u[k] = Quote
  BY AlikeBytes
<1>3. QED
  BY <1>1, <1>2 DEF Delimits

(* Blanked line ends make no difference to strings. *)
LEMMA InsideAgree ==
  ASSUME NEW t, NEW u, NEW k \in Nat, \A j \in 0..k : Alike(t[j], u[j])
  PROVE  Inside(t, k) <=> Inside(u, k)
<1>1. ASSUME NEW q \in 0..k PROVE Delimits(t, q) <=> Delimits(u, q)
  BY DelimitsAgree
<1>2. {q \in 0..k : Delimits(t, q)} = {q \in 0..k : Delimits(u, q)}
  BY <1>1
<1>3. QED
  BY <1>2 DEF Inside

-----------------------------------------------------------------------------
(* Strings, one byte after the other. *)

LEMMA InsideFirst ==
  ASSUME NEW t
  PROVE  Inside(t, 0) <=> Delimits(t, 0)
<1>1. CASE Delimits(t, 0)
  <2>1. {q \in 0..0 : Delimits(t, q)} = {0}
    BY <1>1
  <2>2. Cardinality({0}) = 1
    BY FS_Singleton
  <2>3. QED
    BY <1>1, <2>1, <2>2 DEF Inside
<1>2. CASE ~ Delimits(t, 0)
  <2>1. {q \in 0..0 : Delimits(t, q)} = {}
    BY <1>2
  <2>2. QED
    BY <1>2, <2>1, FS_EmptySet DEF Inside
<1>3. QED
  BY <1>1, <1>2

LEMMA InsideNext ==
  ASSUME NEW t, NEW k \in Nat
  PROVE  Inside(t, k + 1) <=> IF Delimits(t, k + 1) THEN ~ Inside(t, k) ELSE Inside(t, k)
<1> DEFINE S == {q \in 0..k : Delimits(t, q)}
           T == {q \in 0..k + 1 : Delimits(t, q)}
<1>1. IsFiniteSet(S) /\ Cardinality(S) \in Nat
  <2>1. IsFiniteSet(0..k) /\ S \in SUBSET (0..k)
    BY FS_Interval
  <2>2. QED
    BY <2>1, FS_Subset, FS_CardinalityType
<1>2. CASE Delimits(t, k + 1)
  <2>1. T = S \cup {k + 1} /\ k + 1 \notin S
    BY <1>2
  <2>2. Cardinality(T) = Cardinality(S) + 1
    BY <1>1, <2>1, FS_AddElement
  <2>3. (Cardinality(T) % 2 = 1) <=> ~ (Cardinality(S) % 2 = 1)
    BY <1>1, <2>2
  <2>4. QED
    BY <1>2, <2>3 DEF Inside
<1>3. CASE ~ Delimits(t, k + 1)
  <2>1. T = S
    BY <1>3
  <2>2. QED
    BY <1>3, <2>1 DEF Inside
<1>4. QED
  BY <1>2, <1>3

LEMMA InsideBoolean ==
  ASSUME NEW t, NEW k
  PROVE  Inside(t, k) \in BOOLEAN /\ Delimits(t, k) \in BOOLEAN /\ Escaped(t, k) \in BOOLEAN
BY DEF Inside, Delimits, Escaped

-----------------------------------------------------------------------------
(* The padded text. *)

Scanning == TypeOK /\ OrderInv /\ result = "scanning"

LEMMA PaddedBytes ==
  ASSUME TypeOK
  PROVE  /\ DOMAIN Padded = 0..Length(source) + 2 * BlockSize - 1
         /\ \A k \in DOMAIN Padded : /\ k \in DOMAIN source => Padded[k] = source[k]
                                     /\ k \notin DOMAIN source => Padded[k] = Space
                                     /\ Padded[k] \in Byte
         /\ DOMAIN Clean = DOMAIN Padded
         /\ \A k \in DOMAIN Padded : /\ Commented(Padded, k) => Clean[k] = Space
                                     /\ ~ Commented(Padded, k) => Clean[k] = Padded[k]
<1>1. DOMAIN Padded = 0..Length(source) + 2 * BlockSize - 1
  BY DEF Padded
<1>2. \A k \in DOMAIN Padded : /\ k \in DOMAIN source => Padded[k] = source[k]
                               /\ k \notin DOMAIN source => Padded[k] = Space
  BY DEF Padded
<1>3. \A k \in DOMAIN source : source[k] \in Byte
  BY Texts DEF TypeOK
<1>4. Space \in Byte
  BY DEF Byte
<1>5. Clean = [k \in DOMAIN Padded |-> IF k \in {j \in DOMAIN Padded : Commented(Padded, j)}
                                       THEN Space ELSE Padded[k]]
  BY DEF Clean, WithoutComments, Blank
<1> HIDE DEF Padded
<1>6. QED
  BY <1>1, <1>2, <1>3, <1>4, <1>5

LEMMA PaddedReach ==
  ASSUME Scanning
  PROVE  /\ \A k \in 0..idx + BlockSize : k \in DOMAIN Padded
         /\ \A b \in 0..BlockSize : idx + b \in DOMAIN Padded /\ idx + b \in Nat
         /\ \A k \in 0..idx - 1 : k \in DOMAIN Padded /\ k \in Nat
         /\ \A k \in DOMAIN source : k \in DOMAIN Padded
<1>1. Length(source) \in Nat /\ DOMAIN source = 0..Length(source) - 1 /\ idx \in Nat
  BY Shapes DEF Scanning
<1>2. idx < Length(source) + BlockSize /\ BlockSize \in Nat
  BY Blocks DEF Scanning, OrderInv
<1>3. DOMAIN Padded = 0..Length(source) + 2 * BlockSize - 1
  BY PaddedBytes DEF Scanning
<1>4. idx + BlockSize <= Length(source) + 2 * BlockSize - 1
  BY <1>1, <1>2
<1>5. \A k \in 0..idx + BlockSize : k \in DOMAIN Padded
  BY <1>1, <1>2, <1>3, <1>4
<1>6. \A b \in 0..BlockSize : idx + b \in 0..idx + BlockSize
  BY <1>1, <1>2
<1>7. Length(source) - 1 <= Length(source) + 2 * BlockSize - 1
  BY <1>1, <1>2
<1>8. \A k \in DOMAIN source : k \in DOMAIN Padded
  BY <1>1, <1>2, <1>3, <1>7
<1>9. QED
  BY <1>1, <1>2, <1>5, <1>6, <1>8

(* A block is that part of the padded text. *)
LEMMA BlockIsPadded ==
  ASSUME Scanning, CommentInv, NEW b \in Bit
  PROVE  Raw[b] = Padded[idx + b]
<1>1. /\ idx + b \in DOMAIN input => Raw[b] = input[idx + b]
      /\ idx + b \notin DOMAIN input => Raw[b] = Space
  BY RawBytes DEF Scanning
<1>2. DOMAIN input = DOMAIN source /\ idx \in Nat /\ b \in 0..BlockSize
  BY Shapes, Blocks DEF Scanning
<1>3. idx + b \in DOMAIN Padded /\ idx + b >= idx
  BY <1>2, PaddedReach, Blocks
<1>4. idx + b \in DOMAIN source => input[idx + b] = source[idx + b]
  BY <1>3 DEF CommentInv, Scanning
<1>5. QED
  BY <1>1, <1>2, <1>3, <1>4, PaddedBytes DEF Scanning

-----------------------------------------------------------------------------
(* Indentation.  What adding the line starts to the spaces carries to a    *)
(* byte is that only spaces stand in front of it.                          *)

Starts == Shl(Newlines) \cup Carried(carry.indent)

LEMMA StartsAre ==
  ASSUME NEW s \in Bit
  PROVE  s \in Starts <=> IF s = 0 THEN carry.indent ELSE s - 1 \in Newlines
<1>1. s \in Shl(Newlines) <=> s > 0 /\ s - 1 \in Newlines
  BY Masks, Shifted
<1>2. s \in Nat
  BY Blocks
<1>3. QED
  BY <1>1, <1>2 DEF Starts, Carried

LEMMA SpacesAre ==
  ASSUME NEW b
  PROVE  /\ b \in Spaces <=> b \in Bit /\ Raw[b] = Space
         /\ b \in Newlines <=> b \in Bit /\ Raw[b] = "NL"
         /\ b \in Spaces => b \notin Newlines
BY DEF Spaces, Newlines, Find, Space

(* A carry that gets to a bit comes through spaces only. *)
LEMMA CarriedThroughSpaces ==
  ASSUME NEW b \in 0..BlockSize
  PROVE  Carries(Spaces, Starts, b) <=> \E s \in 0..b - 1 : s \in Starts /\ \A d \in s..b - 1 : d \in Spaces
<1>1. \A d \in 0..b - 1 : d \in Bit /\ d \in Nat
  BY Blocks
<1>2. ASSUME Carries(Spaces, Starts, b)
      PROVE  \E s \in 0..b - 1 : s \in Starts /\ \A d \in s..b - 1 : d \in Spaces
  <2>1. PICK c \in Spaces \cap Starts : c < b /\ \A d \in c + 1..b - 1 : d \in Spaces \cup Starts
    BY <1>2 DEF Carries
  <2>2. c \in 0..b - 1
    BY <2>1, SpacesAre, Blocks
  <2> DEFINE others == {d \in c + 1..b - 1 : d \notin Spaces}
  <2>3. ASSUME others # {} PROVE FALSE
    <3>1. others \subseteq Nat
      BY <2>2
    <3>2. PICK e \in others : \A d \in others : e <= d
      BY <2>3, <3>1, LeastOf
    <3>3. e \in Starts /\ e \in Bit /\ e > 0 /\ e \in Nat
      BY <1>1, <2>1, <2>2, <3>2
    <3>4. e - 1 \in Newlines
      BY <3>3, StartsAre
    <3>5. e - 1 \notin Spaces
      BY <3>4, SpacesAre
    <3>6. e - 1 # c /\ e - 1 \in c..b - 1
      BY <2>1, <2>2, <3>2, <3>3, <3>5
    <3>7. e - 1 \in others
      BY <2>2, <3>3, <3>5, <3>6
    <3>8. QED
      BY <3>2, <3>3, <3>7
  <2>4. \A d \in c..b - 1 : d \in Spaces
    BY <2>1, <2>2, <2>3
  <2>5. QED
    BY <2>1, <2>2, <2>4
<1>3. ASSUME NEW s \in 0..b - 1, s \in Starts, \A d \in s..b - 1 : d \in Spaces
      PROVE  Carries(Spaces, Starts, b)
  <2>1. s \in Spaces \cap Starts /\ s < b /\ \A d \in s + 1..b - 1 : d \in Spaces \cup Starts
    BY <1>3
  <2>2. QED
    BY <2>1 DEF Carries
<1>4. QED
  BY <1>2, <1>3

(* The same on the text. *)
LEMMA IndentedInBlock ==
  ASSUME Scanning, CommentInv, NEW b \in 0..BlockSize
  PROVE  Indented(Padded, idx + b) <=>
           \E s \in 0..b : /\ IF s = 0 THEN carry.indent ELSE s - 1 \in Newlines
                           /\ \A d \in s..b - 1 : d \in Spaces
<1>1. idx \in Nat /\ b \in Nat /\ BlockSize \in Nat
  BY Shapes, Blocks DEF Scanning
<1>2. carry.indent <=> Indented(Padded, idx)
  BY DEF CommentInv, Scanning
<1>3. \A d \in 0..b - 1 : d \in Bit /\ (d \in Spaces <=> Padded[idx + d] = Space)
                                    /\ (d \in Newlines <=> Padded[idx + d] = "NL")
  BY <1>1, BlockIsPadded, SpacesAre, Blocks
<1>4. ASSUME NEW l \in 0..idx + b, StartsLine(Padded, l), \A j \in l..(idx + b) - 1 : Padded[j] = Space
      PROVE  \E s \in 0..b : /\ IF s = 0 THEN carry.indent ELSE s - 1 \in Newlines
                             /\ \A d \in s..b - 1 : d \in Spaces
  <2>1. CASE l <= idx
    <3>1. \A d \in 0..b - 1 : idx + d \in l..(idx + b) - 1
      BY <1>1, <2>1
    <3>2. \A j \in l..idx - 1 : j \in l..(idx + b) - 1
      BY <1>1, <2>1
    <3>3. Indented(Padded, idx)
      BY <1>1, <1>4, <2>1, <3>2 DEF Indented
    <3>4. 0 \in 0..b /\ carry.indent /\ \A d \in 0..b - 1 : d \in Spaces
      BY <1>1, <1>2, <1>3, <1>4, <3>1, <3>3
    <3>5. QED
      BY <3>4
  <2>2. CASE l > idx
    <3>1. PICK s \in 0..b : s = l - idx /\ s > 0 /\ l = idx + s
      BY <1>1, <2>2
    <3>2. Padded[l - 1] = "NL" /\ l - 1 = idx + (s - 1) /\ s - 1 \in 0..b - 1
      BY <1>1, <1>4, <2>2, <3>1 DEF StartsLine
    <3>3. s - 1 \in Newlines
      BY <1>3, <3>2
    <3>4. \A d \in s..b - 1 : idx + d \in l..(idx + b) - 1 /\ d \in 0..b - 1
      BY <1>1, <3>1
    <3>5. \A d \in s..b - 1 : d \in Spaces
      BY <1>3, <1>4, <3>4
    <3>6. QED
      BY <3>1, <3>3, <3>5
  <2>3. QED
    BY <1>1, <2>1, <2>2
<1>5. ASSUME NEW s \in 0..b, IF s = 0 THEN carry.indent ELSE s - 1 \in Newlines,
             \A d \in s..b - 1 : d \in Spaces
      PROVE  Indented(Padded, idx + b)
  <2>1. \A j \in idx + s..(idx + b) - 1 : j - idx \in s..b - 1 /\ j - idx \in 0..b - 1 /\ j = idx + (j - idx)
    BY <1>1
  <2>2. \A j \in idx + s..(idx + b) - 1 : Padded[j] = Space
    BY <1>3, <1>5, <2>1
  <2>3. CASE s = 0
    <3>1. PICK l \in 0..idx : StartsLine(Padded, l) /\ \A j \in l..idx - 1 : Padded[j] = Space
      BY <1>2, <1>5, <2>3 DEF Indented
    <3>2. \A j \in l..(idx + b) - 1 : j \in l..idx - 1 \/ j \in idx + s..(idx + b) - 1
      BY <1>1, <2>3
    <3>3. l \in 0..idx + b
      BY <1>1
    <3>4. QED
      BY <2>2, <3>1, <3>2, <3>3 DEF Indented
  <2>4. CASE s # 0
    <3>1. s - 1 \in Newlines /\ s - 1 \in 0..b - 1
      BY <1>1, <1>5, <2>4
    <3>2. Padded[idx + (s - 1)] = "NL" /\ idx + (s - 1) = (idx + s) - 1
      BY <1>1, <1>3, <3>1
    <3>3. StartsLine(Padded, idx + s) /\ idx + s \in 0..idx + b
      BY <1>1, <3>2 DEF StartsLine
    <3>4. QED
      BY <2>2, <3>3 DEF Indented
  <2>5. QED
    BY <2>3, <2>4
<1>6. QED
  BY <1>4, <1>5 DEF Indented

(* What comes out of the addition at a byte that is no space. *)
LEMMA IndentationSum ==
  ASSUME Scanning, CommentInv, NEW b \in Bit, b \notin Spaces
  PROVE  b \in Indentation(Spaces, Newlines).mask <=> Indented(Padded, idx + b)
<1>1. b \in 0..BlockSize /\ b \in Nat
  BY Blocks
<1>2. \A d \in 0..b - 1 : d \in Bit
  BY <1>1, Blocks
<1>3. b \in Indentation(Spaces, Newlines).mask <=>
        IF b \in Starts THEN ~ Carries(Spaces, Starts, b) ELSE Carries(Spaces, Starts, b)
  <2>1. b \in Xor(Spaces, Starts) <=> b \in Starts
    BY DEF Xor
  <2>2. Indentation(Spaces, Newlines).mask
          = {c \in Bit : (c \in Xor(Spaces, Starts)) # Carries(Spaces, Starts, c)}
    BY DEF Indentation, Plus, Starts
  <2>3. Carries(Spaces, Starts, b) \in BOOLEAN
    BY DEF Carries
  <2>4. QED
    BY <2>1, <2>2, <2>3
<1>4. Carries(Spaces, Starts, b) <=> \E s \in 0..b - 1 : s \in Starts /\ \A d \in s..b - 1 : d \in Spaces
  BY <1>1, CarriedThroughSpaces
<1>5. Indented(Padded, idx + b) <=>
        \E s \in 0..b : /\ IF s = 0 THEN carry.indent ELSE s - 1 \in Newlines
                        /\ \A d \in s..b - 1 : d \in Spaces
  BY <1>1, IndentedInBlock
<1>6. \A s \in 0..b : s \in Starts <=> IF s = 0 THEN carry.indent ELSE s - 1 \in Newlines
  BY <1>1, <1>2, StartsAre
<1>7. Indented(Padded, idx + b) <=> b \in Starts \/ Carries(Spaces, Starts, b)
  <2>1. ASSUME Indented(Padded, idx + b), b \notin Starts PROVE Carries(Spaces, Starts, b)
    <3>1. PICK s \in 0..b : s \in Starts /\ \A d \in s..b - 1 : d \in Spaces
      BY <2>1, <1>5, <1>6
    <3>2. s \in 0..b - 1
      BY <1>1, <2>1, <3>1
    <3>3. QED
      BY <1>4, <3>1, <3>2
  <2>2. ASSUME b \in Starts PROVE Indented(Padded, idx + b)
    <3>1. b \in 0..b /\ \A d \in b..b - 1 : d \in Spaces
      BY <1>1
    <3>2. QED
      BY <2>2, <3>1, <1>5, <1>6
  <2>3. ASSUME Carries(Spaces, Starts, b) PROVE Indented(Padded, idx + b)
    <3>1. PICK s \in 0..b - 1 : s \in Starts /\ \A d \in s..b - 1 : d \in Spaces
      BY <2>3, <1>4
    <3>2. s \in 0..b
      BY <1>1
    <3>3. QED
      BY <3>1, <3>2, <1>5, <1>6
  <2>4. QED
    BY <2>1, <2>2, <2>3
<1>8. ~ (b \in Starts /\ Carries(Spaces, Starts, b))
  <2>1. ASSUME b \in Starts, Carries(Spaces, Starts, b) PROVE FALSE
    <3>1. PICK s \in 0..b - 1 : s \in Starts /\ \A d \in s..b - 1 : d \in Spaces
      BY <2>1, <1>4
    <3>2. b > 0 /\ b - 1 \in s..b - 1
      BY <1>1, <3>1
    <3>3. b - 1 \in Newlines /\ b - 1 \in Spaces
      BY <2>1, <3>1, <3>2, StartsAre
    <3>4. QED
      BY <3>3, SpacesAre
  <2>2. QED
    BY <2>1
<1>9. QED
  BY <1>3, <1>7, <1>8

LEMMA OpenersOpen ==
  ASSUME Scanning, CommentInv, NEW b
  PROVE  b \in Opening <=> b \in Bit /\ Opens(Padded, idx + b)
<1>1. b \in Opening => b \in Bit
  BY Masks
<1>2. ASSUME b \in Bit PROVE b \in Opening <=> Opens(Padded, idx + b)
  <2>1. Raw[b] = Padded[idx + b]
    BY <1>2, BlockIsPadded
  <2>2. b \in Find(Raw, {"#"}) <=> Padded[idx + b] = "#"
    BY <1>2, <2>1 DEF Find
  <2>3. Padded[idx + b] = "#" => b \notin Spaces
    BY <2>1, SpacesAre DEF Space
  <2>4. b \in Opening <=> /\ b \in Indentation(Spaces, Newlines).mask /\ b \notin Spaces
                          /\ b \in Find(Raw, {"#"})
    BY DEF Opening, Openers
  <2>5. QED
    BY <1>2, <2>2, <2>3, <2>4, IndentationSum DEF Opens
<1>3. QED
  BY <1>1, <1>2

(* The indentation goes on in the next block. *)
LEMMA IndentHandedOn ==
  ASSUME Scanning, CommentInv
  PROVE  InsideIndent(Spaces, Newlines) <=> Indented(Padded, idx + BlockSize)
<1>1. BlockSize \in 0..BlockSize /\ LastBit = BlockSize - 1 /\ BlockSize \in Nat \ {0}
  BY Blocks
<1>2. InsideIndent(Spaces, Newlines) <=> Carries(Spaces, Starts, BlockSize) \/ LastBit \in Newlines
  BY DEF InsideIndent, Indentation, Plus, Starts
<1>3. Carries(Spaces, Starts, BlockSize) <=>
        \E s \in 0..BlockSize - 1 : s \in Starts /\ \A d \in s..BlockSize - 1 : d \in Spaces
  BY <1>1, CarriedThroughSpaces
<1>4. Indented(Padded, idx + BlockSize) <=>
        \E s \in 0..BlockSize : /\ IF s = 0 THEN carry.indent ELSE s - 1 \in Newlines
                                /\ \A d \in s..BlockSize - 1 : d \in Spaces
  BY <1>1, IndentedInBlock
<1>5. \A s \in 0..BlockSize - 1 : s \in Starts <=> IF s = 0 THEN carry.indent ELSE s - 1 \in Newlines
  BY Blocks, StartsAre
<1>6. ASSUME LastBit \in Newlines PROVE Indented(Padded, idx + BlockSize)
  <2>1. BlockSize - 1 \in Newlines /\ \A d \in BlockSize..BlockSize - 1 : d \in Spaces
    BY <1>1, <1>6
  <2>2. QED
    BY <1>1, <1>4, <2>1
<1>7. ASSUME Carries(Spaces, Starts, BlockSize) PROVE Indented(Padded, idx + BlockSize)
  <2>1. PICK s \in 0..BlockSize - 1 : s \in Starts /\ \A d \in s..BlockSize - 1 : d \in Spaces
    BY <1>3, <1>7
  <2>2. s \in 0..BlockSize
    BY <1>1
  <2>3. QED
    BY <1>4, <1>5, <2>1, <2>2
<1>8. ASSUME Indented(Padded, idx + BlockSize)
      PROVE  Carries(Spaces, Starts, BlockSize) \/ LastBit \in Newlines
  <2>1. PICK s \in 0..BlockSize : /\ IF s = 0 THEN carry.indent ELSE s - 1 \in Newlines
                                  /\ \A d \in s..BlockSize - 1 : d \in Spaces
    BY <1>4, <1>8
  <2>2. CASE s = BlockSize
    BY <1>1, <2>1, <2>2
  <2>3. CASE s # BlockSize
    <3>1. s \in 0..BlockSize - 1
      BY <1>1, <2>3
    <3>2. QED
      BY <1>3, <1>5, <2>1, <3>1
  <2>4. QED
    BY <2>2, <2>3
<1>9. QED
  BY <1>2, <1>6, <1>7, <1>8

-----------------------------------------------------------------------------
(* Comments. *)

(* What follows a commented byte is not indented any more. *)
LEMMA CommentedNotIndented ==
  ASSUME NEW t, NEW k \in Nat, Commented(t, k)
  PROVE  ~ Indented(t, k + 1)
<1>1. PICK h \in 0..k : t[h] = "#" /\ \A j \in h..k : t[j] # "NL"
  BY DEF Commented, Opens
<1>2. ASSUME NEW l \in 0..k + 1, StartsLine(t, l), \A j \in l..(k + 1) - 1 : t[j] = Space
      PROVE  FALSE
  <2>1. CASE l <= h
    <3>1. h \in l..(k + 1) - 1
      BY <2>1
    <3>2. QED
      BY <1>1, <1>2, <3>1 DEF Space
  <2>2. CASE l > h
    <3>1. l - 1 \in h..k /\ l # 0
      BY <2>2
    <3>2. QED
      BY <1>1, <1>2, <3>1 DEF StartsLine
  <2>3. QED
    BY <2>1, <2>2
<1>3. QED
  BY <1>2 DEF Indented

LEMMA CommentedInBlock ==
  ASSUME Scanning, CommentInv, NEW b \in Bit
  PROVE  Commented(Padded, idx + b) <=>
           \E s \in 0..b : /\ (s = 0 /\ carry.comment) \/ s \in Opening
                           /\ \A d \in s..b : d \notin Newlines
<1>1. idx \in Nat /\ b \in Nat /\ BlockSize \in Nat
  BY Shapes, Blocks DEF Scanning
<1>2. carry.comment <=> idx > 0 /\ Commented(Padded, idx - 1)
  BY DEF CommentInv, Scanning
<1>3. \A d \in 0..b : d \in Bit /\ (d \in Newlines <=> Padded[idx + d] = "NL")
                      /\ (d \in Opening <=> Opens(Padded, idx + d))
  BY <1>1, BlockIsPadded, SpacesAre, OpenersOpen, Blocks
<1>4. ASSUME NEW h \in 0..idx + b, Opens(Padded, h), \A j \in h..idx + b : Padded[j] # "NL"
      PROVE  \E s \in 0..b : /\ (s = 0 /\ carry.comment) \/ s \in Opening
                             /\ \A d \in s..b : d \notin Newlines
  <2>1. CASE h < idx
    <3>1. \A d \in 0..b : idx + d \in h..idx + b
      BY <1>1, <2>1
    <3>2. h \in 0..idx - 1 /\ \A j \in h..idx - 1 : j \in h..idx + b
      BY <1>1, <2>1
    <3>3. Commented(Padded, idx - 1) /\ idx > 0
      BY <1>1, <1>4, <2>1, <3>2 DEF Commented
    <3>4. 0 \in 0..b /\ carry.comment /\ \A d \in 0..b : d \notin Newlines
      BY <1>1, <1>2, <1>3, <1>4, <3>1, <3>3
    <3>5. QED
      BY <3>4
  <2>2. CASE h >= idx
    <3>1. PICK s \in 0..b : h = idx + s
      <4>1. h - idx \in 0..b /\ h = idx + (h - idx)
        BY <1>1, <2>2
      <4>2. QED
        BY <4>1
    <3>2. \A d \in s..b : idx + d \in h..idx + b /\ d \in 0..b
      BY <1>1, <3>1
    <3>3. s \in Opening /\ \A d \in s..b : d \notin Newlines
      BY <1>3, <1>4, <3>1, <3>2
    <3>4. QED
      BY <3>3
  <2>3. QED
    BY <1>1, <2>1, <2>2
<1>5. ASSUME NEW s \in 0..b, (s = 0 /\ carry.comment) \/ s \in Opening,
             \A d \in s..b : d \notin Newlines
      PROVE  Commented(Padded, idx + b)
  <2>1. \A j \in idx + s..idx + b : j - idx \in s..b /\ j - idx \in 0..b /\ j = idx + (j - idx)
    BY <1>1
  <2>2. \A j \in idx + s..idx + b : Padded[j] # "NL"
    BY <1>3, <1>5, <2>1
  <2>3. CASE s = 0 /\ carry.comment
    <3>1. PICK h \in 0..idx - 1 : Opens(Padded, h) /\ \A j \in h..idx - 1 : Padded[j] # "NL"
      BY <1>2, <2>3 DEF Commented
    <3>2. \A j \in h..idx + b : j \in h..idx - 1 \/ j \in idx + s..idx + b
      BY <1>1, <2>3
    <3>3. h \in 0..idx + b
      BY <1>1
    <3>4. QED
      BY <2>2, <3>1, <3>2, <3>3 DEF Commented
  <2>4. CASE s \in Opening
    <3>1. Opens(Padded, idx + s) /\ idx + s \in 0..idx + b
      BY <1>1, <1>3, <2>4
    <3>2. QED
      BY <2>2, <3>1 DEF Commented
  <2>5. QED
    BY <1>5, <2>3, <2>4
<1>6. QED
  BY <1>4, <1>5 DEF Commented

CommentStarts == Opening \cup Carried(carry.comment)

(* A carry that gets to a bit comes through a comment. *)
LEMMA CarriedThroughComment ==
  ASSUME Scanning, CommentInv, NEW b \in 0..BlockSize
  PROVE  Carries(Not(Newlines), CommentStarts, b) <=>
           \E s \in 0..b - 1 : /\ (s = 0 /\ carry.comment) \/ s \in Opening
                               /\ \A d \in s..b - 1 : d \notin Newlines
<1>1. \A d \in 0..b - 1 : d \in Bit /\ d \in Nat
  BY Blocks
<1>2. \A d \in Opening : d \in Bit /\ d \notin Newlines
  <2>1. ASSUME NEW d \in Opening PROVE d \in Bit /\ Raw[d] = "#"
    BY Masks DEF Opening, Openers, Find
  <2>2. QED
    BY <2>1, SpacesAre
<1>3. \A s : s \in CommentStarts <=> (s = 0 /\ carry.comment) \/ s \in Opening
  BY DEF CommentStarts, Carried
<1>4. \A d : d \in Not(Newlines) <=> d \in Bit /\ d \notin Newlines
  BY DEF Not
<1>5. ASSUME Carries(Not(Newlines), CommentStarts, b)
      PROVE  \E s \in 0..b - 1 : /\ (s = 0 /\ carry.comment) \/ s \in Opening
                                 /\ \A d \in s..b - 1 : d \notin Newlines
  <2>1. PICK c \in Not(Newlines) \cap CommentStarts :
               c < b /\ \A d \in c + 1..b - 1 : d \in Not(Newlines) \cup CommentStarts
    BY <1>5 DEF Carries
  <2>2. c \in 0..b - 1 /\ c \notin Newlines
    BY <1>4, <2>1, Blocks
  <2>3. \A d \in c + 1..b - 1 : d \notin Newlines
    <3>1. ASSUME NEW d \in c + 1..b - 1 PROVE d \notin Newlines
      <4>1. d # 0
        BY <2>2
      <4>2. d \in Not(Newlines) \/ d \in Opening
        BY <1>3, <2>1, <4>1
      <4>3. QED
        BY <1>2, <1>4, <4>2
    <3>2. QED
      BY <3>1
  <2>4. \A d \in c..b - 1 : d \notin Newlines
    BY <2>2, <2>3
  <2>5. QED
    BY <1>3, <2>1, <2>2, <2>4
<1>6. ASSUME NEW s \in 0..b - 1, (s = 0 /\ carry.comment) \/ s \in Opening,
             \A d \in s..b - 1 : d \notin Newlines
      PROVE  Carries(Not(Newlines), CommentStarts, b)
  <2>1. s \in s..b - 1 /\ s < b
    OBVIOUS
  <2>2. s \in Not(Newlines) \cap CommentStarts
    BY <1>1, <1>3, <1>4, <1>6, <2>1
  <2>3. \A d \in s + 1..b - 1 : d \in s..b - 1 /\ d \in 0..b - 1
    OBVIOUS
  <2>4. \A d \in s + 1..b - 1 : d \in Not(Newlines) \cup CommentStarts
    BY <1>1, <1>4, <1>6, <2>3
  <2>5. QED
    BY <2>1, <2>2, <2>4 DEF Carries
<1>7. QED
  BY <1>5, <1>6

(* The body of a comment is what the reference says it is. *)
LEMMA BodyIsCommented ==
  ASSUME Scanning, CommentInv, NEW b
  PROVE  b \in Body(Opening, Newlines) <=> b \in Bit /\ Commented(Padded, idx + b)
<1> DEFINE m == Not(Newlines)
           n == CommentStarts
           C == Carries(m, n, b)
<1>1. b \in Body(Opening, Newlines) => b \in Bit
  BY DEF Body, Not
<1>2. ASSUME b \in Bit
      PROVE  b \in Body(Opening, Newlines) <=> Commented(Padded, idx + b)
  <2>1. b \in 0..BlockSize /\ b \in Nat /\ idx \in Nat
    BY <1>2, Shapes, Blocks DEF Scanning
  <2>2. b \in m <=> b \notin Newlines
    BY <1>2 DEF Not
  <2>3. b \in Body(Opening, Newlines) <=> b \in m /\ IF b \in n THEN ~ C ELSE C
    <3>1. CommentBody(Opening, Newlines).mask = {c \in Bit : (c \in Xor(m, n)) # Carries(m, n, c)}
      BY DEF CommentBody, Plus, CommentStarts
    <3>2. C \in BOOLEAN
      BY DEF Carries
    <3>3. b \in CommentBody(Opening, Newlines).mask <=> IF b \in Xor(m, n) THEN ~ C ELSE C
      BY <1>2, <3>1, <3>2
    <3>4. b \in Body(Opening, Newlines) <=>
            b \in m /\ b \in Xor(m, CommentBody(Opening, Newlines).mask)
      BY DEF Body
    <3>5. QED
      BY <3>3, <3>4 DEF Xor
  <2>4. C <=> \E s \in 0..b - 1 : /\ (s = 0 /\ carry.comment) \/ s \in Opening
                                  /\ \A d \in s..b - 1 : d \notin Newlines
    BY <2>1, CarriedThroughComment
  <2>5. b \in n <=> (b = 0 /\ carry.comment) \/ b \in Opening
    BY DEF CommentStarts, Carried
  <2>6. Commented(Padded, idx + b) <=>
          \E s \in 0..b : /\ (s = 0 /\ carry.comment) \/ s \in Opening
                          /\ \A d \in s..b : d \notin Newlines
    BY <1>2, CommentedInBlock
  <2> HIDE DEF C, m, n
  <2>7. ASSUME b \in n, C PROVE FALSE
    <3>1. PICK s \in 0..b - 1 : /\ (s = 0 /\ carry.comment) \/ s \in Opening
                                /\ \A d \in s..b - 1 : d \notin Newlines
      BY <2>4, <2>7
    <3>2. b - 1 \in Bit /\ b - 1 \in Nat /\ b # 0 /\ s \in 0..b - 1
      BY <2>1, <3>1, Blocks
    <3>3. Commented(Padded, idx + (b - 1))
      BY <3>1, <3>2, CommentedInBlock
    <3>4. ~ Indented(Padded, (idx + (b - 1)) + 1)
      BY <2>1, <3>2, <3>3, CommentedNotIndented
    <3>5. (idx + (b - 1)) + 1 = idx + b
      BY <2>1, <3>2
    <3>6. b \in Opening
      BY <2>5, <2>7, <3>2
    <3>7. QED
      BY <3>4, <3>5, <3>6, OpenersOpen DEF Opens
  <2>8. ASSUME b \in m, b \in n \/ C PROVE Commented(Padded, idx + b)
    <3>1. CASE b \in n
      <4>1. b \in 0..b /\ \A d \in b..b : d \notin Newlines
        BY <2>1, <2>2, <2>8
      <4>2. QED
        BY <2>5, <2>6, <3>1, <4>1
    <3>2. CASE C
      <4>1. PICK s \in 0..b - 1 : /\ (s = 0 /\ carry.comment) \/ s \in Opening
                                  /\ \A d \in s..b - 1 : d \notin Newlines
        BY <2>4, <3>2
      <4>2. s \in 0..b /\ \A d \in s..b : d \in s..b - 1 \/ d = b
        BY <2>1
      <4>3. \A d \in s..b : d \notin Newlines
        BY <2>2, <2>8, <4>1, <4>2
      <4>4. QED
        BY <2>6, <4>1, <4>2, <4>3
    <3>3. QED
      BY <2>8, <3>1, <3>2
  <2>9. ASSUME Commented(Padded, idx + b) PROVE b \in m /\ (b \in n \/ C)
    <3>1. PICK s \in 0..b : /\ (s = 0 /\ carry.comment) \/ s \in Opening
                            /\ \A d \in s..b : d \notin Newlines
      BY <2>6, <2>9
    <3>2. b \in m
      BY <2>1, <2>2, <3>1
    <3>3. CASE s = b
      BY <2>5, <3>1, <3>2, <3>3
    <3>4. CASE s # b
      <4>1. s \in 0..b - 1 /\ \A d \in s..b - 1 : d \in s..b
        BY <2>1, <3>4
      <4>2. QED
        BY <2>4, <3>1, <3>2, <4>1
    <3>5. QED
      BY <3>3, <3>4
  <2>10. QED
    BY <2>3, <2>7, <2>8, <2>9
<1>3. QED
  BY <1>1, <1>2

LEMMA CommentHandedOn ==
  ASSUME Scanning, CommentInv
  PROVE  CommentBody(Opening, Newlines).overflow <=> Commented(Padded, idx + (BlockSize - 1))
<1>1. BlockSize \in 0..BlockSize /\ BlockSize - 1 \in Bit /\ BlockSize \in Nat \ {0}
  BY Blocks
<1>2. CommentBody(Opening, Newlines).overflow <=> Carries(Not(Newlines), CommentStarts, BlockSize)
  BY DEF CommentBody, Plus, CommentStarts
<1>3. Carries(Not(Newlines), CommentStarts, BlockSize) <=>
        \E s \in 0..BlockSize - 1 : /\ (s = 0 /\ carry.comment) \/ s \in Opening
                                    /\ \A d \in s..BlockSize - 1 : d \notin Newlines
  BY <1>1, CarriedThroughComment
<1>4. Commented(Padded, idx + (BlockSize - 1)) <=>
        \E s \in 0..BlockSize - 1 : /\ (s = 0 /\ carry.comment) \/ s \in Opening
                                    /\ \A d \in s..BlockSize - 1 : d \notin Newlines
  BY <1>1, CommentedInBlock
<1>5. QED
  BY <1>2, <1>3, <1>4

(* What is popped from the list lies before the block. *)
LEMMA EarlierBefore ==
  ASSUME Scanning, NEW e \in Earlier
  PROVE  e < idx /\ e \in Nat
<1>1. /\ Emitted \in Seq(Nat)
      /\ \A n \in 1..Len(Emitted) : Emitted[n] < idx
  BY EmittedList DEF Scanning
<1>2. \/ Earlier = {}
      \/ Earlier = {Emitted[Len(Emitted)]} /\ Len(Emitted) > 0
  BY <1>1, EarlierIsLast DEF Earlier
<1>3. Len(Emitted) > 0 => Emitted[Len(Emitted)] < idx /\ Emitted[Len(Emitted)] \in Nat
  BY <1>1, LenProperties, ElementOfSeq
<1>4. QED
  BY <1>2, <1>3

(* The comments of the text so far are known after every block. *)
LEMMA CommentStep ==
  ASSUME Scanning, CommentInv, idx < Length(input), ScanBlock
  PROVE  CommentInv'
<1>1. /\ input' = Text /\ idx' = idx + BlockSize /\ source' = source /\ result' = "scanning"
      /\ carry'.comment = CommentBody(Opening, Newlines).overflow
      /\ carry'.indent = InsideIndent(Spaces, Newlines)
  BY ScanBlockParts DEF Scanning
<1>2. Padded' = Padded
  BY <1>1 DEF Padded
<1>3. /\ idx \in Nat /\ BlockSize \in Nat \ {0} /\ DOMAIN input = DOMAIN source
      /\ DOMAIN source \subseteq Nat
  BY Shapes, Blocks DEF Scanning
<1>4. ASSUME NEW k \in DOMAIN source, k >= idx + BlockSize PROVE Text[k] = source[k]
  <2>1. k \notin {idx + b : b \in Blanked}
    BY <1>3, <1>4, Masks, Blocks
  <2>2. k \notin Earlier
    <3>1. \A e \in Earlier : e < idx
      BY EarlierBefore
    <3>2. k > idx /\ k \in Nat
      BY <1>3, <1>4
    <3>3. QED
      BY <1>3, <3>1, <3>2
  <2>3. Text[k] = input[k]
    BY <1>3, <2>1, <2>2 DEF Text, Blank
  <2>4. QED
    BY <1>3, <1>4, <2>3 DEF CommentInv, Scanning
<1>5. carry'.comment <=> Commented(Padded, (idx + BlockSize) - 1)
  <2>1. (idx + BlockSize) - 1 = idx + (BlockSize - 1)
    BY <1>3
  <2>2. QED
    BY <1>1, <2>1, CommentHandedOn
<1>6. carry'.indent <=> Indented(Padded, idx + BlockSize)
  BY <1>1, IndentHandedOn
<1>7. /\ carry'.comment \in BOOLEAN /\ carry'.indent \in BOOLEAN
  BY <1>1, CarriesBoolean DEF CommentBody, InsideIndent
<1>8. Indented(Padded, idx + BlockSize) \in BOOLEAN /\ Commented(Padded, (idx + BlockSize) - 1) \in BOOLEAN
  BY DEF Indented, Commented
<1>9. carry'.comment = (idx' > 0 /\ Commented(Padded', idx' - 1))
  BY <1>1, <1>2, <1>3, <1>5, <1>7, <1>8
<1>10. carry'.indent = Indented(Padded', idx')
  BY <1>1, <1>2, <1>6, <1>7, <1>8
<1>11. QED
  BY <1>1, <1>4, <1>9, <1>10 DEF CommentInv

-----------------------------------------------------------------------------
(* The line ends that go with a comment. *)

LEMMA StrippedBytes ==
  ASSUME TypeOK, NEW a \in Nat
  PROVE  /\ DOMAIN StrippedTo(a) = DOMAIN Padded
         /\ \A k \in DOMAIN Padded :
              /\ Commented(Padded, k) => StrippedTo(a)[k] = Space
              /\ (\E h \in 0..a - 1 : Takes(h, k)) => StrippedTo(a)[k] = Space
              /\ ~ Commented(Padded, k) /\ ~ (\E h \in 0..a - 1 : Takes(h, k))
                   => StrippedTo(a)[k] = Padded[k]
              /\ Alike(StrippedTo(a)[k], Clean[k])
<1> DEFINE gone == {k \in DOMAIN Padded : Commented(Padded, k) \/ \E h \in 0..a - 1 : Takes(h, k)}
<1>1. StrippedTo(a) = [k \in DOMAIN Padded |-> IF k \in gone THEN Space ELSE Padded[k]]
  BY DEF StrippedTo, Blank
<1>2. \A k \in DOMAIN Padded : k \in gone <=> Commented(Padded, k) \/ \E h \in 0..a - 1 : Takes(h, k)
  OBVIOUS
<1> HIDE DEF gone
<1>3. ASSUME NEW k \in DOMAIN Padded PROVE Alike(StrippedTo(a)[k], Clean[k])
  <2>1. CASE Commented(Padded, k)
    BY <1>1, <1>2, <2>1, PaddedBytes DEF Alike
  <2>2. CASE ~ Commented(Padded, k) /\ \E h \in 0..a - 1 : Takes(h, k)
    <3>1. Padded[k] = "NL"
      BY <2>2 DEF Takes, Precedes
    <3>2. QED
      BY <1>1, <1>2, <2>2, <3>1, PaddedBytes DEF Alike
  <2>3. CASE ~ Commented(Padded, k) /\ ~ \E h \in 0..a - 1 : Takes(h, k)
    BY <1>1, <1>2, <2>3, PaddedBytes DEF Alike
  <2>4. QED
    BY <2>1, <2>2, <2>3
<1>4. QED
  BY <1>1, <1>2, <1>3

(* One of the block goes with a comment of the block; it lies in the same  *)
(* block, and no comment of an earlier block can take it.                  *)
LEMMA TakenInBlock ==
  ASSUME Scanning, CommentInv, NEW q \in Bit
  PROVE  q \in NewlinesBefore(Opening, Newlines) <=>
           \E h \in 0..(idx + BlockSize) - 1 : Takes(h, idx + q)
<1>1. idx \in Nat /\ q \in Nat /\ BlockSize \in Nat /\ idx % BlockSize = 0
  BY Shapes, Blocks DEF Scanning
<1>2. \A b \in Bit : b \in Nat /\ b < BlockSize /\ (idx + b) \div BlockSize = idx \div BlockSize
  BY <1>1, Blocks, Multiples
<1>3. \A b \in Bit : b \in Newlines <=> Padded[idx + b] = "NL"
  BY BlockIsPadded, SpacesAre
<1>4. \A b \in Bit : b \in Opening <=> Opens(Padded, idx + b)
  BY OpenersOpen
<1>5. q \in NewlinesBefore(Opening, Newlines) <=>
        q \in Newlines /\ \E o \in Opening : q < o /\ \A n \in Newlines : n < o => n <= q
  <2>1. Opening \subseteq Bit /\ Newlines \subseteq Bit
    BY Masks
  <2>2. QED
    BY <2>1, NewlinesTaken
<1>6. ASSUME q \in Newlines, NEW o \in Opening, q < o, \A n \in Newlines : n < o => n <= q
      PROVE  idx + o \in 0..(idx + BlockSize) - 1 /\ Takes(idx + o, idx + q)
  <2>1. o \in Bit /\ o \in Nat /\ o < BlockSize
    BY <1>2, Masks
  <2>2. ASSUME NEW j \in (idx + q) + 1..(idx + o) - 1 PROVE Padded[j] # "NL"
    <3>1. j - idx \in Bit /\ j = idx + (j - idx) /\ q < j - idx /\ j - idx < o
      BY <1>1, <2>1, Blocks
    <3>2. j - idx \notin Newlines
      BY <1>1, <1>6, <2>1, <3>1, Masks
    <3>3. QED
      BY <1>3, <3>1, <3>2
  <2>3. Precedes(Padded, idx + q, idx + o)
    BY <1>1, <1>3, <1>4, <1>6, <2>1, <2>2 DEF Precedes
  <2>4. ~ Straddles(idx + q, idx + o)
    BY <1>2, <2>1 DEF Straddles
  <2>5. QED
    BY <1>1, <2>1, <2>3, <2>4 DEF Takes
<1>7. ASSUME NEW h \in 0..(idx + BlockSize) - 1, Takes(h, idx + q)
      PROVE  q \in Newlines /\ \E o \in Opening : q < o /\ \A n \in Newlines : n < o => n <= q
  <2>1. /\ idx + q < h /\ Padded[idx + q] = "NL" /\ Opens(Padded, h)
        /\ \A j \in (idx + q) + 1..h - 1 : Padded[j] # "NL"
    BY <1>7 DEF Takes, Precedes
  <2>2. PICK o \in Bit : o = h - idx /\ h = idx + o
    <3>1. h - idx \in Bit /\ h = idx + (h - idx)
      BY <1>1, <2>1, Blocks
    <3>2. QED
      BY <3>1
  <2>3. o \in Nat /\ q < o /\ o \in Opening /\ q \in Newlines
    BY <1>1, <1>2, <1>3, <1>4, <2>1, <2>2
  <2>4. ASSUME NEW n \in Newlines, n < o, ~ (n <= q) PROVE FALSE
    <3>1. n \in Bit /\ n \in Nat
      BY <1>2, Masks
    <3>2. idx + n \in (idx + q) + 1..h - 1
      BY <1>1, <2>2, <2>3, <2>4, <3>1
    <3>3. QED
      BY <1>3, <2>1, <3>1, <3>2
  <2>5. QED
    BY <2>3, <2>4
<1>8. QED
  BY <1>5, <1>6, <1>7

(* One of an earlier block can only go with a comment that opens with the  *)
(* block, right behind it.                                                 *)
LEMMA TakenEarlier ==
  ASSUME Scanning, CommentInv, NEW k \in 0..idx - 1, NEW h \in idx..(idx + BlockSize) - 1
  PROVE  Takes(h, k) <=> k = idx - 1 /\ h = idx /\ Padded[k] = "NL" /\ 0 \in Opening
<1>1. idx \in Nat /\ BlockSize \in Nat \ {0} /\ idx % BlockSize = 0 /\ 0 \in Bit /\ idx + 0 = idx
  BY Shapes, Blocks DEF Scanning
<1>2. 0 \in Opening <=> Opens(Padded, idx)
  BY <1>1, OpenersOpen
<1>3. k \div BlockSize # h \div BlockSize
  <2>1. k \div BlockSize < idx \div BlockSize
    BY <1>1, Multiples
  <2>2. h - idx \in 0..BlockSize - 1 /\ h = idx + (h - idx)
    BY <1>1
  <2>3. h \div BlockSize = idx \div BlockSize
    BY <1>1, <2>2, Multiples
  <2>4. k \div BlockSize \in Int /\ idx \div BlockSize \in Int
    BY <1>1
  <2>5. QED
    BY <2>1, <2>3, <2>4
<1>4. ~ Straddles(k, h) <=> h = k + 1
  BY <1>3 DEF Straddles
<1>5. h = k + 1 <=> k = idx - 1 /\ h = idx
  BY <1>1
<1>6. h = k + 1 => \A j \in k + 1..h - 1 : FALSE
  OBVIOUS
<1>7. QED
  BY <1>1, <1>2, <1>4, <1>5, <1>6 DEF Takes, Precedes

(* What is known of the text before idx, of comments, strings and tokens.  *)
Reading == Scanning /\ CommentInv /\ QuoteInv /\ TokenInv

LEMMA ScanningFacts ==
  ASSUME Scanning
  PROVE  /\ idx \in Nat /\ idx % BlockSize = 0 /\ BlockSize \in Nat \ {0}
         /\ idx - 1 \in Int /\ (idx + BlockSize) - 1 \in Nat
         /\ Length(source) \in Nat /\ DOMAIN source = 0..Length(source) - 1
         /\ DOMAIN input = DOMAIN source
BY Shapes, Blocks DEF Scanning

(* A line end right before the block is outside strings, as long as no     *)
(* control character was met in one.                                       *)
LEMMA NoOffenceBefore ==
  ASSUME Reading, ~ invalid, idx > 0, Padded[idx - 1] = "NL"
  PROVE  ~ Inside(Clean, idx - 1)
<1> DEFINE k == idx - 1
<1>1. k \in 0..idx - 1 /\ k \in DOMAIN Padded /\ k \in Nat
  BY ScanningFacts, PaddedReach DEF Reading
<1>2. ~ Commented(Padded, k)
  BY <1>1 DEF Commented
<1>3. Clean[k] = "NL"
  BY <1>1, <1>2, PaddedBytes DEF Reading, Scanning
<1>4. ~ Offends(k)
  BY <1>1 DEF Reading, QuoteInv, Scanning
<1>5. ASSUME NEW h \in 0..k + BlockSize, h \div BlockSize = k \div BlockSize, Takes(h, k)
      PROVE  FALSE
  <2>1. h > k
    BY <1>5 DEF Takes, Precedes
  <2>2. h \in idx..(idx + BlockSize) - 1 /\ h - idx \in 0..BlockSize - 1 /\ h = idx + (h - idx)
    BY <1>1, <2>1, ScanningFacts DEF Reading
  <2>3. h \div BlockSize = idx \div BlockSize /\ k \div BlockSize < idx \div BlockSize
    <3>1. \A b \in 0..BlockSize - 1 : (idx + b) \div BlockSize = idx \div BlockSize
      BY ScanningFacts, Multiples DEF Reading
    <3>2. \A j \in Nat : j < idx => j \div BlockSize < idx \div BlockSize
      BY ScanningFacts, Multiples DEF Reading
    <3>3. k < idx
      BY <1>1, ScanningFacts DEF Reading
    <3>4. QED
      BY <1>1, <2>2, <3>1, <3>2, <3>3
  <2>4. k \div BlockSize \in Int /\ idx \div BlockSize \in Int
    BY <1>1, ScanningFacts DEF Reading
  <2>5. QED
    BY <1>5, <2>3, <2>4
<1>6. "NL" \in Control
  BY DEF Control
<1>7. QED
  BY <1>3, <1>4, <1>5, <1>6 DEF Offends

(* The line end that is popped from the list is the one that is taken: as  *)
(* long as no string is broken, it was found and is the last.              *)
LEMMA EarlierIsTaken ==
  ASSUME Reading, ~ invalid, NEW k
  PROVE  k \in Earlier <=> k \in 0..idx - 1 /\ \E h \in idx..(idx + BlockSize) - 1 : Takes(h, k)
<1>1. /\ idx \in Nat /\ BlockSize \in Nat \ {0} /\ idx \in idx..(idx + BlockSize) - 1
      /\ 0 \in Bit /\ idx + 0 = idx
  BY ScanningFacts, Blocks DEF Reading
<1>2. /\ Emitted \in Seq(Nat) /\ Len(Emitted) \in Nat
      /\ \A n \in 1..Len(Emitted) : Emitted[n] \in Nat /\ Emitted[n] < idx
      /\ Ascending(Emitted)
      /\ Found = {Emitted[n] : n \in 1..Len(Emitted)}
  BY EmittedList, ElementOfSeq, LenProperties DEF Reading, Scanning
<1>3. Found = {j \in 0..idx - 1 : Token(StrippedTo(idx), j)}
  BY DEF Reading, TokenInv, Scanning
<1>4. 0 \in Opening <=> Opens(Padded, idx)
  BY <1>1, OpenersOpen DEF Reading
<1>5. ASSUME idx > 0
      PROVE  idx - 1 \in 0..idx - 1 /\ idx - 1 \in DOMAIN Padded /\ idx - 1 \in Nat
  BY <1>1, <1>5, PaddedReach DEF Reading
<1>6. ASSUME k \in Earlier
      PROVE  k = idx - 1 /\ idx > 0 /\ 0 \in Opening /\ Padded[k] = "NL"
  <2>1. PICK o \in Opening : /\ k = idx + o - 1 /\ idx + o > 0
                             /\ Emitted # << >> /\ Emitted[Len(Emitted)] = idx + o - 1
    BY <1>6 DEF Earlier, EarlierNewline
  <2>2. o \in Nat
    BY Masks, Blocks
  <2>3. Len(Emitted) \in 1..Len(Emitted)
    BY <1>2, <2>1, EmptySeq
  <2>4. idx + o - 1 < idx
    BY <1>2, <2>1, <2>3
  <2>5. o = 0 /\ idx > 0 /\ k = idx - 1
    BY <1>1, <2>1, <2>2, <2>4
  <2>6. k \in Found /\ Indented(Padded, idx)
    BY <1>2, <1>4, <2>1, <2>3, <2>5 DEF Opens
  <2>7. PICK l \in 0..idx : StartsLine(Padded, l) /\ \A j \in l..idx - 1 : Padded[j] = Space
    BY <2>6 DEF Indented
  <2>8. CASE l = idx
    BY <1>1, <2>1, <2>5, <2>7, <2>8 DEF StartsLine
  <2>9. CASE l # idx
    <3>1. k \in l..idx - 1 /\ k \in DOMAIN Padded
      BY <1>1, <1>5, <2>5, <2>7, <2>9
    <3>2. Padded[k] = Space
      BY <2>7, <3>1
    <3>3. StrippedTo(idx)[k] = Space
      BY <1>1, <3>1, <3>2, StrippedBytes DEF Reading, Scanning
    <3>4. ~ Token(StrippedTo(idx), k)
      BY <3>3 DEF Token, Delimits, Space, Quote
    <3>5. QED
      BY <1>3, <2>6, <3>4
  <2>10. QED
    BY <2>8, <2>9
<1>7. ASSUME k = idx - 1, idx > 0, 0 \in Opening, Padded[k] = "NL"
      PROVE  k \in Earlier
  <2>1. k \in 0..idx - 1 /\ k \in DOMAIN Padded /\ k \in Nat
    BY <1>5, <1>7
  <2>2. ~ Inside(Clean, k)
    BY <1>7, NoOffenceBefore
  <2>3. StrippedTo(idx)[k] = "NL"
    <3>1. ~ Commented(Padded, k)
      BY <1>7, <2>1 DEF Commented
    <3>2. ~ \E h \in 0..idx - 1 : Takes(h, k)
      BY <1>1, <1>7 DEF Takes, Precedes
    <3>3. QED
      BY <1>1, <1>7, <2>1, <3>1, <3>2, StrippedBytes DEF Reading, Scanning
  <2>4. \A j \in 0..k : Alike(StrippedTo(idx)[j], Clean[j])
    <3>1. \A j \in 0..k : j \in DOMAIN Padded
      BY <1>1, <1>7, PaddedReach DEF Reading
    <3>2. QED
      BY <1>1, <3>1, StrippedBytes DEF Reading, Scanning
  <2>5. ~ Inside(StrippedTo(idx), k)
    BY <2>1, <2>2, <2>4, InsideAgree
  <2>6. Token(StrippedTo(idx), k)
    BY <2>3, <2>5 DEF Token, Delimits, Quote, Space, Structural
  <2>7. PICK n \in 1..Len(Emitted) : Emitted[n] = k
    BY <1>2, <1>3, <2>1, <2>6
  <2>8. n = Len(Emitted)
    <3>1. ASSUME n # Len(Emitted) PROVE FALSE
      <4>1. n < Len(Emitted) /\ Len(Emitted) \in 1..Len(Emitted)
        BY <1>2, <2>7, <3>1
      <4>2. k < Emitted[Len(Emitted)] /\ Emitted[Len(Emitted)] < idx /\ Emitted[Len(Emitted)] \in Nat
        BY <1>2, <2>7, <4>1 DEF Ascending
      <4>3. QED
        BY <1>1, <1>7, <4>2
    <3>2. QED
      BY <3>1
  <2>9. Emitted # << >>
    BY <1>2, <2>7
  <2>10. \A m \in Newlines : m > 0
    <3>1. 0 \notin Newlines
      BY <1>1, <1>7, OpenersOpen, BlockIsPadded, SpacesAre DEF Reading, Opens
    <3>2. QED
      BY <3>1, Masks, Blocks
  <2>11. idx + 0 - 1 = k /\ idx + 0 > 0
    BY <1>1, <1>7
  <2>12. Emitted[Len(Emitted)] = idx + 0 - 1
    BY <2>7, <2>8, <2>11
  <2>13. QED
    BY <1>7, <2>9, <2>10, <2>11, <2>12 DEF Earlier, EarlierNewline
<1>8. QED
  <2>1. ASSUME k \in 0..idx - 1, NEW h \in idx..(idx + BlockSize) - 1, Takes(h, k)
        PROVE  k = idx - 1 /\ idx > 0 /\ 0 \in Opening /\ Padded[k] = "NL"
    BY <1>1, <2>1, TakenEarlier DEF Reading
  <2>2. ASSUME k = idx - 1, idx > 0, 0 \in Opening, Padded[k] = "NL"
        PROVE  k \in 0..idx - 1 /\ Takes(idx, k)
    BY <1>1, <1>5, <2>2, TakenEarlier DEF Reading
  <2>3. QED
    BY <1>1, <1>6, <1>7, <2>1, <2>2

-----------------------------------------------------------------------------
(* Escapes, one byte after the other. *)

LEMMA EscapedFirst ==
  ASSUME NEW t
  PROVE  ~ Escaped(t, 0)
<1>1. \A l \in 0..0 : (0 - l) % 2 = 0
  OBVIOUS
<1>2. QED
  BY <1>1 DEF Escaped

LEMMA EscapedNext ==
  ASSUME NEW t, NEW k \in Nat
  PROVE  Escaped(t, k + 1) <=> t[k] = Backslash /\ ~ Escaped(t, k)
<1> DEFINE run(l, e) == \A j \in l..e - 1 : t[j] = Backslash
           first(l) == l > 0 => t[l - 1] # Backslash
<1>1. ASSUME NEW l \in 0..k + 1, ((k + 1) - l) % 2 = 1, run(l, k + 1), first(l)
      PROVE  t[k] = Backslash /\ ~ Escaped(t, k)
  <2>1. l <= k
    BY <1>1
  <2>2. k \in l..(k + 1) - 1
    BY <2>1
  <2>3. ASSUME NEW m \in 0..k, (k - m) % 2 = 1, run(m, k), first(m) PROVE FALSE
    <3>1. CASE l < m
      <4>1. m - 1 \in l..(k + 1) - 1 /\ m > 0
        BY <3>1
      <4>2. QED
        BY <1>1, <2>3, <4>1
    <3>2. CASE m < l
      <4>1. l - 1 \in m..k - 1 /\ l > 0
        BY <2>1, <3>2
      <4>2. QED
        BY <1>1, <2>3, <4>1
    <3>3. CASE l = m
      BY <1>1, <2>1, <2>3, <3>3
    <3>4. QED
      BY <3>1, <3>2, <3>3
  <2>4. QED
    BY <1>1, <2>2, <2>3 DEF Escaped
<1>2. ASSUME t[k] = Backslash, ~ Escaped(t, k)
      PROVE  Escaped(t, k + 1)
  <2> DEFINE S == {l \in 0..k : run(l, k)}
  <2>1. S \subseteq Nat /\ k \in S
    OBVIOUS
  <2>2. PICK l \in S : \A m \in S : l <= m
    BY <2>1, LeastOf
  <2>3. first(l)
    <3>1. ASSUME l > 0, t[l - 1] = Backslash PROVE FALSE
      <4>1. \A j \in (l - 1)..k - 1 : j = l - 1 \/ j \in l..k - 1
        BY <2>2
      <4>2. l - 1 \in S
        BY <2>2, <3>1, <4>1
      <4>3. QED
        BY <2>2, <4>2
    <3>2. QED
      BY <3>1
  <2>4. ~ ((k - l) % 2 = 1)
    BY <1>2, <2>2, <2>3 DEF Escaped
  <2>5. ((k + 1) - l) % 2 = 1
    BY <2>2, <2>4
  <2>6. \A j \in l..(k + 1) - 1 : j = k \/ j \in l..k - 1
    BY <2>2
  <2>7. run(l, k + 1)
    BY <1>2, <2>2, <2>6
  <2>8. l \in 0..k + 1
    BY <2>2
  <2>9. QED
    BY <2>3, <2>5, <2>7, <2>8 DEF Escaped
<1>3. QED
  BY <1>1, <1>2 DEF Escaped

-----------------------------------------------------------------------------
(* The block after its comments were blanked. *)

LEMMA CleanedBytes ==
  ASSUME Scanning, CommentInv, NEW b \in Bit
  PROVE  /\ idx + b \in DOMAIN Padded /\ idx + b \in Nat
         /\ b \in Blanked => Cleaned[b] = Space
         /\ b \notin Blanked => /\ Cleaned[b] = Padded[idx + b]
                                /\ Clean[idx + b] = Padded[idx + b]
                                /\ ~ Commented(Padded, idx + b)
         /\ b \in Blanked /\ ~ Commented(Padded, idx + b)
              => Padded[idx + b] = "NL" /\ Clean[idx + b] = "NL"
         /\ Commented(Padded, idx + b) => b \in Blanked /\ Clean[idx + b] = Space
         /\ Alike(Cleaned[b], Clean[idx + b])
<1>1. idx + b \in DOMAIN Padded /\ idx + b \in Nat /\ idx \in Nat /\ b \in 0..BlockSize /\ b \in Nat
  <2>1. b \in 0..BlockSize /\ b \in Nat
    BY Blocks
  <2>2. QED
    BY <2>1, PaddedReach, ScanningFacts
<1>2. b \in Body(Opening, Newlines) <=> Commented(Padded, idx + b)
  BY BodyIsCommented
<1>3. b \in NewlinesBefore(Opening, Newlines) => Padded[idx + b] = "NL"
  <2>1. Opening \subseteq Bit /\ Newlines \subseteq Bit
    BY Masks
  <2>2. b \in NewlinesBefore(Opening, Newlines) => b \in Newlines
    BY <2>1, NewlinesTaken
  <2>3. QED
    BY <2>2, SpacesAre, BlockIsPadded
<1>4. b \in Blanked <=> b \in Body(Opening, Newlines) \/ b \in NewlinesBefore(Opening, Newlines)
  BY DEF Blanked
<1>5. DOMAIN Text = DOMAIN input
  BY DEF Text, Blank
<1>6. b \in Blanked => Cleaned[b] = Space
  <2>1. ASSUME b \in Blanked, idx + b \in DOMAIN input PROVE Text[idx + b] = Space
    BY <2>1 DEF Text, Blank
  <2>2. Cleaned[b] = IF idx + b \in DOMAIN Text THEN Text[idx + b] ELSE Space
    BY DEF Cleaned, Block
  <2>3. QED
    BY <1>5, <2>1, <2>2
<1>7. b \notin Blanked => Cleaned[b] = Raw[b]
  <2>1. ASSUME b \notin Blanked, idx + b \in DOMAIN input PROVE Text[idx + b] = input[idx + b]
    <3>1. idx + b \notin {idx + c : c \in Blanked}
      <4>1. \A c \in Blanked : c \in Nat
        BY Masks, Blocks
      <4>2. QED
        BY <1>1, <2>1, <4>1
    <3>2. idx + b \notin Earlier
      <4>1. \A e \in Earlier : e < idx
        BY EarlierBefore
      <4>2. QED
        BY <1>1, <4>1
    <3>3. QED
      BY <2>1, <3>1, <3>2 DEF Text, Blank
  <2>2. QED
    BY <1>5, <2>1 DEF Cleaned, Raw, Block
<1>8. Raw[b] = Padded[idx + b]
  BY BlockIsPadded
<1>9. /\ Commented(Padded, idx + b) => Clean[idx + b] = Space
      /\ ~ Commented(Padded, idx + b) => Clean[idx + b] = Padded[idx + b]
  BY <1>1, PaddedBytes DEF Scanning
<1>10. QED
  BY <1>1, <1>2, <1>3, <1>4, <1>6, <1>7, <1>8, <1>9 DEF Alike

(* The bytes behind an odd number of backslashes, by addition. *)
BlockBackslashes == Backslashes(Cleaned)
OddStarts        == RunStarts(Cleaned) \ EvenStartMask
EvenStarts       == RunStarts(Cleaned) \cap EvenStartMask

LEMMA StartsOfRuns ==
  ASSUME NEW b
  PROVE  /\ b \in RunStarts(Cleaned) <=>
              b \in BlockBackslashes /\ (b > 0 => b - 1 \notin BlockBackslashes)
         /\ b \in BlockBackslashes => b \in Bit /\ b \in Nat
         /\ b \in Bit => (b \in EvenStartMask <=> b % 2 = 0 /\ ~ (b = 0 /\ carry.odd))
<1>1. BlockBackslashes \subseteq Bit
  BY DEF BlockBackslashes, Backslashes, Find
<1>2. \A c \in Bit : c \in Shl(BlockBackslashes) <=> c > 0 /\ c - 1 \in BlockBackslashes
  BY <1>1, Shifted
<1>3. \A c \in Bit : c \in Nat
  BY Blocks
<1>4. b \in RunStarts(Cleaned) <=> b \in BlockBackslashes /\ b \notin Shl(BlockBackslashes)
  BY DEF RunStarts, BlockBackslashes
<1>5. b \in Bit => (b \in EvenStartMask <=> b % 2 = 0 /\ ~ (b = 0 /\ carry.odd))
  <2>1. 0 % 2 = 0 /\ 0 \in Bit
    BY Blocks
  <2>2. EvenBits = {c \in Bit : c % 2 = 0}
    BY DEF EvenBits
  <2>3. QED
    BY <2>1, <2>2 DEF EvenStartMask, Xor, Carried
<1>6. QED
  BY <1>1, <1>2, <1>3, <1>4, <1>5

(* Starting at an even bit, an odd run ends in front of an odd one, and    *)
(* the other way round.                                                    *)
EndsOdd(b) ==
  \/ b = 0 /\ carry.odd
  \/ b % 2 = 1 /\ Carries(BlockBackslashes, EvenStarts, b)
  \/ b % 2 = 0 /\ Carries(BlockBackslashes, OddStarts, b)

(* A carry comes along the run that ends in front of the bit. *)
LEMMA CarriedAlongRun ==
  ASSUME NEW starts, starts \subseteq RunStarts(Cleaned), NEW b \in 0..BlockSize
  PROVE  Carries(BlockBackslashes, starts, b) <=>
           \E c \in 0..b - 1 : c \in starts /\ \A d \in c..b - 1 : d \in BlockBackslashes
<1>1. \A c \in starts : c \in BlockBackslashes /\ c \in Nat
  BY StartsOfRuns
<1>2. ASSUME Carries(BlockBackslashes, starts, b)
      PROVE  \E c \in 0..b - 1 : c \in starts /\ \A d \in c..b - 1 : d \in BlockBackslashes
  <2>1. PICK c \in BlockBackslashes \cap starts :
               c < b /\ \A d \in c + 1..b - 1 : d \in BlockBackslashes \cup starts
    BY <1>2 DEF Carries
  <2>2. c \in 0..b - 1 /\ c \in starts
    BY <1>1, <2>1
  <2>3. \A d \in c..b - 1 : d = c \/ d \in c + 1..b - 1
    BY <2>2
  <2>4. \A d \in c..b - 1 : d \in BlockBackslashes
    BY <1>1, <2>1, <2>3
  <2>5. QED
    BY <2>2, <2>4
<1>3. ASSUME NEW c \in 0..b - 1, c \in starts, \A d \in c..b - 1 : d \in BlockBackslashes
      PROVE  Carries(BlockBackslashes, starts, b)
  <2>1. c < b /\ \A d \in c + 1..b - 1 : d \in c..b - 1
    BY <1>3
  <2>2. QED
    BY <1>1, <1>3, <2>1 DEF Carries
<1>4. QED
  BY <1>2, <1>3

LEMMA EndsOddNext ==
  ASSUME NEW b \in Bit
  PROVE  EndsOdd(b + 1) <=> b \in BlockBackslashes /\ ~ EndsOdd(b)
<1> DEFINE along(c, e) == c \in RunStarts(Cleaned) /\ \A d \in c..e - 1 : d \in BlockBackslashes
           even(c) == c \in EvenStartMask
<1>1. b \in Nat /\ b \in 0..BlockSize /\ b + 1 \in 0..BlockSize
  BY Blocks
<1>2. ASSUME NEW e \in 0..BlockSize
      PROVE  EndsOdd(e) <=> \/ e = 0 /\ carry.odd
                            \/ \E c \in 0..e - 1 : along(c, e) /\ (IF even(c) THEN e % 2 = 1 ELSE e % 2 = 0)
  <2>1. EvenStarts \subseteq RunStarts(Cleaned) /\ OddStarts \subseteq RunStarts(Cleaned)
    BY DEF EvenStarts, OddStarts
  <2>2. Carries(BlockBackslashes, EvenStarts, e) <=>
          \E c \in 0..e - 1 : c \in EvenStarts /\ \A d \in c..e - 1 : d \in BlockBackslashes
    BY <2>1, CarriedAlongRun
  <2>3. Carries(BlockBackslashes, OddStarts, e) <=>
          \E c \in 0..e - 1 : c \in OddStarts /\ \A d \in c..e - 1 : d \in BlockBackslashes
    BY <2>1, CarriedAlongRun
  <2>4. \A c : (c \in EvenStarts <=> c \in RunStarts(Cleaned) /\ even(c))
               /\ (c \in OddStarts <=> c \in RunStarts(Cleaned) /\ ~ even(c))
    BY DEF EvenStarts, OddStarts
  <2>5. e % 2 = 0 \/ e % 2 = 1
    OBVIOUS
  <2>6. QED
    BY <2>2, <2>3, <2>4, <2>5 DEF EndsOdd
<1>3. ASSUME NEW c \in 0..b, NEW e \in 0..b - 1, along(c, b + 1), along(e, b) PROVE c = e
  <2>1. CASE c < e
    <3>1. e - 1 \in c..(b + 1) - 1 /\ e > 0
      BY <1>1, <2>1
    <3>2. QED
      BY <1>3, <3>1, StartsOfRuns
  <2>2. CASE e < c
    <3>1. c - 1 \in e..b - 1 /\ c > 0
      BY <1>1, <2>2
    <3>2. QED
      BY <1>3, <3>1, StartsOfRuns
  <2>3. QED
    BY <1>1, <2>1, <2>2
<1>4. b % 2 = 0 <=> (b + 1) % 2 = 1
  BY <1>1
<1>5. b % 2 = 1 <=> (b + 1) % 2 = 0
  BY <1>1
<1>6. ASSUME EndsOdd(b + 1) PROVE b \in BlockBackslashes /\ ~ EndsOdd(b)
  <2>1. PICK c \in 0..(b + 1) - 1 : along(c, b + 1) /\ (IF even(c) THEN (b + 1) % 2 = 1 ELSE (b + 1) % 2 = 0)
    BY <1>1, <1>2, <1>6
  <2>2. b \in c..(b + 1) - 1 /\ c \in 0..b
    BY <1>1
  <2>3. ASSUME NEW e \in 0..b - 1, along(e, b), IF even(e) THEN b % 2 = 1 ELSE b % 2 = 0 PROVE FALSE
    <3>1. c = e
      BY <1>3, <2>1, <2>2, <2>3
    <3>2. QED
      BY <1>4, <1>5, <2>1, <2>3, <3>1
  <2>4. ASSUME b = 0, carry.odd PROVE FALSE
    <3>1. c = 0 /\ 0 \in Bit
      BY <2>2, <2>4
    <3>2. ~ even(c)
      BY <2>4, <3>1, StartsOfRuns
    <3>3. QED
      BY <1>5, <2>1, <2>4, <3>2
  <2>5. QED
    BY <1>1, <1>2, <2>1, <2>2, <2>3, <2>4
<1>7. ASSUME b \in BlockBackslashes, ~ EndsOdd(b) PROVE EndsOdd(b + 1)
  <2> DEFINE S == {c \in 0..b : \A d \in c..b : d \in BlockBackslashes}
  <2>1. S \subseteq Nat /\ b \in S
    BY <1>1, <1>7
  <2>2. PICK c \in S : \A e \in S : c <= e
    BY <2>1, LeastOf
  <2>3. c \in Nat /\ c \in 0..b /\ c \in BlockBackslashes /\ \A d \in c..b : d \in BlockBackslashes
    BY <2>2
  <2>4. c > 0 => c - 1 \notin BlockBackslashes
    <3>1. ASSUME c > 0, c - 1 \in BlockBackslashes PROVE FALSE
      <4>1. \A d \in (c - 1)..b : d = c - 1 \/ d \in c..b
        BY <2>3
      <4>2. \A d \in (c - 1)..b : d \in BlockBackslashes
        BY <2>3, <3>1, <4>1
      <4>3. c - 1 \in 0..b
        BY <1>1, <2>3, <3>1
      <4>4. c - 1 \in S
        BY <4>2, <4>3
      <4>5. QED
        BY <2>2, <2>3, <4>4
    <3>2. QED
      BY <3>1
  <2>5. c \in RunStarts(Cleaned) /\ c \in Bit
    BY <2>3, <2>4, StartsOfRuns
  <2>6. along(c, b + 1)
    <3>1. \A d \in c..(b + 1) - 1 : d \in c..b
      BY <1>1, <2>3
    <3>2. QED
      BY <2>3, <2>5, <3>1
  <2>7. IF even(c) THEN (b + 1) % 2 = 1 ELSE (b + 1) % 2 = 0
    <3>1. CASE c = b
      <4>1. even(b) <=> b % 2 = 0 /\ ~ (b = 0 /\ carry.odd)
        BY StartsOfRuns
      <4>2. ~ (b = 0 /\ carry.odd)
        BY <1>7 DEF EndsOdd
      <4>3. b % 2 = 0 \/ b % 2 = 1
        BY <1>1
      <4>4. QED
        BY <1>4, <1>5, <3>1, <4>1, <4>2, <4>3
    <3>2. CASE c # b
      <4>1. c \in 0..b - 1 /\ \A d \in c..b - 1 : d \in c..b
        BY <1>1, <2>3, <3>2
      <4>2. along(c, b)
        BY <2>3, <2>5, <4>1
      <4>3. ~ (IF even(c) THEN b % 2 = 1 ELSE b % 2 = 0)
        BY <1>1, <1>2, <1>7, <4>1, <4>2
      <4>4. b % 2 = 0 \/ b % 2 = 1
        BY <1>1
      <4>5. QED
        BY <1>4, <1>5, <4>3, <4>4
    <3>3. QED
      BY <3>1, <3>2
  <2>8. c \in 0..(b + 1) - 1
    BY <1>1, <2>3
  <2>9. QED
    BY <1>1, <1>2, <2>6, <2>7, <2>8
<1>8. QED
  BY <1>6, <1>7

(* The same on the text. *)
LEMMA EscapedInBlock ==
  ASSUME Scanning, CommentInv, QuoteInv, NEW b \in 0..BlockSize
  PROVE  Escaped(Clean, idx + b) <=> EndsOdd(b)
<1> DEFINE same(c) == Escaped(Clean, idx + c) <=> EndsOdd(c)
           others == {c \in 0..BlockSize : ~ same(c)}
<1>1. idx \in Nat /\ idx + 0 = idx /\ BlockSize \in Nat
  BY ScanningFacts
<1>2. same(0)
  <2>1. carry.odd <=> Escaped(Clean, idx)
    BY DEF QuoteInv, Scanning
  <2>2. ~ Carries(BlockBackslashes, EvenStarts, 0) /\ ~ Carries(BlockBackslashes, OddStarts, 0)
    <3>1. \A c \in BlockBackslashes : ~ (c < 0)
      BY StartsOfRuns
    <3>2. QED
      BY <3>1 DEF Carries
  <2>3. QED
    BY <1>1, <2>1, <2>2 DEF EndsOdd
<1>3. ASSUME NEW c \in Bit, same(c) PROVE same(c + 1)
  <2>1. c \in Nat /\ idx + c \in Nat /\ (idx + c) + 1 = idx + (c + 1)
    BY <1>1, Blocks
  <2>2. Escaped(Clean, (idx + c) + 1) <=> Clean[idx + c] = Backslash /\ ~ Escaped(Clean, idx + c)
    BY <2>1, EscapedNext
  <2>3. c \in BlockBackslashes <=> Clean[idx + c] = Backslash
    <3>1. Cleaned[c] = Backslash <=> Clean[idx + c] = Backslash
      BY CleanedBytes, AlikeBytes
    <3>2. QED
      BY <3>1 DEF BlockBackslashes, Backslashes, Find
  <2>4. EndsOdd(c + 1) <=> c \in BlockBackslashes /\ ~ EndsOdd(c)
    BY EndsOddNext
  <2>5. QED
    BY <1>3, <2>1, <2>2, <2>3, <2>4
<1>4. ASSUME others # {} PROVE FALSE
  <2>1. others \subseteq Nat
    OBVIOUS
  <2>2. PICK c \in others : \A e \in others : c <= e
    BY <1>4, <2>1, LeastOf
  <2>3. c # 0 /\ c \in 0..BlockSize
    BY <1>2, <2>2
  <2>4. c - 1 \in Bit /\ (c - 1) + 1 = c /\ c - 1 \in 0..BlockSize
    BY <1>1, <2>3, Blocks
  <2>5. c - 1 \notin others
    BY <1>1, <2>2, <2>3
  <2>6. same(c - 1)
    BY <2>4, <2>5
  <2>7. same((c - 1) + 1)
    BY <1>3, <2>4, <2>6
  <2>8. QED
    BY <2>2, <2>4, <2>7
<1>5. QED
  BY <1>4

LEMMA OddHandedOn ==
  ASSUME Scanning, CommentInv, QuoteInv
  PROVE  OddCarries(Cleaned).overflow <=> Escaped(Clean, idx + BlockSize)
<1>1. BlockSize \in 0..BlockSize /\ BlockSize # 0 /\ BlockSize % 2 = 0
  BY Blocks, BlockSizeAssumption
<1>2. OddCarries(Cleaned).overflow <=> Carries(BlockBackslashes, OddStarts, BlockSize)
  BY DEF OddCarries, Plus, BlockBackslashes, OddStarts
<1>3. EndsOdd(BlockSize) <=> Carries(BlockBackslashes, OddStarts, BlockSize)
  BY <1>1 DEF EndsOdd
<1>4. QED
  BY <1>1, <1>2, <1>3, EscapedInBlock

(* Quotes that open or close a string. *)
LEMMA QuotesDelimit ==
  ASSUME Scanning, CommentInv, QuoteInv, NEW b
  PROVE  b \in Quotes <=> b \in Bit /\ Delimits(Clean, idx + b)
<1>1. b \in Quotes => b \in Bit
  BY Masks
<1>2. ASSUME b \in Bit PROVE b \in Quotes <=> Delimits(Clean, idx + b)
  <2>1. b \in 0..BlockSize /\ b \in Nat
    BY <1>2, Blocks
  <2>2. Cleaned[b] = Quote <=> Clean[idx + b] = Quote
    BY <1>2, CleanedBytes, AlikeBytes
  <2>3. b \in Quotes <=> Cleaned[b] = Quote /\ b \notin OddEnds(Cleaned)
    BY <1>2 DEF Quotes, QuoteBits, Find
  <2>4. Cleaned[b] = Quote => b \notin BlockBackslashes
    BY DEF BlockBackslashes, Backslashes, Find, Quote, Backslash
  <2>5. ASSUME b \notin BlockBackslashes PROVE b \in OddEnds(Cleaned) <=> EndsOdd(b)
    <3>1. EvenStarts \subseteq BlockBackslashes /\ OddStarts \subseteq BlockBackslashes
      BY StartsOfRuns DEF EvenStarts, OddStarts
    <3>2. b \in EvenCarries(Cleaned).mask <=> Carries(BlockBackslashes, EvenStarts, b)
      <4>1. EvenCarries(Cleaned).mask =
              {c \in Bit : (c \in Xor(BlockBackslashes, EvenStarts)) # Carries(BlockBackslashes, EvenStarts, c)}
        BY DEF EvenCarries, Plus, BlockBackslashes, EvenStarts
      <4>2. b \notin Xor(BlockBackslashes, EvenStarts)
        BY <2>5, <3>1 DEF Xor
      <4>3. Carries(BlockBackslashes, EvenStarts, b) \in BOOLEAN
        BY DEF Carries
      <4>4. QED
        BY <1>2, <4>1, <4>2, <4>3
    <3>3. b \in OddCarries(Cleaned).mask <=> Carries(BlockBackslashes, OddStarts, b)
      <4>1. OddCarries(Cleaned).mask =
              {c \in Bit : (c \in Xor(BlockBackslashes, OddStarts)) # Carries(BlockBackslashes, OddStarts, c)}
        BY DEF OddCarries, Plus, BlockBackslashes, OddStarts
      <4>2. b \notin Xor(BlockBackslashes, OddStarts)
        BY <2>5, <3>1 DEF Xor
      <4>3. Carries(BlockBackslashes, OddStarts, b) \in BOOLEAN
        BY DEF Carries
      <4>4. QED
        BY <1>2, <4>1, <4>2, <4>3
    <3>4. /\ b \in EvenBits <=> b % 2 = 0
          /\ b \in OddBits <=> b % 2 = 1
      BY <1>2, <2>1 DEF EvenBits, OddBits
    <3>5. b \in OddEnds(Cleaned) <=>
            \/ b \in EvenCarries(Cleaned).mask /\ b \in OddBits
            \/ (b \in OddCarries(Cleaned).mask \/ b \in Carried(carry.odd)) /\ b \in EvenBits
      BY <2>5 DEF OddEnds, BlockBackslashes
    <3>6. b \in Carried(carry.odd) <=> b = 0 /\ carry.odd
      BY DEF Carried
    <3>7. b = 0 => b % 2 = 0
      BY <2>1
    <3>8. QED
      BY <3>2, <3>3, <3>4, <3>5, <3>6, <3>7 DEF EndsOdd
  <2>6. Escaped(Clean, idx + b) <=> EndsOdd(b)
    BY <2>1, EscapedInBlock
  <2>7. QED
    BY <2>2, <2>3, <2>4, <2>5, <2>6 DEF Delimits
<1>3. QED
  BY <1>1, <1>2

(* The parity of the quotes up to a bit, one bit after the other. *)
LEMMA MaskNext ==
  ASSUME NEW bits, bits \subseteq Bit, carry.quote \in BOOLEAN
  PROVE  /\ 0 \in QuoteMask(bits) <=> IF 0 \in bits THEN ~ carry.quote ELSE carry.quote
         /\ \A b \in 0..BlockSize - 2 :
              b + 1 \in QuoteMask(bits) <=>
                IF b + 1 \in bits THEN ~ (b \in QuoteMask(bits)) ELSE b \in QuoteMask(bits)
<1> DEFINE upto(b) == {q \in bits : q <= b}
           odd(b) == Cardinality(upto(b)) % 2 = 1
<1>1. \A b \in bits : b \in Nat
  BY Blocks
<1>2. ASSUME NEW b PROVE IsFiniteSet(upto(b)) /\ Cardinality(upto(b)) \in Nat
  <2>1. IsFiniteSet(bits) /\ upto(b) \in SUBSET bits
    BY Ranks
  <2>2. QED
    BY <2>1, FS_Subset, FS_CardinalityType
<1>3. ASSUME NEW b \in Bit PROVE b \in QuoteMask(bits) <=> IF odd(b) THEN ~ carry.quote ELSE carry.quote
  BY DEF QuoteMask
<1>4. odd(0) <=> 0 \in bits
  <2>1. CASE 0 \in bits
    <3>1. upto(0) = {0}
      BY <1>1, <2>1
    <3>2. Cardinality({0}) = 1
      BY FS_Singleton
    <3>3. QED
      BY <2>1, <3>1, <3>2
  <2>2. CASE 0 \notin bits
    <3>1. upto(0) = {}
      BY <1>1, <2>2
    <3>2. Cardinality({}) = 0
      BY FS_EmptySet
    <3>3. QED
      BY <2>2, <3>1, <3>2
  <2>3. QED
    BY <2>1, <2>2
<1>5. ASSUME NEW b \in Nat PROVE odd(b + 1) <=> IF b + 1 \in bits THEN ~ odd(b) ELSE odd(b)
  <2>1. CASE b + 1 \in bits
    <3>1. upto(b + 1) = upto(b) \cup {b + 1} /\ b + 1 \notin upto(b)
      <4>1. \A q \in bits : q <= b + 1 <=> q <= b \/ q = b + 1
        BY <1>1
      <4>2. ~ (b + 1 <= b)
        OBVIOUS
      <4>3. QED
        BY <2>1, <4>1, <4>2
    <3>2. Cardinality(upto(b + 1)) = Cardinality(upto(b)) + 1
      BY <1>2, <3>1, FS_AddElement
    <3>3. Cardinality(upto(b)) \in Nat
      BY <1>2
    <3> HIDE DEF upto
    <3>4. QED
      BY <2>1, <3>2, <3>3
  <2>2. CASE b + 1 \notin bits
    <3>1. upto(b + 1) = upto(b)
      BY <1>1, <2>2
    <3>2. QED
      BY <2>2, <3>1
  <2>3. QED
    BY <2>1, <2>2
<1>6. 0 \in Bit /\ \A b \in 0..BlockSize - 2 : b \in Bit /\ b + 1 \in Bit /\ b \in Nat
  BY Blocks
<1> HIDE DEF odd
<1>7. QED
  BY <1>3, <1>4, <1>5, <1>6

LEMMA CarryBooleans ==
  ASSUME TypeOK
  PROVE  /\ carry.odd \in BOOLEAN /\ carry.quote \in BOOLEAN /\ carry.pred \in BOOLEAN
         /\ invalid \in BOOLEAN /\ broken \in BOOLEAN
BY DEF TypeOK

(* The mask is the inside of the strings. *)
LEMMA MaskInside ==
  ASSUME Scanning, CommentInv, QuoteInv, NEW b \in Bit
  PROVE  b \in Mask <=> Inside(Clean, idx + b)
<1> DEFINE same(c) == c \in Mask <=> Inside(Clean, idx + c)
           others == {c \in Bit : ~ same(c)}
<1>1. /\ idx \in Nat /\ idx + 0 = idx /\ BlockSize \in Nat /\ 0 \in Bit
      /\ Quotes \subseteq Bit /\ Mask = QuoteMask(Quotes)
  BY ScanningFacts, Blocks, Masks DEF Mask
<1>2. carry.quote \in BOOLEAN
  BY CarryBooleans DEF Scanning
<1>3. carry.quote <=> idx > 0 /\ Inside(Clean, idx - 1)
  BY DEF QuoteInv, Scanning
<1>4. same(0)
  <2>1. 0 \in Mask <=> IF 0 \in Quotes THEN ~ carry.quote ELSE carry.quote
    BY <1>1, <1>2, MaskNext
  <2>2. 0 \in Quotes <=> Delimits(Clean, idx)
    BY <1>1, QuotesDelimit
  <2>3. CASE idx = 0
    BY <1>1, <1>3, <2>1, <2>2, <2>3, InsideFirst
  <2>4. CASE idx # 0
    <3>1. idx - 1 \in Nat /\ (idx - 1) + 1 = idx /\ idx > 0
      BY <1>1, <2>4
    <3>2. Inside(Clean, (idx - 1) + 1) <=>
            IF Delimits(Clean, (idx - 1) + 1) THEN ~ Inside(Clean, idx - 1) ELSE Inside(Clean, idx - 1)
      BY <3>1, InsideNext
    <3>3. QED
      BY <1>1, <1>3, <2>1, <2>2, <3>1, <3>2
  <2>5. QED
    BY <2>3, <2>4
<1>5. ASSUME NEW c \in 0..BlockSize - 2, same(c) PROVE same(c + 1)
  <2>1. c + 1 \in Mask <=> IF c + 1 \in Quotes THEN ~ (c \in Mask) ELSE c \in Mask
    BY <1>1, <1>2, MaskNext
  <2>2. c + 1 \in Bit /\ idx + c \in Nat /\ (idx + c) + 1 = idx + (c + 1)
    BY <1>1, Blocks
  <2>3. c + 1 \in Quotes <=> Delimits(Clean, idx + (c + 1))
    BY <2>2, QuotesDelimit
  <2>4. Inside(Clean, (idx + c) + 1) <=>
          IF Delimits(Clean, (idx + c) + 1) THEN ~ Inside(Clean, idx + c) ELSE Inside(Clean, idx + c)
    BY <2>2, InsideNext
  <2>5. QED
    BY <1>5, <2>1, <2>2, <2>3, <2>4
<1>6. ASSUME others # {} PROVE FALSE
  <2>1. others \subseteq Nat
    BY Blocks
  <2>2. PICK c \in others : \A e \in others : c <= e
    BY <1>6, <2>1, LeastOf
  <2>3. c # 0 /\ c \in Bit /\ c \in Nat
    BY <1>4, <2>1, <2>2
  <2>4. c - 1 \in Bit /\ (c - 1) + 1 = c /\ c - 1 \in 0..BlockSize - 2
    BY <1>1, <2>3, Blocks
  <2>5. c - 1 \notin others
    BY <1>1, <2>2, <2>3
  <2>6. same(c - 1)
    BY <2>4, <2>5
  <2>7. same((c - 1) + 1)
    BY <1>5, <2>4, <2>6
  <2>8. QED
    BY <2>2, <2>4, <2>7
<1>7. QED
  BY <1>6

LEMMA SameBlock ==
  ASSUME NEW m \in Nat \ {0}, NEW x \in Nat, x % m = 0, NEW k \in Nat, k \div m = x \div m
  PROVE  x <= k /\ k < x + m
<1>1. PICK p \in Nat : x = p * m /\ p = x \div m
  OBVIOUS
<1>2. (k \div m) * m <= k /\ k < (k \div m) * m + m
  OBVIOUS
<1>3. QED
  BY <1>1, <1>2

(* A control character that is seen in a string of this block. *)
LEMMA OffendsInBlock ==
  ASSUME Scanning, CommentInv, QuoteInv, NEW b \in Bit
  PROVE  Offends(idx + b) <=> b \in Mask \cap Find(Cleaned, Control)
<1> DEFINE k == idx + b
<1>1. /\ idx \in Nat /\ idx % BlockSize = 0 /\ BlockSize \in Nat \ {0} /\ b \in Nat /\ b < BlockSize
      /\ b \in 0..BlockSize - 1
  BY ScanningFacts, Blocks
<1>2. k \div BlockSize = idx \div BlockSize
  BY <1>1, Multiples
<1>3. b \in Mask <=> Inside(Clean, k)
  BY MaskInside
<1>4. (\E h \in 0..k + BlockSize : h \div BlockSize = k \div BlockSize /\ Takes(h, k))
        <=> b \in NewlinesBefore(Opening, Newlines)
  <2>1. ASSUME NEW h \in 0..k + BlockSize, h \div BlockSize = k \div BlockSize, Takes(h, k)
        PROVE  h \in 0..(idx + BlockSize) - 1
    <3>1. h < idx + BlockSize
      <4>1. h \in Nat /\ h \div BlockSize = idx \div BlockSize
        BY <1>1, <1>2, <2>1
      <4> HIDE DEF k
      <4>2. QED
        BY <1>1, <4>1, SameBlock
    <3>2. QED
      BY <1>1, <3>1
  <2>2. ASSUME NEW h \in 0..(idx + BlockSize) - 1, Takes(h, k)
        PROVE  h \in 0..k + BlockSize /\ h \div BlockSize = k \div BlockSize
    <3>1. h > k
      BY <2>2 DEF Takes, Precedes
    <3>2. h - idx \in 0..BlockSize - 1 /\ h = idx + (h - idx)
      BY <1>1, <3>1
    <3>3. \A c \in 0..BlockSize - 1 : (idx + c) \div BlockSize = idx \div BlockSize
      BY <1>1, Multiples
    <3>4. h \div BlockSize = idx \div BlockSize
      BY <3>2, <3>3
    <3>5. QED
      BY <1>1, <1>2, <3>4
  <2>3. QED
    BY <2>1, <2>2, TakenInBlock
<1>5. b \in Find(Cleaned, Control) <=> Cleaned[b] \in Control
  BY DEF Find
<1>6. Space \notin Control /\ "NL" \in Control
  BY DEF Control, Space
<1>7. Cleaned[b] \in Control <=> Clean[k] \in Control /\ b \notin NewlinesBefore(Opening, Newlines)
  <2>1. b \in Blanked <=> Commented(Padded, k) \/ b \in NewlinesBefore(Opening, Newlines)
    BY BodyIsCommented DEF Blanked
  <2>2. QED
    BY <1>6, <2>1, CleanedBytes
<1>8. QED
  BY <1>3, <1>4, <1>5, <1>7 DEF Offends

(* The strings of the text so far are known after every block. *)
LEMMA QuoteStep ==
  ASSUME Scanning, CommentInv, QuoteInv, idx < Length(input), ScanBlock
  PROVE  QuoteInv'
<1> DEFINE pred == PseudoPred(Structure, White, Mask, Quotes)
           last == idx + (BlockSize - 1)
<1>1. /\ idx' = idx + BlockSize /\ source' = source /\ result' = "scanning"
      /\ carry'.odd = OddCarries(Cleaned).overflow
      /\ carry'.quote = (LastBit \in Mask)
      /\ carry'.pred = (LastBit \in pred)
      /\ invalid' = (invalid \/ Mask \cap Find(Cleaned, Control) # {})
      /\ broken' = (broken \/ "bad" \in {Raw[b] : b \in Bit})
  BY ScanBlockParts DEF Scanning
<1>2. Padded' = Padded /\ Clean' = Clean
  BY <1>1 DEF Padded, Clean, WithoutComments
<1>3. /\ idx \in Nat /\ BlockSize \in Nat \ {0} /\ DOMAIN input = DOMAIN source
      /\ idx' > 0 /\ idx' - 1 = last /\ LastBit = BlockSize - 1 /\ LastBit \in Bit
  BY <1>1, ScanningFacts, Blocks
<1>4. /\ invalid \in BOOLEAN /\ broken \in BOOLEAN
  BY CarryBooleans DEF Scanning
<1>5. carry'.odd = Escaped(Clean', idx')
  <2>1. carry'.odd \in BOOLEAN /\ Escaped(Clean, idx') \in BOOLEAN
    BY <1>1, CarriesBoolean, InsideBoolean DEF OddCarries
  <2>2. QED
    BY <1>1, <1>2, <2>1, OddHandedOn
<1>6. carry'.quote = (idx' > 0 /\ Inside(Clean', idx' - 1))
  <2>1. LastBit \in Mask <=> Inside(Clean, last)
    BY <1>3, MaskInside
  <2>2. Inside(Clean, last) \in BOOLEAN
    BY InsideBoolean
  <2> HIDE DEF last
  <2>3. QED
    BY <1>1, <1>2, <1>3, <2>1, <2>2
<1>7. LastBit \in pred <=> Separates(Clean, last)
  <2>1. LastBit \in Mask <=> Inside(Clean, last)
    BY <1>3, MaskInside
  <2>2. LastBit \in Quotes <=> Delimits(Clean, last)
    BY <1>3, QuotesDelimit
  <2>3. LastBit \in Blanked <=> Commented(Padded, last)
    <3>1. Opening \subseteq Bit /\ Newlines \subseteq Bit
      BY Masks
    <3>2. \A o \in Opening : ~ (LastBit < o)
      BY <1>3, <3>1, Blocks
    <3>3. LastBit \notin NewlinesBefore(Opening, Newlines)
      BY <3>1, <3>2, NewlinesTaken
    <3>4. LastBit \in Body(Opening, Newlines) <=> Commented(Padded, last)
      BY <1>3, BodyIsCommented
    <3>5. QED
      BY <3>3, <3>4 DEF Blanked
  <2>4. Raw[LastBit] = Padded[last]
    BY <1>3, BlockIsPadded
  <2>5. /\ LastBit \notin Blanked => Clean[last] = Padded[last]
        /\ Commented(Padded, last) => Clean[last] = Space
    BY <1>3, CleanedBytes
  <2>6. LastBit \in White <=> LastBit \in Blanked \/ Raw[LastBit] = Space
    BY <1>3, SpacesAre DEF White
  <2>7. LastBit \in Structure <=> LastBit \notin Blanked /\ Raw[LastBit] \in Structural
    BY <1>3 DEF Structure, Find
  <2>8. Space \notin Structural
    BY DEF Space, Structural
  <2>9. LastBit \in pred <=> \/ LastBit \in Structure /\ LastBit \notin Mask
                             \/ LastBit \in Quotes \/ LastBit \in White
    BY DEF PseudoPred
  <2> HIDE DEF last, pred
  <2>10. QED
    BY <2>1, <2>2, <2>3, <2>4, <2>5, <2>6, <2>7, <2>8, <2>9 DEF Separates
<1>8. carry'.pred = (idx' = 0 \/ Separates(Clean', idx' - 1))
  <2>1. Separates(Clean, last) \in BOOLEAN
    BY DEF Separates, Inside, Delimits
  <2> HIDE DEF last, pred
  <2>2. QED
    BY <1>1, <1>2, <1>3, <1>7, <2>1
<1>9. invalid' = (\E k \in 0..idx' - 1 : Offends(k)')
  <2>1. \A k : Offends(k)' <=> Offends(k)
    BY <1>2 DEF Offends, Takes
  <2>2. invalid <=> \E k \in 0..idx - 1 : Offends(k)
    BY DEF QuoteInv, Scanning
  <2>3. Mask \cap Find(Cleaned, Control) # {} <=> \E b \in Bit : Offends(idx + b)
    <3>1. \A b \in Mask : b \in Bit
      BY Masks
    <3>2. QED
      BY <3>1, OffendsInBlock
  <2>4. \A b \in Bit : idx + b \in 0..idx' - 1
    BY <1>1, <1>3, Blocks
  <2>5. \A k \in 0..idx' - 1 : k \in 0..idx - 1 \/ (k - idx \in Bit /\ k = idx + (k - idx))
    BY <1>1, <1>3, Blocks
  <2>6. \A k \in 0..idx - 1 : k \in 0..idx' - 1
    BY <1>1, <1>3
  <2>7. (\E k \in 0..idx' - 1 : Offends(k)) <=>
          (\E k \in 0..idx - 1 : Offends(k)) \/ \E b \in Bit : Offends(idx + b)
    BY <2>4, <2>5, <2>6
  <2>8. QED
    BY <1>1, <1>4, <2>1, <2>2, <2>3, <2>7
<1>10. broken' = (\E k \in DOMAIN source' : k < idx' /\ source'[k] = "bad")
  <2>1. broken <=> \E k \in DOMAIN source : k < idx /\ source[k] = "bad"
    BY DEF QuoteInv, Scanning
  <2>2. \A b \in Bit : Raw[b] = Padded[idx + b] /\ idx + b \in DOMAIN Padded
    BY BlockIsPadded, CleanedBytes
  <2>3. \A k \in DOMAIN Padded : /\ k \in DOMAIN source => Padded[k] = source[k]
                                 /\ k \notin DOMAIN source => Padded[k] = Space
    BY PaddedBytes DEF Scanning
  <2>4. ASSUME NEW b \in Bit, Raw[b] = "bad"
        PROVE  idx + b \in DOMAIN source /\ idx + b < idx' /\ source[idx + b] = "bad"
    <3>1. "bad" # Space /\ idx + b < idx'
      BY <1>1, <1>3, Blocks DEF Space
    <3>2. QED
      BY <2>2, <2>3, <2>4, <3>1
  <2>5. ASSUME NEW k \in DOMAIN source, k < idx', ~ (k < idx), source[k] = "bad"
        PROVE  \E b \in Bit : Raw[b] = "bad"
    <3>1. k \in Nat
      BY ScanningFacts
    <3>2. k - idx \in Bit /\ idx + (k - idx) = k
      BY <1>1, <1>3, <2>5, <3>1, Blocks
    <3>3. Raw[k - idx] = Padded[k] /\ k \in DOMAIN Padded
      BY <2>2, <3>2
    <3>4. QED
      BY <2>3, <2>5, <3>2, <3>3
  <2>6. \A k \in DOMAIN source : k < idx => k < idx'
    BY <1>1, <1>3, ScanningFacts
  <2>7. (\E k \in DOMAIN source : k < idx' /\ source[k] = "bad") <=>
          broken \/ \E b \in Bit : Raw[b] = "bad"
    BY <2>1, <2>4, <2>5, <2>6
  <2>8. QED
    BY <1>1, <1>4, <2>7
<1>11. QED
  BY <1>1, <1>5, <1>6, <1>8, <1>9, <1>10 DEF QuoteInv

-----------------------------------------------------------------------------
(* Tokens. *)

(* The text as it is when the next block has been read. *)
Ahead == StrippedTo(idx + BlockSize)

LEMMA AheadAlike ==
  ASSUME Scanning, NEW k \in 0..(idx + BlockSize) - 1
  PROVE  /\ Alike(Ahead[k], Clean[k])
         /\ Delimits(Ahead, k) <=> Delimits(Clean, k)
         /\ Inside(Ahead, k) <=> Inside(Clean, k)
<1>1. idx + BlockSize \in Nat /\ k \in Nat /\ \A j \in 0..k : j \in 0..idx + BlockSize
  BY ScanningFacts
<1>2. \A j \in 0..k : Alike(Ahead[j], Clean[j])
  BY <1>1, PaddedReach, StrippedBytes DEF Ahead, Scanning
<1>3. QED
  BY <1>1, <1>2, DelimitsAgree, InsideAgree

(* The bytes of the block, without the comments and their line ends. *)
LEMMA AheadInBlock ==
  ASSUME Scanning, CommentInv, NEW b \in Bit
  PROVE  /\ b \in Blanked => Ahead[idx + b] = Space
         /\ b \notin Blanked => Ahead[idx + b] = Raw[b]
         /\ Ahead[idx + b] = Cleaned[b]
<1>1. idx + b \in DOMAIN Padded /\ idx + BlockSize \in Nat
  BY CleanedBytes, ScanningFacts
<1>2. b \in Blanked <=> \/ Commented(Padded, idx + b)
                        \/ \E h \in 0..(idx + BlockSize) - 1 : Takes(h, idx + b)
  BY BodyIsCommented, TakenInBlock DEF Blanked
<1>3. /\ b \in Blanked => Ahead[idx + b] = Space
      /\ b \notin Blanked => Ahead[idx + b] = Padded[idx + b]
  BY <1>1, <1>2, StrippedBytes DEF Ahead, Scanning
<1>4. QED
  BY <1>3, BlockIsPadded, CleanedBytes

(* What the last bytes separate, of the block and of the one before.       *)
Before(b) ==
  IF b = 0 THEN carry.pred ELSE b - 1 \in PseudoPred(Structure, White, Mask, Quotes)

LEMMA BeforeSeparates ==
  ASSUME Scanning, CommentInv, QuoteInv, NEW b \in Bit,
         idx + b > 0 => ~ Inside(Clean, (idx + b) - 1)
  PROVE  Before(b) <=> idx + b = 0 \/ Separates(Ahead, (idx + b) - 1)
<1> DEFINE k == (idx + b) - 1
           pred == PseudoPred(Structure, White, Mask, Quotes)
<1>1. /\ idx \in Nat /\ BlockSize \in Nat \ {0} /\ b \in Nat /\ b < BlockSize
      /\ idx + b > 0 => k \in 0..(idx + BlockSize) - 1
  BY ScanningFacts, Blocks
<1>2. "NL" \in Structural /\ Space \notin Structural
  BY DEF Structural, Space
<1>3. ASSUME idx + b > 0
      PROVE  /\ Delimits(Ahead, k) <=> Delimits(Clean, k)
             /\ ~ Inside(Ahead, k) /\ Alike(Ahead[k], Clean[k])
  BY <1>1, <1>3, AheadAlike
<1>4. ASSUME idx + b > 0
      PROVE  Separates(Ahead, k) <=> Ahead[k] = Space \/ Delimits(Clean, k) \/ Ahead[k] \in Structural
  BY <1>3, <1>4 DEF Separates
<1>5. CASE b = 0
  <2>1. carry.pred <=> idx = 0 \/ Separates(Clean, idx - 1)
    BY DEF QuoteInv, Scanning
  <2>2. idx + 0 = idx
    BY <1>1
  <2>3. CASE idx = 0
    BY <1>5, <2>1, <2>2, <2>3 DEF Before
  <2>4. CASE idx # 0
    <3>1. idx + b > 0 /\ k = idx - 1
      BY <1>1, <1>5, <2>4
    <3>2. Separates(Clean, k) <=> Clean[k] = Space \/ Delimits(Clean, k) \/ Clean[k] \in Structural
      BY <3>1 DEF Separates
    <3>3. Alike(Ahead[k], Clean[k])
      BY <1>3, <3>1
    <3>4. QED
      BY <1>2, <1>4, <1>5, <2>1, <2>4, <3>1, <3>2, <3>3 DEF Before, Alike
  <2>5. QED
    BY <2>3, <2>4
<1>6. CASE b # 0
  <2>1. b - 1 \in Bit /\ idx + (b - 1) = k /\ idx + b > 0
    BY <1>1, <1>6, Blocks
  <2>2. b - 1 \in Mask <=> Inside(Clean, k)
    BY <2>1, MaskInside
  <2>3. b - 1 \notin Mask
    BY <2>1, <2>2
  <2>4. b - 1 \in Quotes <=> Delimits(Clean, k)
    BY <2>1, QuotesDelimit
  <2>5. /\ b - 1 \in Blanked => Ahead[k] = Space
        /\ b - 1 \notin Blanked => Ahead[k] = Raw[b - 1]
    BY <2>1, AheadInBlock
  <2>6. b - 1 \in White <=> b - 1 \in Blanked \/ Raw[b - 1] = Space
    BY <2>1, SpacesAre DEF White
  <2>7. b - 1 \in Structure <=> b - 1 \notin Blanked /\ Raw[b - 1] \in Structural
    BY <2>1 DEF Structure, Find
  <2>8. b - 1 \in pred <=> \/ b - 1 \in Structure /\ b - 1 \notin Mask
                           \/ b - 1 \in Quotes \/ b - 1 \in White
    BY DEF PseudoPred
  <2>9. Before(b) <=> b - 1 \in pred
    BY <1>6 DEF Before
  <2> HIDE DEF k, pred
  <2>10. Before(b) <=> Ahead[k] = Space \/ Delimits(Clean, k) \/ Ahead[k] \in Structural
    BY <1>2, <2>3, <2>4, <2>5, <2>6, <2>7, <2>8, <2>9
  <2>11. QED
    BY <1>1, <1>4, <1>6, <2>1, <2>10 DEF k
<1>7. QED
  BY <1>5, <1>6

(* The bits of a block are the tokens of the text. *)
LEMMA TokensInBlock ==
  ASSUME Scanning, CommentInv, QuoteInv, NEW b \in Bit
  PROVE  b \in FinalizeStructurals(Structure, White, Mask, Quotes) \ Blanked
           <=> Token(Ahead, idx + b)
<1> DEFINE k == idx + b
           pred == PseudoPred(Structure, White, Mask, Quotes)
           bits == FinalizeStructurals(Structure, White, Mask, Quotes)
<1>1. k \in 0..(idx + BlockSize) - 1 /\ k \in Nat /\ idx \in Nat /\ b \in Nat
  BY ScanningFacts, Blocks
<1>2. /\ Delimits(Ahead, k) <=> Delimits(Clean, k)
      /\ Inside(Ahead, k) <=> Inside(Clean, k)
  BY <1>1, AheadAlike
<1>3. /\ b \in Mask <=> Inside(Clean, k)
      /\ b \in Quotes <=> Delimits(Clean, k)
      /\ b \in Blanked => Ahead[k] = Space
      /\ b \notin Blanked => Ahead[k] = Raw[b]
  BY MaskInside, QuotesDelimit, AheadInBlock
<1>4. b \in bits <=>
        /\ \/ b \in Structure /\ b \notin Mask
           \/ b \in Quotes
           \/ Before(b) /\ b \notin White /\ b \notin Mask
        /\ ~ (b \in Quotes /\ b \notin Mask)
  <2>1. pred \subseteq Bit
    BY Masks DEF PseudoPred
  <2>2. b \in Shl(pred) <=> b > 0 /\ b - 1 \in pred
    BY <2>1, Shifted
  <2>3. b \in Carried(carry.pred) <=> b = 0 /\ carry.pred
    BY DEF Carried
  <2>4. Before(b) <=> b \in Shl(pred) \cup Carried(carry.pred)
    BY <1>1, <2>2, <2>3 DEF Before
  <2>5. QED
    BY <2>4 DEF FinalizeStructurals
<1>5. /\ b \in White <=> b \in Blanked \/ Raw[b] = Space
      /\ b \in Structure <=> b \notin Blanked /\ Raw[b] \in Structural
  BY SpacesAre DEF White, Structure, Find
<1>6. Space \notin Structural /\ Space # Quote
  BY DEF Space, Structural, Quote
<1>7. CASE b \in Blanked
  BY <1>3, <1>6, <1>7 DEF Token, Delimits
<1>8. CASE b \notin Blanked /\ b \in Quotes
  BY <1>2, <1>3, <1>4, <1>8 DEF Token
<1>9. CASE b \notin Blanked /\ b \notin Quotes /\ b \in Mask
  BY <1>2, <1>3, <1>4, <1>9 DEF Token
<1>10. CASE b \notin Blanked /\ b \notin Quotes /\ b \notin Mask
  <2>1. ASSUME k > 0 PROVE ~ Inside(Clean, k - 1)
    <3>1. k - 1 \in Nat /\ (k - 1) + 1 = k
      BY <1>1, <2>1
    <3>2. Inside(Clean, (k - 1) + 1) <=>
            IF Delimits(Clean, (k - 1) + 1) THEN ~ Inside(Clean, k - 1) ELSE Inside(Clean, k - 1)
      BY <3>1, InsideNext
    <3>3. QED
      BY <1>3, <1>10, <3>1, <3>2
  <2>2. Before(b) <=> k = 0 \/ Separates(Ahead, k - 1)
    BY <2>1, BeforeSeparates
  <2>3. Token(Ahead, k) <=> Ahead[k] # Space /\ (Ahead[k] \in Structural \/ Before(b))
    BY <1>2, <1>3, <1>10, <2>2 DEF Token
  <2>4. b \in bits \ Blanked <=> b \in Structure \/ (Before(b) /\ b \notin White)
    BY <1>4, <1>10
  <2>5. QED
    BY <1>3, <1>5, <1>6, <1>10, <2>3, <2>4
<1>11. QED
  BY <1>7, <1>8, <1>9, <1>10

(* What is popped is the byte right before the block, and no quote. *)
LEMMA EarlierIsNoQuote ==
  ASSUME Scanning, CommentInv, NEW k \in Earlier
  PROVE  k = idx - 1 /\ idx > 0 /\ 0 \in Opening /\ ~ Delimits(Clean, k)
<1>1. /\ idx \in Nat /\ BlockSize \in Nat \ {0} /\ 0 \in Bit /\ idx + 0 = idx
  BY ScanningFacts, Blocks
<1>2. PICK o \in Opening : /\ k = idx + o - 1 /\ idx + o > 0
                           /\ Emitted # << >> /\ Emitted[Len(Emitted)] = idx + o - 1
  BY DEF Earlier, EarlierNewline
<1>3. o \in Nat
  BY Masks, Blocks
<1>4. k < idx /\ k \in Nat
  BY EarlierBefore
<1>5. o = 0 /\ idx > 0 /\ k = idx - 1
  BY <1>1, <1>2, <1>3, <1>4
<1>6. Indented(Padded, idx)
  BY <1>1, <1>2, <1>5, OpenersOpen DEF Opens
<1>7. PICK l \in 0..idx : StartsLine(Padded, l) /\ \A j \in l..idx - 1 : Padded[j] = Space
  BY <1>6 DEF Indented
<1>8. Padded[k] = Space \/ Padded[k] = "NL"
  <2>1. CASE l = idx
    BY <1>1, <1>5, <1>7, <2>1 DEF StartsLine
  <2>2. CASE l # idx
    <3>1. k \in l..idx - 1
      BY <1>1, <1>5, <1>7, <2>2
    <3>2. QED
      BY <1>7, <3>1
  <2>3. QED
    BY <2>1, <2>2
<1>9. k \in DOMAIN Padded
  BY <1>1, <1>4, <1>5, PaddedReach
<1>10. Clean[k] # Quote
  BY <1>8, <1>9, PaddedBytes DEF Scanning, Quote, Space
<1>11. QED
  BY <1>2, <1>5, <1>10 DEF Delimits

(* What was found before, without what is popped, and the bits of the      *)
(* block.                                                                  *)
LEMMA FoundNext ==
  ASSUME Scanning, idx < Length(input), ScanBlock
  PROVE  Found' = (Found \ Earlier)
                    \cup {idx + b : b \in FinalizeStructurals(Structure, White, Mask, Quotes) \ Blanked}
<1> DEFINE c == Cardinality(Earlier)
           bits == FinalizeStructurals(Structure, White, Mask, Quotes) \ Blanked
           front == SubSeq(Emitted, 1, Len(Emitted) - c)
<1>1. /\ Emitted \in Seq(Nat) /\ Len(Emitted) \in Nat /\ Ascending(Emitted)
      /\ \A n \in 1..Len(Emitted) : Emitted[n] \in Nat
      /\ Found = {Emitted[n] : n \in 1..Len(Emitted)}
  BY EmittedList, ElementOfSeq, LenProperties DEF Scanning
<1>2. indexes' = front /\ structurals' = bits /\ idx' = idx + BlockSize
  BY ScanBlockParts
<1>3. \/ Earlier = {} /\ c = 0
      \/ Earlier = {Emitted[Len(Emitted)]} /\ c = 1 /\ Len(Emitted) > 0
  BY <1>1, EarlierIsLast DEF Earlier
<1>4. c \in Nat /\ c <= Len(Emitted)
  BY <1>1, <1>3
<1> HIDE DEF c
<1>5. /\ Len(front) = Len(Emitted) - c
      /\ \A n \in 1..Len(front) : front[n] = Emitted[n] /\ n \in 1..Len(Emitted)
  BY <1>1, <1>4, Front
<1> HIDE DEF front, bits
<1>6. {front[n] : n \in 1..Len(front)} = Found \ Earlier
  <2>1. ASSUME NEW n \in 1..Len(front) PROVE front[n] \in Found \ Earlier
    <3>1. front[n] = Emitted[n] /\ n \in 1..Len(Emitted)
      BY <1>5
    <3>2. CASE c = 1
      <4>1. n < Len(Emitted) /\ Len(Emitted) \in 1..Len(Emitted)
        BY <1>1, <1>5, <3>2
      <4>2. Emitted[n] < Emitted[Len(Emitted)] /\ Emitted[n] \in Nat /\ Emitted[Len(Emitted)] \in Nat
        BY <1>1, <3>1, <4>1 DEF Ascending
      <4>3. Emitted[n] \notin Earlier
        BY <1>3, <3>2, <4>2
      <4>4. QED
        BY <1>1, <3>1, <4>3
    <3>3. CASE c # 1
      BY <1>1, <1>3, <3>1, <3>3
    <3>4. QED
      BY <3>2, <3>3
  <2>2. ASSUME NEW k \in Found \ Earlier PROVE \E n \in 1..Len(front) : k = front[n]
    <3>1. PICK n \in 1..Len(Emitted) : k = Emitted[n]
      BY <1>1
    <3>2. n \in 1..Len(front)
      BY <1>1, <1>3, <1>5, <2>2, <3>1
    <3>3. QED
      BY <1>5, <3>1, <3>2
  <2>3. QED
    BY <2>1, <2>2
<1>7. \A b \in bits : idx' - BlockSize + b = idx + b
  <2>1. idx \in Nat /\ BlockSize \in Nat /\ \A b \in bits : b \in Nat
    BY StructuralsAreBytes, Blocks, ScanningFacts DEF bits, Scanning
  <2>2. QED
    BY <1>2, <2>1
<1>8. {idx' - BlockSize + b : b \in bits} = {idx + b : b \in bits}
  BY <1>7
<1>9. Found' = {front[n] : n \in 1..Len(front)} \cup {idx' - BlockSize + b : b \in bits}
  BY <1>2 DEF Found
<1>10. QED
  BY <1>6, <1>8, <1>9 DEF bits

(* A token of an earlier block stays one unless it is popped. *)
LEMMA TokensKept ==
  ASSUME Reading, ~ invalid, NEW k \in 0..idx - 1
  PROVE  /\ Ahead[k] = IF k \in Earlier THEN Space ELSE StrippedTo(idx)[k]
         /\ Token(Ahead, k) <=> Token(StrippedTo(idx), k) /\ k \notin Earlier
<1> DEFINE S == StrippedTo(idx)
<1>1. /\ idx \in Nat /\ BlockSize \in Nat \ {0} /\ idx + BlockSize \in Nat /\ k \in Nat
      /\ \A j \in 0..idx - 1 : j \in DOMAIN Padded /\ j \in 0..(idx + BlockSize) - 1 /\ j \in Nat
  BY ScanningFacts, PaddedReach DEF Reading
<1>2. ASSUME NEW j \in 0..idx - 1
      PROVE  Ahead[j] = IF j \in Earlier THEN Space ELSE S[j]
  <2>1. j \in Earlier <=> \E h \in idx..(idx + BlockSize) - 1 : Takes(h, j)
    BY EarlierIsTaken
  <2>2. (\E h \in 0..(idx + BlockSize) - 1 : Takes(h, j))
          <=> (\E h \in 0..idx - 1 : Takes(h, j)) \/ j \in Earlier
    <3>1. \A h \in 0..(idx + BlockSize) - 1 : h \in 0..idx - 1 \/ h \in idx..(idx + BlockSize) - 1
      BY <1>1
    <3>2. /\ \A h \in 0..idx - 1 : h \in 0..(idx + BlockSize) - 1
          /\ \A h \in idx..(idx + BlockSize) - 1 : h \in 0..(idx + BlockSize) - 1
      BY <1>1
    <3>3. QED
      BY <2>1, <3>1, <3>2
  <2>3. /\ Commented(Padded, j) => Ahead[j] = Space /\ S[j] = Space
        /\ (\E h \in 0..(idx + BlockSize) - 1 : Takes(h, j)) => Ahead[j] = Space
        /\ (\E h \in 0..idx - 1 : Takes(h, j)) => S[j] = Space
        /\ ~ Commented(Padded, j) /\ ~ (\E h \in 0..(idx + BlockSize) - 1 : Takes(h, j))
             => Ahead[j] = Padded[j]
        /\ ~ Commented(Padded, j) /\ ~ (\E h \in 0..idx - 1 : Takes(h, j)) => S[j] = Padded[j]
    BY <1>1, StrippedBytes DEF Ahead, Reading, Scanning
  <2> HIDE DEF S
  <2>4. QED
    BY <2>2, <2>3
<1>3. ASSUME NEW j \in 0..idx - 1
      PROVE  /\ Delimits(Ahead, j) <=> Delimits(S, j)
             /\ Inside(Ahead, j) <=> Inside(S, j)
  <2>1. /\ Delimits(Ahead, j) <=> Delimits(Clean, j)
        /\ Inside(Ahead, j) <=> Inside(Clean, j)
    BY <1>1, AheadAlike DEF Reading
  <2>2. \A i \in 0..j : Alike(S[i], Clean[i])
    <3>1. \A i \in 0..j : i \in DOMAIN Padded
      BY <1>1
    <3>2. QED
      BY <1>1, <3>1, StrippedBytes DEF Reading, Scanning
  <2>3. j \in Nat
    BY <1>1
  <2>4. QED
    BY <2>1, <2>2, <2>3, DelimitsAgree, InsideAgree
<1> HIDE DEF S
<1>4. CASE k \in Earlier
  <2>1. Ahead[k] = Space
    BY <1>2, <1>4
  <2>2. ~ Token(Ahead, k)
    BY <2>1 DEF Token, Delimits, Space, Quote
  <2>3. QED
    BY <1>2, <1>4, <2>2 DEF S
<1>5. CASE k \notin Earlier
  <2>1. Ahead[k] = S[k]
    BY <1>2, <1>5
  <2>2. ASSUME k > 0 PROVE Separates(Ahead, k - 1) <=> Separates(S, k - 1)
    <3>1. k - 1 \in 0..idx - 1 /\ k - 1 # idx - 1
      BY <1>1, <2>2
    <3>2. k - 1 \notin Earlier
      BY <3>1, EarlierIsNoQuote DEF Reading
    <3>3. Ahead[k - 1] = S[k - 1]
      BY <1>2, <3>1, <3>2
    <3>4. /\ Delimits(Ahead, k - 1) <=> Delimits(S, k - 1)
          /\ Inside(Ahead, k - 1) <=> Inside(S, k - 1)
      BY <1>3, <3>1
    <3>5. QED
      BY <3>3, <3>4 DEF Separates
  <2>3. Token(Ahead, k) <=> Token(S, k)
    BY <1>1, <1>3, <2>1, <2>2 DEF Token
  <2>4. QED
    BY <1>5, <2>1, <2>3 DEF S
<1>6. QED
  BY <1>4, <1>5

(* The tokens so far are found after every block. *)
LEMMA TokenStep ==
  ASSUME Reading, idx < Length(input), ScanBlock
  PROVE  TokenInv'
<1> DEFINE bits == FinalizeStructurals(Structure, White, Mask, Quotes) \ Blanked
<1>1. /\ input' = Text /\ idx' = idx + BlockSize /\ source' = source /\ result' = "scanning"
      /\ invalid' = (invalid \/ Mask \cap Find(Cleaned, Control) # {})
  BY ScanBlockParts DEF Reading, Scanning
<1>2. Padded' = Padded /\ Clean' = Clean /\ StrippedTo(idx)' = Ahead
  BY <1>1 DEF Padded, Clean, WithoutComments, StrippedTo, Ahead, Takes
<1>3. Scanning /\ CommentInv /\ QuoteInv /\ invalid \in BOOLEAN
  BY CarryBooleans DEF Reading, Scanning
<1>4. /\ idx \in Nat /\ BlockSize \in Nat \ {0} /\ idx + BlockSize \in Nat
      /\ \A k \in 0..idx' - 1 : k \in Nat /\ (k < idx => k \in 0..idx - 1)
                                /\ (~ (k < idx) => k - idx \in Bit /\ k = idx + (k - idx))
      /\ \A b \in Bit : idx + b \in 0..idx' - 1 /\ ~ (idx + b < idx) /\ b \in Nat
      /\ \A k \in 0..idx - 1 : k \in 0..idx' - 1
  <2>1. idx \in Nat /\ BlockSize \in Nat \ {0} /\ Bit = 0..BlockSize - 1
    BY <1>3, ScanningFacts, Blocks
  <2>2. idx' = idx + BlockSize
    BY <1>1
  <2>3. \A k \in 0..(idx + BlockSize) - 1 :
          k \in Nat /\ (k < idx => k \in 0..idx - 1)
                    /\ (~ (k < idx) => k - idx \in 0..BlockSize - 1 /\ k = idx + (k - idx))
    BY <2>1
  <2>4. \A b \in 0..BlockSize - 1 :
          idx + b \in 0..(idx + BlockSize) - 1 /\ ~ (idx + b < idx) /\ b \in Nat
    BY <2>1
  <2>5. \A k \in 0..idx - 1 : k \in 0..(idx + BlockSize) - 1
    BY <2>1
  <2>6. QED
    BY <2>1, <2>2, <2>3, <2>4, <2>5
<1>5. Found' = (Found \ Earlier) \cup {idx + b : b \in bits}
  BY <1>3, FoundNext
<1>6. \A b \in Bit : b \in bits <=> Token(Ahead, idx + b)
  BY <1>3, TokensInBlock
<1>7. \A b \in bits : b \in Bit
  BY <1>3, StructuralsAreBytes DEF Scanning
<1> HIDE DEF bits
<1>8. ASSUME NEW k \in 0..idx' - 1, Delimits(Clean, k), Inside(Clean, k) PROVE k \in Found'
  <2>1. CASE k < idx
    <3>1. k \in Found
      BY <1>4, <1>8, <2>1 DEF Reading, TokenInv, Scanning
    <3>2. k \notin Earlier
      BY <1>3, <1>8, EarlierIsNoQuote
    <3>3. QED
      BY <1>5, <3>1, <3>2
  <2>2. CASE ~ (k < idx)
    <3>1. Delimits(Ahead, k) /\ Inside(Ahead, k)
      BY <1>1, <1>3, <1>8, AheadAlike
    <3>2. Token(Ahead, k)
      BY <3>1 DEF Token
    <3>3. PICK b \in Bit : k = idx + b
      BY <1>4, <2>2
    <3>4. QED
      BY <1>5, <1>6, <3>2, <3>3
  <2>3. QED
    BY <2>1, <2>2
<1>9. ASSUME ~ invalid'
      PROVE  Found' = {k \in 0..idx' - 1 : Token(Ahead, k)}
  <2>1. ~ invalid
    BY <1>1, <1>9
  <2>2. Found = {k \in 0..idx - 1 : Token(StrippedTo(idx), k)}
    BY <2>1 DEF Reading, TokenInv, Scanning
  <2>3. \A k \in 0..idx - 1 : Token(Ahead, k) <=> Token(StrippedTo(idx), k) /\ k \notin Earlier
    BY <2>1, TokensKept
  <2>4. ASSUME NEW k \in Found' PROVE k \in 0..idx' - 1 /\ Token(Ahead, k)
    <3>1. CASE k \in Found \ Earlier
      BY <1>4, <2>2, <2>3, <3>1
    <3>2. CASE \E b \in bits : k = idx + b
      BY <1>4, <1>6, <1>7, <3>2
    <3>3. QED
      BY <1>5, <2>4, <3>1, <3>2
  <2>5. ASSUME NEW k \in 0..idx' - 1, Token(Ahead, k) PROVE k \in Found'
    <3>1. CASE k < idx
      BY <1>4, <1>5, <2>2, <2>3, <2>5, <3>1
    <3>2. CASE ~ (k < idx)
      <4>1. PICK b \in Bit : k = idx + b
        BY <1>4, <3>2
      <4>2. QED
        BY <1>5, <1>6, <2>5, <4>1
    <3>3. QED
      BY <3>1, <3>2
  <2>6. QED
    BY <2>4, <2>5
<1>10. ASSUME ~ invalid', NEW k \in DOMAIN source, k < idx' PROVE Text[k] = Ahead[k]
  <2>1. ~ invalid /\ k \in Nat /\ DOMAIN input = DOMAIN source /\ k \in 0..idx' - 1
    BY <1>1, <1>3, <1>4, <1>10, ScanningFacts
  <2>2. CASE k < idx
    <3>1. k \in 0..idx - 1
      BY <1>4, <2>1, <2>2
    <3>2. Ahead[k] = IF k \in Earlier THEN Space ELSE StrippedTo(idx)[k]
      BY <2>1, <3>1, TokensKept
    <3>3. input[k] = StrippedTo(idx)[k]
      BY <2>1, <2>2 DEF Reading, TokenInv, Scanning
    <3>4. k \notin {idx + b : b \in Blanked}
      BY <1>4, <2>2, Masks
    <3>5. Text[k] = IF k \in Earlier THEN Space ELSE input[k]
      BY <2>1, <3>4 DEF Text, Blank
    <3>6. QED
      BY <3>2, <3>3, <3>5
  <2>3. CASE ~ (k < idx)
    <3>1. PICK b \in Bit : k = idx + b
      BY <1>4, <2>1, <2>3
    <3>2. Ahead[k] = Cleaned[b]
      BY <1>3, <3>1, AheadInBlock
    <3>3. DOMAIN Text = DOMAIN input
      BY DEF Text, Blank
    <3>4. Cleaned[b] = Text[k]
      BY <2>1, <3>1, <3>3 DEF Cleaned, Block
    <3>5. QED
      BY <3>2, <3>4
  <2>4. QED
    BY <2>2, <2>3
<1>11. QED
  BY <1>1, <1>2, <1>8, <1>9, <1>10 DEF TokenInv

-----------------------------------------------------------------------------
(* The start of a document. *)

Reads == CommentInv /\ QuoteInv /\ TokenInv
Fresh ==
  /\ input = source /\ idx = 0 /\ structurals = {} /\ indexes = << >>
  /\ carry = NoCarry /\ invalid = FALSE /\ broken = FALSE

LEMMA FreshReads == TypeOK /\ Fresh => Reads
<1> SUFFICES ASSUME TypeOK, Fresh PROVE Reads
  OBVIOUS
<1>1. /\ input = source /\ idx = 0 /\ structurals = {} /\ indexes = << >>
      /\ invalid = FALSE /\ broken = FALSE
      /\ carry.odd = FALSE /\ carry.quote = FALSE /\ carry.pred = TRUE
      /\ carry.indent = TRUE /\ carry.comment = FALSE
  BY DEF Fresh, NoCarry
<1>2. Indented(Padded, 0)
  <2>1. 0 \in 0..0 /\ \A j \in 0..0 - 1 : FALSE
    OBVIOUS
  <2>2. QED
    BY <2>1 DEF Indented, StartsLine
<1>3. Indented(Padded, 0) \in BOOLEAN /\ Escaped(Clean, 0) \in BOOLEAN
  BY DEF Indented, Escaped
<1>4. CommentInv
  <2>1. carry.comment = (idx > 0 /\ Commented(Padded, idx - 1))
    <3>1. ~ (idx > 0)
      BY <1>1
    <3>2. QED
      BY <1>1, <3>1, Zenon
  <2>2. carry.indent = Indented(Padded, idx)
    BY <1>1, <1>2, <1>3
  <2>3. QED
    BY <1>1, <2>1, <2>2 DEF CommentInv
<1>5. \A k \in 0..0 - 1 : FALSE
  OBVIOUS
<1>6. QuoteInv
  <2>1. ~ Escaped(Clean, 0)
    BY EscapedFirst
  <2>2. ~ \E k \in DOMAIN source : k < idx /\ source[k] = "bad"
    BY <1>1, Shapes
  <2>3. carry.odd = Escaped(Clean, idx)
    BY <1>1, <1>3, <2>1
  <2>4. carry.quote = (idx > 0 /\ Inside(Clean, idx - 1))
    <3>1. ~ (idx > 0)
      BY <1>1
    <3>2. QED
      BY <1>1, <3>1, Zenon
  <2>5. carry.pred = (idx = 0 \/ Separates(Clean, idx - 1))
    BY <1>1
  <2>6. invalid = (\E k \in 0..idx - 1 : Offends(k))
    BY <1>1, <1>5
  <2>7. QED
    BY <1>1, <2>2, <2>3, <2>4, <2>5, <2>6 DEF QuoteInv
<1>7. TokenInv
  <2>1. Found = {}
    BY <1>1 DEF Found
  <2>2. QED
    BY <1>1, <1>5, <2>1 DEF TokenInv
<1>8. QED
  BY <1>4, <1>6, <1>7 DEF Reads

-----------------------------------------------------------------------------
(* The end of the document: what was read is the text and spaces.          *)

AtEnd == Reading /\ Length(source) <= idx
T     == Stripped(source)

LEMMA AtEndFacts ==
  ASSUME AtEnd
  PROVE  /\ Scanning /\ CommentInv /\ QuoteInv /\ TokenInv /\ TypeOK
         /\ idx \in Nat /\ BlockSize \in Nat \ {0} /\ Length(source) \in Nat
         /\ DOMAIN source = 0..Length(source) - 1
         /\ \A k \in DOMAIN source : /\ k \in Nat /\ k \in 0..idx - 1 /\ k < idx
                                     /\ k \in DOMAIN Padded /\ Padded[k] = source[k]
         /\ \A k \in 0..idx - 1 : k \notin DOMAIN source => Clean[k] = Space
         /\ DOMAIN T = DOMAIN source /\ Length(T) = Length(source)
<1>1. Scanning /\ CommentInv /\ QuoteInv /\ TokenInv /\ TypeOK /\ Length(source) <= idx
  BY DEF AtEnd, Reading, Scanning
<1>2. /\ idx \in Nat /\ BlockSize \in Nat \ {0} /\ Length(source) \in Nat
      /\ DOMAIN source = 0..Length(source) - 1
  BY <1>1, ScanningFacts
<1>3. \A k \in DOMAIN source : k \in Nat /\ k \in 0..idx - 1 /\ k < idx
  BY <1>1, <1>2
<1>4. \A k \in 0..idx - 1 : k \in DOMAIN Padded
  BY <1>1, PaddedReach
<1>5. \A k \in DOMAIN Padded : k \notin DOMAIN source => Clean[k] = Space
  BY <1>1, PaddedBytes
<1>6. DOMAIN T = DOMAIN source
  BY DEF T, Stripped, Blank
<1>7. QED
  BY <1>1, <1>2, <1>3, <1>4, <1>5, <1>6, PaddedBytes DEF Length

(* No comment opens behind the text. *)
LEMMA PrecedesAgree ==
  ASSUME AtEnd, NEW k \in DOMAIN source, NEW h \in DOMAIN Padded
  PROVE  Precedes(Padded, k, h) <=> h \in DOMAIN source /\ Precedes(source, k, h)
<1>1. Padded[h] = "#" => h \in DOMAIN source
  BY AtEndFacts, PaddedBytes DEF Space
<1>2. ASSUME h \in DOMAIN source
      PROVE  Precedes(Padded, k, h) <=> Precedes(source, k, h)
  <2>1. h \in Nat /\ k \in Nat /\ \A j \in 0..h : j \in DOMAIN source /\ Padded[j] = source[j]
    BY <1>2, AtEndFacts
  <2>2. Indented(Padded, h) <=> Indented(source, h)
    BY <2>1, IndentedAgree
  <2>3. Opens(Padded, h) <=> Opens(source, h)
    BY <2>1, <2>2 DEF Opens
  <2>4. \A j \in k + 1..h - 1 : j \in 0..h
    BY <2>1
  <2>5. Padded[k] = source[k]
    BY AtEndFacts
  <2>6. QED
    BY <2>1, <2>3, <2>4, <2>5 DEF Precedes
<1>3. QED
  BY <1>1, <1>2 DEF Precedes, Opens

LEMMA TakenIsSwallowed ==
  ASSUME AtEnd, NEW k \in DOMAIN source
  PROVE  /\ Swallowed(source, k) <=> \E h \in 0..idx - 1 : Takes(h, k)
         /\ \A h \in DOMAIN Padded : Takes(h, k) => Swallowed(source, k)
<1>1. \A h \in DOMAIN source : h \in 0..idx - 1 /\ h \in DOMAIN Padded
  BY AtEndFacts
<1>2. \A h \in 0..idx - 1 : h \in DOMAIN Padded
  BY AtEndFacts, PaddedReach
<1>3. \A h \in DOMAIN Padded : Takes(h, k) <=>
        h \in DOMAIN source /\ Precedes(source, k, h) /\ ~ Straddles(k, h)
  BY PrecedesAgree DEF Takes
<1>4. QED
  BY <1>1, <1>2, <1>3 DEF Swallowed

LEMMA StrippedAgrees ==
  ASSUME AtEnd, NEW k \in DOMAIN source
  PROVE  T[k] = StrippedTo(idx)[k] /\ Alike(T[k], Clean[k])
         /\ (~ Swallowed(source, k) => T[k] = Clean[k])
<1>1. /\ k \in Nat /\ k \in DOMAIN Padded /\ Padded[k] = source[k] /\ TypeOK /\ idx \in Nat
      /\ \A j \in 0..k : Padded[j] = source[j]
  BY AtEndFacts
<1>2. Commented(Padded, k) <=> Commented(source, k)
  BY <1>1, CommentedAgree
<1>3. Swallowed(source, k) <=> \E h \in 0..idx - 1 : Takes(h, k)
  BY TakenIsSwallowed
<1>4. /\ Commented(source, k) \/ Swallowed(source, k) => T[k] = Space
      /\ ~ (Commented(source, k) \/ Swallowed(source, k)) => T[k] = source[k]
  BY DEF T, Stripped, Blank
<1>5. /\ Commented(Padded, k) => StrippedTo(idx)[k] = Space
      /\ (\E h \in 0..idx - 1 : Takes(h, k)) => StrippedTo(idx)[k] = Space
      /\ ~ Commented(Padded, k) /\ ~ (\E h \in 0..idx - 1 : Takes(h, k))
           => StrippedTo(idx)[k] = Padded[k]
      /\ Alike(StrippedTo(idx)[k], Clean[k])
  BY <1>1, StrippedBytes
<1>6. /\ Commented(Padded, k) => Clean[k] = Space
      /\ ~ Commented(Padded, k) => Clean[k] = Padded[k]
  BY <1>1, PaddedBytes
<1>7. T[k] = StrippedTo(idx)[k]
  BY <1>1, <1>2, <1>3, <1>4, <1>5
<1>8. QED
  BY <1>1, <1>2, <1>4, <1>5, <1>6, <1>7

LEMMA TokenAgree ==
  ASSUME NEW t, NEW u, NEW k \in Nat, \A j \in 0..k : t[j] = u[j]
  PROVE  Token(t, k) <=> Token(u, k)
<1>1. ASSUME NEW i \in 0..k
      PROVE  t[i] = u[i] /\ (Delimits(t, i) <=> Delimits(u, i)) /\ (Inside(t, i) <=> Inside(u, i))
  <2>1. i \in Nat /\ \A j \in 0..i : Alike(t[j], u[j])
    BY DEF Alike
  <2>2. QED
    BY <2>1, DelimitsAgree, InsideAgree
<1>2. k \in 0..k
  OBVIOUS
<1>3. ASSUME k # 0 PROVE Separates(t, k - 1) <=> Separates(u, k - 1)
  <2>1. k - 1 \in 0..k
    BY <1>3
  <2>2. QED
    BY <1>1, <2>1 DEF Separates
<1>4. QED
  BY <1>1, <1>2, <1>3 DEF Token

(* Strings of the text are those of the padded text. *)
LEMMA TextInside ==
  ASSUME AtEnd, NEW k \in DOMAIN source
  PROVE  /\ Delimits(T, k) <=> Delimits(Clean, k)
         /\ Inside(T, k) <=> Inside(Clean, k)
         /\ Token(T, k) <=> Token(StrippedTo(idx), k)
<1>1. k \in Nat /\ \A j \in 0..k : j \in DOMAIN source
  BY AtEndFacts
<1>2. \A j \in 0..k : Alike(T[j], Clean[j]) /\ T[j] = StrippedTo(idx)[j]
  BY <1>1, StrippedAgrees
<1>3. QED
  BY <1>1, <1>2, DelimitsAgree, InsideAgree, TokenAgree

LEMMA TokensOfText ==
  ASSUME AtEnd
  PROVE  Tokens(T) = {k \in 0..idx - 1 : Token(StrippedTo(idx), k)}
<1>1. ASSUME NEW k \in 0..idx - 1, k \notin DOMAIN source PROVE ~ Token(StrippedTo(idx), k)
  <2>1. Clean[k] = Space
    BY <1>1, AtEndFacts
  <2>2. Alike(StrippedTo(idx)[k], Clean[k]) /\ StrippedTo(idx)[k] = Space
    <3>1. k \in DOMAIN Padded /\ idx \in Nat /\ TypeOK
      BY AtEndFacts, PaddedReach
    <3>2. Padded[k] = Space
      BY <1>1, <3>1, PaddedBytes
    <3>3. QED
      BY <3>1, <3>2, StrippedBytes
  <2>3. QED
    BY <2>2 DEF Token, Delimits, Space, Quote
<1>2. \A k \in DOMAIN source : k \in 0..idx - 1 /\ (Token(T, k) <=> Token(StrippedTo(idx), k))
  BY AtEndFacts, TextInside
<1>3. DOMAIN T = DOMAIN source
  BY AtEndFacts
<1>4. QED
  BY <1>1, <1>2, <1>3 DEF Tokens

(* Bytes that delimit nothing make no difference. *)
LEMMA InsideStays ==
  ASSUME NEW t, NEW k \in Nat, NEW m \in Nat, k <= m,
         \A q \in k + 1..m : ~ Delimits(t, q)
  PROVE  Inside(t, k) <=> Inside(t, m)
<1>1. {q \in 0..k : Delimits(t, q)} = {q \in 0..m : Delimits(t, q)}
  <2>1. \A q \in 0..k : q \in 0..m
    OBVIOUS
  <2>2. \A q \in 0..m : q \in 0..k \/ q \in k + 1..m
    OBVIOUS
  <2>3. QED
    BY <2>1, <2>2
<1>2. QED
  BY <1>1 DEF Inside

LEMMA UnclosedIsCarried ==
  ASSUME AtEnd
  PROVE  carry.quote <=> Unclosed(T)
<1> DEFINE L == Length(source)
<1>1. /\ idx \in Nat /\ L \in Nat /\ Length(T) = L /\ L <= idx /\ BlockSize \in Nat \ {0}
      /\ idx % BlockSize = 0 /\ idx < L + BlockSize
      /\ DOMAIN source = 0..L - 1
  BY AtEndFacts, ScanningFacts DEF AtEnd, Scanning, OrderInv
<1>2. carry.quote <=> idx > 0 /\ Inside(Clean, idx - 1)
  BY AtEndFacts DEF QuoteInv, Scanning
<1>3. CASE L = 0
  <2>1. ~ (idx > 0)
    <3>1. idx > 0 => BlockSize <= idx
      BY <1>1, Multiples
    <3>2. QED
      BY <1>1, <1>3, <3>1
  <2>2. QED
    BY <1>1, <1>2, <1>3, <2>1 DEF Unclosed
<1>4. CASE L # 0
  <2>1. L - 1 \in Nat /\ idx - 1 \in Nat /\ L - 1 <= idx - 1 /\ idx > 0 /\ L > 0 /\ L - 1 \in DOMAIN source
    BY <1>1, <1>4
  <2>2. ASSUME NEW q \in (L - 1) + 1..idx - 1 PROVE ~ Delimits(Clean, q)
    <3>1. q \in 0..idx - 1 /\ q \notin DOMAIN source
      BY <1>1, <2>1
    <3>2. Clean[q] = Space
      BY <3>1, AtEndFacts
    <3>3. QED
      BY <3>2 DEF Delimits, Space, Quote
  <2>3. Inside(Clean, L - 1) <=> Inside(Clean, idx - 1)
    BY <2>1, <2>2, InsideStays
  <2>4. Inside(T, L - 1) <=> Inside(Clean, L - 1)
    BY <2>1, TextInside
  <2>5. QED
    BY <1>1, <1>2, <2>1, <2>3, <2>4 DEF Unclosed
<1>5. QED
  BY <1>3, <1>4

(* Whoever is in a string has its quote before him, and it was found.      *)
LEMMA StringHasQuote ==
  ASSUME AtEnd, NEW k \in 0..idx - 1, Inside(Clean, k)
  PROVE  Found # {} /\ Tokens(T) # {}
<1> DEFINE S == {q \in 0..k : Delimits(Clean, q)}
<1>1. k \in Nat /\ \A q \in 0..k : q \in Nat /\ q \in 0..idx - 1
  BY AtEndFacts
<1>2. S # {}
  BY <1>1, FS_EmptySet DEF Inside
<1>3. PICK q \in S : \A r \in S : q <= r
  BY <1>1, <1>2, LeastOf
<1>4. {r \in 0..q : Delimits(Clean, r)} = {q}
  <2>1. \A r \in 0..q : r \in 0..k /\ (Delimits(Clean, r) => r = q)
    BY <1>1, <1>3
  <2>2. q \in 0..q
    BY <1>1, <1>3
  <2>3. QED
    BY <1>3, <2>1, <2>2
<1>5. Delimits(Clean, q) /\ Inside(Clean, q) /\ q \in 0..idx - 1
  <2>1. Cardinality({q}) % 2 = 1
    <3>1. Cardinality({q}) = 1
      BY FS_Singleton
    <3>2. 1 % 2 = 1
      OBVIOUS
    <3>3. QED
      BY <3>1, <3>2
  <2>2. QED
    <3>1. Delimits(Clean, q) /\ q \in 0..k
      BY <1>3
    <3>2. Cardinality({r \in 0..q : Delimits(Clean, r)}) % 2 = 1
      BY <1>4, <2>1
    <3>3. QED
      BY <1>1, <3>1, <3>2 DEF Inside
<1>6. q \in Found
  BY <1>5, AtEndFacts DEF TokenInv, Scanning
<1>7. q \in DOMAIN source
  BY <1>5, AtEndFacts DEF Delimits, Space, Quote
<1>8. Token(T, q)
  BY <1>5, <1>7, TextInside DEF Token
<1>9. q \in Tokens(T)
  BY <1>7, <1>8, AtEndFacts DEF Tokens
<1>10. QED
  BY <1>6, <1>9

(* A line end in a string that ends: the last one before its closing quote *)
(* is followed by no comment.                                              *)
LEMMA LastNewlineStays ==
  ASSUME AtEnd, NEW k \in DOMAIN source, Padded[k] = "NL", Inside(Clean, k),
         ~ Inside(Clean, idx - 1)
  PROVE  \E m \in DOMAIN source : T[m] = "NL" /\ Inside(T, m)
<1> DEFINE D == {q \in k + 1..idx - 1 : Delimits(Clean, q)}
<1>1. /\ k \in Nat /\ idx \in Nat /\ k <= idx - 1 /\ idx - 1 \in Nat
      /\ \A j \in 0..idx - 1 : j \in Nat /\ j \in DOMAIN Padded
      /\ Scanning /\ TypeOK
  BY AtEndFacts, PaddedReach
<1>2. D # {} /\ D \subseteq Nat
  BY <1>1, InsideStays
<1>3. PICK d \in D : \A q \in D : d <= q
  BY <1>2, LeastOf
<1>4. d \in Nat /\ k < d /\ d \in 0..idx - 1 /\ Delimits(Clean, d)
  BY <1>1, <1>3
<1> DEFINE N == {j \in k..d - 1 : Padded[j] = "NL"}
<1>5. k \in N /\ N \subseteq Nat /\ \A j \in N : j <= d
  BY <1>1, <1>4
<1> DEFINE m == Max(N)
<1>6. m \in N /\ \A j \in N : j <= m
  BY <1>4, <1>5, MaxOf
<1> HIDE DEF m
<1>7. m \in Nat /\ k <= m /\ m < d /\ Padded[m] = "NL" /\ m \in 0..idx - 1
  BY <1>1, <1>4, <1>6
<1>8. \A j \in m + 1..d - 1 : Padded[j] # "NL"
  BY <1>1, <1>4, <1>6, <1>7
<1>9. /\ Clean[d] = Quote /\ Padded[d] = Quote /\ ~ Commented(Padded, d)
  <2>1. Clean[d] = Quote /\ d \in DOMAIN Padded
    BY <1>1, <1>4 DEF Delimits
  <2>2. QED
    BY <1>1, <2>1, PaddedBytes DEF Space, Quote
<1>10. m \in DOMAIN source
  BY <1>1, <1>7, PaddedBytes DEF Space
<1>11. Inside(Clean, m)
  <2>1. \A q \in k + 1..m : q \in k + 1..idx - 1 /\ q \in Nat /\ q < d
    BY <1>1, <1>4, <1>7
  <2>2. \A q \in k + 1..m : ~ Delimits(Clean, q)
    BY <1>3, <1>4, <2>1
  <2>3. QED
    BY <1>1, <1>7, <2>2, InsideStays
<1>12. ~ Commented(Padded, m) /\ Clean[m] = "NL"
  <2>1. ~ Commented(Padded, m)
    <3>1. \A h \in 0..m : m \in h..m
      BY <1>7
    <3>2. QED
      BY <1>7, <3>1 DEF Commented
  <2>2. QED
    BY <1>1, <1>7, <2>1, PaddedBytes
<1>13. ASSUME Swallowed(source, m) PROVE FALSE
  <2>1. PICK h \in 0..idx - 1 : Takes(h, m)
    BY <1>10, <1>13, TakenIsSwallowed
  <2>2. /\ m < h /\ Opens(Padded, h) /\ h \in Nat
        /\ \A j \in m + 1..h - 1 : Padded[j] # "NL"
    BY <1>1, <2>1 DEF Takes, Precedes
  <2>3. Padded[h] = "#" /\ Indented(Padded, h)
    BY <2>2 DEF Opens
  <2>4. CASE h < d
    <3>1. \A j \in h..d : j = d \/ j \in m + 1..d - 1
      BY <1>4, <1>7, <2>2
    <3>2. \A j \in h..d : Padded[j] # "NL"
      BY <1>8, <1>9, <3>1 DEF Quote
    <3>3. h \in 0..d
      BY <1>4, <2>2, <2>4
    <3>4. Commented(Padded, d)
      BY <2>2, <3>2, <3>3 DEF Commented
    <3>5. QED
      BY <1>9, <3>4
  <2>5. CASE h = d
    BY <1>9, <2>3, <2>5 DEF Quote
  <2>6. CASE h > d
    <3>1. PICK l \in 0..h : StartsLine(Padded, l) /\ \A j \in l..h - 1 : Padded[j] = Space
      BY <2>3 DEF Indented
    <3>2. l <= d
      <4>1. CASE l = 0
        BY <1>4, <4>1
      <4>2. CASE l # 0
        <5>1. Padded[l - 1] = "NL"
          BY <3>1, <4>2 DEF StartsLine
        <5>2. l - 1 \notin m + 1..h - 1
          BY <2>2, <5>1
        <5>3. QED
          BY <1>4, <1>7, <2>2, <3>1, <4>2, <5>2
      <4>3. QED
        BY <4>1, <4>2
    <3>3. d \in l..h - 1
      BY <1>4, <2>2, <2>6, <3>1, <3>2
    <3>4. QED
      BY <1>9, <3>1, <3>3 DEF Space, Quote
  <2>7. QED
    BY <1>4, <2>2, <2>4, <2>5, <2>6
<1>14. T[m] = "NL"
  BY <1>10, <1>12, <1>13, StrippedAgrees
<1>15. QED
  BY <1>10, <1>11, <1>14, TextInside

(* A string that is broken by a control character: that stage 1 sees some  *)
(* that a comment takes later makes no difference in the end.              *)
LEMMA InvalidIsControl ==
  ASSUME AtEnd, ~ carry.quote
  PROVE  invalid <=> \E k \in DOMAIN T : T[k] \in Control /\ Inside(T, k)
<1>1. /\ idx \in Nat /\ DOMAIN T = DOMAIN source /\ BlockSize \in Nat \ {0} /\ TypeOK
      /\ \A j \in 0..idx - 1 : j \in Nat /\ j \in DOMAIN Padded
      /\ Space \notin Control /\ "NL" \in Control
      /\ Scanning
  BY AtEndFacts, PaddedReach DEF Control, Space
<1>2. invalid <=> \E k \in 0..idx - 1 : Offends(k)
  BY AtEndFacts DEF QuoteInv, Scanning
<1>3. ~ (idx > 0 /\ Inside(Clean, idx - 1))
  BY AtEndFacts DEF QuoteInv, Scanning
<1>4. ASSUME NEW k \in 0..idx - 1, Offends(k)
      PROVE  \E m \in DOMAIN T : T[m] \in Control /\ Inside(T, m)
  <2>1. Clean[k] \in Control /\ Inside(Clean, k)
    BY <1>4 DEF Offends
  <2>2. k \in DOMAIN source
    BY <1>1, <2>1, AtEndFacts
  <2>3. CASE ~ Swallowed(source, k)
    <3>1. T[k] = Clean[k] /\ Inside(T, k)
      BY <2>1, <2>2, <2>3, StrippedAgrees, TextInside
    <3>2. QED
      BY <1>1, <2>1, <2>2, <3>1
  <2>4. CASE Swallowed(source, k)
    <3>1. Padded[k] = "NL"
      BY <2>2, <2>4, AtEndFacts DEF Swallowed, Precedes
    <3>2. ~ Inside(Clean, idx - 1)
      BY <1>1, <1>3, <1>4
    <3>3. \E m \in DOMAIN source : T[m] = "NL" /\ Inside(T, m)
      BY <2>1, <2>2, <3>1, <3>2, LastNewlineStays
    <3>4. QED
      BY <1>1, <3>3
  <2>5. QED
    BY <2>3, <2>4
<1>5. ASSUME NEW k \in DOMAIN T, T[k] \in Control, Inside(T, k)
      PROVE  k \in 0..idx - 1 /\ Offends(k)
  <2>1. k \in DOMAIN source /\ k \in 0..idx - 1 /\ k \in Nat /\ k < idx
    BY <1>1, <1>5, AtEndFacts
  <2>2. T[k] # Space
    BY <1>1, <1>5
  <2>3. ~ Swallowed(source, k)
    BY <2>1, <2>2 DEF T, Stripped, Blank
  <2>4. Clean[k] \in Control /\ Inside(Clean, k)
    BY <1>5, <2>1, <2>3, StrippedAgrees, TextInside
  <2>5. \A h \in 0..k + BlockSize : h \in DOMAIN Padded
    <3>1. \A h \in 0..k + BlockSize : h \in 0..idx + BlockSize
      BY <1>1, <2>1
    <3>2. QED
      BY <1>1, <3>1, PaddedReach
  <2>6. \A h \in 0..k + BlockSize : ~ Takes(h, k)
    BY <2>1, <2>3, <2>5, TakenIsSwallowed
  <2>7. QED
    BY <2>1, <2>4, <2>6 DEF Offends
<1>6. QED
  BY <1>2, <1>4, <1>5

(* What the scan returns is what the reference says. *)
LEMMA FinishExact ==
  ASSUME AtEnd, Finish
  PROVE  TokensExact' /\ VerdictExact' /\ HandsOverDocument'
<1> DEFINE L == Length(source)
<1>1. /\ result = "scanning"
      /\ result' = IF carry.quote THEN "Syntax"
                   ELSE IF Emitted = << >> THEN "Eof"
                   ELSE IF invalid THEN "Syntax"
                   ELSE IF broken THEN "InvalidUtf8" ELSE "Ok"
      /\ result' = "Ok" => /\ indexes' = Append(Emitted, Length(input))
                           /\ buffer' = Copied(buffer, input)
      /\ source' = source /\ input' = input
  BY DEF Finish, Emitted
<1>2. /\ TypeOK /\ Scanning /\ L \in Nat /\ DOMAIN source = 0..L - 1 /\ BlockSize \in Nat \ {0}
      /\ DOMAIN T = DOMAIN source /\ Length(T) = L /\ Length(input) = L
      /\ idx \in Nat
  BY AtEndFacts, Shapes
<1>3. /\ L <= MaxLength /\ MaxLength \in Nat /\ L + BlockSize <= Length(buffer)
      /\ Length(buffer) \in Nat /\ DOMAIN buffer = 0..Length(buffer) - 1
      /\ input \in [DOMAIN source -> Byte]
  BY <1>1, <1>2, Blocks DEF OrderInv, TypeOK, Scanning
<1>4. /\ Emitted \in Seq(Nat) /\ Len(Emitted) \in Nat /\ Ascending(Emitted)
      /\ \A n \in 1..Len(Emitted) : Emitted[n] \in Nat /\ Emitted[n] < L
      /\ Found = {Emitted[n] : n \in 1..Len(Emitted)}
  BY <1>2, EmittedList, ElementOfSeq, LenProperties DEF Scanning
<1>5. /\ invalid \in BOOLEAN /\ broken \in BOOLEAN /\ carry.quote \in BOOLEAN
  BY <1>2, CarryBooleans
<1>6. ~ invalid => /\ Found = Tokens(T)
                   /\ \A k \in DOMAIN source : input[k] = T[k]
  <2>1. ASSUME ~ invalid, NEW k \in DOMAIN source PROVE input[k] = T[k]
    <3>1. input[k] = StrippedTo(idx)[k]
      BY <1>1, <2>1, AtEndFacts DEF TokenInv
    <3>2. QED
      BY <3>1, StrippedAgrees
  <2>2. ~ invalid => Found = {k \in 0..idx - 1 : Token(StrippedTo(idx), k)}
    BY <1>1, AtEndFacts DEF TokenInv
  <2>3. QED
    BY <2>1, <2>2, TokensOfText
<1>7. Emitted = << >> <=> Tokens(T) = {}
  <2>1. Emitted = << >> <=> Found = {}
    <3>1. Emitted = << >> <=> Len(Emitted) = 0
      BY <1>4, EmptySeq
    <3>2. ASSUME Len(Emitted) # 0 PROVE Found # {}
      <4>1. 1 \in 1..Len(Emitted)
        BY <1>4, <3>2
      <4>2. QED
        BY <1>4, <4>1
    <3>3. ASSUME Len(Emitted) = 0 PROVE Found = {}
      <4>1. 1..Len(Emitted) = {}
        BY <3>3
      <4>2. QED
        BY <1>4, <4>1
    <3>4. QED
      BY <3>1, <3>2, <3>3
  <2>2. CASE ~ invalid
    BY <1>6, <2>1, <2>2
  <2>3. CASE invalid
    <3>1. PICK k \in 0..idx - 1 : Offends(k)
      BY <1>1, <2>3, AtEndFacts DEF QuoteInv
    <3>2. Inside(Clean, k)
      BY <3>1 DEF Offends
    <3>3. Found # {} /\ Tokens(T) # {}
      BY <3>2, StringHasQuote
    <3>4. QED
      BY <2>1, <3>3
  <2>4. QED
    BY <2>2, <2>3
<1>8. carry.quote <=> Unclosed(T)
  BY UnclosedIsCarried
<1>9. ~ carry.quote => (invalid <=> \E k \in DOMAIN T : T[k] \in Control /\ Inside(T, k))
  BY InvalidIsControl
<1>10. broken <=> \E k \in DOMAIN source : source[k] = "bad"
  BY <1>1, AtEndFacts DEF QuoteInv
<1>11. result' = Verdict(source)
  <2>1. ~ (L > MaxLength)
    BY <1>2, <1>3
  <2>2. Verdict(source) =
          IF L > MaxLength THEN "InputTooLarge"
          ELSE IF Unclosed(T) THEN "Syntax"
          ELSE IF Tokens(T) = {} THEN "Eof"
          ELSE IF \E k \in DOMAIN T : T[k] \in Control /\ Inside(T, k) THEN "Syntax"
          ELSE IF \E k \in DOMAIN source : source[k] = "bad" THEN "InvalidUtf8" ELSE "Ok"
    BY DEF Verdict, T
  <2> HIDE DEF L
  <2>3. QED
    BY <1>1, <1>5, <1>7, <1>8, <1>9, <1>10, <2>1, <2>2
<1>12. result' = "Ok" => ~ invalid
  BY <1>1
<1>13. Stripped(source)' = T
  BY <1>1 DEF T
<1>14. TokensExact'
  <2>1. ASSUME result' = "Ok"
        PROVE  /\ \A m, n \in 1..Len(indexes') : m < n => indexes'[m] < indexes'[n]
               /\ {indexes'[n] : n \in 1..Len(indexes')} = Tokens(T) \cup {L}
    <3>1. indexes' = Append(Emitted, L)
      BY <1>1, <1>2, <2>1
    <3>2. /\ Len(indexes') = Len(Emitted) + 1
          /\ \A n \in 1..Len(Emitted) : indexes'[n] = Emitted[n]
          /\ indexes'[Len(Emitted) + 1] = L
      BY <1>2, <1>4, <3>1, AppendProperties
    <3>3. \A n \in 1..Len(indexes') : n \in 1..Len(Emitted) \/ n = Len(Emitted) + 1
      BY <1>4, <3>2
    <3>4. \A n \in 1..Len(Emitted) : n \in 1..Len(indexes')
      BY <1>4, <3>2
    <3>5. Len(Emitted) + 1 \in 1..Len(indexes')
      BY <1>4, <3>2
    <3> HIDE DEF L
    <3>6. ASSUME NEW m \in 1..Len(indexes'), NEW n \in 1..Len(indexes'), m < n
          PROVE  indexes'[m] < indexes'[n]
      <4>1. m \in 1..Len(Emitted)
        BY <1>4, <3>2, <3>6
      <4>2. CASE n \in 1..Len(Emitted)
        BY <1>4, <3>2, <3>6, <4>1, <4>2 DEF Ascending
      <4>3. CASE n = Len(Emitted) + 1
        BY <1>4, <3>2, <4>1, <4>3
      <4>4. QED
        BY <3>3, <4>2, <4>3
    <3>7. {indexes'[n] : n \in 1..Len(indexes')} = {Emitted[n] : n \in 1..Len(Emitted)} \cup {L}
      <4>1. \A n \in 1..Len(indexes') :
              indexes'[n] \in {Emitted[o] : o \in 1..Len(Emitted)} \cup {L}
        BY <3>2, <3>3
      <4>2. \A n \in 1..Len(Emitted) : Emitted[n] \in {indexes'[o] : o \in 1..Len(indexes')}
        BY <3>2, <3>4
      <4>3. L \in {indexes'[o] : o \in 1..Len(indexes')}
        BY <3>2, <3>5
      <4>4. QED
        BY <4>1, <4>2, <4>3
    <3>8. QED
      BY <1>4, <1>6, <1>12, <2>1, <3>6, <3>7
  <2>2. QED
    BY <1>1, <1>13, <2>1 DEF TokensExact
<1>15. VerdictExact'
  BY <1>1, <1>11 DEF VerdictExact
<1>16. HandsOverDocument'
  <2>1. ASSUME result' = "Ok"
        PROVE  /\ input = T
               /\ \A k \in 0..L + BlockSize - 1 :
                    /\ k \in DOMAIN buffer'
                    /\ buffer'[k] = IF k < L THEN T[k] ELSE IF k = L THEN "NL" ELSE Space
    <3>1. \A k \in DOMAIN source : input[k] = T[k]
      BY <1>6, <1>12, <2>1
    <3>2. input = T
      <4>1. T = [k \in DOMAIN T |-> T[k]]
        BY DEF T, Stripped, Blank
      <4>2. QED
        BY <1>2, <1>3, <3>1, <4>1
    <3>3. ASSUME NEW k \in 0..L + BlockSize - 1
          PROVE  /\ k \in DOMAIN buffer'
                 /\ buffer'[k] = IF k < L THEN T[k] ELSE IF k = L THEN "NL" ELSE Space
      <4>1. k \in DOMAIN buffer /\ k \in Nat /\ k < L + BlockSize
        BY <1>2, <1>3
      <4>2. k \in DOMAIN input <=> k < L
        BY <1>2, <1>3, <4>1
      <4>3. buffer' = [j \in DOMAIN buffer |->
                         IF j \in DOMAIN input THEN input[j]
                         ELSE IF j = L THEN "NL"
                         ELSE IF j < L + BlockSize THEN Space ELSE buffer[j]]
        BY <1>1, <1>2, <2>1 DEF Copied
      <4> HIDE DEF L
      <4>4. QED
        BY <3>2, <4>1, <4>2, <4>3
    <3>4. QED
      BY <3>2, <3>3
  <2>2. QED
    BY <1>1, <1>2, <1>13, <2>1 DEF HandsOverDocument
<1>17. QED
  BY <1>14, <1>15, <1>16

-----------------------------------------------------------------------------
(* The theorems. *)

Exact == TokensExact /\ VerdictExact /\ HandsOverDocument

LEMMA NotOkExact ==
  ASSUME result \in {"scanning", "InputTooLarge"},
         result = "InputTooLarge" => Length(source) > MaxLength
  PROVE  Exact
<1>1. result # "Ok"
  OBVIOUS
<1>2. VerdictExact
  BY DEF VerdictExact, Verdict
<1>3. QED
  BY <1>1, <1>2 DEF Exact, TokensExact, HandsOverDocument

LEMMA NotOkNext ==
  (result \in {"scanning", "InputTooLarge"}
     /\ (result = "InputTooLarge" => Length(source) > MaxLength))'
  => Exact'
<1>1. result \in {"scanning", "InputTooLarge"}
        /\ (result = "InputTooLarge" => Length(source) > MaxLength)
      => Exact
  BY NotOkExact
<1>2. QED
  BY <1>1, PTL

LEMMA FreshNext == (TypeOK /\ Fresh)' => Reads'
<1>1. TypeOK /\ Fresh => Reads
  BY FreshReads
<1>2. QED
  BY <1>1, PTL

LEMMA InitExact ==
  ASSUME Init
  PROVE  Reads /\ Exact
<1>1. TypeOK
  BY InitOrder
<1>2. Fresh
  BY DEF Init, Fresh
<1>3. /\ result \in {"scanning", "InputTooLarge"}
      /\ result = "InputTooLarge" => Length(source) > MaxLength
  BY DEF Init
<1>4. QED
  BY <1>1, <1>2, <1>3, FreshReads, NotOkExact

LEMMA NextDocumentExact ==
  ASSUME TypeOK', NextDocument
  PROVE  Reads' /\ Exact'
<1>1. PICK text \in Later :
         /\ source' = text /\ input' = text
         /\ IF Length(text) > MaxLength
            THEN /\ result' = "InputTooLarge"
                 /\ UNCHANGED <<idx, structurals, indexes, carry, invalid, broken, buffer>>
            ELSE /\ result' = "scanning" /\ idx' = 0 /\ structurals' = {} /\ indexes' = << >>
                 /\ carry' = NoCarry /\ invalid' = FALSE /\ broken' = FALSE
                 /\ buffer' = Reserved(buffer, text)
  BY DEF NextDocument
<1>2. Exact'
  <2>1. (result \in {"scanning", "InputTooLarge"}
           /\ (result = "InputTooLarge" => Length(source) > MaxLength))'
    BY <1>1
  <2>2. QED
    BY <2>1, NotOkNext
<1>3. Reads'
  <2>1. CASE Length(text) > MaxLength
    <3>1. result' = "InputTooLarge"
      BY <1>1, <2>1
    <3>2. QED
      BY <3>1 DEF Reads, CommentInv, QuoteInv, TokenInv
  <2>2. CASE ~ (Length(text) > MaxLength)
    <3>1. Fresh'
      BY <1>1, <2>2 DEF Fresh
    <3>2. QED
      BY <3>1, FreshNext
  <2>3. QED
    BY <2>1, <2>2
<1>4. QED
  BY <1>2, <1>3

LEMMA ScanBlockExact ==
  ASSUME TypeOK, OrderInv, Reads, result = "scanning", idx < Length(input), ScanBlock
  PROVE  Reads' /\ Exact'
<1>1. Scanning /\ CommentInv /\ QuoteInv /\ Reading
  BY DEF Scanning, Reads, Reading
<1>2. Reads'
  BY <1>1, CommentStep, QuoteStep, TokenStep DEF Reads
<1>3. (result \in {"scanning", "InputTooLarge"}
         /\ (result = "InputTooLarge" => Length(source) > MaxLength))'
  BY ScanBlockParts
<1>4. QED
  BY <1>2, <1>3, NotOkNext

LEMMA FinishReads ==
  ASSUME TypeOK, OrderInv, Reads, Finish
  PROVE  Reads' /\ Exact'
<1>1. result = "scanning" /\ Length(input) <= idx /\ result' # "scanning"
  BY DEF Finish
<1>2. Length(source) <= idx
  BY <1>1, Shapes
<1>3. AtEnd
  BY <1>1, <1>2 DEF AtEnd, Reading, Reads, Scanning
<1>4. Exact'
  BY <1>3, FinishExact DEF Exact
<1>5. Reads'
  BY <1>1 DEF Reads, CommentInv, QuoteInv, TokenInv
<1>6. QED
  BY <1>4, <1>5

(* What is known of the text between two blocks, and what follows of it    *)
(* when the last has been read, whatever was in the buffers before.        *)
THEOREM Stage1Inductive == Spec => []IndInv
<1>1. Init => IndInv
  BY InitOrder, InitExact DEF IndInv, Reads, Exact
<1>2. ASSUME IndInv, [Next]_vars PROVE IndInv'
  <2>1. TypeOK /\ OrderInv /\ Reads
    BY <1>2 DEF IndInv, Reads
  <2>2. ASSUME TypeOK', OrderInv', Reads', Exact' PROVE IndInv'
    BY <2>2 DEF IndInv, Reads, Exact
  <2>3. CASE WholeBlock
    <3>1. Length(input) \in Nat /\ idx \in Nat
      BY <2>1, Shapes
    <3>2. result = "scanning" /\ idx < Length(input) - BlockSize /\ ScanBlock
      BY <2>3 DEF WholeBlock
    <3>3. idx < Length(input)
      BY <3>1, <3>2, Blocks
    <3>4. QED
      BY <2>1, <2>2, <3>2, <3>3, ScanBlockOrder, ScanBlockExact
  <2>4. CASE LastBlock
    BY <2>1, <2>2, <2>4, ScanBlockOrder, ScanBlockExact DEF LastBlock
  <2>5. CASE Finish
    BY <2>1, <2>2, <2>5, FinishOrder, FinishReads
  <2>6. CASE NextDocument
    BY <2>1, <2>2, <2>6, NextDocumentOrder, NextDocumentExact
  <2>7. CASE UNCHANGED vars
    <3>1. UNCHANGED vars
      BY <2>7
    <3>2. /\ source' = source /\ input' = input /\ idx' = idx /\ structurals' = structurals
          /\ indexes' = indexes /\ carry' = carry /\ invalid' = invalid /\ broken' = broken
          /\ buffer' = buffer /\ result' = result
      BY <3>1 DEF vars, scan
    <3>3. TypeOK' /\ OrderInv'
      BY <2>1, <3>2 DEF TypeOK, OrderInv
    <3>4. Reads'
      <4>1. Padded' = Padded /\ Clean' = Clean /\ StrippedTo(idx)' = StrippedTo(idx) /\ Found' = Found
        BY <3>2 DEF Padded, Clean, WithoutComments, StrippedTo, Takes, Found
      <4>2. \A k : Offends(k)' <=> Offends(k)
        BY <4>1 DEF Offends, Takes
      <4>3. CommentInv'
        BY <2>1, <3>2, <4>1 DEF Reads, CommentInv
      <4>4. QuoteInv'
        BY <2>1, <3>2, <4>1, <4>2 DEF Reads, QuoteInv
      <4>5. TokenInv'
        BY <2>1, <3>2, <4>1 DEF Reads, TokenInv
      <4>6. QED
        BY <4>3, <4>4, <4>5 DEF Reads
    <3>5. Exact'
      BY <1>2, <3>2 DEF IndInv, Exact, TokensExact, VerdictExact, HandsOverDocument
    <3>6. QED
      BY <2>2, <3>3, <3>4, <3>5
  <2>8. QED
    BY <1>2, <2>3, <2>4, <2>5, <2>6, <2>7 DEF Next
<1>3. QED
  BY <1>1, <1>2, PTL DEF Spec

(* The indexes of an accepted text are its tokens and its length. *)
THEOREM TokensFound == Spec => []TokensExact
<1>1. IndInv => TokensExact
  BY DEF IndInv
<1>2. QED
  BY <1>1, Stage1Inductive, PTL

(* A text is accepted or refused as the reference definitions say. *)
THEOREM VerdictFollows == Spec => []VerdictExact
<1>1. IndInv => VerdictExact
  BY DEF IndInv
<1>2. QED
  BY <1>1, Stage1Inductive, PTL

(* Stage 2 gets the text without its comments, whatever the buffers held. *)
THEOREM DocumentHandedOver == Spec => []HandsOverDocument
<1>1. IndInv => HandsOverDocument
  BY DEF IndInv
<1>2. QED
  BY <1>1, Stage1Inductive, PTL

(* The carries summarize the text that has been read: nothing behind it    *)
(* has been looked at.                                                     *)
LEMMA CarriesFollow ==
  ASSUME IndInv
  PROVE  CarriesSummarize
<1> DEFINE read == [k \in 0..idx - 1 |-> IF k \in DOMAIN source THEN source[k] ELSE Space]
           text == WithoutComments(read)
<1>1. SUFFICES ASSUME result = "scanning", idx > 0
               PROVE  /\ carry.comment = Commented(read, idx - 1)
                      /\ carry.indent = Indented(read, idx)
                      /\ carry.odd = Escaped(text, idx)
                      /\ carry.quote = Inside(text, idx - 1)
                      /\ carry.pred = Separates(text, idx - 1)
  BY DEF CarriesSummarize
<1>2. Scanning /\ CommentInv /\ QuoteInv /\ TypeOK
  BY <1>1 DEF IndInv, Scanning
<1>3. /\ idx \in Nat /\ idx - 1 \in Nat
      /\ \A k \in 0..idx - 1 : k \in Nat /\ k \in DOMAIN Padded /\ \A j \in 0..k : j \in 0..idx - 1
  BY <1>1, <1>2, ScanningFacts, PaddedReach
<1>4. \A k \in 0..idx - 1 : read[k] = Padded[k]
  BY <1>2, <1>3, PaddedBytes
<1>5. /\ DOMAIN text = 0..idx - 1
      /\ \A k \in 0..idx - 1 : text[k] = IF Commented(read, k) THEN Space ELSE read[k]
  BY DEF WithoutComments, Blank
<1> HIDE DEF read, text
<1>6. ASSUME NEW k \in 0..idx - 1 PROVE text[k] = Clean[k]
  <2>1. Commented(read, k) <=> Commented(Padded, k)
    BY <1>3, <1>4, CommentedAgree
  <2>2. /\ Commented(Padded, k) => Clean[k] = Space
        /\ ~ Commented(Padded, k) => Clean[k] = Padded[k]
    BY <1>2, <1>3, PaddedBytes
  <2>3. QED
    BY <1>4, <1>5, <2>1, <2>2
<1>7. \A k \in 0..idx - 1 : Alike(text[k], Clean[k])
  BY <1>6 DEF Alike
<1>8. idx - 1 \in 0..idx - 1 /\ \A k \in 0..idx - 1 : k \in 0..(idx - 1)
  BY <1>3
<1>9. Commented(read, idx - 1) <=> Commented(Padded, idx - 1)
  BY <1>3, <1>4, CommentedAgree
<1>10. Indented(read, idx) <=> Indented(Padded, idx)
  BY <1>3, <1>4, IndentedAgree
<1>11. Escaped(text, idx) <=> Escaped(Clean, idx)
  BY <1>3, <1>7, EscapedAgree
<1>12. /\ Inside(text, idx - 1) <=> Inside(Clean, idx - 1)
       /\ Delimits(text, idx - 1) <=> Delimits(Clean, idx - 1)
  BY <1>3, <1>7, InsideAgree, DelimitsAgree
<1>13. Separates(text, idx - 1) <=> Separates(Clean, idx - 1)
  BY <1>6, <1>8, <1>12 DEF Separates
<1>14. carry.comment = Commented(read, idx - 1)
  <2>1. Commented(read, idx - 1) \in BOOLEAN /\ Commented(Padded, idx - 1) \in BOOLEAN
    BY DEF Commented
  <2>2. carry.comment = (idx > 0 /\ Commented(Padded, idx - 1))
    BY <1>1, <1>2 DEF CommentInv
  <2>3. QED
    BY <1>1, <1>9, <2>1, <2>2
<1>15. carry.indent = Indented(read, idx)
  <2>1. Indented(read, idx) \in BOOLEAN /\ Indented(Padded, idx) \in BOOLEAN
    BY DEF Indented
  <2>2. carry.indent = Indented(Padded, idx)
    BY <1>1, <1>2 DEF CommentInv
  <2>3. QED
    BY <1>10, <2>1, <2>2
<1>16. carry.odd = Escaped(text, idx)
  <2>1. Escaped(text, idx) \in BOOLEAN /\ Escaped(Clean, idx) \in BOOLEAN
    BY InsideBoolean
  <2>2. carry.odd = Escaped(Clean, idx)
    BY <1>1, <1>2 DEF QuoteInv
  <2>3. QED
    BY <1>11, <2>1, <2>2
<1>17. carry.quote = Inside(text, idx - 1)
  <2>1. Inside(text, idx - 1) \in BOOLEAN /\ Inside(Clean, idx - 1) \in BOOLEAN
    BY InsideBoolean
  <2>2. carry.quote = (idx > 0 /\ Inside(Clean, idx - 1))
    BY <1>1, <1>2 DEF QuoteInv
  <2>3. QED
    BY <1>1, <1>12, <2>1, <2>2
<1>18. carry.pred = Separates(text, idx - 1)
  <2>1. Separates(text, idx - 1) \in BOOLEAN /\ Separates(Clean, idx - 1) \in BOOLEAN
    BY DEF Separates, Delimits, Inside
  <2>2. carry.pred = (idx = 0 \/ Separates(Clean, idx - 1))
    BY <1>1, <1>2 DEF QuoteInv
  <2>3. QED
    BY <1>1, <1>3, <1>13, <2>1, <2>2
<1>19. QED
  BY <1>14, <1>15, <1>16, <1>17, <1>18

(* The five carries say at each block boundary what the text before it     *)
(* means for the rest: an escape, an open string, an end of a token, an    *)
(* indentation, a comment.                                                 *)
THEOREM CarriesKnown == Spec => []CarriesSummarize
<1>1. IndInv => CarriesSummarize
  BY CarriesFollow
<1>2. QED
  BY <1>1, Stage1Inductive, PTL

-----------------------------------------------------------------------------
(* The indexes are a document of stage 2. *)

(* Behind a separator outside strings, the first byte that is no space     *)
(* is a token.                                                             *)
LEMMA FirstBehind ==
  ASSUME NEW t, NEW p \in Nat, ~ Inside(t, p), Separates(t, p),
         NEW k \in Nat, p < k, t[k] # Space, \A j \in p + 1..k - 1 : t[j] = Space
  PROVE  Token(t, k)
<1>1. \A j \in p + 1..k - 1 : ~ Delimits(t, j)
  BY DEF Delimits, Space, Quote
<1>2. k - 1 \in Nat /\ p <= k - 1 /\ (k - 1) + 1 = k
  OBVIOUS
<1>3. ~ Inside(t, k - 1)
  BY <1>1, <1>2, InsideStays
<1>4. Inside(t, k) <=> Delimits(t, k)
  BY <1>2, <1>3, InsideNext, InsideBoolean
<1>5. Separates(t, k - 1)
  <2>1. CASE k - 1 = p
    BY <2>1
  <2>2. CASE k - 1 # p
    BY <1>2, <2>2 DEF Separates
  <2>3. QED
    BY <2>1, <2>2
<1>6. QED
  BY <1>4, <1>5 DEF Token

LEMMA FirstOfText ==
  ASSUME NEW t, NEW k \in Nat, t[k] # Space, \A j \in 0..k - 1 : t[j] = Space
  PROVE  Token(t, k)
<1>1. CASE k = 0
  BY <1>1, InsideFirst DEF Token
<1>2. CASE k # 0
  <2>1. ~ Inside(t, 0) /\ Separates(t, 0)
    <3>1. t[0] = Space
      BY <1>2
    <3>2. QED
      BY <3>1, InsideFirst DEF Delimits, Separates, Space, Quote
  <2>2. QED
    BY <1>2, <2>1, FirstBehind
<1>3. QED
  BY <1>1, <1>2

LEMMA TokenBytes ==
  ASSUME NEW t, NEW k, Token(t, k)
  PROVE  t[k] # Space /\ (t[k] = "NL" => ~ Inside(t, k) /\ Separates(t, k))
BY DEF Token, Delimits, Separates, Structural, Space, Quote

LEMMA DocumentFollows ==
  ASSUME IndInv
  PROVE  IsDocument
<1> DEFINE text == Stripped(source)
           len  == Length(source)
           found == {indexes[n] : n \in 1..Len(indexes)}
<1>1. SUFFICES ASSUME result = "Ok"
               PROVE  /\ Len(indexes) >= 2
                      /\ indexes[Len(indexes)] = len
                      /\ \A n \in 1..Len(indexes) : buffer[indexes[n]] # Space
                      /\ buffer[indexes[Len(indexes)]] = "NL"
                      /\ \A k \in 0..indexes[1] - 1 : buffer[k] = Space
                      /\ \A n \in 1..Len(indexes) - 1 : buffer[indexes[n]] = "NL" =>
                           \A k \in indexes[n] + 1..indexes[n + 1] - 1 : buffer[k] = Space
  BY DEF IsDocument
<1>2. len \in Nat /\ DOMAIN source = 0..len - 1 /\ DOMAIN text = 0..len - 1 /\ Length(text) = len
  <2>1. source \in Inputs \cup Later
    BY DEF IndInv, TypeOK
  <2>2. len \in Nat /\ DOMAIN source = 0..len - 1
    BY <2>1, TextAssumption, FS_CardinalityType DEF Length
  <2>3. DOMAIN text = DOMAIN source
    BY DEF Stripped, Blank
  <2>4. QED
    BY <2>2, <2>3 DEF Length
<1>3. /\ \A k \in 0..len - 1 : buffer[k] = text[k]
      /\ buffer[len] = "NL"
  <2>1. \A k \in 0..len + BlockSize - 1 :
          buffer[k] = IF k < len THEN text[k] ELSE IF k = len THEN "NL" ELSE Space
    BY <1>1, <1>2 DEF IndInv, HandsOverDocument
  <2>2. BlockSize \in Nat \ {0}
    BY BlockSizeAssumption
  <2>3. QED
    BY <1>2, <2>1, <2>2
<1>4. /\ indexes \in Seq(0..len) /\ Len(indexes) \in Nat
      /\ \A n \in 1..Len(indexes) : indexes[n] \in 0..len
      /\ \A m, n \in 1..Len(indexes) : m < n => indexes[m] < indexes[n]
      /\ found = Tokens(text) \cup {len}
  <2>1. indexes \in Seq(0..len) /\ TokensExact
    BY DEF IndInv, TypeOK
  <2>2. /\ Len(indexes) \in Nat
        /\ \A n \in 1..Len(indexes) : indexes[n] \in 0..len
    BY <1>2, <2>1, LenProperties, ElementOfSeq
  <2>3. QED
    BY <1>1, <2>1, <2>2 DEF TokensExact
<1>5. Tokens(text) # {}
  BY <1>1 DEF IndInv, VerdictExact, Verdict
<1>6. \A k \in Tokens(text) : k \in 0..len - 1 /\ Token(text, k)
  BY <1>2 DEF Tokens
<1> HIDE DEF text, len
<1>7. PICK e \in 1..Len(indexes) : indexes[e] = len
  BY <1>4
<1>8. PICK f \in 1..Len(indexes) : indexes[f] \in 0..len - 1
  BY <1>4, <1>5, <1>6
<1>9. Len(indexes) >= 2
  BY <1>2, <1>4, <1>7, <1>8
<1>10. indexes[Len(indexes)] = len
  <2>1. Len(indexes) \in 1..Len(indexes)
    BY <1>4, <1>9
  <2>2. e < Len(indexes) => len < indexes[Len(indexes)]
    BY <1>4, <1>7, <2>1
  <2>3. indexes[Len(indexes)] \in 0..len
    BY <1>4, <2>1
  <2>4. QED
    BY <1>2, <1>4, <1>7, <2>2, <2>3
<1>11. \A n \in 1..Len(indexes) - 1 :
         indexes[n] \in 0..len - 1 /\ Token(text, indexes[n]) /\ buffer[indexes[n]] = text[indexes[n]]
  <2>1. TAKE n \in 1..Len(indexes) - 1
  <2>2. n \in 1..Len(indexes) /\ Len(indexes) \in 1..Len(indexes) /\ n < Len(indexes)
    BY <1>4, <1>9
  <2>3. indexes[n] < indexes[Len(indexes)] /\ indexes[n] \in 0..len
    BY <1>4, <2>2
  <2>4. indexes[n] \in Tokens(text)
    <3>1. indexes[n] \in found
      BY <2>2
    <3>2. indexes[n] # len
      BY <1>2, <1>10, <2>3
    <3>3. QED
      BY <1>4, <3>1, <3>2
  <2>5. QED
    BY <1>3, <1>6, <2>4
<1>12. ASSUME NEW n \in 0..Len(indexes) - 1,
              NEW p \in Int, p = IF n = 0 THEN -1 ELSE indexes[n],
              n # 0 => text[p] = "NL"
       PROVE  \A k \in p + 1..indexes[n + 1] - 1 : buffer[k] = Space
  <2> DEFINE q == indexes[n + 1]
             S == {k \in p + 1..q - 1 : text[k] # Space}
  <2>1. n + 1 \in 1..Len(indexes) /\ q \in 0..len /\ p + 1 \in Nat
    <3>1. n \in Int /\ n + 1 \in 1..Len(indexes)
      BY <1>4, <1>12
    <3>2. n # 0 => n \in 1..Len(indexes)
      BY <1>4, <1>12
    <3>3. n # 0 => p \in 0..len
      BY <1>4, <1>12, <3>2
    <3>4. QED
      BY <1>2, <1>4, <1>12, <3>1, <3>3
  <2> HIDE DEF q
  <2>2. SUFFICES ASSUME S # {} PROVE FALSE
    <3>1. \A k \in p + 1..q - 1 : k \in 0..len - 1
      BY <1>2, <2>1
    <3>2. QED
      BY <1>3, <2>1, <3>1 DEF q
  <2>3. S \subseteq Nat
    BY <2>1
  <2>4. PICK k \in S : \A y \in S : k <= y
    BY <2>2, <2>3, LeastOf
  <2>5. k \in Nat /\ p < k /\ k < q /\ k \in 0..len - 1 /\ text[k] # Space
    BY <1>2, <2>1, <2>3
  <2>6. \A j \in p + 1..k - 1 : text[j] = Space
    <3>1. TAKE j \in p + 1..k - 1
    <3>2. j \in p + 1..q - 1 /\ j < k
      BY <2>1, <2>5
    <3>3. j \notin S
      BY <2>3, <2>4, <2>5, <3>2
    <3>4. QED
      BY <3>2, <3>3
  <2>7. Token(text, k)
    <3>1. CASE n = 0
      <4>1. \A j \in 0..k - 1 : text[j] = Space
        BY <1>12, <2>6, <3>1
      <4>2. QED
        BY <2>5, <4>1, FirstOfText
    <3>2. CASE n # 0
      <4>1. n \in 1..Len(indexes) - 1 /\ p = indexes[n] /\ p \in Nat
        BY <1>4, <1>11, <1>12, <3>2
      <4>2. ~ Inside(text, p) /\ Separates(text, p)
        BY <1>11, <1>12, <3>2, <4>1, TokenBytes
      <4>3. QED
        BY <2>5, <2>6, <4>1, <4>2, FirstBehind
    <3>3. QED
      BY <3>1, <3>2
  <2>8. k \in found
    BY <1>2, <1>4, <2>5, <2>7 DEF Tokens
  <2>9. PICK m \in 1..Len(indexes) : indexes[m] = k
    BY <2>8
  <2>10. m < n + 1
    BY <1>4, <2>1, <2>5, <2>9 DEF q
  <2>11. n # 0 => n < m
    BY <1>4, <1>12, <2>5, <2>9
  <2>12. QED
    BY <1>4, <2>10, <2>11
<1>13. \A k \in 0..indexes[1] - 1 : buffer[k] = Space
  <2>1. 0 \in 0..Len(indexes) - 1 /\ -1 \in Int
    BY <1>4, <1>9
  <2>2. \A k \in -1 + 1..indexes[0 + 1] - 1 : buffer[k] = Space
    BY <1>12, <2>1
  <2>3. QED
    BY <2>2
<1>14. ASSUME NEW n \in 1..Len(indexes) - 1, buffer[indexes[n]] = "NL"
       PROVE  \A k \in indexes[n] + 1..indexes[n + 1] - 1 : buffer[k] = Space
  <2>1. n \in 0..Len(indexes) - 1 /\ n # 0 /\ indexes[n] \in Int /\ text[indexes[n]] = "NL"
    BY <1>4, <1>11, <1>14
  <2>2. QED
    BY <1>12, <2>1
<1>15. \A n \in 1..Len(indexes) : buffer[indexes[n]] # Space
  <2>1. TAKE n \in 1..Len(indexes)
  <2>2. CASE n = Len(indexes)
    BY <1>3, <1>10, <2>2 DEF Space
  <2>3. CASE n # Len(indexes)
    BY <1>4, <1>11, <2>3, TokenBytes
  <2>4. QED
    BY <2>2, <2>3
<1>16. QED
  BY <1>3, <1>9, <1>10, <1>13, <1>14, <1>15

(* Stage 2 is given what its model assumes of documents (Document in       *)
(* Stage2): tokens that end with a line end, and lines that begin with     *)
(* their indentation.                                                      *)
THEOREM DocumentsForStage2 == Spec => []IsDocument
<1>1. IndInv => IsDocument
  BY DocumentFollows
<1>2. QED
  BY <1>1, Stage1Inductive, PTL
=============================================================================

---------------------------- MODULE ScalarProofs ----------------------------
(***************************************************************************)
(* Proofs about scalars of any length: that reading one stays within its   *)
(* text, its word and its buffers, and that a quoted string is decoded     *)
(* element by element, whatever windows it is read in.                     *)
(***************************************************************************)
EXTENDS ScalarProperties, SequenceTheorems, WellFoundedInduction, TLAPS

-----------------------------------------------------------------------------
(* Numbers of digits.                                                      *)

(* A set of numbers that is not empty has a least one. *)
LEMMA LeastOf ==
  ASSUME NEW S, S \subseteq Nat, S # {}
  PROVE  \E x \in S : \A y \in S : x <= y
<1>1. IsWellFoundedOn(OpToRel(<, Nat), Nat)
  BY NatLessThanWellFounded
<1>2. PICK x \in S : \A y \in S : ~ (<<y, x>> \in OpToRel(<, Nat))
  BY <1>1, WFMin
<1>3. ASSUME NEW y \in S PROVE x <= y
  <2>1. ~ (<<y, x>> \in OpToRel(<, Nat))
    BY <1>2
  <2>2. ~ (y < x)
    BY <2>1 DEF OpToRel
  <2>3. QED
    BY <2>2
<1>4. QED
  BY <1>3

LEMMA DigitIsNumber ==
  ASSUME NEW c \in Digits
  PROVE  DigitOf(c) \in 0..9
BY DEF Digits, DigitOf

(* The values of the prefixes of cs, as Value adds them up. *)
Values(f, cs, n) ==
  f = [k \in 0..n |-> IF k = 0 THEN 0 ELSE 10 * f[k - 1] + DigitOf(cs[k])]

LEMMA ValuesExist ==
  ASSUME NEW cs, NEW n \in Nat
  PROVE  \E f : Values(f, cs, n)
<1> DEFINE S == {m \in Nat : ~ \E f : Values(f, cs, m)}
<1>1. SUFFICES ASSUME S # {} PROVE FALSE
  OBVIOUS
<1>2. PICK m \in S : \A k \in S : m <= k
  BY <1>1, LeastOf
<1>3. CASE m = 0
  <2>1. Values([k \in 0..0 |-> 0], cs, 0)
    BY DEF Values
  <2>2. QED
    BY <1>2, <1>3, <2>1
<1>4. CASE m > 0
  <2>1. m - 1 \in Nat /\ m - 1 \notin S
    BY <1>2, <1>4
  <2>2. PICK f : Values(f, cs, m - 1)
    BY <2>1
  <2> DEFINE g == [k \in 0..m |-> IF k < m THEN f[k] ELSE 10 * f[m - 1] + DigitOf(cs[m])]
  <2>3. ASSUME NEW k \in 0..m PROVE g[k] = IF k = 0 THEN 0 ELSE 10 * g[k - 1] + DigitOf(cs[k])
    <3>1. CASE k = m
      BY <3>1, <1>4
    <3>2. CASE k < m
      <4>1. k \in 0..m - 1 /\ g[k] = f[k]
        BY <3>2
      <4>2. f[k] = IF k = 0 THEN 0 ELSE 10 * f[k - 1] + DigitOf(cs[k])
        BY <4>1, <2>2 DEF Values
      <4>3. k # 0 => g[k - 1] = f[k - 1]
        BY <3>2
      <4>4. QED
        BY <4>1, <4>2, <4>3
    <3>3. QED
      BY <3>1, <3>2
  <2>4. Values(g, cs, m)
    BY <2>3 DEF Values
  <2>5. QED
    BY <2>4, <1>2
<1>5. QED
  BY <1>2, <1>3, <1>4

(* Digits make a natural number. *)
LEMMA ValueIsNat ==
  ASSUME NEW cs, Len(cs) \in Nat, \A k \in 1..Len(cs) : cs[k] \in Digits
  PROVE  Value(cs) \in Nat
<1> DEFINE n == Len(cs)
           v == CHOOSE f : Values(f, cs, n)
<1>1. Value(cs) = v[n]
  BY DEF Value, Values
<1>2. Values(v, cs, n)
  BY ValuesExist
<1> HIDE DEF v
<1> DEFINE S == {m \in Nat : m <= n /\ v[m] \notin Nat}
<1>3. SUFFICES ASSUME S # {} PROVE FALSE
  BY <1>1
<1>4. PICK m \in S : \A k \in S : m <= k
  BY <1>3, LeastOf
<1>5. m \in 0..n /\ v[m] = IF m = 0 THEN 0 ELSE 10 * v[m - 1] + DigitOf(cs[m])
  BY <1>2 DEF Values
<1>6. CASE m = 0
  BY <1>5, <1>6
<1>7. CASE m > 0
  <2>1. m - 1 \in Nat /\ m - 1 \notin S
    BY <1>4, <1>7
  <2>2. v[m - 1] \in Nat
    BY <2>1, <1>5
  <2>3. cs[m] \in Digits
    BY <1>5, <1>7
  <2>4. DigitOf(cs[m]) \in 0..9
    BY <2>3, DigitIsNumber
  <2>5. v[m] = 10 * v[m - 1] + DigitOf(cs[m]) /\ v[m] \notin Nat
    BY <1>4, <1>5, <1>7
  <2>6. \A x \in Nat, y \in 0..9 : 10 * x + y \in Nat
    OBVIOUS
  <2>7. QED
    BY <2>2, <2>4, <2>5, <2>6, Zenon
<1>8. QED
  BY <1>5, <1>6, <1>7

-----------------------------------------------------------------------------
(* The bytes of a scalar.                                                  *)

(* All bytes, and what escapes stand for. *)
Chars == {c \in STRING : \E u \in Texts, k \in Nat : c = u[k]}
         \cup {"BLANK", Quote, Backslash, "NL", "BMP", "PAST", "NUL", "PAIR", "UNPAIRED", "garbage"}

LEMMA TextShape ==
  ASSUME NEW t \in Texts
  PROVE  /\ t \in Seq(Chars) /\ Len(t) \in Nat \ {0} /\ DOMAIN t = 1..Len(t)
         /\ Byte(t, 1) = t[1]
         /\ \A k : Byte(t, k) \in Chars
         /\ \A k : Byte(t, k) # "BLANK" => k \in 1..Len(t) /\ Byte(t, k) = t[k]
<1>1. t \in Seq(STRING) /\ t # << >>
  BY TextsAssumption
<1>2. Len(t) \in Nat \ {0} /\ DOMAIN t = 1..Len(t)
  BY <1>1
<1>3. \A k \in DOMAIN t : t[k] \in Chars
  <2>1. SUFFICES ASSUME NEW j \in DOMAIN t PROVE t[j] \in Chars
    OBVIOUS
  <2>2. j \in Nat
    BY <1>2
  <2>3. \E u \in Texts, k \in Nat : t[j] = u[k]
    BY <2>2
  <2>4. t[j] \in STRING
    BY <1>1
  <2>5. QED
    BY <2>3, <2>4 DEF Chars
<1>4. t \in Seq(Chars)
  BY <1>1, <1>3
<1>5. ASSUME NEW k
      PROVE  Byte(t, k) \in Chars /\ (Byte(t, k) # "BLANK" => k \in 1..Len(t) /\ Byte(t, k) = t[k])
  <2>1. CASE k \in DOMAIN t
    BY <1>2, <1>3, <2>1 DEF Byte
  <2>2. CASE k \notin DOMAIN t
    <3>1. Byte(t, k) = "BLANK"
      BY <2>2 DEF Byte
    <3>2. QED
      BY <3>1 DEF Chars
  <2>3. QED
    BY <2>1, <2>2
<1>6. 1 \in DOMAIN t
  BY <1>2
<1>7. Byte(t, 1) = t[1]
  BY <1>6 DEF Byte
<1>8. QED
  BY <1>2, <1>4, <1>5, <1>7

LEMMA DigitInText ==
  ASSUME text \in Texts, NEW k, IsDigit(k)
  PROVE  k \in 1..Len(text) /\ DigitOf(At(k)) \in 0..9 /\ At(k) \in Digits /\ At(k) = text[k]
<1>1. At(k) \in Digits /\ At(k) # "BLANK"
  BY DEF IsDigit, Digits
<1>2. QED
  BY <1>1, TextShape, DigitIsNumber DEF At

(* A word stays a word. *)
LEMMA WrapIsWord ==
  ASSUME NEW n \in Int
  PROVE  Wrap(n) \in 0..(WordLimit - 1)
<1>1. WordLimit \in Nat /\ WordLimit > 9
  BY WordAssumption DEF WordLimit
<1> HIDE DEF WordLimit
<1>2. QED
  BY <1>1 DEF Wrap

LEMMA DigitIsWord ==
  ASSUME NEW n \in 0..9
  PROVE  n \in 0..(WordLimit - 1)
BY WordAssumption DEF WordLimit

LEMMA PushIsWord ==
  ASSUME text \in Texts, num \in 0..(WordLimit - 1), NEW k, IsDigit(k)
  PROVE  Push(num, k) \in 0..(WordLimit - 1)
<1>1. WordLimit \in Nat
  BY WordAssumption DEF WordLimit
<1> HIDE DEF WordLimit
<1>2. 10 * num \in Int
  BY <1>1
<1>3. Wrap(10 * num) \in Int
  BY <1>1, <1>2, WrapIsWord
<1>4. DigitOf(At(k)) \in Int
  BY DigitInText
<1>5. QED
  BY <1>3, <1>4, WrapIsWord DEF Push

-----------------------------------------------------------------------------
(* What is known of a scalar at any time.                                  *)

NumberStates == {"integer", "point", "run", "fraction", "suffix", "exponent", "end", "large"}
StringStates == {"plain", "copy"}

Typed ==
  /\ text \in Texts
  /\ pc \in NumberStates \cup StringStates \cup {"start", "done"}
  /\ num \in 0..(WordLimit - 1) /\ written \in Nat /\ digits \in 0..Len(text) /\ float \in BOOLEAN
  /\ DOMAIN input = DOMAIN text
  /\ buffer \in [1..(Len(text) + Window) -> Chars]
  /\ len \in Nat /\ dst \in Nat /\ len + dst <= Len(text)

(* A number is read behind its first digit.  Of a string, the closing      *)
(* quote is ahead, and as many bytes as are kept have been read.           *)
Ahead ==
  /\ idx \in 2..Len(text) /\ len + dst <= idx - 2
  /\ \E e \in DOMAIN text : ClosedAt(text, idx, e)

Placed ==
  /\ ~Quoted => idx \in 1..(Len(text) + 1)
  /\ pc = "start" => idx = 1 /\ len = 0 /\ dst = 0
  /\ pc \in NumberStates => ~Quoted /\ IsDigit(Mantissa) /\ idx >= Mantissa + 1
  /\ pc \in StringStates => Quoted /\ Ahead

ScalarInv == Typed /\ Placed

LEMMA InvTypes == ScalarInv => TypeOK
<1> SUFFICES ASSUME ScalarInv PROVE TypeOK
  OBVIOUS
<1>1. Typed /\ Placed
  BY DEF ScalarInv
<1>2. Len(text) \in Nat
  BY <1>1, TextShape DEF Typed
<1>3. len + dst \in 0..Len(text)
  BY <1>1, <1>2 DEF Typed
<1>4. DOMAIN buffer = 1..(Len(text) + Window)
  BY <1>1 DEF Typed
<1>5. QED
  BY <1>1, <1>3, <1>4 DEF Typed, Placed, TypeOK, NumberStates, StringStates

LEMMA InitScalar == Init => ScalarInv
<1> SUFFICES ASSUME Init PROVE ScalarInv
  OBVIOUS
<1>1. text \in Texts /\ Len(text) \in Nat \ {0}
  BY TextShape DEF Init
<1>2. "garbage" \in Chars
  BY DEF Chars
<1>3. buffer \in [1..(Len(text) + Window) -> Chars]
  BY <1>2 DEF Init
<1>4. 0 \in 0..(WordLimit - 1)
  BY DigitIsWord
<1>5. Typed
  <2>1. digits \in 0..Len(text) /\ len \in Nat /\ dst \in Nat /\ len + dst <= Len(text)
    BY <1>1 DEF Init
  <2>2. text \in Texts /\ pc = "start" /\ num = 0 /\ written = 0 /\ float = FALSE /\ input = text
    BY DEF Init
  <2>3. num \in 0..(WordLimit - 1)
    BY <1>4, <2>2
  <2>4. QED
    BY <1>3, <2>1, <2>2, <2>3 DEF Typed
<1>6. Placed
  BY <1>1 DEF Init, Placed, NumberStates, StringStates
<1>7. QED
  BY <1>5, <1>6 DEF ScalarInv

-----------------------------------------------------------------------------
(* Numbers.                                                                *)

LEMMA FirstBytes ==
  ASSUME text \in Texts
  PROVE  /\ At(1) = text[1] /\ (Quoted <=> At(1) = Quote)
         /\ Mantissa \in {1, 2} /\ (Negative => Mantissa = 2 /\ ~Quoted) /\ (~ Negative => Mantissa = 1)
         /\ (IsDigit(1) => ~Quoted)
<1>1. At(1) = text[1]
  BY TextShape DEF At
<1>2. Quote # "-" /\ Quote \notin Digits
  BY DEF Quote, Digits
<1>3. QED
  BY <1>1, <1>2 DEF Quoted, Mantissa, Negative, IsDigit

(* A step that reads a number, or ends with a node. *)
LEMMA NumberStep ==
  ASSUME ScalarInv, text' = text, UNCHANGED decoded,
         num' \in 0..(WordLimit - 1), written' \in Nat, digits' \in 0..Len(text), float' \in BOOLEAN,
         \/ pc' = "done" /\ idx' = idx
         \/ /\ pc' \in NumberStates /\ ~Quoted /\ IsDigit(Mantissa)
            /\ idx' \in (Mantissa + 1)..(Len(text) + 1)
  PROVE  ScalarInv'
<1>1. Typed /\ Placed /\ text \in Texts /\ Len(text) \in Nat
  BY TextShape DEF ScalarInv, Typed
<1>2. /\ input' = input /\ buffer' = buffer /\ len' = len /\ dst' = dst
      /\ WordLimit' = WordLimit /\ Quoted' = Quoted /\ Mantissa' = Mantissa
      /\ IsDigit(Mantissa)' = IsDigit(Mantissa)
  BY DEF decoded, WordLimit, Quoted, Mantissa, Negative, IsDigit, At
<1>3. Typed'
  BY <1>1, <1>2 DEF Typed, NumberStates
<1>4. Mantissa \in {1, 2}
  BY <1>1, FirstBytes
<1>5. Placed'
  BY <1>1, <1>2, <1>4 DEF Placed, NumberStates, StringStates
<1>6. QED
  BY <1>3, <1>5 DEF ScalarInv

LEMMA NodeStep ==
  ASSUME ScalarInv, NEW node, Finished(node)
  PROVE  ScalarInv'
BY NumberStep DEF Finished, numeric, ScalarInv, Typed

(* Where a number is read. *)
LEMMA Reading ==
  ASSUME ScalarInv, pc \in NumberStates
  PROVE  /\ text \in Texts /\ Len(text) \in Nat \ {0} /\ ~Quoted
         /\ Mantissa \in {1, 2} /\ IsDigit(Mantissa) /\ idx \in (Mantissa + 1)..(Len(text) + 1)
         /\ num \in 0..(WordLimit - 1) /\ written \in Nat /\ digits \in 0..Len(text) /\ float \in BOOLEAN
<1>1. Typed /\ Placed /\ text \in Texts /\ Len(text) \in Nat \ {0}
  BY TextShape DEF ScalarInv, Typed
<1>2. Mantissa \in {1, 2}
  BY <1>1, FirstBytes
<1>3. QED
  BY <1>1, <1>2 DEF Typed, Placed

LEMMA StartStep == ScalarInv /\ Start => ScalarInv'
<1> SUFFICES ASSUME ScalarInv, Start PROVE ScalarInv'
  OBVIOUS
<1>1. /\ Typed /\ Placed /\ text \in Texts /\ Len(text) \in Nat \ {0} /\ pc = "start"
      /\ DOMAIN text = 1..Len(text)
  BY TextShape DEF ScalarInv, Typed, Start
<1>2. idx = 1 /\ len = 0 /\ dst = 0
  BY <1>1 DEF Placed
<1>3. CASE /\ Negative \/ IsDigit(1)
           /\ IF IsDigit(Mantissa)
              THEN /\ Goto(IF At(Mantissa) = "0" THEN "point" ELSE "integer")
                   /\ num' = DigitOf(At(Mantissa))
                   /\ idx' = Mantissa + 1
                   /\ UNCHANGED <<exponent, written, digits, float>>
              ELSE StaysString
  <2>1. CASE ~IsDigit(Mantissa)
    BY <1>3, <2>1, NodeStep DEF StaysString
  <2>2. CASE IsDigit(Mantissa)
    <3>1. /\ Goto(IF At(Mantissa) = "0" THEN "point" ELSE "integer")
          /\ num' = DigitOf(At(Mantissa)) /\ idx' = Mantissa + 1
          /\ UNCHANGED <<exponent, written, digits, float>>
      BY <1>3, <2>2
    <3>2. Mantissa \in {1, 2} /\ ~Quoted
      BY <1>1, <1>3, FirstBytes
    <3>3. Mantissa \in 1..Len(text) /\ DigitOf(At(Mantissa)) \in 0..9
      BY <1>1, <2>2, DigitInText
    <3>4. num' \in 0..(WordLimit - 1)
      BY <3>1, <3>3, DigitIsWord
    <3>5. written' \in Nat /\ digits' \in 0..Len(text) /\ float' \in BOOLEAN
      BY <1>1, <3>1 DEF Typed
    <3>6. pc' \in NumberStates /\ UNCHANGED decoded /\ text' = text
      BY <3>1 DEF Goto, NumberStates
    <3>7. idx' \in (Mantissa + 1)..(Len(text) + 1)
      BY <1>1, <3>1, <3>3
    <3>8. QED
      BY <2>2, <3>2, <3>4, <3>5, <3>6, <3>7, NumberStep
  <2>3. QED
    BY <2>1, <2>2
<1>4. CASE At(1) = Quote /\ Goto("plain") /\ idx' = 2 /\ UNCHANGED numeric
  <2>1. Quoted
    BY <1>1, <1>4, FirstBytes
  <2>2. PICK e \in DOMAIN text : ClosedAt(text, 2, e)
    BY <1>1, <2>1, TextsAssumption DEF Quoted
  <2>3. 2 \in 2..Len(text)
    BY <1>1, <2>2 DEF ClosedAt
  <2>4. UNCHANGED <<text, input, buffer, len, dst, num, exponent, written, digits, float>> /\ pc' = "plain"
    BY <1>4 DEF Goto, decoded, numeric
  <2>5. Typed'
    BY <1>1, <2>4 DEF Typed, StringStates, WordLimit
  <2>6. Quoted'
    BY <2>1, <2>4 DEF Quoted
  <2>7. \E f \in DOMAIN text' : ClosedAt(text', idx', f)
    BY <1>4, <2>2, <2>4
  <2>8. Ahead'
    BY <1>2, <1>4, <2>3, <2>4, <2>7 DEF Ahead
  <2>9. Placed'
    BY <2>4, <2>6, <2>8 DEF Placed, NumberStates
  <2>10. QED
    BY <2>5, <2>9 DEF ScalarInv
<1>5. CASE /\ ~Negative /\ ~IsDigit(1) /\ At(1) # Quote
           /\ IF Len(text) = 1 /\ text[1] \in Literals
              THEN Finished([kind |-> "Static", val |-> text[1]])
              ELSE StaysString
  BY <1>5, NodeStep DEF StaysString
<1>6. QED
  BY <1>3, <1>4, <1>5 DEF Start

LEMMA IntegerStep == ScalarInv /\ (IntegerDigit \/ IntegerEnds) => ScalarInv'
<1> SUFFICES ASSUME ScalarInv, IntegerDigit \/ IntegerEnds PROVE ScalarInv'
  OBVIOUS
<1>1. CASE IntegerDigit
  <2>1. pc \in NumberStates /\ pc' = pc /\ IsDigit(idx) /\ num' = Push(num, idx) /\ idx' = idx + 1
    BY <1>1 DEF IntegerDigit, NumberStates
  <2>2. UNCHANGED <<text, written, digits, float, decoded>>
    BY <1>1 DEF IntegerDigit
  <2>3. num' \in 0..(WordLimit - 1) /\ idx \in 1..Len(text)
    BY <2>1, Reading, PushIsWord, DigitInText
  <2>4. idx' \in (Mantissa + 1)..(Len(text) + 1)
    BY <2>1, <2>3, Reading
  <2>5. QED
    BY <2>1, <2>2, <2>3, <2>4, Reading, NumberStep
<1>2. CASE IntegerEnds
  <2>1. pc \in NumberStates /\ pc' \in NumberStates /\ UNCHANGED <<text, idx, numeric, decoded>>
    BY <1>2 DEF IntegerEnds, Goto, NumberStates
  <2>2. QED
    BY <2>1, Reading, NumberStep DEF numeric
<1>3. QED
  BY <1>1, <1>2

LEMMA PointStep == ScalarInv /\ Point => ScalarInv'
<1> SUFFICES ASSUME ScalarInv, Point PROVE ScalarInv'
  OBVIOUS
<1>1. pc \in NumberStates
  BY DEF Point, NumberStates
<1>2. CASE Goto("suffix") /\ UNCHANGED <<idx, numeric>>
  <2>1. pc' \in NumberStates /\ UNCHANGED <<text, idx, numeric, decoded>>
    BY <1>2 DEF Goto, NumberStates
  <2>2. QED
    BY <1>1, <2>1, Reading, NumberStep DEF numeric
<1>3. CASE StaysString
  BY <1>3, NodeStep DEF StaysString
<1>4. CASE /\ IsDigit(idx + 1) /\ Goto("run") /\ num' = Push(num, idx + 1) /\ idx' = idx + 2
           /\ float' = TRUE /\ UNCHANGED <<exponent, written, digits>>
  <2>1. pc' \in NumberStates /\ UNCHANGED <<text, written, digits, decoded>> /\ float' \in BOOLEAN
    BY <1>4 DEF Goto, NumberStates
  <2>2. num' \in 0..(WordLimit - 1) /\ idx + 1 \in 1..Len(text)
    BY <1>1, <1>4, Reading, PushIsWord, DigitInText
  <2>3. idx' \in (Mantissa + 1)..(Len(text) + 1)
    BY <1>1, <1>4, <2>2, Reading
  <2>4. QED
    BY <1>1, <2>1, <2>2, <2>3, Reading, NumberStep
<1>5. QED
  BY <1>2, <1>3, <1>4 DEF Point

(* The digits that are read at once lie within the text. *)
LEMMA RunStep == ScalarInv /\ Run => ScalarInv'
<1> SUFFICES ASSUME ScalarInv, Run PROVE ScalarInv'
  OBVIOUS
<1> DEFINE run == idx..(idx + FractionRun - 1)
           cs  == [k \in 1..FractionRun |-> At(idx + k - 1)]
<1>1. pc \in NumberStates /\ pc' \in NumberStates /\ UNCHANGED <<text, written, digits, float, decoded>>
  BY DEF Run, Goto, NumberStates
<1>2. CASE UNCHANGED <<num, idx>>
  BY <1>1, <1>2, Reading, NumberStep
<1>3. CASE /\ \A k \in run : IsDigit(k)
           /\ num' = Wrap(Wrap(10^FractionRun * num) + Value(cs))
           /\ idx' = idx + FractionRun
  <2>1. FractionRun \in Nat \ {0} /\ 10^FractionRun \in Nat
    BY WordAssumption
  <2>2. idx \in Nat \ {0} /\ idx >= Mantissa + 1 /\ num \in Int /\ Mantissa \in {1, 2} /\ Len(text) \in Nat
    <3>1. WordLimit \in Int
      BY WordAssumption DEF WordLimit
    <3>2. QED
      BY <1>1, <3>1, Reading
  <2>3. idx + FractionRun - 1 \in 1..Len(text)
    <3>1. idx + FractionRun - 1 \in run
      BY <2>1, <2>2
    <3>2. QED
      BY <1>1, <1>3, <3>1, Reading, DigitInText
  <2>4. ASSUME NEW k \in 1..FractionRun PROVE cs[k] \in Digits
    <3>1. idx + k - 1 \in run
      BY <2>1, <2>2
    <3>2. QED
      BY <1>1, <1>3, <3>1, Reading, DigitInText
  <2>5. Len(cs) = FractionRun
    <3>1. cs \in Seq(Chars)
      <4>1. \A k \in 1..FractionRun : At(idx + k - 1) \in Chars
        BY <1>1, Reading, TextShape DEF At
      <4>2. QED
        BY <2>1, <4>1
    <3>2. DOMAIN cs = 1..FractionRun
      OBVIOUS
    <3>3. QED
      BY <2>1, <3>1, <3>2
  <2>6. Value(cs) \in Nat
    <3>1. Len(cs) \in Nat /\ \A k \in 1..Len(cs) : cs[k] \in Digits
      BY <2>1, <2>4, <2>5
    <3> HIDE DEF cs
    <3>2. QED
      BY <3>1, ValueIsNat
  <2>7. num' \in 0..(WordLimit - 1)
    <3> DEFINE v == Value(cs)
               p == 10^FractionRun
    <3>1. v \in Int /\ p \in Int /\ WordLimit \in Int
      BY <2>1, <2>6, WordAssumption DEF WordLimit
    <3>2. num' = Wrap(Wrap(p * num) + v)
      BY <1>3
    <3> HIDE DEF v, p, cs, WordLimit
    <3>3. p * num \in Int
      BY <2>2, <3>1
    <3>4. Wrap(p * num) \in Int
      BY <3>1, <3>3, WrapIsWord
    <3>5. QED
      BY <3>1, <3>2, <3>4, WrapIsWord
  <2>8. idx' \in (Mantissa + 1)..(Len(text) + 1)
    BY <1>3, <2>1, <2>2, <2>3
  <2>9. QED
    BY <1>1, <2>7, <2>8, Reading, NumberStep
<1>4. QED
  BY <1>2, <1>3 DEF Run

LEMMA FractionStep == ScalarInv /\ (FractionDigit \/ FractionEnds) => ScalarInv'
<1> SUFFICES ASSUME ScalarInv, FractionDigit \/ FractionEnds PROVE ScalarInv'
  OBVIOUS
<1>1. CASE FractionDigit
  <2>1. pc \in NumberStates /\ pc' = pc /\ IsDigit(idx) /\ num' = Push(num, idx) /\ idx' = idx + 1
    BY <1>1 DEF FractionDigit, NumberStates
  <2>2. UNCHANGED <<text, written, digits, float, decoded>>
    BY <1>1 DEF FractionDigit
  <2>3. num' \in 0..(WordLimit - 1) /\ idx \in 1..Len(text)
    BY <2>1, Reading, PushIsWord, DigitInText
  <2>4. idx' \in (Mantissa + 1)..(Len(text) + 1)
    BY <2>1, <2>3, Reading
  <2>5. QED
    BY <2>1, <2>2, <2>3, <2>4, Reading, NumberStep
<1>2. CASE FractionEnds
  <2>1. pc \in NumberStates /\ pc' \in NumberStates /\ UNCHANGED <<text, idx, num, written, digits, float, decoded>>
    BY <1>2 DEF FractionEnds, Goto, NumberStates
  <2>2. QED
    BY <2>1, Reading, NumberStep
<1>3. QED
  BY <1>1, <1>2

(* The significand has at most as many characters as the text. *)
LEMMA SuffixStep == ScalarInv /\ Suffix => ScalarInv'
<1> SUFFICES ASSUME ScalarInv, Suffix PROVE ScalarInv'
  OBVIOUS
<1> DEFINE first == IF At(idx + 1) \in {"-", "+"} THEN idx + 2 ELSE idx + 1
<1>1. pc \in NumberStates
  BY DEF Suffix, NumberStates
<1>2. DigitCount \in 0..Len(text)
  <2>1. Negative => Mantissa = 2
    BY DEF Mantissa
  <2>2. ~Negative => Mantissa = 1
    BY DEF Mantissa
  <2>3. QED
    BY <1>1, <2>1, <2>2, Reading DEF DigitCount
<1>3. CASE /\ Goto("end") /\ digits' = DigitCount
           /\ UNCHANGED <<idx, num, exponent, written, float>>
  <2>1. pc' \in NumberStates /\ UNCHANGED <<text, idx, num, written, float, decoded>>
    BY <1>3 DEF Goto, NumberStates
  <2>2. QED
    BY <1>1, <1>2, <1>3, <2>1, Reading, NumberStep
<1>4. CASE StaysString
  BY <1>4, NodeStep DEF StaysString
<1>5. CASE /\ IsDigit(first) /\ Goto("exponent") /\ digits' = DigitCount /\ float' = TRUE
           /\ written' = DigitOf(At(first)) /\ idx' = first + 1 /\ UNCHANGED <<num, exponent>>
  <2>1. pc' \in NumberStates /\ UNCHANGED <<text, num, decoded>> /\ float' \in BOOLEAN
    BY <1>5 DEF Goto, NumberStates
  <2>2. first \in {idx + 1, idx + 2}
    OBVIOUS
  <2>3. first \in 1..Len(text) /\ DigitOf(At(first)) \in 0..9
    BY <1>1, <1>5, Reading, DigitInText
  <2> HIDE DEF first
  <2>4. idx' \in (Mantissa + 1)..(Len(text) + 1)
    BY <1>1, <1>5, <2>2, <2>3, Reading
  <2>5. written' \in Nat
    BY <1>5, <2>3
  <2>6. QED
    BY <1>1, <1>2, <1>5, <2>1, <2>4, <2>5, Reading, NumberStep
<1>6. QED
  BY <1>3, <1>4, <1>5 DEF Suffix

LEMMA ExponentStep == ScalarInv /\ (ExponentDigit \/ ExponentEnds) => ScalarInv'
<1> SUFFICES ASSUME ScalarInv, ExponentDigit \/ ExponentEnds PROVE ScalarInv'
  OBVIOUS
<1>1. CASE StaysString
  BY <1>1, NodeStep DEF StaysString
<1>2. CASE /\ pc = "exponent" /\ IsDigit(idx)
           /\ written' = 10 * written + DigitOf(At(idx)) /\ idx' = idx + 1
           /\ UNCHANGED <<text, pc, num, exponent, digits, float, decoded, result>>
  <2>1. pc \in NumberStates
    BY <1>2 DEF NumberStates
  <2>2. idx \in 1..Len(text) /\ DigitOf(At(idx)) \in 0..9
    BY <1>2, <2>1, Reading, DigitInText
  <2>3. written' \in Nat
    <3>1. \A x \in Nat, y \in 0..9 : 10 * x + y \in Nat
      OBVIOUS
    <3>2. written \in Nat
      BY <2>1, Reading
    <3>3. QED
      BY <1>2, <2>2, <3>1, <3>2, Zenon
  <2>4. idx' \in (Mantissa + 1)..(Len(text) + 1)
    BY <1>2, <2>1, <2>2, Reading
  <2>5. QED
    BY <1>2, <2>1, <2>3, <2>4, Reading, NumberStep
<1>3. CASE ExponentEnds
  <2>1. pc \in NumberStates /\ pc' \in NumberStates /\ UNCHANGED <<text, idx, num, written, digits, float, decoded>>
    BY <1>3 DEF ExponentEnds, Goto, NumberStates
  <2>2. QED
    BY <2>1, Reading, NumberStep
<1>4. QED
  BY <1>1, <1>2, <1>3 DEF ExponentDigit

(* The number starts over, from its first digit. *)
LEMMA NumberEndsStep == ScalarInv /\ NumberEnds => ScalarInv'
<1> SUFFICES ASSUME ScalarInv, NumberEnds PROVE ScalarInv'
  OBVIOUS
<1>1. pc \in NumberStates
  BY DEF NumberEnds, NumberStates
<1>2. CASE \E node : Finished(node)
  BY <1>2, NodeStep
<1>3. CASE /\ Goto("large") /\ num' = DigitOf(At(Mantissa)) /\ idx' = Mantissa + 1
           /\ UNCHANGED <<exponent, written, digits, float>>
  <2>1. pc' \in NumberStates /\ UNCHANGED <<text, written, digits, float, decoded>>
    BY <1>3 DEF Goto, NumberStates
  <2>2. idx' \in (Mantissa + 1)..(Len(text) + 1)
    BY <1>1, <1>3, Reading
  <2>3. num' \in 0..(WordLimit - 1)
    <3>1. DigitOf(At(Mantissa)) \in 0..9
      BY <1>1, Reading, DigitInText
    <3>2. QED
      BY <1>3, <3>1, DigitIsWord
  <2>4. QED
    BY <1>1, <2>1, <2>2, <2>3, Reading, NumberStep
<1>4. QED
  BY <1>2, <1>3 DEF NumberEnds, StaysString

LEMMA LargeStep == ScalarInv /\ (LargeDigit \/ LargeEnds) => ScalarInv'
<1> SUFFICES ASSUME ScalarInv, LargeDigit \/ LargeEnds PROVE ScalarInv'
  OBVIOUS
<1>1. CASE \E node : Finished(node)
  BY <1>1, NodeStep
<1>2. CASE /\ pc = "large" /\ IsDigit(idx)
           /\ ~ (10 * num >= WordLimit \/ 10 * num + DigitOf(At(idx)) >= WordLimit)
           /\ num' = 10 * num + DigitOf(At(idx)) /\ idx' = idx + 1
           /\ UNCHANGED <<text, pc, exponent, written, digits, float, decoded, result>>
  <2>1. pc \in NumberStates
    BY <1>2 DEF NumberStates
  <2>2. idx \in 1..Len(text) /\ DigitOf(At(idx)) \in 0..9
    BY <1>2, <2>1, Reading, DigitInText
  <2>3. num' \in 0..(WordLimit - 1)
    <3> DEFINE d == DigitOf(At(idx))
    <3>1. WordLimit \in Nat
      BY WordAssumption DEF WordLimit
    <3>2. num \in 0..(WordLimit - 1) /\ d \in 0..9 /\ num' = 10 * num + d /\ ~ (10 * num + d >= WordLimit)
      BY <1>2, <2>1, <2>2, Reading
    <3> HIDE DEF WordLimit, d
    <3>3. QED
      BY <3>1, <3>2
  <2>4. idx' \in (Mantissa + 1)..(Len(text) + 1)
    BY <1>2, <2>1, <2>2, Reading
  <2>5. QED
    BY <1>2, <2>1, <2>3, <2>4, Reading, NumberStep
<1>3. QED
  BY <1>1, <1>2 DEF LargeDigit, LargeEnds, StaysString

-----------------------------------------------------------------------------
(* Strings.                                                                *)

(* A closing quote stays ahead of what is neither quote nor backslash, ... *)
LEMMA ClosedBehindPlain ==
  ASSUME NEW t \in Texts, NEW i \in 1..Len(t), NEW e, ClosedAt(t, i, e), NEW j \in Nat, i <= j,
         \A k \in i..(j - 1) : Byte(t, k) # Quote /\ Byte(t, k) # Backslash
  PROVE  ClosedAt(t, j, e)
<1>1. Len(t) \in Nat /\ DOMAIN t = 1..Len(t)
  BY TextShape
<1>2. /\ e \in i..Len(t) /\ t[e] = Quote
      /\ \E s \in i..e : /\ \A k \in s..(e - 1) : t[k] = Backslash
                         /\ s = i \/ t[s - 1] # Backslash
                         /\ (e - s) % 2 = 0
  BY DEF ClosedAt
<1>3. PICK s \in i..e : /\ \A k \in s..(e - 1) : t[k] = Backslash
                        /\ s = i \/ t[s - 1] # Backslash
                        /\ (e - s) % 2 = 0
  BY <1>2
<1>4. \A k \in 1..Len(t) : Byte(t, k) = t[k]
  BY <1>1 DEF Byte
<1>5. e >= j
  <2>1. e \in 1..Len(t) /\ Byte(t, e) = Quote
    BY <1>1, <1>2, <1>4
  <2>2. QED
    BY <1>1, <1>2, <2>1
<1>6. s >= j
  <2>1. SUFFICES ASSUME s < j PROVE FALSE
    BY <1>1, <1>2, <1>3
  <2>2. s \in s..(e - 1)
    BY <1>1, <1>2, <1>3, <1>5, <2>1
  <2>3. s \in 1..Len(t) /\ t[s] = Backslash
    BY <1>1, <1>2, <1>3, <1>5, <2>1, <2>2
  <2>4. s \in i..(j - 1) /\ Byte(t, s) = Backslash
    BY <1>1, <1>3, <1>4, <2>1, <2>3
  <2>5. QED
    BY <2>4
<1>7. e \in j..Len(t) /\ s \in j..e
  BY <1>1, <1>2, <1>3, <1>5, <1>6
<1>8. s = j \/ t[s - 1] # Backslash
  BY <1>1, <1>3, <1>7
<1>9. QED
  BY <1>2, <1>3, <1>7, <1>8 DEF ClosedAt

(* ... and of a backslash with the byte behind it.                         *)
LEMMA ClosedBehindEscape ==
  ASSUME NEW t \in Texts, NEW i \in 1..Len(t), NEW e, ClosedAt(t, i, e), Byte(t, i) = Backslash
  PROVE  ClosedAt(t, i + 2, e)
<1>1. Len(t) \in Nat /\ DOMAIN t = 1..Len(t)
  BY TextShape
<1>2. /\ e \in i..Len(t) /\ t[e] = Quote
      /\ \E s \in i..e : /\ \A k \in s..(e - 1) : t[k] = Backslash
                         /\ s = i \/ t[s - 1] # Backslash
                         /\ (e - s) % 2 = 0
  BY DEF ClosedAt
<1>3. PICK s \in i..e : /\ \A k \in s..(e - 1) : t[k] = Backslash
                        /\ s = i \/ t[s - 1] # Backslash
                        /\ (e - s) % 2 = 0
  BY <1>2
<1>4. t[i] = Backslash /\ Backslash # Quote
  BY <1>1 DEF Byte, Backslash, Quote
<1>5. e # i
  BY <1>2, <1>4
<1>6. CASE s = i
  <2>1. e >= i + 2
    BY <1>1, <1>2, <1>3, <1>5, <1>6
  <2>2. i + 2 \in (i + 2)..e /\ e \in (i + 2)..Len(t) /\ (e - (i + 2)) % 2 = 0
    BY <1>1, <1>2, <1>3, <1>6, <2>1
  <2>3. \A k \in (i + 2)..(e - 1) : t[k] = Backslash
    BY <1>1, <1>2, <1>3, <1>6
  <2>4. QED
    BY <1>2, <2>2, <2>3 DEF ClosedAt
<1>7. CASE s # i
  <2>1. t[s - 1] # Backslash /\ s - 1 # i
    BY <1>3, <1>4, <1>7
  <2>2. s \in (i + 2)..e /\ e \in (i + 2)..Len(t)
    BY <1>1, <1>2, <1>3, <1>7, <2>1
  <2>3. QED
    BY <1>2, <1>3, <2>1, <2>2 DEF ClosedAt
<1>8. QED
  BY <1>6, <1>7

(* What is in a window. *)
LEMMA FirstIsLeast ==
  ASSUME NEW S, S \subseteq Nat, S # {}
  PROVE  First(S) \in S /\ \A j \in S : First(S) <= j
BY LeastOf DEF First

(* The window up to the sooner of two bytes, and the whole of it where     *)
(* there is neither.                                                       *)
LEMMA SoonerIsFirst ==
  ASSUME idx \in Nat, NEW c, NEW d, Sooner(c, d)
  PROVE  /\ First(Seen(c)) \in Nat /\ First(Seen(c)) \in idx..(idx + Window - 1)
         /\ At(First(Seen(c))) = c
         /\ \A k \in idx..(First(Seen(c)) - 1) : At(k) # c /\ At(k) # d
<1> DEFINE f == First(Seen(c))
<1>1. Window \in Nat \ {0}
  BY WordAssumption
<1>2. Seen(c) \subseteq Nat /\ Seen(d) \subseteq Nat
  BY <1>1 DEF Seen
<1>3. PICK k \in Seen(c) : \A j \in Seen(d) : k < j
  BY DEF Sooner
<1>4. f \in Seen(c) /\ \A j \in Seen(c) : f <= j
  BY <1>2, <1>3, FirstIsLeast
<1> HIDE DEF f
<1>5. f \in idx..(idx + Window - 1) /\ At(f) = c
  BY <1>4 DEF Seen
<1>6. \A j \in Seen(d) : f < j
  BY <1>2, <1>3, <1>4
<1>7. ASSUME NEW j \in idx..(f - 1) PROVE At(j) # c /\ At(j) # d
  <2>1. j \in idx..(idx + Window - 1) /\ j < f
    BY <1>1, <1>5
  <2>2. ~ (f <= j) /\ ~ (f < j)
    BY <1>5, <2>1
  <2>3. j \notin Seen(c) /\ j \notin Seen(d)
    BY <1>4, <1>6, <2>2
  <2>4. QED
    BY <2>1, <2>3 DEF Seen
<1>8. QED
  BY <1>1, <1>5, <1>7 DEF f

LEMMA NeitherInWindow ==
  ASSUME Seen(Quote) \cup Seen(Backslash) = {}
  PROVE  \A k \in idx..(idx + Window - 1) : At(k) # Quote /\ At(k) # Backslash
BY DEF Seen

(* Where a string is read. *)
LEMMA Decoding ==
  ASSUME ScalarInv, pc \in StringStates
  PROVE  /\ text \in Texts /\ Len(text) \in Nat /\ DOMAIN text = 1..Len(text) /\ Quoted
         /\ idx \in 2..Len(text) /\ len \in Nat /\ dst \in Nat /\ len + dst <= idx - 2
         /\ buffer \in [1..(Len(text) + Window) -> Chars] /\ Window \in Nat \ {0}
         /\ \E e \in DOMAIN text : ClosedAt(text, idx, e)
<1>1. Typed /\ Placed /\ text \in Texts /\ Len(text) \in Nat /\ DOMAIN text = 1..Len(text)
  BY TextShape DEF ScalarInv, Typed
<1>2. QED
  BY <1>1, WordAssumption DEF Typed, Placed, Ahead

LEMMA StringStep ==
  ASSUME ScalarInv, pc \in StringStates, text' = text, UNCHANGED numeric, DOMAIN input' = DOMAIN input,
         buffer' \in [1..(Len(text) + Window) -> Chars],
         len' \in Nat, dst' \in Nat, len' + dst' <= Len(text),
         \/ pc' = "done"
         \/ /\ pc' \in StringStates /\ idx' \in Nat \ {0, 1} /\ len' + dst' <= idx' - 2
            /\ \E e : ClosedAt(text, idx', e)
  PROVE  ScalarInv'
<1>1. Typed /\ Placed /\ text \in Texts /\ Len(text) \in Nat /\ Quoted /\ DOMAIN text = 1..Len(text)
  BY Decoding DEF ScalarInv
<1>2. text' = text /\ num' = num /\ written' = written /\ digits' = digits /\ float' = float
  BY DEF numeric
<1>3. Quoted' /\ WordLimit' = WordLimit
  BY <1>1, <1>2 DEF Quoted, WordLimit
<1>4. Typed'
  BY <1>1, <1>2, <1>3 DEF Typed
<1>5. pc' \in StringStates => Ahead'
  <2>1. SUFFICES ASSUME pc' \in StringStates PROVE Ahead'
    OBVIOUS
  <2>2. idx' \in Nat \ {0, 1} /\ len' + dst' <= idx' - 2 /\ \E e : ClosedAt(text, idx', e)
    BY <2>1 DEF StringStates
  <2>3. PICK e : ClosedAt(text, idx', e)
    BY <2>2
  <2>4. e \in idx'..Len(text)
    BY <2>3 DEF ClosedAt
  <2>5. e \in DOMAIN text' /\ idx' \in 2..Len(text')
    BY <1>1, <1>2, <2>2, <2>4
  <2>6. ClosedAt(text', idx', e)
    BY <1>2, <2>3
  <2>7. QED
    BY <2>2, <2>5, <2>6 DEF Ahead
<1>6. Placed'
  BY <1>3, <1>5 DEF Placed, NumberStates, StringStates
<1>7. QED
  BY <1>4, <1>6 DEF ScalarInv

(* The place of a byte that is there. *)
LEMMA ByteInText ==
  ASSUME text \in Texts, NEW k, At(k) # "BLANK"
  PROVE  k \in 1..Len(text) /\ At(k) = text[k]
BY TextShape DEF At

LEMMA PlainStep == ScalarInv /\ Plain => ScalarInv'
<1> SUFFICES ASSUME ScalarInv, Plain PROVE ScalarInv'
  OBVIOUS
<1> DEFINE q == First(Seen(Quote))
           b == First(Seen(Backslash))
<1>1. pc \in StringStates
  BY DEF Plain, StringStates
<1>2. /\ text \in Texts /\ Len(text) \in Nat /\ DOMAIN text = 1..Len(text)
      /\ idx \in 2..Len(text) /\ len \in Nat /\ dst \in Nat /\ len + dst <= idx - 2
      /\ buffer \in [1..(Len(text) + Window) -> Chars] /\ Window \in Nat \ {0}
  BY <1>1, Decoding
<1>3. PICK e : ClosedAt(text, idx, e)
  BY <1>1, Decoding
<1>4. \A k : At(k) = Byte(text, k)
  BY DEF At
<1>5. Quote # "BLANK" /\ Backslash # "BLANK" /\ Quote # Backslash
  BY DEF Quote, Backslash
<1>6. idx \in 1..Len(text) /\ idx \in Nat
  BY <1>2
<1>7. CASE /\ Sooner(Quote, Backslash) /\ len' = len + q - idx /\ pc' = "done"
           /\ UNCHANGED <<text, idx, numeric, input, buffer, dst>>
  <2>1. q \in idx..(idx + Window - 1) /\ At(q) = Quote
    BY <1>6, <1>7, SoonerIsFirst
  <2>2. q \in 1..Len(text)
    BY <1>2, <1>5, <2>1, ByteInText
  <2> HIDE DEF q
  <2>3. len' \in Nat /\ len' + dst' <= Len(text)
    BY <1>2, <1>7, <2>1, <2>2
  <2>4. QED
    BY <1>1, <1>2, <1>7, <2>3, StringStep
<1>8. CASE /\ Sooner(Backslash, Quote) /\ len' = len + b - idx /\ idx' = b /\ pc' = "copy"
           /\ UNCHANGED <<text, numeric, input, buffer, dst, result>>
  <2>1. /\ b \in Nat /\ b \in idx..(idx + Window - 1) /\ At(b) = Backslash
        /\ \A k \in idx..(b - 1) : At(k) # Backslash /\ At(k) # Quote
    BY <1>6, <1>8, SoonerIsFirst
  <2>2. b \in 1..Len(text)
    BY <1>2, <1>5, <2>1, ByteInText
  <2> HIDE DEF b
  <2>3. ClosedAt(text, b, e)
    BY <1>2, <1>3, <1>4, <1>6, <2>1, <2>2, ClosedBehindPlain
  <2>4. len' \in Nat /\ len' + dst' <= idx' - 2 /\ idx' \in Nat \ {0, 1} /\ dst' \in Nat
    BY <1>2, <1>8, <2>1
  <2>5. len' + dst' <= Len(text)
    BY <1>2, <1>8, <2>1, <2>2, <2>4
  <2>6. ClosedAt(text, idx', e) /\ pc' \in StringStates
    BY <1>8, <2>3 DEF StringStates
  <2>7. QED
    BY <1>1, <1>2, <1>8, <2>4, <2>5, <2>6, StringStep
<1>9. CASE /\ Seen(Quote) \cup Seen(Backslash) = {}
           /\ len' = len + Window /\ idx' = idx + Window
           /\ UNCHANGED <<text, pc, numeric, input, buffer, dst, result>>
  <2>1. \A k \in idx..(idx + Window - 1) : At(k) # Quote /\ At(k) # Backslash
    BY <1>9, NeitherInWindow
  <2>2. idx + Window \in Nat /\ idx <= idx + Window
    BY <1>2
  <2>3. ClosedAt(text, idx + Window, e)
    BY <1>2, <1>3, <1>4, <1>6, <2>1, <2>2, ClosedBehindPlain
  <2>4. len' \in Nat /\ len' + dst' <= idx' - 2 /\ idx' \in Nat \ {0, 1} /\ dst' \in Nat
    BY <1>2, <1>9
  <2>5. e \in (idx + Window)..Len(text)
    BY <2>3 DEF ClosedAt
  <2>6. len' + dst' <= Len(text)
    BY <1>2, <1>9, <2>2, <2>4, <2>5
  <2>7. ClosedAt(text, idx', e) /\ pc' \in StringStates
    BY <1>1, <1>9, <2>3
  <2>8. QED
    BY <1>1, <1>2, <1>9, <2>4, <2>6, <2>7, StringStep
<1>10. QED
  BY <1>7, <1>8, <1>9 DEF Plain

(* A window fits into the buffer behind what is decoded. *)
LEMMA StoredFits ==
  ASSUME text \in Texts, Len(text) \in Nat, Window \in Nat \ {0}, dst \in 0..Len(text),
         buffer \in [1..(Len(text) + Window) -> Chars]
  PROVE  Stored \in [1..(Len(text) + Window) -> Chars]
<1>1. DOMAIN buffer \cup (dst + 1)..(dst + Window) = 1..(Len(text) + Window)
  <2>1. DOMAIN buffer = 1..(Len(text) + Window)
    OBVIOUS
  <2>2. \A k \in (dst + 1)..(dst + Window) : k \in 1..(Len(text) + Window)
    OBVIOUS
  <2>3. QED
    BY <2>1, <2>2
<1>2. \A k : At(k) \in Chars
  BY TextShape DEF At
<1>3. \A k \in 1..(Len(text) + Window) : buffer[k] \in Chars
  OBVIOUS
<1>4. QED
  BY <1>1, <1>2, <1>3 DEF Stored

LEMMA EscapeIsChar ==
  ASSUME NEW c \in DOMAIN Escape
  PROVE  Escape[c] \in Chars
BY DEF Escape, Chars

(* A code point is an element, and its digits are neither quotes nor       *)
(* backslashes.                                                            *)
IsPoint(k, c, n) ==
  /\ CodePoint(k) = [char |-> c, units |-> n] /\ Unicode(text, k) = <<c, k + n>>
  /\ c \in Chars /\ n \in {3, 6} /\ At(k + 2) \in Quads
  /\ n = 6 => At(k + 3) = Backslash /\ At(k + 5) \in Quads

LEMMA CodePointIsUnicode ==
  ASSUME text \in Texts, NEW k \in Nat
  PROVE  \/ CodePoint(k) = Error /\ Unicode(text, k) = << >>
         \/ \E c, n : IsPoint(k, c, n)
<1> DEFINE pair == At(k + 3) = Backslash /\ At(k + 4) = "u"
<1>1. CASE At(k + 2) \in {"BMP", "PAST"}
  <2>1. CodePoint(k) = [char |-> At(k + 2), units |-> 3]
    <3>1. ~ (At(k + 2) \notin Quads \/ At(k + 2) = "LOW") /\ At(k + 2) # "HIGH"
      BY <1>1 DEF Quads
    <3>2. QED
      BY <1>1, <3>1 DEF CodePoint
  <2>2. Unicode(text, k) = <<At(k + 2), k + 3>>
    BY <1>1 DEF Unicode, At
  <2>3. At(k + 2) \in Chars /\ At(k + 2) \in Quads
    BY <1>1 DEF Chars, Quads
  <2>4. IsPoint(k, At(k + 2), 3)
    BY <2>1, <2>2, <2>3 DEF IsPoint
  <2>5. QED
    BY <2>4
<1>2. CASE At(k + 2) \notin Quads \/ At(k + 2) = "LOW"
  BY <1>2 DEF CodePoint, Unicode, Quads, At
<1>3. CASE At(k + 2) = "HIGH"
  <2>1. At(k + 2) \in Quads /\ At(k + 2) \notin {"BMP", "PAST"} /\ At(k + 2) # "LOW"
    BY <1>3 DEF Quads
  <2>2. CodePoint(k) =
          IF ~pair \/ At(k + 5) \notin Quads THEN [char |-> "NUL", units |-> 3]
          ELSE IF At(k + 5) \in {"BMP", "HIGH"} THEN Error
          ELSE [char |-> IF At(k + 5) = "LOW" THEN "PAIR" ELSE "UNPAIRED", units |-> 6]
    BY <1>3, <2>1 DEF CodePoint
  <2>3. Unicode(text, k) =
          IF (IF pair THEN At(k + 5) ELSE "none") = "LOW" THEN <<"PAIR", k + 6>>
          ELSE IF (IF pair THEN At(k + 5) ELSE "none") \notin Quads THEN <<"NUL", k + 3>>
          ELSE IF (IF pair THEN At(k + 5) ELSE "none") = "PAST" THEN <<"UNPAIRED", k + 6>>
          ELSE << >>
    BY <1>3 DEF Unicode, LetPass, At
  <2>4. CASE ~pair \/ At(k + 5) \notin Quads
    <3>1. /\ (IF pair THEN At(k + 5) ELSE "none") \notin Quads
          /\ (IF pair THEN At(k + 5) ELSE "none") # "LOW"
      BY <2>4 DEF Quads
    <3>2. CodePoint(k) = [char |-> "NUL", units |-> 3] /\ Unicode(text, k) = <<"NUL", k + 3>>
      BY <2>2, <2>3, <2>4, <3>1
    <3>3. IsPoint(k, "NUL", 3)
      BY <2>1, <3>2 DEF IsPoint, Chars
    <3>4. QED
      BY <3>3
  <2>5. CASE pair /\ At(k + 5) \in {"BMP", "HIGH"}
    <3>1. At(k + 5) \in Quads /\ At(k + 5) # "LOW" /\ At(k + 5) # "PAST"
      BY <2>5 DEF Quads
    <3>2. QED
      BY <2>2, <2>3, <2>5, <3>1
  <2>6. CASE pair /\ At(k + 5) = "LOW"
    <3>1. At(k + 5) \in Quads /\ At(k + 5) \notin {"BMP", "HIGH"}
      BY <2>6 DEF Quads
    <3>2. CodePoint(k) = [char |-> "PAIR", units |-> 6] /\ Unicode(text, k) = <<"PAIR", k + 6>>
      BY <2>2, <2>3, <2>6, <3>1
    <3>3. IsPoint(k, "PAIR", 6)
      BY <2>1, <2>6, <3>1, <3>2 DEF IsPoint, Chars
    <3>4. QED
      BY <3>3
  <2>7. CASE pair /\ At(k + 5) = "PAST"
    <3>1. At(k + 5) \in Quads /\ At(k + 5) \notin {"BMP", "HIGH", "LOW"}
      BY <2>7 DEF Quads
    <3>2. CodePoint(k) = [char |-> "UNPAIRED", units |-> 6] /\ Unicode(text, k) = <<"UNPAIRED", k + 6>>
      BY <2>2, <2>3, <2>7, <3>1
    <3>3. IsPoint(k, "UNPAIRED", 6)
      BY <2>1, <2>7, <3>1, <3>2 DEF IsPoint, Chars
    <3>4. QED
      BY <3>3
  <2>8. QED
    BY <2>4, <2>5, <2>6, <2>7 DEF Quads
<1>4. QED
  BY <1>1, <1>2, <1>3 DEF Quads

LEMMA ErrorIsNoPoint ==
  ASSUME NEW c, NEW n
  PROVE  Error # [char |-> c, units |-> n]
<1>1. "kind" \in DOMAIN Error
  BY DEF Error
<1>2. "kind" \notin DOMAIN [char |-> c, units |-> n]
  OBVIOUS
<1>3. QED
  BY <1>1, <1>2

(* A closing quote stays ahead of the bytes of an escape. *)
LEMMA ClosedBehindPoint ==
  ASSUME text \in Texts, NEW k \in 1..Len(text), NEW e, ClosedAt(text, k, e), At(k) = Backslash,
         NEW c, NEW n, IsPoint(k, c, n)
  PROVE  ClosedAt(text, k + n, e)
<1>1. Len(text) \in Nat /\ \A j : At(j) = Byte(text, j)
  BY TextShape DEF At
<1>2. Quote \notin Quads /\ Backslash \notin Quads /\ "BLANK" \notin Quads
  BY DEF Quote, Backslash, Quads
<1>3. ASSUME NEW j \in 1..Len(text), ClosedAt(text, j, e), At(j) \in Quads
      PROVE  ClosedAt(text, j + 1, e)
  <2>1. j + 1 \in Nat /\ j <= j + 1 /\ \A i \in j..(j + 1 - 1) : i = j
    BY <1>1
  <2>2. At(j) # Quote /\ At(j) # Backslash
    BY <1>2, <1>3
  <2>3. \A i \in j..(j + 1 - 1) : Byte(text, i) # Quote /\ Byte(text, i) # Backslash
    BY <1>1, <2>1, <2>2
  <2>4. QED
    BY <1>3, <2>1, <2>3, ClosedBehindPlain
<1>4. ClosedAt(text, k + 2, e)
  BY <1>1, ClosedBehindEscape
<1>5. k + 2 \in 1..Len(text) /\ At(k + 2) \in Quads
  BY <1>2, ByteInText DEF IsPoint
<1>6. ClosedAt(text, k + 3, e)
  BY <1>3, <1>4, <1>5
<1>7. CASE n = 6
  <2>1. At(k + 3) = Backslash /\ At(k + 5) \in Quads
    BY <1>7 DEF IsPoint
  <2>2. k + 3 \in 1..Len(text) /\ k + 5 \in 1..Len(text)
    BY <1>2, <2>1, ByteInText DEF Backslash
  <2>3. ClosedAt(text, (k + 3) + 2, e)
    BY <1>1, <1>6, <2>1, <2>2, ClosedBehindEscape
  <2>4. (k + 3) + 2 = k + 5 /\ (k + 5) + 1 = k + 6
    OBVIOUS
  <2>5. ClosedAt(text, (k + 5) + 1, e)
    BY <1>3, <2>1, <2>2, <2>3, <2>4
  <2>6. QED
    BY <1>7, <2>4, <2>5
<1>8. QED
  BY <1>6, <1>7 DEF IsPoint

LEMMA CopyEndsStep == ScalarInv /\ CopyEnds => ScalarInv'
<1> SUFFICES ASSUME ScalarInv, CopyEnds PROVE ScalarInv'
  OBVIOUS
<1> DEFINE q == First(Seen(Quote))
<1>1. pc \in StringStates /\ pc' = "done" /\ Sooner(Quote, Backslash)
  BY DEF CopyEnds, StringStates
<1>2. /\ text \in Texts /\ Len(text) \in Nat
      /\ idx \in 2..Len(text) /\ len \in Nat /\ dst \in Nat /\ len + dst <= idx - 2
      /\ buffer \in [1..(Len(text) + Window) -> Chars] /\ Window \in Nat \ {0}
  BY <1>1, Decoding
<1>3. q \in idx..(idx + Window - 1) /\ At(q) = Quote
  BY <1>1, <1>2, SoonerIsFirst
<1>4. q \in 1..Len(text)
  BY <1>2, <1>3, ByteInText DEF Quote
<1>5. dst' = dst + q - idx /\ len' = len /\ text' = text /\ UNCHANGED numeric /\ buffer' = Stored
  BY DEF CopyEnds
<1>6. DOMAIN input' = DOMAIN input
  BY DEF CopyEnds, WrittenBack
<1> HIDE DEF q
<1>7. dst' \in Nat /\ len' + dst' <= Len(text)
  BY <1>2, <1>3, <1>4, <1>5
<1>8. buffer' \in [1..(Len(text) + Window) -> Chars]
  BY <1>2, <1>5, StoredFits
<1>9. QED
  BY <1>1, <1>2, <1>5, <1>6, <1>7, <1>8, StringStep

(* An escape is read up to k: it is at least two bytes, of which one       *)
(* element is kept.                                                        *)
LEMMA UnescapeStep ==
  ASSUME ScalarInv, pc = "copy", Sooner(Backslash, Quote),
         NEW char \in Chars, NEW next \in Nat, Unescape(char, next),
         next > First(Seen(Backslash)), \E e : ClosedAt(text, next, e)
  PROVE  ScalarInv'
<1> DEFINE b == First(Seen(Backslash))
<1>1. pc \in StringStates /\ pc' = "copy"
  BY DEF Unescape, StringStates
<1>2. /\ text \in Texts /\ Len(text) \in Nat
      /\ idx \in 2..Len(text) /\ len \in Nat /\ dst \in Nat /\ len + dst <= idx - 2
      /\ buffer \in [1..(Len(text) + Window) -> Chars] /\ Window \in Nat \ {0}
  BY <1>1, Decoding
<1>3. b \in idx..(idx + Window - 1) /\ b \in Nat /\ At(b) = Backslash
  BY <1>2, SoonerIsFirst
<1>4. b \in 1..Len(text)
  BY <1>2, <1>3, ByteInText DEF Backslash
<1>5. /\ dst' = dst + b - idx + 1 /\ len' = len /\ text' = text /\ input' = input /\ idx' = next
      /\ UNCHANGED numeric /\ buffer' = [Stored EXCEPT ![dst'] = char]
  BY DEF Unescape
<1>6. next > b
  OBVIOUS
<1> HIDE DEF b
<1>7. dst' \in Nat /\ len' + dst' <= Len(text) /\ len' + dst' <= idx' - 2 /\ idx' \in Nat \ {0, 1}
  BY <1>2, <1>3, <1>4, <1>5, <1>6
<1>8. Stored \in [1..(Len(text) + Window) -> Chars]
  BY <1>2, StoredFits
<1>9. buffer' \in [1..(Len(text) + Window) -> Chars]
  BY <1>5, <1>8
<1>10. \E e : ClosedAt(text, idx', e)
  BY <1>5
<1>11. pc' \in StringStates
  BY <1>1 DEF StringStates
<1>12. QED
  BY <1>1, <1>2, <1>5, <1>7, <1>9, <1>10, <1>11, StringStep

(* What an escape at the first backslash of a window can be. *)
LEMMA EscapeAhead ==
  ASSUME ScalarInv, pc = "copy", Sooner(Backslash, Quote), NEW k, k = First(Seen(Backslash))
  PROVE  /\ k \in Nat /\ k \in idx..(idx + Window - 1) /\ k \in 1..Len(text) /\ At(k) = Backslash
         /\ \E e : ClosedAt(text, k, e)
<1>1. pc \in StringStates
  BY DEF StringStates
<1>2. text \in Texts /\ Len(text) \in Nat /\ idx \in 2..Len(text)
  BY <1>1, Decoding
<1>3. PICK e : ClosedAt(text, idx, e)
  BY <1>1, Decoding
<1>4. /\ k \in Nat /\ k \in idx..(idx + Window - 1) /\ At(k) = Backslash
      /\ \A j \in idx..(k - 1) : At(j) # Backslash /\ At(j) # Quote
  BY <1>2, SoonerIsFirst
<1>5. k \in 1..Len(text)
  BY <1>2, <1>4, ByteInText DEF Backslash
<1>6. idx \in 1..Len(text) /\ idx <= k /\ \A j : At(j) = Byte(text, j)
  BY <1>2, <1>4 DEF At
<1>7. \A j \in idx..(k - 1) : Byte(text, j) # Quote /\ Byte(text, j) # Backslash
  BY <1>4, <1>6
<1>8. ClosedAt(text, k, e)
  BY <1>2, <1>3, <1>4, <1>6, <1>7, ClosedBehindPlain
<1>9. QED
  BY <1>4, <1>5, <1>8

LEMMA CopyEscapeStep == ScalarInv /\ CopyEscape => ScalarInv'
<1> SUFFICES ASSUME ScalarInv, CopyEscape PROVE ScalarInv'
  OBVIOUS
<1> DEFINE b == First(Seen(Backslash))
<1>1. pc = "copy" /\ Sooner(Backslash, Quote)
  BY DEF CopyEscape
<1>2. PICK k : k = b
  OBVIOUS
<1>3. /\ \/ /\ At(k + 1) = "u" /\ CodePoint(k) # Error
            /\ Unescape(CodePoint(k).char, k + CodePoint(k).units)
         \/ /\ At(k + 1) \in DOMAIN Escape
            /\ Unescape(Escape[At(k + 1)], k + 2)
         \/ Finished(Error)
  BY <1>2 DEF CopyEscape
<1>4. k \in Nat /\ k \in 1..Len(text) /\ At(k) = Backslash /\ \E e : ClosedAt(text, k, e)
  BY <1>1, <1>2, EscapeAhead
<1>5. PICK e : ClosedAt(text, k, e)
  BY <1>4
<1>6. text \in Texts
  BY DEF ScalarInv, Typed
<1>7. CASE CodePoint(k) # Error /\ Unescape(CodePoint(k).char, k + CodePoint(k).units)
  <2>1. PICK c, n : IsPoint(k, c, n)
    BY <1>4, <1>6, <1>7, CodePointIsUnicode
  <2>2. Unescape(c, k + n) /\ c \in Chars /\ n \in {3, 6}
    BY <1>7, <2>1 DEF IsPoint
  <2>3. ClosedAt(text, k + n, e)
    BY <1>4, <1>5, <1>6, <2>1, ClosedBehindPoint
  <2>4. k + n \in Nat /\ k + n > b
    BY <1>2, <1>4, <2>2
  <2>5. QED
    BY <1>1, <2>2, <2>3, <2>4, UnescapeStep
<1>8. CASE At(k + 1) \in DOMAIN Escape /\ Unescape(Escape[At(k + 1)], k + 2)
  <2>1. Byte(text, k) = Backslash
    BY <1>4 DEF At
  <2>2. ClosedAt(text, k + 2, e)
    BY <1>4, <1>5, <1>6, <2>1, ClosedBehindEscape
  <2>3. k + 2 \in Nat /\ k + 2 > b
    BY <1>2, <1>4
  <2>4. Escape[At(k + 1)] \in Chars
    BY <1>8, EscapeIsChar
  <2>5. QED
    BY <1>1, <1>8, <2>2, <2>3, <2>4, UnescapeStep
<1>9. CASE Finished(Error)
  BY <1>9, NodeStep
<1>10. QED
  BY <1>3, <1>7, <1>8, <1>9

LEMMA CopyWindowStep == ScalarInv /\ CopyWindow => ScalarInv'
<1> SUFFICES ASSUME ScalarInv, CopyWindow PROVE ScalarInv'
  OBVIOUS
<1>1. /\ pc \in StringStates /\ pc' \in StringStates /\ Seen(Quote) \cup Seen(Backslash) = {}
      /\ buffer' = Stored /\ dst' = dst + Window /\ idx' = idx + Window
      /\ len' = len /\ text' = text /\ input' = input /\ UNCHANGED numeric
  BY DEF CopyWindow, StringStates
<1>2. /\ text \in Texts /\ Len(text) \in Nat
      /\ idx \in 2..Len(text) /\ len \in Nat /\ dst \in Nat /\ len + dst <= idx - 2
      /\ buffer \in [1..(Len(text) + Window) -> Chars] /\ Window \in Nat \ {0}
  BY <1>1, Decoding
<1>3. PICK e : ClosedAt(text, idx, e)
  BY <1>1, Decoding
<1>4. \A k \in idx..(idx + Window - 1) : Byte(text, k) # Quote /\ Byte(text, k) # Backslash
  BY <1>1, NeitherInWindow DEF At
<1>5. idx \in 1..Len(text) /\ idx + Window \in Nat /\ idx <= idx + Window
  BY <1>2
<1>6. ClosedAt(text, idx + Window, e)
  BY <1>2, <1>3, <1>4, <1>5, ClosedBehindPlain
<1>7. e \in (idx + Window)..Len(text)
  BY <1>6 DEF ClosedAt
<1>8. /\ len' \in Nat /\ dst' \in Nat /\ len' + dst' <= Len(text)
      /\ idx' \in Nat \ {0, 1} /\ len' + dst' <= idx' - 2
  BY <1>1, <1>2, <1>5, <1>7
<1>9. ClosedAt(text, idx', e)
  BY <1>1, <1>6
<1>10. buffer' \in [1..(Len(text) + Window) -> Chars]
  BY <1>1, <1>2, StoredFits
<1>11. QED
  BY <1>1, <1>8, <1>9, <1>10, StringStep

LEMMA StutterStep == ScalarInv /\ UNCHANGED vars => ScalarInv'
BY DEF ScalarInv, Typed, Placed, Ahead, Quoted, Mantissa, Negative, IsDigit, At, WordLimit,
       NumberStates, StringStates, vars, numeric, decoded

LEMMA ScalarInvariant == Spec => []ScalarInv
<1>1. ScalarInv /\ [Next]_vars => ScalarInv'
  <2>1. ScalarInv /\ ReadNumber => ScalarInv'
    BY IntegerStep, PointStep, RunStep, FractionStep, SuffixStep, ExponentStep, NumberEndsStep, LargeStep
       DEF ReadNumber
  <2>2. ScalarInv /\ ReadString => ScalarInv'
    BY PlainStep, CopyEndsStep, CopyEscapeStep, CopyWindowStep DEF ReadString
  <2>3. QED
    BY <2>1, <2>2, StartStep, StutterStep DEF Next
<1>2. QED
  BY <1>1, InitScalar, PTL DEF Spec

(* Whatever the text, a word stays a word, the digits that are read lie in *)
(* the text, and no window of a string is stored outside string_buffer,    *)
(* which parse_str reserves for the text and one window.                   *)
THEOREM ScalarTypeCorrect == Spec => []TypeOK
BY ScalarInvariant, InvTypes, PTL

-----------------------------------------------------------------------------
(* The elements of a string.                                               *)

(* What is at k, if what is behind it is known. *)
DecodedFrom(t, f, k) ==
  IF k > Len(t) \/ Element(t, k) = << >> THEN [bytes |-> << >>, end |-> 0]
  ELSE IF t[k] = Quote THEN [bytes |-> << >>, end |-> k]
  ELSE LET rest == f[Element(t, k)[2]]
       IN  [bytes |-> <<Element(t, k)[1]>> \o rest.bytes, end |-> rest.end]

LEMMA ElementShape ==
  ASSUME NEW t \in Texts, NEW k \in Nat, Element(t, k) # << >>
  PROVE  \E c \in Chars, n \in Nat : n > k /\ Element(t, k) = <<c, n>>
<1>1. CASE Byte(t, k) # Backslash
  <2>1. Element(t, k) = <<Byte(t, k), k + 1>> /\ Byte(t, k) \in Chars /\ k + 1 \in Nat /\ k + 1 > k
    BY <1>1, TextShape DEF Element
  <2>2. QED
    BY <2>1
<1>2. CASE Byte(t, k) = Backslash /\ Byte(t, k + 1) = "u"
  <2>1. Element(t, k) = Unicode(t, k)
    BY <1>2 DEF Element
  <2>2. \E c \in {"BMP", "PAST", "NUL", "PAIR", "UNPAIRED"}, n \in {k + 3, k + 6} : Unicode(t, k) = <<c, n>>
    BY <2>1 DEF Unicode, LetPass
  <2>3. PICK c \in {"BMP", "PAST", "NUL", "PAIR", "UNPAIRED"}, n \in {k + 3, k + 6} : Unicode(t, k) = <<c, n>>
    BY <2>2
  <2>4. c \in Chars
    BY DEF Chars
  <2>5. n \in Nat /\ n > k
    BY <2>3
  <2>6. QED
    BY <2>1, <2>3, <2>4, <2>5
<1>3. CASE Byte(t, k) = Backslash /\ Byte(t, k + 1) # "u"
  <2>1. Byte(t, k + 1) \in DOMAIN Escape
    BY <1>3 DEF Element
  <2>2. Element(t, k) = <<Escape[Byte(t, k + 1)], k + 2>> /\ k + 2 \in Nat /\ k + 2 > k
    BY <1>3, <2>1 DEF Element
  <2>3. Escape[Byte(t, k + 1)] \in Chars
    BY <2>1, EscapeIsChar
  <2>4. QED
    BY <2>2, <2>3
<1>4. QED
  BY <1>1, <1>2, <1>3

(* What is at k depends on what is behind it only. *)
LEMMA DecodedLooksAhead ==
  ASSUME NEW t \in Texts, NEW k \in Nat, NEW f, NEW g, \A n \in Nat : n > k => f[n] = g[n]
  PROVE  DecodedFrom(t, f, k) = DecodedFrom(t, g, k)
<1>1. CASE k > Len(t) \/ Element(t, k) = << >>
  BY <1>1 DEF DecodedFrom
<1>2. CASE ~ (k > Len(t) \/ Element(t, k) = << >>)
  <2>1. PICK c \in Chars, n \in Nat : n > k /\ Element(t, k) = <<c, n>>
    BY <1>2, ElementShape
  <2>2. f[Element(t, k)[2]] = g[Element(t, k)[2]]
    BY <2>1
  <2>3. QED
    BY <1>2, <2>2 DEF DecodedFrom
<1>3. QED
  BY <1>1, <1>2

(* f is Decoded(t) on the last m places and beyond. *)
DecodesLast(t, f, m) == \A k \in Nat : k + m > Len(t) => f[k] = DecodedFrom(t, f, k)

LEMMA DecodesLastExists ==
  ASSUME NEW t \in Texts, NEW n \in Nat
  PROVE  \E f : DecodesLast(t, f, n)
<1>1. Len(t) \in Nat
  BY TextShape
<1> DEFINE S == {m \in Nat : ~ \E f : DecodesLast(t, f, m)}
<1>2. SUFFICES ASSUME S # {} PROVE FALSE
  OBVIOUS
<1>3. PICK m \in S : \A k \in S : m <= k
  BY <1>2, LeastOf
<1>4. CASE m = 0
  <2> DEFINE f == [k \in Nat |-> [bytes |-> << >>, end |-> 0]]
  <2>1. ASSUME NEW k \in Nat, k + 0 > Len(t) PROVE f[k] = DecodedFrom(t, f, k)
    BY <1>1, <2>1 DEF DecodedFrom
  <2>2. DecodesLast(t, f, 0)
    BY <2>1 DEF DecodesLast
  <2>3. QED
    BY <1>3, <1>4, <2>2
<1>5. CASE m > 0
  <2>1. m - 1 \in Nat /\ m - 1 \notin S
    BY <1>3, <1>5
  <2>2. PICK f : DecodesLast(t, f, m - 1)
    BY <2>1
  <2> DEFINE g == [k \in Nat |-> IF k + m > Len(t) + 1 THEN f[k] ELSE DecodedFrom(t, f, k)]
  <2>3. ASSUME NEW k \in Nat, k + m > Len(t) PROVE g[k] = DecodedFrom(t, g, k)
    <3>1. \A n_1 \in Nat : n_1 > k => f[n_1] = g[n_1]
      BY <1>1, <1>5, <2>3
    <3>2. DecodedFrom(t, f, k) = DecodedFrom(t, g, k)
      <4> HIDE DEF g
      <4>1. QED
        BY <3>1, DecodedLooksAhead
    <3>3. g[k] = DecodedFrom(t, f, k)
      <4>1. CASE k + m > Len(t) + 1
        <5>1. k + (m - 1) > Len(t)
          BY <1>1, <4>1
        <5>2. f[k] = DecodedFrom(t, f, k)
          BY <2>2, <5>1 DEF DecodesLast
        <5>3. QED
          BY <4>1, <5>2
      <4>2. CASE ~ (k + m > Len(t) + 1)
        BY <4>2
      <4>3. QED
        BY <4>1, <4>2
    <3>4. QED
      BY <3>2, <3>3
  <2>4. DecodesLast(t, g, m)
    <3> HIDE DEF g
    <3>1. QED
      BY <2>3 DEF DecodesLast
  <2>5. QED
    BY <1>3, <2>4
<1>6. QED
  BY <1>3, <1>4, <1>5

LEMMA DecodedAt ==
  ASSUME NEW t \in Texts, NEW k \in Nat
  PROVE  Decoded(t)[k] = DecodedFrom(t, Decoded(t), k)
<1>1. Len(t) + 1 \in Nat /\ Len(t) \in Nat
  BY TextShape
<1>2. PICK f : DecodesLast(t, f, Len(t) + 1)
  BY <1>1, DecodesLastExists
<1> DEFINE g == [n \in Nat |-> f[n]]
<1>3. g = [n \in Nat |-> DecodedFrom(t, g, n)]
  <2>1. ASSUME NEW n \in Nat PROVE f[n] = DecodedFrom(t, g, n)
    <3>1. f[n] = DecodedFrom(t, f, n)
      BY <1>1, <1>2 DEF DecodesLast
    <3>2. \A j \in Nat : j > n => f[j] = g[j]
      OBVIOUS
    <3> HIDE DEF g
    <3>3. QED
      BY <3>1, <3>2, DecodedLooksAhead
  <2>2. QED
    BY <2>1
<1>4. Decoded(t) = CHOOSE h : h = [n \in Nat |-> DecodedFrom(t, h, n)]
  BY DEF Decoded, DecodedFrom
<1>5. \E h : h = [n \in Nat |-> DecodedFrom(t, h, n)]
  <2> HIDE DEF g
  <2>1. QED
    BY <1>3
<1>6. Decoded(t) = [n \in Nat |-> DecodedFrom(t, Decoded(t), n)]
  BY <1>4, <1>5
<1>7. QED
  BY <1>6

LEMMA DecodedParts ==
  ASSUME NEW t \in Texts, NEW k \in Nat
  PROVE  /\ k > Len(t) \/ Element(t, k) = << >> => Decoded(t)[k].bytes = << >> /\ Decoded(t)[k].end = 0
         /\ ~ (k > Len(t) \/ Element(t, k) = << >>) /\ t[k] = Quote
            => Decoded(t)[k].bytes = << >> /\ Decoded(t)[k].end = k
         /\ ~ (k > Len(t) \/ Element(t, k) = << >>) /\ t[k] # Quote
            => /\ Decoded(t)[k].bytes = <<Element(t, k)[1]>> \o Decoded(t)[Element(t, k)[2]].bytes
               /\ Decoded(t)[k].end = Decoded(t)[Element(t, k)[2]].end
<1> DEFINE D == Decoded(t)
<1>1. D[k] = DecodedFrom(t, D, k)
  BY DecodedAt
<1> HIDE DEF D
<1>2. CASE k > Len(t) \/ Element(t, k) = << >>
  <2>1. D[k] = [bytes |-> << >>, end |-> 0]
    BY <1>1, <1>2 DEF DecodedFrom
  <2>2. D[k].bytes = << >> /\ D[k].end = 0
    BY <2>1
  <2>3. QED
    BY <1>2, <2>2 DEF D
<1>3. CASE ~ (k > Len(t) \/ Element(t, k) = << >>) /\ t[k] = Quote
  <2>1. D[k] = [bytes |-> << >>, end |-> k]
    BY <1>1, <1>3 DEF DecodedFrom
  <2>2. D[k].bytes = << >> /\ D[k].end = k
    BY <2>1
  <2>3. QED
    BY <1>3, <2>2 DEF D
<1>4. CASE ~ (k > Len(t) \/ Element(t, k) = << >>) /\ t[k] # Quote
  <2>1. D[k] = [bytes |-> <<Element(t, k)[1]>> \o D[Element(t, k)[2]].bytes,
                end |-> D[Element(t, k)[2]].end]
    BY <1>1, <1>4 DEF DecodedFrom
  <2>2. /\ D[k].bytes = <<Element(t, k)[1]>> \o D[Element(t, k)[2]].bytes
        /\ D[k].end = D[Element(t, k)[2]].end
    BY <2>1
  <2>3. QED
    BY <1>4, <2>2 DEF D
<1>5. QED
  BY <1>2, <1>3, <1>4

LEMMA Regroup ==
  ASSUME NEW a \in Seq(Chars), NEW b \in Seq(Chars), NEW c \in Seq(Chars)
  PROVE  a \o (b \o c) = (a \o b) \o c
BY ConcatAssociative, SMTT(30)

(* Elements are characters. *)
LEMMA DecodedIsText ==
  ASSUME NEW t \in Texts, NEW k \in Nat
  PROVE  Decoded(t)[k].bytes \in Seq(Chars)
<1> DEFINE D == Decoded(t)
           S == {m \in Nat : \E j \in Nat : j + m > Len(t) /\ D[j].bytes \notin Seq(Chars)}
<1>1. Len(t) \in Nat
  BY TextShape
<1> HIDE DEF D
<1>3. S = {}
  <2>1. SUFFICES ASSUME S # {} PROVE FALSE
    OBVIOUS
  <2>2. PICK m \in S : \A i \in S : m <= i
    BY <2>1, LeastOf
  <2>3. PICK j \in Nat : j + m > Len(t) /\ D[j].bytes \notin Seq(Chars)
    BY <2>2
  <2>4. << >> \in Seq(Chars)
    OBVIOUS
  <2>5. ~ (j > Len(t) \/ Element(t, j) = << >>) /\ t[j] # Quote
    BY <2>3, <2>4, DecodedParts DEF D
  <2>6. PICK c \in Chars, n \in Nat : n > j /\ Element(t, j) = <<c, n>>
    BY <2>5, ElementShape
  <2>7. D[j].bytes = <<c>> \o D[n].bytes
    <3>1. Element(t, j)[1] = c /\ Element(t, j)[2] = n
      BY <2>6
    <3>2. D[j].bytes = <<Element(t, j)[1]>> \o D[Element(t, j)[2]].bytes
      BY <2>5, DecodedParts, Zenon DEF D
    <3>3. QED
      BY <3>1, <3>2
  <2>8. m # 0
    BY <1>1, <2>3, <2>5
  <2>9. m - 1 \in Nat /\ m - 1 \notin S
    BY <2>2, <2>8
  <2>10. n + (m - 1) > Len(t)
    BY <1>1, <2>3, <2>6, <2>9
  <2>11. D[n].bytes \in Seq(Chars)
    BY <2>9, <2>10
  <2>12. <<c>> \in Seq(Chars)
    BY <2>6
  <2>13. D[j].bytes \in Seq(Chars)
    BY <2>7, <2>11, <2>12, ConcatProperties
  <2>14. QED
    BY <2>3, <2>13
<1>4. Len(t) + 1 \in Nat /\ k + (Len(t) + 1) > Len(t)
  BY <1>1
<1>5. D[k].bytes \in Seq(Chars)
  BY <1>3, <1>4
<1>6. QED
  BY <1>5 DEF D

(* The string of t is pre and what is decoded from k on. *)
Reads(t, pre, k) ==
  /\ Decoded(t)[2].end = Decoded(t)[k].end
  /\ Decoded(t)[2].bytes = pre \o Decoded(t)[k].bytes

LEMMA ReadsNothing ==
  ASSUME NEW t \in Texts
  PROVE  Reads(t, << >>, 2)
<1>1. Decoded(t)[2].bytes \in Seq(Chars)
  BY DecodedIsText
<1>2. QED
  BY <1>1, ConcatEmptySeq DEF Reads

LEMMA ReadsElement ==
  ASSUME NEW t \in Texts, NEW pre \in Seq(Chars), NEW k \in 1..Len(t), Reads(t, pre, k), t[k] # Quote,
         NEW c \in Chars, NEW n \in Nat, Element(t, k) = <<c, n>>
  PROVE  Reads(t, pre \o <<c>>, n)
<1> DEFINE D == Decoded(t)
           rest == D[n].bytes
           one == <<c>>
<1>1. Len(t) \in Nat /\ k \in Nat /\ ~ (k > Len(t))
  BY TextShape
<1>2. rest \in Seq(Chars) /\ one \in Seq(Chars)
  BY DecodedIsText
<1>3. D[2].end = D[k].end /\ D[2].bytes = pre \o D[k].bytes
  BY DEF Reads
<1>4. D[k].end = D[n].end /\ D[k].bytes = one \o rest
  <2>1. Element(t, k)[1] = c /\ Element(t, k)[2] = n /\ Element(t, k) # << >>
    OBVIOUS
  <2>2. /\ D[k].end = D[Element(t, k)[2]].end
        /\ D[k].bytes = <<Element(t, k)[1]>> \o D[Element(t, k)[2]].bytes
    BY <1>1, <2>1, DecodedParts, Zenon
  <2> HIDE DEF D
  <2>3. QED
    BY <2>1, <2>2
<1>5. pre \o (one \o rest) = (pre \o one) \o rest
  <2> HIDE DEF one, rest
  <2>1. QED
    BY <1>2, Regroup
<1>6. QED
  BY <1>3, <1>4, <1>5 DEF Reads

(* Bytes that are neither quotes nor backslashes are their own elements. *)
LEMMA ReadsPlain ==
  ASSUME NEW t \in Texts, NEW pre \in Seq(Chars), NEW i \in 1..Len(t), NEW j \in i..(Len(t) + 1),
         Reads(t, pre, i), \A k \in i..(j - 1) : Byte(t, k) # Quote /\ Byte(t, k) # Backslash
  PROVE  Reads(t, pre \o SubSeq(t, i, j - 1), j)
<1>1. Len(t) \in Nat /\ DOMAIN t = 1..Len(t) /\ t \in Seq(Chars) /\ i \in Nat /\ j \in Nat
  BY TextShape
<1> DEFINE S == {m \in Nat : m \in i..j /\ ~ Reads(t, pre \o SubSeq(t, i, m - 1), m)}
<1>2. SUFFICES ASSUME S # {} PROVE FALSE
  <2>1. j \in i..j
    BY <1>1
  <2>2. QED
    BY <1>1, <2>1
<1>3. PICK m \in S : \A k \in S : m <= k
  BY <1>2, LeastOf
<1>4. CASE m = i
  <2>1. SubSeq(t, i, i - 1) = << >>
    BY <1>1, SubSeqEmpty
  <2>2. pre \o << >> = pre
    BY ConcatEmptySeq
  <2>3. QED
    BY <1>3, <1>4, <2>1, <2>2
<1>5. CASE m # i
  <2> DEFINE l == m - 1
  <2>1. l \in Nat /\ l \in i..(j - 1) /\ l \in i..Len(t) /\ l + 1 = m /\ l \notin S /\ l \in i..j
    BY <1>1, <1>3, <1>5
  <2> DEFINE s == SubSeq(t, i, l - 1)
  <2>2. Reads(t, pre \o s, l)
    BY <2>1
  <2>3. Byte(t, l) # Quote /\ Byte(t, l) # Backslash /\ l \in 1..Len(t)
    BY <1>1, <2>1
  <2>4. Byte(t, l) = t[l] /\ t[l] \in Chars
    BY <1>1, <2>3 DEF Byte
  <2>5. Element(t, l) = <<t[l], m>>
    BY <2>1, <2>3, <2>4 DEF Element
  <2>6. s \in Seq(Chars)
    <3>1. \A k \in i..(l - 1) : t[k] \in Chars
      BY <1>1, <2>3
    <3>2. QED
      BY <1>1, <2>1, <3>1, SubSeqProperties
  <2>7. pre \o s \in Seq(Chars)
    BY <2>6, ConcatProperties
  <2>8. Reads(t, (pre \o s) \o <<t[l]>>, m)
    <3> HIDE DEF l, s
    <3>1. m \in Nat
      BY <1>3
    <3>2. QED
      BY <2>2, <2>3, <2>4, <2>5, <2>7, <3>1, ReadsElement
  <2>9. SubSeq(t, i, l) = s \o <<t[l]>>
    BY <1>1, <2>1, SubSeqRecursiveSecond
  <2>10. (pre \o s) \o <<t[l]>> = pre \o (s \o <<t[l]>>)
    <3>1. <<t[l]>> \in Seq(Chars)
      BY <2>4
    <3> HIDE DEF l, s
    <3>2. QED
      BY <2>6, <3>1, Regroup, Zenon
  <2>11. QED
    BY <1>3, <2>8, <2>9, <2>10
<1>6. QED
  BY <1>4, <1>5

-----------------------------------------------------------------------------
(* What is kept of a string: l bytes of t behind the opening quote, and d  *)
(* of the buffer.                                                          *)
Kept(t, l, b, d) == SubSeq(t, 2, 1 + l) \o SubSeq(b, 1, d)

LEMMA Joined ==
  ASSUME NEW p \in Seq(Chars), NEW q \in Seq(Chars)
  PROVE  /\ p \o q \in Seq(Chars) /\ Len(p \o q) = Len(p) + Len(q)
         /\ \A k \in 1..(Len(p) + Len(q)) : (p \o q)[k] = IF k <= Len(p) THEN p[k] ELSE q[k - Len(p)]
BY ConcatProperties

LEMMA PartBytes ==
  ASSUME NEW t \in Seq(Chars), NEW i \in Nat \ {0}, NEW j \in Nat, j <= Len(t)
  PROVE  /\ SubSeq(t, i, j) \in Seq(Chars) /\ Len(SubSeq(t, i, j)) = IF i <= j THEN j - i + 1 ELSE 0
         /\ \A k \in 1..(j - i + 1) : SubSeq(t, i, j)[k] = t[i + k - 1]
<1>1. \A k \in i..j : t[k] \in Chars
  OBVIOUS
<1>2. QED
  BY <1>1, SubSeqProperties

LEMMA KeptBytes ==
  ASSUME NEW t \in Seq(Chars), NEW b \in Seq(Chars), NEW l \in Nat, NEW d \in 0..Len(b), l < Len(t)
  PROVE  /\ Kept(t, l, b, d) \in Seq(Chars) /\ Len(Kept(t, l, b, d)) = l + d
         /\ \A k \in 1..(l + d) : Kept(t, l, b, d)[k] = IF k <= l THEN t[k + 1] ELSE b[k - l]
<1> DEFINE p == SubSeq(t, 2, 1 + l)
           q == SubSeq(b, 1, d)
<1>1. p \in Seq(Chars) /\ Len(p) = l /\ \A k \in 1..l : p[k] = t[k + 1]
  <2>1. \A k \in 2..(1 + l) : t[k] \in Chars
    OBVIOUS
  <2>2. /\ p \in Seq(Chars) /\ Len(p) = IF 2 <= 1 + l THEN (1 + l) - 2 + 1 ELSE 0
        /\ \A k \in 1..((1 + l) - 2 + 1) : p[k] = t[2 + k - 1]
    BY <2>1, SubSeqProperties
  <2> HIDE DEF p
  <2>3. QED
    BY <2>2
<1>2. q \in Seq(Chars) /\ Len(q) = d /\ \A k \in 1..d : q[k] = b[k]
  <2>1. \A k \in 1..d : b[k] \in Chars
    OBVIOUS
  <2>2. /\ q \in Seq(Chars) /\ Len(q) = IF 1 <= d THEN d - 1 + 1 ELSE 0
        /\ \A k \in 1..(d - 1 + 1) : q[k] = b[1 + k - 1]
    BY <2>1, SubSeqProperties
  <2> HIDE DEF q
  <2>3. QED
    BY <2>2
<1> HIDE DEF p, q
<1>3. /\ p \o q \in Seq(Chars) /\ Len(p \o q) = l + d
      /\ \A k \in 1..(l + d) : (p \o q)[k] = IF k <= l THEN p[k] ELSE q[k - l]
  <2>1. /\ p \o q \in Seq(Chars) /\ Len(p \o q) = Len(p) + Len(q)
        /\ \A k \in 1..(Len(p) + Len(q)) : (p \o q)[k] = IF k <= Len(p) THEN p[k] ELSE q[k - Len(p)]
    <3>1. p \in Seq(Chars) /\ q \in Seq(Chars)
      BY <1>1, <1>2
    <3>2. QED
      BY <3>1, Joined, Zenon
  <2>2. QED
    BY <1>1, <1>2, <2>1, Zenon
<1> DEFINE r == p \o q
<1>4. r \in Seq(Chars) /\ Len(r) = l + d
  BY <1>3
<1>5. ASSUME NEW k \in 1..(l + d) PROVE r[k] = IF k <= l THEN t[k + 1] ELSE b[k - l]
  <2>1. r[k] = IF k <= l THEN p[k] ELSE q[k - l]
    BY <1>3
  <2> HIDE DEF r
  <2>2. QED
    BY <1>1, <1>2, <2>1
<1>6. Kept(t, l, b, d) = r
  BY DEF Kept, p, q
<1> HIDE DEF r
<1>7. QED
  BY <1>4, <1>5, <1>6

(* As long as nothing is decoded, the string grows in its place, ... *)
LEMMA KeepInPlace ==
  ASSUME NEW t \in Seq(Chars), NEW b \in Seq(Chars), NEW l \in Nat, NEW m \in Nat, l <= m, m + 2 <= Len(t)
  PROVE  Kept(t, m, b, 0) = Kept(t, l, b, 0) \o SubSeq(t, l + 2, m + 1)
<1>1. Len(t) \in Nat /\ 1 \in 1..(Len(t) + 1) /\ 2 \in 1..(Len(t) + 1)
      /\ 1 + l \in (2 - 1)..Len(t) /\ m + 1 \in (1 + l)..Len(t)
  OBVIOUS
<1>2. SubSeq(t, 2, 1 + l) \o SubSeq(t, (1 + l) + 1, m + 1) = SubSeq(t, 2, m + 1)
  BY <1>1, ConcatAdjacentSubSeq
<1>3. (1 + l) + 1 = l + 2 /\ 1 + m = m + 1
  BY <1>1
<1>4. SubSeq(b, 1, 0) = << >>
  BY SubSeqEmpty
<1>5. SubSeq(t, 2, 1 + l) \in Seq(Chars) /\ SubSeq(t, 2, m + 1) \in Seq(Chars)
  <2>1. (\A k \in 2..(1 + l) : t[k] \in Chars) /\ (\A k \in 2..(m + 1) : t[k] \in Chars)
    OBVIOUS
  <2>2. QED
    BY <1>1, <2>1, SubSeqProperties
<1>6. SubSeq(t, 2, 1 + l) \o << >> = SubSeq(t, 2, 1 + l) /\ SubSeq(t, 2, m + 1) \o << >> = SubSeq(t, 2, m + 1)
  BY <1>5, ConcatEmptySeq
<1>7. QED
  BY <1>2, <1>3, <1>4, <1>6 DEF Kept

(* ... and then in the buffer, by what is copied there ... *)
Copied(t, l, b, d, c, m, i, j) ==
  /\ t \in Seq(Chars) /\ b \in Seq(Chars) /\ c \in Seq(Chars)
  /\ l \in Nat /\ d \in Nat /\ i \in Nat \ {0} /\ j \in Nat /\ m \in Nat
  /\ l < Len(t) /\ d <= Len(b) /\ i <= j + 1 /\ j <= Len(t) /\ m = d + (j - i) + 1 /\ m <= Len(c)
  /\ \A k \in 1..d : c[k] = b[k]
  /\ \A k \in 1..(m - d) : c[d + k] = t[i + k - 1]

KeptToo(t, l, b, d, c, m, i, j) == Kept(t, l, c, m) = Kept(t, l, b, d) \o SubSeq(t, i, j)

LEMMA KeepCopy ==
  ASSUME NEW t, NEW l, NEW b, NEW d, NEW c, NEW m, NEW i, NEW j, Copied(t, l, b, d, c, m, i, j)
  PROVE  KeptToo(t, l, b, d, c, m, i, j)
<1> USE DEF Copied, KeptToo
<1>0. PICK n \in Nat : n = m - d /\ n = (j - i) + 1 /\ m = d + n
  OBVIOUS
<1> DEFINE p == Kept(t, l, b, d)
           q == SubSeq(t, i, j)
           r == Kept(t, l, c, d + n)
<1>1. n \in Nat /\ d \in 0..Len(b) /\ d + n \in 0..Len(c)
  BY <1>0
<1>2. /\ p \in Seq(Chars) /\ Len(p) = l + d
      /\ \A k \in 1..(l + d) : p[k] = IF k <= l THEN t[k + 1] ELSE b[k - l]
  BY <1>1, KeptBytes
<1>3. /\ r \in Seq(Chars) /\ Len(r) = l + (d + n)
      /\ \A k \in 1..(l + (d + n)) : r[k] = IF k <= l THEN t[k + 1] ELSE c[k - l]
  BY <1>1, KeptBytes, SMTT(30)
<1>4. q \in Seq(Chars) /\ Len(q) = n /\ \A k \in 1..n : q[k] = t[i + k - 1]
  <2>1. /\ q \in Seq(Chars) /\ Len(q) = IF i <= j THEN j - i + 1 ELSE 0
        /\ \A k \in 1..(j - i + 1) : q[k] = t[i + k - 1]
    BY PartBytes
  <2> HIDE DEF q
  <2>2. j - i + 1 = n /\ (IF i <= j THEN j - i + 1 ELSE 0) = n
    BY <1>0
  <2>3. QED
    BY <2>1, <2>2, Zenon
<1> HIDE DEF p, q, r
<1>5. /\ p \o q \in Seq(Chars) /\ Len(p \o q) = (l + d) + n
      /\ \A k \in 1..((l + d) + n) : (p \o q)[k] = IF k <= l + d THEN p[k] ELSE q[k - (l + d)]
  <2>1. /\ p \o q \in Seq(Chars) /\ Len(p \o q) = Len(p) + Len(q)
        /\ \A k \in 1..(Len(p) + Len(q)) : (p \o q)[k] = IF k <= Len(p) THEN p[k] ELSE q[k - Len(p)]
    <3>1. p \in Seq(Chars) /\ q \in Seq(Chars)
      BY <1>2, <1>4
    <3>2. QED
      BY <3>1, Joined, Zenon
  <2>2. QED
    BY <1>2, <1>4, <2>1, Zenon
<1>6. ASSUME NEW k \in 1..((l + d) + n)
      PROVE  r[k] = IF k <= l + d THEN p[k] ELSE q[k - (l + d)]
  <2>1. k \in 1..(l + (d + n)) /\ r[k] = IF k <= l THEN t[k + 1] ELSE c[k - l]
    BY <1>1, <1>3
  <2>2. CASE k <= l + d
    <3>1. k \in 1..(l + d)
      BY <2>2
    <3>2. p[k] = IF k <= l THEN t[k + 1] ELSE b[k - l]
      BY <1>2, <3>1, Zenon
    <3>3. CASE k <= l
      <4>1. r[k] = p[k]
        BY <2>1, <3>2, <3>3, Zenon
      <4>2. QED
        BY <2>2, <4>1, Zenon
    <3>4. CASE ~ (k <= l)
      <4>1. k - l \in 1..d
        BY <3>1, <3>4
      <4>2. c[k - l] = b[k - l]
        BY <4>1
      <4>3. r[k] = p[k]
        BY <2>1, <3>2, <3>4, <4>2, Zenon
      <4>4. QED
        BY <2>2, <4>3, Zenon
    <3>5. QED
      BY <3>3, <3>4
  <2>3. CASE k > l + d
    <3> DEFINE x == k - (l + d)
    <3>1. x \in 1..n /\ k - l = d + x
      BY <1>1, <2>3
    <3>2. c[d + x] = t[i + x - 1] /\ q[x] = t[i + x - 1]
      BY <1>0, <1>4, <3>1
    <3>3. r[k] = c[k - l]
      <4>1. ~ (k <= l)
        BY <2>3
      <4>2. QED
        BY <2>1, <4>1
    <3>4. k - (l + d) = x /\ ~ (k <= l + d)
      BY <2>3
    <3> HIDE DEF x
    <3>5. QED
      BY <3>1, <3>2, <3>3, <3>4, Zenon
  <2>4. QED
    BY <2>2, <2>3
<1> DEFINE s == p \o q
<1>7. s \in Seq(Chars) /\ Len(s) = Len(r) /\ \A k \in 1..Len(r) : r[k] = s[k]
  <2>1. Len(r) = (l + d) + n
    BY <1>1, <1>3
  <2>2. QED
    BY <1>5, <1>6, <2>1
<1> HIDE DEF s
<1>8. r = s
  BY <1>3, <1>7, SeqEqual
<1>9. QED
  BY <1>0, <1>8 DEF p, q, r, s

(* ... and by the element that an escape stands for.                       *)
Unescaped(t, l, b, d, c, m, e) ==
  /\ t \in Seq(Chars) /\ b \in Seq(Chars) /\ c \in Seq(Chars) /\ e \in Chars
  /\ l \in Nat /\ d \in Nat /\ m \in Nat
  /\ l < Len(t) /\ d <= Len(b) /\ m = d + 1 /\ m <= Len(c)
  /\ (\A k \in 1..d : c[k] = b[k]) /\ c[m] = e

KeptElement(t, l, b, d, c, m, e) == Kept(t, l, c, m) = Kept(t, l, b, d) \o <<e>>

LEMMA KeepElement ==
  ASSUME NEW t, NEW l, NEW b, NEW d, NEW c, NEW m, NEW e, Unescaped(t, l, b, d, c, m, e)
  PROVE  KeptElement(t, l, b, d, c, m, e)
<1> USE DEF Unescaped, KeptElement
<1> DEFINE p == Kept(t, l, b, d)
           q == <<e>>
           r == Kept(t, l, c, d + 1)
<1>1. d \in 0..Len(b) /\ d + 1 \in 0..Len(c)
  OBVIOUS
<1>2. /\ p \in Seq(Chars) /\ Len(p) = l + d
      /\ \A k \in 1..(l + d) : p[k] = IF k <= l THEN t[k + 1] ELSE b[k - l]
  BY <1>1, KeptBytes, SMTT(30)
<1>3. /\ r \in Seq(Chars) /\ Len(r) = l + (d + 1)
      /\ \A k \in 1..(l + (d + 1)) : r[k] = IF k <= l THEN t[k + 1] ELSE c[k - l]
  BY <1>1, KeptBytes, SMTT(30)
<1>4. q \in Seq(Chars) /\ Len(q) = 1 /\ q[1] = e
  OBVIOUS
<1> HIDE DEF p, q, r
<1>5. /\ p \o q \in Seq(Chars) /\ Len(p \o q) = (l + d) + 1
      /\ \A k \in 1..((l + d) + 1) : (p \o q)[k] = IF k <= l + d THEN p[k] ELSE q[k - (l + d)]
  <2>1. /\ p \o q \in Seq(Chars) /\ Len(p \o q) = Len(p) + Len(q)
        /\ \A k \in 1..(Len(p) + Len(q)) : (p \o q)[k] = IF k <= Len(p) THEN p[k] ELSE q[k - Len(p)]
    <3>1. p \in Seq(Chars) /\ q \in Seq(Chars)
      BY <1>2, <1>4
    <3>2. QED
      BY <3>1, Joined, Zenon
  <2>2. QED
    BY <1>2, <1>4, <2>1, Zenon
<1>6. ASSUME NEW k \in 1..((l + d) + 1)
      PROVE  r[k] = IF k <= l + d THEN p[k] ELSE q[k - (l + d)]
  <2>1. k \in 1..(l + (d + 1)) /\ r[k] = IF k <= l THEN t[k + 1] ELSE c[k - l]
    <3>1. k \in 1..(l + (d + 1))
      OBVIOUS
    <3>2. QED
      BY <1>3, <3>1, Zenon
  <2>2. CASE k <= l + d
    <3>1. k \in 1..(l + d)
      BY <2>2
    <3>2. p[k] = IF k <= l THEN t[k + 1] ELSE b[k - l]
      BY <1>2, <3>1, Zenon
    <3>3. CASE k <= l
      <4>1. r[k] = p[k]
        BY <2>1, <3>2, <3>3, Zenon
      <4>2. QED
        BY <2>2, <4>1, Zenon
    <3>4. CASE ~ (k <= l)
      <4>1. k - l \in 1..d
        BY <3>1, <3>4
      <4>2. c[k - l] = b[k - l]
        BY <4>1
      <4>3. r[k] = p[k]
        BY <2>1, <3>2, <3>4, <4>2, Zenon
      <4>4. QED
        BY <2>2, <4>3, Zenon
    <3>5. QED
      BY <3>3, <3>4
  <2>3. CASE k > l + d
    <3>1. k - (l + d) = 1 /\ k - l = d + 1 /\ ~ (k <= l)
      BY <2>3
    <3>2. ~ (k <= l + d) /\ q[k - (l + d)] = e /\ c[k - l] = e
      BY <1>4, <2>3, <3>1
    <3>3. QED
      BY <2>1, <3>1, <3>2, Zenon
  <2>4. QED
    BY <2>2, <2>3
<1> DEFINE s == p \o q
<1>7. s \in Seq(Chars) /\ Len(s) = Len(r) /\ \A k \in 1..Len(r) : r[k] = s[k]
  <2>1. Len(r) = (l + d) + 1
    BY <1>3
  <2>2. QED
    BY <1>5, <1>6, <2>1
<1> HIDE DEF s
<1>8. r = s
  BY <1>3, <1>7, SeqEqual
<1>9. QED
  BY <1>8 DEF p, q, r, s

-----------------------------------------------------------------------------
(* A string while it is decoded.                                           *)

DecodeInv ==
  /\ pc = "start" => input = text
  /\ pc \in StringStates => input = text /\ Reads(text, Kept(text, len, buffer, dst), idx)
  /\ pc = "plain" => dst = 0 /\ len = idx - 2
  /\ StringDecoded

(* The sequences that are at work. *)
LEMMA DecodingBytes ==
  ASSUME ScalarInv, pc \in StringStates
  PROVE  /\ text \in Seq(Chars) /\ buffer \in Seq(Chars) /\ Len(buffer) = Len(text) + Window
         /\ dst \in 0..Len(buffer) /\ len < Len(text) /\ dst <= Len(text)
         /\ Kept(text, len, buffer, dst) \in Seq(Chars)
<1>1. /\ text \in Texts /\ Len(text) \in Nat /\ idx \in 2..Len(text) /\ len \in Nat /\ dst \in Nat
      /\ len + dst <= idx - 2
      /\ buffer \in [1..(Len(text) + Window) -> Chars] /\ Window \in Nat \ {0}
  BY Decoding
<1>2. text \in Seq(Chars)
  BY <1>1, TextShape
<1>3. buffer \in Seq(Chars) /\ Len(buffer) = Len(text) + Window
  <2>1. Len(text) + Window \in Nat
    BY <1>1
  <2> DEFINE n == Len(text) + Window
  <2>2. buffer \in [1..n -> Chars] /\ n \in Nat
    BY <1>1, <2>1
  <2> HIDE DEF n
  <2>3. buffer \in Seq(Chars) /\ Len(buffer) = n
    BY <2>2
  <2>4. QED
    BY <2>3 DEF n
<1>4. dst \in 0..Len(buffer) /\ len < Len(text) /\ dst <= Len(text)
  BY <1>1, <1>3
<1>5. Kept(text, len, buffer, dst) \in Seq(Chars)
  BY <1>1, <1>2, <1>3, <1>4, KeptBytes
<1>6. QED
  BY <1>2, <1>3, <1>4, <1>5

(* The string ends at a quote that is an element. *)
LEMMA EndsAtQuote ==
  ASSUME NEW t \in Texts, NEW pre \in Seq(Chars), NEW q \in 1..Len(t), t[q] = Quote, Reads(t, pre, q)
  PROVE  Decoded(t)[2].end = q /\ Decoded(t)[2].bytes = pre
<1>1. Len(t) \in Nat /\ DOMAIN t = 1..Len(t)
  BY TextShape
<1>2. Byte(t, q) = Quote /\ Quote # Backslash
  BY <1>1 DEF Byte, Quote, Backslash
<1>3. Element(t, q) # << >>
  BY <1>2 DEF Element
<1>4. q \in Nat /\ ~ (q > Len(t))
  BY <1>1
<1>5. Decoded(t)[q].bytes = << >> /\ Decoded(t)[q].end = q
  BY <1>3, <1>4, DecodedParts
<1>6. pre \o << >> = pre
  BY ConcatEmptySeq
<1>7. QED
  BY <1>5, <1>6 DEF Reads

LEMMA Answered ==
  ASSUME text \in Texts, text' = text, NEW pre \in Seq(Chars), NEW q \in 1..Len(text), text[q] = Quote,
         Reads(text, pre, q), result' = String(pre),
         \A k \in DOMAIN input' : input'[k] # text[k] => k \in 2..(q - 1)
  PROVE  StringDecoded'
<1>1. Decoded(text)[2].end = q /\ Decoded(text)[2].bytes = pre
  BY EndsAtQuote
<1>2. q # 0
  BY TextShape
<1>3. Decoded(text')[2] = Decoded(text)[2]
  OBVIOUS
<1>4. QED
  BY <1>1, <1>2, <1>3 DEF StringDecoded

(* Nothing of this is about what is not quoted. *)
LEMMA Unquoted ==
  ASSUME text' = text, ~Quoted, pc' \notin StringStates \cup {"start"}
  PROVE  DecodeInv'
<1>1. ~Quoted'
  BY DEF Quoted
<1>2. pc' # "plain" /\ pc' # "start"
  BY DEF StringStates
<1>3. StringDecoded'
  BY <1>1 DEF StringDecoded
<1>4. QED
  BY <1>2, <1>3 DEF DecodeInv

LEMMA NumberDecodes == ScalarInv /\ ReadNumber => DecodeInv'
<1> SUFFICES ASSUME ScalarInv, ReadNumber PROVE DecodeInv'
  OBVIOUS
<1> DEFINE Away == text' = text /\ pc' \in NumberStates \cup {"done"}
<1>1. pc \in NumberStates
  BY DEF ReadNumber, IntegerDigit, IntegerEnds, Point, Run, FractionDigit, FractionEnds, Suffix,
         ExponentDigit, ExponentEnds, NumberEnds, LargeDigit, LargeEnds, NumberStates
<1>2. ~Quoted
  BY <1>1, Reading
<1>3. IntegerDigit \/ IntegerEnds => Away
  BY DEF IntegerDigit, IntegerEnds, Goto, NumberStates
<1>4. Point \/ Run => Away
  BY DEF Point, Run, Goto, StaysString, Finished, NumberStates
<1>5. FractionDigit \/ FractionEnds => Away
  BY DEF FractionDigit, FractionEnds, Goto, NumberStates
<1>6. Suffix => Away
  BY DEF Suffix, Goto, StaysString, Finished, NumberStates
<1>7. ExponentDigit \/ ExponentEnds => Away
  BY DEF ExponentDigit, ExponentEnds, Goto, StaysString, Finished, NumberStates
<1>8. NumberEnds => Away
  BY DEF NumberEnds, Goto, StaysString, Finished, NumberStates
<1>9. LargeDigit \/ LargeEnds => Away
  BY DEF LargeDigit, LargeEnds, StaysString, Finished, NumberStates
<1>10. Away
  BY <1>3, <1>4, <1>5, <1>6, <1>7, <1>8, <1>9 DEF ReadNumber
<1>11. pc' \notin StringStates \cup {"start"}
  BY <1>10 DEF NumberStates, StringStates
<1>12. QED
  BY <1>2, <1>10, <1>11, Unquoted

LEMMA StartDecodes == ScalarInv /\ DecodeInv /\ Start => DecodeInv'
<1> SUFFICES ASSUME ScalarInv, DecodeInv, Start PROVE DecodeInv'
  OBVIOUS
<1>1. text \in Texts /\ pc = "start" /\ idx = 1 /\ len = 0 /\ dst = 0
  BY DEF ScalarInv, Typed, Placed, Start
<1>2. CASE ~Quoted
  <2>1. At(1) # Quote
    BY <1>1, <1>2, FirstBytes
  <2>2. text' = text /\ pc' \in {"point", "integer", "done"}
    BY <2>1 DEF Start, Goto, StaysString, Finished
  <2>3. pc' \notin StringStates \cup {"start"}
    BY <2>2 DEF StringStates
  <2>4. QED
    BY <1>2, <2>2, <2>3, Unquoted
<1>3. CASE Quoted
  <2>1. ~Negative /\ ~IsDigit(1) /\ At(1) = Quote
    BY <1>1, <1>3, FirstBytes
  <2>2. Goto("plain") /\ idx' = 2 /\ UNCHANGED numeric
    BY <2>1 DEF Start
  <2>3. UNCHANGED <<text, input, buffer, len, dst>> /\ pc' = "plain" /\ idx' = 2
    BY <2>2 DEF Goto, decoded
  <2>4. Kept(text', len', buffer', dst') = << >>
    <3>1. SubSeq(text, 2, 1 + 0) = << >> /\ SubSeq(buffer, 1, 0) = << >>
      BY SubSeqEmpty
    <3>2. << >> \o << >> = << >>
      BY ConcatEmptySeq
    <3>3. QED
      BY <1>1, <2>3, <3>1, <3>2 DEF Kept
  <2>5. Reads(text', Kept(text', len', buffer', dst'), idx')
    BY <1>1, <2>3, <2>4, ReadsNothing
  <2>6. input' = text' /\ dst' = 0 /\ len' = idx' - 2
    BY <1>1, <2>3 DEF DecodeInv
  <2>7. pc' # "start" /\ pc' # "done"
    BY <2>3
  <2>8. StringDecoded'
    BY <2>7 DEF StringDecoded
  <2>9. QED
    BY <2>5, <2>6, <2>7, <2>8 DEF DecodeInv
<1>4. QED
  BY <1>2, <1>3

(* While a string is read, what was read is what is kept. *)
LEMMA Going ==
  ASSUME pc' \in StringStates, input' = text', Reads(text', Kept(text', len', buffer', dst'), idx'),
         pc' = "plain" => dst' = 0 /\ len' = idx' - 2
  PROVE  DecodeInv'
<1>1. pc' # "start" /\ pc' # "done"
  BY DEF StringStates
<1>2. StringDecoded'
  BY <1>1 DEF StringDecoded
<1>3. QED
  BY <1>1, <1>2 DEF DecodeInv

(* A string that is answered or refused. *)
LEMMA Stopped ==
  ASSUME pc' = "done", StringDecoded'
  PROVE  DecodeInv'
BY DEF DecodeInv, StringStates

(* The sooner of a quote and a backslash is in the text. *)
LEMMA SoonerInText ==
  ASSUME ScalarInv, pc \in StringStates,
         NEW c, NEW d, c \in {Quote, Backslash}, d \in {Quote, Backslash}, c # d, Sooner(c, d)
  PROVE  /\ First(Seen(c)) \in idx..Len(text) /\ text[First(Seen(c))] = c
         /\ First(Seen(c)) \in idx..(idx + Window - 1)
         /\ \A k \in idx..(First(Seen(c)) - 1) : At(k) # Quote /\ At(k) # Backslash
<1> DEFINE f == First(Seen(c))
<1>1. text \in Texts /\ Len(text) \in Nat /\ idx \in 2..Len(text)
  BY Decoding
<1>2. /\ f \in Nat /\ f \in idx..(idx + Window - 1) /\ At(f) = c
      /\ \A k \in idx..(f - 1) : At(k) # c /\ At(k) # d
  BY <1>1, SoonerIsFirst
<1>3. c # "BLANK"
  BY DEF Quote, Backslash
<1> HIDE DEF f
<1>4. f \in 1..Len(text) /\ text[f] = c
  BY <1>1, <1>2, <1>3, ByteInText
<1>5. f \in idx..Len(text)
  BY <1>1, <1>2, <1>4
<1>6. \A k \in idx..(f - 1) : At(k) # Quote /\ At(k) # Backslash
  BY <1>2
<1>7. QED
  BY <1>2, <1>4, <1>5, <1>6 DEF f

LEMMA PlainDecodes == ScalarInv /\ DecodeInv /\ Plain => DecodeInv'
<1> SUFFICES ASSUME ScalarInv, DecodeInv, Plain PROVE DecodeInv'
  OBVIOUS
<1> DEFINE K == Kept(text, len, buffer, 0)
<1>1. pc \in StringStates /\ pc = "plain"
  BY DEF Plain, StringStates
<1>2. /\ text \in Texts /\ Len(text) \in Nat /\ idx \in 2..Len(text) /\ len \in Nat /\ Window \in Nat \ {0}
      /\ DOMAIN text = 1..Len(text)
  BY <1>1, Decoding
<1>3. text \in Seq(Chars) /\ buffer \in Seq(Chars)
  BY <1>1, DecodingBytes
<1>4. input = text /\ dst = 0 /\ len = idx - 2 /\ Reads(text, K, idx)
  BY <1>1 DEF DecodeInv
<1>5. K \in Seq(Chars)
  BY <1>1, <1>4, DecodingBytes
<1> HIDE DEF K
<1>6. len + 2 = idx
  BY <1>2, <1>4
(* The string grows to j. *)
<1>7. ASSUME NEW j \in idx..Len(text), \A k \in idx..(j - 1) : At(k) # Quote /\ At(k) # Backslash
      PROVE  /\ Kept(text, j - 2, buffer, 0) \in Seq(Chars)
             /\ Reads(text, Kept(text, j - 2, buffer, 0), j)
  <2>1. j \in Nat /\ idx \in Nat /\ idx = len + 2 /\ idx <= j /\ j <= Len(text)
    BY <1>2, <1>6
  <2>2. Kept(text, j - 2, buffer, 0) = K \o SubSeq(text, idx, j - 1)
    <3>1. PICK m \in Nat : m = j - 2
      <4>1. j - 2 \in Nat
        BY <1>2, <2>1
      <4>2. QED
        BY <4>1
    <3>2. len <= m /\ m + 2 <= Len(text)
      BY <1>2, <2>1, <3>1
    <3>3. Kept(text, m, buffer, 0) = Kept(text, len, buffer, 0) \o SubSeq(text, len + 2, m + 1)
      BY <1>2, <1>3, <3>2, KeepInPlace, ZenonT(30)
    <3>4. len + 2 = idx /\ m + 1 = j - 1
      BY <2>1, <3>1
    <3>5. QED
      BY <3>1, <3>3, <3>4 DEF K
  <2>3. \A k \in idx..(j - 1) : Byte(text, k) # Quote /\ Byte(text, k) # Backslash
    BY <1>7 DEF At
  <2>4. idx \in 1..Len(text) /\ j \in idx..(Len(text) + 1)
    BY <1>2, <2>1
  <2>5. Reads(text, K \o SubSeq(text, idx, j - 1), j)
    BY <1>2, <1>4, <1>5, <2>3, <2>4, ReadsPlain
  <2>6. SubSeq(text, idx, j - 1) \in Seq(Chars)
    <3>1. \A k \in idx..(j - 1) : text[k] \in Chars
      BY <1>2, <1>3, <2>1
    <3>2. idx \in Int /\ j - 1 \in Int
      BY <1>2, <2>1
    <3>3. QED
      BY <3>1, <3>2, SubSeqProperties
  <2>7. K \o SubSeq(text, idx, j - 1) \in Seq(Chars)
    BY <1>5, <2>6, ConcatProperties
  <2>8. QED
    BY <2>2, <2>5, <2>7
<1>8. ASSUME NEW c, NEW d, c \in {Quote, Backslash}, d \in {Quote, Backslash}, c # d, Sooner(c, d)
      PROVE  /\ First(Seen(c)) \in idx..Len(text) /\ text[First(Seen(c))] = c
             /\ \A k \in idx..(First(Seen(c)) - 1) : At(k) # Quote /\ At(k) # Backslash
  BY <1>1, <1>8, SoonerInText
<1>9. Quote # Backslash
  BY DEF Quote, Backslash
<1>10. CASE /\ Sooner(Quote, Backslash) /\ len' = len + First(Seen(Quote)) - idx
            /\ result' = String(SubSeq(input, 2, 1 + len')) /\ pc' = "done"
            /\ UNCHANGED <<text, idx, numeric, input, buffer, dst>>
  <2> DEFINE q == First(Seen(Quote))
             pre == Kept(text, q - 2, buffer, 0)
  <2>1. q \in idx..Len(text) /\ text[q] = Quote /\ \A k \in idx..(q - 1) : At(k) # Quote /\ At(k) # Backslash
    BY <1>8, <1>9, <1>10
  <2>2. len' = len + q - idx
    BY <1>10
  <2> HIDE DEF q
  <2>3. pre \in Seq(Chars) /\ Reads(text, pre, q)
    BY <1>7, <2>1
  <2>4. q \in 1..Len(text) /\ 1 + len' = 1 + (q - 2)
    BY <1>2, <1>6, <2>1, <2>2
  <2>5. SubSeq(text, 2, 1 + len') = pre
    <3> DEFINE s == SubSeq(text, 2, 1 + (q - 2))
    <3>1. SubSeq(buffer, 1, 0) = << >>
      BY SubSeqEmpty
    <3>2. s \in Seq(Chars)
      <4>1. \A k \in 2..(1 + (q - 2)) : text[k] \in Chars
        BY <1>2, <1>3, <2>1
      <4>2. 1 + (q - 2) \in Int
        BY <2>4
      <4>3. QED
        BY <4>1, <4>2, SubSeqProperties
    <3> HIDE DEF s
    <3>3. s \o << >> = s
      BY <3>2, ConcatEmptySeq
    <3>4. QED
      BY <2>4, <3>1, <3>3 DEF s, Kept
  <2>6. result' = String(pre) /\ input' = text /\ text' = text
    BY <1>4, <1>10, <2>5
  <2> HIDE DEF pre
  <2>7. StringDecoded'
    BY <1>2, <2>1, <2>3, <2>4, <2>6, Answered
  <2>8. QED
    BY <1>10, <2>7, Stopped
<1>11. CASE /\ Sooner(Backslash, Quote) /\ len' = len + First(Seen(Backslash)) - idx
            /\ idx' = First(Seen(Backslash)) /\ pc' = "copy"
            /\ UNCHANGED <<text, numeric, input, buffer, dst, result>>
  <2>1. idx' \in idx..Len(text) /\ \A k \in idx..(idx' - 1) : At(k) # Quote /\ At(k) # Backslash
    BY <1>8, <1>9, <1>11
  <2>2. Reads(text, Kept(text, idx' - 2, buffer, 0), idx')
    BY <1>7, <2>1
  <2>3. len' = idx' - 2
    <3>1. len' = len + idx' - idx /\ idx' \in Nat
      BY <1>2, <1>11, <2>1
    <3>2. QED
      BY <1>2, <1>6, <3>1
  <2>4. text' = text /\ input' = text' /\ buffer' = buffer /\ dst' = 0 /\ pc' \in StringStates /\ pc' # "plain"
    BY <1>4, <1>11 DEF StringStates
  <2>5. QED
    BY <2>2, <2>3, <2>4, Going
<1>12. CASE /\ Seen(Quote) \cup Seen(Backslash) = {}
            /\ len' = len + Window /\ idx' = idx + Window
            /\ UNCHANGED <<text, pc, numeric, input, buffer, dst, result>>
  <2>1. \A k \in idx..(idx' - 1) : At(k) # Quote /\ At(k) # Backslash
    <3>1. \A k \in idx..(idx + Window - 1) : At(k) # Quote /\ At(k) # Backslash
      BY <1>12, NeitherInWindow
    <3>2. idx' = idx + Window /\ idx' \in Nat /\ idx \in Nat /\ Window \in Nat
      BY <1>2, <1>12
    <3>3. SUFFICES ASSUME NEW k \in idx..(idx' - 1) PROVE At(k) # Quote /\ At(k) # Backslash
      OBVIOUS
    <3>4. k \in idx..(idx + Window - 1)
      BY <3>2
    <3>5. QED
      BY <3>1, <3>4
  <2>2. idx' \in 2..Len(text)
    <3>1. ScalarInv'
      BY PlainStep
    <3>2. text' = text /\ pc' \in StringStates
      BY <1>1, <1>12
    <3>3. Ahead'
      BY <3>1, <3>2 DEF ScalarInv, Placed
    <3>4. QED
      BY <3>2, <3>3 DEF Ahead
  <2>3. idx' \in idx..Len(text)
    BY <1>2, <1>12, <2>2
  <2>4. Reads(text, Kept(text, idx' - 2, buffer, 0), idx')
    BY <1>7, <2>1, <2>3
  <2>5. len' = idx' - 2
    BY <1>2, <1>6, <1>12
  <2>6. text' = text /\ input' = text' /\ buffer' = buffer /\ dst' = 0 /\ pc' \in StringStates
    BY <1>1, <1>4, <1>12
  <2>7. QED
    BY <2>4, <2>5, <2>6, Going
<1>13. QED
  BY <1>10, <1>11, <1>12 DEF Plain

(* What is copied up to j is kept behind what was. *)
LEMMA CopyGrows ==
  ASSUME ScalarInv, DecodeInv, pc = "copy", NEW j \in idx..Len(text), j <= idx + Window,
         \A k \in idx..(j - 1) : At(k) # Quote /\ At(k) # Backslash,
         NEW d \in Nat, d = dst + (j - idx)
  PROVE  /\ Stored \in Seq(Chars) /\ Len(Stored) = Len(text) + Window /\ d <= Len(text)
         /\ Kept(text, len, Stored, d) \in Seq(Chars)
         /\ Reads(text, Kept(text, len, Stored, d), j)
<1> DEFINE K == Kept(text, len, buffer, dst)
<1>1. pc \in StringStates
  BY DEF StringStates
<1>2. /\ text \in Texts /\ Len(text) \in Nat /\ DOMAIN text = 1..Len(text)
      /\ idx \in 2..Len(text) /\ len \in Nat /\ dst \in Nat /\ len + dst <= idx - 2
      /\ buffer \in [1..(Len(text) + Window) -> Chars] /\ Window \in Nat \ {0}
  BY <1>1, Decoding
<1>3. /\ text \in Seq(Chars) /\ buffer \in Seq(Chars) /\ Len(buffer) = Len(text) + Window
      /\ len < Len(text) /\ K \in Seq(Chars)
  BY <1>1, DecodingBytes
<1>4. Reads(text, K, idx)
  BY <1>1 DEF DecodeInv
<1> HIDE DEF K
<1>5. d <= Len(text)
  BY <1>2
<1>6. Stored \in Seq(Chars) /\ Len(Stored) = Len(text) + Window
  <2> DEFINE n == Len(text) + Window
             s == Stored
  <2>1. n \in Nat
    BY <1>2
  <2>2. s \in [1..n -> Chars]
    BY <1>2, StoredFits
  <2> HIDE DEF n, s
  <2>3. s \in Seq(Chars) /\ Len(s) = n
    BY <2>1, <2>2
  <2>4. QED
    BY <2>3 DEF n, s
<1>7. DOMAIN buffer = 1..(Len(text) + Window)
  BY <1>2
<1>8. \A k \in 1..dst : Stored[k] = buffer[k]
  <2>1. SUFFICES ASSUME NEW k \in 1..dst PROVE Stored[k] = buffer[k]
    OBVIOUS
  <2>2. k \in DOMAIN buffer \cup (dst + 1)..(dst + Window) /\ k \notin (dst + 1)..(dst + Window)
    BY <1>2, <1>7
  <2>3. QED
    BY <2>2 DEF Stored
<1>9. \A k \in 1..(d - dst) : Stored[dst + k] = text[idx + k - 1]
  <2>1. SUFFICES ASSUME NEW k \in 1..(d - dst) PROVE Stored[dst + k] = text[idx + k - 1]
    OBVIOUS
  <2>2. dst + k \in (dst + 1)..(dst + Window) /\ idx + (dst + k) - dst - 1 = idx + k - 1
    BY <1>2
  <2>3. Stored[dst + k] = At(idx + (dst + k) - dst - 1)
    BY <2>2 DEF Stored
  <2>4. idx + k - 1 \in 1..Len(text)
    BY <1>2
  <2>5. At(idx + k - 1) = text[idx + k - 1]
    BY <1>2, <2>4 DEF At, Byte
  <2>6. QED
    BY <2>2, <2>3, <2>5
<1>10. PICK h \in Nat : h = j - 1
  BY <1>2
<1>11. Kept(text, len, Stored, d) = K \o SubSeq(text, idx, h)
  <2> DEFINE s == Stored
  <2>1. s \in Seq(Chars) /\ \A k \in 1..dst : s[k] = buffer[k]
    BY <1>6, <1>8
  <2>2. \A k \in 1..(d - dst) : s[dst + k] = text[idx + k - 1]
    BY <1>9
  <2>3. d <= Len(s) /\ dst <= Len(buffer)
    BY <1>2, <1>3, <1>5, <1>6
  <2> HIDE DEF s
  <2>4. idx \in Nat \ {0} /\ idx <= h + 1 /\ h <= Len(text) /\ d = dst + (h - idx) + 1
    BY <1>2, <1>10
  <2>5. Copied(text, len, buffer, dst, s, d, idx, h)
    <3>1. /\ text \in Seq(Chars) /\ buffer \in Seq(Chars) /\ s \in Seq(Chars)
          /\ len \in Nat /\ dst \in Nat /\ idx \in Nat \ {0} /\ h \in Nat /\ d \in Nat
      BY <1>2, <1>3, <2>1, <2>4
    <3>2. len < Len(text)
      BY <1>3
    <3>3. QED
      BY <2>1, <2>2, <2>3, <2>4, <3>1, <3>2, Zenon DEF Copied
  <2>6. KeptToo(text, len, buffer, dst, s, d, idx, h)
    BY <2>5, KeepCopy
  <2>7. QED
    BY <2>6 DEF KeptToo, s, K
<1>12. Reads(text, K \o SubSeq(text, idx, j - 1), j)
  <2>1. \A k \in idx..(j - 1) : Byte(text, k) # Quote /\ Byte(text, k) # Backslash
    BY DEF At
  <2>2. idx \in 1..Len(text) /\ j \in idx..(Len(text) + 1)
    BY <1>2
  <2>3. QED
    BY <1>2, <1>3, <1>4, <2>1, <2>2, ReadsPlain
<1>13. Kept(text, len, Stored, d) \in Seq(Chars)
  <2>1. SubSeq(text, idx, h) \in Seq(Chars)
    <3>1. idx \in Nat \ {0} /\ h <= Len(text)
      BY <1>2, <1>10
    <3>2. QED
      BY <1>3, <3>1, PartBytes
  <2>2. QED
    BY <1>3, <1>11, <2>1, Joined, Zenon
<1>14. QED
  BY <1>5, <1>6, <1>10, <1>11, <1>12, <1>13

LEMMA CopyWindowDecodes == ScalarInv /\ DecodeInv /\ CopyWindow => DecodeInv'
<1> SUFFICES ASSUME ScalarInv, DecodeInv, CopyWindow PROVE DecodeInv'
  OBVIOUS
<1>1. /\ pc = "copy" /\ pc \in StringStates /\ pc' = "copy" /\ Seen(Quote) \cup Seen(Backslash) = {}
      /\ buffer' = Stored /\ dst' = dst + Window /\ idx' = idx + Window
      /\ len' = len /\ text' = text /\ input' = input
  BY DEF CopyWindow, StringStates
<1>2. /\ text \in Texts /\ Len(text) \in Nat /\ idx \in 2..Len(text) /\ dst \in Nat /\ Window \in Nat \ {0}
  BY <1>1, Decoding
<1>3. input' = text'
  BY <1>1 DEF DecodeInv
<1>4. idx + Window \in idx..Len(text)
  <2>1. ScalarInv' /\ pc' \in StringStates
    BY <1>1, CopyWindowStep DEF StringStates
  <2>2. Ahead'
    BY <2>1 DEF ScalarInv, Placed
  <2>3. idx' \in 2..Len(text)
    BY <1>1, <2>2 DEF Ahead
  <2>4. QED
    BY <1>1, <1>2, <2>3
<1>5. PICK j \in idx..Len(text), d \in Nat : j = idx + Window /\ d = dst + Window
  BY <1>2, <1>4
<1>6. \A k \in idx..(j - 1) : At(k) # Quote /\ At(k) # Backslash
  <2>1. \A k \in idx..(idx + Window - 1) : At(k) # Quote /\ At(k) # Backslash
    BY <1>1, NeitherInWindow
  <2>2. QED
    BY <1>2, <1>5, <2>1
<1>7. d = dst + (j - idx) /\ j <= idx + Window
  BY <1>2, <1>5
<1>8. Reads(text, Kept(text, len, Stored, d), j)
  BY <1>1, <1>6, <1>7, CopyGrows
<1>9. pc' \in StringStates /\ pc' # "plain"
  BY <1>1 DEF StringStates
<1>10. QED
  BY <1>1, <1>3, <1>5, <1>8, <1>9, Going

(* Written back behind the part that was plain, the decoded part makes the *)
(* string one slice.                                                       *)
Overwritten(t, l, c, d) ==
  [k \in DOMAIN t |-> IF k \in (2 + l)..(1 + l + d) THEN c[k - 1 - l] ELSE t[k]]

LEMMA OverwrittenIsKept ==
  ASSUME NEW t \in Seq(Chars), NEW c \in Seq(Chars), NEW l \in Nat, NEW d \in Nat, 1 + l + d <= Len(t), d <= Len(c)
  PROVE  SubSeq(Overwritten(t, l, c, d), 2, 1 + l + d) = Kept(t, l, c, d)
<1> DEFINE w == Overwritten(t, l, c, d)
           p == SubSeq(w, 2, 1 + l + d)
           r == Kept(t, l, c, d)
<1>1. DOMAIN t = 1..Len(t) /\ Len(t) \in Nat /\ Len(c) \in Nat
  OBVIOUS
<1>2. ASSUME NEW k \in 1..Len(t)
      PROVE  w[k] = IF k \in (2 + l)..(1 + l + d) THEN c[k - 1 - l] ELSE t[k]
  BY <1>1 DEF Overwritten
<1> HIDE DEF w
<1>3. ASSUME NEW k \in 1..Len(t) PROVE w[k] \in Chars
  <2>1. CASE k \in (2 + l)..(1 + l + d)
    <3>1. k - 1 - l \in 1..Len(c)
      BY <1>1, <2>1
    <3>2. c[k - 1 - l] \in Chars
      BY <3>1
    <3>3. QED
      BY <1>2, <2>1, <3>2
  <2>2. CASE k \notin (2 + l)..(1 + l + d)
    BY <1>1, <1>2, <2>2
  <2>3. QED
    BY <2>1, <2>2
<1>4. p \in Seq(Chars) /\ Len(p) = l + d /\ \A k \in 1..(l + d) : p[k] = w[k + 1]
  <2>1. \A k \in 2..(1 + l + d) : w[k] \in Chars
    BY <1>1, <1>3
  <2>2. /\ p \in Seq(Chars) /\ Len(p) = IF 2 <= 1 + l + d THEN (1 + l + d) - 2 + 1 ELSE 0
        /\ \A k \in 1..((1 + l + d) - 2 + 1) : p[k] = w[2 + k - 1]
    BY <2>1, SubSeqProperties
  <2> HIDE DEF p
  <2>3. QED
    BY <2>2
<1>5. /\ r \in Seq(Chars) /\ Len(r) = l + d
      /\ \A k \in 1..(l + d) : r[k] = IF k <= l THEN t[k + 1] ELSE c[k - l]
  <2>1. d \in 0..Len(c) /\ l < Len(t)
    BY <1>1
  <2>2. QED
    BY <2>1, KeptBytes
<1> HIDE DEF p, r
<1>6. ASSUME NEW k \in 1..(l + d) PROVE p[k] = r[k]
  <2>1. k + 1 \in 1..Len(t) /\ p[k] = w[k + 1] /\ r[k] = IF k <= l THEN t[k + 1] ELSE c[k - l]
    BY <1>1, <1>4, <1>5
  <2>2. w[k + 1] = IF k + 1 \in (2 + l)..(1 + l + d) THEN c[(k + 1) - 1 - l] ELSE t[k + 1]
    BY <1>2, <2>1
  <2>3. (k + 1 \in (2 + l)..(1 + l + d) <=> ~ (k <= l)) /\ (k + 1) - 1 - l = k - l
    OBVIOUS
  <2>4. QED
    BY <2>1, <2>2, <2>3
<1>7. p = r
  BY <1>4, <1>5, <1>6, SeqEqual
<1>8. QED
  BY <1>7 DEF p, r, w

LEMMA CopyEndsDecodes == ScalarInv /\ DecodeInv /\ CopyEnds => DecodeInv'
<1> SUFFICES ASSUME ScalarInv, DecodeInv, CopyEnds PROVE DecodeInv'
  OBVIOUS
<1> DEFINE q == First(Seen(Quote))
<1>1. pc = "copy" /\ pc \in StringStates /\ pc' = "done" /\ Sooner(Quote, Backslash) /\ text' = text /\ len' = len
  BY DEF CopyEnds, StringStates
<1>2. /\ text \in Texts /\ Len(text) \in Nat /\ DOMAIN text = 1..Len(text) /\ idx \in 2..Len(text)
      /\ len \in Nat /\ dst \in Nat /\ len + dst <= idx - 2 /\ Window \in Nat \ {0}
  BY <1>1, Decoding
<1>3. text \in Seq(Chars) /\ input = text
  BY <1>1, DecodingBytes DEF DecodeInv
<1>4. /\ q \in idx..Len(text) /\ text[q] = Quote /\ q \in idx..(idx + Window - 1)
      /\ \A k \in idx..(q - 1) : At(k) # Quote /\ At(k) # Backslash
  <2>1. Quote # Backslash
    BY DEF Quote, Backslash
  <2>2. QED
    BY <1>1, <2>1, SoonerInText
<1>5. /\ dst' = dst + q - idx /\ buffer' = Stored /\ input' = WrittenBack(buffer', dst')
      /\ result' = String(SubSeq(input', 2, 1 + len + dst'))
  BY DEF CopyEnds
<1> HIDE DEF q
<1>6. PICK d \in Nat : d = dst + (q - idx) /\ d = dst'
  BY <1>2, <1>4, <1>5
<1>7. q <= idx + Window
  BY <1>2, <1>4
<1> DEFINE s == Stored
           pre == Kept(text, len, s, d)
<1>8. /\ s \in Seq(Chars) /\ Len(s) = Len(text) + Window /\ d <= Len(text)
      /\ pre \in Seq(Chars) /\ Reads(text, pre, q)
  BY <1>1, <1>4, <1>6, <1>7, CopyGrows
<1>9. s = buffer' /\ input' = Overwritten(text, len, s, d)
  BY <1>3, <1>5, <1>6 DEF WrittenBack, Overwritten
<1> HIDE DEF s, pre
<1>10. 1 + len + d <= q - 1 /\ 1 + len + d <= Len(text) /\ d <= Len(s)
  <2>1. q \in Int /\ idx <= q /\ q <= Len(text)
    BY <1>2, <1>4
  <2>2. len + d <= q - 2
    BY <1>2, <1>6, <2>1
  <2>3. QED
    BY <1>2, <1>8, <2>1, <2>2
<1>11. result' = String(pre)
  <2>1. SubSeq(Overwritten(text, len, s, d), 2, 1 + len + d) = Kept(text, len, s, d)
    BY <1>2, <1>3, <1>8, <1>10, OverwrittenIsKept
  <2>2. QED
    BY <1>5, <1>6, <1>9, <2>1 DEF pre
<1>12. \A k \in DOMAIN input' : input'[k] # text[k] => k \in 2..(q - 1)
  <2>1. SUFFICES ASSUME NEW k \in DOMAIN input', input'[k] # text[k] PROVE k \in 2..(q - 1)
    OBVIOUS
  <2>2. k \in DOMAIN text /\ Overwritten(text, len, s, d)[k] # text[k]
    BY <1>9, <2>1 DEF Overwritten
  <2>3. k \in (2 + len)..(1 + len + d)
    BY <2>2 DEF Overwritten
  <2>4. QED
    BY <1>2, <1>4, <1>10, <2>3
<1>13. q \in 1..Len(text)
  BY <1>2, <1>4
<1>14. StringDecoded'
  BY <1>1, <1>2, <1>4, <1>8, <1>11, <1>12, <1>13, Answered
<1>15. QED
  BY <1>1, <1>14, Stopped

LEMMA UnescapeDecodes ==
  ASSUME ScalarInv, DecodeInv, pc = "copy", Sooner(Backslash, Quote),
         NEW char \in Chars, NEW next \in Nat, Unescape(char, next),
         Element(text, First(Seen(Backslash))) = <<char, next>>
  PROVE  DecodeInv'
<1> DEFINE b == First(Seen(Backslash))
<1>1. pc \in StringStates
  BY DEF StringStates
<1>2. /\ text \in Texts /\ Len(text) \in Nat /\ idx \in 2..Len(text)
      /\ len \in Nat /\ dst \in Nat /\ Window \in Nat \ {0}
  BY <1>1, Decoding
<1>3. text \in Seq(Chars) /\ len < Len(text) /\ input = text
  BY <1>1, DecodingBytes DEF DecodeInv
<1>4. Quote # Backslash
  BY DEF Quote, Backslash
<1>5. /\ b \in idx..Len(text) /\ text[b] = Backslash /\ b \in idx..(idx + Window - 1)
      /\ \A k \in idx..(b - 1) : At(k) # Quote /\ At(k) # Backslash
  BY <1>1, <1>4, SoonerInText
<1>6. /\ dst' = dst + b - idx + 1 /\ buffer' = [Stored EXCEPT ![dst'] = char] /\ idx' = next
      /\ text' = text /\ pc' = pc /\ input' = input /\ len' = len
  BY DEF Unescape
<1>7. Element(text, b) = <<char, next>>
  OBVIOUS
<1> HIDE DEF b
<1>8. PICK d \in Nat : d = dst + (b - idx)
  BY <1>2, <1>5
<1>9. PICK m \in Nat : m = d + 1 /\ m = dst'
  <2>1. dst + b - idx + 1 = d + 1 /\ d + 1 \in Nat
    BY <1>2, <1>5, <1>8
  <2>2. QED
    BY <1>6, <2>1
<1>10. b <= idx + Window
  BY <1>2, <1>5
<1> DEFINE s == Stored
           pre == Kept(text, len, s, d)
<1>11. /\ s \in Seq(Chars) /\ Len(s) = Len(text) + Window /\ d <= Len(text)
       /\ pre \in Seq(Chars) /\ Reads(text, pre, b)
  BY <1>5, <1>8, <1>10, CopyGrows
<1>12. buffer' = [s EXCEPT ![m] = char]
  BY <1>6, <1>9
<1> HIDE DEF s
<1>13. m \in 1..Len(s) /\ d <= Len(s)
  BY <1>2, <1>9, <1>11
<1>14. buffer' \in Seq(Chars) /\ Len(buffer') = Len(s) /\ buffer'[m] = char /\ \A k \in 1..d : buffer'[k] = s[k]
  <2> DEFINE u == [s EXCEPT ![m] = char]
  <2>1. /\ u \in Seq(Chars) /\ Len(u) = Len(s)
        /\ \A j \in 1..Len(s) : u[j] = IF j = m THEN char ELSE s[j]
    BY <1>11, <1>13, ExceptSeq
  <2> HIDE DEF u
  <2>2. u[m] = char /\ \A k \in 1..d : u[k] = s[k]
    BY <1>9, <1>11, <1>13, <2>1
  <2>3. buffer' = u
    BY <1>12 DEF u
  <2>4. QED
    BY <2>1, <2>2, <2>3
<1>15. Kept(text, len, buffer', m) = pre \o <<char>>
  <2>1. Unescaped(text, len, s, d, buffer', m, char)
    BY <1>2, <1>3, <1>9, <1>11, <1>13, <1>14 DEF Unescaped
  <2>2. KeptElement(text, len, s, d, buffer', m, char)
    BY <2>1, KeepElement
  <2>3. QED
    BY <2>2 DEF KeptElement
<1> HIDE DEF pre
<1>16. Reads(text, pre \o <<char>>, next)
  <2>1. b \in 1..Len(text) /\ text[b] # Quote
    BY <1>2, <1>4, <1>5
  <2>2. QED
    BY <1>2, <1>7, <1>11, <2>1, ReadsElement
<1>17. Reads(text', Kept(text', len', buffer', dst'), idx')
  BY <1>6, <1>9, <1>15, <1>16
<1>18. pc' \in StringStates /\ pc' # "plain" /\ input' = text'
  BY <1>1, <1>3, <1>6
<1>19. QED
  BY <1>17, <1>18, Going

LEMMA CopyEscapeDecodes == ScalarInv /\ DecodeInv /\ CopyEscape => DecodeInv'
<1> SUFFICES ASSUME ScalarInv, DecodeInv, CopyEscape PROVE DecodeInv'
  OBVIOUS
<1> DEFINE b == First(Seen(Backslash))
<1>1. pc = "copy" /\ Sooner(Backslash, Quote)
  BY DEF CopyEscape
<1>2. PICK k : k = b
  OBVIOUS
<1>3. \/ /\ At(k + 1) = "u" /\ CodePoint(k) # Error
         /\ Unescape(CodePoint(k).char, k + CodePoint(k).units)
      \/ /\ At(k + 1) \in DOMAIN Escape
         /\ Unescape(Escape[At(k + 1)], k + 2)
      \/ /\ IF At(k + 1) = "u" THEN CodePoint(k) = Error ELSE At(k + 1) \notin DOMAIN Escape
         /\ Finished(Error)
  BY <1>2 DEF CopyEscape
<1>4. k \in Nat /\ k \in idx..(idx + Window - 1) /\ k \in 1..Len(text) /\ At(k) = Backslash
  BY <1>1, <1>2, EscapeAhead
<1>5. text \in Texts
  BY DEF ScalarInv, Typed
<1>6. Byte(text, k) = Backslash /\ Byte(text, k + 1) = At(k + 1)
  BY <1>4 DEF At
<1>7. CASE At(k + 1) = "u" /\ CodePoint(k) # Error /\ Unescape(CodePoint(k).char, k + CodePoint(k).units)
  <2>1. PICK c, n : IsPoint(k, c, n)
    BY <1>4, <1>5, <1>7, CodePointIsUnicode
  <2>2. Unescape(c, k + n) /\ c \in Chars /\ n \in {3, 6} /\ Unicode(text, k) = <<c, k + n>>
    BY <1>7, <2>1 DEF IsPoint
  <2>3. Element(text, k) = <<c, k + n>>
    BY <1>6, <1>7, <2>2 DEF Element
  <2>4. k + n \in Nat
    BY <1>4, <2>2
  <2>5. QED
    BY <1>1, <1>2, <2>2, <2>3, <2>4, UnescapeDecodes
<1>8. CASE At(k + 1) \in DOMAIN Escape /\ Unescape(Escape[At(k + 1)], k + 2)
  <2>1. At(k + 1) # "u"
    BY <1>8 DEF Escape, Quote, Backslash
  <2>2. Element(text, k) = <<Escape[At(k + 1)], k + 2>>
    BY <1>6, <1>8, <2>1 DEF Element
  <2>3. Escape[At(k + 1)] \in Chars /\ k + 2 \in Nat
    BY <1>4, <1>8, EscapeIsChar
  <2>4. QED
    BY <1>1, <1>2, <1>8, <2>2, <2>3, UnescapeDecodes
<1>9. CASE /\ IF At(k + 1) = "u" THEN CodePoint(k) = Error ELSE At(k + 1) \notin DOMAIN Escape
           /\ Finished(Error)
  <2>1. Element(text, k) = << >>
    <3>1. CASE At(k + 1) = "u"
      <4>1. CodePoint(k) = Error
        BY <1>9, <3>1
      <4>2. Unicode(text, k) = << >>
        BY <1>4, <1>5, <4>1, CodePointIsUnicode, ErrorIsNoPoint DEF IsPoint
      <4>3. QED
        BY <1>6, <3>1, <4>2 DEF Element
    <3>2. CASE At(k + 1) # "u"
      BY <1>6, <1>9, <3>2 DEF Element
    <3>3. QED
      BY <3>1, <3>2
  <2>2. Decoded(text)[k].end = 0
    BY <1>4, <1>5, <2>1, DecodedParts
  <2>3. Decoded(text)[2].end = 0
    <3>1. pc \in StringStates /\ text \in Texts /\ Len(text) \in Nat /\ idx \in 2..Len(text)
          /\ dst \in Nat /\ Window \in Nat
      BY <1>1, Decoding DEF StringStates
    <3>2. Quote # Backslash
      BY DEF Quote, Backslash
    <3>3. /\ k \in idx..Len(text)
          /\ \A j \in idx..(k - 1) : At(j) # Quote /\ At(j) # Backslash
      BY <1>1, <1>2, <3>1, <3>2, SoonerInText
    <3>4. PICK d \in Nat : d = dst + (k - idx)
      BY <3>1, <3>3
    <3>5. k <= idx + Window
      BY <1>4, <3>1
    <3>6. Reads(text, Kept(text, len, Stored, d), k)
      BY <1>1, <3>3, <3>4, <3>5, CopyGrows
    <3>7. QED
      BY <2>2, <3>6 DEF Reads
  <2>4. pc' = "done" /\ result' = Error /\ text' = text /\ input' = input
    BY <1>9 DEF Finished, decoded
  <2>5. input = text
    BY <1>1 DEF DecodeInv, StringStates
  <2>6. StringDecoded'
    BY <2>3, <2>4, <2>5 DEF StringDecoded
  <2>7. QED
    BY <2>4, <2>6, Stopped
<1>10. QED
  BY <1>3, <1>7, <1>8, <1>9

LEMMA InitDecodes == Init => DecodeInv
BY DEF Init, DecodeInv, StringStates, StringDecoded

LEMMA StutterDecodes == DecodeInv /\ UNCHANGED vars => DecodeInv'
BY DEF DecodeInv, StringDecoded, Quoted, Reads, Kept, StringStates, vars, numeric, decoded

(* A quoted string of any length, with any escapes, is its elements in     *)
(* their order wherever the windows fall, and refused if one of them is    *)
(* none; the caller's buffer changes between the quotes only, and not at   *)
(* all where parse_str refuses.                                            *)
THEOREM StringsDecoded == Spec => []StringDecoded
<1>1. ScalarInv /\ DecodeInv /\ [Next]_vars => DecodeInv'
  <2>1. ScalarInv /\ DecodeInv /\ ReadString => DecodeInv'
    BY PlainDecodes, CopyEndsDecodes, CopyEscapeDecodes, CopyWindowDecodes DEF ReadString
  <2>2. QED
    BY <2>1, StartDecodes, NumberDecodes, StutterDecodes DEF Next
<1>2. DecodeInv => StringDecoded
  BY DEF DecodeInv
<1>3. QED
  BY <1>1, <1>2, ScalarInvariant, InitDecodes, PTL DEF Spec
=============================================================================

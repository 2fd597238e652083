------------------------------- MODULE Scalar -------------------------------
(***************************************************************************)
(* The value of one scalar: insert_inferred_value! of stage 2 with         *)
(* try_parse_number and parse_str behind it.  A number is read digit by    *)
(* digit into a machine word; what does not fill its span as a number is a *)
(* string.  A quoted string is decoded a window of bytes at a time, and    *)
(* written back over the input it came from.                               *)
(*                                                                         *)
(* Modelled are the default features: no 128bit, no big-int-as-float.  The *)
(* machine's parameters are constants, so that small values can take the   *)
(* place of 64 bits and 19 digits.  The rounding of a double is left out:  *)
(* a float is a decimal number, finite up to a power of ten.               *)
(***************************************************************************)
EXTENDS Integers, SequencesExt

CONSTANTS
  Texts,       \* what may stand in the place of a scalar, see Scalar.Init
  WordBits,    \* 64: num is a u64
  LongInteger, \* 18: integers with more digits are read again, with checks
  LongFloat,   \* 19: so are the significands of floats
  ExpBits,     \* 32: the width that an exponent is cast to
  FreeDigits,  \* 3: digits of an exponent that are read without a check
  MaxExp, MinExp,  \* 308 and -325: powers of ten that a double can have
  FractionRun, \* 8: digits of a fraction that are read at once
  Window       \* 32: bytes of a string that are read at once

(* A word has room for a digit, and the powers of naturals are naturals,   *)
(* which the provers do not know.                                          *)
ASSUME WordAssumption ==
  /\ WordBits \in Nat \ {0} /\ ExpBits \in Nat \ {0} /\ FreeDigits \in Nat \ {0}
  /\ LongInteger \in Nat /\ LongFloat \in Nat
  /\ MaxExp \in Nat /\ -MinExp \in Nat
  /\ FractionRun \in Nat \ {0} /\ Window \in Nat \ {0}
  /\ 2^WordBits \in Nat /\ 2^WordBits > 9 /\ 10^FractionRun \in Nat

VARIABLES
  text,      \* the bytes of the scalar, and what follows a quoted string
  input,     \* the same in the caller's buffer, where strings are decoded
  pc,        \* where the code is
  idx,       \* the next byte
  num,       \* the digits so far, in a word
  exponent,  \* of a number
  written,   \* exp_number: the exponent as it is written, without its sign
  digits,    \* digit_count
  float,     \* is_float
  buffer,    \* string_buffer
  len, dst,  \* bytes of a string that are kept, and that are in buffer
  result     \* the node

numeric == <<num, exponent, written, digits, float>>
decoded == <<input, buffer, len, dst>>
vars    == <<text, pc, idx, numeric, decoded, result>>

-----------------------------------------------------------------------------
(* Bytes.  Each of "true", "false" and "null" stands for a whole word, each *)
(* of Quads for four hexadecimal digits of a code unit.                     *)

Digits    == {"0", "1", "2", "3", "4", "5", "6", "7", "8", "9"}
Literals  == {"true", "false", "null"}
Quote     == "QUOTE"
Backslash == "BACKSLASH"
Quads     == {"BMP", "HIGH", "LOW", "PAST"}   \* < D800, < DC00, < E000, the rest

DigitOf(c) ==
  CASE c = "0" -> 0 [] c = "1" -> 1 [] c = "2" -> 2 [] c = "3" -> 3 [] c = "4" -> 4
    [] c = "5" -> 5 [] c = "6" -> 6 [] c = "7" -> 7 [] c = "8" -> 8 [] c = "9" -> 9

Byte(t, k) == IF k \in DOMAIN t THEN t[k] ELSE "BLANK"
At(k)      == Byte(text, k)
IsDigit(k) == At(k) \in Digits
Negative   == At(1) = "-"
Mantissa   == IF Negative THEN 2 ELSE 1

(* From i on, t has its closing quote at e: an even number of backslashes  *)
(* stands before it.  A scalar is not empty, and one that begins with a    *)
(* quote has a closing one, as stage 1 refuses documents where a string is *)
(* left open.                                                              *)
ClosedAt(t, i, e) ==
  /\ e \in i..Len(t) /\ t[e] = Quote
  /\ \E s \in i..e : /\ \A k \in s..(e - 1) : t[k] = Backslash
                     /\ s = i \/ t[s - 1] # Backslash
                     /\ (e - s) % 2 = 0

ASSUME TextsAssumption ==
  \A t \in Texts : /\ t \in Seq(STRING) /\ t # << >>
                   /\ t[1] = Quote => \E e \in DOMAIN t : ClosedAt(t, 2, e)

(* Bare strings are slices of the input; so are decoded ones. *)
String(bytes)     == [kind |-> "String", bytes |-> bytes]
Unsigned(n)       == [kind |-> "U64", val |-> n]
Signed(n)         == [kind |-> "I64", val |-> n]
Float(neg, m, e)  == [kind |-> "F64", neg |-> neg, mant |-> m, exp |-> e]
Infinite          == [kind |-> "Infinite"]
Nothing           == [kind |-> "none"]
Error             == [kind |-> "Error"]

-----------------------------------------------------------------------------
(* Words. *)

WordLimit   == 2^WordBits
Wrap(n)     == n % WordLimit
AsSigned(n) == IF n < 2^(WordBits - 1) THEN n ELSE n - WordLimit
AsExp(n)    == ((n + 2^(ExpBits - 1)) % 2^ExpBits) - 2^(ExpBits - 1)
(* Mutant: the product is not cut to a word. *)
PushWide(n, k) == 10 * n + DigitOf(At(k))
Push(n, k)  == Wrap(Wrap(10 * n) + DigitOf(At(k)))

-----------------------------------------------------------------------------
(* Decimal numbers. *)

Value(cs) ==
  LET value[k \in 0..Len(cs)] == IF k = 0 THEN 0 ELSE 10 * value[k - 1] + DigitOf(cs[k])
  IN  value[Len(cs)]
Size(m)   == CHOOSE n \in 0..9 : m < 10^n /\ (n = 0 \/ 10^(n - 1) <= m)
Zeros(m)  == CHOOSE n \in 0..Size(m) : m % 10^n = 0 /\ (m \div 10^n) % 10 # 0

(* The double next to m * 10^e. *)
Double(neg, m, e) ==
  IF m = 0 \/ Size(m) + e < MinExp THEN Float(neg, 0, 0)
  ELSE IF Size(m) + e > MaxExp + 1 THEN Infinite
  ELSE Float(neg, m \div 10^Zeros(m), e + Zeros(m))

(* f64::from_str on a text that is a number. *)
Parsed(t) ==
  LET End(c)   == IF Contains(t, c) THEN CHOOSE k \in DOMAIN t : t[k] = c ELSE Len(t) + 1
      Read(cs) == Value(SelectSeq(cs, LAMBDA c : c \in Digits))
      Places   == IF Contains(t, ".") THEN End("e") - End(".") - 1 ELSE 0
      exp      == Read(SubSeq(t, End("e"), Len(t)))
  IN  Double(t[1] = "-", Read(SubSeq(t, 1, End("e") - 1)),
             (IF End("e") < Len(t) /\ t[End("e") + 1] = "-" THEN -exp ELSE exp) - Places)

-----------------------------------------------------------------------------
Finished(node) ==
  /\ pc' = "done"
  /\ result' = node
  /\ UNCHANGED <<text, idx, numeric, decoded>>

(* Err of try_parse_number: it is a string after all. *)
StaysString == Finished(String(text))

Goto(state) == pc' = state /\ UNCHANGED <<text, decoded, result>>

Init ==
  /\ text \in Texts
  /\ input = text
  /\ pc = "start"
  /\ idx = 1 /\ num = 0 /\ exponent = 0 /\ written = 0 /\ digits = 0 /\ float = FALSE
  /\ buffer = [k \in 1..(Len(text) + Window) |-> "garbage"]
  /\ len = 0 /\ dst = 0
  /\ result = Nothing

Start ==
  /\ pc = "start"
  /\ \/ /\ Negative \/ IsDigit(1)
        /\ IF IsDigit(Mantissa)
           THEN /\ Goto(IF At(Mantissa) = "0" THEN "point" ELSE "integer")
                /\ num' = DigitOf(At(Mantissa))
                /\ idx' = Mantissa + 1
                /\ UNCHANGED <<exponent, written, digits, float>>
           ELSE StaysString
     \/ /\ At(1) = Quote
        /\ Goto("plain") /\ idx' = 2 /\ UNCHANGED numeric
     \/ /\ ~Negative /\ ~IsDigit(1) /\ At(1) # Quote
        /\ IF Len(text) = 1 /\ text[1] \in Literals
           THEN Finished([kind |-> "Static", val |-> text[1]])
           ELSE StaysString

-----------------------------------------------------------------------------
(* Numbers: an integer part, ...                                           *)

IntegerDigit ==
  /\ pc = "integer" /\ IsDigit(idx)
  /\ num' = Push(num, idx)
  /\ idx' = idx + 1
  /\ UNCHANGED <<text, pc, exponent, written, digits, float, decoded, result>>

IntegerEnds ==
  /\ pc = "integer" /\ ~IsDigit(idx)
  /\ Goto("point") /\ UNCHANGED <<idx, numeric>>

(* ... perhaps a fraction, ...                                             *)
Point ==
  /\ pc = "point"
  /\ \/ /\ At(idx) # "."
        /\ Goto("suffix") /\ UNCHANGED <<idx, numeric>>
     \/ /\ At(idx) = "." /\ ~IsDigit(idx + 1)
        /\ StaysString
     \/ /\ At(idx) = "." /\ IsDigit(idx + 1)
        /\ Goto("run")
        /\ num' = Push(num, idx + 1)
        /\ idx' = idx + 2
        /\ float' = TRUE
        /\ UNCHANGED <<exponent, written, digits>>

(* Several digits at once, if there are so many. *)
Run ==
  LET run == idx..(idx + FractionRun - 1)
  IN  /\ pc = "run"
      /\ Goto("fraction")
      /\ IF \A k \in run : IsDigit(k)
         THEN /\ num' = Wrap(Wrap(10^FractionRun * num) + Value([k \in 1..FractionRun |-> At(idx + k - 1)]))
              /\ idx' = idx + FractionRun
         ELSE UNCHANGED <<num, idx>>
      /\ UNCHANGED <<exponent, written, digits, float>>

FractionDigit ==
  /\ pc = "fraction" /\ IsDigit(idx)
  /\ num' = Push(num, idx)
  /\ idx' = idx + 1
  /\ UNCHANGED <<text, pc, exponent, written, digits, float, decoded, result>>

FractionEnds ==
  /\ pc = "fraction" /\ ~IsDigit(idx)
  /\ exponent' = (CHOOSE k \in 1..idx : At(k) = ".") + 1 - idx
  /\ Goto("suffix") /\ UNCHANGED <<idx, num, written, digits, float>>

(* ... and perhaps an exponent.                                            *)
(* Mutant: a sign is taken off that is not there. *)
SignTakenOff == idx - 3

(* The characters of the significand, less one. *)
DigitCount == idx - 2 - (IF Negative THEN 1 ELSE 0)

Suffix ==
  LET first == IF At(idx + 1) \in {"-", "+"} THEN idx + 2 ELSE idx + 1
  IN  /\ pc = "suffix"
      /\ \/ /\ At(idx) # "e"
            /\ Goto("end")
            /\ digits' = DigitCount
            /\ UNCHANGED <<idx, num, exponent, written, float>>
         \/ /\ At(idx) = "e" /\ ~IsDigit(first)
            /\ StaysString
         \/ /\ At(idx) = "e" /\ IsDigit(first)
            /\ Goto("exponent")
            /\ digits' = DigitCount
            /\ float' = TRUE
            /\ written' = DigitOf(At(first))
            /\ idx' = first + 1
            /\ UNCHANGED <<num, exponent>>

Mark == CHOOSE k \in 1..idx : At(k) = "e"
FirstOfExponent == IF At(Mark + 1) \in {"-", "+"} THEN Mark + 2 ELSE Mark + 1

ExponentDigit ==
  /\ pc = "exponent" /\ IsDigit(idx)
  /\ IF idx - FirstOfExponent >= FreeDigits /\ written > 2^ExpBits
     THEN StaysString
     ELSE /\ written' = 10 * written + DigitOf(At(idx))
          /\ idx' = idx + 1
          /\ UNCHANGED <<text, pc, num, exponent, digits, float, decoded, result>>

ExponentEnds ==
  /\ pc = "exponent" /\ ~IsDigit(idx)
  /\ exponent' = exponent + (IF At(Mark + 1) = "-" THEN -written ELSE written)
  /\ Goto("end") /\ UNCHANGED <<idx, num, written, digits, float>>

(* Whether all digits of a significand went into num: zeros in front of it *)
(* need no room.                                                           *)
LeadingZeros ==
  CHOOSE z \in 0..Len(text) :
    /\ \A k \in Mantissa..(Mantissa + z - 1) : At(k) \in {"0", "."}
    /\ At(Mantissa + z) \notin {"0", "."}

TooPrecise ==
  /\ digits >= LongFloat
  /\ digits - LeadingZeros \notin 0..(LongFloat - 1)

(* f64_from_parts, and the standard library where it gives up. *)
FromParts(exp) ==
  LET near == Double(Negative, num, exp)
  IN  IF num = 0 THEN Float(Negative, 0, 0)
      ELSE IF exp \in MinExp..MaxExp /\ near # Infinite /\ near.mant # 0 THEN near
      ELSE Parsed(text)

NumberEnds ==
  LET node == IF TooPrecise THEN Parsed(text) ELSE FromParts(AsExp(exponent))
  IN  /\ pc = "end"
      /\ \/ /\ idx # Len(text) + 1
            /\ StaysString
         \/ /\ idx = Len(text) + 1 /\ float
            /\ IF node = Infinite THEN StaysString ELSE Finished(node)
         \/ /\ idx = Len(text) + 1 /\ ~float /\ digits < LongInteger
            /\ Finished(IF Negative THEN Signed(AsSigned(Wrap(-num))) ELSE Unsigned(num))
         \/ /\ idx = Len(text) + 1 /\ ~float /\ digits >= LongInteger
            /\ Goto("large")
            /\ num' = DigitOf(At(Mantissa))
            /\ idx' = Mantissa + 1
            /\ UNCHANGED <<exponent, written, digits, float>>

(* parse_large_integer: once more from its start, with checks. *)
LargeDigit ==
  /\ pc = "large" /\ IsDigit(idx)
  /\ IF 10 * num >= WordLimit \/ 10 * num + DigitOf(At(idx)) >= WordLimit
     THEN StaysString
     ELSE /\ num' = 10 * num + DigitOf(At(idx))
          /\ idx' = idx + 1
          /\ UNCHANGED <<text, pc, exponent, written, digits, float, decoded, result>>

LargeEnds ==
  /\ pc = "large" /\ ~IsDigit(idx)
  /\ IF ~Negative THEN Finished(Unsigned(num))
     ELSE IF num <= 2^(WordBits - 1) THEN Finished(Signed(-num))
     ELSE StaysString

-----------------------------------------------------------------------------
(* Strings. *)

Escape == [c \in {Quote, Backslash, "n"} |-> IF c = "n" THEN "NL" ELSE c]

Seen(c)      == {k \in idx..(idx + Window - 1) : At(k) = c}
First(S)     == CHOOSE k \in S : \A j \in S : k <= j
Sooner(c, d) == \E k \in Seen(c) : \A j \in Seen(d) : k < j

(* Nothing to decode so far: the string stays where it is. *)
Plain ==
  /\ pc = "plain"
  /\ \/ /\ Sooner(Quote, Backslash)
        /\ len' = len + First(Seen(Quote)) - idx
        /\ result' = String(SubSeq(input, 2, 1 + len'))
        /\ pc' = "done"
        /\ UNCHANGED <<text, idx, numeric, input, buffer, dst>>
     \/ /\ Sooner(Backslash, Quote)
        /\ len' = len + First(Seen(Backslash)) - idx
        /\ idx' = First(Seen(Backslash))
        /\ pc' = "copy"
        /\ UNCHANGED <<text, numeric, input, buffer, dst, result>>
     \/ /\ Seen(Quote) \cup Seen(Backslash) = {}
        /\ len' = len + Window
        /\ idx' = idx + Window
        /\ UNCHANGED <<text, pc, numeric, input, buffer, dst, result>>

(* get_unicode_codepoint with what codepoint_to_utf8 makes of it: the code *)
(* point of \u at k, and the length of its escape.                         *)
CodePoint(k) ==
  LET pair == At(k + 3) = Backslash /\ At(k + 4) = "u"
      Point_(c, n) == [char |-> c, units |-> n]
  IN  CASE At(k + 2) \in {"BMP", "PAST"} -> Point_(At(k + 2), 3)
        [] At(k + 2) \notin Quads \/ At(k + 2) = "LOW" -> Error
        [] At(k + 2) = "HIGH" ->
             IF ~pair \/ At(k + 5) \notin Quads THEN Point_("NUL", 3)
             ELSE IF At(k + 5) \in {"BMP", "HIGH"} THEN Error
             ELSE Point_(IF At(k + 5) = "LOW" THEN "PAIR" ELSE "UNPAIRED", 6)

(* A window goes to the buffer as a whole; what is decoded overwrites it.  *)
Stored ==
  [k \in DOMAIN buffer \cup (dst + 1)..(dst + Window) |->
     IF k \in (dst + 1)..(dst + Window) THEN At(idx + k - dst - 1) ELSE buffer[k]]

Unescape(char, next) ==
  /\ dst' = dst + First(Seen(Backslash)) - idx + 1
  /\ buffer' = [Stored EXCEPT ![dst'] = char]
  /\ idx' = next
  /\ UNCHANGED <<text, pc, numeric, input, len, result>>

(* Mutant: the decoded part goes to the start of the string. *)
WrittenToStart(b, upto) ==
  [k \in DOMAIN input |-> IF k \in 2..(1 + upto) THEN b[k - 1] ELSE input[k]]

(* The decoded part behind the part that was plain. *)
WrittenBack(b, upto) ==
  [k \in DOMAIN input |-> IF k \in (2 + len)..(1 + len + upto) THEN b[k - 1 - len] ELSE input[k]]

CopyEnds ==
  /\ pc = "copy" /\ Sooner(Quote, Backslash)
  /\ dst' = dst + First(Seen(Quote)) - idx
  /\ buffer' = Stored
  /\ input' = WrittenBack(buffer', dst')
  /\ result' = String(SubSeq(input', 2, 1 + len + dst'))
  /\ pc' = "done"
  /\ UNCHANGED <<text, idx, numeric, len>>

CopyEscape ==
  LET k == First(Seen(Backslash))
  IN  /\ pc = "copy" /\ Sooner(Backslash, Quote)
      /\ \/ /\ At(k + 1) = "u" /\ CodePoint(k) # Error
            /\ Unescape(CodePoint(k).char, k + CodePoint(k).units)
         \/ /\ At(k + 1) \in DOMAIN Escape
            /\ Unescape(Escape[At(k + 1)], k + 2)
         \/ /\ IF At(k + 1) = "u" THEN CodePoint(k) = Error ELSE At(k + 1) \notin DOMAIN Escape
            /\ Finished(Error)

CopyWindow ==
  /\ pc = "copy" /\ Seen(Quote) \cup Seen(Backslash) = {}
  /\ buffer' = Stored
  /\ dst' = dst + Window
  /\ idx' = idx + Window
  /\ UNCHANGED <<text, pc, numeric, input, len, result>>

-----------------------------------------------------------------------------
ReadNumber ==
  \/ IntegerDigit \/ IntegerEnds \/ Point \/ Run \/ FractionDigit \/ FractionEnds
  \/ Suffix \/ ExponentDigit \/ ExponentEnds \/ NumberEnds \/ LargeDigit \/ LargeEnds

ReadString == Plain \/ CopyEnds \/ CopyEscape \/ CopyWindow

Next == Start \/ ReadNumber \/ ReadString

Spec == Init /\ [][Next]_vars
=============================================================================

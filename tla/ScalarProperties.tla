--------------------------- MODULE ScalarProperties ---------------------------
(***************************************************************************)
(* What the value of a scalar is, by definitions that know nothing of      *)
(* words, windows or buffers.                                              *)
(***************************************************************************)
EXTENDS Scalar

Quoted == text[1] = Quote

(* The state is well formed: num is a word, the digits read lie within the *)
(* text, and no window is stored outside string_buffer, which is the text  *)
(* and one window long.                                                    *)
TypeOK ==
  /\ pc \in {"start", "integer", "point", "run", "fraction", "suffix", "exponent",
            "end", "large", "plain", "copy", "done"}
  /\ num \in 0..(WordLimit - 1)
  /\ ~Quoted => idx \in 1..(Len(text) + 1)
  /\ written \in Nat /\ digits \in 0..Len(text) /\ float \in BOOLEAN
  /\ DOMAIN input = DOMAIN text
  /\ DOMAIN buffer = 1..(Len(text) + Window)
  /\ len + dst \in 0..Len(text)

-----------------------------------------------------------------------------
(* Numbers, by the grammar that the comments of try_parse_number name.      *)

Upto(t, c)   == IF Contains(t, c) THEN SubSeq(t, 1, SelectInSeq(t, LAMBDA x : x = c) - 1) ELSE t
Behind(t, c) == SubSeq(t, Len(Upto(t, c)) + 2, Len(t))
Magnitude(t) == IF t[1] = "-" THEN Tail(t) ELSE t
Unsign(t)    == IF t # << >> /\ t[1] \in {"-", "+"} THEN Tail(t) ELSE t

AllDigits(t)  == t # << >> /\ \A k \in DOMAIN t : t[k] \in Digits
IsInteger(t)  == AllDigits(t) /\ (t[1] = "0" => Len(t) = 1)
IsFloat(t) ==
  LET significand == Upto(Magnitude(t), "e")
  IN  /\ Contains(t, ".") \/ Contains(t, "e")
      /\ IsInteger(Upto(significand, "."))
      /\ Contains(significand, ".") => AllDigits(Behind(significand, "."))
      /\ Contains(t, "e") => AllDigits(Unsign(Behind(t, "e")))

(* The exponent of the last digit of the significand. *)
NetExponent(t) ==
  LET places == Len(Behind(Upto(t, "e"), "."))
      exp    == Behind(t, "e")
      size   == Value(Unsign(exp))
  IN  (IF exp = << >> THEN 0 ELSE IF exp[1] = "-" THEN -size ELSE size) - places

Fits(e) == e \in -(2^(ExpBits - 1))..(2^(ExpBits - 1) - 1)

IntegerNode(t) ==
  LET n == Value(Magnitude(t))
  IN  CASE t[1] = "-" /\ n <= 2^(WordBits - 1) -> Signed(-n)
        [] t[1] # "-" /\ n < 2^WordBits        -> Unsigned(n)
        [] OTHER -> String(t)

FloatNode(t) == IF Parsed(t) = Infinite THEN String(t) ELSE Parsed(t)

(* The node of a float whose exponent was cut to its width.                *)
WrappedNode(t) ==
  Double(t[1] = "-", Value(SelectSeq(Upto(t, "e"), LAMBDA c : c \in Digits)),
         AsExp(NetExponent(t)))

(* What begins like a number and is none: a sign without a digit, a float  *)
(* with something behind it, an integer with something behind it that      *)
(* cannot continue it.                                                     *)
Malformed(t) ==
  \/ t[1] = "-" /\ Byte(t, 2) \notin Digits
  \/ ~IsFloat(t) /\ \E k \in 1..(Len(t) - 1) :
       LET p == SubSeq(t, 1, k)
       IN  \/ IsInteger(Magnitude(p)) /\ t[k + 1] \notin Digits \cup {".", "e"}
           \/ IsFloat(p)

(* A scalar without quotes is the number, the literal or the string that   *)
(* its text is: an integer of 64 bits whatever the path that reads it, a   *)
(* float as the standard library reads it, and a string where the number   *)
(* would not fit.  There are two exceptions.  A float with an exponent     *)
(* beyond 32 bits may also have the exponent that is left when it is cut   *)
(* to them, or be a string, where the test infinite_exponent of correct.rs *)
(* wants a string if no double can hold it.  And a malformed number is a   *)
(* string, as the comment in insert_inferred_value! has it, where the tests*)
(* int_trailing_invalid, int_zero_prefix, int_bare_sign,                   *)
(* float_trailing_invalid and bad_e of correct.rs want an error.           *)
ScalarExact ==
  pc = "done" /\ ~Quoted =>
    CASE IsInteger(Magnitude(text)) -> result = IntegerNode(text)
      [] IsFloat(text) ->
           IF Fits(NetExponent(text)) THEN result = FloatNode(text)
           ELSE result \in {FloatNode(text), String(text), WrappedNode(text)}
      [] Malformed(text) -> result = String(text)
      [] Len(text) = 1 /\ text[1] \in Literals -> result.kind = "Static" /\ result.val = text[1]
      [] OTHER -> result = String(text)

-----------------------------------------------------------------------------
(* Strings: the escapes, one by one.                                        *)

(* The exceptions: what a first half at k without a second half stands for,*)
(* where it is let pass (HalvesPaired).  It is NUL, or if a unit behind the*)
(* halves comes in the second's place, a code point made of the two.       *)
LetPass(k, second) ==
  IF second \notin Quads THEN <<"NUL", k + 3>>
  ELSE IF second = "PAST" THEN <<"UNPAIRED", k + 6>>
  ELSE << >>

(* What a \u escape at k of t stands for, or << >>.                        *)
Unicode(t, k) ==
  LET first  == Byte(t, k + 2)
      pair   == Byte(t, k + 3) = Backslash /\ Byte(t, k + 4) = "u"
      second == IF pair THEN Byte(t, k + 5) ELSE "none"
  IN  IF first \in {"BMP", "PAST"} THEN <<first, k + 3>>
      ELSE IF first # "HIGH" THEN << >>
      ELSE IF second = "LOW" THEN <<"PAIR", k + 6>>
      ELSE LetPass(k, second)

(* The element at k and the place of the next one, or << >>. *)
Element(t, k) ==
  IF Byte(t, k) # Backslash THEN <<Byte(t, k), k + 1>>
  ELSE IF Byte(t, k + 1) = "u" THEN Unicode(t, k)
  ELSE IF Byte(t, k + 1) \in DOMAIN Escape THEN <<Escape[Byte(t, k + 1)], k + 2>>
  ELSE << >>

(* For each place, the elements from there to the closing quote, and that  *)
(* quote's place, or 0 where an element is none.                           *)
Decoded(t) ==
  LET from[k \in Nat] ==
        IF k > Len(t) \/ Element(t, k) = << >> THEN [bytes |-> << >>, end |-> 0]
        ELSE IF t[k] = Quote THEN [bytes |-> << >>, end |-> k]
        ELSE LET rest == from[Element(t, k)[2]]
             IN  [bytes |-> <<Element(t, k)[1]>> \o rest.bytes, end |-> rest.end]
  IN  from

(* A quoted string is its elements in their order, in spite of the windows *)
(* and of the two places they are gathered in; the caller's buffer changes *)
(* between the quotes only, and not at all when the string is refused.     *)
(* What LetPass names is an exception: the fixtures want it refused.       *)
StringDecoded ==
  pc = "done" /\ Quoted =>
    LET wanted == Decoded(text)[2]
    IN  IF wanted.end = 0 THEN result = Error /\ input = text
        ELSE /\ result = String(wanted.bytes)
             /\ \A k \in DOMAIN input : input[k] # text[k] => k \in 2..(wanted.end - 1)

(* An escape begins at k of a quoted t: an even number of backslashes      *)
(* stands before it.                                                       *)
EscapeAt(t, k) ==
  /\ t[k] = Backslash
  /\ \E s \in 2..k : /\ \A j \in s..(k - 1) : t[j] = Backslash
                     /\ t[s - 1] # Backslash
                     /\ (k - s) % 2 = 0

(* A string is accepted only if the halves of its code points come in pairs*)
(* ("throws on lone surrogate code point \uD800",                          *)
(* tests/fixtures/validation-errors.json).                                 *)
HalvesPaired ==
  pc = "done" /\ Quoted /\ result # Error =>
    \A k \in 2..(Decoded(text)[2].end - 1) :
      EscapeAt(text, k) /\ Byte(text, k + 1) = "u" /\ Byte(text, k + 2) = "HIGH" =>
        Byte(text, k + 3) = Backslash /\ Byte(text, k + 4) = "u" /\ Byte(text, k + 5) = "LOW"
=============================================================================

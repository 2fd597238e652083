-------------------------- MODULE Stage1Properties --------------------------
(***************************************************************************)
(* What stage 1 has to find, said of the whole text and without blocks.    *)
(***************************************************************************)
EXTENDS Stage1

-----------------------------------------------------------------------------
(* Reference definitions on a text.                                        *)

StartsLine(t, k) == k = 0 \/ t[k - 1] = "NL"

(* Only spaces stand between the start of its line and offset k.           *)
Indented(t, k) ==
  \E l \in 0..k : StartsLine(t, l) /\ \A j \in l..k - 1 : t[j] = Space

Opens(t, k)     == t[k] = "#" /\ Indented(t, k)
Commented(t, k) == \E h \in 0..k : Opens(t, h) /\ \A j \in h..k : t[j] # "NL"

(* q is the line end in front of a comment that opens at h.                *)
Precedes(t, q, h) ==
  q < h /\ t[q] = "NL" /\ Opens(t, h) /\ \A j \in q + 1..h - 1 : t[j] # "NL"

(* The one line end of this kind that the code leaves: it lies in an       *)
(* earlier block, and the comment is indented.                             *)
Straddles(q, h) == q \div BlockSize # h \div BlockSize /\ h # q + 1

Swallowed(t, k) ==
  \E h \in DOMAIN t : Precedes(t, k, h) /\ ~Straddles(k, h)

WithoutComments(t) == Blank(t, {k \in DOMAIN t : Commented(t, k)})
Stripped(t)        == Blank(t, {k \in DOMAIN t : Commented(t, k) \/ Swallowed(t, k)})

(* Behind an odd number of backslashes.                                    *)
Escaped(t, k) ==
  \E l \in 0..k : /\ (k - l) % 2 = 1
                  /\ \A j \in l..k - 1 : t[j] = Backslash
                  /\ l > 0 => t[l - 1] # Backslash

Delimits(t, k) == t[k] = Quote /\ ~Escaped(t, k)
Inside(t, k)   == Cardinality({q \in 0..k : Delimits(t, q)}) % 2 = 1

(* What may stand in front of the first byte of a token.                   *)
Separates(t, k) ==
  t[k] = Space \/ Delimits(t, k) \/ (t[k] \in Structural /\ ~Inside(t, k))

Token(t, k) ==
  IF Delimits(t, k) THEN Inside(t, k)
  ELSE ~Inside(t, k) /\ t[k] # Space
         /\ (t[k] \in Structural \/ k = 0 \/ Separates(t, k - 1))

Tokens(t)   == {k \in DOMAIN t : Token(t, k)}
Unclosed(t) == Length(t) > 0 /\ Inside(t, Length(t) - 1)

Verdict(s) ==
  LET t == Stripped(s)
  IN  IF Length(s) > MaxLength THEN "InputTooLarge"
      ELSE IF Unclosed(t) THEN "Syntax"
      ELSE IF Tokens(t) = {} THEN "Eof"
      ELSE IF \E k \in DOMAIN t : t[k] \in Control /\ Inside(t, k) THEN "Syntax"
      ELSE IF \E k \in DOMAIN s : s[k] = "bad" THEN "InvalidUtf8" ELSE "Ok"

-----------------------------------------------------------------------------
(* Types: indexes point into the text, or just behind it.                  *)
TypeOK ==
  /\ source \in Inputs \cup Later
  /\ input \in [DOMAIN source -> Byte]
  /\ idx \in Nat /\ idx % BlockSize = 0
  /\ structurals \subseteq Bit
  /\ indexes \in Seq(0..Length(source))
  /\ carry \in [{"odd", "quote", "pred", "indent", "comment"} -> BOOLEAN]
  /\ invalid \in BOOLEAN /\ broken \in BOOLEAN
  /\ Length(buffer) \in Nat /\ DOMAIN buffer = 0..Length(buffer) - 1
  /\ \A k \in DOMAIN buffer : buffer[k] \in Byte \cup {Garbage}
  /\ result \in {"scanning", "Ok", "Syntax", "Eof", "InvalidUtf8", "InputTooLarge"}

(* The indexes of an accepted text are its tokens, each once and in order, *)
(* and its length: wherever the boundaries of the blocks fall, and         *)
(* whatever is pushed, popped and flattened one block late.                *)
TokensExact ==
  result = "Ok" =>
    /\ \A m, n \in 1..Len(indexes) : m < n => indexes[m] < indexes[n]
    /\ {indexes[n] : n \in 1..Len(indexes)}
         = Tokens(Stripped(source)) \cup {Length(source)}

(* A text is rejected for what stands outside its comments only, except    *)
(* that comments have to be UTF-8; and the first of several errors wins.   *)
VerdictExact == result # "scanning" => result = Verdict(source)

(* Stage 2 gets the text with its comments and the line ends in front of   *)
(* them blanked and nothing else changed, then a line end, then spaces as  *)
(* far as a block may reach: in buffers of any size, and nothing that an   *)
(* earlier document left in them.                                          *)
HandsOverDocument ==
  LET text == Stripped(source)
  IN  result = "Ok" =>
        /\ input = text
        /\ \A k \in 0..Length(text) + BlockSize - 1 :
             /\ k \in DOMAIN buffer
             /\ buffer[k] = IF k < Length(text) THEN text[k]
                            ELSE IF k = Length(text) THEN "NL" ELSE Space

(* What stage 2 takes for granted of its tokens: there is one, no token is *)
(* blank, the last one is the line end that was added, and only spaces are *)
(* in front of the first token of a line, which are its indentation.       *)
IsDocument ==
  LET SpacesOnly(from, to) == \A k \in from..to : buffer[k] = Space
  IN  result = "Ok" =>
        /\ Len(indexes) >= 2
        /\ indexes[Len(indexes)] = Length(source)
        /\ \A n \in 1..Len(indexes) : buffer[indexes[n]] # Space
        /\ buffer[indexes[Len(indexes)]] = "NL"
        /\ SpacesOnly(0, indexes[1] - 1)
        /\ \A n \in 1..Len(indexes) - 1 :
             buffer[indexes[n]] = "NL" => SpacesOnly(indexes[n] + 1, indexes[n + 1] - 1)

(* Between two blocks the carries say of the text so far what is to be     *)
(* known of it.                                                            *)
CarriesSummarize ==
  LET read == [k \in 0..idx - 1 |-> IF k \in DOMAIN source THEN source[k] ELSE Space]
      text == WithoutComments(read)
  IN  result = "scanning" /\ idx > 0 =>
        /\ carry.comment = Commented(read, idx - 1)
        /\ carry.indent = Indented(read, idx)
        /\ carry.odd = Escaped(text, idx)
        /\ carry.quote = Inside(text, idx - 1)
        /\ carry.pred = Separates(text, idx - 1)

-----------------------------------------------------------------------------
(* What holds after every block, from which the properties follow.         *)

(* The text with spaces behind it, as far as the scan may look. *)
Padded ==
  [k \in 0..Length(source) + 2 * BlockSize - 1 |->
     IF k \in DOMAIN source THEN source[k] ELSE Space]
Clean == WithoutComments(Padded)

(* The line end q goes with the comment at h when the block of h is read. *)
Takes(h, q) == Precedes(Padded, q, h) /\ ~Straddles(q, h)

(* What is left when the comments that open before offset a were taken.    *)
StrippedTo(a) ==
  Blank(Padded, {k \in DOMAIN Padded : Commented(Padded, k) \/ \E h \in 0..a - 1 : Takes(h, k)})

(* A control character that is seen in a string: it was not blanked before *)
(* by a comment of the same block.                                         *)
Offends(k) ==
  /\ Clean[k] \in Control /\ Inside(Clean, k)
  /\ ~\E h \in 0..k + BlockSize : h \div BlockSize = k \div BlockSize /\ Takes(h, k)

Ascending(seq) == \A m, n \in 1..Len(seq) : m < n => seq[m] < seq[n]

(* The offsets that are in indexes or will be with the next block.         *)
Found ==
  {indexes[n] : n \in 1..Len(indexes)} \cup {idx - BlockSize + b : b \in structurals}

OrderInv ==
  /\ \A n \in 1..Len(indexes) : indexes[n] <= MaxLength
  /\ result = "scanning" =>
       /\ Length(source) <= MaxLength
       /\ idx < Length(source) + BlockSize
       /\ \A b \in structurals : idx - BlockSize + b \in DOMAIN source
       /\ Ascending(indexes)
       /\ \A n \in 1..Len(indexes) : indexes[n] < idx - BlockSize
       /\ Length(source) + BlockSize <= Length(buffer)

CommentInv ==
  result = "scanning" =>
    /\ \A k \in DOMAIN source : k >= idx => input[k] = source[k]
    /\ carry.comment = (idx > 0 /\ Commented(Padded, idx - 1))
    /\ carry.indent = Indented(Padded, idx)

QuoteInv ==
  result = "scanning" =>
    /\ carry.odd = Escaped(Clean, idx)
    /\ carry.quote = (idx > 0 /\ Inside(Clean, idx - 1))
    /\ carry.pred = (idx = 0 \/ Separates(Clean, idx - 1))
    /\ invalid = (\E k \in 0..idx - 1 : Offends(k))
    /\ broken = (\E k \in DOMAIN source : k < idx /\ source[k] = "bad")

TokenInv ==
  result = "scanning" =>
    /\ \A k \in 0..idx - 1 : Delimits(Clean, k) /\ Inside(Clean, k) => k \in Found
    /\ ~invalid =>
         /\ Found = {k \in 0..idx - 1 : Token(StrippedTo(idx), k)}
         /\ \A k \in DOMAIN source : k < idx => input[k] = StrippedTo(idx)[k]

IndInv ==
  /\ TypeOK /\ OrderInv /\ CommentInv /\ QuoteInv /\ TokenInv
  /\ TokensExact /\ VerdictExact /\ HandsOverDocument

(* "Note how the newline character at the end of `Hamza` was replaced by   *)
(* whitespace, that's the trick that makes this work": no line end is left *)
(* in front of a comment (comments_stripper.rs:16).                        *)
NoNewlineBeforeComment ==
  result = "Ok" =>
    \A h, q \in DOMAIN source : Precedes(source, q, h) => input[q] = Space
=============================================================================

------------------------------- MODULE Stage1 -------------------------------
(***************************************************************************)
(* Deserializer::_find_structural_bits with the comment stripper: the      *)
(* bytes that structure a document, found a block at a time and left as a  *)
(* list of indexes for stage 2.  The input is rewritten on the way, so     *)
(* that comments are spaces afterwards.                                    *)
(*                                                                         *)
(* Around it, as much of Deserializer::fill_tape as comes before stage 2:  *)
(* one set of Buffers, of a Parser or of the caller, that is used for one  *)
(* document after the other, also after one that was refused.              *)
(*                                                                         *)
(* A text is a function from offsets to classes of bytes.  A 64-bit mask   *)
(* is the set of its bits; where the code adds masks to let a carry run    *)
(* along a run of bits, so does the model (Plus, bit by bit).              *)
(***************************************************************************)
EXTENDS Integers, Sequences, FiniteSets, FiniteSetsExt

CONSTANTS
  Inputs,       \* the texts that are decoded with new buffers
  Later,        \* the texts that are decoded with used ones
  BlockSize,    \* SIMDINPUT_LENGTH, 64 in the code
  MaxLength,    \* u32::MAX
  Capacity      \* the length of input that the buffers are made for

ASSUME BlockSizeAssumption == BlockSize \in Nat \ {0} /\ BlockSize % 2 = 0
ASSUME MaxLengthAssumption == MaxLength \in Nat /\ (MaxLength + 1) % BlockSize = 0
ASSUME CapacityAssumption  == Capacity \in Nat

VARIABLES
  source,       \* the input as the caller passed it: only read by properties
  input,        \* the caller's buffer, rewritten in place
  idx,          \* where the next block starts
  structurals,  \* what was found in the last block, not yet in indexes
  indexes,      \* structural_indexes
  carry,        \* what one block leaves for the next
  invalid,      \* error_mask: a control character in a string
  broken,       \* the UTF-8 validator met an invalid sequence
  buffer,       \* input_buffer, the copy that stage 2 reads
  result        \* "scanning", or what the scan returned

scan == <<source, input, idx, structurals, indexes, carry, invalid, broken>>
vars == <<scan, buffer, result>>

-----------------------------------------------------------------------------
(* Classes of bytes.  "x" stands for all that are in none of the others,   *)
(* ":" for the structural bytes : , - | [ ] { and }, "bad" for a byte that *)
(* is not valid UTF-8 where it stands, "CTL" for the control characters    *)
(* that do not structure.                                                  *)

Structural == {":", "NL", "TAB", "CR"}
Control    == {"NL", "TAB", "CR", "CTL"}
Space      == "SPACE"
Quote      == "QUOTE"
Backslash  == "BACKSLASH"
Byte       == {"x", Space, "#", "bad", Quote, Backslash} \cup Structural \cup Control

Length(text)         == Cardinality(DOMAIN text)
Blank(text, offsets) == [k \in DOMAIN text |-> IF k \in offsets THEN Space ELSE text[k]]

ASSUME TextAssumption ==
  \A text \in Inputs \cup Later :
    IsFiniteSet(DOMAIN text) /\ text \in [0..Length(text) - 1 -> Byte]

-----------------------------------------------------------------------------
(* Masks. *)

Bit        == 0..BlockSize - 1
LastBit    == BlockSize - 1
EvenBits   == {b \in Bit : b % 2 = 0}
OddBits    == Bit \ EvenBits
Not(m)     == Bit \ m
Xor(m, n)  == (m \ n) \cup (n \ m)
Shl(m)     == {b + 1 : b \in m \ {LastBit}}
Carried(c) == IF c THEN {0} ELSE {}

(* The sum of two masks as numbers.  A bit that both have starts a carry,  *)
(* which runs on through the bits that at least one has.                   *)
Carries(m, n, b) ==
  \E c \in m \cap n : c < b /\ \A d \in c + 1..b - 1 : d \in m \cup n
Plus(m, n) ==
  [mask     |-> {b \in Bit : (b \in Xor(m, n)) # Carries(m, n, b)},
   overflow |-> Carries(m, n, BlockSize)]

(* A block; the last one is filled up with spaces. *)
Block(text, at) ==
  [b \in Bit |-> IF at + b \in DOMAIN text THEN text[at + b] ELSE Space]

Find(block, bytes) == {b \in Bit : block[b] \in bytes}

(* Mutant: the base of the block being read, not of the one that is flattened. *)
FlattenedAhead(m, next) ==
  [n \in 1..Cardinality(m) |->
     (next + (CHOOSE b \in m : Cardinality({c \in m : c < b}) = n - 1)) % (MaxLength + 1)]

(* The bits of a mask in ascending order, as offsets: they belong to the   *)
(* block before next.  Offsets are u32, and so is next, which is 0 behind  *)
(* the last block of the longest texts.                                    *)
Flattened(m, next) ==
  [n \in 1..Cardinality(m) |->
     ((next % (MaxLength + 1)) - BlockSize
        + (CHOOSE b \in m : Cardinality({c \in m : c < b}) = n - 1)) % (MaxLength + 1)]

-----------------------------------------------------------------------------
(* Comments.  A comment opens at the # that is the first byte of a line    *)
(* after spaces: adding the line starts to the spaces carries each of them *)
(* to the first byte that is not a space.  Adding the openers to what is   *)
(* no line end marks everything up to the line end in the same way.        *)

Indentation(spaces, newlines) ==
  Plus(spaces, Shl(newlines) \cup Carried(carry.indent))

(* Mutant: a line that starts with the next block is forgotten. *)
InsideIndentRuns(spaces, newlines) == Indentation(spaces, newlines).overflow

InsideIndent(spaces, newlines) ==
  Indentation(spaces, newlines).overflow \/ LastBit \in newlines

Openers(spaces, newlines, hashes) ==
  (Indentation(spaces, newlines).mask \ spaces) \cap hashes

(* Mutant: a comment ends with its block. *)
CommentBodyOfBlock(openers, newlines) == Plus(Not(newlines), openers)

CommentBody(openers, newlines) ==
  Plus(Not(newlines), openers \cup Carried(carry.comment))

Body(openers, newlines) ==
  Not(newlines) \cap Xor(Not(newlines), CommentBody(openers, newlines).mask)

(* Mutant: the first line end of the block, not the last before the comment. *)
FirstNewlinesBefore(openers, newlines) ==
  {Min({n \in newlines : n < o}) : o \in {o \in openers : \E n \in newlines : n < o}}

(* The line end in front of a comment goes with it: one in the block by    *)
(* the mask, ...                                                           *)
NewlinesBefore(openers, newlines) ==
  {Max({n \in newlines : n < o}) : o \in {o \in openers : \E n \in newlines : n < o}}

(* ... one in the block before if it is next to the comment, where it is   *)
(* the last index so far.                                                  *)
EarlierNewline(openers, newlines, emitted) ==
  {idx + o - 1 : o \in {o \in openers :
     /\ \A n \in newlines : n > o
     /\ idx + o > 0
     /\ emitted # << >> /\ emitted[Len(emitted)] = idx + o - 1}}

-----------------------------------------------------------------------------
(* Quotes. *)

(* The bytes behind an odd number of backslashes.                          *)
Backslashes(block) == Find(block, {Backslash})
RunStarts(block)   == Backslashes(block) \ Shl(Backslashes(block))
EvenStartMask      == Xor(EvenBits, Carried(carry.odd))
EvenCarries(block) == Plus(Backslashes(block), RunStarts(block) \cap EvenStartMask)
OddCarries(block)  == Plus(Backslashes(block), RunStarts(block) \ EvenStartMask)

(* Mutant: the backslashes of the block before are forgotten. *)
OddEndsOfBlock(block) ==
  ((EvenCarries(block).mask \cap OddBits) \cup (OddCarries(block).mask \cap EvenBits))
  \ Backslashes(block)

OddEnds(block) ==
  ((EvenCarries(block).mask \cap OddBits)
     \cup ((OddCarries(block).mask \cup Carried(carry.odd)) \cap EvenBits))
  \ Backslashes(block)

QuoteBits(block) == Find(block, {Quote}) \ OddEnds(block)

(* From an opening quote up to the byte in front of the closing one.       *)
QuoteMask(bits) ==
  {b \in Bit : (Cardinality({q \in bits : q <= b}) % 2 = 1) # carry.quote}

PseudoPred(found, spaces, mask, bits) == (found \ mask) \cup bits \cup spaces

(* Structural bytes outside strings, opening quotes, and the first byte of *)
(* everything else: what stands behind a space, structure or a quote.      *)
FinalizeStructurals(found, spaces, mask, bits) ==
  LET pred == PseudoPred(found, spaces, mask, bits)
  IN  ((found \ mask) \cup bits
         \cup ((Shl(pred) \cup Carried(carry.pred)) \ (spaces \cup mask)))
      \ (bits \ mask)

-----------------------------------------------------------------------------
(* The buffers.  Garbage is what this document has not written: memory as  *)
(* it was allocated, or what is left of an earlier document.               *)

Garbage          == "garbage"
Allocated(bytes) == [k \in 0..bytes - 1 |-> Garbage]

(* Mutant: the buffer keeps the size it had. *)
Kept(buf, text) == Allocated(Length(buf))

(* The buffer for a text: a new one if the text does not fit. *)
Reserved(buf, text) ==
  Allocated(IF Length(buf) < Length(text) + BlockSize
            THEN Length(text) + BlockSize ELSE Length(buf))

(* The text, and spaces behind it of which the first is made a line end.   *)
Copied(buf, text) ==
  [k \in DOMAIN buf |->
     IF k \in DOMAIN text THEN text[k]
     ELSE IF k = Length(text) THEN "NL"
     ELSE IF k < Length(text) + BlockSize THEN Space ELSE buf[k]]

-----------------------------------------------------------------------------
NoCarry == [odd |-> FALSE, quote |-> FALSE, pred |-> TRUE,
            indent |-> TRUE, comment |-> FALSE]

(* The start of fill_tape with new buffers. *)
Init ==
  /\ source \in Inputs
  /\ input = source
  /\ idx = 0
  /\ structurals = {}
  /\ indexes = << >>
  /\ carry = NoCarry
  /\ invalid = FALSE
  /\ broken = FALSE
  /\ LET new == Allocated(Capacity + BlockSize)
     IN  IF Length(source) > MaxLength
         THEN result = "InputTooLarge" /\ buffer = new
         ELSE result = "scanning" /\ buffer = Reserved(new, source)

(* What the quotes and the structure of a block are is read off the block  *)
(* after its comments are blanked; its structure and comments themselves   *)
(* are those of the block as it was.                                       *)
Scanned ==
  LET raw      == Block(input, idx)
      newlines == Find(raw, {"NL"})
      spaces   == Find(raw, {Space})
      emitted  == indexes \o Flattened(structurals, idx)
      openers  == Openers(spaces, newlines, Find(raw, {"#"}))
      blanked  == Body(openers, newlines) \cup NewlinesBefore(openers, newlines)
      earlier  == EarlierNewline(openers, newlines, emitted)
      text     == Blank(input, {idx + b : b \in blanked} \cup earlier)
      block    == Block(text, idx)
      found    == Find(raw, Structural) \ blanked
      white    == spaces \cup blanked
      bits     == QuoteBits(block)
      mask     == QuoteMask(bits)
  IN  [input       |-> text,
       indexes     |-> SubSeq(emitted, 1, Len(emitted) - Cardinality(earlier)),
       structurals |-> FinalizeStructurals(found, white, mask, bits) \ blanked,
       carry       |-> [odd     |-> OddCarries(block).overflow,
                        quote   |-> LastBit \in mask,
                        pred    |-> LastBit \in PseudoPred(found, white, mask, bits),
                        indent  |-> InsideIndent(spaces, newlines),
                        comment |-> CommentBody(openers, newlines).overflow],
       invalid     |-> mask \cap Find(block, Control) # {},
       broken      |-> "bad" \in {raw[b] : b \in Bit}]

ScanBlock ==
  \E new \in {Scanned} :
    /\ input' = new.input
    /\ indexes' = new.indexes
    /\ structurals' = new.structurals
    /\ carry' = new.carry
    /\ invalid' = (invalid \/ new.invalid)
    /\ broken' = (broken \/ new.broken)
    /\ idx' = idx + BlockSize
    /\ UNCHANGED <<source, buffer, result>>

(* The loop over whole blocks: it stops while there is still at least one  *)
(* byte left.                                                              *)
WholeBlock ==
  /\ result = "scanning"
  /\ idx < Length(input) - BlockSize
  /\ ScanBlock

(* The rest of the input, in a buffer of its own filled up with spaces.    *)
LastBlock ==
  /\ result = "scanning"
  /\ Length(input) - BlockSize <= idx
  /\ idx < Length(input)
  /\ ScanBlock

(* The end of the scan.  An accepted text is copied for stage 2 as the     *)
(* scan left it, and has its length as the last index, where the copy has  *)
(* a line end.                                                             *)
Finish ==
  LET emitted == indexes \o Flattened(structurals, idx)
  IN  /\ result = "scanning"
      /\ Length(input) <= idx
      /\ result' = IF carry.quote THEN "Syntax"
                   ELSE IF emitted = << >> THEN "Eof"
                   ELSE IF invalid THEN "Syntax"
                   ELSE IF broken THEN "InvalidUtf8" ELSE "Ok"
      /\ indexes' = IF carry.quote THEN indexes
                    ELSE IF result' = "Ok" THEN Append(emitted, Length(input)) ELSE emitted
      /\ buffer' = IF result' = "Ok" THEN Copied(buffer, input) ELSE buffer
      /\ UNCHANGED <<source, input, idx, structurals, carry, invalid, broken>>

(* The start of fill_tape with buffers as the last document left them. *)
NextDocument ==
  /\ result # "scanning"
  /\ \E text \in Later :
       /\ source' = text
       /\ input' = text
       /\ IF Length(text) > MaxLength
          THEN /\ result' = "InputTooLarge"
               /\ UNCHANGED <<idx, structurals, indexes, carry, invalid, broken, buffer>>
          ELSE /\ result' = "scanning"
               /\ idx' = 0
               /\ structurals' = {}
               /\ indexes' = << >>
               /\ carry' = NoCarry
               /\ invalid' = FALSE
               /\ broken' = FALSE
               /\ buffer' = Reserved(buffer, text)

Next == WholeBlock \/ LastBlock \/ Finish \/ NextDocument

Spec == Init /\ [][Next]_vars
=============================================================================

------------------------------ MODULE MCStage1 ------------------------------
(***************************************************************************)
(* All short texts over an alphabet: one for comments, one for strings.    *)
(* Some that are about as long as a text may be, and some to follow.       *)
(***************************************************************************)
EXTENDS Stage1Properties

(* Plus is the addition of masks as numbers. *)
Number(m) == MapThenSumSet(LAMBDA b : 2^b, m)

ASSUME PlusAdds ==
  \A m, n \in SUBSET Bit :
    LET sum == Number(m) + Number(n)
    IN  Plus(m, n) = [mask     |-> {b \in Bit : (sum \div 2^b) % 2 = 1},
                      overflow |-> sum >= 2^BlockSize]

Text(n, bytes) == [0..n - 1 -> bytes]

CommentTexts ==
  UNION {Text(n, {"x", Space, "NL", "#"}) : n \in 0..6} \cup Text(9, {Space, "NL", "#"})

StringTexts ==
  Text(7, {"x", Space, Quote, Backslash})
    \cup UNION {Text(n, {"x", ":", "NL", "#", Quote}) : n \in 4..6}

OddTexts == Text(5, {"TAB", "CTL", "bad", Quote, "#", "NL"})

LongTexts ==
  {[k \in 0..n - 1 |-> IF k = p THEN c ELSE IF k = n - 1 THEN d ELSE Space] :
     n \in 12..17, p \in 0..11, c \in {"x", "#", "NL"}, d \in {"x", ":", "NL", Quote}}

MCInputs == CommentTexts \cup StringTexts \cup OddTexts \cup LongTexts

Zero(seq) == [k \in 0..Len(seq) - 1 |-> seq[k + 1]]
MCLater ==
  {Zero(seq) : seq \in {
     << >>, <<"x">>, <<Quote>>, <<"x", "NL", "#", Quote, "NL", "x">>, <<Backslash, "bad">>,
     <<Quote, "NL", "x", Quote, Space, "x", "x">>,
     <<"x", ":", Space, "x", "NL", "x", Space, "#", "NL">>}}
    \cup {[k \in 0..15 |-> "x"]}
=============================================================================

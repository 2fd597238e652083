------------------------------- MODULE Stage2 -------------------------------
(***************************************************************************)
(* Stage 2 of the TOON parser: Deserializer::build_tape of stage2.rs.      *)
(*                                                                         *)
(* Stage 1 hands over the structural tokens of a document (its delimiters, *)
(* line ends and the first bytes of its values); stage 2 walks over them   *)
(* with a state machine and writes the tape, a depth-first listing of the  *)
(* nodes in which every container carries the number of its entries (len)  *)
(* and of the tape slots below it (count).  The value of pc is the State   *)
(* the code is in; the loops inside a State over array elements, rows and  *)
(* cells take one step per iteration (pc = "Element", "Row", "Cell",       *)
(* "EndRow").                                                              *)
(*                                                                         *)
(* Positions are 1-based: toks[i] is the token the code holds in `c`, so   *)
(* the code's test  i >= structural_indexes.len()  reads  i = N  here.     *)
(***************************************************************************)
EXTENDS Integers, Sequences, FiniteSets, SequencesExt

CONSTANTS
  Docs,           \* the documents the parser may be given
  Strict,         \* DecodeOptions::strict
  IndentSize,     \* DecodeOptions::indent_size
  Debug,          \* a build with debug assertions and overflow checks
  Numerals,       \* tokens that consist of digits only ...
  NumberOf        \* ... and the number each of them denotes

VARIABLES
  toks,     \* structural_indexes, with the byte each of them points to
  i,        \* cursor into toks: the current token
  pc,       \* state
  hdr,      \* the payload of the current State: the header that was read
  left,     \* elements or rows the current loop still has to read
  cell,     \* the field of the header that the next cell belongs to
  b,        \* the tape under construction and the scopes open on it
  pending,  \* pending_counts: declared lengths of the open block arrays
  dedent,   \* last_dedent_ws
  mem,      \* capacity reserved for the tape, and tape_slack
  lapses    \* history: deviations from the format the code let pass

vars == <<toks, i, pc, hdr, left, cell, b, pending, dedent, mem, lapses>>

-----------------------------------------------------------------------------
(* Tokens. *)

Char == Numerals \cup {":", "[", "]", "LBRACE", "RBRACE", "COMMA", "|", "TAB", "-",
                       "#", "NL", "CR",
                       "x",      \* text: the first byte of a key or a value
                       "bad"}    \* a quoted string that does not decode

(* ws: the bytes between this token and the one before it.  After a NL     *)
(* those can only be spaces, the indentation of the line.                  *)
Token == [c : Char, ws : Nat]

(* fill_tape pads the input and pushes a final '\n' structural.            *)
Document == {d \in Seq(Token) : d # << >> /\ d[Len(d)].c = "NL"}

ASSUME ConstantsAssumption ==
  /\ Docs \subseteq Document
  /\ Strict \in BOOLEAN
  /\ Debug \in BOOLEAN
  /\ IndentSize \in Nat \ {0}
  /\ NumberOf \in [Numerals -> Nat]
  /\ Numerals \cap {":", "[", "]", "LBRACE", "RBRACE", "COMMA", "|", "TAB", "-",
                    "#", "NL", "CR", "x", "bad"} = {}

N == Len(toks)
Tok(p) == IF p \in 1..N THEN toks[p].c ELSE "EOF"

(* get_value_end: the first delimiter of D, or the end of the line.  The   *)
(* callers fail on a NL that is not among the delimiters they asked for.   *)
ValueEnd(p, D) == Min({j \in p..N : Tok(j) \in D \cup {"NL"}})

(* trim_trailing_spaces leaves something of the bytes from p up to e.      *)
HasText(p, e) == \E j \in p..(e - 1) : Tok(j) # "CR"

(* parse_str succeeds on the string that starts at p.                      *)
Decodes(p) == Tok(p) # "bad"

(* The slice is `[]`, the empty array as a plain value.                    *)
IsEmptyList(p, e) ==
  /\ p + 1 < e
  /\ Tok(p) = "[" /\ Tok(p + 1) = "]" /\ toks[p + 1].ws = 0
  /\ \A j \in (p + 2)..(e - 1) : Tok(j) = "CR"

-----------------------------------------------------------------------------
(* Headers: read_header. *)

(* What read_header returns: the State payloads, field lists as the span   *)
(* lo..hi of their braces, and the token the cursor is left on.            *)
Header(type, key, n, delim, lo, hi, end) ==
  [type |-> type, key |-> key, n |-> n, delim |-> delim,
   lo |-> lo, hi |-> hi, end |-> end, root |-> FALSE]

NoHeader == Header("Fail", 0, 0, "COMMA", 0, 0, 0)

(* After the '}' that closes a nested field group the code steps over the  *)
(* next token without looking at it, unless it is another '}'.             *)
Skipped(j) == Tok(j - 1) = "RBRACE" /\ Tok(j) # "RBRACE"
Opens(j) == Tok(j) = "LBRACE" /\ ~Skipped(j)

(* Groups still open behind token j of the field list that starts at lo.   *)
Level(lo, j) ==
  Cardinality({k \in lo..j : Opens(k)}) - Cardinality({k \in lo..j : Tok(k) = "RBRACE"})

Closers(lo) == {j \in (lo + 1)..N : Level(lo, j) = 0}

IsLeaf(h, j) ==
  /\ j \in (h.lo + 1)..h.hi
  /\ Tok(j) \in {h.delim, "RBRACE"}
  /\ Tok(j - 1) # "RBRACE"
IsGroup(h, j) == j \in (h.lo + 1)..(h.hi - 1) /\ Opens(j)
IsGroupEnd(h, j) == j \in (h.lo + 1)..(h.hi - 1) /\ Tok(j) = "RBRACE"

Leaves(h) == {j \in (h.lo + 1)..h.hi : IsLeaf(h, j)}
Groups(h) == {j \in (h.lo + 1)..h.hi : IsGroup(h, j)}

(* Where the name that ends at token j of the field list starts.           *)
NameStart(h, j) ==
  1 + Max({k \in h.lo..(j - 1) :
             \/ k = h.lo
             \/ Tok(k) \in {h.delim, "LBRACE", "RBRACE"}
             \/ Tok(k - 1) = "RBRACE"})

(* The field list in braces at lo, for a header of n rows.                 *)
FieldListHeader(key, n, keyed, delim, lo) ==
  LET hi == Min(Closers(lo))
      h  == Header("TabularArray", key, n, delim, lo, hi, hi + 1)
  IN  IF \/ Closers(lo) = {}
         \/ \E j \in (lo + 1)..(hi - 1) : Tok(j) = "NL" /\ ~Skipped(j)
         \/ keyed /\ Groups(h) # {}
      THEN NoHeader
      ELSE [h EXCEPT !.type =
              IF keyed THEN "KeyedTabularObjects"
              ELSE IF Groups(h) # {} THEN "NestedFieldGroupsArray"
              ELSE "TabularArray"]

(* The header whose `[` is token p:  [N], [N:], [N|]{fields} and so on.    *)
(* The length is the text up to the next token, blanks included.           *)
BracketHeader(key, p) ==
  LET keyed == Tok(p + 2) = ":"
      q     == IF keyed THEN p + 3 ELSE p + 2
      other == Tok(q) \in {"|", "TAB"}
      delim == IF other THEN Tok(q) ELSE "COMMA"
      close == IF other THEN q + 1 ELSE q
      n     == NumberOf[Tok(p + 1)]
  IN  IF Tok(p + 1) \notin Numerals \/ Tok(close) # "]" \/ toks[p + 2].ws # 0 THEN NoHeader
      ELSE IF Tok(close + 1) = "LBRACE"
           THEN FieldListHeader(key, n, keyed, delim, close + 1)
           ELSE Header(IF keyed THEN "KeyedTabularObjects"
                       ELSE IF n = 0 THEN "EmptyArray" ELSE "SimpleArray",
                       key, n, delim, 0, 0, close + 1)

ReadHeader(p) ==
  LET e   == ValueEnd(p, {":", "["})
      key == IF HasText(p, e) THEN p ELSE 0
  IN  IF Tok(e) = "[" THEN BracketHeader(key, e)
      ELSE IF Tok(e) = ":"
      THEN IF key = 0 THEN NoHeader ELSE Header("ObjectStart", key, 0, "COMMA", 0, 0, e)
      ELSE Header(IF key = 0 THEN "EmptyObject" ELSE "PrimitiveValue",
                  key, 0, "COMMA", 0, 0, e)

-----------------------------------------------------------------------------
(* The tape and its open scopes.                                           *)
(*                                                                         *)
(* b.stack holds the frames below depth = Len(b.stack), b.indents is       *)
(* content_ws_stack, b.start and b.cnt are last_start and cnt of the       *)
(* innermost container, and r_i is Len(b.tape).  A node remembers its      *)
(* token (a tape string is a slice of the input) and, for the properties   *)
(* only, whether a string is a key and the length its header declared.     *)

Containers == {"Object", "Array"}

Node(kind, tok, declared) ==
  [kind |-> kind, tok |-> tok, len |-> 0, count |-> 0, declared |-> declared]

Write(x, node) == [x EXCEPT !.tape = Append(@, node)]
Counted(x) == [x EXCEPT !.cnt = @ + 1]

PutKey(x, p) == Counted(Write(x, Node("Key", p, -1)))
PutHeaderKey(x, key) == IF key = 0 THEN x ELSE PutKey(x, key)
PutValue(x, p) == Write(x, Node("Value", p, -1))
PutEmpty(x, kind) == Write(x, Node(kind, 0, -1))

Indent(x) == IF x.indents = << >> THEN 0 ELSE Last(x.indents)

FrameTagOfObjects(key) == "Object"                  \* mutated form of FrameTag
FrameTag(key) == IF key = 0 THEN "Array" ELSE "Object"

OpenScopeBefore(x, kind, tag, ws, declared) ==      \* mutated form of OpenScope:
  [stack   |-> Append(x.stack, [tag |-> tag, start |-> x.start, cnt |-> x.cnt]),
   indents |-> Append(x.indents, ws),
   start   |-> Len(x.tape),                         \* the slot before the container
   cnt     |-> 0,
   tape    |-> Append(x.tape, Node(kind, 0, declared))]

OpenScopeCounting(x, kind, tag, ws, declared) ==    \* ... and with cnt not reset
  [stack   |-> Append(x.stack, [tag |-> tag, start |-> x.start, cnt |-> x.cnt]),
   indents |-> Append(x.indents, ws),
   start   |-> Len(x.tape) + 1,
   cnt     |-> x.cnt,
   tape    |-> Append(x.tape, Node(kind, 0, declared))]

(* open_scope!(kind, parent: frame!(tag), indent: ws) *)
OpenScope(x, kind, tag, ws, declared) ==
  [stack   |-> Append(x.stack, [tag |-> tag, start |-> x.start, cnt |-> x.cnt]),
   indents |-> Append(x.indents, ws),
   start   |-> Len(x.tape) + 1,
   cnt     |-> 0,
   tape    |-> Append(x.tape, Node(kind, 0, declared))]

Backfill(x, k, count) == [x.tape EXCEPT ![k].len = x.cnt, ![k].count = count]

Close(x, tape) ==
  [stack   |-> Front(x.stack),
   indents |-> Front(x.indents),
   start   |-> Last(x.stack).start,
   cnt     |-> Last(x.stack).cnt,
   tape    |-> tape]

(* Mutated forms of CloseScope: count without the last slot, the parent's  *)
(* cnt not restored, the parent backfilled, the frame not popped.          *)
CloseScopeShort(x) == Close(x, Backfill(x, x.start, Len(x.tape) - x.start - 1))
CloseScopeKeepsCnt(x) ==
  [Close(x, Backfill(x, x.start, Len(x.tape) - x.start)) EXCEPT !.cnt = x.cnt]
CloseScopeUnpopped(x) ==
  [Close(x, Backfill(x, x.start, Len(x.tape) - x.start)) EXCEPT !.stack = x.stack]

(* Backfill len and count of the innermost container and return to the one *)
(* around it: close_and_pop_state! and the body of State::ScopeEnd.        *)
CloseScope(x) == Close(x, Backfill(x, x.start, Len(x.tape) - x.start))

(* The container a header declares: its own scope, or for a keyless header *)
(* that opens the document, the container already written for the root.    *)
Enter(x, kind, ws) ==
  IF hdr.root THEN [x EXCEPT !.indents = Append(@, ws)]
              ELSE OpenScope(x, kind, FrameTag(hdr.key), ws, hdr.n)

-----------------------------------------------------------------------------
(* Line ends. *)

(* eol_state_from_ws *)
IndentRelation(ws, x) ==
  IF ws = Indent(x) THEN "Sibling"
  ELSE IF ws < Indent(x) THEN "CloseScope"
  ELSE IF ws = Indent(x) + IndentSize THEN "Nested"
  ELSE "Fail"

InsideInnermostArray(ws, x, pend) ==                \* mutated form of InsideArray
  pend # << >> /\ ws >= x.indents[Last(pend).depth]

(* A line indented by ws belongs to the outermost array with items to come. *)
InsideArray(ws, x, pend) == pend # << >> /\ ws >= x.indents[Head(pend).depth]

(* get_eol_state, with the cursor on p, the scopes of x and the pending    *)
(* block arrays of pend.  An answer is the EOLState, the token the cursor  *)
(* moves to and the new last_dedent_ws.                                    *)
EolState(p, x, pend, blankIsError) ==
  LET q  == Min({j \in (p + 1)..N : Tok(j) # "NL" \/ j = N})
      ws == toks[q].ws
  IN  IF p = N THEN [is |-> "CloseScope", at |-> p, ws |-> dedent]
      ELSE IF Tok(p) # "NL" THEN [is |-> "Fail", at |-> p, ws |-> dedent]
      ELSE IF q = N THEN [is |-> "CloseScope", at |-> q, ws |-> dedent]
      ELSE [is |-> IF q > p + 1 /\ Strict /\ (blankIsError \/ InsideArray(ws, x, pend))
                   THEN "Fail" ELSE IndentRelation(ws, x),
            at |-> q, ws |-> ws]

(* Mutated forms of Cascade: compare the parent's indentation with itself, *)
(* expect a line end of its own for every scope that is closed.            *)
CascadeToSibling(x, pend) == [is |-> "Sibling", at |-> i, ws |-> dedent]
CascadeRereads(x, pend) == EolState(ValueEnd(i, {}), x, pend, FALSE)

(* Several scopes close at one line end: the first to close has read it,   *)
(* the others go by the indentation it measured.                           *)
Cascade(x, pend) == [is |-> IndentRelation(dedent, x), at |-> i, ws |-> dedent]

-----------------------------------------------------------------------------
(* Capacity of the tape. *)

(* grow_res!(minimum) *)
Grow(m, minimum) ==
  LET added == Max({m.cap \div 5, minimum})
  IN  [cap |-> m.cap + added, slack |-> m.slack + added]

SetAsideUnchecked(m, deficit) == m                  \* mutated form of SetAside

(* Set `deficit` slots of slack aside, growing the tape if there are fewer. *)
SetAside(m, deficit) ==
  LET g == IF deficit > m.slack THEN Grow(m, deficit - m.slack) ELSE m
  IN  [g EXCEPT !.slack = @ - deficit]

-----------------------------------------------------------------------------
(* Ways a step can end. *)

Goto(next, x, p) == pc' = next /\ b' = x /\ i' = p

(* s2try! and fail!: the parser returns an error and nothing of it is used. *)
Fail == pc' = "Failed" /\ UNCHANGED <<i, b, dedent>>

(* An arithmetic underflow or a failed debug_assert!: a debug build        *)
(* panics.  Where a release build wraps instead, the document is rejected. *)
Underflow == pc' = (IF Debug THEN "Panicked" ELSE "Failed") /\ UNCHANGED <<i, b, dedent>>

(* Continue with the state that `arms` names for the EOLState e, and fail  *)
(* if it names none.                                                       *)
Follow(e, x, arms) ==
  IF e.is \in DOMAIN arms
  THEN Goto(arms[e.is], x, e.at) /\ dedent' = e.ws
  ELSE Fail

(* The State that handles a header of each kind. *)
Arm(type, first) ==
  CASE type = "EmptyArray" -> "ParseEmptyArray"
    [] type = "KeyedTabularObjects" -> "ParseTabularObjects"
    [] type = "TabularArray" ->
         IF first /\ ~Strict THEN "ParseTabularArrayLenient" ELSE "ParseTabularArrayStrict"
    [] type = "NestedFieldGroupsArray" -> "ParseNestedFieldGroupsArrayStrict"

(* Hand the header h over to its State; `first` says it is the document's  *)
(* first, the only one that can be the root and the only one for which     *)
(* lenient mode is looked at.                                              *)
Dispatch(h, x, first) ==
  /\ hdr' = [h EXCEPT !.root = first /\ h.key = 0]
  /\ \/ /\ h.type = "ObjectStart"
        /\ Decodes(h.key)
        /\ Goto("ParseSimpleObjectValue", PutKey(x, h.key), h.end + 1)
        /\ UNCHANGED dedent
     \/ /\ h.type = "SimpleArray"
        /\ h.end < N
        /\ Goto(IF Tok(h.end + 1) = "NL" THEN "ParseBlockArray" ELSE "ParseInlineArray",
                x, h.end + 1)
        /\ UNCHANGED dedent
     \/ /\ h.type \in {"EmptyArray", "KeyedTabularObjects", "TabularArray",
                       "NestedFieldGroupsArray"}
        /\ Goto(Arm(h.type, first), x, h.end)
        /\ UNCHANGED dedent
     \/ /\ \/ h.type \in {"PrimitiveValue", "EmptyObject", "Fail"}
           \/ h.type = "ObjectStart" /\ ~Decodes(h.key)
           \/ h.type = "SimpleArray" /\ h.end = N
        /\ Fail

-----------------------------------------------------------------------------
(* The states. *)

NoTape == [stack |-> << >>, indents |-> << >>, start |-> 1, cnt |-> 0, tape |-> << >>]

Init ==
  /\ toks \in Docs
  /\ i = 1
  /\ pc = "Start"
  /\ hdr = NoHeader
  /\ left = 0
  /\ cell = 0
  /\ b = NoTape
  /\ pending = << >>
  /\ dedent = 0
  /\ mem = [cap |-> Max({4, N + N \div 5}), slack |-> N \div 5]
  /\ lapses = {}

(* The prologue: skip blank lines, read the first header, and write the    *)
(* container the document's root is, unless it is a lone primitive value.  *)
Start ==
  /\ pc = "Start"
  /\ LET first == IF Tok(1) = "#" THEN 2 ELSE 1
         lines == {j \in first..N : Tok(j) # "NL"}
         h     == ReadHeader(Min(lines))
         array == h.key = 0 /\ h.type \in {"SimpleArray", "EmptyArray", "TabularArray",
                                           "NestedFieldGroupsArray"}
         root  == [stack   |-> <<[tag |-> "Start", start |-> 1, cnt |-> 0]>>,
                   indents |-> <<0>>, start |-> 1, cnt |-> 0,
                   tape    |-> <<Node(IF array THEN "Array" ELSE "Object", 0,
                                      IF h.key = 0 THEN h.n ELSE -1)>>]
     IN  IF lines = {} THEN Fail /\ UNCHANGED hdr
         ELSE IF h.type = "PrimitiveValue"
         THEN /\ IF h.end = N /\ Decodes(h.key)
                 THEN Goto("Success", PutValue(b, h.key), N) /\ UNCHANGED dedent
                 ELSE Fail
              /\ UNCHANGED hdr
         ELSE Dispatch(h, root, TRUE)
  /\ UNCHANGED <<toks, left, cell, pending, mem, lapses>>

(* A field of the innermost object.  A header without a key is let pass    *)
(* (and its container opened as if the object were an array).              *)
ParseHeader ==
  /\ pc = "ParseHeader"
  /\ LET h == ReadHeader(i) IN
     /\ Dispatch(h, b, FALSE)
     /\ lapses' = IF h.key = 0 /\ pc' # "Failed"
                  THEN lapses \cup {"keyless field"} ELSE lapses
  /\ UNCHANGED <<toks, left, cell, pending, mem>>

(* Behind the colon of `key:`. *)
ParseSimpleObjectValue ==
  /\ pc = "ParseSimpleObjectValue"
  /\ LET e   == EolState(i, b, pending, FALSE)
         end == ValueEnd(i, {})
         x   == IF IsEmptyList(i, end) THEN PutEmpty(b, "Array") ELSE PutValue(b, i)
     IN  \/ /\ Tok(i) = "NL" /\ i = N
            /\ Goto("ScopeEnd", PutEmpty(b, "Object"), i)
            /\ UNCHANGED <<dedent, lapses>>
         \/ /\ Tok(i) = "NL" /\ i < N
            /\ CASE e.is = "Nested" ->
                      Follow(e, OpenScope(b, "Object", "Object", Indent(b) + IndentSize, -1),
                             [Nested |-> "ParseHeader"])
                 [] e.is = "Sibling" ->
                      Follow(e, PutEmpty(b, "Object"), [Sibling |-> "ParseHeader"])
                 [] e.is = "CloseScope" ->     \* and no value is written
                      Follow(e, b, [CloseScope |-> "ScopeEnd"])
                 [] e.is = "Fail" -> Fail
            /\ lapses' = IF e.is = "CloseScope" THEN lapses \cup {"no value"} ELSE lapses
         \/ /\ Tok(i) # "NL"
            /\ IF IsEmptyList(i, end) \/ Decodes(i)
               THEN Follow(EolState(end, x, pending, FALSE), x,
                           [Sibling |-> "ParseHeader", CloseScope |-> "ScopeEnd"])
               ELSE Fail
            /\ UNCHANGED lapses
  /\ UNCHANGED <<toks, hdr, left, cell, pending, mem>>

(* `key[0]:`, complete on its own line. *)
ParseEmptyArray ==
  /\ pc = "ParseEmptyArray"
  /\ LET y == PutHeaderKey(b, hdr.key)
         x == Enter(y, "Array", Indent(y) + IndentSize)
     IN  IF i < N /\ Decodes(hdr.key)
         THEN Follow(EolState(i + 1, x, pending, FALSE), x,
                     [Sibling |-> "ScopeEnd", CloseScope |-> "ScopeEnd"])
         ELSE Fail
  /\ UNCHANGED <<toks, hdr, left, cell, pending, mem, lapses>>

(* `key[n]: v, v, v`: open the array, then read its elements one by one.   *)
ParseInlineArray ==
  /\ pc = "ParseInlineArray"
  /\ LET y == PutHeaderKey(b, hdr.key)
         x == Enter(y, "Array", IF hdr.root THEN Indent(y) + IndentSize ELSE Indent(y))
     IN  IF Decodes(hdr.key)
         THEN Goto("Element", x, i) /\ left' = hdr.n /\ UNCHANGED dedent
         ELSE Fail /\ UNCHANGED left
  /\ UNCHANGED <<toks, hdr, cell, pending, mem, lapses>>

(* Mutated form of ElementEnds: the values go on in the next line.         *)
ElementEndsAnywhere ==
  IF left > 1 THEN {hdr.delim} \cup (IF ValueEnd(i, {}) < N THEN {"NL"} ELSE {}) ELSE {"NL"}

(* Every element but the last ends at a delimiter, the last at the line's  *)
(* end, whatever it contains.                                              *)
ElementEnds == IF left > 1 THEN {hdr.delim} ELSE {"NL"}

(* The loop over the elements of an inline array, one of them a step.      *)
Element ==
  /\ pc = "Element"
  /\ LET delims == ElementEnds
         end    == ValueEnd(i, delims)
         x      == PutValue(Counted(b), i)
     IN  IF Tok(end) \notin delims \/ ~Decodes(i) THEN Fail
         ELSE IF left > 1 THEN Goto("Element", x, end + 1) /\ UNCHANGED dedent
         ELSE Follow(EolState(end, x, pending, TRUE), x,
                     [Sibling |-> "ScopeEnd", CloseScope |-> "ScopeEnd"])
  /\ left' = left - 1
  /\ UNCHANGED <<toks, hdr, cell, pending, mem, lapses>>

PendingOutside(x) == [depth |-> Len(x.stack) - 1, n |-> hdr.n]  \* mutated forms of
PendingInside(x) == [depth |-> Len(x.stack) + 1, n |-> hdr.n]   \* PendingCount

(* The entry of pending_counts for the array that was just opened.         *)
PendingCount(x) == [depth |-> Len(x.stack), n |-> hdr.n]

(* `key[n]:` with its items on the lines below.                            *)
ParseBlockArray ==
  /\ pc = "ParseBlockArray"
  /\ LET y == PutHeaderKey(b, hdr.key)
         e == EolState(i, y, pending, FALSE)
         x == Enter(y, "Array", Indent(y) + IndentSize)
     IN  IF Decodes(hdr.key) /\ e.is = "Nested"
         THEN /\ Follow(e, x, [Nested |-> "ExpectBlockArrayItem"])
              /\ pending' = Append(pending, PendingCount(x))
         ELSE Fail /\ UNCHANGED pending
  /\ UNCHANGED <<toks, hdr, left, cell, mem, lapses>>

BehindHyphenOfLevel(h) == IndentSize                \* mutated form of BehindHyphen

(* How far the scope of an item lies inside its array: the fields of an    *)
(* object stand behind the hyphen, whatever a level of indentation is.     *)
BehindHyphen(h) == IF h.type = "ObjectStart" THEN 2 ELSE IndentSize

(* `- ...`: a value, an empty object, or the first field of an object.     *)
ExpectBlockArrayItem ==
  /\ pc = "ExpectBlockArrayItem"
  /\ LET h       == ReadHeader(i + 1)
         x       == Counted(b)
         simple  == h.type \in {"PrimitiveValue", "EmptyObject"}
         y       == IF h.type = "EmptyObject" THEN PutEmpty(x, "Object")
                                              ELSE PutValue(x, h.key)
         ws      == Indent(x) + BehindHyphen(h)
         checked == Strict /\ pending # << >>
         own     == Last(pending).depth = Len(b.stack)
     IN  \/ /\ checked /\ Debug /\ ~own          \* debug_assert_eq!(d, depth)
            /\ Tok(i) = "-"
            /\ Underflow /\ UNCHANGED hdr
         \/ /\ \/ Tok(i) # "-"
               \/ checked /\ own /\ b.cnt >= Last(pending).n
            /\ Fail /\ UNCHANGED hdr
         \/ /\ Tok(i) = "-"
            /\ checked => IF own THEN b.cnt < Last(pending).n ELSE ~Debug
            /\ IF ~simple
               THEN Dispatch(h, IF h.key = 0 THEN x ELSE OpenScope(x, "Object", "Array", ws, -1),
                             FALSE)
               ELSE /\ IF Decodes(h.key)
                       THEN Follow(EolState(h.end, y, pending, FALSE), y,
                                   [Sibling |-> "ExpectBlockArrayItem",
                                    CloseScope |-> "ScopeEnd"])
                       ELSE Fail
                    /\ UNCHANGED hdr
  /\ UNCHANGED <<toks, left, cell, pending, mem, lapses>>

-----------------------------------------------------------------------------
(* Tables: the four states whose header carries a field list.              *)

(* The part they share: step past the header's colon, require a nested     *)
(* line, and open the container of the rows.                               *)
OpenTable(kind, next) ==
  LET y == PutHeaderKey(b, hdr.key)
      e == EolState(i + 1, y, pending, FALSE)
  IN  IF i < N /\ Decodes(hdr.key) /\ e.is = "Nested"
      THEN Follow(e, Enter(y, kind, Indent(y) + IndentSize), [Nested |-> next])
      ELSE Fail

RowsOrEnd == IF hdr.n > 0 THEN "Row" ELSE "ScopeEnd"

(* `key[n:]{f,g}:`, an object with one object per row.                     *)
ParseTabularObjects ==
  /\ pc = "ParseTabularObjects"
  /\ OpenTable("Object", RowsOrEnd)
  /\ left' = hdr.n
  /\ hdr' = [hdr EXCEPT !.type = pc]
  /\ UNCHANGED <<toks, cell, pending, mem, lapses>>

(* `key[n]{f,g}:`, an array with one object per row. *)
ParseTabularArrayStrict ==
  /\ pc = "ParseTabularArrayStrict"
  /\ OpenTable("Array", RowsOrEnd)
  /\ left' = hdr.n
  /\ hdr' = [hdr EXCEPT !.type = pc]
  /\ mem' = SetAside(mem, hdr.n)
  /\ UNCHANGED <<toks, cell, pending, lapses>>

(* The same without strict mode: as many rows as there are. *)
ParseTabularArrayLenient ==
  /\ pc = "ParseTabularArrayLenient"
  /\ OpenTable("Array", "Row")
  /\ left' = 0
  /\ hdr' = [hdr EXCEPT !.type = pc]
  /\ UNCHANGED <<toks, cell, pending, mem, lapses>>

(* `key[n]{f,g{h,i}}:`.  With n = 0 the bound of the row loop, n - 1,      *)
(* underflows: a release build then asks for more rows than any document   *)
(* has lines.                                                              *)
ParseNestedFieldGroupsArrayStrict ==
  /\ pc = "ParseNestedFieldGroupsArrayStrict"
  /\ \/ hdr.n = 0 /\ Debug /\ OpenTable("Array", "Panicked")
     \/ ~(hdr.n = 0 /\ Debug) /\ OpenTable("Array", "Row")
  /\ left' = IF hdr.n = 0 THEN N + 1 ELSE hdr.n
  /\ hdr' = [hdr EXCEPT !.type = pc]
  /\ mem' = SetAside(mem, hdr.n * (1 + 2 * Cardinality(Groups(hdr))))
  /\ UNCHANGED <<toks, cell, pending, lapses>>

(* The row's object; in a table of objects its key comes first.  A keyed   *)
(* header without a field list has no last header: len - 1 underflows.     *)
Row ==
  /\ pc = "Row"
  /\ LET end    == ValueEnd(i, {":"})
         keyed  == hdr.type = "ParseTabularObjects"
         fields == {j \in (hdr.lo + 1)..hdr.hi : IsLeaf(hdr, j) \/ IsGroup(hdr, j)}
         row(x, tag) == OpenScope(x, "Object", tag, Indent(x), -1)
     IN  /\ cell' = IF hdr.lo = 0 THEN 0 ELSE Min(fields)
         /\ \/ /\ ~keyed
               /\ Goto("Cell", row(Counted(b), "Array"), i)
               /\ UNCHANGED dedent
            \/ /\ keyed /\ Tok(end) = ":" /\ Decodes(i) /\ hdr.lo # 0
               /\ Goto("Cell", row(PutKey(b, i), "Object"), end + 1)
               /\ UNCHANGED dedent
            \/ /\ keyed /\ Tok(end) = ":" /\ Decodes(i) /\ hdr.lo = 0
               /\ Underflow
            \/ /\ keyed /\ (Tok(end) # ":" \/ ~Decodes(i))
               /\ Fail
  /\ mem' = IF hdr.type # "ParseTabularArrayLenient" THEN mem
            ELSE LET g == IF mem.slack <= 1 THEN Grow(mem, 1) ELSE mem
                 IN  [g EXCEPT !.slack = @ - 1]
  /\ UNCHANGED <<toks, hdr, left, pending, lapses>>

CellEndsAnywhere(last) == {"NL"} \cup (IF last THEN {} ELSE {hdr.delim})  \* mutated form

(* What a cell runs up to. *)
CellEnds(last) == IF last THEN {"NL"} ELSE {hdr.delim}

(* Token `cell` of the field list: a field takes the next value of the     *)
(* row, the last one up to the line's end; a group opens an object, and    *)
(* its '}' closes it (after the value of the field it ends, if any).       *)
Cell ==
  /\ pc = "Cell"
  /\ LET leaf   == IsLeaf(hdr, cell)
         last   == \A j \in Leaves(hdr) : j <= cell
         delims == CellEnds(last)
         end    == ValueEnd(i, delims)
         name   == NameStart(hdr, cell)
         y      == IF leaf THEN PutValue(PutKey(b, name), i)
                   ELSE IF IsGroup(hdr, cell)
                   THEN OpenScope(PutKey(b, name), "Object", "Object", Indent(b), -1)
                   ELSE b
         x      == IF IsGroupEnd(hdr, cell) THEN CloseScope(y) ELSE y
         todo   == {j \in (cell + 1)..hdr.hi :
                      IsLeaf(hdr, j) \/ IsGroup(hdr, j) \/ IsGroupEnd(hdr, j)}
         noCell == hdr.type = "ParseTabularObjects" /\ last /\ ~HasText(i, end)
                     /\ Cardinality(Leaves(hdr)) = 1
         next   == IF todo = {} THEN "EndRow" ELSE "Cell"
     IN  /\ cell' = IF todo = {} THEN hdr.hi ELSE Min(todo)
         /\ \/ /\ leaf
               /\ Tok(end) \in delims /\ Decodes(i) /\ Decodes(name) /\ ~noCell
               /\ Goto(next, x, IF Tok(end) = "NL" THEN end ELSE end + 1)
               /\ UNCHANGED dedent
            \/ /\ ~leaf
               /\ IsGroup(hdr, cell) => Decodes(name)
               /\ Goto(next, x, i)
               /\ UNCHANGED dedent
            \/ /\ \/ leaf /\ (Tok(end) \notin delims \/ ~Decodes(i) \/ ~Decodes(name) \/ noCell)
                  \/ IsGroup(hdr, cell) /\ ~Decodes(name)
               /\ Fail
  /\ UNCHANGED <<toks, hdr, left, pending, mem, lapses>>

(* Close the row's object.  The line end behind the last row is left to    *)
(* ScopeEnd; every other row must be followed by a sibling line, except    *)
(* that in lenient mode a shallower line ends the table.                   *)
EndRow ==
  /\ pc = "EndRow"
  /\ LET x == CloseScope(b)
         lenient == hdr.type = "ParseTabularArrayLenient"
     IN  IF left = 1 /\ ~lenient
         THEN Goto("ScopeEnd", x, i) /\ UNCHANGED dedent
         ELSE Follow(EolState(i, x, pending, TRUE), x,
                     IF lenient THEN [Sibling |-> "Row", CloseScope |-> "ScopeEnd"]
                                ELSE [Sibling |-> "Row"])
  /\ left' = IF left = 0 THEN 0 ELSE left - 1
  /\ UNCHANGED <<toks, hdr, cell, pending, mem, lapses>>

-----------------------------------------------------------------------------

(* The block array that ends here has more or fewer items than declared.   *)
WrongCount(n) == b.cnt # n

(* ScopeEnd: close the innermost container and go on in the one around it. *)
(* A line end that is still unread is read now; otherwise this close is    *)
(* part of a cascade and last_dedent_ws says how far it goes.              *)
ScopeEnd ==
  /\ pc = "ScopeEnd"
  /\ LET own  == pending # << >> /\ Last(pending).depth = Len(b.stack)
         pend == IF own THEN Front(pending) ELSE pending
         x    == CloseScope(b)
         tag  == Last(b.stack).tag
         e    == IF Tok(i) = "NL" THEN EolState(i, x, pend, FALSE) ELSE Cascade(x, pend)
         back == IF tag = "Object" THEN "ParseHeader" ELSE "ExpectBlockArrayItem"
     IN  /\ pending' = pend
         /\ IF Strict /\ own /\ WrongCount(Last(pending).n) THEN Fail
            ELSE \/ /\ tag = "Start"
                    /\ IF \A j \in i..(N - 1) : Tok(j) = "NL"
                       THEN Goto("Success", x, N) /\ UNCHANGED dedent
                       ELSE Fail
                 \/ /\ tag = "Array" /\ i = N
                    /\ Goto("ScopeEnd", x, i) /\ UNCHANGED dedent
                 \/ /\ tag = "Object" \/ (tag = "Array" /\ i < N)
                    /\ Follow(e, x, [Sibling |-> back, CloseScope |-> "ScopeEnd"])
  /\ UNCHANGED <<toks, hdr, left, cell, mem, lapses>>

Done == pc \in {"Success", "Failed", "Panicked"}

(* build_tape returns; the process that called it goes on.                 *)
Return == Done /\ UNCHANGED vars

Next ==
  \/ Start \/ ParseHeader \/ ParseSimpleObjectValue \/ ParseEmptyArray
  \/ ParseInlineArray \/ Element \/ ParseBlockArray \/ ExpectBlockArrayItem
  \/ ParseTabularObjects \/ ParseTabularArrayStrict \/ ParseTabularArrayLenient
  \/ ParseNestedFieldGroupsArrayStrict \/ Row \/ Cell \/ EndRow
  \/ ScopeEnd \/ Return

(* build_tape begins, and its loop takes its next step, on one thread.     *)
Fairness == <>(pc # "Start") /\ WF_vars(pc # "Start" /\ Next)

Spec == Init /\ [][Next]_vars /\ Fairness
=============================================================================

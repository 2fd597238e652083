-------------------------- MODULE Stage2Properties --------------------------
(***************************************************************************)
(* What stage 2 promises about the tape it returns and about the state it  *)
(* keeps on the way.                                                       *)
(***************************************************************************)
EXTENDS Stage2

-----------------------------------------------------------------------------
(* Types. *)

HeaderTypes == {"PrimitiveValue", "ObjectStart", "EmptyObject", "SimpleArray",
                "EmptyArray", "KeyedTabularObjects", "TabularArray",
                "NestedFieldGroupsArray", "Fail"}

TableStates == {"ParseTabularObjects", "ParseTabularArrayStrict",
                "ParseTabularArrayLenient", "ParseNestedFieldGroupsArrayStrict"}

States == TableStates \cup
          {"Start", "ParseHeader", "ParseSimpleObjectValue", "ParseEmptyArray",
           "ParseInlineArray", "Element", "ParseBlockArray", "ExpectBlockArrayItem",
           "Row", "Cell", "EndRow", "ScopeEnd", "Success", "Failed", "Panicked"}

Headers == [type : HeaderTypes \cup TableStates, key : Nat, n : Nat,
            delim : {"COMMA", "|", "TAB"}, lo : Nat, hi : Nat, end : Nat, root : BOOLEAN]

Nodes == [kind : {"Key", "Value"} \cup Containers, tok : Nat, len : Nat, count : Nat,
          declared : Nat \cup {-1}]

Frames == [tag : {"Start", "Object", "Array"}, start : Nat \ {0}, cnt : Nat]

Builders == [stack : Seq(Frames), indents : Seq(Nat), start : Nat \ {0}, cnt : Nat,
             tape : Seq(Nodes)]

TypeOK ==
  /\ toks \in Document
  /\ i \in 1..N
  /\ pc \in States
  /\ hdr \in Headers
  /\ left \in Nat
  /\ cell \in Nat
  /\ b \in Builders
  /\ pending \in Seq([depth : Nat \ {0}, n : Nat])
  /\ dedent \in Nat
  /\ mem \in [cap : Nat, slack : Nat]
  /\ lapses \subseteq {"keyless field", "no value"}

-----------------------------------------------------------------------------
(* The scopes open on the tape. *)

Depth == Len(b.stack)
Running == ~Done /\ pc # "Start"

(* The slot CloseScope backfills, and the slot every saved frame comes     *)
(* back to, hold a container: the arms of close_and_pop_state! and of      *)
(* ScopeEnd that fail because the slot holds anything else are never taken,*)
(* and no write to the tape is out of its bounds.                          *)
BackfillHitsContainer ==
  Running =>
    /\ Depth > 0
    /\ b.start \in 1..Len(b.tape)
    /\ b.tape[b.start].kind \in Containers
    /\ \A d \in 2..Depth :
         /\ b.stack[d].start \in 1..Len(b.tape)
         /\ b.tape[b.stack[d].start].kind \in Containers

(* pending_counts lists open block arrays from the outermost inwards, so   *)
(* that a count is only ever compared by the scope it belongs to, and      *)
(* content_ws_stack[d - 1] in get_eol_state! is never out of bounds.       *)
PendingWithinScopes ==
  Running =>
    /\ \A k \in 1..Len(pending) : pending[k].depth \in 1..Depth
    /\ \A k \in 1..(Len(pending) - 1) : pending[k].depth < pending[k + 1].depth
    /\ Len(b.indents) >= Depth

(* The scopes nest: the frame of the document is at the bottom and nowhere *)
(* else, frames point ever deeper into the tape, each one is tagged with   *)
(* the kind of the container it returns to (unless a header without a key  *)
(* was let pass in an object), and no scope is indented less than the one  *)
(* around it.                                                              *)
ScopesNest ==
  Running =>
    LET starts == [d \in 2..(Depth + 1) |-> IF d > Depth THEN b.start ELSE b.stack[d].start]
    IN  /\ \A d \in 1..Depth : (b.stack[d].tag = "Start") <=> (d = 1)
        /\ \A d \in 2..Depth : starts[d] < starts[d + 1]
        /\ "keyless field" \notin lapses =>
             \A d \in 2..Depth : b.tape[b.stack[d].start].kind = b.stack[d].tag
        /\ \A d \in 1..(Len(b.indents) - 1) : b.indents[d] <= b.indents[d + 1]

(* debug_assert_eq!(d, depth): while an item is read, the innermost array  *)
(* with a declared length is the innermost scope, so that the item counts  *)
(* for its own array.  It is so unless a header without a key was let pass *)
(* in an object.                                                           *)
ItemsAreCounted ==
  pc = "ExpectBlockArrayItem" /\ lapses = {} =>
    pending # << >> /\ Last(pending).depth = Depth /\ b.tape[b.start].kind = "Array"

-----------------------------------------------------------------------------
(* The tape of a document that was accepted. *)

Tape == b.tape
End(k) == k + Tape[k].count

(* Node j of the tape t ends before what comes behind it: the slots below  *)
(* it.  The entries of the container at k, if it extends to e, are the     *)
(* nodes between that are below no other.                                  *)
EndIn(t, k) == k + t[k].count
EntriesIn(t, k, e) == {j \in (k + 1)..e : \A m \in (k + 1)..(j - 1) : EndIn(t, m) < j}
KeysIn(t, k, e) == {j \in EntriesIn(t, k, e) : t[j].kind = "Key"}

(* It holds len values, or len pairs of a key and a value.                 *)
Holds(t, k, e, len) ==
  /\ t[k].kind = "Array" =>
       KeysIn(t, k, e) = {} /\ Cardinality(EntriesIn(t, k, e)) = len
  /\ t[k].kind = "Object" =>
       /\ Cardinality(KeysIn(t, k, e)) = len
       /\ Cardinality(EntriesIn(t, k, e)) = 2 * len
       /\ \A j \in KeysIn(t, k, e) : j + 1 \in EntriesIn(t, k, e) \ KeysIn(t, k, e)

(* Every container spans exactly its entries: spans nest, an array has len *)
(* values and an object len pairs of a key and a value.  This is what every*)
(* reader of the tape (value/tape, the DOM builders, serde) relies on      *)
(* without checking it.                                                    *)
NodeWellFormed(t, k) ==
  /\ EndIn(t, k) <= Len(t)
  /\ \A j \in EntriesIn(t, k, EndIn(t, k)) : EndIn(t, j) <= EndIn(t, k)
  /\ Holds(t, k, EndIn(t, k), t[k].len)
  /\ t[k].kind \notin Containers => t[k].len = 0 /\ t[k].count = 0

WholeTapeWellFormed(t) ==
  /\ t # << >> /\ t[1].kind # "Key"
  /\ EndIn(t, 1) = Len(t)
  /\ \A k \in 1..Len(t) : NodeWellFormed(t, k)

TapeWellFormed == pc = "Success" => WholeTapeWellFormed(Tape)

(* The same for the documents in which no deviation was let pass.          *)
TapeWellFormedOtherwise == pc = "Success" /\ lapses = {} => WholeTapeWellFormed(Tape)

(* On the tape of a document that strict mode accepts every array and table*)
(* has as many entries as its header declares.  This says nothing of the   *)
(* text: what an inline array or a row has too much is on the tape as part *)
(* of its last value (ValuesAsDeclared).                                   *)
TapeAsDeclared ==
  pc = "Success" /\ Strict =>
    \A k \in 1..Len(Tape) :
      Tape[k].kind \in Containers /\ Tape[k].declared # -1 => Tape[k].len = Tape[k].declared

-----------------------------------------------------------------------------
(* The layout of an accepted document. *)

LineStarts == {j \in 1..N : Tok(j) # "NL" /\ (j = 1 \/ Tok(j - 1) = "NL")}
FirstLine == Min(LineStarts)
LineOf(t) == Max({j \in LineStarts : j <= t})

(* The root's indentation is 0 however far the first line is indented.     *)
WsOf(l) == IF l = FirstLine THEN 0 ELSE toks[l].ws

(* Where the text of a line begins: at its start or, if the line is an     *)
(* item of an array, behind the hyphen.                                    *)
BeginsLine(t, l) == t = l \/ (t = l + 1 /\ Tok(l) = "-")
Column(t) == WsOf(LineOf(t)) + (IF t \in LineStarts THEN 0 ELSE 2)

LineKeys == {k \in 1..Len(Tape) :
               Tape[k].kind = "Key" /\ BeginsLine(Tape[k].tok, LineOf(Tape[k].tok))}

OwnerOf(k) == Max({m \in 1..(k - 1) : Tape[m].kind \in Containers /\ k <= End(m)})

(* By the layout two keys belong to one object if they stand in the same   *)
(* column and no line from the one to the other begins further left.       *)
SameObjectByLayout(s, t) ==
  /\ Column(s) = Column(t)
  /\ \A l \in LineStarts : LineOf(s) < l /\ l <= LineOf(t) => WsOf(l) >= Column(s)

(* Indentation decides: two keys are fields of one object on the tape if   *)
(* and only if they are by the layout of the document.                     *)
LayoutDecides ==
  pc = "Success" /\ lapses = {} =>
    \A k, m \in LineKeys :
      Tape[k].tok < Tape[m].tok =>
        ((OwnerOf(k) = OwnerOf(m)) <=> SameObjectByLayout(Tape[k].tok, Tape[m].tok))

(* Nothing is lost: every line of an accepted document is on the tape,     *)
(* with exactly one node that stands for what the line begins with.        *)
EveryLineOnTape ==
  pc = "Success" =>
    \A l \in LineStarts :
      Tok(IF Tok(l) = "-" THEN l + 1 ELSE l) \in {"x"} \cup Numerals =>
        Cardinality({k \in 1..Len(Tape) :
                       Tape[k].kind \in {"Key", "Value"} /\ BeginsLine(Tape[k].tok, l)}) = 1

HeaderAt(l) == ReadHeader(IF Tok(l) = "-" THEN l + 1 ELSE l)
HeaderBefore(v) == HeaderAt(LineOf(Tape[v].tok))

(* The arrays on the tape whose values stand behind their header.          *)
InlineArrays ==
  {k \in 1..(Len(Tape) - 1) :
     /\ Tape[k].kind = "Array" /\ Tape[k + 1].kind = "Value"
     /\ HeaderBefore(k + 1).type = "SimpleArray"
     /\ Tape[k + 1].tok = HeaderBefore(k + 1).end + 1}

(* The values that are written between the header and the line's end.      *)
ValuesWritten(k) ==
  LET v == Tape[k + 1].tok
  IN  1 + Cardinality({j \in v..ValueEnd(v, {}) : Tok(j) = HeaderBefore(k + 1).delim})

(* The exception: of more values than declared the last one takes what is  *)
(* left of the line.                                                       *)
TakesSurplus(k) == ValuesWritten(k) > HeaderBefore(k + 1).n

(* Strict mode accepts an inline array only with as many values behind the *)
(* header as it declares, and puts so many on the tape, unless there is a  *)
(* surplus (which "throws when inline values outnumber the declared length"*)
(* in tests/fixtures/validation-errors.json wants refused).                *)
ValuesAsDeclared ==
  pc = "Success" /\ Strict =>
    \A k \in InlineArrays :
      /\ Tape[k].len = HeaderBefore(k + 1).n
      /\ ~TakesSurplus(k) => ValuesWritten(k) = Tape[k].len

(* The cells of the tables: values whose key stands in the field list of a *)
(* header.                                                                 *)
Cells == {v \in 2..Len(Tape) :
            /\ Tape[v].kind = "Value" /\ Tape[v - 1].kind = "Key"
            /\ ~BeginsLine(Tape[v - 1].tok, LineOf(Tape[v - 1].tok))}

(* Every row of a table fills each field of its header exactly once, in    *)
(* the order of the header and from a single line, with a delimiter behind *)
(* every cell but the last.  The last one takes what is left of the line:  *)
(* more delimiters than fields are the exception.                          *)
RowsFillFields ==
  pc = "Success" =>
    \A v \in Cells :
      LET h   == HeaderAt(LineOf(Tape[v - 1].tok))
          row == {w \in Cells : LineOf(Tape[w].tok) = LineOf(Tape[v].tok)}
          fst == Min({Tape[w].tok : w \in row})
      IN  /\ Cardinality({j \in fst..ValueEnd(fst, {}) : Tok(j) = h.delim}) + 1
               >= Cardinality(Leaves(h))
          /\ {Tape[w - 1].tok : w \in row} = {NameStart(h, j) : j \in Leaves(h)}
          /\ \A w, u \in row : w < u => /\ Tape[w - 1].tok < Tape[u - 1].tok
                                       /\ Tape[w].tok < Tape[u].tok

(* The header lines of tables and block arrays. *)
ArrayHeaders ==
  {l \in LineStarts :
     \/ HeaderAt(l).type \in {"KeyedTabularObjects", "TabularArray", "NestedFieldGroupsArray"}
     \/ /\ HeaderAt(l).type = "SimpleArray"
        /\ HeaderAt(l).end < N /\ Tok(HeaderAt(l).end + 1) = "NL"}

(* Strict mode accepts no blank line inside a block array or a table, that *)
(* is before a line that still belongs to it, other than directly behind   *)
(* the header.                                                             *)
NoBlankLineInArray ==
  pc = "Success" /\ Strict =>
    \A l \in LineStarts, h \in ArrayHeaders :
      l > h /\ Tok(l - 2) = "NL" /\ (\A m \in LineStarts : h < m /\ m <= l => WsOf(m) > WsOf(h))
        => \A m \in LineStarts : ~(h < m /\ m < l)

-----------------------------------------------------------------------------
(* Memory. *)

(* The tape never outgrows what was reserved for it: insert_res! writes    *)
(* through a raw pointer and does not look at the capacity.                *)
TapeFits == Len(b.tape) <= mem.cap

(* No value is empty, and no key of a row.                                 *)
FilledCells(x) ==
  \A k \in 1..Len(x.tape) :
    /\ x.tape[k].kind = "Value" => Tok(x.tape[k].tok) \notin {"NL", "COMMA", "|", "TAB"}
    /\ x.tape[k].kind = "Key" => Tok(x.tape[k].tok) # ":"

(* The rows of a nested table that declares none: slots for them were not  *)
(* set aside, and a release build reads them (a debug build panics).       *)
WrapsRows(h) == h.type = "ParseNestedFieldGroupsArrayStrict" /\ h.n = 0

(* It does not unless the cells or the keys of rows are empty and take two *)
(* slots for one structural token, or such a table is being read.          *)
TapeFitsFilledCells == FilledCells(b) /\ ~WrapsRows(hdr) => TapeFits

-----------------------------------------------------------------------------
(* The inductive invariant: what the states rely on, strong enough to be   *)
(* preserved by every step.                                                *)

(* A field list: hi is the first position at which every group is closed.  *)
FieldList(lo, hi) ==
  /\ lo \in 1..N
  /\ hi \in (lo + 1)..(N - 1)
  /\ Opens(lo)
  /\ Tok(hi) = "RBRACE"
  /\ \A j \in lo..(hi - 1) : Level(lo, j) >= 1
  /\ Level(lo, hi) = 0

(* What stays true of the builder while the document is read: the slots    *)
(* that are going to be backfilled hold containers, and the frame of the   *)
(* document lies at the bottom of the stack and nowhere else.              *)
ScopesOK(x) ==
  /\ x \in Builders
  /\ Len(x.stack) >= 1
  /\ Len(x.indents) >= Len(x.stack)
  /\ x.start \in 1..Len(x.tape)
  /\ x.tape[x.start].kind \in Containers
  /\ \A d \in 2..Len(x.stack) : /\ x.stack[d].start \in 1..Len(x.tape)
                                /\ x.tape[x.stack[d].start].kind \in Containers
  /\ \A d \in 1..Len(x.stack) : x.stack[d].tag = "Start" <=> d = 1

(* The scopes that are open around the rows of a table: while the cells of *)
(* a row are read, the row and the groups in it come on top of them.       *)
Base(p, h, c, x) ==
  Len(x.stack) - (IF p = "Cell" THEN Level(h.lo, c - 1) ELSE IF p = "EndRow" THEN 1 ELSE 0)

(* The open block arrays lie among the n outermost scopes, each one inside *)
(* the ones before it.                                                     *)
PendingOK(pend, n) ==
  /\ \A k \in 1..Len(pend) : pend[k].depth \in 1..n
  /\ \A k, m \in 1..Len(pend) : k < m => pend[k].depth < pend[m].depth

PendingCounts == Seq([depth : Nat \ {0}, n : Nat])

Final == {"Success", "Failed", "Panicked"}

(* What state p relies on, given the values of the variables it uses.      *)
Good(p, h, l, c, x, pend) ==
  /\ p \notin Final \cup {"Start"} =>
       ScopesOK(x) /\ Base(p, h, c, x) >= 1 /\ PendingOK(pend, Base(p, h, c, x))
  /\ h.lo # 0 => FieldList(h.lo, h.hi)
  /\ p = "Start" => pend = << >>
  /\ p = "ParseBlockArray" /\ h.root => pend = << >>
  /\ p = "ParseInlineArray" => h.n > 0
  /\ p = "Element" => l > 0
  /\ p \in {"ParseTabularArrayStrict", "ParseTabularArrayLenient",
            "ParseNestedFieldGroupsArrayStrict", "Cell", "EndRow"} => h.lo # 0
  /\ p = "Row" /\ h.lo = 0 => h.type = "ParseTabularObjects"
  /\ p = "Cell" => c \in (h.lo + 1)..h.hi

IndInv == TypeOK /\ Good(pc, hdr, left, cell, b, pending)

(* What the nesting of the scopes rests on besides: frames point ever      *)
(* deeper and indentation never decreases; and unless a header without a   *)
(* key was let pass in an object, frames are tagged with the kind of the   *)
(* container they return to, of the scopes around the rows those that      *)
(* return to a block array return to one that is pending, and the State    *)
(* works in a container of its kind.                                       *)
Ordered(x) ==
  /\ \A d, e \in 2..Len(x.stack) : d < e => x.stack[d].start < x.stack[e].start
  /\ \A d \in 2..Len(x.stack) : x.stack[d].start < x.start
  /\ \A d, e \in 1..Len(x.indents) : d < e => x.indents[d] <= x.indents[e]

Tagged(x) == \A d \in 2..Len(x.stack) : x.tape[x.stack[d].start].kind = x.stack[d].tag

IsPending(pend, d) == \E k \in 1..Len(pend) : pend[k].depth = d

ArraysPending(x, n, pend) ==
  \A d \in 2..n : x.stack[d].tag = "Array" => IsPending(pend, d - 1)

Inside(x, kind) == x.tape[x.start].kind = kind

(* What the rows of the table h belong to. *)
TableKind(type) == IF type = "ParseTabularObjects" THEN "Object" ELSE "Array"

HeaderStates == TableStates \cup {"ParseEmptyArray", "ParseInlineArray", "ParseBlockArray"}

AtHome(p, h, c, x, pend) ==
  /\ p \in {"ParseHeader", "ParseSimpleObjectValue"} => Inside(x, "Object")
  /\ p = "ExpectBlockArrayItem" => Inside(x, "Array") /\ IsPending(pend, Len(x.stack))
  /\ p \in HeaderStates /\ h.root => Inside(x, TableKind(p))
  /\ p \in HeaderStates /\ ~h.root =>
       Inside(x, FrameTag(h.key)) /\ (h.key = 0 => IsPending(pend, Len(x.stack)))
  /\ p = "Row" => Inside(x, TableKind(h.type))
  /\ p \in {"Cell", "EndRow"} =>
       /\ Inside(x, "Object")
       /\ x.stack[Base(p, h, c, x) + 1].tag = TableKind(h.type)
       /\ \A d \in (Base(p, h, c, x) + 2)..Len(x.stack) : x.stack[d].tag = "Object"

Nests(p, h, c, x, pend, l) ==
  /\ Ordered(x)
  /\ "keyless field" \notin l =>
       Tagged(x) /\ ArraysPending(x, Base(p, h, c, x), pend) /\ AtHome(p, h, c, x, pend)

NestInv == Running => Nests(pc, hdr, cell, b, pending, lapses)

(* What makes the tape well formed in the end.  The slots of the open      *)
(* scopes wait to be backfilled; every other node is well formed and ends  *)
(* before the slots behind it; and what a scope holds before the scope     *)
(* inside of it was counted in its frame.                                  *)
Slots(x) == {x.start} \cup {x.stack[d].start : d \in 2..Len(x.stack)}
Slot(x, d) == IF d = Len(x.stack) THEN x.start ELSE x.stack[d + 1].start

Listed(x) ==
  /\ Slot(x, 1) = 1
  /\ \A k \in (1..Len(x.tape)) \ Slots(x) :
       /\ NodeWellFormed(x.tape, k)
       /\ \A s \in Slots(x) : k < s => EndIn(x.tape, k) < s
  /\ \A d \in 2..Len(x.stack) :
       Holds(x.tape, x.stack[d].start, Slot(x, d), x.stack[d].cnt)

(* The innermost container holds what was counted; or one entry was counted*)
(* ahead and awaits its value, behind its key if there is one.             *)
Ready(x) == Holds(x.tape, x.start, Len(x.tape), x.cnt)

KeyAwaits(t, k, e, len) ==
  /\ e \in KeysIn(t, k, e)
  /\ Cardinality(KeysIn(t, k, e)) = len
  /\ Cardinality(EntriesIn(t, k, e)) = 2 * len - 1
  /\ \A j \in KeysIn(t, k, e) \ {e} : j + 1 \in EntriesIn(t, k, e) \ KeysIn(t, k, e)

Awaits(x) ==
  IF Inside(x, "Array") THEN Holds(x.tape, x.start, Len(x.tape), x.cnt - 1)
                        ELSE KeyAwaits(x.tape, x.start, Len(x.tape), x.cnt)

Filling(p, h, x) ==
  /\ IF p = "ParseSimpleObjectValue" \/ (p \in HeaderStates /\ ~h.root /\ h.key = 0)
     THEN Awaits(x) ELSE Ready(x)
  /\ p \in HeaderStates /\ h.root => h.key = 0
  /\ p = "Element" => Inside(x, "Array")

ListInv ==
  lapses = {} => /\ pc = "Start" => b.tape = << >>
                 /\ Running => Listed(b) /\ Filling(pc, hdr, b)
                 /\ pc = "Success" => WholeTapeWellFormed(b.tape)

(* What makes the declared lengths hold in strict mode.  The container of  *)
(* the d-th scope was promised to have as many entries as its header says  *)
(* (-1: it has no header with a length); CountIn of them were counted.     *)
Promised(x, d) == x.tape[Slot(x, d)].declared
CountIn(x, d) == IF d = Len(x.stack) THEN x.cnt ELSE x.stack[d + 1].cnt

KeepsPromise(node) == node.declared # -1 => node.len = node.declared
PromisesKept(x) == \A k \in (1..Len(x.tape)) \ Slots(x) : KeepsPromise(x.tape[k])

(* If there is a promise, ScopeEnd is going to look at it.                 *)
Checked(x, d, pend) ==
  \/ Promised(x, d) = -1
  \/ \E k \in 1..Len(pend) : pend[k].depth = d /\ pend[k].n = Promised(x, d)

AllChecked(x, n, pend) == \A d \in 1..n : Checked(x, d, pend)

(* The entries that are still to come of the container whose entries the   *)
(* State reads, that of the scope d.  A row counts from its beginning on.  *)
(* The rows of a table that asks for more than there are lines never end.  *)
Due(p, h, l, x, pend, d, pos) ==
  /\ p \in {"ParseHeader", "ParseSimpleObjectValue", "ExpectBlockArrayItem"} =>
       Checked(x, d, pend)
  /\ p \in HeaderStates =>
       IF h.root THEN h.key = 0 /\ Promised(x, d) = h.n /\ x.cnt = 0
                 ELSE Checked(x, d, pend)
  /\ p = "ParseEmptyArray" => h.n = 0
  /\ p = "ParseTabularArrayLenient" => ~Strict
  /\ p = "Element" => CountIn(x, d) + l = Promised(x, d)
  /\ p \in {"Row", "Cell", "EndRow"} =>
       /\ h.type # "ParseTabularArrayLenient"
       /\ l >= 1
       /\ \/ CountIn(x, d) + l = Promised(x, d) + (IF p = "Row" THEN 0 ELSE 1)
          \/ l + pos >= N + 2
  /\ p = "ScopeEnd" => Checked(x, d, pend) \/ CountIn(x, d) = Promised(x, d)

Lengths(p, h, l, c, x, pend, pos) ==
  LET home == Base(p, h, c, x)
  IN  /\ PromisesKept(x)
      /\ AllChecked(x, home - 1, pend)
      /\ \A d \in (home + 1)..Len(x.stack) : Promised(x, d) = -1
      /\ Due(p, h, l, x, pend, home, pos)

LengthInv ==
  Strict => /\ pc = "Start" => b.tape = << >>
            /\ Running => Lengths(pc, hdr, left, cell, b, pending, i)
            /\ pc = "Success" => \A k \in 1..Len(b.tape) : KeepsPromise(b.tape[k])

(* What makes the tape fit.  Of the slots that were set aside for a row,   *)
(* one is for its object and two for the key and the object of each group. *)
RowCost(h) ==
  CASE h.type = "ParseTabularArrayStrict" -> 1
    [] h.type = "ParseNestedFieldGroupsArrayStrict" -> 1 + 2 * Cardinality(Groups(h))
    [] OTHER -> 0

GroupsFrom(h, c) == {j \in Groups(h) : c <= j}

(* The slots that are going to be written and that no token ahead pays for:*)
(* the key and the container of a header that was read, and what was set   *)
(* aside for the rows and groups that are still to come.                   *)
SlotsOwed(p, h, l, c) ==
  CASE p \in HeaderStates -> 2
    [] p = "Row"    -> l * RowCost(h)
    [] p = "Cell"   -> (l - 1) * RowCost(h) + 2 * Cardinality(GroupsFrom(h, c))
    [] p = "EndRow" -> (l - 1) * RowCost(h)
    [] OTHER        -> 0

(* The last cell of a row takes two slots and leaves its second token, the *)
(* line end, where it is.                                                  *)
LineEndAhead(p, pos) ==
  IF p \in {"Cell", "EndRow", "ScopeEnd"} /\ Tok(pos) = "NL" THEN 1 ELSE 0

(* Every other slot is paid for by a token.  The slack is not touched.     *)
Fits(p, h, l, c, x, m, pos) ==
  Len(x.tape) + SlotsOwed(p, h, l, c) + (N - pos + 1) + m.slack <= m.cap + LineEndAhead(p, pos)

RowStates == {"Row", "Cell", "EndRow"}

TableKnown(p, h, l, pos) ==
  /\ \/ p \in TableStates /\ p # "ParseNestedFieldGroupsArrayStrict"
     \/ p \in RowStates /\ h.type # "ParseNestedFieldGroupsArrayStrict"
     => Groups(h) = {}
  /\ p \in RowStates => h.type \in TableStates
  /\ p \in RowStates /\ h.type # "ParseTabularArrayLenient" => l >= 1
  /\ WrapsRows(h) => p \in RowStates /\ l + pos >= N + 2

CapacityInv ==
  /\ pc = "Start" => b.tape = << >> /\ N + mem.slack <= mem.cap
  /\ Running => TableKnown(pc, hdr, left, i)
  /\ FilledCells(b) /\ ~WrapsRows(hdr) =>
       IF Running THEN Fits(pc, hdr, left, cell, b, mem, i) ELSE TapeFits

-----------------------------------------------------------------------------
(* Steps. *)

(* What is on the tape stays there.  Only the node of the innermost        *)
(* container changes, and only in the step that closes it.                 *)
TapeOnlyGrows ==
  [][pc # "Start" =>
       /\ Len(b'.tape) >= Len(b.tape)
       /\ \A k \in 1..Len(b.tape) :
            b'.tape[k] # b.tape[k] => k = b.start /\ Len(b'.stack) < Depth]_vars

(* Every document is accepted or rejected after finitely many steps.       *)
Terminates == <>Done
=============================================================================

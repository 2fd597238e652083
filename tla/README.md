# Verification of simd-toon

TLA+ models of the decoder, the readers and the serializers of this repository
(`src/`), checked with TLC and proved with TLAPS.

## The system

A TOON document is decoded in stages, all on the caller's thread:

    input --stage 1--> structural tokens --stage 2--> tape --readers--> values

Stage 1 finds the bytes that structure the document, stage 2 runs a state
machine over them and writes a *tape*: a depth-first listing of nodes in which
every container carries the number of its entries (`len`) and of the slots below
it (`count`). Whoever wants a value walks over the tape and trusts `len` and
`count`. Nothing is persisted and nothing runs concurrently: what is hard here is
order (long sequences of lines that open and close scopes), state that one line
leaves for another, raw pointers whose safety rests on such state, and lengths
at their limits.

| component | state | operations | interacts with | what makes it correct |
|---|---|---|---|---|
| stage 1, `lib.rs`, `impls/avx2/stage1.rs` | carries between 64-byte blocks, the list of structural indexes | one block at a time, the remainder, a final line end | strips comments on the way; feeds stage 2 | every structural byte exactly once and in order, whatever falls on a block boundary |
| comment stripper, `comments_stripper.rs` | whether a comment is open at the end of a block | one block at a time | called by stage 1, writes into the input | a comment line leaves no token |
| stage 2, `stage2.rs` | cursor, scopes (`stack`, `content_ws_stack`, `last_start`, `cnt`), `pending_counts`, `last_dedent_ws`, tape and `tape_slack` | the States of its loop | reads stage 1's tokens, calls the string and number parsers | the tape is well formed, mirrors the layout, and fits its memory; declared lengths hold; it terminates |
| strings and numbers, `stringparse.rs`, `impls/avx2/deser.rs`, `numberparse*` | a word and a cursor; `string_buffer` and the caller's input | decode a slice | called by stage 2 for every value | the value of the text, or a string where it is no number, or an error |
| buffers and parser, `lib.rs`, `parser.rs`, `decode_options.rs` | buffers and options kept across documents | parse a document | calls the stages | a document's result does not depend on the documents before |
| tape readers, `value/tape*` | position in the tape | get, iterate, skip | read the tape | visit exactly the entries of a container |
| serde deserializers, `serde/de.rs`, `serde/value/*/de.rs` | a cursor into the tape; iterators over values; accesses with their counts | answer a hint, hand out elements, entries, variants | call the visitors of a type, which call them back | all five give a type the same answers; the cursor stays with the container that is read |
| DOM builders, `value/borrowed.rs`, `value/owned.rs` | cursor into the tape | parse one value | consume the tape | the value is the tree the tape lists |
| lazy values, `value/lazy*` | a tape or a DOM | read, upgrade, write | built on both | reads before and after an upgrade agree |
| serde serializers, `serde/se*`, `serde/value/*/se.rs` | first/rest flags, indentation; the value under construction | open, element, key, value, field, end | called by a type | JSON text that says what the value says; the same values refused |

The writers of values (`value/*/serialize.rs`), conversions, comparisons, error types
and macros keep no state; they are listed in `PROJECT.json` and not modelled.

## Modules

| module | what it is |
|---|---|
| `Stage1` | `fill_tape` up to stage 2, for one document after the other with the same buffers: `_find_structural_bits` and the comment stripper, a block of bytes a step |
| `Stage1Properties` | tokens, comments and strings defined on the whole text; the properties of `Stage1` against them |
| `MCStage1` | the texts TLC is given |
| `Stage1Proofs` | theorems of stage 1 about types, offsets and order |
| `TokenProofs` | tokens, verdict, carries and the copy that stage 2 reads are those of the text |
| `Stage2` | `Deserializer::build_tape`: every State of the code is an action |
| `Stage2Properties` | type invariant, safety, action and liveness properties, and the inductive invariants of the proofs |
| `MCStage2` | the documents TLC is given, a set of them per run |
| `Stage2Proofs` | theorems of stage 2 and their proofs: types, what is backfilled, pending counts |
| `ScopeProofs` | what each step may do to the tape that is there; the scopes nest, and an item counts for the array it is in |
| `ListProofs` | the tape of an accepted document is well formed, and declared lengths hold |
| `CapacityProofs` | the tape stays within what was reserved for it |
| `Tape` | the readers of a tape, the DOM builder and the JSON writer, as operators on slices |
| `Lazy` | a client of a lazy value: every read, iterator and write, composed from `Tape` and DOM operations |
| `Json` | the abstract specification: the same calls on a plain JSON value |
| `LazyProperties` | documents, their tapes and their values; the refinement mapping to `Json`; properties |
| `MCLazy` | the documents TLC is given |
| `Deserialize` | a serde client and the five deserializers it may be given, in lockstep |
| `DeserializeProperties`, `MCDeserialize` | what they owe the client, against the document's tree; the documents TLC is given |
| `DeserializeProofs` | theorems about all of these properties, for documents of any size |
| `Serialize` | the calls of a `Serialize` implementation, and the three serializers that take them, in lockstep |
| `SerializeProperties`, `MCSerialize` | the JSON text of a value by recursion, and what the serializers make of it; the values TLC is given |
| `Scalar` | `insert_inferred_value!`: `try_parse_number` digit by digit, `parse_str` window by window |
| `ScalarProperties`, `MCScalar` | the grammar of numbers and the escapes of strings; the texts TLC is given |
| `ScalarProofs` | theorems about types, words and windows, and that a string is decoded element by element |

`Stage1` ends where `Stage2` begins: its `indexes`, with the bytes they point to in the
rewritten input, are the tokens of `Stage2`'s documents. The two share no module, since
the one is about bytes and blocks and the other about tokens and lines; what the second
assumes of the first is `TokensExact`, and `IsDocument`: that the text ends with a line end and lines begin with spaces only
is what `Document` in `Stage2` says of its tokens. `Stage2` ends where `Lazy` begins: that an accepted tape lists its document
(`TapeWellFormedOtherwise`, `LayoutDecides`, `EveryLineOnTape`) is what `Lazy` assumes of `Tapes`
and `Deserialize` of `Docs`. `Scalar` is what stands behind one `PutValue` of `Stage2`, for which a scalar
decodes or does not. `Serialize` is independent of the decoder, except that its
last part serializes a `Value`.

### Stage1 and the code

| model | code |
|---|---|
| `input`, `idx`, `structurals`, `indexes` | the same names; `indexes` is `structural_indexes` |
| `carry` | the three `prev_iter_...` locals and the two flags of `CommentStripper` that pass from block to block: `odd`, `quote`, `pred`, `indent`, `comment` |
| `invalid`, `broken` | `error_mask`, the state of the UTF-8 validator |
| `source` | history only: the input before comments were blanked |
| `buffer` | `input_buffer`, the copy that stage 2 reads; `Garbage` is what memory holds that was reserved and not written |
| `NextDocument` | another call with the same `Buffers`, whatever came of the one before |

A mask is the set of its bits. Where the code adds two masks so that a carry runs to the end of a
run of bits, so does the model: `Plus` adds bit by bit with the carries (`Carries`), and a
carry out of the last bit is the overflow that the code looks at. `MCStage1` assumes `PlusAdds`,
that this is the sum of the numbers, which TLC evaluates for all pairs of masks. Offsets are cut to the width that `MaxLength` has, as the `u32` of the code are. Bytes are classes: `x` is any byte that none of the tables of
`find_whitespace_structurals_hashes` knows, `:` any structural one that is neither
control character nor line end. The two copies of the loop body are one
operator, `Scanned`, that two actions use. UTF-8 validation is a library's; all that
the model knows of it is that it sees the bytes before blanking.

### Stage2 and the code

| model | code |
|---|---|
| `toks`, `i` | `structural_indexes` with the bytes they point to; `i` is the token held in `c` (1-based, the code's cursor is already one further) |
| `pc` | `State`; `Element`, `Row`, `Cell`, `EndRow` are the loops inside a State; `Success`, `Failed`, `Panicked` are its outcomes |
| `hdr`, `left`, `cell` | the payload of the State, the loop counters, the position in the field list |
| `b.stack`, `b.indents`, `b.start`, `b.cnt`, `b.tape` | `stack[..depth]`, `content_ws_stack`, `last_start`, `cnt`, `res[..r_i]` |
| `pending`, `dedent` | `pending_counts`, `last_dedent_ws` |
| `mem` | capacity of `res`, and `tape_slack` |
| `lapses` | history only: the two deviations from the format that the code lets pass |

The macros are operators of the same purpose (`read_header!` is `ReadHeader`,
`get_eol_state!` is `EolState`, `open_scope!` is `OpenScope`, the two ways a
scope closes are `CloseScope`). The code writes each table loop twice, once for
all rows but the last and once for the last; here the last row is `left = 1`.

What is abstracted: bytes of keys and values (a token is text that decodes, or
does not), the error that is returned, and the strings, of which a node keeps the
token. A field list is not copied into a tree but read off the tokens:
`IsLeaf`, `IsGroup` and `IsGroupEnd` say what each token of it does, and
`Level` how many groups are open. Two things of the code the model keeps although
they look like slips: behind the `}` of a nested group the next token is stepped
over unseen (`Skipped`), and the token behind `]` or `}` is not looked at.
An arithmetic underflow or a failed `debug_assert!` is a panic if `Debug`, and
otherwise what wrapping leads to.

### Lazy values, the tape readers and the code

| model | code |
|---|---|
| `here` | the `lazy::Value` the client holds: a slice of the tape, or a DOM |
| `out`, `item` | what its last call returned, and what the last `next` of the iterator in `out` returned |
| `call` | the call, with its arguments; a `try_` variant is the same call with `try` |
| `nodes` | the slice `&[Node]` itself, as a sequence: what a slice leaves out is gone |
| `Panic` | an index or split out of bounds, `unreachable!`: the client makes no further call |
| `writes`, `short` | a bound on writes; history: `out` comes from a slice that `get_array` or `get_object` took |

The code has each read three times: in `tape`, which trusts `count`, in the DOM,
and in `lazy` to choose between them. `ObjectGet`, `ArrayGet`, `GetContainer` and the
iterators step over the tape as the code does, each with its own way of stopping
(`len`, the end of the slice, a key that is not a string). `Parse` steps by `len`
alone, which is what `BorrowSliceDeserializer` does. A failed write upgrades all the
same, as `as_mut` does. Maps and vectors of the libraries are functions and sequences;
the order in which a map yields its entries is left open. Keys and leaves are opaque, so
conversions between number types are left out. Borrowed DOMs are copied.

`BehavesAsJson` is the refinement: under `JsonOf`, which replaces a slice by
the value of the part of the document it lists, every step is a step of `Json`
or changes nothing. Steps through a `short` container are excepted, since those slices
are wrong (run `ShortSlice`); what can still be said of them is
`ValuesArePartsOfDocument`.

### Deserialize and the code

| model | code |
|---|---|
| `idx` | `idx` of `Deserializer`; `Consumed` is what `next`, `next_` and `peek` make of it |
| a frame of `stack` | a call under way: `value`, `key`, `seq` (`CommaSeparated` and its like), `map`, `enum`, `variant`; `content` is a derived visitor that holds what it read |
| `client` | `typed` exhausts every access, `hasty` need not; `borrowed` and `owned` are `Deserialize` of the two `Value`s |
| `hint`, `visit` | the method of `Deserializer` that the client calls, and the method of its visitor that is called in answer |
| `live` | the readers that have answered as the tape did; `differed` is the call where the last one did not |

A client is any type: in every state it may give any hint. Which visits its visitor
has is `Takes`; one it lacks is an error. The tables `TapeDe`, `BorrowedDe`, ... are
the methods of the five deserializers, a line each. Hints that are answered alike
are one hint: integers are `i8` and `u8`, floats `f64`. The frames keep what the iterators
of the values have left, so that the position of the tape and the positions in the values
are two pieces of state that have to agree (`CursorWithIterators`).

What is said of documents is said against their trees: `Trees` are all JSON values that occur,
keys among them, `Depth` is how deep each nests, and the tape of a document is the `Listing` of its tree. Both constants are there so
that `Listing` and `Plain`, functions on `Trees`, can be reasoned about; TLC is given all parts of the run's documents.

### Serialize and the code

| model | code |
|---|---|
| `task` | the value whose `serialize` is called next |
| a frame of `stack` | an open `SerializeSeq`, `SerializeMap`, ... with the elements it was given (`first` is `given = 0`) |
| `compact`, `pretty`, `dent` | the text of `to_vec` and of `to_vec_pretty`, as tokens and line ends; `dent` |
| `result` | what `to_value` returned; `into` says which of the two |
| `live` | the serializers that have not returned an error |
| `Again` | `Serialize` of the `Value` that was built, into the same three |

Whether a container tells its length is part of the value (`sized`), as the code
decides by it whether to close the brackets at once.

### Scalar and the code

| model | code |
|---|---|
| `num`, `exponent`, `written`, `digits`, `float` | `num`, `exponent`, `exp_number`, `digit_count`, `is_float` |
| `text`, `input` | `input2`, which is read, and `input`, which strings are decoded into |
| `buffer`, `len`, `dst` | `string_buffer`, `len`, `dst_i` |
| `pc` | the place in the code; `run` is the eight digits at once, `plain` and `copy` the two loops of `parse_str_quotes` |

Words, thresholds and windows are constants: 64 bits, 18 and 19 digits, 32 bits of
exponent, 32 bytes in the code. A double is a decimal number, finite up to a power of
ten; its rounding and the tables for it are left out, and `Parsed` is the
standard library's parser, on which the code falls back. A code unit is below the
surrogates, one of the two halves, or above them. `TextsAssumption` is what stage 1 and stage 2 hand over: a scalar has
at least one byte, and one that begins with a quote has its closing quote, since a string that is left open
is refused (`VerdictExact`).

## Checks

The documents of a run of stage 2 are all sequences of up to a bounded number of lines from
the menus that the run's question needs (`MCStage2`); in `Strict` also all lines
of up to four tokens. Two lines make a sibling, three a scope that closes with
something after it, four and five a cascade over two and three levels; deeper cascades
repeat the same step. Counts declared are 0, 1 and 2, and up to 14 where the tape's
memory is at stake, since the slack is a fifth of the tokens. A table has up to
three columns and groups up to three deep: one that is first, one that is last, one
directly inside another.

In `Scan`, a block has four bytes instead of 64, the least number for which a run can begin
and end within a block, cross its end and fill it. Texts are all over an alphabet of
comments up to six bytes, and nine with the smallest alphabet, so that there are two
whole blocks and a rest; and all of up to seven bytes over the alphabets of
strings. What crosses two boundaries crosses them by the same carries, which
`CarriesSummarize` relates to the text at each. The longest text has 15 bytes, in the place of 4 GiB:
there are texts of every length around it. Any text may be followed by a
second, third, ... of those in `Later`, in the buffers that are left.

| run | documents | question |
|---|---|---|
| `Scan` | short texts of comments, strings, escapes and invalid bytes; texts as long as possible; others after them | Are the indexes the tokens of the text without its comments, wherever blocks end (`TokensExact`)? Are errors those of that text (`VerdictExact`)? Is stage 2 handed that text, and nothing an earlier document left (`HandsOverDocument`)? Do the carries say what they should (`CarriesSummarize`)? |
| `Strict` | objects and block arrays in each other, up to five levels, with blank lines; token salad; tables with nested groups and keyed rows, tables in items, inline arrays with every delimiter, tall tables | Does indentation alone decide which object a field belongs to (`LayoutDecides`)? Is every line on the tape once (`EveryLineOnTape`), does every item count for its own array (`ItemsAreCounted`), do scopes nest, do pending counts stay in step with them, is a blank line in an array an error? Does no sequence of tokens make stage 2 backfill anything but a container? Does every row fill each field in order (`RowsFillFields`), has every container on the tape as many entries as declared (`TapeAsDeclared`), and an inline array as many values in the text (`ValuesAsDeclared`), is the tape well formed, do the slots that headers set aside suffice (`TapeFitsFilledCells`)? |
| `Lenient` | a bit of everything, lenient mode, a release build (arithmetic wraps), four columns a level | The same of the tape where strict mode does not help, of rows that are not counted (`RowsFillFields`), and of the layout where the fields of an item are indented by two columns and all else by four (`LayoutDecides`); and does stage 2 end (`Terminates`)? |
| `Lazy` | five lazy values, up to three containers deep, with empty ones first, between and last | Does a client see a JSON value, on tape and DOM, before and after a write (`BehavesAsJson`)? Is every value handed out a part of the document (`ValuesArePartsOfDocument`)? |
| `Serde` | every array and object of up to two small values, enums, structs and maps with integer keys in each other | Is the tape's cursor where the iterators over the values are (`CursorWithIterators`), are clients answered alike (`ReadersAgree`), shown the whole document (`ClientSeesDocument`, `ValueFromTape`), and never read behind the tape (`ReadsInsideTape`)? |
| `Write` | every primitive and key, every container of up to two values, of known and unknown length, in each other | Is the text JSON (`CompactIsJson`, `PrettyIsJson`), laid out by its nesting (`ClosedUnderOpened`), is the `Value` the same, and its own `Value` (`DomIsJson`), and are the same values refused (`RefusedAlike`)? |
| `Scalars` | all texts of up to five characters of numbers; integers and floats around the ends of a word, exponents around theirs; strings of up to three escapes, with plain text before, between and behind, across windows | Is the node what the text is by the grammar (`ScalarExact`), is a string its elements in order (`StringDecoded`), and is nothing stored outside the buffers (`TypeOK`)? |

In `Lazy`, indices run to `MaxIndex` = 3: the last of the longest array, and beyond the end of all
others; writes are bounded by `MaxWrites` = 2: one upgrades, the second finds a DOM, and
any further one is like the second. In `Scalars`, a word has ten bits, so that all
numbers of three digits fit it and some of four, as those of 19 digits fit 64 bits and some of 20,
and two digits fit the signed word, as 18 do; an exponent has five bits and a double's powers of ten go from
-5 to 4, so that infinity, zero and the wrap of the exponent lie apart; a window has
three bytes, less than an escape of a pair and more than a short one. A client that was answered with a
panic or an error stops, and the scan, a serialization and a scalar end with their result, so that
these runs do not check deadlock.

Exceptions are named in the properties; those of `CompactIsJson`, `PrettyIsJson`,
`RefusedAlike`, `StringDecoded` and, for malformed numbers, `ScalarExact` exactly, so that these fail as soon as an exception behaves. They are

* in `ReadersAgree`: a type that borrows strings gets none from an owned value; the key of a
  consumed value is not parsed as an integer; an empty array for a tuple variant is
  `visit_unit` for values and `visit_seq` for the tape; only the tape takes an array for a struct variant;
* in `CompactIsJson` and `PrettyIsJson`: an empty sequence that did not tell its length is not closed,
  nor is, in pretty text, such a map, or any tuple variant;
* in `RefusedAlike`: `to_value` also refuses integers of 128 bits without the feature,
  and as keys always;
* in `ScalarExact`: a float whose exponent is beyond 32 bits is the number, a string, or the number with the exponent
  that is left when it is cut (`WrappedNode`), and malformed numbers, `-` or `1a`, are strings, as the comment at `stage2.rs:499`
  and the fixture `numbers.json:215` have it, though not the unit tests of `numberparse/correct.rs` (below);
* in `StringDecoded`: the first half of a surrogate pair without a second is NUL, and with a
  unit above the surrogates it makes some other character (`LetPass`), where the fixture `validation-errors.json:49` expects an error (run `LoneHalf`);
* in `ValuesAsDeclared`: surplus values of an inline array are part of its last one (`TakesSurplus`), where the fixture
  `validation-errors.json:7` expects an error; so are, in `RowsFillFields`, the surplus cells of a row;
* in `TapeWellFormedOtherwise`, `ItemsAreCounted`, `ScopesNest` and `LayoutDecides`: documents with a lapse, a key without a value (run `NoValue`) or a header without a key in an object (below).

Runs that find a disagreement between the code and what the repository says of it:

| run | shows |
|---|---|
| `NoValue` | `a:` / `  b:` / `c: x` puts an object with a key and no value on the tape; `stage2.rs` and a fixture promise a value |
| `LoneHalf` | `"\uD800"` is a NUL (`stringparse.rs:61`), where the fixture `validation-errors.json:49` expects an error |
| `StraddledIndent` | when a block ends within the indentation of a comment, the line end before the comment stays, which the documentation of the comment stripper says is replaced; the comment leaves an empty line, an error in a strict array |
| `ShortSlice` | `get_array`, `get_object` and their `try_` variants on a tape return a container without its last node |
| `TupleStops` | a visitor that takes fewer elements than its array has leaves the cursor inside of it, and the access around it goes on there: `[[1,2],3]` as `((u8,),u8)` is `((1,),2)` |

`TapeWellFormed` fails for the first; `TapeWellFormedOtherwise` says that
nothing else breaks the tape. `lapses` exists for this, and for `ItemsAreCounted`, `ScopesNest`
and `LayoutDecides`. `StraddledIndent` is the only exception to what `Scan` shows: `Straddles` takes exactly
these line ends out of the reference definitions. The properties of `Serde` that
say something of what is read leave hasty clients out for the sake of `TupleStops`;
`ReadsInsideTape` does not.

Other things were met on the way and have no run.

* A header without a key, `[1]:`, among the fields of an array item fails the `debug_assert_eq!` on
  pending counts (`stage2.rs:1402`). `a: x` / `[1]: x` is accepted, as
  an object with a value that has no key and with a frame of a kind that the comment of `frame!` (`stage2.rs:880`) says does not occur; the fixtures
  `validation-errors.json:430` and `437` expect an error.
* Tables of empty cells outgrow the memory reserved for the tape (`stage2.rs:1792`, `1801`): the comment's count of
  structurals assumes filled cells, and so does `TapeFitsFilledCells`. The rows of a keyed table with an empty key
  (`stage2.rs:1590`) are alike: a key and an object for a single colon.
* A nested table that declares no rows sets nothing aside, and a release build goes on to read rows
  (`stage2.rs:1949`), until it rejects the document: their slots are not accounted for, and `TapeFitsFilledCells`
  names the exception (`WrapsRows`).
* A repeated key is on the tape twice; `get` on the tape answers with the first value, the DOM with the last, as do the
  fixture `objects.json:42` and `tests.rs:962`. Other fixtures expect an error in strict mode (`validation-errors.json:129`, `237`, `247`, `402`).
* Surplus values of an inline array are taken into its last element as text (`stage2.rs:1361`): `x[1]: x,x,x` is an array of one
  string in strict mode, where the fixture `validation-errors.json:7` expects an error. So are the surplus cells of a row.
* The token behind the `]` of a header is taken for the colon, whatever it is (`stage2.rs:719`): `x[1]x: x` is accepted, where the fixtures
  `validation-errors.json:98` and `109` expect an error, and the comment at `stage2.rs:660` promises the colon.
* The repository contradicts itself about malformed numbers. The unit tests at `numberparse/correct.rs:513` (`1a`, `1_000`), `538` (`0x1`), `549` (`-`, `-x`, `-.5`), `568` (`0.1.2`)
  and `586` (`1.0e`) expect errors; the comment at `stage2.rs:499` and the fixture `numbers.json:215` (`0x10`, `1_000`) say that they are strings. The code makes
  them strings (`stage2.rs:504`), and `ScalarExact` says so of all of them (`Malformed`), so that it fails when one becomes an error.
* An exponent is cast to 32 bits (`numberparse/correct.rs:209`): `1e4294967296` is read as
  `1.0`, while `1e309` and `1e1000` stay strings, as the test at `correct.rs:606` wants of what no double can hold.
* `inf`, `NaN` and their like are strings, as the fixture `numbers.json:205` says; the tests at `correct.rs:594` and `614` expect
  errors. Only those with a sign begin like a number, so that `Malformed` does not speak of the others.
* The README of the sources says that 44 fixtures fail. Some of what they are about is beneath the abstraction of `Stage2`: how a declared
  length is spelled (`validation-errors.json:160`, `193`, `204`), and blanks before or behind a bracket
  (`215`, `226`, `467`). The model says nothing of these.
* Stage 2's own check for a comment at the
  start of the document (`stage2.rs:1003`) is never true, as stage 1 has blanked it.
* The fields of an object in an item
  are two columns in whatever `indent_size` is (`stage2.rs:1444`), where the README of
  the sources (line 210) speaks of the configured width.

Fairness: `Fairness` says that `build_tape` begins, and that from then on the loop takes
its next step: a single thread that nothing blocks. Only `Terminates` needs it.

## Proofs

### Stage 2

For every set of documents, either mode, either build and every `indent_size`, these
are proved:

| theorem | states | module |
|---|---|---|
| `TypeCorrect` | `[]TypeOK` | `Stage2Proofs` |
| `BackfillsContainers` | `[]BackfillHitsContainer`, the invariant behind the raw writes of `ScopeEnd` and `close_and_pop_state!` | `Stage2Proofs` |
| `PendingBelongsToScopes` | `[]PendingWithinScopes`, the invariant behind the index `content_ws_stack[d - 1]` | `Stage2Proofs` |
| `NodesStay` | `TapeOnlyGrows`: a step changes no node but those of the containers it closes | `ScopeProofs` |
| `NestedScopes` | `[]ScopesNest`: starts and indentations ascend with the depth, and a frame returns to the kind of container it is in | `ScopeProofs` |
| `CountedItems` | `[]ItemsAreCounted`: an item of a block array is counted for the array it is written in | `ScopeProofs` |
| `WellFormedTapes` | `[]TapeWellFormedOtherwise`: on the tape of a document accepted without a lapse, every container spans exactly its entries | `ListProofs` |
| `DeclaredLengths` | `[]TapeAsDeclared`: in strict mode every array and table on the tape has as many entries as its header declares, surplus values being part of the last | `ListProofs` |
| `TapeCapacity` | `[]TapeFitsFilledCells`: the tape never outgrows what was reserved for it, in documents without empty cells | `CapacityProofs` |

The assumptions are those of `ConstantsAssumption`: documents end with a line end, numerals
denote numbers, and `indent_size` is not zero.

The first four follow from `Inductive`, `Spec => []IndInv`. A type is lost when a stack is
popped that is empty, so that `IndInv` needs `ScopesOK`: a frame for every scope, the document's
frame at the bottom and nowhere else, and a container at every start. While
the cells of a row are read, scopes are closed by braces of the field list, so that
`IndInv` has to relate the depth of the stack to the field list: `Base` is the depth
less the groups open at the current cell, `FieldList` says that the braces of
a header are balanced (proved of `ReadHeader` by counting), and `Base >= 1` that the
table's own scope is never closed by a cell. `PendingOK` places the pending counts
among those `Base` scopes, so that rows never close a scope that has one. The rest
of `Good` is what single states rely on (elements left to read, a field list where
rows are read). One lemma per action shows `IndInv` preserved. `NodesStay` has again a lemma per
action, from `ScopesOK` alone.

`NestedScopes` and `CountedItems` follow from `NestsInductive`, `Spec => []NestInv`. That a frame's kind is the
kind of the container it returns to depends on where scopes are opened, and so on
what each State takes for granted of the scope it works in. `NestInv` adds to `IndInv`

* `Ordered`: the starts in the frames lie below `last_start`, and indentations ascend as a whole;
* `Tagged`: every frame has the kind of the container that is below it;
* `ArraysPending`: the frames that return to a block array return to one whose count is pending,
  among the `Base` scopes;
* `AtHome`: every State works in a container of its own kind, and a header without a key is read only
  in a pending block array or as the document's value.

All but `Ordered` hold unless the lapse of a keyless field has happened, as in
`ScopesNest` itself. That a row ends exactly at `Base` is the part of `FieldList` that says that no
group is open at the closing brace. `CountedItems` needs, in addition, that pending
depths ascend (`PendingOK`), so that the innermost pending array is the last of them.

`WellFormedTapes` follows from `ListInductive`, `Spec => []ListInv`. A tape is well formed when the last scope has
been closed, and until then it lacks something: `ListInv` says what. `Slots` are the containers of the open scopes, whose
`len` and `count` are still to be filled in. `Listed` says that they are all that is missing: every other
node is well formed and ends before the slots behind it, and what a container holds in front of the scope inside
of it is what its frame has counted. Of the innermost container, `Filling` says that it holds what `cnt` says (`Ready`), or,
behind a key or a hyphen, that one entry is counted and not there yet (`Awaits`): this is the part that depends on
the State, and that the lapse of a key without a value breaks. The entries of a container are the nodes that lie
below no other node, a definition that quantifies over nodes and does not recurse; the lemmas say
how they change when a node is written, a scope is opened and a scope is closed behind them, so that the proof of an
action is a chain of these operations.

`DeclaredLengths` follows from `LengthInductive`, `Spec => []LengthInv`. A header writes the number it declares into its
container (`declared`, kept for this property). In strict mode each closed container has kept its promise (`PromisesKept`), and
every open one around the rows that has given one is `Checked`: its count is among `pending_counts` at its own depth, and with the number
that was declared. The rows of tables and the elements of inline arrays are not checked but counted down,
so that for them `Due` adds up: what was counted and what is left make what was declared. There is one exception,
which the second disjunct in `Due` names: a nested table that declares no rows wraps around in a release build (`stage2.rs:1949`)
and asks for 2^64; there are more rows to read than tokens, so that the document is never accepted. Nothing of this depends on the lapses.

`TapeCapacity` follows from `CapacityInductive`, `Spec => []CapacityInv`, an account of slots. `Fits` says that what is on the tape,
what is owed (`SlotsOwed`), a slot for every token from the cursor on and the slack are within the capacity. A token that is
passed pays for the slot that is written for it; the slack only moves to what is owed, when a header sets slots aside
(`SetAside`), and `Grow` adds to both sides. Owed are two slots for the key and the container of a header, which
is longer than that, and `RowCost` for each row that is left, the object of the row and two slots for each of its groups;
within a row, what its remaining groups cost (`GroupsFrom`). The last cell of a row does not pass
the line end behind it, which the next step does: `LineEndAhead` lends that token until then. `FilledCells`, the
condition of the property, is what makes a cell pass a token of its own before its delimiter. It is a condition on the
tape so far, so that `More` carries it back from the state behind a step to the state in front of it.

### Stage 1

For every set of finite texts, every even block size, every capacity of the buffers and every width of offsets
whose range is a number of blocks, these are proved; among them is all that the run `Scan` checks:

| theorem | states | module |
|---|---|---|
| `Stage1Types` | `[]TypeOK`: offsets stay in the text, and within their width | `Stage1Proofs` |
| `OrderInductive` | `[](TypeOK /\ OrderInv)`, which it follows from | `Stage1Proofs` |
| `TokensFound` | `[]TokensExact`: the indexes of an accepted text are its tokens, each once and in order | `TokenProofs` |
| `VerdictFollows` | `[]VerdictExact`: a text is refused for what stands outside its comments, and for the first of several errors | `TokenProofs` |
| `DocumentHandedOver` | `[]HandsOverDocument`: stage 2 reads that text, and nothing an earlier one left | `TokenProofs` |
| `CarriesKnown` | `[]CarriesSummarize`: what the carries say at each boundary is what the text before it says | `TokenProofs` |
| `DocumentsForStage2` | `[]IsDocument`: what stage 2 is handed is what its model assumes of documents | `TokenProofs` |
| `Stage1Inductive` | `[]IndInv`, which the last five follow from | `TokenProofs` |

The assumptions are `BlockSizeAssumption` (even, since the scan for backslashes takes the parity of an offset in the
block for that of the offset), `MaxLengthAssumption`, `CapacityAssumption` and `TextAssumption` (texts are finite
functions from offsets to bytes).

`IndInv` says of each piece of state what it is of the text in front of `idx`. Its parts are ordered as the code works:

* `OrderInv`: `indexes` ascend and lie before the block that is still to be flattened, whose structurals lie in the text. That offsets
  do not wrap rests on it: the base that is subtracted is that of the block before.
* `CommentInv`: the input from `idx` on is untouched, and the stripper's two carries say whether the byte before `idx` is in a comment
  and whether only blanks stand between it and a line end.
* `QuoteInv`: the other three carries, and the two error flags, are those of `Clean`, the text without its comments, though the scan has seen
  the rest of it only a block at a time.
* `TokenInv`: the indexes and pending structurals are the tokens of the text so far, less the line ends that later comments
  take back. This one holds of a text that has shown no control character in a string; one that has will be refused,
  but of it, too, every delimiter inside a string has been found, since that is where a verdict can still come from.

A text is read with spaces behind it (`Padded`), as the last block is, so that one operator stands for both copies of the loop
body; lemmas carry what is found in the padded text over to the text. The definitions of the properties look
at the whole text (a byte is inside a string if an odd number of unescaped quotes stands before it), the masks at one block. What connects them
are recurrences: `EscapedNext` and `InsideNext` say what the next byte is by the one before, and the definitions of the masks
are shown to agree with them bit by bit, from the carry that comes in up to the carry that goes out. For the sum of
masks, this is a statement about `Carries`: a carry runs from a start of a run of backslashes to the end of it. The line end that a comment takes back may be in the block (`NewlinesBefore`)
or the last one found (`EarlierNewline`); in the second case, and only in it, the index is taken from the list, which is
possible because `OrderInv` puts it last. A line end that is not taken back because a block ends within the indentation
is left out of the definitions by `Straddles`, as in the run.

`IsDocument` follows from `TokensExact` and `HandsOverDocument`: behind a line end, which lies outside strings, the first byte
that is no space is a token (`FirstBehind`), so that no such byte can lie between two indexes.

### Serde deserializers

For documents of any size and depth and for every client, whatever types it asks for, these are proved in
`DeserializeProofs`; they are all that the run `Serde` checks:

| theorem | states |
|---|---|
| `DeserializeTypeCorrect` | `[]TypeOK` |
| `EveryReadInsideTape` | `[]ReadsInsideTape`: a typed hint, which reads the next node through `get_unchecked`, finds one there, even for clients that leave containers half read |
| `CursorFollowsIterators` | `[]CursorWithIterators`: the nodes from the cursor on are those that the values' iterators have left |
| `SuccessIsWholeDocument` | `[]ClientSeesDocument`: who succeeds was shown the document, and the tape has been read to its end |
| `ValueFromTapeIsDom` | `[]ValueFromTape`: a `Value` deserialized from the tape is the value of the document, and never an error |
| `ReadersAnswerAlike` | `ReadersAgree`: the deserializers of values answer as the tape does, but for the four kinds of request that `OwnDifference` names |

The assumptions are `TreesAssumption` (a value is a leaf, or a container of values that are less deep than it; the keys of an object differ and are
values, as the tape has a node for each) and `DocsAssumption` (a document is a tree and its listing). `Number`, which
says what integers the texts denote, is not restricted. That keys differ is needed, since entries come from a map.

The first two follow from `SpecDemand`, `Spec => []DemandInv`, which holds for hasty clients, too. With such a client the cursor is no longer
at the value that is asked for (run `TupleStops`), so that nothing can be said of what is read; but there is enough of it. `Needs`
says that the calls under way, each by its `Demand`, ask for at most as many values as are listed behind the cursor: a sequence for `len` of them,
a map for two for each entry and one if the value of a key is due, the others for one or two. `Supplied`
says that what is behind the cursor is a `Forest`, the listings of whole values. An answer takes the header of the first of them and puts its
parts in its place, and a visitor that is given a container is to ask for no more than these. A visitor that stops early only asks for less.
This is also why a node that is not there is never read unchecked, which is the branch `undefined` of the model.

The next two follow from `SpecExact`, `Spec => []ExactInv`, about all other clients. `ReadsExactly` has for every call under way a goal, a tree of the document or
a key, such that the outermost is on the document's tree and each call is on the part that the one around it has called for (`Trail`).
`Reading` says of a call what it has to do with its goal: the elements or entries that it has made (`built`) are made of those of the goal that come first,
the one it has called for is next, and what its iterator has left is the rest. Of a key only its text is known (`Result`),
as clients read keys as integers or identifiers. The nodes from the cursor on
are the forest of what all of them have left (`Remaining`). `Supplied` is there as well: a client
that was not hasty needs both, one to know that there is a node, the other to know which.

`ValueFromTapeIsDom` adds `ValueInv`: a `Value` makes no calls but for values, keys and the accesses of containers, and its visitor has a method for every
answer to these, so that none fails. `ReadersAnswerAlike` has a lemma for each kind of call, `AgreeOnValue`, `AgreeOnKey`, `AgreeOnAccess`, `AgreeOnVariantSeed` and `AgreeOnVariant`.
By `ExactInv` the node under the cursor is the header of the value that the other readers hold, and the
lengths of the accesses are those of the iterators. What remains is a comparison of the readers' tables, hint by hint and kind by kind: `Shows` is what they have in common for `any`
(they differ in how they lend a text), `Takes` makes clients blind to the difference, and what is left over is `OwnDifference`.

`Listing` and `Plain` recurse over trees. That these functions exist, so that they satisfy their equations (`ListingEquation`,
`PlainEquation`), is proved by descent on `Depth`: a depth at which there is none would be a least one (`LeastOf`), and
functions that are right for shallower values make one that is right there. `FlattenSeq`, by which
listings are joined, gets its equations in the same way (`PrefixesJoin`).

### Scalars

For texts of any length, any width of words and exponents, and any size of windows and runs, these are proved in `ScalarProofs`:

| theorem | states |
|---|---|
| `ScalarTypeCorrect` | `[]TypeOK`: words stay words, the digits read lie in the text, and no window of a string is stored outside of `string_buffer` |
| `StringsDecoded` | `[]StringDecoded`: a string is its elements in their order, and refused if one of them is none; the caller's buffer changes between the quotes only |

The assumptions are `WordAssumption` (widths and windows are not zero, a word has room for a digit; that the powers in use are naturals
is there because the provers do not know it) and `TextsAssumption` (scalars are sequences of bytes that are not empty, and
a string is closed). The second is needed: the loops of `parse_str_quotes` have no check for the end of the input, and without a
closing quote they would run on.

The first follows from `ScalarInvariant`, `Spec => []ScalarInv`. Its part for strings is `Ahead`: between `idx` and the end of the text is a quote that
an even number of backslashes precedes, counted from `idx`. So the sooner of a quote and a backslash in a window lies in the text, and if it
is the quote, it is that closing quote. A window without either, an escape with the byte behind it and an escape of a code point, with or without
its second half, leave the closing quote ahead (`ClosedBehindPlain`, `ClosedBehindEscape`, `ClosedBehindPoint`), the last because neither quote nor backslash is
a digit. The other conjunct, `len + dst <= idx - 2`, says that no more is kept than was read; an escape is longer than what it stands for. It bounds
`dst`, and with it the window that is stored behind `dst`, and the place that the string is written back to.

The second follows from `DecodeInv`: what is kept so far, `len` bytes that have stayed in the input and `dst` bytes of the buffer (`Kept`), followed by what is
decoded from `idx` on, is the whole string (`Reads`). A step moves bytes from the one to the other, `KeepInPlace` for a plain run, `KeepCopy`
for a window or its part up to a backslash, `KeepElement` for an escape. At the quote, what is left to decode is nothing, and writing the
buffer back behind the plain part makes one slice of the two (`OverwrittenIsKept`). `CodePointIsUnicode` relates the code's view of an escape to the definition's. `Decoded`
recurses forward over the places of a text; that it exists is proved by induction on how many of the last places are
defined (`DecodesLastExists`), with `LeastOf` in the place of an induction theorem, and likewise `Value` for digits.

### Only model-checked

* How a tape mirrors the layout of its document (`LayoutDecides`, `EveryLineOnTape`,
  `RowsFillFields`, `NoBlankLineInArray`, `ValuesAsDeclared`), which relate the accepted tape to the lines of the text, so that an invariant has to say
  of each line read so far where it went.
* `TapeWellFormed` and liveness: the one is false (run `NoValue`), the other the prover does not do.
* The readers in `Lazy` and the serializers, whose definitions use recursive operators over documents and values, which the
  provers cannot expand. `Deserialize` and `Scalar` were in the same position until their recursions were written as functions, over
  trees with a depth and over the places of a text; the same can be done for these.
* That the number of a text is the one it is written as (`ScalarExact`). It compares sums over digits that are
  reached by different paths, a word that has wrapped with one read again, and powers of ten that are divided by each other, which needs an induction on the digits and non-linear arithmetic
  at each.

## Not modelled, and the plan

Not modelled, and why:

* the values that a type is converted to and from through `serde_json` (`serde.rs:405-545`), the
  writers of values (`value/*/serialize.rs`), comparisons, `From` conversions: recursion without state;
* a `Write` that fails and a `Serialize` implementation that returns an error of its own: the call ends;
* the rounding of doubles, its tables, and the features `approx-number-parsing`,
  `128bit` (in numbers) and `big-int-as-float`: arithmetic out of TLC's reach, or not on by default;
* the copies of stage 1 and of `parse_str` for other instruction sets;
* the tape that a caller of `fill_tape` passes, after an error, and the setters of `Parser`;
* `BorrowDeserializer` and `OwnedDeserializer` (`Parse` is the third of the same
  recursion), `json!`, error types.

The plan, in this order:

1. More theorems: that a blank line in a strict array is an error (`NoBlankLineInArray`) and that rows fill their fields
   (`RowsFillFields`), from the invariants of stage 2 that are there; that the serializers' brackets are closed as they were opened
   (`ClosedUnderOpened`), with values as trees, as in `Deserialize`; that an integer is the
   number of its digits, the first half of `ScalarExact`; that the iterators, which do not recurse, hand out slices that are `Whole`.
2. The composition of `Stage1` and `Stage2`: the tokens of `Scan`'s texts as documents.
3. The `128bit` and `big-int-as-float` paths of `Scalar`.

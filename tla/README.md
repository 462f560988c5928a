# A verification of fsdyn in TLA+

fsdyn is a C library of dynamic data structures (linked list, hash table, AVL
tree, priority queue, bit set, byte array) and of pure functions on text and
numbers (Base64, integers, dates, UTF-8, Unicode normalization, IDNA, floating
point). It has no threads, no I/O and no persistent state. What is hard about
it is

- pointer structures that are rewritten in many cases (lists, trees), where an
  error shows several calls after the call that made it;
- callbacks of the client that run in the middle of an operation (`cmp`,
  `reloc`, the function given to `list_foreach`, the read callback of a stream)
  and traversals that go on between other operations;
- objects whose ownership moves between the library and the client (detached
  elements, replaced elements, shared byte arrays);
- arithmetic on `size_t` and `uint64_t` that wraps, and conversions whose rare
  cases are rare indeed (the leap day of a fourth century, a number one above
  the largest).

The modules are translated from the sources in `src/`; `PROJECT.json` has the
lines each definition stands for.

## 1. Inventory

| Component | State it keeps | Operations | Correct if | Module |
|---|---|---|---|---|
| `priority_queue.c` | array of values, number in use, number allocated | enqueue, dequeue, peek, pop, remove (by locator) | every element comes out once, the foremost first; a locator that `reloc()` gave is current whenever client code runs | `PriorityQueue` |
| `bytearray.c` | buffer, length, limit, allocated size, reference count | append, append_string, appendf, append_stream, copy, clear, resize, share, destroy | always a terminated string within buffer and limit; a call has its whole effect or none | `ByteArray` |
| `list.c` | first, last, size; cells with two pointers | append, prepend, insert_before, remove, pops, destroy, foreach, look-ups, copy | the pointers describe one sequence in both directions; an iteration survives changes | `LinkedList` |
| `hashtable.c` | array of lists, size; elements with their list cell and bucket number | make, destroy, get, put, detach, remove, pop, pop_any, get_any/get_other | a map; a traversal sees each element once | `HashTable` |
| `avltree.c` | root, size; nodes with three pointers and a balance | make, destroy, put, get, detach, remove, pops, first/last/next/previous, before/after, copy | a map; ordered, balanced, parent pointers right | `AVLTree`, `AVLMap` |
| `intset.c` | array of words | make, fill, add, remove, has, find_next(_miss) | a set; searching by words finds what searching by numbers would | `IntSet` |
| `base64.c` | none | encode/decode into a buffer, or into an allocated object | the encoding of RFC 4648; nothing written beyond the buffer; what is not an encoding is refused | `Base64*` |
| `charstr.c`, integers | none | `charstr_to_unsigned`, `charstr_to_integer` | longest prefix that is a number; overflow reported if and only if it happens | `CharstrInteger` |
| `date.c` | none | `epoch_to_utc` | the proleptic Gregorian calendar | `Date` |
| `charstr.c`, UTF-8 | none | decode, encode, skip, validate, sanitize | decodes what is well-formed, never beyond the buffer, and encodes what decodes | `Utf8` |
| `charstr.c`, URL coding | table of the encoder | custom encoder, encode, decode | decodes what it encoded; nothing reserved is left plain; memory counted right | `UrlCode` |
| `charstr.c`, splitting | none | split, split_str, split_into_array, split_atoms, strip, join | pieces joined are the string again | `Splitting` |
| `charstr_decompose.c`, `charstr_recompose.c`, `charstr_unicode.c` | marks waiting to be ordered or composed, output left | decompose, recompose, quick checks, conversion to NFC and NFD | the canonical forms of the standard, within the output | `NormalForm` |
| `charstr_grapheme.c` | state of the scan | end of the first cluster | the break is where the rules put it | `Graphemes` |
| `charstr_puny.c` | hostname and its size limit, delta and bias of punycode | encode a hostname | what is encoded decodes to the mapped hostname; names and labels within the limits of DNS | `Idna` |
| `float_format.c`, text | the number read so far | parse, format | the number written is the number read | `Decimal` |
| `float.c`, `float_format.c`, binary | none | to and from decimal, casts to integers | the nearest value; the shortest decimal number | `Binary64` |
| `integer.c`, `fsalloc.c` | the replaceable reallocator | casts; allocation | - | not modelled |
| generated tables, `gen_*.c` | constant data | look-ups | - | constants of the modules |

How they interact: the hash table is made of lists; all containers allocate by
`fsalloc.c`, which forwards to a reallocator that aborts on failure; all of
them call the client's functions (comparison, hashing, relocation, iteration,
reading) in the middle of their own work, and hand out pointers to elements
that the client passes back later. There is no other communication.

## 2. The modules

An MC module beside each (`MCPriorityQueue` and so on) gives its constants
values for TLC; a `...Proofs` module holds its theorems. **Lemmas** has what
several of those cite: division, least numbers, functions defined by recursion,
and what inserting and removing does to a sequence of cells.

**PriorityQueue** (refines **PriorityBag**). `storage`, `capacity` and
`max_capacity` are the fields of `struct priorq`. One round of `raise()`, of
`lower()` and of the loop that doubles the allocation is a step of its own,
because `cmp()` and `reloc()` run in each: `pc` says which loop runs, `slot` is
the hole and `value` the element that seeks a slot. `loc` is what the client
has been told by `reloc()`; the client calls `priorq_remove()` with it. `Key`
is the order of `cmp()`, and may be the same for several elements.

**ByteArray** (refines **ByteString**). The buffer is a function from offsets
to bytes, `Stale` where nothing has been written; all sums are modulo
`SizeMax + 1` as those of `size_t` are. `append_stream` is two steps with the
client's callback between them. `top` records the last offset a call wrote to.
The reference count is modulo `RefMax + 1`, and it is assumed that there are no
more than `RefMax` holders (`RefAssumption`); the limit is 1 or more, since it
counts the terminator.
`ByteString` says that a call changes the string as a whole or not at all.

**LinkedList** on **CellSequence**. Cells of a memory with their pointers; each
action is the function's assignments in their order. `order` is the sequence
that the pointers should spell. `Foreach` and `Advance` are the loop of
`list_foreach()`: between two of its steps the callback may do any other
operation but another `foreach` and but removing the cell it is given.
`CellSequence` has what insertion and removal do to sequences of distinct
cells; `HashTable` uses it for its buckets, which `ListInv` justifies.

**HashTable** (refines **Dictionary**). Buckets, `list_index` and the pointer
of an element to its cell, detached elements that the client has to destroy,
and one traversal by `get_any`/`get_other` that other operations interleave
with. `GetOther` needs its element to be still in the table.

**AVLTree**. Nodes of a shared memory. An operation is one step: the functions
of the source are operators from tree to tree, over the record
`[root, size, node]`, and mirrored functions (`put_left` and `put_right`, ...)
are one operator with a `side`. The balance written in each case, the order of
the pointer assignments and the tests for NULL are the code's. A loop or a
recursion is a function of its rounds, of which there are never more than the
tree has elements: `put()` changes nothing on its way down, so that its path
comes first and the way back, with the rotations, is counted from its end;
`lighten_parent()` is the last thing its callers do, which makes it a loop.

**AVLMap** (refines **Dictionary** too). Several trees of `AVLTree` with
all calls, replacement by equal keys, copying, detaching, popping; and the
answers of the calls, which `AVLTree` alone does not record.

**IntSet**. Words of `LongBit` bits, each the set of its bits that are 1;
`find_next` takes the first word with a bit of the kind sought and the lowest
such bit in it, and refuses a bit beyond `size`, as the loop of the source does.
`members` is what the set should hold.

**Date** (refines **Calendar**). `epoch_to_utc()` as a function, and one
action that asks for the next second. The reference `Calendar` is a clock: it
carries from seconds to minutes up to years, with the rule for leap years, and
has no arithmetic on days at all.

**CharstrInteger**. One digit a step; `n` wraps at `Modulus`, the 2^64 of the
source. `exact` is the number without wrapping, kept to compare with. The
characters are digits, the `x`, the signs and one that stands for all others.

**Conversions** composes the functions that follow and Base64. They keep no
state and call no client, so that a behaviour is one call: the variable
`called` is the function, its arguments and its answer, and each function is an
operator, in a module of its own, that one action of `Conversions` applies to
arguments from a constant set. Loops over characters are folds or recursive
functions; only Base64 takes its steps one by one.

**Utf8**. The decoder by the ranges of the first byte and the continuation
bytes it tests, in its order; encoding into a buffer; validation and
sanitizing, which allocates by counting first. **UrlCode**: the encoder's table
with what the client reserves and unreserves, and the counting of the size
before the writing. **Splitting**: the loops at delimiters, at white space, and
joining. **Graphemes** works on break classes, since the code looks at nothing
else of a code point; a malformed encoding is a class too.

**NormalForm** takes the tables of Unicode as constants: classes,
decompositions, composites and quick-check flags. Decomposition with its
insertion sort of marks, the recomposer with its two buffers (marks of the
starter, and those that did not compose), the limits of the output, and the
functions that allocate for their answer. A text is a sequence of code points
whose widths in UTF-8 count against the output. `NFD` and `IsNFC` state the
standard's definition. **Idna** extends it: normalization, mapping, the cutting
into labels and their checks, punycode with its adaptation of the bias, within
the work area and the limits of DNS.

**Decimal**: the parser as its scan over the characters (digits, the point, the
letters of "inf" and "nan" and `e`, signs, one that stops a number), with the
zeros it holds back, the overflow of the significand (`Modulus`) and of the
exponent (`ExponentModulus`); and the formatter with its choice between plain
and scientific notation. **Binary64** extends it: rounding from decimal, and
the shortest decimal number in the interval that rounds to a value, with the
widths of mantissa and exponent as parameters. The source multiplies by 128-bit
powers of five from a table and shifts; here the products are exact and cut off
at the same bit. Left out are two bounds (`q <= 21`, `q < 63`) that only
spare the code tests whose answer is known beyond them, and `scale_back()`'s
overflow of `int32_t` is one with the exponents beyond the greatest.

**Base64**, **Base64Encoder**, **Base64Decoder**, **Base64Codec**. `Base64`
defines the encoding as one string of bits cut into characters; the encoder
writes groups of three bytes (with the unchecked loop of the source and the
checked `put4`), the decoder collects bits character by character.
`Base64Codec` composes the two and hands what `base64_encode_simple()` wrote to
`base64_decode_simple()`. The numbers of bits are parameters.

Some modules have definitions that nothing uses, such as `FullTooLate` before
`Full`: each is a wrong form of the definition after it, named in
`PROJECT.json` under `mutants`, with the property that fails if the one is put
in the place of the other.

## 3. The runs

| Run | Properties | Bounds, and why they are enough |
|---|---|---|
| `priority_queue` | `LocatorsCurrent`, `HeapInv`, `ImplementsBag`, `CallsEnd` | up to 6 elements of 3 values, `SizeMax` 6: three levels of the heap, with a node that has a left child only, growth by doubling and the last growth, which cannot double |
| `byte_array` | `TypeOK`, `StringInv`, `FreedWithLastHolder`, `ImplementsByteString` | `size_t` of 3 bits, every limit, inputs of up to `SizeMax` bytes: all sums wrap in some state; two holders, as many as the reference count can express |
| `list` | `ListInv`, `LookupsAgree`, `VisitsEachOnce` | five cells: a list with two cells in the middle, and one to insert. Addresses are symmetric |
| `hash_table` | `TableInv`, `VisitsEachOnce`, `ImplementsDictionary` | two buckets, equal keys, colliding keys, four elements, requests beyond the largest size |
| `avl_tree` | `TreeInv`, `QueriesAgree` | all trees that calls build from 12 keys: 12 nodes are the least where one removal rotates twice, at different levels |
| `avl_map` | `Ownership`, `ImplementsDictionary` | two trees, equal keys, memory used again |
| `int_set` | `HasMembers`, `FindsNext` | words of 3 bits, every set of size 0 to 8 |
| `date` | `ImplementsCalendar` | days of 8 seconds; 146875 days, more than the 400 years after which the calendar repeats |
| `charstr_integer` | `OverflowKnown`, `AnswersNumber`, `ReadsLongest` | numbers of 8 bits; all buffers up to 4 characters of 9 kinds, in bases that divide the width and bases that do not (in base 12 products fit whose sums wrap), and 9 binary digits |
| `conversions` | `RoundTrip`, `Encodes`, `Decodes`, `Utf8Decodes`, `Utf8Sanitizes`, `GraphemeBoundaries`, `Decomposes`, `Composes`, `QuickChecksRight`, `IdnaEncodes`, `UrlRoundTrip`, `SplitsAndJoins`, `ParsesDecimal`, `ShortestDecimal`, `FormatsDecimal`, `CastsIntegers` | see below |
| `fractions_read` | `ReadsFractions`, violated | the numerals of `conversions` |
| `avl_put_stored` | `StoredPutHasNoEffect`, violated | see the findings |

The arguments of `conversions`, function by function:

- Base64: characters of 3 bits and bytes of 4, the proportion of 6 to 8; all
  texts up to 5 characters of 7 kinds, destinations of every size up to 14,
  sources beyond the size a 4-bit `size_t` can express.
- UTF-8: every buffer of one to four bytes from the bounds of each range of
  bytes and their neighbours; the first and last code point of each length, into
  buffers of one to five bytes.
- Grapheme clusters: all sequences of three classes, longer ones of the classes
  that interact (pictographs, joiners, flags, Hangul, malformed).
- Normal forms: a table with marks of five classes, characters that decompose
  twice, to one character or to one that is excluded from composition, a vowel
  sign of class 0 that composes, and Hangul; outputs from no byte up; two marks
  kept instead of 100, so that there are too many of them in short texts.
- Hostnames: characters of each status, mapped to one, several or none, with
  empty labels and hyphens anywhere; DNS names of 18 and labels of 11
  characters, which short hostnames reach.
- URL coding and splitting: all short strings of the characters that matter,
  every choice of reserved bytes, overlapping delimiters, every limit of pieces.
- Numerals: integral parts around the largest significand of 16 bits and its
  tenth, fractions and exponents of all kinds, cut off anywhere. All values of
  a format with 6 bits of mantissa and 5 of exponent, and decimal numbers
  around their bounds; integers of 8 bits.

The widths are parameters of the modules, and the code depends on them only
through the constants that scale with them.

What the properties are about:

- `HeapInv`: the heap between calls, and the heap around the hole while
  `raise()` and `lower()` run. `LocatorsCurrent` holds in every state in which
  client code runs; `ImplementsBag` says that no call loses or doubles an
  element and that dequeue, peek and remove answer the right one; `CallsEnd`
  that every call ends.
- `StringInv`: the terminator, the bounds of the writes, no stale byte within
  the string, and what a read callback is given.
- `ListInv`, `TableInv`: the pointers spell a sequence; buckets, elements and
  count agree. `VisitsEachOnce`: a traversal that other calls interleave with
  gives every element that stays, once.
- `TreeInv` (`Ownership`, `SearchOrder`, `Balanced`, `ParentLinks`),
  `QueriesAgree`: what is usual of an AVL tree, after every operation, and that
  the searches, `next` and `previous`, `before` and `after` answer as the
  ordered set of keys would.
- `OverflowKnown`: the flag that `to_unsigned()` derives from wrapped numbers
  is set if and only if the exact number exceeds the width. `AnswersNumber` is
  about the result, its sign and ERANGE, `ReadsLongest` about the prefix read.
- `Decodes`: a text is refused unless it is the encoding of some bytes, and
  decoded to these if it is, with white space where it is ignored. Texts with
  white space inside the padding are taken out (`Split`, finding 3).
- `Utf8Decodes` relates decoder and encoder to the definition of the encoding,
  `Utf8Sanitizes` a sanitized string to the bytes that belong to no code point;
  both leave out the overlong forms of finding 4 (`OverlongAt`, `HasOverlong`).
  `GraphemeBoundaries` compares the scan with the break rules stated for each
  pair of neighbours.
- `Decomposes`, `Composes`, `QuickChecksRight`: what comes out is the normal
  form that the standard defines without an algorithm, and a call fails for lack
  of room and for nothing else. Whether a text with too many marks in a row is
  composed is left out (`Crowded`, finding 5). `IdnaEncodes` decodes the encoded
  labels by RFC 3492 and asks that canonically equivalent hostnames are encoded
  alike.
- `UrlRoundTrip`, `SplitsAndJoins`: one function undoes the other.
- `ParsesDecimal`, `FormatsDecimal`, `ShortestDecimal`, `CastsIntegers`: the
  number read is the one written or the nearest that can be held, and `*exact`
  says which; the decimal number of a value is in its rounding interval, with
  the fewest digits; a value is cast if and only if the type has it. Taken out
  by name are numerals for which the code loses magnitudes or its exponent wraps
  (`LosesMagnitude`, `WrapsExponent`: findings 2, 15 and 16), decimal numbers
  with an exponent below the least one that are not themselves below it
  (`BelowLeast`, finding 6), significands that are rounded twice (finding 7),
  single digits with an exponent (`SingleDigit`, finding 8) and, from the length
  of what is formatted, negative numbers with five zeros (`AllZeros`, finding 9).

**Deadlock** is checked but where the model really stops: `byte_array` (freed),
`date` (the last epoch), `charstr_integer`, `conversions` and `fractions_read`
(the call is over).

**Fairness** is assumed in one place, weak fairness of `Continue` in
`PriorityQueue`: the loops of a call, once entered, run on, as the library is
single-threaded and its loops wait for nothing. Nothing obliges the client to
call. The other modules have no liveness property: their calls are single steps
or plainly bounded loops.

## 4. What is proved

With TLAPS, for all values of the constants that satisfy the named assumptions:

- **PriorityQueueProofs**: `TypeCorrect`, `HeapCorrect`, `IdleHeap`, `Locators`,
  `AnswersCorrect`, `BagImplemented`. The heap's order alone is not inductive:
  while a hole moves, the slots around it are ordered but for the hole, the
  elements above and below the hole are ordered across it, and the element on
  its way does not rank before what is above once `raise()` is done. The
  delicate case is `priorq_remove()`: the last element goes into an arbitrary
  slot and may have to rise or to sink, and if the slot is the last one the hole
  lies behind the elements. That the root is foremost follows from the order by
  descent to the least slot that ranks before it. For the refinement, the bag
  counts the slots that hold an element, the hole as if it held the value on its
  way: a round of `raise()` or `lower()` then swaps two slots and is a stutter,
  and only the step that begins a call changes a count, by one. An element that
  waits for the storage to grow is counted already.
- **ByteArrayProofs**: `TypeCorrect`, `StringCorrect`, `FreedOnce`,
  `StringImplemented`, for every width of `size_t`. The invariant adds to
  `StringInv` that sizes keep to their types and what a running stream has been
  granted; `EnsureSpaceFacts` shows that the wrapped sums are the true ones or
  are refused. For the refinement, each call is shown to leave the string it
  found, or the string the abstract call asks for, with the answer that says
  which; between the two steps of a stream nothing of the string changes. The
  theorems on the string assume `~Scribbles`, a read callback that keeps to the
  bytes it reports: without it they are false (finding 10).
  `FreedOnce` rests on `RefAssumption`.
- **LinkedListProofs**: `TypeCorrect`, `ListCorrect`, `VisitsCorrect`,
  `LookupsCorrect`: for any memory and any interleaving of an iteration, the
  pointers represent the sequence. The proof shows for insertion and removal at
  any place that the pointers assigned are those of the new sequence; the lemmas
  on sequences are those of `CellSequence`. The invariant of an iteration is
  that what it has yet to give lies behind its cell, what it gave does not, and
  nothing was given twice; insertion and removal keep the order of the cells
  that stay. For the walk of a look-up by index, its recursive function is given
  explicitly (the cell at that place of the sequence) and shown to be the only
  one, by the least place where another would differ.
- **HashTableProofs**: `TableCorrect`, `VisitsCorrect`, `DictionaryImplemented`,
  for any hash function, equality of keys, capacity and memory. `TableInv` is
  inductive but for two facts that are added to it: a traversal is at an element
  that is stored, and finitely many are (for the count). The proof of a removal
  rests on the two ways to an element, the bucket of its key and the bucket it
  remembers, being the same. For a traversal the invariant (`Traversal`) is that
  of a list in the bucket of its element, all that stays in earlier buckets has
  been given, and nothing of later ones. The dictionary that the table stands
  for maps a key to the one element that the bucket of the key holds for it.
- **AVLTreeProofs** and **AVLMapProofs**: `AVLSpecTreeInv`, `MapSpecOwnership`,
  `AVLSpecQueriesAgree`, `MapSpecQueriesAgree` and `MapSpecDictionary`, for any
  keys, any order of them, and any number of trees and nodes. `TreeInv` speaks of the sequence that
  a walk of bounded depth reads, which is nothing to do an induction with. The
  inductive invariant `IInv` says that there is an assignment of elements to
  trees (`own`) such that no element has two owners, every allocated one is a
  tree's or the client's, and every tree is *sound*: there are sets `sub[e]`,
  the elements below `e` with `e` itself, nested as the pointers are and ordered
  by the keys, and heights `h[e]` that the balances state. Each operation is
  proved on one tree whose elements are a set S, the rest of the memory staying
  as it is:
  - the rotations (`RotateToOnce`, `RotateToTwice`) as relations between the
    fields before and after, in the order of their assignments, and then that
    they keep a search tree and make its top level (`RotateSound`), the
    mirrored functions being one proof;
  - `lighten_right()` and `lighten_left()`: all but one subtree is level, and
    each call moves that place up or ends. A measure, the set of elements that
    are not yet above, bounds the calls by the size (`LightenSound`);
  - `put()`: its path leads from the root to where the key belongs and is no
    longer than the tree (`PathLeads`, `PathEnds`); the way back keeps that the
    tree is sound but for one subtree that grew (`PutLoop`). A replaced element
    hands its place on without any other pointer being wrong (`ReplaceFacts`);
  - `avl_tree_detach()`: `exchange()` is a renaming of two elements, also when
    one is the parent of the other (`SwapFacts`), that breaks the order only at
    the element to be removed (`SinkStep`); that one becomes a leaf
    (`SinkSound`), and cutting it off leaves a tree that is one level too low at
    one place (`CutSound`);
  - `avl_tree_copy()`: the duplicates are a renaming of the elements onto fresh
    ones (`Duplicates`, `CopyRenamed`).

  That `IInv` gives `TreeInv` is the lemma on the walk: it enumerates the
  elements, each once, by increasing keys (`WalkSound`), and the heights are
  those of `Height` (`HeightSound`).

  `QueriesAgree` follows from the same invariant. A search or a climb is a loop
  whose state has a measure that each round lowers (the size of the subtree
  where a search is, the elements not yet below a climb), so that it has ended
  when the model stops counting (`RepeatsSettle`). A search for a bound keeps
  its candidate the closest wanted element but for the subtree where it is
  (`CloserFacts`); the neighbour of an element is the outermost of its subtree
  on that side, or the first ancestor beyond it, since an element outside a
  subtree lies on one side of all of it (`AsideOf`). What is answered so, by
  ranks, becomes a place in the walk by counting the elements that are less
  (`Counted`).

  For the refinement, each lemma on a call also says what is in the nodes that
  it leaves: no assignment of a rotation, of `lighten`, of `put()` or of
  `exchange()` is to a key or a value (`Kept`, `Carries`), a replaced element
  has the rank of the new one, and duplicates have the keys and values of their
  originals. The map of a tree is the only one that fits its nodes (`MapOfOne`),
  so that it is enough to show that the map the dictionary should have fits the
  nodes after the call, and that no call writes a node of another tree. It is
  assumed that NULL is not an entry (`EntryAssumption`).
- **NumberProofs**: `MembersCorrect`, `SearchesCorrect`, of sets of integers for
  any size and any width of words. A number is determined by its word and its
  bit, so that no call changes another number's; the first word with a hit and
  the lowest hit in it are the least hit, numbers in a lower word being less.

  `CalendarKept`, of dates, for every last epoch and any lengths of minutes,
  hours and days. The clock of `Calendar` is followed day by day: every day
  since the March of 1600 is, in one way, four centuries, a century, four years,
  a year and a day of the year; its successor is the next day of the year, or
  the first of the next year, and then the month table gives the date that the
  calendar reaches, leap days of centuries and of four centuries included.
  Within a day the lemma is that a number below a product has one quotient and
  one remainder below its factors. The theorem assumes `FirstEpoch = 0`, as the
  calendar begins with 1970 (finding 11 is about what is before).

  `TypeCorrect`, `OverflowCorrect`, `AnswersCorrect`, `ReadingCorrect`, of
  integers in texts, for any buffer and width, and every base. The invariant is
  that while no overflow is noted the wrapped number is the exact one, and that
  once noted the exact number exceeds the width; the step is the arithmetic of
  `Overflows`, from lemmas on division. For what is read, `EndFacts` brings the
  grammar of numbers (prefixes, their base and their digits) down to one
  condition: all characters from the first digit on are digits. Then `exact` is
  what the digits before `dp` denote, since a digit appended multiplies the
  weight of every other by the base (`DigitDenoted`).

Some of the theorems are about definitions that no run lists, because another
property of the run contains or implies them: the `TypeCorrect` theorems of
`PriorityQueueProofs`, of `LinkedListProofs` and of integers, `IdleHeap`
(`HeapInv`), and the `AnswersCorrect` of queues (`ImplementsBag`).

The prover has no induction, but what is defined by recursion on the numbers can
be reached with the set of numbers for which a statement holds: `EveryNumber` in
`Lemmas` says that it has all of them if it has 0 and every successor, by the
least number that is missing. `RecursionExists` builds the function.

Only model-checked:

- `CallsEnd`: liveness is beyond the prover.
- `Base64*`, `Conversions` and what it composes. They are folds and recursive
  operators over texts, compared with references over the same texts.

## 5. Findings

Two runs end with a counterexample to what the repository says:

1. `avl_put_stored`: `avl_tree_put()` of the value that is already stored at a
   key replaces the element and returns the old one, where the header promises
   no effect and NULL (`avltree.c:322`, `avltree.h:142`). `hash_table_put()`
   does keep this promise.
2. `fractions_read`: where the integral part of a numeral is zero, the parser
   takes the exponent from the length of the fraction, although zeros at its end
   never reach the significand. `0.50` is read as 0.05 (`float_format.c:326`,
   `float.h:104`).

Further divergences met while modelling, without a run. The models have them,
and a property that would fail for one leaves the case out by the predicate that
is named here and claims nothing of it; except where said. The numbers in 6 to 9
are what the compiled library answers.

3. White space between the two characters of the padding is refused, also by
   `base64_decode_simple()`, of which the header says that whitespace is ignored
   (`base64.c:159`, `base64.h:54`; `Split`).
4. `charstr_decode_utf8_codepoint()` accepts three-byte forms from 0x400, where
   the shortest form needs them from 0x800 (`charstr.c:611`, `charstr.h:138`;
   `OverlongAt`). Validation and sanitizing rest on it (`charstr.h:147-158`;
   `HasOverlong`).
5. The recomposer fails with ENOBUFS after 100 marks, and
   `charstr_unicode_convert_to_nfc()` with it, where the header knows EILSEQ
   only, for text that is no UTF-8 (`charstr_recompose.c:79`, `charstr.h:285`).
   The header of `charstr_unicode_recompose()` knows EILSEQ and EOVERFLOW
   (`Crowded`).
6. A long significand with an exponent below -324 is zero, whatever the product:
   `1234567e-328`, which is 1.2e-322 (`float_format.c:480`, `float.h:124`;
   `BelowLeast`).
7. Decimal significands of 17 digits above 2^56 are cut before they are rounded:
   about one value in 700 does not convert back from its own shortest decimal
   number, as 7.5239369451067195e-171 (`float_format.c:444`, `float.h:35`;
   significands from `ryu_overflow` on).
8. `1.e+20` and `5.e-324`, which the formatter writes, are refused by the
   parser, which wants a digit after the point (`float_format.c:770`,
   `float.h:35`; `SingleDigit`).
9. `BINARY64_MAX_FORMAT_SPACE` is 25, one less than the longest number and its
   NUL take: `-0.0000015173447327116425` (`float_format.c:760`, `float.h:31`;
   `AllZeros`). In the model the bound is the same in digits: 17 of them and
   eight characters more.
10. `byte_array_append_stream()` terminates the string only if the read callback
   answers more than 0. A callback that wrote to the buffer it was offered and
   then reports end of file or an error leaves the array without its trailing
   NUL (`bytearray.c:173`, `bytearray.h:15`). The runs have `Scribbles = FALSE`;
   with TRUE, `StringInv` fails.
11. `epoch_to_utc()` of an epoch before 1970 gives negative fields
   (`date.c:24`, `date.h:10`); the `date` run begins with 1970.
12. `charstr_to_integer()` of an empty buffer returns 0 with EILSEQ, where the
   header promises a negative value (`charstr.c:425`, `charstr.h:71`). In base
   0, `0x` without digits is refused with EILSEQ rather than read as 0.
13. `intset_find_next` for a number that is missing wraps for sizes within a
   word of UINT_MAX (`intset.c:66`); not in the model's bounds. `charstr_split()`
   with the delimiter NUL runs past the end of the string; not modelled.
14. The URL encoder leaves `"` and `}` plain, where the header lists neither, but
   lists `]` (`charstr.h:335`).
15. The parser of floating-point numbers also loses the magnitude of fractions
   that are too long for the significand (`float_format.c:326`) and of integral
   digits that are too long and have a fraction (`float_format.c:315`). It may
   answer `*exact` true after digits were dropped (`float_format.c:292`), when
   the numeral has zeros in it.
16. An exponent near 2^64 wraps, `1e18446744073709551615` is read as 0.1
   (`float_format.c:375`). Rounding up to infinity and down to a negative zero
   sets no ERANGE.
17. The work area of the IDNA encoder is counted without its NUL
   (`charstr_puny.c:268`). Hyphens are refused at the end of the hostname only,
   empty labels within it are accepted, and labels that were ASCII already are
   not held to 63 characters.
18. A Hangul syllable whose letters do not fit in the output is left as it is
   (`charstr_decompose.c:35`).
19. After a prepended mark, pairs of regional indicators and sequences of
   pictographs are not kept together (`charstr_grapheme.c:80`).
20. `make_byte_array(0)` writes the NUL into an allocation of no bytes
   (`bytearray.c:29`), and the reference count wraps at 2^32 references
   (`bytearray.c:35`). The header counts the NUL among the `max_size` bytes and
   says nothing of the number of references; the model begins with a limit of 1
   and assumes `RefAssumption`.

## 6. What is left out

- Memory exhaustion: the library aborts. `realloc` of more than 2^61 pointers.
- Clients that break the contract: a key that changes while it is stored, a
  cell removed by its own `foreach` callback, use after destroy, an input that
  points into the byte array's own buffer, a byte array with no room for its
  terminator or with more than 2^32 references.
- `list_copy()` (a foreach that appends to another list) and nested iterations.
- Sizes of bit sets beyond INT_MAX, where a search cannot answer.
- `EOVERFLOW` of the Base64 decoder, which takes 2^63 bytes; which characters
  stand for 62 and 63.
- Days beyond INT_MAX in `epoch_to_utc()`.
- Of `charstr.c`: character classes and case mappings (look-ups), comparisons
  of prefixes, copies, `charstr_printf()` and its relatives (the C library's
  `vsnprintf`).
- `charstr_idna_status()`, and the tables that `gen_*.c` make from the data of
  Unicode: the modules take tables as constants.
- The precision of the tables of powers of five in `float_tables.h`.
- `integer.c` (two comparisons) and `fsalloc.c` (one forwarded call): no state
  and no control worth a module.

## 7. Plan

Done: the containers and all conversions, and the proofs of every container
(the searches of the trees and the dictionary that they implement among them),
of the integers and of the dates. In the order of the next steps:

1. That UTF-8 decodes what it encodes, for every code point, and that Base64
   writes what its size function says, for every length.
2. `list_copy()`, with a second list in `LinkedList`.

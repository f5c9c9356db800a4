# libfaafo, specified

libfaafo is a small C library of containers: a growing array, a linked list, a
hash map, a map sorted by radix sort, and strings (the Better String Library,
compiled in). This directory holds TLA+ modules translated from its source, TLC
configurations that check them, and proofs that TLAPS checks.

Everything is sequential: no threads, no signals; what is read comes from the
client's callbacks. What makes the code
hard to test is something else. Almost every call allocates, and any allocation
may fail, also in the middle of a bulk call or of a rehashing; pointers are
shared with the client, who has to know after every call what is still its own;
blocks and counters are kept apart (a capacity and the block it describes, a
size and a chain of nodes), so that a sequence of legal calls may drive them
apart; and loops end only because an invariant of the data says so.

Paths such as `arraylist.c:164` are relative to `src/src/`, headers are in
`src/include/`.

## The parts of the library

| Part | State | Operations | Talks to | Correct when |
| --- | --- | --- | --- | --- |
| ArrayList (`arraylist.c`) | block, `size`, `capacity`, destructor `df` | create, add, add_all, set, remove, sort, clear, destroy, reads | `calloc`, `realloc`, `df` | stores stay in the block, unused slots are NULL, every owned value is freed once |
| LinkedList (`linkedlist.c`) | `first`, `last`, `size`, nodes, `node_value_df` | push, push_all, pop, remove_node(s), find_node, clear, destroy | allocator, `df`, `equals_fn` | the nodes form one chain that ends, `last` and `size` agree with it, no loop touches a freed node |
| Conversions (`linkedlist.c`) | a list and an array, element copies | from_ArrayList, from_array, to_array | ArrayList, LinkedList | deep copies, in order, nothing freed twice or leaked |
| HashMap (`hashmap.c`) | buckets of lists of entries, `capacity`, `threshold`, `size` | put, get, remove, clear, destroy; growing inside put | LinkedList for every bucket, `hash_fn`, `equals_fn` | an entry is where its hash is looked for, one entry per key, `size` counts them |
| RadixMap (`radixmap.c`) | two buffers, `max`, `end` | create, add, delete, find, sort, destroy | `calloc` | sorted between calls, equal keys in order of insertion, found is what is there |
| Strings (`bstrlib.c`) | block, `mlen`, `slen` | make, grow, copy, edit, trim, replace, convert, compare | `malloc`, `realloc` | terminator in place, inside the block, also when an argument is a piece of the string |
| Searches (`bstrlib.c`) | position, what has been met so far | binstr and binstrr with and without case, bstrchrp, bstrrchrp, binchr, bninchr and their reverses | `tolower` | the nearest occurrence, no character looked at behind the end |
| String lists (`bstrlib.c`) | slots `mlen`, entries `qty` | create, alloc, destroy, split by a set or a string, with a callback, join | Strings, the client's `cb` | entries within the slots, pieces follow one another, joining restores |
| String streams (`bstrlib.c`) | buffer, `maxBuffSz`, `isEOF`, core stream | open, close, read lines or lengths, put back, peek, split; bread, bgets | Strings, `readFnPtr`, `getcPtr`, `cb` | the input arrives whole and in order, `bseof` is true at its end only |
| Formatting (`bstrlib.c`) | none | bformat and its likes | `vsnprintf` | not modelled |
| Commons (`commons.c`) | none | destructors, overflow test | all containers | part of the above |
| Macros (`dbg.h`, `defer.h`, `ptr_deref.h`) | none | control flow, logging | all | not modelled on their own |

A HashMap calls LinkedList for its buckets; a LinkedList is made from an
ArrayList and calls no method of it but reads and, when asked, destroy. String
lists, streams and searches use strings; a search is called by replacing and by
splitting. All other interaction is with the client (values, destructors,
comparison, callbacks) and with the allocator.

## Modules

`ArrayList`, `LinkedList`, `ListConversion`, `HashMap`, `RadixMap`, `RadixSort`,
`BString`, `BSearch`, `BStrList` and `BStream` are the detailed specifications, one
action per operation; long operations take a step per turn of their loop. `ret` holds the last call and
what it returned, so that results are compared with what the abstract
specification says and not only the state.

| Detailed | Abstract | What the abstract one is |
| --- | --- | --- |
| `ArrayList` | `AbstractList` | a sequence; a call that fails changes nothing |
| `LinkedList` | `AbstractNodeList` | a sequence of node and value; removal and clearing are single steps |
| `HashMap` | `AbstractMap` | for each key content, the key pointer and value stored, or nothing |
| `RadixMap` | `AbstractRadixMap` | how often each pair of key and value is in the map; find gives one with the key, delete takes the one given |
| `RadixSort` | `RadixPass` | a stable sort of the array by one byte, as a formula |
| `BString` | `AbstractString` | a text; each call names itself and its arguments; comparisons give the order of the bytes |
| `BStream` | `AbstractStream` | what is still to come and the text of the client's string; a read moves a part from one to the other in one step |
| `BSearch` | `Sought` in it | the nearest position at which there is what is sought |

`ListConversion` extends `LinkedList` (conversions run on the real chain of
nodes, and its other calls go on in between). `RadixMap` uses the sort as the
formula of `RadixPass`, which `RadixSort`, the same code loop by loop, is
proved to compute. `HashMap` takes of a bucket only the set of its entries:
that LinkedList keeps them is what `LinkedList` is checked for. `BString` takes the
searches as what they find, which `BSearch`, loop by loop, is proved to be.
`BlockSize` is the rounding of block sizes that `BString`, `BStrList` and
`BStream` share. The strings in a list of `BStrList` are texts, since what their
blocks do is `BString`'s; the block of the client's string in `BStream` is
modelled, as the buffer's is, because sentinels are written into them.

Correspondence that is not evident from the names:

- *Blocks.* `data` of ArrayList and of BString is a function on the slots that
  were really reserved (`room`, or its domain). A slot outside reads as `JUNK`.
  `capacity` and `mlen` are what the program believes.
- *Ownership.* `owner` says who has to free each value. It changes with each
  store, each destructor call and each pointer handed back. `owning` tells a list
  whose destructor frees from one whose destructor is `Commons_noop`; both are
  among the initial states.
- *Heaps.* `failing` is chosen once and says which kinds of allocation the heap
  may refuse; such an allocation may still succeed. Properties that the code
  keeps on some heaps only name them. ArrayList has no such variable: its
  allocations may always fail.
- *Equality and hashing.* Pointers (`Value`, `Key`) are distinct from what they
  point to (`ContentOf`); two pointers may have equal contents. `Hash` stands for
  `hash_fn` followed by the mixing of bits in `generate_hash`, which is one to
  one.
- *Integers.* `UINT_MAX`, `SIZE_MAX` and `INT_MAX` are constants; products and
  sums wrap where the code's do. A key of RadixMap has four digits of base
  `Base`, 256 in the code.
- *Strings.* After each call the bytes behind the terminator are forgotten
  (`JUNK`): no call may rely on them. An argument is a string of its own or a
  piece of the string that is changed; what is read through a piece after the
  block has moved is `JUNK`. Characters have a code, so that comparisons subtract
  bytes as the code does: the difference of unsigned bytes.
- *Searches.* `name` is the function that was called, `s` and `t` its strings,
  `alias` says whether they share their memory. One turn of a loop is one step; a turn
  of `binstr`'s looks at two characters.
- *Streams.* A call takes a step for each call of `readFnPtr`, `getcPtr` or
  `cb`. `short` is chosen once and says whether the core stream delivers less
  than it is asked for. `run` is the call that goes on and its local variables.
- *Lists of strings.* `list.entry` holds `NULL` where a piece could not be copied;
  `made` remembers what was split, for the property of joining alone.

Assumptions on the client, besides the `nonnull` attributes: it passes ownership
of a value once, passes live nodes of the list, uses a found RadixMap element
before the next call that moves elements, passes no piece of a string that a
failed call has left without terminator, and (but for `bstring_replace`) has no
match replaced by a piece of the string that lies before the first. Its callback
may change the string that `bsplitcb` and its likes are splitting, as their
comments allow; it leaves the stream that is being split alone.

## Runs

| Run | Instance | Shows |
| --- | --- | --- |
| `arraylist` | 3 values, blocks of up to 4 slots, default capacity 2, `UINT_MAX` 7, batches of 2 | the block is never overrun, spare slots are NULL, ownership is exact, the abstract list is implemented |
| `arraylist_small_block` | capacity 1 below the default 2 | **violated**: clear claims slots that were never reserved |
| `linkedlist` | 3 nodes, 3 values of which 2 are equal, batches of 2, any single push refused its node | one chain at every turn of every loop, no freed node followed, ownership exact, calls return, the abstract list, which takes the header at its word, is implemented |
| `conversion` | 2 nodes, 4 values of 2 contents, 5 kinds of heap, bulk pushes refused nodes as well | arrays are exported whole and in order, copies are deep; what is allocated is in one reachable place until it is freed, and freed once, and what succeeds has copied all, each on the heaps on which the code keeps it |
| `hashmap` | 4 keys of 3 contents in one and in two buckets, tables of 1 to 8, 3 kinds of heap | entries are found where they are, also halfway through growing; keys unique, size exact, load kept, ownership exact, the abstract map is implemented |
| `radixmap` | 3 keys, maps of 0, 1, 2 and 5 slots | sorted between calls, a slot to spare, a search ends and finds what is there, insertion order of equal keys, the abstract map is implemented |
| `radixsort` | every array of up to 3 of 8 keys, base 3 | each pass is a stable counting sort that writes every slot once; four of them sort |
| `bstring` | strings of up to 4 of 3 characters, one of them a space whose byte is negative as a char, blocks of 1 to 8 bytes, 3 kinds of heap | no store outside the block and the terminator in place when the heap grants what is asked; on every heap the text and the result are what was promised or the call failed |
| `bstring_replace` | the same, on a heap that grants everything; the replacement lies before the first match | **violated**: it is read from a block that was freed |
| `bsearch` | texts of up to 6 and strings sought of up to 4 of 2 characters that differ in case, positions -1 to 7; `bninchr` and `bninchrr` avoid at least one character | each search returns the nearest occurrence, looks at no character outside the strings, and ends |
| `bstrlist` | strings of up to 4 of 2 characters, by 3 sets and 3 separators (one empty), lists that start with 1 slot, a callback that puts any of the strings in place, 3 kinds of heap | entries within the slots, joining restores, splittings end; divided by characters, each piece is the whole string or what is between two separators |
| `bstream` | inputs of up to 4 of 2 characters, buffers of 1 and 2, splitting reads 2 at a time, 3 separators (one empty, one of two characters), short reads, 3 kinds of heap | no sentinel outside a block; nothing lost, repeated or reordered by any call, the stream is where the comments say, `bseof` is right; what `bssplitstrcb` divides comes in order, cut at the first separator, with its offset; calls return |

`TypeOK` is checked with an invariant that rests on it: `ChainExact`, `EntriesInPlace`,
`SortedAlways` and `Terminated` of `BString` have it as their first conjunct.

Why the bounds are enough. ArrayList: three values fill and grow a block from 2
to 3 to 4 slots and meet a refusal; with `UINT_MAX` 7 the product in `expand`
wraps from capacity 3 on, so that both ways of growing occur. LinkedList: with
three nodes a removal concerns the first, an inner, the last and the only node,
and a push may be refused. HashMap: tables of 1 have threshold 0 and grow with
the first put; contents of equal and of different hashes separate at 8 buckets
and not before, so entries stay and move. RadixMap: sizes 1 and 2 are the ones
with no and one usable slot, size 5 has room for two equal keys on either side
of another. RadixSort: 3 elements of 8 keys include equal bytes in every
position and carry between passes. BString: blocks of 2, 4 and 8 bytes are
exceeded, met exactly and undercut by texts of 0 to 4 characters, the least
block is one byte, and two matches can each grow. BSearch: a string of four may be
met with characters in between, twice, from odd and even places, and end with the
last character of the text or one before it; what is longer is proved. BStrList:
lists of 1 slot (4 in the code) grow to 2, 4 and 8 with up to five pieces. BStream: an input of four is
more than a buffer, than two buffers and than a splitting reads at a time; a line
may end in the buffer, at its end, and in what is read next, and a separator of two
may be cut by the buffer.

`SYMMETRY` is used in `hashmap` and `conversion`, over nodes and over pointers of equal content;
neither checks liveness. `VIEW` in `bstring` and `bstream` leaves out `ret`, which
no call reads: states that differ in it alone have the same future, and TLC
checks every step it generates, new state or not.
`CHECK_DEADLOCK FALSE` is in `RadixSort.cfg` and `BSearch.cfg`, where one call is
made and returns, and in `BStrList.cfg`, where `bjoin` may crash.

### Fairness

`CallsReturn`, `FindReturns`, `SearchEnds` and `SplitsEnd` assume weak
fairness of the steps of the call that goes on, the return of a callback included, and
of nothing else: a C function that runs goes on running until it returns. Clients
need not call anything.

### What the runs refute

- `arraylist_small_block`: `ArrayList_clear` (`arraylist.c:164`) sets `capacity`
  to the default and keeps the block. A list created with less believes in
  slots that are not there; later adds go past the block.
- `bstring_replace`: `findreplaceengine` copies a replacement that points into
  the string only if it overlaps what follows `pos` (`bstrlib.c:1684`). A piece
  before `pos` is safe from the moving of parts, but not from `balloc`, which may
  free the block before the piece is read (`bstrlib.c:1791`).

### Met while modelling, without a run of its own

These are part of the models where the part is modelled. Where one is a disagreement
with a header or a comment, the property states what that says, and the instance or
the property names the cases in which the code keeps it; what the code does in the
others is said here and not taken for right by any property.

Containers:

- `LinkedList_push_all` returns true although a push failed: the action of the check at
  `linkedlist.c:108` is the expression `false`, which does nothing. `linkedlist.h:116` says
  "true on success, false on failure", and so does `AbstractNodeList`: with `BulkRefused`
  TRUE in `LinkedList.cfg` TLC refutes `ImplementsAbstractNodeList`.
- `LinkedList_from_array` (`linkedlist.c:53`) lets the destructor free a copy whose push
  failed and frees it again (`linkedlist.h:87`). `LinkedList_from_ArrayList` leaves the list it
  has built behind when a copy cannot be made (`linkedlist.c:25`, `linkedlist.h:63`), and
  ignores a push that fails (`linkedlist.c:27`), so that what it returns lacks an element
  (`linkedlist.h:70`). In `conversion`, `FreedOnce`, `NoneLost` and the conclusion of
  `CopiesAll` are refuted on heaps that refuse these allocations.
- `RadixMap_delete` marks its element with `UINT32_MAX` (`radixmap.c:92`) and drops
  the last one; an element whose own key that is stays behind it, and the wrong
  one goes. The run keeps keys below it.
- The check for a NULL list in `LinkedList_from_array` (`linkedlist.c:41`) is
  the expression `NULL`; execution goes on.
- `radixmap.c:21` tests `contents` where it means `temp`: a map without its second
  buffer is handed out, and the first sort writes through NULL. The model has the
  missing buffer; the runs let that allocation succeed.
- An entry whose node cannot be allocated during rehashing is lost
  (`hashmap.c:241`); a new entry whose push fails is counted (`hashmap.c:169`):
  `RehashKeepsEntries`, `SizeExact` and `ImplementsAbstractMap` exclude these.
- `expand` of ArrayList reaches capacity 0 from `UINT_MAX`, a size no heap gives.
- `linkedlist.h:127` and `:138` warn of pointer comparison; the code uses
  `equals_fn`. `linkedlist.h:144` says that pop returns the element; it returns
  whether there was one. The models follow the code.

Strings:

- `balloc` falls back on a block of exactly the size asked for. `bassign`,
  `bassignmidstr` and `breplace` ask for no terminator and then write it one byte
  past. `bfromcstrrangealloc` with an odd least size also tries one byte less.
  `bcatcstr` and `bassigncstr` leave no terminator when they fail. `Terminated` is
  stated for a heap that grants what it is asked.
- `brtrimws` guards the terminator it stores at `i + 1` by `mlen > i`
  (`bstrlib.c:807`), one less than a full block needs; `bstrnicmp` returns the difference of the bytes as
  they are, not of their lower case (`bstrlib.c:692`).
- `findreplaceengine` allocates an array of the places of the matches
  (`bstrlib.c:1750`). Its refusal has no action of its own: as when the block cannot
  grow, the call returns `BSTR_ERR` and the text is unchanged.

Searches:

- `bninchr` and `bninchrr` refuse an empty set (`bstrlib.c:1455`, `:1470`), though their
  comments promise the first or last position in which none of its characters is found
  (`:1446`, `:1461`). `SearchExact` states the comments; the constant `Excluded` of
  `BSearch.cfg` has no empty set.

String lists:

- With an empty separator `bsplitstrcb` calls `cb` for each character (`bstrlib.c:2762`),
  where its comment says once for the whole string (`:2742`). Behind a match it goes on one
  character further than it should (`:2775`), so that a separator right behind another is
  text and `"abab"` is split by `"ab"` into `""` and `"ab"` (`:2740`). When `cb` has shortened
  the string to less than what is split it calls `cb` with a negative length (`:2779`),
  where it says that it halts (`:2748`). `PiecesExact` is stated for `bsplitcb` and
  `bsplitscb`, which separators of one character go through; `ApartPiecesAreExact` says of `bsplitstrcb` that these are the only cases.
- A piece that cannot be copied is stored as NULL (`bstrlib.c:2807`), and `bjoinblk`
  reads its length before it looks (`bstrlib.c:2380`). Its header is not tested either
  (`bstrlib.c:2386`).

Streams:

- `bssplitstrcb` looks at `bseof` before it looks for a separator in what the last read
  brought (`bstrlib.c:2559`), so that the last piece may contain it (`:2512`); with an empty
  separator it hands out what a read brings (`:2540`) and not each character (`:2513`); and
  it calls `cb` with what is behind the separator in a buffer of its own (`:2554`), where its
  comment has the stream point right behind it (`:2516`). `AbstractStream` has no splitting
  by a string: `ImplementsAbstractStream` is asked of every other step, and of these
  `PiecesInOrder`, which is what the code keeps of that comment.
- If the heap refuses the string `bssplitstrcb` reads into, it loops for ever
  (`bstrlib.c:2558`): `CallsReturn` excludes that.
- With an empty separator `bssplitstrcb` does not destroy its buffer when it comes to
  the end (`bstrlib.c:2546`); only a callback that stops it has it destroyed. The
  model does not count the blocks of strings that a call has made for itself.
- `bsreadlna` returns `BSTR_OK` when the copy of a buffered line was refused
  (`bstrlib.c:2115`), and when the growth is refused after it has copied the buffer
  the same characters are delivered again (`bstrlib.c:2130`). `AbstractStream` names
  these as what a failed read may do.
- `bspeek` calls `bassign`, which may write a terminator past a block
  of just the size of the text; `Terminated` excuses it on heaps that grant no more than
  is needed.
- `bsreada` sets `isEOF` on a refused copy; `breada` takes a short read for the end;
  `bgetsa` loses the character for which it could not grow (`bstrlib.c:1991`);
  `bsclose` loses what is buffered.

## Proofs

`ArrayListProofs` proves about `ArrayList`, for every choice of its constants:

| Theorem | Says |
| --- | --- |
| `TypeCorrect` | every reachable state is well typed |
| `BlockCorrect` | `CapacityReserved`: `size <= capacity <= room` while there is a list |
| `SpareSlotsCorrect` | `SpareSlotsNull`: unused slots are NULL |
| `OwnershipCorrect` | `OwnershipExact`: an owned value sits in one slot, exactly while the list owns it |
| `ListIsRefined` | `ImplementsAbstractList`: each call does to the sequence of elements what `AbstractList` promises |

The assumptions on the constants are those of `ConstantsAssumption`. All but the
first theorem also assume `ReasonableUse`: no client asks for fewer slots than the
default, and no heap gives a block of `UINT_MAX` pointers. Both are needed. The
run `arraylist_small_block` breaks the first; with `HeapLimit = UINT_MAX` TLC
finds a list of capacity 0 after the last growth.

The argument. `TypeOK` is inductive by itself. `CapacityReserved` is not: clear
sets the capacity to the default, so `BlockInv` adds that the capacity, and with
it the block, never falls below that, and that the block stays within the heap's
limit. Then growing really grows (`NewCapacityGrows`): a wrapped product is noticed
and replaced by an increment, which cannot wrap below `UINT_MAX`.
`SpareSlotsNull` needs `BlockInv`, for a store at `size` to be inside the block.
`OwnershipExact` needs to know in addition that what a bulk add has still to add
is the caller's, each once (`OwnershipInv`): else the next turn would store a
pointer a second time. Each proof has one step per action of `Next`; what adding,
removing, replacing, sorting and destroying do to the slots are lemmas. For the
refinement `Filled` adds that the slots in use hold values; a search returns the
least slot with an equal value, which is the least position of the sequence. It
assumes `NullIsNoList`, that the model's `NULL` is no sequence: the abstract list is
`NULL` where there is none.

`LinkedListProofs` proves about `LinkedList` and `ListConversion`, for all nodes and
values and lists of every length:

| Theorem | Says |
| --- | --- |
| `ChainsAreExact` | `ChainExact`, with `TypeOK`: the pointers form one chain that ends, of just the allocated nodes |
| `LoopsAreLive` | `LoopsStayLive`: no loop follows NULL or a freed node |
| `OwnershipIsExact` | `OwnershipExact`: an owning list owns what its nodes hold, each value in one node |
| `ListIsRefined` | `ImplementsAbstractNodeList`: the turns of the loops are steps of the sequence of nodes the header promises, or not seen |
| `ExportsAreExact` | `ExportExact`: the array handed out has the contents of the list, in order |
| `CopiesAreDeep` | `DeepCopy`: list and array share no pointer |
| `MemoryIsExact` | `MemoryExact`: what conversions and lists allocate is in one place that the client can reach until it is freed, and freed once, each on the heaps on which the code keeps it |
| `ConversionsCopyAll` | `CopiesAll`: where no push is refused, a conversion that succeeds has copied all |

`ListIsRefined` assumes `~BulkRefused`, that `calloc` has a node for every value of a bulk
push, as its run does, and `ReasonableUse`, that the model's `NULL` is no list.
`MemoryIsExact` assumes `NullIsNoSource`, that `NULL` is no ArrayList.

For `MemoryIsExact` the invariant has two parts, each on its heaps. `MemoryInv`: every value
is free, its caller's, in one node of the list or in one slot of the client's ArrayList, at
each turn of making, exporting, draining and clearing as well. `NoneTwice`: no step frees
what is free already.

The argument. The chain is a sequence of nodes, chosen by what it has to satisfy: it
starts at `first`, follows `next`, ends at `last` and meets each allocated node once.
There is at most one such sequence (two would differ first at some least place, and the
pointers leave no choice there), so that each action has only to exhibit the one that
it leaves behind: with a node appended, taken out, or without its first. The cursor of
a loop is a place in that sequence. A clearing frees from the front, so what is left is
a tail of it.

`RadixProofs` proves about `RadixPass`, `RadixSort` and `RadixMap`, for every `Base`, all keys and
values, and arrays of every length:

| Theorem | Says |
| --- | --- |
| `PassesSort` | `SortedSoFar`: after each pass the elements are all there, sorted stably by the bytes seen so far |
| `PassesCompute` | `PassesAsStated`: the loops compute the formula of `RadixPass`, and four passes the sort `RadixMap` takes them for |
| `AlwaysSorted` | `SortedAlways`, with `TypeOK`: a map is sorted between calls and while it is searched |
| `OldElementsStay` | `OlderStayPut`: a new element goes behind those with its key, and nothing else moves |
| `MapIsRefined` | `ImplementsAbstractRadixMap`: searches are exact, and the pair that leaves is the one that was found |

Those about the map assume `SizesFit`, that no map has more slots than an `int`
counts, and the last one `KeysSpare`, that no client uses the key which marks a deleted
element, and `NULL` is no element. TLC finds both needed: `SortedAlways` fails with
`INT_MAX` 2, and the refinement if `UINT32_MAX` is a key.

The argument. The place of an element, which `PlaceOf` counts, is a bijection of the
slots that keeps the order of the measure. `SortInv` says what each loop has done: how
often the bytes were counted, that an index is the number of elements that belong
before the next with this byte, that the slots of the places taken are filled. So a
pass ends with the formula (`PassDone`). `PlacesCompose` is why four passes sort: a
stable sort by the next byte of what is sorted by the lower ones is the sort by both
(`PassExtends`). Then the buffer that is read is always the input sorted by the low bytes.
For the map, adding to a sorted array and sorting moves the new element behind those
with its key, and each larger one by a slot (`PlacesGrown`); the search has left behind
only what is too small or too large (`SearchOK`); how often a pair occurs is the same
after sorting (`SortCounts`).

`BStrListProofs` proves about `BStrList`, for all strings and separators and lists of
every length:

| Theorem | Says |
| --- | --- |
| `ListsHaveRoom` | `ListRoom`: the entries of a list are in its slots |
| `PiecesAreExact` | `PiecesExact`: a string divided by a character or a set of them: each piece ends at the next separator, has none in it, and the next one starts behind it, though the callback may change the string |
| `ApartPiecesAreExact` | the same of `bsplitstrcb`, where the separators are apart |
| `JoiningRestores` | `JoinRestores`: joining what a string was split into makes that string |

`ApartPiecesAreExact` is stated under `Apart`: separators of two characters and more
are never right behind one another in the strings, and are followed by something in each
string the callback makes; none is empty. Without each part the code does not do what its
comment says, as told above. `JoiningRestores` assumes `NullIsNoText`: the model's `NULL`, which marks a piece that could
not be copied, is no sequence.

The argument. `ListInv` has the slots (doubling really doubles, since the lengths are
powers of 2), what the client asked for, and the place of the loop in the string. `JoinInv`
says that the pieces so far, joined, make the string up to the last separator, that
the loop stands behind it, and that joining goes on with what is left. `bjoin` is
the recursive function of `FlattenSeq`; that it has a value, and what one piece more
adds to it, is shown at the least place where it would fail (`FlattenIs`, `FlattenAppend`).

`BStringProofs` proves about `BString`, for all characters and strings of every length:

| Theorem | Says |
| --- | --- |
| `TerminatorInPlace` | `Terminated`: whatever the heap does, the string is in its block and made of what was written; and where it grants what is asked for, no call writes outside the block and each leaves the terminator in its place |
| `StringIsRefined` | `ImplementsAbstractString`: whatever an argument shares with the string, however the block moves and whichever request is refused, each call makes of the text what `AbstractString` promises and returns what it promises, or fails as it says there |

Both assume `ShortStrings`, that strings are shorter than the largest power of 2 an
`int` holds: from there on `snapUpSize` returns what it is given, and `bassign`, which asks for
no room for the terminator, has none. And `NoneBefore`, that no replacement lies before the
place `bfindreplace` starts at: there the bytes of a freed block are read, which is what
`bstring_replace` shows. The second also assumes `NullIsNoText`, that the model's `NULL` is
no text, and `CodesDiffer`, that different characters have different values.

The argument for the first. Every call ends by `Stores`, so that what is to be shown of it is that
the block has room and that the bytes of the string are characters (`Holds`), none of them a
byte behind the old terminator. `BlocksGranted` is what `balloc` gives, `LayHolds` what writing
to a block makes of it; each call is some of both. Two calls have recursion in
them. The sizes `bfromcstrrangealloc` tries are never lower than one below the least
(`HalvesBound`). In `findreplaceengine` the matches lie in the string, one behind the other
(`MatchesSpaced`); a string that grows is put together from its end, without a gap
(`LayersPlace`), and when all matches are exchanged what is in place begins no later than
where the first match was (`ExchangedHolds`).

The argument for the second. `Terminated` is the invariant a step is taken from: it is what
makes the string readable in the block at all. There is one lemma per call
(`AllocRefines` to `FindreplaceRefines`). A call that succeeds stores a text at the front of
the block (`StoresText`, `BecomesText`), which is a change `AbstractString` has
(`ChangeIs`). So what is left is to say which text: the block that `balloc` gives has
the string at its front (`BlocksKeepText`), and `LaidText` and `SplicedTextIs` say what the text
is once another is written over it or put into it. The comparisons are decided by the first
character that differs, or by the end of the shorter string (`SignsFirst`, `SmallerIs`).

The hard one is `findreplaceengine`. `AbstractString` promises the exchange of the matches from
left to right, as a recursive function of what is left of the string; the code counts the
matches, grows the block once and moves the parts in it, from the end when the string
grows. `MatchesLeftmost` says that the matches counted are the leftmost ones, each the
first behind the one before. `Replacing` describes the result by the places where its
matches and the gaps between them land, and `ReplacingIs` shows that this is what the
function makes. The bytes of the block are then followed to these places: from the end when
the string grows (`RisingAll`: no part still to be moved has been overwritten), from the
front otherwise (`SinkingAll`), which `ExchangedText` puts together.

`BStreamProofs` proves about `BStream`, for inputs of every length, all sizes of buffers and
reads, core streams that deliver as little as they like, and whatever the heap refuses:

| Theorem | Says |
| --- | --- |
| `EveryReadTerminates` | `Terminated`: no sentinel is written outside a block, but by `bspeek` and into the string it has left without room; and what is read into the client's string ends with a terminator, unless the heap refuses even what is needed |
| `PiecesComeInOrder` | `PiecesInOrder`: what `bssplitstrcb` divides, by separators of any length and the empty one, it hands out in order and without loss, cut at the first separator, with exact offsets |
| `StreamIsRefined` | `ImplementsAbstractStream`: what is read, put back, split and still to come is what `AbstractStream` promises, and `bseof` and the offsets tell the truth |

All assume `ShortTexts`, for `bspeek` what `ShortStrings` above is for `bassign`, and
`NullIsNoRecord`: the model's `NULL` has neither a field `acc` nor a field `text`.

The argument. `StreamInv` says of every place a call may be at what room it has made. The
blocks are related to the sizes in the calls and not to each other: a call that reads by
way of the buffer has grown it beyond `maxBuffSz` (`RunOK`), so that what follows a line in
a read of that size fits into it; and it has still something to read, without which
`bsreada` would cut a negative part off the buffer. The string that is read into is grown by
each turn for what that turn may read (`GrownFits`); it is the client's or, while a stream is
split, the one pieces are taken from (`Into`). The client's may have no room (`Held`), by
`bspeek` on a heap that gives no more than is needed. A step ends the call, goes on or calls the
callback, and each of these is taken once (`EndsGood`, `GoesOnGood`, `CallsGood`).

For the refinement a read of many turns has to be one step of `AbstractStream`, taken when
the call returns; until then the abstract state is what the call found (`run.from`). So the
invariant has to say how far the call has got: `FlowInv`, with `StreamInv`, says for each
kind of call that what it has read, what is buffered and what is left in the core stream
make up what it found (`LineFlow`, `ReadFlow`, `AllFlow`, `GetsFlow`). A line read so far
has no terminator in it, and a read of a number of characters has not got more than that.
For a stream that is split (`SplitFlow`) the place the splitting has reached is its start
less what is to come, and what was searched before a read has no separator in it
(`AccFlow`), which makes the piece found later the shortest. `bseof` is true because
`isEOF` is set only where the core stream is at its end or the heap refuses what is
needed (`EndFlow`). There is one lemma for each way a turn can end (`LineFlows` to
`PieceLost`, `SplitCharFlows`, `SplitStringFlows`). A step of a splitting by a string is one of
`PiecesInOrder` (`Divides`), every other one of `AbstractStream` (`Stepped`). The rest is the cutting and joining of
sequences (`InARow`, `CutAt`). The proof showed that the cases of `SplitJudge` were not exclusive
for a set of separators that is the empty sequence, and the model now tells the two
splittings apart by name, as the two functions in the source are.

`BSearchProofs` proves about `BSearch`, for all characters, strings and positions and
whatever `tolower` is (the first one where `bninchr` and `bninchrr` have some character to
avoid, `SomeExcluded`):

| Theorem | Says |
| --- | --- |
| `SearchCorrect` | `SearchExact`: a search that has returned has the nearest position at which there is what it seeks, or there is none |
| `ReadsCorrect` | `ReadsInside`: no turn of a loop looks at a character outside the two strings |

The argument. `SearchInv` has one conjunct per loop. In the loops over characters
and in those that compare a string place by place it says that nothing sought has
been left behind. `binstr`'s loop is the hard one: it does not go back when a
character differs, but keeps how many characters of the string it seeks it has met
(`j`), where the first was (`ii`), and goes on past others. What makes that right is
`UnrolledInv`: the first `j` characters are met as early as they can be, so every
match `q` satisfies `i <= q + j`; and if just `j` characters were passed since `ii`
they are in one piece. When all have been met that is a match, and the first; or it
is not, and no match starts before the place the loop returns to.

`HashMapProofs` proves about `HashMap`, for all keys and values, every hash function, and
tables of any size:

| Theorem | Says |
| --- | --- |
| `EntriesInPlaceCorrect` | `EntriesInPlace`, with `TypeOK`: a search looks where the entry is, also halfway through a rehashing |
| `KeysUniqueCorrect` | `KeysUnique`: one entry for each content |
| `SizeExactCorrect` | `SizeExact`: the size is never too small, and exact where no push is refused |
| `LoadKeptCorrect` | `LoadKept`: the load factor, between calls |
| `OwnershipExactCorrect` | `OwnershipExact`: what the map owns is in one entry each |
| `RehashKeepsEntriesCorrect` | `RehashKeepsEntries`: growing loses and changes nothing where no move is refused |
| `ImplementsAbstractMapCorrect` | `ImplementsAbstractMap`: what the calls do and return is what `AbstractMap` promises, until a move is refused |

They assume `ConstantsAssumption` and this module's `ReasonableUse`: that the heap gives no
table of `SIZE_MAX` pointers, else `expand` ends with a capacity that is no power of 2
(`hashmap.c:198`); and that the model's `NULL` is neither a set of entries nor a
pair of pointers.

The argument. `MapInv` is the conjunction of the invariants, which lean on one another
(a put finds the entry of its key only if that is in its place; the count grows by
one only if there was none), with two more: `CallInv` keeps what the put that is
growing the table was given and says that the table has just doubled, and `LoadInv`
carries the load factor through the growing, so that there is room when it has ended.
The heart is `Doubled`: the remainder by twice the capacity is the old one, or that
plus the capacity, by the bit `rehash_old_buckets` looks at. So an old bucket is split into
its own place and one that is still empty (`RehashNextStep`). For the refinement
`DictFacts` says what `Dict`, which chooses an entry, is when keys are unique, and
`StepRefined` takes the actions one by one.

Induction over data is done by the least counterexample throughout: a set of natural
numbers that is not empty has a least element, which the library states without an
operator as parameter. Four definitions were put so that they can be reasoned
about: the powers of 2 in `BlockSize` are listed and a size is rounded to the least one
above it; the weights of bytes in `RadixPass` are listed; `AbstractRadixMap` counts
pairs instead of having a bag; `AbstractString` takes a piece of a text by its ends.

Model-checked only: all liveness (`CallsReturn` of `LinkedList` and of `BStream`,
`FindReturns`, `SearchEnds`, `SplitsEnd`), since fairness and `ENABLED` are out of
the prover's reach. Every invariant, action property and refinement that a passing run
checks is stated by a theorem above.

## Not modelled

- Formatting (`bformat`, `bformata`, `bassignformat`, `bvcformata`): what they do
  depends on `vsnprintf`, in a loop around it that grows the string.
- Write protection (`bwriteprotect`, `bwriteallow`): `mlen` never falls below `slen` in
  `BString`. Strings with a NUL in them, for the calls that take C strings.
- A callback that uses the stream it is splitting.
- NULL arguments that the headers forbid, and error returns that only invalid
  strings cause: the early returns for them do nothing. `bsopen` without a buffer
  string and `bseof` on it dereference NULL.
- Logging, printing and the macros of `defer.h` and `ptr_deref.h`.
- Lists and strings near `INT_MAX`, big-endian machines (`ByteOf` reads the lowest
  byte first), builds with `NDEBUG` (where `commons.c:18` drops a `bdestroy` inside an
  `assert`).
- Tests and examples; they were read as statements of what is expected.

## Plan

Done: arrays, lists, conversions, hash map, radix map and sort, editing, comparing,
searching, splitting, joining and streaming of strings; the theorems above. Left:

1. That the buckets of HashMap, as sets, are what `AbstractNodeList` gives: the
   composition of both modules.
2. Write-protected strings and strings that contain a NUL.

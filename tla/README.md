# A verification project for the Aldor compiler

The Aldor compiler (`src/aldor/aldor/src`, 205 C files, about 187,000 lines)
runs on one thread, and most of it translates trees.  What is hard to get right
in it, and hard to test, is the storage manager that the rest stands on: the
compiler, its interpreter and every compiled program allocate from it, and it
calls itself from the middle of its own work.  Next to it comes the run-time
system for domains, which builds them while they use each other.  This directory
models both in TLA+, and seven small parts of the compiler that others rely on;
it checks the models with TLC, and proves the main results about the three parts of the storage
manager (pages, fixed-size pieces, pieces of mixed sizes), about the domain runtime, fluid variables, the
includer and priority queues, with TLAPS.  The rest of the compiler is in the inventory and in
the plan.

## The system

### Storage manager (`store.c`, 4956 lines; `store.h`)

| Part | State | Operations | Calls |
|---|---|---|---|
| Page layer | `heapStart`, `heapEnd`, `pgMap`, `pgMapSize`, `pgMapUses`, the cursor of the search | `pagesGet`, `pagesAdd`, `pagesPut`, `pagesFind`, `pgmapNeed`, `pgmapSlide`, `pgmapExtend` | `osAlloc` for store; `stoGc` when no pages are free |
| Fixed-size pieces | sections with a tag for each piece, `fixedPieces` (a free list for each size), counts | `stoAlloc`, `stoFree`, `stoResize`, `stoRecode`, `piecesGetFixed` | `pagesGet` |
| Mixed pieces | boundary tags, the free tree with a list for each size, `mixedFrontier` | `pieceGetMixed`, `piecePutMixed`, `mxmemLink`, `mxmemUnlink`, `mxmemSplit`, `mxmemMerge` | `pagesGet`; the B-tree; `stoAllocInner` for nodes |
| Collector | mark bits, lists and counts built by the sweep, the guard against re-entry | `stoGc`, `stoGcMarkRange`, `stoGcSweep`, `stoGcSweepFixed`, `stoGcSweepMixed` | `piecePutMixed` for each mixed piece it frees; `pagesPut` for each empty section |
| B-tree (`btree.c`, `btree.h`) | nodes | insertion, deletion, four searches, `btreeCheck` | the allocator it was given: in `store.c`, `mxmemAllocBTree` |
| OS memory (`os_unix.c`) | its own list of blocks | `osAlloc` | the operating system |

The parts call each other in a circle, and this is the hard part:

    stoAlloc -> pieceGetMixed -> piecePutMixed -> mxmemLink -> btreeInsert
         |                            ^                            |
         v                            |                            v
      pagesGet -> stoGc -> stoGcSweepMixed                  stoAllocInner
         ^                                                         |
         +---------------------------------------------------------+

A node of the free tree is a piece of a page, and a page may have to be asked
for with `pagesGet`, which may collect, and the collector changes the very
sections, lists and tree that are in the middle of a change.  `stoGc` has a
guard against being called from itself; the other entries have none.

What makes each part correct:

- page layer: a page the map calls free is in use by nobody; every section is
  where the map says; the map never loses its own pages; growth by what was
  asked for is enough; a section with a piece in use is never returned;
- fixed pieces: each free piece is in its list once, and no other is; what
  the client can reach is in use; no mark outlives its collection;
- mixed pieces: the pieces tile their section; the tree has exactly the free
  pieces; free neighbours are merged; sections without use are returned;
- B-tree: the shape that `btree.h` describes, and that it is a sorted bag;
- all: every call returns.

### Domain runtime (`lib/libfoam/al/aldordomainrep.as`, `domain.as`, `runtime.as`, `catobj.as`; `gf_add.c`)

| Part | State | Operations | Calls |
|---|---|---|---|
| A domain's record | hash code, table of exports `names`, `parents`, `extendees`, the count `ngets` | `prepareGetter!`, `prepareHash!`, `get`, `getBox`, `inheritTo`, `addExports!` | the functions that the compiler generated for the domain |
| Generated code | none of its own | `f1` gives the hash code, `f2` opens the table, finds the parent and runs the body of the `add` | `rtDelayedGetExport!` and others, thus `get` of this domain and of others |
| Extends | the domains it puts together | `extendDispatchVector`: the same operations on several domains | `inheritTo` |

A domain is made when it is first asked for something.  Making it asks other
domains, which may come back to it: before its hash code is known, before its
table is open, or in the middle of its body.  What is hard is that each of
these answers differently, that one counter tells circles from visits that
will end, and that an error leaves all the calls at once.  It is correct if a
body is run once, if the counter is exact, if complete domains answer what the
program says, and if every look-up ends.

### The rest of the compiler

The driver (`axlcomp.c`, `phase.c`, `emit.c`) takes each file through phases.
Each row is a component.  The includer, layout, fluid variables, priority queues,
data flow, integers and conditions are modelled in part; the others are not.

| Component | State and operations | What is hard | What makes it correct |
|---|---|---|---|
| Includer, `include.c` | `ifState`, `fileState`, asserted properties, files seen; one handler for each directive | nesting of `#if` across files, recursion, unbalanced directives | the lines kept are those of a reference reading; every `#if` ends; no endless inclusion |
| Lexing, layout, parsing: `scan.c`, `linear.c`, `axl.z`, `abnorm.c` | tokens; trees of lines and piles | layout by indentation, in whatever columns lines begin, with brackets and piles in each other | what the rules of layout say; no token lost; unmatched brackets reported |
| Macro expansion, `macex.c` | table of macros | recursive macros | expansion ends |
| Fluid variables, `fluid.c` | stack of saved values, levels | `longjmp` past frames | leaving a scope restores what was there when it was entered |
| Priority queues, `priq.c` | array as a heap | equal keys, growth | smallest first |
| Data flow, `dflow.c`, `flog.c` | bit vectors for each block | iteration with a cutoff | a least or greatest solution when it says so |
| Tables and containers: `table.c`, `list.c`, `buffer.c`, `bitv.c` | buckets | growth | a function of its keys |
| Numbers: `bigint.c`, `foam_i.c`, `xfloat.c` | places, and numbers small enough to be in a pointer | carries, the guessed digit of a quotient, lengths, the sign of zero | agree with the integers; each number has one form |
| Conditions, `dnf.c`, `ablogic.c` | lists of literals; what is known in a branch, pushed and popped | cancellation of literals, implication term by term | equivalent to the formula; what is taken as implied is |
| Libraries: `archive.c`, `lib.c` | files, sections read on demand | order of reading | what is read back is what was written |
| Scopes and symbols: `scobind.c`, `stab.c`, `syme.c` | tables of meanings | imports, levels | each use has the meanings visible there |
| Type inference: `tinfer.c`, `ti_bup.c`, `ti_tdn.c`, `tform.c`, `tfsat.c` | sets of possible types, forms with pending conditions | mutual recursion between types | one type for each expression, or an error |
| Intermediate code and optimisers: `genfoam.c`, `of_*.c` | code trees, flow graphs | order of the passes | same meaning |
| Code generators: `genc.c`, `genlisp.c`, `src/java` | text | | same meaning |
| Interpreter and runtime: `fint.c`, `foam_c.c` | stack, environments | exceptions across frames | same meaning |
| Messages, `comsg.c` | list of messages | | each message once, in order |

Around the compiler are the Java runtime (`lib/java`), libraries written in
Aldor (`src/aldor/lib`), and tools of the build; they are not modelled.

## The modules

A step is the code between two points at which something else can act: the
client between its calls, and, inside a call, the places where the allocator
calls itself.  Everything a handler does up to such a place is one action, also
its return.

| Module | Models | Abstracts |
|---|---|---|
| `StoPages` | the page layer, the collector's walk over the heap by map index, with re-entry of `pagesGet` from the sweep | what is in a section: only whether a piece of it is reachable |
| `StoPagesShape`, `StoPagesProofs` | theorems about `StoPages` | |
| `StoFixed` | fixed-size pieces, marking word by word, the sweep section by section, the client's pointers | the order of a free list (a bag); the page layer gives a free section or none |
| `StoHeap` | the promise to the client, which `StoFixed` implements | all of the allocator |
| `StoFixedProofs` | theorems about `StoFixed` | |
| `StoMixed` | mixed pieces, free tree, frontier, sweep of mixed sections, requests for nodes | marking (any set that has all the client reaches); the tree is a function from sizes to lists |
| `StoMixedPieces`, `StoMixedProofs` | theorems about `StoMixed` | |
| `BTree` | nodes of a B-tree in a heap of nodes, insertion step by step, deletion, searches, the key `store.c` overwrites | the arrays of a node are sequences |
| `SortedBag` | the promise of the B-tree, which `BTree` implements | all of the tree |
| `DomainRep` | the records of domains, look-ups through parents, extendees and defaults, inheriting, extends, and the order in which generated code asks | the values of exports: only who provides one; a category is its set of defaults |
| `DomainRepProofs` | theorems about `DomainRep` | |
| `Fluid` | `fluid.c` and its macros for any client: functions that bind, assign, call, return, and jump out of others | the growth of the stack |
| `Include` | the includer, from `includeFile`, with the calls of its handlers; extends `Fluid` for `ifState` | lines are the directive and its argument; text is one kind of line |
| `IncludeProofs` | theorems about `Fluid` and `Include` | |
| `Dflow` | iteration forwards and backwards, unions and intersections, per block or per exit, and which blocks take part (`flogFixEntries`) | a bit vector is a set |
| `PriQ` | insertion and extraction, exchange by exchange | |
| `PriQProofs` | theorems about `PriQ` | |
| `Dnf` | all operations on conditions, and what is known in a branch | atoms are numbers; which categories have which is a constant |
| `Bigint` | integers of any size: sum, product, quotient, shift, comparison, reading and writing in a base, powers and divisors | a place has `LgRadix` bits for the code's 32; sizes allocated |
| `Linear` | `linearize`: from tokens with columns to tokens with SetTab, BackSet and BackTab | a few of the tokens; positions but for the column |
| `MC*` | values of the constants for TLC; `MCParts` runs one of `DomainRep`, `Include`, `Fluid`, `Dflow`, `PriQ`, `Dnf`, `Bigint`, `Linear` | |

The modules meet at what one assumes of another.  `StoFixed` and `StoMixed` take
from the page layer that a section given is free, which is `FreeIsUnused` and
`SectionsMapped` of `StoPages`, proved there for store that is never given below the heap.  `StoMixed` uses the free tree as a function with
a search for the least key that is large enough, which is `BagSpec` and
`SearchesAgree` of `BTree`; and takes from the mark phase that what the client
reaches is marked, which is `Marking` and `KeptClosed` of `StoFixed`.  `Include`
binds `ifState` by the actions of `Fluid` itself.  `DomainRep` and the other six
share no state with the rest.

### How state and actions correspond to the code

`StoPages`.  `heapStart` to `pgMapUses` and `found` (`pgmapFoundFreeLastTime`) are
the globals of the same names, in pages.  `frames` is the stack of calls of
`pagesGet`: at most two, one from `stoAlloc` and one from the sweep.  A call is
cut into `pagesGet`, `NodeForClient` or `NodePage` (entry, and the first search), `Collect` (up to
the sweep), `SkipPage` / `EnterSection` / `NodePage` / `LeaveSection` / `EndSweep`
(`stoGcSweep`), `Decide` (is the heap to grow), `GrowRefused` / `GrowGranted`
(`osAlloc` in `pagesAdd`), `pgmapNeed`, `pagesPut`, `Retry` (the last search).
`sects`, `nodes` and `osOwned` say who uses which page; the code has no variable
for them, and the invariants compare the map with them.  A page for nodes of the free tree is asked
for by the client's own `stoAlloc` and `stoFree` (`NodeForClient`), and by the sweep when it frees a mixed
piece (`NodePage`).  A write past the end of
the map leads to the phase `corrupt`.

`StoFixed`.  `class`, `info`, `code`, `mark` are the section heads and the tags of
the pieces; `linked` and `tails` are `fixedPieces` and the lists that the sweep
builds.  `freeCount` and `busyCount` are the counts that decisions go by; the sweep counts each
section as it leaves it (`CountSection`) in `freeFixed` and `busyFixed`, in the order of the code, and puts them
in place at its end, so that a `pagesGet` in the midst of a sweep (`store.c:954`) has the old ones.  `request` is the call of `stoAlloc` or `stoResize` in progress.  The
client has `roots`, pointers in its variables, and `refs`, pointers in its pieces;
it stores pointers only in pieces whose code allows them, as `stoRegister` and
`stoRecode` ask.  Stale words, which conservative marking takes for pointers, are
any pieces.

`StoMixed`.  `heap` has the boundary tags `this`, `prev`, `isFree`, the tags of the
quanta, the tree, and `mixedFrontier`.  `taken` and `limbo` are the local variables
of `pieceGetMixed` and `mxmemLink` that name a piece while a node is asked for.  The
request for a node is a step of its own (`LinkNode`, in the phase `node`), in the
middle of a call or of a sweep; `NodesCollect` says whether a collection may begin
there.  A step that follows links which are not there leads to `corrupt`.  `mxmemUnlink` reads the links
of the piece; here it is the piece's place in its list (`PlaceOf`), each piece being in one
list once.  `NewSection` is `sectPrepare` (`WithSection`) and then what becomes of any frontier.

`BTree`.  An insertion stops at each request for a node (`btreeInsertX`, `NewRoot`,
`Split`), with its local pointers in `todo`.  `Reenter` is a collection that
changes the tree at such a place; only `SpecReentered` has it.

`DomainRep`.  `reps` are the records by address: first the program's domains, then
those `inheritTo` makes.  `todo` is what the calls in progress have still to do,
innermost first, and `found` the box that the last look-up returned.  A statement of a body
or of a hash function becomes the call it makes (`Task`).  An action is
the code from one call to the next: `getExport0`, `prepareHash`, `Build`, `Define`,
`get` and its stages `Own`, `Defaults` and the rest up to `EndGet`; `TryForce` is what
a caller does with a box that may be empty.  `left` is not in the code: it counts the
look-ups that an ERROR cut off, so that `NgetsBalanced` can say what the counter is
to be.

`Fluid`.  `fluidStack` has the cells, with the level, variable and slot; `calls` has the
C frames with the slots of saved values (`saved`), and `was`, what the variables were
when the function was called, which is not in the code.  `Return` and `LongJmp`
both use `fluidUnwind`.  Its loop goes from the last cell down and writes each saved value back, so that of
several cells of a variable the first has the last word (`LastWord`).

`Include`.  The frames of `inclFile` and `inclHandleIf` are the `calls` of `Fluid`, with
their local variables in `own`; `sll` has the list of lines of each
`inclFileContents`, `d_sll` what `inclHandleDirective` returned.  The text of a file
is chosen as it is read, and is the same when read again.  `meant` and `taken` are
history: `meant` follows what the source says, by a reading of its own that has no
`ifState`, and `taken` the lines of text read while lines counted.  So are `turnedOn`, the
properties that are on as the user guide has it, and `again`, those that were asserted while they were on:
the code's own list may then have a property twice.

`Dflow`.  `dfIn` is the `in` of each block, `nchanged` what a step returned, `count` the `i` of the
loop; one action is one round (`FwdStep`, `RevStep`), with the sets read and changed
in the order of the code.

`PriQ`.  `argv` and `size` are the fields of the queue; `sift` is the place that
a sift has come to.  `content` is history: the bag of what should be there.  `heapCheck` is
the check of that name, as a formula.

`Dnf`.  Each operation of `dnf.c` is an operator of the same name; a conjunction that
`dnfOrMerge` sets to NULL is `Null`.  `conds` is the stack of conditions that
`ablogFrSefo` has built, `knowns` what is known (`abCondKnown`) with what `ablogAndPush`
has saved.  Each condition has its history: `is`, the cases in which it should be
true, going by what it was made of, and `clash`, whether a cancellation was tried.

`Bigint`.  A number is immediate or has a sign and places, as in `struct bint`; the
operators have the names of the functions, and a loop over places is a recursion.  A word of
the code, in which products and carries are, holds two places.  `job` is the operation asked for
with its operands, `loop` where a loop of `foam_i.c` (greatest common divisor, powers) has come to, one
step for each division or bit, and `answer` what was returned.

`Linear`.  `source` is a text: lines with a column and items, as a writer lays them out,
from which `Tokens` makes what the scanner would; or tokens at random.  The trees of `linear.c`
are records with the kind, indentation and `has` of the code, and the functions from
tokens to trees, from trees to trees and back have its names.  `linearize` is one action.
What it should give (`Meaning`) is written line by line, without trees, from the rules in `formal.tex`
("Layout", lines 379 to 405): a pile of more than one line is enclosed, and one of one line behind the words
given there.  A pile of several lines with no BackSet in it and no such word before it, which the code does not enclose, begins
with `Disputed`.

## What is checked

Passing runs:

| Run | States | Shows |
|---|---|---|
| `pages_growth` | 201 thousand | store above the heap, as `sbrk` gives it: the map is right through growth, moves of the map, refusals, all levels of collection, and re-entry from the sweep; every call returns |
| `pages_sides` | 446 thousand | store above, below and inside the heap with foreign gaps, as long as the map need not move and no node is asked for |
| `fixed_gc` | 5.3 million | two sections of two pieces, collections with a stale word: free lists, reachability, marks, and the counts at every step that changes them |
| `fixed_client` | 357 thousand | two sections, three sizes and two codes, a stale word, `stoResize`: the client's pointers lie in pieces tagged for them, `StoHeap` is implemented, every call returns |
| `mixed_two` | 238 thousand | two sections of four quanta, requests up to a whole section, up to two stale words, with requests for nodes that do not collect: tiling, tree, merging, what is live is kept, sections without use are returned, every call and collection ends |
| `btree_ops` | 60 thousand | all trees of up to ten entries with two repeated keys: shape, searches, no node lost, and that `SortedBag` is implemented |
| `parts` | 564 thousand | eight parts that share no state, one at a time (below) |

The parts of `parts`:

| Part | States | Shows |
|---|---|---|
| domains | 134 thousand | all programs of two families: two domains whose hash codes, parents and bodies use each other, and an extend of two domains that one of them uses and a fourth inherits from: bodies run once, the counter exact also after errors, answers right, every look-up ends |
| includer | 130 thousand | every text of six lines of conditions, of five lines in files that include each other, and of four with other directives, against a reading of the source |
| fluid variables | 36 thousand | three functions that bind, assign, return and jump: the variables are what they were |
| data flow | 52 thousand | every analysis of three flow graphs for one fact, against all solutions |
| priority queues | 28 thousand | queues of up to five parts, growing from each of the first sizes |
| conditions | 71 thousand | all conditions of three atoms made in eight operations: none is false where it should be true, none is wrong unless a conjunction met the negated literals of another, what is taken as implied is |
| integers | 88 thousand | sums, products, quotients, shifts, powers and divisors of numbers of up to four places, with edge places in all arrangements: each is what it is for integers, in the one form it may have |
| layout | 25 thousand | piles of up to five lines in all columns, with what keeps a BackSet away, labels, brackets and piles in piles, against the rules; and all texts of four tokens |

Each of them ends (`PartsReturn`), but for conditions, integers and layout, which are single
computations.

What the properties of `parts` say that is easily missed:

- `AnswersRight` excepts a look-up that comes to a domain whose body is still being
  run, or was cut off: there the answer depends on who asked first.  It shows that
  there is no other wrong answer.
- `ReadsRight` excepts branches after `#else`, and shows that what comes before and
  after them, and after an `#if` left open by an included file, is read as meant.  Conditions go by the
  properties turned on and off as the user guide says, not by the code's list; the test of a property
  that was asserted twice and unasserted once is excepted (below).
- `LeastFirst` says as well that the queue's own check finds nothing, if no two keys are equal.
- `AnswersBest` is about a result of 0, on which the optimisers go ahead: it is the
  least solution for a union, the greatest for an intersection.
- `DnfCovers` excepts the merges that `dnfAndCancelNegation` had a part in, where
  `dnf_exact` shows what is wrong; there it still shows that no case is lost.
- `ImpliesSound` is about a condition that the compiler has made, right or wrong.
- `BintExact` asks for the form as well: a number
  that fits into a pointer is there, no highest place is 0, there is no negative zero.  Quotient and remainder of
  a negative dividend, on which code and comments differ (below), are only said to be a
  quotient and a remainder: `x = q*y + r`, and `r` is no larger in size than `y`.
- `LayoutMeant` goes by the rules of the user guide.  Where they and the code disagree on
  whether a pile is enclosed (`Disputed`, below), it says only that no token is lost, added or
  moved, and that no error is reported.

Runs that end in a violation, each of a comment in the code:

- `dnf_exact`: `dnfOrMerge` takes the conjunction of negated literals for the negation of a
  conjunction.  Where "a and b" is known to be false, knowing "a or b" as well makes the
  condition true, so that it says nothing any more.  `test_ablogic.c:171` expects such an answer.
- `pages_slide`: for store *below* the heap `pagesAdd` moves `heapStart` before the
  map is slid.  If the map must move to a larger place, `pgmapNeed` computes
  indices with the new `heapStart` in the old map, and a page in use ends up called
  free, against "Page is available" (`store.c:391`).
- `pages_sweep`: `stoGcSweep` walks the map by index.  If a node page is asked for
  during the sweep and store comes from below, all indices move up, the cursor
  comes to sections again whose marks are cleared, and a section with pieces in
  use is returned.
- `mixed_held`: `pieceGetMixed` has unlinked a piece, whose tag still says free,
  when `mxmemLink` asks for a node; the collection finds the section without use
  and returns it, and the piece in it is then given to the client.
- `btree_reenter`: `btreeInsertX` keeps pointers into the tree across `btalloc`; a
  collection at that place changes the tree, and the child to split is not full
  any more, against the comment at `btree.c:203`.

`pages_slide` and `pages_sweep` need an `osAlloc` that gives store below the heap, which `sbrk` does
not do; the list of freed blocks in `os_unix.c` and other systems may.  `mixed_held`
and `btree_reenter` need a collection set off by a node request, which happens when the page of
nodes is used up just as no page is free.

Seen while modelling, and no property here:

- the next-fit search gives up at a free run that the end of the map cuts short
  (`store.c:723`), even if an earlier run would do; it leads to growth that was
  not needed;
- a heap limit stays moved when the larger map cannot be had (`store.c:890`); the map does not describe the
  pages up to it, and the next growth, counted from it, can put its pages where the map has no room;
- with requests for nodes that collect, two free neighbours may stay unmerged;
- the best fit is not always the piece with the lowest address (`store.c:1383`
  against the comment at 140): a list is not quite sorted;
- the counts of free and busy pieces are right only after a sweep of the fixed-size sections; a
  `pagesGet` that goes on after its own collection has exact ones, and one in the midst of the sweep of a
  mixed section those of the sweep before, never some half made (`HeadroomCountsExact`);
- `get` leaves `ngets` counted up in every domain an ERROR passes, so that a later
  look-up that is in no circle may be broken off as circular;
- `prepareHash!` has no such counter: hash codes that need each other directly
  recurse until the stack is used up; no program of the runs has them;
- a second `#else` makes the branch of an `#if` active again (`include.c:673`), and an
  `#endif` without an `#if` ends the file it is in (`include.c:683`);
- a property asserted twice and unasserted once still holds (`include.c:270`), where
  the user guide has the directives turn properties on and off (`formal.tex:40`);
- a count of 0 does not mean that the iteration of `dflow.c` was cut off, as the comment
  at line 200 says: only the result does; `yldlocs.c:100` goes ahead without a look at it;
- `heapCheck` (`priq.c:116`) calls equal keys out of order, which both sifts leave where they are, and the
  comment at `priq.c:22` has a heap with the greatest key at its root, where `priqExtractMin` needs the least;
  `LeastFirst` says nothing of the check when keys are equal.  `priqExtractMin` takes
  the size of the array for the number of parts.  No caller is led astray;
- `dnfAndCancelNegation` (`dnf.c:233`) goes on in both conjunctions when it passes one
  literal: it may write more literals than it made room for (not modelled), and cut off the wrong ones;
- two comments in `bintDivide` (`bigint.c:1311` and 1319) describe, for a negative dividend, a quotient
  rounded away from 0 and a remainder that is not negative, where the code truncates;
- `bintShiftRem` (`bigint.c:1521`) reads past a number shorter than the shift, loses the highest place
  when the shift is a multiple of 32, and may leave zeros at the top (not modelled);
- the user guide (`formal.tex:383`) encloses every pile of more than one line, and else only behind
  `then`, `else`, `with` and `add`; the code encloses a pile only if a BackSet came to stand in it (`linear.c:1317`), or behind these
  and five words more (`linear.c:1348`); lines that are kept apart from the one before by nothing but an
  opening word or a comma get no BackSet, and their pile is not enclosed;
- `linXSep` (`linear.c:1099`), "Delete ;", leaves one of two separators before a closing bracket;
- `#endpile` takes its newline with it (`scan.c:704`), so that the line behind a pile in a pile is joined
  to it without a BackSet;
- `linCheckBalance0` (`linear.c:834`) marks a `}` that has its `{` as not matched; the mark is never read;
- `ablogExpandKnown` (`ablogic.c:615`) takes an atom as known as soon as any atom of what is
  known has its property, also a negated one, or one of a single disjunct.

### Bounds

- `StoPages`: 6 or 7 pages of store (up to 13 in the violation runs), sections of one or two pages, a page of the map
  holds 4 entries so that it outgrows its page within these bounds; one node
  page.  Twice the addresses are there for maps, so the bound refuses none.  The
  factors are the code's defaults (`store.c:311`), and `GcFrugalFactor` in the frugal run.
- `StoFixed`: with two sections one can be returned while the other is used; two
  pieces in each make a section partly used; three classes make `stoResize`
  move both up and down, and cut what it copies.  The theorems have no bounds.
- `StoMixed`: four quanta are enough for a split whose rest stays in the piece, for
  a merge on both sides, and for a frontier too small for a request; two
  sections for one that is returned while the other is used; requests go up to a
  whole section, and two stale words hold pieces on both sides of a free one.  The theorems have no bounds.
- `BTree`: minimum degree 2, ten entries and three levels.  A rotation and a merge
  of inner nodes, and a root that gives way, need all of these.
- `DomainRep`: up to four domains and three exports, two calls of the client, so that
  the second meets what an error or a first look-up left; `GetLimit` is 2 for the
  code's 100 (`aldordomainrep.as:239`), so that circles end within few steps.
- `Include`: six lines for a condition in a branch of another with something after
  both, or one with several `#elseif`; five lines over two files for inclusion from a
  branch and in a circle; four for a file that is not there and for wrong directives.  The theorems have no bounds.
- `Fluid`: three functions, two variables, six steps: a jump over two functions that
  bind the same variable, with an assignment in each.  The theorems have no bounds.
- `Dflow`: graphs of three and four blocks with a diamond, nested loops, a block that cannot be
  reached and a double exit.  The facts do not influence each other but for the
  number of changes, so that one is enough.  The cutoffs are on both sides of the rounds needed.
- `PriQ`: five parts make a heap of three levels, three keys with two entries
  give ties; the array grows from each of its first sizes.
- `Dnf`: with eight operations on a stack of three conditions, two conjunctions of two
  literals meet, which is where cancellation goes wrong; the third atom gives a
  place in the order on either side.
- `Bigint`: the radix is 16, and the edge places 0, 1, 8 and 15 in all arrangements of
  up to four by three places lead to every branch of the long division: first digits that are equal,
  guesses that are right, one or two too large, and the adding back, in 515 pairs.  The base for reading and writing
  is 3 for the code's 10, so that a word takes several digits in one chunk, as there.
- `Linear`: five lines in three columns have every order of indenting and outdenting twice;
  three and four lines have each word that matters at either end of a line; a bracket or a pile
  stands in a line first, last and alone, with one more level in it.

### Fairness

Only termination needs it, and it is weak fairness of the steps of the code that
was called: the allocator and the collector, and in `parts` of the
one part that runs (`Work`), if it calls itself; single computations (`Compute`) have none.  The program has one thread, so a call that can go on does.
Nothing is assumed of the client, of the operating system, or of the order in
which words are marked.  In `parts` weak fairness is of every step of a part, its client's too:
texts, queues and clients are bounded, and a run of the includer or of an analysis
ends by itself.  Where the model stops (an error exit, a copy to address 0,
`corrupt`, the end of a bounded client), `CHECK_DEADLOCK` is off and what it stops in is named in the property.

## What is proved

Every theorem is about the specification TLC runs, for every value of its constants that the
assumption of its module and the theorem's own hypotheses allow.

### The page layer

`StoPagesShape` and `StoPagesProofs`, for any size of heap, map, sections and gaps, any factors
of growth, any number of node pages, from `PageConstants` and what the third column says:

| Theorem | Says | For |
|---|---|---|
| `ShapeCorrect` | the calls of `pagesGet` nest as the code's do; the map is a map of its size; what `pagesAdd` asks for is enough | all placements of store |
| `FitsCorrect` | while the map is whole, no update of it is past its end, also in the middle of a growth | all placements |
| `LimitsCorrect` | `LimitsMatchMap` | maps that are never refused |
| `InvCorrect` | `Inv` holds in every reachable state | store never given below the heap |
| `TypeCorrect` | `TypeOK` | the same |
| `MapExactCorrect` | `MapExact` | the same |
| `MapIsSafeCorrect` | `MapIsSafe` | the same |
| `LiveCorrect` | `LiveSectionsKept` | the same |
| `GrowthCorrect` | `GrowthSuffices` | store given above the heap only |

The hypotheses are the code's.  For store below the heap `pages_slide` and `pages_sweep` show that
`MapExact` and `LiveSectionsKept` fail; `sbrk` grows upwards.  `GrowthSuffices` is about store above because a search
that the end of the map cuts short does not come back to a run before its cursor
(`store.c:723`), and store given in the middle may be such a run.  Its premise that the map is
whole, and `~MapMayFail`, are about a map that is refused: `pagesAdd` has then moved the heap
limit and does not move it back (`store.c:886`).  The pages given are lost, and with store to
spare (`Slack`) a later growth computes the place of its pages from the moved limit.

The argument.  `Inv` holds between the steps of a growth and of a sweep too, and has a clause for each way in
which `MapExact` could come to fail.  `Described`: what the map says of a page is true.  `Owned`: what
is held is the program's, and the map is apart from it.  `Growing`: between `osAlloc` and the
update of the map the new pages are in use by nobody and not offered.  `Labels`: the map offers none
of its own pages, but for the moment after a map has been moved in which all of it is still to be marked
(phase `put`).  `Room`: the map fits, with what is being added.  `Sweep`: the section that the cursor is at is
the one whose pieces are looked at, also after a page for the free tree has been taken in mid-sweep
and the map has been moved and lengthened, and a section with a piece in use has its mark until the cursor
has passed it.  Under all this lies `Shape`, what holds whatever the placement: the stack of calls
(`Control`), the heap limits and the map's size (`Limits`), and that the pages asked for
are enough for those wanted and for a larger map (`Asked`).  For `GrowthSuffices` there is `Last`:
the new pages are the last of the map, and the cursor has not passed them; so the search finds them or
something before them (`LastRunFound`), as no run it stops at is cut short by the end.

### Fixed-size pieces

`StoFixedProofs`, for any number of sections, pieces in a section and size classes,
any codes, any number of stale words, from the assumption `FixedConstants` alone:

| Theorem | Says |
|---|---|
| `Invariance` | `Inv` holds in every reachable state |
| `TypeCorrect` | `TypeOK` |
| `FreeLists` | `FreeListsExact` |
| `ClientSafe` | `NoDangling` |
| `MarksGone` | `MarksCleared` |
| `TagsSafe` | `PointersTagged` |
| `HeadroomExact` | `HeadroomCountsExact`, also of every step that changes a count |
| `Implementation` | every behaviour is one of `StoHeap` |

The argument.  That reachable pieces are in use is not inductive: the sweep frees
what is not marked, so one has to know that the marks are closed.  `Inv` therefore
has a clause for each phase.  While marking, what a marked piece refers to is
marked or still pending (`Marking`); at the end nothing is pending, so the marks
contain the roots and are closed under the references.  While sweeping, the pieces
that are marked or lie in swept sections stay closed (`KeptClosed`), the list being
built has the free pieces behind the cursor (`TailsExact`), the counts being made are those of the
sections behind it (`CountsMade`, by adding up one section at a time), and no mark is left
behind the cursor (`MarksExist`).  The scan goes only by the code of a piece, hence
`PointersTagged`; `stoResize` carries the code over, hence `RequestOK`.  Each action
has its step, with a lemma for the parts it can disturb.  For the refinement, each
sweep of a section is `Collect` of `StoHeap`, with `Kept` as witness of what the
client can reach; everything else maps to the action of its name or stutters.

The runs check `TypeOK`, `FreeListsExact`, `NoDangling`, `MarksCleared`,
`HeadroomCountsExact`, `PointersTagged` and `HeapSpec` on small instances; `Inv` itself needs no
run any more.

### Pieces of mixed sizes

`StoMixedPieces` (what splits, merges and the lists do to a heap) and `StoMixedProofs` (the calls and the
sweep), for any number and size of sections, any bound on requests and on stale words, from `MixedConstants` and
one premise, `NodesAtHand`: no collection begins while a piece waits for its node of the free tree.

| Theorem | Says |
|---|---|
| `InvHolds` | `Inv` holds in every reachable state |
| `TypeHolds` | `TypeOK`, and `corrupt` is never reached |
| `TilesHold` | `SectionTiled` |
| `TreeHolds` | `FreeTreeExact` |
| `ApartHolds` | `NoFreeNeighbours` |
| `LiveHolds` | `LiveKept` |
| `ReturnedHolds` | `EmptyReturned` |

The premise is what the code needs and does not ensure.  A node is a fixed-size piece, so a collection
begins only where the list of nodes is empty and no page is free; then the code goes wrong.  If asking for a node never
collects (`~NodesCollect`, as in `mixed_two`) the premise holds (`NodesGiven`).  `mixed_held` shows what goes
wrong without it for `HeldKept`, and with `NodesCollect` TLC finds `SectionTiled`, `FreeTreeExact`, `NoFreeNeighbours` and
`LiveKept` violated as well.  The theorems say that nothing else can break them.

The argument.  The four properties of the heap depend on each other: a merge keeps the tags right because
the free neighbour is in the tree, it is there because the tree is exact, and it is exact because no
merge leaves a piece behind in it.  So `Inv` takes them as one, `Good(h, waits, out)`: the pieces are in a
row (`Tiled`), the tree has the free pieces but the one that waits for a node (`TreeFor`), no two free
pieces are neighbours, the one that waits included (`Apart`), and the tags tell which pieces are free, the
frontier or on their way to the client (`Sound`).  In the middle of `piecePutMixed`, between the
merges, all but `Apart` holds of the piece in hand (`Pending`); the two merges restore that
(`MergeBehind`, `MergeBefore`, together `PutIs`), and the link restores the rest (`LinkedIs`).  The reuse of
an entry in `pieceGetMixed` is such a link too, as the rest of a split has no free neighbour:
the piece it was cut from had none.

`LiveKept` and `EmptyReturned` are about a walk over a heap that changes under it.  `SweepFits` says that the
cursor is at the start of a piece (or of a section that is not there), also after the piece
it was at has been merged with those on either side; that what is live and still to come is marked; that
`busyHere` tells of this section what the sweep has seen in it; and that all sections behind have a piece in use
or the frontier.  A section is returned when nothing in it is in use; as no two free pieces are neighbours, it
is then one piece (`OnePiece`), which is what the sweep takes from the tree.  `PhaseFits` has what one
phase leaves to the next: a section is asked for only without a frontier, as the new frontier would replace the old
one, which no list has.

TLC agreed to each part of `Inv` on the constants of `mixed_two` before the proof was begun; the run itself
checks the properties.

### The domain runtime

`DomainRepProofs`, for every finite set of programs, thus any number of domains and any exports, parents, extends and
bodies, any `GetLimit` and any number of calls, from the assumption `DomainConstants` alone:

| Theorem | Says |
|---|---|
| `InvCorrect` | `Inv` holds in every reachable state |
| `NgetsCorrect` | `NgetsBalanced` |
| `BuiltCorrect` | `BuiltOnce` |

The argument.  What is still to be done, `todo`, is a sequence of tasks; a step takes off the first and
puts others in its place, or an ERROR drops them all.  Both properties count the tasks of a
kind, so the lemmas on counting in sequences (`CountStep`) carry the proof: a step that puts
in as many tasks of a kind as the counter moves keeps the balance (`BalanceMoves`, `OnceMoves`).
`NgetsBalanced` then needs only `Shape` (records and tasks name records that are there) with it.
`BuiltOnce` alone is not inductive.  That the table is opened after the hash code needs `HashFirst`: a
task to build a table has the hash code there, or stands behind a task for the same record that
will put it there; since tasks are done from the front, the code is there when the table is built.  That
the body is run once needs `RunsOnce`: while it is being run the table is open and not yet marked as
built, and `prepareGetter!` looks at `opened` first, so that a circle which comes back meets an
open table.  An ERROR drops the task that would mark it as built, for good: the
table stays open, and the body is not run again.

### Priority queues

`PriQProofs`, for any keys, entries and guesses and any number of parts and calls, from `PriQConstants`, of
which one part, that a power of two is positive, is arithmetic that TLAPS does not know:

| Theorem | Says |
|---|---|
| `InvCorrect` | `Inv` holds in every reachable state |
| `LeastCorrect` | `LeastFirst` |

The argument.  `LeastFirst` speaks of the moments between calls; `Inv` of all, with `HeapBut` for the sift:
inward, every part but the one being sifted is in order with its parent; outward, every part but its children; and
in both cases its children are in order with its parent (`Passable`), without which one exchange would not leave a heap.
That the root of a heap is least (`RootLeast`) goes by the least index of a part that comes before the root.
An exchange keeps the bag of parts, by a bijection of places (`BagExchange`).  That the queue's own check
finds nothing when keys differ follows from the heap (`InvChecked`): a parent's key is not greater, and not equal.

### Fluid variables and the includer

`IncludeProofs`, for any variables and values, any number of frames and steps, any files, texts
and asserted properties, from `FluidConstants` (the set of variables is finite) and `InclConstants` (the file that
is asked for is one of the files, `ifState` one of the variables):

| Theorem | Says |
|---|---|
| `FluidsCorrect` | `FluidsRestored`, of any client of `fluid.c` |
| `ReadsRightHolds` | `ReadsRight` |
| `InclFluidsCorrect` | `FluidsRestored`, of the includer |

The argument for fluid variables.  `FluidsRestored` compares what `fluidUnwind` puts back, cell by cell, with what was there when functions
were called, of which the code knows nothing.  `FluidInv` ties the cells to the frames: a frame has saved what was there
(`SavedWas`); the cells are those of what the frames in progress have bound (`CellsFit`); a frame's cells begin above the level its
`Scope` noted and end at the one its `SetJmp` noted (`MarksFit`), so that what is unwound is what the
frames that are left have bound, and the first cell of a variable is that of the outermost of them (`LeavingKeeps`, for `Return` and `LongJmp`
alike).  `LevelsFit` is why no return is improper: levels rise with the cells, and all cells
of the innermost frame have `scopeLevel`, also where frames without cells lowered it.  The lemmas hold for any client
that keeps something of its own in its frames, so the includer, which uses the same actions, has them for `ifState`.

The argument for the includer.  `ReadsRight` speaks of one state and of all conditions of a file; `Control` says how they
come to agree, frame by frame.  `Nested`: the frames of files stand at `base`, as deep as their file is included.
`MeantFits`: above each there is a frame for each condition open in the file, and an `#if` that
counts has the state of its condition (`LocalFits`) while all those around it are wanted, and one that is skipped has one around it that
is not (`CondFits`).  This holds of the frames further out too, in the states they have saved for the way back (`StateIn`), so
that it is there when an `#endif` or the end of a file returns to them.  An `#endif` ends the
condition when it is read and the frame when its line comes to `inclLine`; between the two the innermost
frame is one too many (`Open`).  That an `#endif` ends just one frame is `EndNotEndif`: what a frame returns
does not end with its line, for an `#if` that is skipped because no such line is kept in one (`SkippedFit`).

`ListFits` ties the code's list of properties to those turned on and off: each is in the list just when it is on, unless it
was asserted while it was on and has been turned off.  `#unassert` takes out one of two, so a property that the
list has twice is in `again` (`ListKeeps`).

For the order of lines, `Piles` has what each frame will return and what was returned last.  `Order`
says that lines fall within a pile and rise from pile to pile, up to the line read last, and that the text in all of them
is what was taken.  Each action raises the number and puts a line on top, or puts the last pile on the one before it
(`StackedPut`, `StackedMerge`); at the end there is one pile, the result.

TLC agreed to every part of the invariant on the texts of `parts` before the proof was begun.

### Only model-checked

- Liveness (`CallsReturn`, `PartsReturn` and what is like them) and everything else that needs fairness.
- `AnswersRight` of `DomainRep`: which domain should answer is defined by recursion over the
  parents of records.
- `BTree`, `Linear`, `Bigint`: their operators are recursive, as the code is.
- `Dflow` and `Dnf`: their loops are folds over sequences and sets, and what a fold computes
  for every input is an induction over data.

## What is not modelled

In the storage manager: where roots come from (registers, stack and static data are
"any pieces the client has, and stale words"), blacklisting, tracers, `stoTune`,
`stoAudit`, statistics, the byte counts that steer the growth of the heap (the
decision is left open instead), and switching tags off at start.  `btreeFree` and
`btreeNMap` are not called by `store.c`.  Running several programs or signals while
in the allocator: the code does not support it.

In the domain runtime: domains passed on before they are made (`pointerdomain.as`; they are made
at once), imports kept after the first look-up (`lazyimport.as`), categories but for
their defaults, hash collisions, and names for printing.

In the seven small parts: `#line`, positions, `#includeDir` and lines from a terminal;
the growth of the stack of fluid variables, and a break in the middle of `fluid`; how
flow graphs are built, and what each optimiser puts into its sets and does with
them; printing, mapping and freeing of queues; how the
trees of a condition become atoms, conditions without operands, `ablogExpandKnown`, and
what type inference does with the answers; of integers `bintShiftRem`, the way from and to
half-words, the sizes allocated, operands that are the same object, and floats; of layout the `#pile`
added in a session at the terminal, warnings, positions, and most words.

Of the rest of the compiler most is translation of trees, from syntax to
meanings, to intermediate code and to text.  It has little state of its own that a
small instance would show, and a definition of its correctness, the meaning of the
language, is not in the repository in a form to compare with.

## Plan

Done, in this order: `StoPages`; `StoFixed` with `StoHeap` and `StoFixedProofs`;
`StoMixed`; `BTree` with `SortedBag`; `DomainRep`; `Fluid`, `Include`, `Dflow`, `PriQ`; `Dnf`;
`Bigint`; `Linear`; `StoPagesShape` and `StoPagesProofs`; `DomainRepProofs`; `PriQProofs`; `StoMixedPieces` and
`StoMixedProofs`; `IncludeProofs`.

Next, by importance:

1. Proofs: `Dflow` (a round without change leaves a solution), for which its
   folds would have to be functions of the blocks done.
   Facts about all natural numbers can be had from the least element of a set of
   counterexamples, as `LeastOf` of `StoPagesShape` gives it.
2. `StoMixed` composed with `BTree`, so that a sweep re-enters a real insertion.
3. `table.c`: a look-up moves the entry to the front of its bucket, also while the bucket is being walked;
   the free list of `os_unix.c`, whose merged blocks keep the size of one; `of_jflow.c`.

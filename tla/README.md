# A verification of `routemap`

`routemap` is an in-memory longest-prefix-match routing table: a map from IP
prefixes to values with a lookup that finds the longest stored prefix covering
an address. This directory holds TLA+ models of it, the TLC configurations that
check them on small instances, and TLAPS proofs, for every number of strides,
every value type and every set of prefixes, that the tree, its iterator and the
archived arena keep their invariants and implement their abstract
specifications, and that the assertions of the property tests hold for every
input.

Paths below are relative to the repository (`src/` of the crate is
`src/src/` in `PROJECT.json`).

## 1. Inventory

| part | source | state | operations |
|---|---|---|---|
| `RouteMap` (tree bitmap) | `src/treebitmap/mod.rs:1-682`, `node.rs` | `root` (a tree of `TbNode`), `count` | `new`, `insert`, `remove`, `get`, `contains`, `longest_match`, `longest_match_entry`, `len`, `is_empty`, `clear` |
| bit arithmetic | `mod.rs:8-23, 233-253, 558-563, 737-769` | none | `nibble`, `rank`, bit positions, the match mask, `leading_zeros`, prefix reconstruction |
| iterator | `mod.rs:388-403, 684-790` | a stack of `IterFrame`s with two cursors each | `iter`, `Iter::next`, `IntoIterator` |
| trait impls | `mod.rs:500-534`, derives | none of their own | `Default`, `Debug`, `FromIterator`, `Clone` |
| `ArenaTable` (archived binary trie, not exported) | `src/arena/` | a `Vec` of nodes linked by `u32` indices | `new`, `insert`, `longest_match`, `remove`, `contains` |
| property tests | `mod.rs:1941-2355` | none of their own | clients that make random calls and assert their answers |
| fuzz target | `fuzz/fuzz_targets/lpm_ops.rs` | none of its own | a client that applies a decoded `Vec<Op>` |
| unit tests, benchmarks | `mod.rs:792-1939`, `table.rs:127-468`, `benchmarks/` | none | single examples; timing |
| `ipnetx` | external crate | none | `IpAddress::to_u128`, `IpPrefix::masked` and accessors |

**How the parts interact.** A client calls `RouteMap` methods; each public
method canonicalises its prefix (`masked()`), splits the length into
`full_hops = len / 4` and `rel_len = len % 4`, and hands the root to a free
function (`insert_at`, `get_at`, `remove_at`, `contains_at`) that walks the
tree. `insert` and `remove` adjust `count` from what that function returns.
A `TbNode` has two bitmaps and two compact `Vec`s; the index of a bit's slot is
always recomputed as `rank(bitmap, position)`. The iterator borrows the table
and only reads it. The arena shares nothing with the tree.

**What is hard about it.** There are no threads, messages or files, and
`&mut self` keeps calls from interleaving. The hazards are those of a pointer
structure with a redundant encoding:

* the bitmap, the rank and the order of a `Vec` must agree in every node after
  every sequence of inserts and removes (`mod.rs:550`);
* `remove_at` takes an index before it recurses and uses it afterwards, and the
  decision to prune travels up as a bool (`638-653`);
* `count` is kept beside the tree it counts (`144`, `308`);
* values have destructors, which run inside `clear` and inside a replacing
  `insert` and may panic half-way (`495`, `566`);
* lengths that are a multiple of the stride, `/0` and the full length end one
  node below where a naive walk would look (`265`, `558`), and five functions
  compute that place independently;
* `best` is overwritten on the way down (`250`), and every walk must end
  (`548`, `584`, `230`, `667`, `638`);
* the iterator carries two cursors per suspended frame across calls and rebuilds
  prefixes with shifts whose amounts run from 0 to the width of the address
  (`731-787`);
* the words behind it all (`u32` bitmaps, `u128` addresses) are cut and joined by
  hand-written shifts and masks (`15`, `22`, `242-251`, `734`, `741`, `769`);
* the arena never reuses a node and numbers its nodes with `u32` (`table.rs:28`);
  `remove_recursive` holds an index and a bit across its recursion (`113`).

`PROJECT.json` lists these under `hazards`, each with the properties that would
be violated if the code got it wrong.

**What makes each part correct.**

* `RouteMap`: it behaves as a map from canonical prefixes to values with
  longest-prefix lookup; every call returns; the tree stays well formed (links
  and slots at their ranks, every node reachable, no dead nodes, exact count).
* bit arithmetic: `rank` gives distinct in-range slots, and the pair
  (node, bit) of a prefix is unique and reversible.
* iterator: every entry exactly once, with the prefix it was inserted under,
  in depth-first order, whatever history made the tree; `next` returns and its
  stack stays within what `iter` reserved.
* `FromIterator`: a table collected from the entries of another is the same tree.
* arena: the same map as `RouteMap`, links that form a tree of valid indices,
  and only blank nodes left behind by pruning.
* clients: the assertions of the property tests hold; no sequence of calls the
  fuzzer can make panics or hangs.

## 2. The modules

| module | what it is |
|---|---|
| `RouteMapAPI` | addresses, prefixes, `masked`, longest-prefix matching as a definition, the calls a client can make and what they may answer |
| `RoutingTable` | the abstract specification: one variable `table`, each call takes effect in one step between its invocation and its return |
| `TreeBits` | the pure operators: `nibble`, `rank`, bit positions, the match mask, compact `Vec`s, node references |
| `TreeBitmap` | the tree as a state machine, one action per loop iteration, recursive descent or unwinding step |
| `TreeBitmapProps` | type invariant, invariants, action property, liveness, the refinement mapping to `RoutingTable` |
| `RouteIteration` | the abstract specification of iteration: `RoutingTable` plus an iterator that still owes a set of entries |
| `TreeBitmapIter`, `TreeBitmapIterProps` | `iter` and `next` over the tree of `TreeBitmap`, one action per iteration of the loop in `next`; their properties |
| `TreeBitmapCollect` | `FromIterator`: a `TreeBitmapIter` feeding a second instance of `TreeBitmap` |
| `PropTests` | the property tests as scripts of calls and expected answers, run on `TreeBitmapIter` |
| `FuzzTarget` | the fuzz target as the client of `TreeBitmap` |
| `ArenaTable`, `ArenaTableProps` | the archived trie; its invariants and the refinement mapping to `RoutingTable` |
| `Words` | the `u32` and `u128` expressions, compared with the operators of `TreeBits` |
| `MC...` | instances for TLC |
| `TreeBitsProofs` | lemmas about the operators of `TreeBits` |
| `TreeBitmapProofs` | the inductive invariant of `TreeBitmap` and the theorems that follow from it; no call panics |
| `TreeBitmapRefinement` | prefixes and paths; the lookup finds the longest match; the tree bitmap implements `RoutingTable`; its shape depends on its entries alone |
| `TreeBitmapIterProofs` | the inductive invariant of the iterator; it implements `RouteIteration` |
| `TreeBitmapCollectProofs` | the inductive invariant of `from_iter`; the table collected is the same tree |
| `FuzzTargetProofs` | the fuzz target is a client of the table, so what is proved of the table holds of it |
| `PropTestsProofs` | the property tests followed through the routing table: every assertion holds |
| `ArenaTableProofs` | the inductive invariant of the arena and the theorems that follow from it; where a walk ends; the arena implements `RoutingTable` |

### How the state corresponds to the code

* A **bitmap** is the set of its one-bits, so `|=`, `&= !` and the bit test are
  `\cup`, `\` and `\in`; `rank` counts the members below a position, as the
  `popcount` of the masked word does.
* An **address** is a sequence of bits, most significant first; `nibble` reads
  four of them. This is the one conversion of the whole model that is done bit
  by bit, because the properties are about which bits select which slot.
* The **tree** is `heap`, a function from node references to `TbNode` records.
  In Rust the parent's `Vec` owns the child; here the `Vec` holds the child's
  reference, which is the prefix of all addresses the node was created for
  (the `addr` and `hop` the iterator would have there). The reference is never
  used to find a node: every walk goes through `children[rank(external, nib)]`
  exactly as the code does, so a wrong rank leads to a wrong node in the model
  too. `WellLinked` says that it never happens.
* **Locals** of the running function are variables: `node` and `hop` of a walk,
  `best` of the lookup, and the suspended frames of the recursive `remove_at`
  as `stack`, each with the node, `nib` and `child_idx` it will use when the
  callee returns. `prune` is the bool the callee returned.
* `pc` is the function being run, `unwind` while `remove_at` returns through
  its frames, `return` once the answer is known.

### Actions

| action | code |
|---|---|
| `InsertFollow`, `InsertGrow` | an iteration of the loop of `insert_at` (548-557), without and with a new child |
| `InsertReplace`, `InsertNew` | its tail (558-572) and `count += 1` (144) |
| `MatchDescend`, `MatchBreak`, `MatchBottom` | an iteration of `longest_match_impl` that follows a link, one that breaks, and the check after the loop |
| `ProbeDescend`, `ProbeMiss`, `ProbeTarget` | `get_at` and `contains_at`, whose loops are identical |
| `RemoveDescend`, `RemoveMiss`, `RemoveTarget`, `RemoveUnwind`, `RemoveFinish` | `remove_at`: the recursive call, the two `(None, false)` returns, the base case, the code after the recursive call, and `RouteMap::remove` adjusting the count |
| `ReadCount` | `len`, `is_empty` |
| `Clear`, `ClearInterrupted` | `clear`; the second is a destructor panicking among the children, which skips `values.clear()` |
| `Call`, `Return` | the client |
| `Open` | `RouteMap::iter` (388-403) |
| `Yield` | the internal half of an iteration of `next` that returns an entry (730-750) |
| `EnterChild`, `LeaveNode` | the external half that pushes a frame (759-782), and the one that pops (784-787) |
| `End` | `return None` on an empty stack (714-717) |
| `Ask`, `Close` | the client calls `next`; drops the iterator |
| `Begin`, `Pull`, `Advance`, `Put`, `Insert`, `Collected` | `from_iter` (518-524): the new table, the loop over the iterator, `insert` |
| arena `InsertFollow`, `InsertGrow`, `InsertStore`, `InsertAbort` | an iteration of `ArenaTable::insert` (24-36), its end (38), `push` out of memory |
| arena `MatchDescend`, `MatchEnd`, `ContainsDescend`, `ContainsEnd` | the loops of `longest_match` (46-58) and `contains` (79-88) |
| arena `RemoveDescend`, `RemoveMiss`, `RemoveTarget`, `RemoveUnwind`, `RemoveFinish` | `remove_recursive`: the call (113), the missing link (109), the target (99-104), the code after the call (116-124), and `remove` (61-71) |
| `MakeCall`, `RunCall`, `TakeAnswer`, `MakeLater`, `MakeFresh`, `Drain...` | a property test making its next call, holding on to answers, making a second table, draining an iterator |
| `Apply` | the `match op` of the fuzz target |

**The iterator.** `frames` is `Iter.stack`. A frame holds the node it refers to
and, separately, the address OR-ed together on the way down (`OrBits` can only
set bits, as `|` does), so a wrong shift shows as a wrong prefix. `seen` is a
history variable. While an iterator exists, the borrow checker admits only the
calls that take `&self` (`SharedOps`); `TableStep` lets the client make them
between two `next`s.

**The arena.** Index `i` of the code is `nodes[i + 1]`. `NULL` is a constant, the
greatest index, so that the width of an index can be scaled down; `MaxNodes`
bounds the memory, and a `push` beyond it aborts the process, as Rust does. What
is stored for a prefix is read along the links (`Reach`).

**The property tests.** A test is an operator that gives a script: calls to make,
answers to assert, calls that depend on answers obtained before (`Later`,
`SameMatch`). Two tables in one test never interact, so the second is made when
the script is done with the first (`Fresh`). What proptest draws at random is
quantified over: addresses from `Ips`, all lengths, all Vecs of up to `MaxOps`
elements of `OpNets` and `Value`.

**Destructors.** With `DropMayPanic`, the two calls that drop values may end in
a panic. Both happen through `&mut self`, so a client that catches the panic can
go on using the table; the model lets it. `values[idx] = value` has the new
value in place even if dropping the old one unwinds, and `Vec::clear` sets its
length to 0 before it drops its elements; what `clear` has not reached by then
stays. That leaves exactly one visible intermediate state, `ClearInterrupted`.

## 3. What the runs check

| run | instance | checks |
|---|---|---|
| `two_strides` | 2 strides, 8 prefixes, 2 values (symmetric), 6 addresses | type invariant, well-formedness, no dead nodes, exact count, `BestSoFar`, `HistoryFree`, `PruneOnlyDead`, refinement of `RoutingTable` |
| `three_strides` | the fuzz target: 3 strides, 3 addresses, length bytes 0, 5, 9, 12 and 255, 1 value | `NoPanic`, `Responds`, pruning through several frames (`FramesValid`), refinement of `RoutingTable` with its fairness |
| `panicking_drops` | 2 strides, 4 prefixes, 2 values, destructors may panic | `ValuesBacked`, the invariant a panic weakens; refinement, counts included |
| `clear_leaves_values` | the same, one property | finds the interrupted `clear` that leaves value slots without bits |
| `visits` | 2 strides | finds the lookup that visits one node more than there are strides |
| `iteration` | 2 strides, 6 prefixes, 2 values (symmetric) | refinement of `RouteIteration`, `FramesOnPath`, `StackWithinCapacity`, `ShiftsInRange`, `DepthFirst` |
| `collect` | 3 strides, 4 prefixes, 2 values | `RoundTrip`; refinement of `RouteIteration` with its fairness; `from_iter` returns |
| `arena` | 4 bits, 4 prefixes, 2 values, 9 nodes, indices to 15 | refinement of `RoutingTable`, the shape of the links, blank pruned nodes, frames, `ArenaBestSoFar`; every call returns or runs out of memory |
| `arena_index_wrap` | indices to 7, 12 nodes | finds the entry that is lost when `nodes.len()` reaches the null link |
| `prop_tests_ipv4` | 32 bits, 3 addresses, Vecs of up to 2 of 5 prefixes | `AssertionsHold`, `TestsEnd` |
| `prop_tests_ipv6` | 128 bits, 2 addresses, all lengths | `AssertionsHold` |
| `words` | bitmaps of up to 4 bits out of 16; 12-bit addresses, every node | rank, match, scan, nibbles, paths and entries on words |

**Why these bounds are enough.** The code has no number above the stride in it:
depth 0, a middle stride, the last stride and the node below it are all there
are, and `BITS = 8` and `12` have all of them. The prefixes of `two_strides`
end at every relative length (0 to 3) in the root, at `/4` and `/6` below it, and
at full length; two of them are siblings, so both `Vec`s of a node shift on
insert and remove, four nest, and one is passed with host bits set. Clients call
in any order for ever, so any history of these entries occurs. `three_strides`
has chains of three links that part at the last bits, from each other and from a
third one in the first stride: entries at every length of the five on each, so
pruning must stop half-way, at a node that holds both an entry and a link, or go
up to the root; the length byte 255 is the one `len.min(32)` clamps. Values matter
only by identity: two are enough to see a mixed-up slot. `Value` is a symmetry
set in runs without liveness, which is sound because no definition names a
value.
The only bound beyond the instance is `MaxRootValues` in
`panicking_drops` (`CONSTRAINT RootValuesBound`): repeated interrupted clears
would collect leftover values in the root for ever.

`iteration` has entries at the first, the second and the last internal bit of the
root and under the first and the last nibble in use, so cursors end on 15 and on
16; `collect` has a chain with an empty node in the middle, and a second table
that is built from every state the first one can be in. The arena
needs no more than 4 bits: it has no strides, and its four prefixes give a
branch, a chain, the root and a sibling. Its two bounds are the point: `arena`
has memory for 9 nodes and indices to 15, so churn fills the memory with pruned
nodes before an index wraps (the case of every real machine short of 48 GiB);
`arena_index_wrap` has it the other way round. Its runs do not check deadlock,
since an aborted process stops. `prop_tests_ipv4` and `prop_tests_ipv6` use the
real widths, so that lengths 32 and 128, the deepest node and all shifts between
occur. `words` bounds the bits set at a time (`MaxOnes = 4`, enough for
one hit of each length), not where they are; bitmaps and addresses do not meet in
any expression, so bits are set at the root only and paths followed with an empty
bitmap. Its path stops at the bottom of the tree, so it does not check deadlock.

**Properties.** `ImplementsRoutingTable` is the strongest: seen through the
bitmaps (`Table` in `TreeBitmapProps`), every step of the tree is a step of
`RoutingTable` or invisible, so every answer of every call, counts included, is
the one the map gives. The mapping reads a value at the *canonical* place of
its prefix (`Home`, `BitOf`), independent of the walks. The invariants say why
it holds: `WellLinked`, `ValuesBacked`/`CompactValues` (slots at their ranks),
`Anchored` (no orphan, nothing but full-length entries below the last stride),
`NoDeadNodes` (nothing empty survives a call), `CountExact`, `FramesValid`
(indices taken before the recursion stay valid), `BestSoFar` (the loop invariant
of the lookup). `HistoryFree` puts them together: between calls the tree is
`TreeOf(Table)`, which builds nodes, bitmaps and both `Vec`s of every node from
the entries alone. `PruneOnlyDead` is an action property: a step frees a node only
when it is empty or in `clear`. `Responds` is termination.

`ImplementsIteration` says what a client of the iterator gets: each entry of the
table once, with its own value, covering prefixes before covered ones, `None`
exactly when nothing is left, all while lookups go on. `DepthFirst` is stronger
on the order: it is a function of the entries alone. `FramesOnPath` says why:
the suspended frames are the path to the top one. `ShiftsInRange` takes the very
amounts the model shifts by (`EntryShift`, `ChildShift`) and says that each is from
0 to the width of the address less one: in the deepest node none is below zero, and
the test of `rel_len` (`IsShifted`, `mod.rs:740`) keeps bit 1 of the root from being
shifted by the whole width, which for IPv6 is all of a `u128` and panics in a debug
build. (For IPv4, whose 32 bits live in a `u128` too, that is stricter than the
language.) `RoundTrip` compares the trees node by
node and slot by slot: nothing in a tree remembers its history. `NoPanic`
collects the checks Rust makes (slice indices, shift amounts, `unwrap`s and the
counter) before each step of a call. For the arena, `LinksForward` makes the
links a tree whose walks end, `PrunedIsBlank` says that what pruning abandons
holds nothing, `FramesLinked` that a suspended frame still has its link.

**Fairness.** `WF_vars(Step)`: a call that has started keeps executing, since it
is straight-line code on the caller's thread with nothing to wait for. `Call` is
not fair: a client may stop calling. Likewise
`IterStep` (`next` runs to its return, but nobody need call it again),
`CollectStep` (`from_iter` is a loop) and a property test as a whole. No
deadlock: `Call` is enabled whenever no call runs, and runs check it.

## 4. Where code and documentation disagree

* `README.md:282` says that a lookup "visits at most 8 nodes". An IPv4 lookup of an
  address with a stored `/32` visits nine: eight strides lead to the ninth node,
  which `mod.rs:265` reads. Run `visits` shows it as strides + 1. (The doc
  comment at the top of `RouteMap` counts pointer hops, which are 8.)
* `node.rs:7` says that the length of `values` equals `internal.count_ones()`.
  After a `clear` interrupted by a panicking destructor it does not: run
  `clear_leaves_values`. Nothing a client can observe through the map goes wrong
  (run `panicking_drops`); the leftovers are dropped by the next `clear` or with
  the table. Without panicking destructors the line is true, and proved
  (`ValuesCompact`).
* The arena loses entries once its node `Vec` has been as long as `u32::MAX`
  (`table.rs:28`): the index of the next node is the null link. Pruned nodes are
  never reused, so a small table reaches this by churn alone. Run
  `arena_index_wrap` shows it with a scaled-down index against the claim of the
  test `contains_inserted_prefix` (`table.rs:424`). With the real width it takes
  2^32 - 1 nodes; the arena is compiled only for comparison. Where the memory ends
  first the test is right, and that is proved (`ArenaInserted`).
* Not a property of behaviour, but met on the way: the first half of the doc
  comment of `iter` (`mod.rs:351-366`) is that of `contains`.

## 5. What is proved

Proved for every `Strides >= 1`, every `Value`, every set of prefixes and
addresses and both settings of `DropMayPanic`:

| theorem | says |
|---|---|
| `Inductive` | `Spec => []IInv` |
| `TypeCorrect` | `[]TypeOK` |
| `LinksCorrect` | `[]WellLinked` |
| `ValuesCorrect`, `ValuesCompact` | `[]ValuesBacked`; `[]CompactValues` if destructors do not panic |
| `NodesAnchored` | `[]Anchored` |
| `FramesCorrect` | `[]FramesValid` |
| `DeadNodesPruned` | `[]NoDeadNodes` |
| `CountCorrect` | `[]CountExact` |
| `PruningSafe` | `PruneOnlyDead` |
| `CallsDoNotPanic` | `[]NoPanic` |
| `LookupCorrect` | `[]BestSoFar` |
| `Refinement` | `ImplementsRoutingTable`: every call answers as the map does |
| `TreeShape` | `[]HistoryFree` if destructors do not panic: the tree is a function of its entries |
| `IterInductive` | `IterSpec => []IterInv` |
| `IterTypes`, `StackIsPath`, `StackFits`, `ShiftsFit`, `OrderDepthFirst` | `IterTypeOK`, `FramesOnPath`, `StackWithinCapacity`, `ShiftsInRange`, `DepthFirst` always |
| `IterationRefinement` | `ImplementsIteration`: every entry once, in order, then `None` |
| `CollectInductive` | `CollectSpec => []CollectInv` |
| `EntriesCopied` | when `from_iter` is done, the new table has the entries and the count of the original |
| `RoundTripExact` | `[]RoundTrip` if destructors do not panic: it is the very same tree |
| `CollectIterates` | `CollectSpec => IterSpec`: `from_iter` is a client of the iterator |
| `FuzzFindsNoPanic`, `FuzzFrames`, `FuzzRefinement` | `NoPanic`, `FramesValid` and `ImplementsRoutingTable` for the fuzz target |
| `TestsPass`, `Ipv6TestsPass` | `[]AssertionsHold` for the property tests, whatever proptest draws |
| `ArenaInductive` | `Spec => []ArenaInv`, for `MaxNodes <= NULL` like all below |
| `ArenaTypeCorrect`, `ArenaLinks`, `ArenaPruned`, `ArenaNoEmptyNodes`, `ArenaFrames` | `ArenaTypeOK`, `LinksForward`, `PrunedIsBlank`, `NoEmptyNodes`, `FramesLinked` always |
| `ArenaBest` | `[]ArenaBestSoFar` |
| `ArenaRefinement`, `ArenaInserted` | `ArenaImplementsTable`; `[]InsertedIsContained` |

The assumptions are those of `RouteMapAPI`: at least one stride, `None` neither a
value nor a pair with one (`Option::None` is no `Some`), prefixes and addresses of the right type, `DropMayPanic` a Boolean.
Those about the fuzz target also name its inputs: the length byte of an `Op` is a
`u8`, and the prefixes and addresses that `Op`s decode to are among those clients
pass (`FuzzNetsAssumption`, `FuzzLookupsAssumption`). `TestNetsAssumption` and
`TestAddrsAssumption` say the same of the property tests: what they draw, and its
masked form, is among what clients pass.
The theorems about the arena also assume `MaxNodes <= NULL`: there is memory for
at most 2^32 - 1 nodes, so the index of a new node is always below the null link
and `as u32` loses nothing. That is the line between the runs `arena`, inside it,
and `arena_index_wrap`, which shows what happens beyond.

**The argument.** None of the properties is inductive alone. `IInv` adds two
things. `Control` ties the locals to the tree: a walk stands on
`Path(addr, hop)`, the node for the first `hop` nibbles of its own address, and
that node is live; `stack` has exactly `hop` frames in `remove`; if `prune` is
set, the current node is dead. `TreeInv` collects what the heap alone satisfies,
with the finiteness of the set of entries.

The steps that matter:

* following a link (`DescendInv`, shared by the four walks) lands on the next
  `Path` because `children[rank(external, nib)]` is `Child(node, nib)`
  (`WellLinked`) and `Child(Path(a, h), nibble(a, h)) = Path(a, h + 1)`
  (`ChildOnPath`, bit arithmetic);
* inserting into or removing from a `Vec` at a rank moves every other slot
  exactly as it moves its rank (`VecInsertAt`, `VecRemoveAt`, from `RankAdd`,
  `RankRemove`);
* a new bit is a new entry and a cleared bit is an entry gone, because no two
  (node, bit) pairs stand for the same prefix (`EntryInjective`), so the count
  stays exact (`KeyAdded`, `KeyRemoved`);
* pruning removes a node nobody else needs: it is dead, so it is no other node's
  ancestor, and no other link leads to it (`ChildInjective`); the frames still
  suspended are those of strictly shorter references, which the step does not
  touch (`UnwindPruneInv`).

The lookup needs one strengthening more. `BestSoFar` speaks of the entry a
`CHOOSE` picks; `LookupInv` says instead what makes it the right one: `best`
is `None` and no entry above the walk covers the address, or it is the value and
the length of an entry that does, and no covering entry above is longer. That is
inductive because of what a prefix says about where it is stored: an entry of a
node covers an address exactly if the node is on the address's path and the bit
in the match mask of its nibble (`EntryCovers`, `CoversOnPath`), an entry has
one home (`EntryHome`), and there is one prefix of each length that covers an
address (`CoveringUnique`), so "the longest" is unique (`LongestIs`).
`LookupAnswers` turns the invariant into the answer: where no link leads on, what
is below holds no match (`NothingBelow`).

`CallsDoNotPanic` needs nothing beyond `IInv`: ranks are below or at the length of
their `Vec`, and a frame's index is a rank (`FramesValid`).

`Refinement` needs no invariant beyond `IInv` and `LookupInv`. A walk that arrives
stands on the home of its key, and the walk's bit is the key's (`TargetEntry`); a
walk that finds a link missing has shown that the key is not stored, since a
stored key's node has all its links (`TargetMissing`). So the step that answers
sees in one slot what the map has under the key, and changes nothing else the map
sees (`OthersKept`). Steps that create, prune or walk keep the entries of every
node and touch only nodes without any (`TableKept`). What remains are the answers
of the lookup (`LookupAnswers`) and of `len` and `is_empty` (`CountExact`).

**The shape of the tree.** `TreeShape` says more than that the entries are right.
It follows from `IInv` at rest: a node other than the root is not dead
(`NoDeadNodes`), so it holds an entry or a link, and a link leads to a longer
reference; as references are no longer than an address, every node lies on the
path to an entry (`NodeUsed`, by the least distance to the bottom). With
`Anchored` the other way round, the nodes are those on the paths of the entries
(`RefsAre`), which gives both bitmaps (`InternalIs`, `ExternalIs`). A bitmap
determines the order of its slots, as `rank` numbers its bits from 0 on
(`SlotBits`), and `ValuesCompact` and `WellLinked` say what each slot holds and
that there are no more (`NodeIs`). A panicking destructor is the exception:
the root may have spare slots then, which `ValuesCompact` excludes. One fact that
no other proof needed is carried along, `HeapMap`: the heap is a function.

**The iterator.** `FramesOnPath` alone is not inductive: it says that a frame
stands on the path to the top, but not that its cursors are where that path left
it. `IterInv` adds what relates the stack to the entries:

* `Borrowed`: while an iterator exists, a running call is one of `SharedOps`, so
  the heap does not change (`ReadOnly`). This is all that is used of the borrow
  checker, and it is a guard of the model.
* `Winding`: each frame is on the path to every frame above it, and its external
  cursor stands just past the nibble that path continues with. So a frame that is
  popped back to has not lost its place, and no subtree is entered twice.
* `LeftAhead`: an entry has not been returned *exactly if* it is `Ahead` of the
  cursors of some frame, at a later bit of its node or below a later link. One
  direction says that nothing is skipped, the other that nothing comes twice. It is
  preserved because `EnterChild` divides what was ahead of a frame between it and
  the frame it pushes (`AheadDivided`), and `LeaveNode` pops a frame nothing is
  ahead of, since the links of stored keys exist.
* `InOrder`: what was returned comes, in the depth-first order, before all that is
  left. The next bit of the top frame is the least entry left (`YieldFirst`),
  because every other frame is ahead only by links past the top's path (`OnStack`).

`LeftAhead` with an empty stack says that everything was returned, so `End` may
answer `None`; with `YieldFacts` it makes each `Yield` the abstract step that takes
an entry still owed, whose covering entries went before. The prefix `next` rebuilds
is the one the entry was inserted under because `OR` into the zero bits of a
node's address places the nibble (`OrIsPlace`) and the frame's address is that of
its node. `IInv` and `LookupInv` are part of `IterInv`, so the calls between two
`next`s are covered by `Refinement`.

**Collecting.** `CollectInv` has `IterInv` for the table collected from and `IInv`
for the one being built, an instance of the same theorems, whose client passes
whatever the iterator yields (`NewP`, with all prefixes for `Nets`). What joins
them is `Copied`: the new table maps the prefixes returned so far, less the one in
flight between `next` and the end of `insert`, to the values they have in the
original. `Advance` puts an entry in flight (`YieldFacts`), the step of `insert`
that answers lands it, and each step of `insert` is one of `RoutingTable` seen
through `Refinement`. At `None` nothing is left (`LeftAhead`), so both tables have
the same entries: that is `EntriesCopied`, and it holds even of an original a
destructor has panicked in. With `TreeShape` for both, equal entries make equal
trees.

**The fuzz target.** What an `Op` decodes to is a request of a client: a clamped
length is one that `IpPrefix::new` accepts (`ClampFits`, `OpDecodes`), so
`FuzzSpec` implies `Spec`.

**The property tests.** `AssertionsHold` compares an answer with what a script
wrote down many calls before, so the invariant must know where in the test it is.
A `Stage` says what the table holds, what the table held when it was last drained,
and what answer the test has kept. `Does` says which stage a step of a script
turns another into, by what a call does to a *map* (`Effect`, `Answer`), and a
script `Leads` from the first to the last. `TestInv` is `IterInv` with: there is
a stage from which the rest of the script leads somewhere, and the table, the kept
answer and the items drained so far stand at that stage (`Standing`). It is
inductive because a running call changes the map and answers as `Effect` and
`Answer` do (`CallAnswered`, from the step lemma of `Refinement`), because a drain
ends with each entry once (`Drawn`, from `YieldFacts` and `LeftAhead`), and
because steps that depend on earlier answers expand to scripts that lead where the
step did (`ExpandLeads`). No test mentions the tree in this proof. What is left is
that each script leads from the empty table to an end, test by test
(`OnePrefixPasses` and the lemmas after it): inserts of a Vec fill a table in
which the last operation for a prefix wins (`FilledTable`, `FillLeads`), the
entries remove_one and clear_then_reinsert compare with are an enumeration of it
(`DedupedIs`), and the lookups find the longest match of a table of one or two
entries (`OneMatch`, `TwoMatch`).

**The arena.** Here `LinksForward`, `PrunedIsBlank`, `NoEmptyNodes` and
`FramesLinked` are almost inductive together. What `ArenaInv` adds is
`ArenaControl` (`depth` frames during `remove`, the current node linked, a node
reported for pruning blank, the memory not exceeded) and `FramesOrdered`
(suspended frames go strictly down from the root). That makes the one delicate
step go through: clearing `children[bit]` after the recursive call abandons a node
that is blank and that no other link leads to (`LinksForward`), and which no frame
still suspended refers to, since its index is greater than theirs.

The refinement reads the table through walks, `NodeAt(nodes, a, d)`, the node `d`
links along address `a`; the lemmas about them are by induction over `d`, on the
set of depths a statement holds at (`BoundedInduction`, from least elements, since
the induction theorems of the library take operators). `OnPath` strengthens
`ArenaInv`: the current node is the one `depth` bits along the call's own
address, and `best` what is found along the bits before it. A node is reached along one
prefix only, so writing a value changes one entry and growing or pruning changes
none.

**Only model-checked.**

* Liveness, which TLAPS does not cover: `Responds`, `ArenaResponds`, `TestsEnd`,
  `CollectEnds` and the refinements with fairness (`ImplementsFair...`). The
  proofs give the other half: links that go down, cursors that only advance.
* `words`: that the `u32` and `u128` expressions compute what the operators of
  `TreeBits` say. They use bitwise operators, which the provers do not know, and
  are checked by enumeration.

## 6. What is not modelled

* `Debug` only formats what the iterator yields; `Clone` is derived, a deep copy
  the language makes; `Default` is `new`.
* The unit tests: single examples of calls that the runs make in every order.
* Allocation failure in the tree (an abort in Rust) and the capacity `clear`
  retains. The arena has it, because there it decides whether indices can wrap.
* `masked()` and `IpPrefix::new` of `ipnetx` beyond what `src/` relies on:
  clearing the host bits, refusing a length beyond the address. Parsing,
  formatting.
* The benchmarks, and the cost of anything.

## 7. Plan

1. *(done)* `RouteMapAPI`, `RoutingTable`, `TreeBits`, `TreeBitmap` with its
   properties, runs, and the inductive invariant.
2. *(done)* the iterator with its abstract specification, `FromIterator`, the
   arena, word-level arithmetic, and the clients in the repository: property
   tests and fuzz target.
3. *(done)* the proofs that no call panics, that the lookup is correct, and that
   the tree bitmap implements `RoutingTable`.
4. *(done)* the proofs about the iterator: its stack, its shifts, its order, and
   that it implements `RouteIteration`.
5. *(done)* the proofs about the arena: the shape of its links, what pruning
   leaves, and that it implements `RoutingTable` while its indices last.
6. *(done)* the proofs that the shape of a tree depends on its entries alone, that
   `from_iter` reproduces a table exactly, that the fuzz target is a client
   like any other, and that every assertion of the property tests holds.

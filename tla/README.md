# A TLA+ model of libreset

libreset is a C library for sets of user objects. A set is a hashtable of
buckets; a bucket is a binary search tree on the hashes; a node of a tree holds a
linked list of the elements of one hash, a bloom filter of its subtree, a height
and a node count. The user supplies `hashf`, `cmpf` and, optionally, `copyf` and
`freef`. There are no threads, and nothing is persisted. What is hard in this code
is elsewhere: metadata that is buffered in nodes and must survive rotations and
removals, allocations that fail half-way, loops that unlink what they walk over,
comparisons that depend on the shapes of trees, and shifts at the limits of a width.

Paths below are relative to `src/libreset/` unless they start elsewhere.

## Inventory

| Component | State | Operations | Depends on | What makes it correct |
|---|---|---|---|---|
| linked list, `ll/` | cells, next pointers, the data they own | insert, find, delete, ndel, count, select, is_subset, equal, destroy | `cmpf`, `copyf`, `freef`, calloc | no freed memory touched, nothing leaked, no duplicates, every call returns |
| bloom filter, `bloom.c` | none (a `size_t`) | from_hash, may_contain, may_have_common | - | no false negatives |
| search tree, `avl/` | nodes with list, hash, filter, height, node count, children | insert, del, ndel, find, cardinality, select, is_subset, destroy; internally rotate, rebalance, isolate, regen | list, filter, calloc | search order, exact count and filter, logarithmic depth, a set seen from outside |
| hashtable, `ht/` | `2^sizeexp` trees | the same, and equal | tree | each hash in its bucket; equal only if equal |
| set interface, `set.c` | a table and a configuration | new, destroy, insert, remove, contains, cardinality, select, equal | table, calloc | several independent sets; results and error codes are true |
| set algebra in `include/libreset/set.h` | - | union, intersection, xor, exclude, is_subset | - | declared only; there is no code to model |
| node cache, `avl/node_cache.c` | a chain of nodes | is_in_cache | - | not used by any other file |
| utilities, tests, paper, build files | - | - | - | not modelled; the paper and the comments were read for what they claim |

Calls go down only: set -> table -> tree -> list. They come back up through
callbacks: the predicate, `procf` and the functions of the configuration.
`PROJECT.json` lists the hazards of this code, each at its line, with the properties
that would notice it.

## Modules

Lists and trees are written twice: as functions of values, from which the machines
of the upper layers are built, and as machines with pointers, one step for each
iteration, visit or rotation. The machine with pointers is shown to implement the
one of values (`AvlHeapTree`), and what that promises (`LinkedList`, `AvlHeap`, `SetSpec`).

| Module | Models |
|---|---|
| `Ll` | the list calls as operations on sequences: result and new list |
| `Bloom` | filters as sets of bit positions, with `1 << k` as the build computes it |
| `AvlFns` | every function of `avl/common.c`, `avl/base.c`, `avl_select.c`, `avl_cardinality.c`, `avl_is_subset.c` as a function of trees (records of the fields of `struct avl_el`) |
| `BloomCommon` | the loop of `bloom_may_have_common` and the masks of `erasure_mask`, words as sets of bits |
| `TreeViews` | what a tree holds and looks like; only properties use it |
| `SetSpec` | what one container promises: contents, and the last call with its result |
| `AvlTree` | one tree under every sequence of calls and allocation failures |
| `AvlClaims` | statements of comments that the tree does not keep |
| `AvlHeap` | one tree in memory: nodes, child pointers, the stack of the recursion; what every call but the queries over the whole tree does to them |
| `AvlHeapTree` | the refinement of `AvlTree` by `AvlHeap` |
| `PowersOfTwo` | `CONSTPOW_TWO` |
| `HtFns` | the functions of `ht/`, and what they rely on of the functions of `avl/avl.h` |
| `MCTrees` | the trees of `AvlFns` as those of `HtFns`, for TLC |
| `HtPair` | two tables of different sizes, filled, emptied, compared |
| `RSetSpec` | what set.h promises of several sets |
| `RSet` | the functions of `set.c` over several sets, and `r_set_select` with a `procf` that inserts into a set |
| `LinkedList` | the list in memory, one step for each iteration of a loop |
| `Induction` | induction on the naturals, the functions that loops compute, powers of two and quotients |
| `LinkedListProofs` | the proofs about `LinkedList`: its invariants, and that it implements `SetSpec` |
| `AvlHeapSteps`, `AvlHeapProofs` | the proofs about `AvlHeap`: the shape of a tree, the inductive invariant, and the steps that do not relink; on top of it the steps that do, the theorems, and that it implements `SetSpec` |
| `HtProofs` | what each function of `HtFns` does to the contents of a table |
| `HtPairProofs`, `RSetProofs` | the proofs about `HtPair` and `RSet`, on top of `HtProofs` |
| `BloomCommonProofs` | the proofs about `BloomCommon` |
| `MC...` | instances for TLC |

How code becomes TLA+:

- A function given a `struct avl_el **` or a `struct avl *` takes the tree and
  returns the new one with its result (`[ret, root]`). The order of calls in the
  code is the nesting of the operators. In particular a regenerated node uses the
  *stored* metadata of its children, and `rebalance_subtree` leaves the root's
  metadata alone after it has rebalanced the children, as the code does.
- The two nested loops of `rebalance_subtree` are recursive operators
  (`WhileRightHeavy`, `RotateOuterUp`, and their mirror images). TLC evaluates
  them to their end for every tree a run reaches.
- `ht/` reaches its trees through the functions of `avl/avl.h` only. In `HtFns` these are
  constants (`tree_insert`, `tree_is_subset`, ...), and what they promise is an assumption on
  them: what a call returns, which elements it leaves, which hashes the nodes may
  have, and that `tree_is_subset` is right when it finds a subset. `MCTrees`
  instantiates them with the functions of `AvlFns`, and TLC checks the assumptions, in each
  run that uses tables, for all trees that can be made of the keys of the run.
- A failing `calloc()` is an argument, `nomem`: `"node"`, `"cell"` or `"none"`.
  A node whose list cell could not be allocated is linked into the tree all
  the same, with an empty list ("hollow"), as `avl/base.c:174-178` does.
- `regen_metadata(NULL)` at `avl/base.c:277` is the action `CrashInDeleteIf`,
  which ends the process (`up = FALSE`). A call that reaches the buckets of
  a set that has none is the action `Crash` of `RSet`.
- An element is its equivalence class under `cmpf`. A predicate is the set of
  elements it holds of, `Key` standing for a `NULL` predicate. `procf` is the set
  of elements it fails on; a failure's code is `EEXIST`, any negative number.
- set.h suggests a `procf` that inserts into "another set". `SelectInto` is that use of
  `r_set_select`: the elements go into the destination in the order of the walk until
  an insertion fails, whether an element that is there already counts as a failure or not.
- `ht_equal` counts buckets, and `ht_cardinality` elements, in an `int`: what is left of a
  number in one is `ToInt`, and `INT_MAX` is a constant. `TableSizes` are the `sizeexp`
  with which the buckets of a table can be counted (30 at most, for ints of 32 bits).
  With them the shift `1 << (a - b)` and the indices `denom_buckets * i + j` of `ht_equal`
  are ints too, so that `Group` may compute them as naturals. `HasRoom`, a guard of the
  insertions of `HtPair` and `RSet`, keeps the elements of a table countable.
- `1 << k` with an `int` 1 sets bit `k`; at the sign bit the sign is extended;
  above it C leaves the value undefined and the constant `WideShift` says what
  the build yields.
- In `LinkedList`, the slot a loop holds (a `struct ll_element **`) is `HEAD` or
  the cell whose `next` field it is. `freef`, the unlinking and `free()` of one
  iteration are one step: nothing else runs between them. Not so in `ll_destroy`, where
  the order matters: `DestroyNext` reads `next` into `ahead`, and `DestroyFree` (`pc` is
  `"free"`) calls `freef`, frees the cell and goes on to `ahead`. `live` are
  the objects the list owns, by `copyf` or because `freef` will be called on them.
- In `AvlHeap` a `struct avl_el **` is a slot: `&avl->root` or a child field of a node.
  A frame of `stack` is a running function, the slot it was given and where it stands;
  `Descend` and `VisitLeft` push one, `Leave` returns. `retval` is `ret`, and what
  `isolate_leftmost` returns is `low`. `rebalance_subtree` keeps its root in a local
  variable that its caller stores; the model stores it at once, as nothing
  reads the slot before. Reading a node's metadata, changing it and regenerating it
  within one visit is one step. `before` is a history variable: the memory when
  the call began.
- A filter whose `|=` spells out bits is a set; `BloomCommon` needs sums too, and
  computes them on the numbers of the sets. The shift by the full width
  in the last repetition of `erasure_mask` may shift by 0 or shift everything out.

A definition `f__bug` is a variant of `f` with a plausible bug. No model uses it;
it is there to see that a property would notice.

## Runs

| Run | Shows | Bounds |
|---|---|---|
| `tree` | search order, exact metadata, hollow nodes only after `-ENOMEM`, and `AvlTree` implements `SetSpec` | 7 keys, 6 hashes (one collision), 8-bit filters from 4-bit ints, 6 predicates, 3 `procf`s, every allocation may fail |
| `shape` | stored heights are exact or one too high, never more, never less; depth is logarithmic; every subtree is weight-balanced or of minimal depth | up to 11 nodes, insertions and removals in every order |
| `pair` | buckets partition the hashes in order; a group of buckets of the large table matches one of the small; equal tables have equal elements; a table equals itself | tables of 2 and 4 buckets, 4 keys, one collision, failing allocations |
| `sets` | `RSet` implements `RSetSpec`: also when a selection of one set is copied into another, or into itself, and stops half-way | 2 sets, 2 configurations, 3 keys, 2 buckets, every allocation may fail |
| `list` | memory safety, ownership, no leak, no duplicates, every call returns, the inductive invariants of the proofs, and `LinkedList` implements `SetSpec` | 3 cells, 5 objects of 3 classes, with and without `copyf` and `freef` |
| `heap` | in memory, at every step: no freed node is followed or held, each node hangs in one slot, on the right side of those above it, the count and the filter of every node that is not about to be regenerated are exact; between calls none leaks; lookups are exact, every call returns, the inductive invariants of the proofs hold, and `AvlHeap` implements `AvlTree` and `SetSpec` | 6 nodes, 7 keys (one collision), 3 predicates; any node may fail to be allocated, and the cell of one of the two keys that share a node |
| `common` | the masks and the sums of the bit count are right, and its loop ends | 8-bit words, 3 hash variants, the two outcomes of the undefined shift |

Why the bounds are enough to be interesting: six nodes are the least with which a
node with two children, both of them inner, can be removed and double
rotations happen on either side; eleven nodes reach depth five, where trees that
the early return of `rebalance_subtree` skips differ from those it does not;
hashes of the `tree` run differ in the first bloom variant, the second or both, so
filters cut lookups short for some and not for others; three cells allow for
first, middle and last; five objects give two distinct objects to two of the classes,
as `copyf` needs. `HT_INIT_POWER` is 1 instead of 3 in `sets`; the
number of buckets matters to `bucket_index` only, which `pair` checks for
two sizes. `INT_MAX` is 7 in `pair` and `sets`, and their violation runs: no table there has
more than 4 buckets or elements, so `HasRoom` stops nothing in these runs.

`calloc()` gives each hash of the `heap` run an address of its own, and no other:
the addresses are never compared, so which of the free ones is taken makes no
difference. Empty nodes (after a failed cell) are limited to the node with two keys, since
each of them nearly doubles the number of trees; `tree` has them everywhere, and so have
the proofs.

`VIEW` leaves out `done` (the result of the last call) in `tree`, `shape`, `sets`,
`list` and `heap`, and in the last two the locals of a call that has returned and the
fields of freed cells and nodes: no action reads
them before it writes them (a list being destroyed keeps its fields), and the refinement properties compare the primed `done` on
each transition. Each run with a crash or a destroyed list sets
`CHECK_DEADLOCK FALSE`: the process, or the list, is gone and nothing follows.
The others check deadlock.

Five more runs expect a violation, each of a statement the repository makes:

| Run | Statement | What the code does |
|---|---|---|
| `ndel_returns` | avl.h: `avl_ndel` returns the number of removed elements | emptying a leaf dereferences `NULL` (`avl/base.c:277`) |
| `closest_node` | common.h: the closest node, or the node itself | both functions miss it (`avl/common.c:251`); nothing calls them yet |
| `equal_complete` | ht.h: 1 if the tables are equal | tables with the same elements in trees of different shape are found different (`avl/avl_is_subset.c:28`) |
| `new_sets` | set.h: `NULL` on failure | a set without buckets is returned (`ht/base.c:29`) |
| `common_elements` | bloom.h: 0 if the sets are disjunctive, 1 otherwise | the result is inverted, and the count it is made from loses bit 0 and ends up in the upper half (`bloom.c:121-128`); nothing calls it yet |

Seen on the way, without a run of their own: the stored height is not "the height of
the subtree" (avl.h:48) after children were rebalanced, and never corrected
before the next call passes by (`HeightAlmostExact` says by how much); a node may hold no
element, though data-layout.tex:95 says "one or more", after a cell could not be
allocated (`HollowOnlyFromENOMEM`); `ll_equal`, which nothing calls, tests only that
the first list's elements are in the second, while ll.h:232 says "1 if the lists are
equal"; `ll_destroy` calls `freef` on the elements of a list that has one (ll/base.c:50-52),
while ll.h:65-66 says that it "does not remove the referenced elements" (`OwnsItsData` and
`DestroyFree` state what the code does); `avl_is_subset` returns 1 when it finds a subset,
while avl.h:203 says "0 if avl_a is a subtree of avl_b or else 1" (`AvlFns` follows the code,
as `ht_equal` does); `rotate_left` and `rotate_right` return the node itself when there is
nothing to rotate (avl/common.c:96-98 and 121-123), while common.h:41 and common.h:54 say
`NULL`.

So that these do not hide the rest, the abstract specifications say only what the
code keeps: `RSetSpec!Equal` may answer 0 for two equal sets but never 1 for
different ones, and a crash is a stuttering step after which nothing happens.

## Fairness

`list` and `heap` need it for `CallsReturn`: `FairSpec` adds weak fairness of `Step`,
whatever the running call does next; `common` adds it to the one function it
runs. A call runs on the thread that made it, so it takes its
next step as long as the thread is scheduled. No fairness is put on the calls
themselves: a user may stop calling. `ImplementsTree`, `ImplementsSet` and
`ImplementsSets` are safety properties and need none. `ImplementsTree` is
`AvlTree!Spec`, and `ImplementsSet` of `heap` is `SetSpec!Spec`, with the disjunction
written in the order TLC evaluates fastest.

`CallsReturn` of `heap` is about the loops of `rebalance_subtree`: a rotation of a
heavy side that does not change the counts would repeat for ever. The recursion
is bounded by the depth of the tree.

## Proofs

All theorems are about every instance: any cells, nodes, objects, keys and predicates, and
structures of any size. They assume what the modules assume of their constants.

### The list

`LinkedListProofs` proves of `LinkedList`:

- `TypeCorrect`: `Spec => []TypeOK`
- `Unique`: `Spec => []NoDuplicates`
- `Ownership`: `Spec => []OwnsItsData`
- `MemorySafe`: `Spec => []NoUseAfterFree`
- `Leakless`: `Spec => []NoLeak`
- `Implements`: `Spec => ImplementsSet`

The assumptions: `NULL` and `HEAD` are no cells, `NULL` is no object, every object has a
key, and predicates and the sets of elements `procf` fails on are sets of keys.

None of these properties is inductive by itself: that a slot is allocated after a
step of a walk depends on where the walk is in the list. The inductive invariant
`ListInv` says that there is a function `s` on `0 .. n+1` that lists the
cells between `HEAD` and `NULL`, without repetition and each pointing to
the next (`Chain`), and a position `p` in it the call has reached (`Place`):
the slot is `s[p-1]` or the cell is `s[p]`, the allocated cells are those of
the chain (from `p` on in `ll_destroy`, where `ahead` is `s[p+1]` before a cell is freed), and what the walk has learnt of the cells before
`p` (`Found`): a call that compares has found no equal element, `ll_ndel` has left none
the predicate holds of, `ll_count` has counted `p - 1`, `procf` was called for
just those the predicate holds of, and did not fail. The lemmas `Unlink` and `Link` say what
cutting out a cell and hanging in a cell do to a chain; `Advance`, `Start`, `Finish`,
`Cut`, `Hang`, `Look`, `Free` and `Gone` say where the call then is; `Inductive` has one step for each action.

For the refinement, `Since` relates the elements when the call began to those
there are now: they are the same for all calls but `ll_ndel`, whose `cnt` is the
number of those that are gone. `HowMany` (a chain of `n` cells holds `n` elements), `AtEnd`
and `AtFailure` say what is known when a walk ends; then there is one lemma for each call
that returns, one for all steps that are not to be seen, and `Implements`. TLC checks
both invariants, with the length bounded (`BoundedListInv`), in `list`.

### The tree

`AvlHeapProofs` proves of `AvlHeap`:

- `Invariance`: `Spec => []HeapInv`
- `TypeCorrect`: `Spec => []TypeOK`
- `MemorySafe`: `Spec => []NoUseAfterFree`
- `NothingShared`: `Spec => []OneSlotEach`
- `NothingLeaks`: `Spec => []NoLeak`
- `AlwaysSorted`: `Spec => []Sorted`
- `AlwaysExact`: `Spec => []MetadataExact`
- `LookupsExact`: `Spec => []FindIsExact`

The assumptions are `HeapAssumption` (`NULL` is no address, hashes are naturals,
`calloc()` returns addresses) and the one of `Bloom` on the widths; a shift beyond the
width of an int may yield any bits.

The inductive invariant `HeapInv` has these parts, each of which the others need:

- `Shape`: there are a set `T` of nodes and, for each slot `t`, the set `sub[t]` of the
  nodes below it, with `sub[t] = {n} \cup sub[l] \cup sub[r]` for the node `n` in `t`, and
  the hashes of the left part lower, of the right part higher than that of `n`. This
  needs no recursion. That a node is not below itself, that two slots that are not one
  below the other have nothing in common, and that each node hangs in one slot follow
  (`NotBelowItself`, `Above`, `Below`, by `Upwards`: induction on the cardinality of subtrees).
- `Stacked`: which functions may stand where, and that each frame works below the child
  field that every frame further down has passed on (`Under`, `Field`). So a step at the top
  changes nothing a caller will read, but the one slot in the node it stands at.
- `Owned`: the nodes allocated are `T` and the node being moved; while `avl_destroy` runs,
  those the frames will yet free (`ToFree`).
- `Moving`: the node `isolate_leftmost` cut out is in no slot, and its hash belongs right
  above the right subtree of the node it will replace.
- `Searching`: the hash that is being looked for or inserted belongs below the
  slot that was reached. This is where the exactness of the filters is used.
- `Metadata`: the count and the filter of every node are exact, but for those a frame waits
  at that will regenerate them (`Pending`).

`AvlHeapSteps` says what the four ways of relinking do to a shape: `Cut` (a node with at
most one child goes), `Hang` (a new leaf), `Supplant` (a node takes the place of
another) and `Turn` (a rotation). `Steady` says that they leave the callers' slots
alone. Then there is one lemma for each action, `...Keeps`: those that do not relink in
`AvlHeapSteps`, those that do in `AvlHeapProofs`. TLC checks the invariant in `heap`, with
the tree computed (`HeapInvNow`).

`ll_ndel` and `bloom_from_hash` are loops. They are functions on the naturals in
`Ll` and `Bloom`. The library's induction theorems take an operator as a parameter, which the
installed provers cannot instantiate; `Induction` proves, from the least-element property,
induction for sets (`AllNat`) and that a function defined by iteration exists (`Iterate`,
`IterateTo`). From these `AvlHeapSteps` gets what `ll_ndel` leaves and counts (`NdelTakes`).

### The tree as a set

`AvlHeapProofs` also proves of `AvlHeap`:

- `Implements`: `Spec => ImplementsSet`

The assumptions are those of the tree. A step of `SetSpec` is taken when a call returns; until
then a user sees the elements there were when it began (`Had`), and what is proved is
how those there are now (`Held`) relate to them. `HeapInv` says nothing of that: a
rotation that exchanged the lists of two nodes of one hash would keep it. The invariant
`EffectInv`, inductive together with `HeapInv`, has these parts:

- The list of each node holds no element twice, so that a removal leaves none behind.
- `Effect`: on its way down (`GoingDown`) a call has changed nothing; past it, `avl_insert`
  and `avl_del` have had their whole effect and have their result (`Inserted`,
  `Removed`), whatever is still to be relinked and rebalanced. `avl_ndel` has taken away some
  elements of the predicate, and has counted as many as are gone (`Thinned`).
  `avl_destroy` ends with no root, hence no node and no element (`Destroyed`). A frame
  that is about to cut a node out, or to replace it, stands at one with an empty
  list (`Proper`): this is why the relinking loses no element.
- `Reach`: while `avl_insert` and `avl_del` go down, a node of the hash can only be below the
  slot they have reached, so that the call is right about what the whole tree holds when
  it has found one or come to an empty slot. Every node with an element that `avl_ndel`
  is to take away is one that some frame on the stack will yet visit (`ToVisit`), so that
  none is left when the recursion is over (`Unaffected`).

`Reach` speaks of subtrees, which each relinking changes. `SameSub` says that the slots determine
them, so that `Recall` may read them off any tree `HeapInv` provides; `Relink` carries
`ToVisit` through what `CutEasy`, `LeftmostCut` and `Replace` do: the nodes that
move are in the right subtree of the node the frame stands at, which has been visited. There is one lemma for each action or
group of actions, `...Effect`, then one for each call that returns (`InsertReturns` to
`DestroyReturned`), one for all steps that are not to be seen, and `Implements`. TLC
checks both invariants in `heap`.

### The tables

`HtPairProofs` proves of `HtPair`:

- `TypeCorrect`: `Spec => []TypeOK`
- `Consecutive`: `Spec => []BucketsInHashOrder`
- `EqualSound`: `Spec => []EqualIsSound`
- `EqualReflexive`: `Spec => []EqualToItself`
- `GroupsAgree`: `Spec => []GroupsMatchBuckets`

The assumptions are those of `HtFns`: hashes have `HASH_BITS` bits, and the functions of `avl/`
keep their contract; and that each `sizeexp` is one of `TableSizes`: at least 1, at most
`HASH_BITS`, and such that an int holds the number of buckets. The last is needed: `ht_equal` does not
test it (ht_equal.c:21, 25, 39, 50), and with a `sizeexp` of 32, say, its loops would not run
and it would answer 1 for any two tables of the same cardinality. In the same way a table has
at most `INT_MAX` elements, by the guard `HasRoom`: two cardinalities are compared as what
an `int` made of them.

`HtProofs` has one lemma for each function of `ht/`. `IsTable` says that a table has
`2^sizeexp` trees, each with hashes of its own bucket only; `Whereabouts` follows: an
element is in the table if and only if it is in the tree its hash leads to. The loops over the
buckets are induction on their number: `SumLoop` and `SumOfSizes` (the sum of the
sizes is the size of the union of disjoint sets), `Selects` with `JoinSelected` (the calls of
`procf` for one more bucket after those for the buckets before). The arithmetic of
`bucket_index` is in `Induction` (`Doubling`, `PowerOfSum`, `QuotientOfQuotient`): the bucket of a hash
in the smaller table is the quotient of that in the larger one by `2^(k - n)`. From this
`GroupsMatch` shows that the loops of `ht_equal` meet the right buckets, and `EqualHold` that one
inclusion and the equal cardinalities give equality. `EveryBucket` says that the loops of
`ht_equal`, whose counter is an int, meet every bucket; `Counts` that `ht_cardinality` is
the number of the elements of a table that has room; `StillRoom` that a call that adds no more than
there was room for leaves it so.

The inductive invariant `PairInv`: every table is one and can be counted (`Sorted`), and the last result of
`ht_equal` that is still there was right (`Told`). The second part is needed since
`equal` is remembered and not computed again.

### The sets

`RSetProofs` proves of `RSet`:

- `TypeCorrect`: `Spec => []TypeOK`
- `Implements`: `Spec => ImplementsSets`

The assumptions are those of the tables, `HT_INIT_POWER` being one of `TableSizes`, and that a
pointer to a set or to buckets is not `NULL`.

The refinement mapping takes a table to its contents. Its invariant `SetsInv` says that each
handle is `NULL` or a set with a configuration, whose buckets are `NULL` or a
table that can be counted (`Sound`). There is one lemma for each call (`NewStep` to `EqualStep`, and `CrashStep`), each
from the lemma about the function of `ht/` that the call is made of. The long one is
`SelectIntoStep`: `procf` inserts while the walk goes on, so `Copied` says what has become of
the destination after any part of the selection, and how the result tells it, and `CopyAll` carries it
through the loop, up to the first call that fails (`CopyFailed`).

### The filters

`BloomCommonProofs` proves of `BloomCommon`:

- `TypeCorrect`: `Spec => []TypeOK`
- `MasksExact`: `Spec => []MaskIsEveryOther`
- `NothingCarries`: `Spec => SumsDoNotOverflow`

The assumptions are the one of `Bloom` on the widths, that the width of a word is a power of
two, and that hashes are naturals. What a build makes of the undefined shift is any of its two
outcomes in each iteration.

`Worth(S)[n]` is the number that the lowest `n` bits of `S` make. A word and its number
determine each other (`WorthBits`), and a shift divides the number (`WorthShift`). `Masks` is
an induction over the repetitions in `erasure_mask`: after `n` of them every second int up
to some position is filled, and as the code repeats once more than it needs, it does not matter what
the last shift does. The type invariant and the masks are inductive together.

That nothing carries is where the code's comment is right: of two masked words, every
other int is cleared (`Cleared`), so that below the start of each int that is not, the two
numbers leave room for a carry (`Room`, by induction over the pairs of ints), and the lowest bits of
their sum are the sum of their lowest bits (`SumBelow`). `SumAt` takes the
difference of two such positions. In the last pair of ints there is no cleared int above; there
the shifted word has no bits, since `>>` brings in zeros, and the sum is the other word's.
`Halves` says which ints of `section` these are.

### Only model-checked

- The properties of `AvlTree`, the heights of its trees and `ImplementsTree`: the
  functions of `AvlFns` recurse over trees, and TLAPS proves nothing in a module that
  declares or reaches such an operator. What `ImplementsTree` says beyond
  `ImplementsSet` are the shapes of the trees and the stored heights. This is also why the
  contract of `HtFns` is an assumption: `AvlHeapProofs` proves, of the same functions in memory, what it
  says of the results and the elements of insertions, removals and lookups; the rest (the hashes of
  the nodes, `tree_select`, `tree_is_subset`) TLC checks for the trees of values.
- `CallsReturn` and `Returns`: liveness.
- `BoundedListInv` of `MCLinkedList` and `HeapInvNow` of `MCAvlHeap` are the inductive
  invariants of the proofs, in a form that TLC can evaluate.

## Not modelled

- `ll_equal` and the node cache: nothing calls them and they change nothing.
- Callbacks that remove from the set they are given from, and a `copyf` that
  returns `NULL`: the headers state no contract for them, so that there is nothing
  the code could keep or break.
- The walks of `avl_select`, `avl_cardinality` and `avl_is_subset` in memory: they
  only read, by the same recursion as the walks that are in `AvlHeap`; they are functions
  of trees in `AvlFns`.
- Overflow of the counters of lists and trees (`ll_count`, `node_cnt`) and of
  `1 << (height - 1)`: they are naturals. Tables too large for the ints of `ht_equal` and
  `ht_cardinality`: the ints are modelled, but `TableSizes` (an assumption) and `HasRoom` (a
  guard) exclude what would not fit.
- `sizeexp = 0`, for which `bucket_index` shifts by the full width: excluded by an
  assumption, since the library only passes 3.
- Debug output, attributes and macros.

## Plan

Every component with code of its own is modelled, and the promises of each of them are
proved, but for the shapes of trees. What remains are the heights and
the depth of `AvlHeap`. They need an invariant that relates the stale height of a node to
those of all nodes below it while a rotation is under way. In `AvlTree`, where TLC checks
it, it is a property of values.

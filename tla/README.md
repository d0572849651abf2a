# A TLA+ model of sexp

`sexp` is a Python extension written in Rust: it parses S-expressions into a
tree of nodes kept in a slab, and gives Python handles (`SExp`) and iterators
(`SExpIter`) into that tree.  The modules here model all of its own logic, from
the bytes that are parsed to the handles Python holds; TLC checks them on small
instances, and TLAPS proves the main results for every value of the constants.

## The system

| component | state | operations | used by |
|---|---|---|---|
| node slab, `memory/slab.rs` | `slots: Vec<Option<T>>`, `free: Vec<u32>` | insert, remove, get, len, index (panics) | tree |
| atom strings, `memory/atom.rs` | inline buffer or heap string | new, as_str | nodes, tokens |
| nodes and trees, `core/node.rs`, `core/tree.rs` | five links, kind and child count per node; root, version, bare flag, repr cache | alloc_atom, alloc_list, bump_version, links, cache | mutation, clone, parser, handles |
| tree mutation, `core/mutation.rs` | a stack, in `drop_subtree` | append, prepend, insert_after, remove | handles, clone |
| clone and extract, `core/clone.rs` | a stack | clone_subtree, extract_subtree | handles |
| core iterators, `core/iter.rs` | next link, or a stack | ChildIter; DepthFirstIter | handles; unit tests only |
| parser, tokenizer, errors, `parse/` | input position, stack of open lists, top-level forms | parse | parse function |
| serializer, `serialize/serializer.rs` | stack of frames | serialize_node | `__repr__` |
| handles, `py/sexp.rs` | shared tree, key, version snapshot | the Python methods | Python |
| child iterator, `py/iter.rs` | shared tree, next key, version | `__next__` | Python |
| sharing and equality, `py/shared.rs` | `UnsafeCell` under the GIL; a stack of pairs | get, get_mut, subtrees_equal | handles |

Python calls methods of handles; each takes the tree out of the shared
`GilTree`, compares the handle's version snapshot with the tree's version,
works on the slab through `core`, and, if it may write, renews its own snapshot
(`with_tree_mut`).  Nothing runs concurrently below a method, but between two
calls anything may have been done through other handles.  A failed assertion or
`expect` ends the process (`panic = "abort"` in the release profile).

What is hard about it:

- **Keys are reused and carry no generation.**  Whether an old handle reads a
  stranger depends on three places agreeing: every removal bumps the version,
  every call compares it, and only a handle whose node still lives is renewed.
- **The forest is doubly linked and counted.**  A move rewrites up to six
  nodes, several of which may be one and the same.  Every walk reads one
  direction and trusts the other, and `__getitem__` trusts the count.
- **Unattached trees.**  Nodes without a parent are not only fresh ones, which
  the cycle check takes for granted.
- **Walks with a stack.**  Writing, copying, comparing, dropping and
  depth-first iteration push children from one end so that they come off the
  stack from the other; dropping frees the nodes it walks over.
- **Two linkers.**  `link_child` of the parser is a second, shorter `append`,
  and everything else takes over what it leaves.
- **Bytes and characters.**  The tokenizer scans bytes and cuts a `str`; `Atom`
  trusts the cuts.
- **The repr cache** is valid by version while values change without one.
- **Iterators** hold a bare key between calls.

What makes each component correct: the slab never gives out a key in use and
finds each value under its key; the links agree, lead to live nodes, and never
close into a cycle; counts are exact; a move puts a node where it is asked to
and disturbs no other, and is refused just when it would close a cycle; removal
frees a subtree and no more,
and its steps are seen by nobody; a handle that is not stale names the node it
was made for; an iterator yields what there was when it was made, or raises;
`repr` shows the present; a clone equals its source and shares nothing with it;
equality is equality of texts; every source gets the tree or the error its
brackets mean; parsing and writing give the canonical source back, and end.

## The modules

| module | what it models |
|---|---|
| `Arena` | what the slab promises: a store of values under keys |
| `Slab` | `slab.rs`: the vector, the free list; `IsArena` states that it implements `Arena` |
| `Nodes` | a node table and the pointer surgery of `mutation.rs`, as operators from a table to a table |
| `Tree` | a tree under allocation, moves, removals and panics, with two specifications (below) |
| `Forest`, `TreeOrder` | a reference: the forest as a sequence of children per node, and the moves of `Tree` measured against it |
| `Handles` | Python handles and an iterator over `Tree` |
| `ReprCache` | `__repr__`, its cache and the value setter over `Tree` |
| `Atom`, `Tokenizer` | `atom.rs` and `tokenizer.rs`, as operators on sequences of bytes |
| `Parser` | `parser.rs`, one action per token, from bytes to a node table or an error |
| `Serializer`, `DepthFirst`, `Equality`, `Copy`, `Drop` | the five walks with a stack, each as a small state machine over a table |
| `Text` | a reference: text and preorder of a node, by recursion |
| `RoundTrip` | `Parser`, then `Serializer` on what it built: `repr(parse(source))` |
| `Queries` | what indexing, lookup by name, membership and `ChildIter` answer |
| `Calls` | the walks as calls on a changing `Tree`: `__repr__`, `__eq__`, `clone`, `remove`, `extract`, depth-first iteration |
| `MC...` | instances for TLC |
| `NodesProofs`, `WalkProofs` | proofs about operators on a table: what each writes and keeps; what is defined by recursion over its links |
| `SlabProofs`, `TreeProofs`, `HandlesProofs`, `ReprProofs`, `ParserProofs`, `CallsProofs` | the proofs of each component |

How they compose:

```
Slab ──implements──> Arena          (the promise Nodes rests on)
Nodes ──> Tree ──> Handles (with Queries)
                └─> ReprCache (with Text)
                └─> TreeOrder (with Queries, Forest)
                └─> Calls (with Queries, Serializer, DepthFirst, Equality, Copy, Drop, Text)
                      └─implements─> Tree
Atom, Tokenizer, Nodes ──> Parser ──> RoundTrip (with Serializer)
```

In `Nodes` a slot that is free is `Vacant` and any free slot may be taken by an
allocation: this is the promise of `Arena`, which `Slab` is shown to keep.  In
`Parser` and `Copy` the slab is new and never frees, so that its keys are
0, 1, 2, ... as `slab.rs` gives them out.

**Correspondence.**  `nodes[n]` is the `Node` under key `n`: `kind`, `parent`,
`first`, `last`, `prev`, `next`, `count` are its fields.  Each assignment of
`unlink`, `append`, `prepend` and `insert_after` is one update, in the order of
the code, so aliased arguments do what they do there.  `would_create_cycle` has
its fast path.  A method of `SExp` that writes is one action of `Handles`: guard
by staleness, the change in the tree, the version bump, and `Refreshed`, the end
of `with_tree_mut`.  A handle's `lost` and an iterator's `rest` are history
variables: they record whether the node has been freed, and what was there to be
yielded.  A method that raises changes nothing and has no action.

In a walk, `stack` is the code's vector and `cursor` the variable of its inner
loop; one step is one iteration of a loop.  In `Drop`, `current` is the node
popped last, which is freed when its children are pushed.  In `Copy`, a frame
pairs the node to copy with its parent in the copy.  In `Calls`, `op` and `arg`
say which method runs and on what; while one runs nothing else does.  `before`
is a history variable: the table as it was when a removal began.

In `Parser`, `remaining` is the tokenizer's suffix, `open` is `open_lists`, `top`
is `top_level`; each of `OpenList`, `AddAtom`, `CloseList` and `Finish` is one
turn of the loop (the last one with what follows it), and `outcome` is the
`Result`.  `Decode` is `from_utf8` of `parse_bytes`.

**Two kinds of callers.**  The code leaves two things to its callers and checks
neither: not to link an unattached list below its own descendant (`Movable`);
not to give `insert_after` the child as its own reference sibling.  `TreeSpec`
assumes both, and all results about links, the cache and the walks are for such
callers; they hold of a root that is moved, too, as `docs/guide.md` lets any node
be moved.  `OpenSpec` assumes neither, and the runs `cycle` and `self_sibling`
show what then happens.  Both assume what `docs/api.md` asks: the reference
sibling is a child of the receiver.  `OpenSpec` stops at the first cycle, beyond
which the code's own walks need not end.

**The root and handles.**  A root that has been moved below another node is freed
with that node, and a handle to the root is never stale: `root_freed` shows it of
`TreeSpec`.  So what `Handles` says of handles would be false of callers who move
the root, and `Moves` of that module assumes a third thing, that they do not
(`At(c) # root`).  No other module assumes it.

**Abstractions.**  In the modules over `Tree` an atom's text is a value; in
`Parser` it is the `Atom` with all its bytes.  Output is a sequence of marks
(brackets, spaces) and words (atoms).  The version, a `u64`, is bounded by
`MaxVersion`; keys are bounded, so the cast to `u32` does not wrap.  One tree,
one iterator.  `ReprCache` takes the `Text` of a node for what its `__repr__`
writes; `Calls` shows that this is what the frames bring out.  `Calls` leaves out
staleness, which is in `Handles`: a call starts at any live node; its `Repr` is
the part of `__repr__` that writes, the bare case and the cache being in
`ReprCache`.  Texts are those of `serialize_node`, so that a bare root and `()`
have the same text, and are equal, though `__repr__` shows them differently.

## What is checked

| run | shows | bounds |
|---|---|---|
| `tree` | `TypeOK`, `LinksAgree`, `WalksEnd`, `CountsAgree`, `CycleRefused`, `MovesAsLists`, `FreesSubtree` for callers that respect the two preconditions | 5 slots, lists only, 9 versions |
| `slab` | `FreeExact`, `Dense`, and `IsArena`: the slab implements the arena | 5 keys, 4 cells, 2 values |
| `handles` | `HandlesFaithful`, `IterFaithful`, `RemovalStalesAll` | 3 slots, 3 handles, 1 iterator, 3 versions |
| `repr` | `ReprFaithful` | 4 slots, 2 values, 3 versions |
| `round_trip` | `ParserLinks`, `OneRoot`, `CutsWhole`, `OutcomeMeant`, `SourceRestored`, and that it ends (`TripEnds`) | 4,102 sources (below), atoms inline up to 2 bytes |
| `calls` | `NoVacantRead`, `VisitsInOrder`, `WritesText`, `CopyFaithful`, `EqualMeansSame`, `IndexFinds`, `NameFinds`, `RemovesAtomically` | 5 slots, 2 values, 3 versions |
| `cycle` | violated: `ParentChainsEnd` | 4 slots |
| `self_sibling` | violated: `SiblingListsEnd` | 4 slots |
| `root_freed` | violated: `RootAlwaysValid` | 4 slots |
| `atom_children` | violated: `AtomsAreLeaves` | 4 slots |
| `removed_child` | violated: `RemovedRefused` | 3 slots, 3 handles |
| `moves_stale` | violated: `HandlesRemainValid` | 3 slots, 3 handles |

*Are the bounds enough?*  Five slots have a parent with three children and a
node to move among them (or one with a child of its own), so that every case of
`unlink` and of the three links meets first, middle, last and only children;
nine versions let every tree of five nodes be built and then changed again.
Moves and removals never look at the kind of a node, so all are lists there. For
handles, one removal, the reuse of its slot and a further move take three
versions; three handles are the receiver, the reference sibling and the child of
`insert_after`.  For the cache, three versions let the cached node be linked,
removed, and, after its slot has been taken, the new node be linked.  For the
walks, three versions make lists with up to three children, lists inside lists
with a sibling on either side, and lists beside unattached trees; two values
tell equal nodes from unequal ones.  The sources of `round_trip` are all of up
to five characters out of two brackets, a blank, a letter, and a letter of two
bytes; all of up to three bytes out of those characters' bytes, which need not
be UTF-8; lists around what lies on either side of the limits of UTF-8 (overlong
forms, surrogates, the last code point); and lists of two forms up to three
lists deep.  They hold every way of being wrong, alone and combined, and with a
buffer of two bytes atoms lie on either side of its capacity (in the code it is
15; `AtomKeepsText` is proved for all capacities).

Slots, values and handles are interchangeable, so symmetry is sound; every
property checked under it is an invariant or a property of single steps, or, for
`IsArena`, a safety property over values that are symmetric in both
specifications.  `round_trip`, the run with a liveness property, uses none.

Runs over a tree turn the deadlock check off: a behaviour ends at a panic, which
ends the process, and at the bound on versions.  `round_trip` ends when the
source is refused or written.

*Violated runs* state what a comment or a doc says; the findings, with the
quotations, are in `PROJECT.json`.  In short: the cycle check misses unattached
lists with children (after `l.append(m)`, `l[0].append(l)` links each below the
other); `insert_after(c, c)` makes a cycle; the root can be linked below an
unattached list and freed with it, by callers that respect both preconditions;
atoms can be given children; a removed child argument is not refused; and every
move makes all other handles stale where the docs say they remain valid.

*Refinements.*  `IsArena`: the slab implements the store.  `RemovesAtomically`:
`remove` and `extract` take a number of steps (copy, unlink, pop, push, free)
and are the one step `Remove` of `Tree`, taken when they return, under the
mapping that shows the table as it was until then.  This is what lets `Handles`
and `ReprCache` take removal for one action.

*Liveness.*  `TripEnds`: every source is refused or written back.  The fairness
is `WF_tripVars(TripNext)`: the thread that parses holds the GIL and waits for
nothing, so it goes on as long as it has a step to take.  The other components
do nothing unless they are called, and no caller has to call; that their
operations end is the safety property `WalksEnd`: there is no cycle to walk in.

## What is proved

For all constants that satisfy `NodesAssumption` (finitely many slots, the
three markers distinct), `TreeAssumption`, `SlabAssumption`, `AtomAssumption`
(the capacity fits a `u8`), `ParserAssumption` (the sources are bytes, and
there are keys for as many forms as they have bytes) and `CallsAssumption` (the
markers are no keys and no nodes of a copy either):

- `TreeProofs`: `TreeSpec` implies `[]TypeOK`, `[]LinksAgree`, `[]WalksEnd`,
  `[]CountsAgree`, `[]CycleRefused`, `FreesSubtree` and `[]MovesAsLists`.
- `SlabProofs`: `SlabSpec` implies `[]TypeOK`, `[]FreeExact`, `[]Dense` and
  `IsArena`.
- `HandlesProofs`: `HandlesSpec` implies `[]HandlesTypeOK`,
  `[]HandlesFaithful`, `[]IterFaithful` and `RemovalStalesAll`.
- `ReprProofs`: `ReprSpec` implies `[]ReprFaithful`.
- `ParserProofs`: `ParseSpec` implies `[]ParseTypeOK`, `[]ParserLinks`,
  `[]OneRoot` and `[]CutsWhole`; `TripSpec` implies `[]OutcomeMeant` and
  `[]SourceRestored`; `AsStr(New(s)) = s`
  and `IsUtf8(s) <=> IsText(s)` for all byte sequences.
- `CallsProofs`: `CallsSpec` implies `[]NoVacantRead`, `[]VisitsInOrder`,
  `[]WritesText`, `[]CopyFaithful`, `[]EqualMeansSame`, `[]IndexFinds`,
  `[]NameFinds`, `RemovesAtomically` and `Atomic!TreeSpec`: `Calls` implements
  `Tree`.

*Tree.*  The inductive invariant is `TypeOK` and `WellFormed(nodes)` together.
No part is inductive alone: linking `c` last needs the last child's own links to
be right; that sibling lists do not close needs the linked node to be detached;
the count needs the children to be those whose parent link says so.  The root
has no part in it: nothing the links promise depends on which node is the root.
`NodesProofs` has a lemma per operator on the fields it writes
(`LinkLastFields`, ...), then that each part of `WellFormed` is kept
(`MoveKeeps`, `RemoveKeeps`, `AllocKeeps`).  A chain ends is said without
counting: no nonempty set of nodes is closed under the link.  `WalkProperties`
and `FreedAreDescendants` identify what the walk meets, by `last` and `prev`,
with the descendants, by `parent`; `CycleCheckExact` follows, as
`would_create_cycle` goes up by `parent` and `drop_subtree` down by `last`.

*Recursion over a table.*  What a walk brings out is compared with data defined
by recursion over the links (`Text`, `Preorder`, `Onward`), as recursive
functions.  That such a function exists and is what its equation says is proved
in `WalkProofs` from the links alone: no nonempty set of nodes is closed under
going down to the first child and on to the next sibling (`DescentEnds`, by
counting: each node is reached that way from one node at most, and the way back
ends), so a partial solution on the largest set of nodes closed under the links
is a whole one (`LinkRecursion`).  The same lemma replaces induction everywhere
else: two functions that obey one equation are equal, since where they differ
there would be a node where they differ and both links lead to nodes where they
agree.

*Moves and lists.*  `MovesAsLists` compares a table after a move with the forest
of sequences.  The children of a node are a chain: a sequence from `first` on
along `next` that ends, and a table has one such chain (`OneChain`,
`ChainYielded`).  `TakenOut` and `PutIn` take a node out of a chain or put one in
when `next` changes at that place only; `UnlinkYields`, `LastYields`,
`FirstYields` and `AfterYields` say so for the code's assignments, and
`OthersYield` that the chains of all other parents are as before.

*Slab.*  `TypeOK`, `FreeExact`, `Dense` (the peak is counted on the cells in
use, so that a key that is lost shows as a Vec that grew beyond it) and
`SizeExact` (`len` is the number of live keys): an insertion may reuse the top
of the free list because the list holds vacant cells only, each once.  The
refinement maps `live` to the function from keys in use to their values.

*Handles.*  The root lives and has no parent (`RootStays`, from the assumption
that it is not moved), and every handle is `Fine`: if its node has been freed it
is of an older version and not to the root, otherwise its node lives; and an
iterator of the current version is at a live node.  The first part is what makes
`Refreshed` safe: the handle of a call has passed the staleness check, so its
node lives before the call; if the call freed it the version has moved on and
the handle has not.  For the iterator, the invariant adds that what it has to
yield, `rest`, is what `Onward` gives at its node as long as its version is that
of the tree: a step that changes any `next` bumps the version.

*The cache.*  A cached text of the current version is the text of its node
(`CacheFine`): every step of `Tree` that frees a node or changes a link bumps the
version, a new node changes no other node's text (`TextsSame`), and the value
setter, which does not bump it, clears the cache.

*Parser.*  `ParseInv` adds to the four properties that the keys in use are
0 .. k - 1 and no more than the bytes consumed (`Numbered`: the next key is
vacant and there is one), that the open lists live, and that the nodes without a
parent are those in `top` (`TopsAreRoots`), from which `OneRoot` follows when
one is left.  `LinkChildIsLinkLast`: on a node just made the parser's
`link_child` does what `append` does, so that the lemmas about moves carry over
(`FreshChild`).  For `CutsWhole`, `Cuts` shows that the bytes the tokenizer stops
at are no continuation bytes, and `BetweenCuts` that what lies between two such
places of a UTF-8 text is UTF-8.  `IsUtf8` is the check of `std::str::from_utf8`
by ranges of bytes, those of the second byte after E0, ED, F0 and F4 included.

*What a source means.*  Bytes are a text when they can be read as Unicode scalar
values, each in as many bytes as it needs: `IsText` computes the code points and
shares nothing with `IsUtf8`; `Utf8IsText` proves that the two agree on all
sequences of bytes.  Beyond that `OutcomeMeant` compares the outcome with a
count of the brackets over the whole source, of which the parser only ever sees
one token. `OutcomeInv` says how far it has read (`ReadTo`): up to here no count
of brackets was negative, as many lists are open as the count says, as many
forms are in `top` as begin where it is 0, and the place is not inside an atom.
`TokenPlaces` says which bytes of the source the next token takes, and
`BlanksRead`, `FormRead` and `CloseRead` what each kind does to the counts.  A
stray bracket is then a place where the count is negative, and at the end the
count and the number of forms decide (`MeaningFacts`).

*Writing what was read.*  `SourceRestored` compares what `serialize_node` writes
of the tree that was parsed with the canonical form of the source, which is
defined on its bytes alone: a token begins at every bracket and at every byte of
an atom that follows none, and `CanonicalTo(s)[p]` is what those among the first
`p` bytes add, with one space between any two except after `(` and before `)`.
The inductive invariant has a part for each half of the trip.

While the source is read, `SourceInv` says that what was read is what is built
(`Built`): the text of the first form, less one `)` for each open list, is spelt
as the canonical form of the bytes up to here (`Restores`).  For that to be
inductive it must also say where the text will grow and when a space comes
before: the open lists lead down from the root, each the last child of the one
before (`Spine`), and the innermost has no children just when the last token was
its `(`.  A node linked to the innermost open list changes the text of each node
on the spine and of no other, always in front of the brackets to come
(`GrowsOnSpine`, by the descent over the table that replaces induction, with the
place given by the number of brackets, `RightsCut`).  `TokenReads` says that the
token `NextToken` returns is the one that begins next by the definition on
bytes, and reaches as far.  So a form adds its token to both sides (`FormOnTop`,
`FormInside`), a `)` moves one bracket from what is to come to what was read
(`FormEnds`), and at the end no bracket is to come (`WholeRead`).  A second form
at the top makes no claim: the parser refuses it.

While the tree is written, `TripInv` is `WriteInv` of that tree, by the lemmas
that prove `WritesText`; at the end what is out is the text, which is spelt as
the canonical form.  The spelling is that of `as_str` on each atom (`Spelt`), and
this is where `AtomKeepsText` enters.

*Calls.*  While a call only reads, its stack and cursors hold live nodes
(`Reading`), as every link of a live node leads to one.  For `drop_subtree` that
is not enough: the nodes it holds must not be among those it has freed.
`DropInv(U, W, P)` says where the walk is: `U` is the table it began with, the
subtree `W` unlinked, and `P` the part of `W` still to be freed, the table being
`U` with the rest vacant.  The walker is at nodes of `P` and meets none twice
(`WalkerPlaced`); a pending node it has not met hangs below a pending node, and
one on the stack below the current node or below none (`FrontierClosed`); the
children of the current node are met from the last to the first (`FromLast`),
so that the next one cannot be on the stack already and, when the cursor is
`Null`, none was left out (`NoneLeftOut`).  So freeing the current node leaves
all its children on the stack, and an empty stack means that `P` is empty
(`DropEnds`): a pending node would have a pending parent, for ever.  With that
the table is `DropSubtree(Unlink(before, arg), arg)`, and `RootSpared` gives the
invariant of `Tree` back.

*What walks answer.*  Each walk has an invariant of the form "what is out,
followed by what the stack and the cursor still hold, is what is to come out":
`VisitInv` with the preorders of the pending nodes, `WriteInv` with the texts of
the frames, a frame whose bracket is still to be closed included.  For equality
(`SameSoFar`) it is: the texts of the two nodes are equal just when those of all
pending pairs are, which needs that texts can be read in one way only
(`ClosedTexts`, `AllRead`: a text closes as many brackets as it opens, and no
proper beginning of it does).  Indices and names are about the chain of children
(an index of `len` or of `-len - 1` is refused, for the empty list too): `count`
is its length (`YieldedCount`), the two ways of stepping to an index meet
(`ItemFound`), and the first word of a text is that of the node or of its first
child (`NameInText`).

*Copies.*  `CopyInv` says that keys 0 .. m - 1 of the copy stand for nodes of the
source, each for one, with the same links among them (`CopyMaps`), and that the
stack holds exactly what is missing: of each parent in the copy the last pair is
what is to be copied next there (`Rest`), each pair below it the next sibling, and
no parent has something missing without a pair (`CopyPending`).  From that
follows that the new node has not been copied before (`RestUncopied`), since its
siblings or ancestors would close a cycle otherwise, so that the keys never run
out, and that an append to the copy is an append of a fresh node (`FreshLast`).
With nothing pending, first children and next siblings of the copy stand for
those of the source, and the texts are equal (`CopyEnds`).  The lemmas about
tables are used for the copy's through a second instance of them, whose slots are
its keys.

*Only model-checked*: `TripEnds`, a liveness property under fairness, which is
out of the prover's reach.  Every invariant and every action property of a
passing run is a theorem.

## Plan

1. `Arena`, `Slab`, `Nodes`, `Tree`, `Handles`, `ReprCache` with their runs and
   proofs (done).
2. The order of children, `Forest` and `TreeOrder` (done).
3. `Atom`, `Tokenizer`, `Parser`, with proofs (done), and `RoundTrip` (done).
4. The walks and `Calls`, with removal as a refinement of `Tree` and its proofs
   (done).
5. Proofs of what the walks, the iterator, the cache and the moves answer
   (done).
6. The proofs that the parser gives each source the outcome it means, and that
   writing what was read restores the source (done).
7. Open: `Handles` with the second tree of `assert_same_tree`.

## Not modelled

- A second tree: `assert_same_tree` raises before anything is done with a handle
  to another tree, and `__eq__` across trees runs the same walk on two tables
  (`Equality` has one for each side; the run gives both the same).
- `clone` of a root: it is the derived `Clone` of the whole `Tree`, copying the
  slab, the free list, the version and the cache field by field.
- What Python objects add: slices (they go through a Python list), the
  `TypeError`s for arguments of other types, the exception class, wording of
  errors, registration of the module, type stubs.
- Capacity hints of vectors, which change no result.
- The GIL is an assumption: a method is one step for all others.  PyO3 0.28 takes
  a module to support free-threaded Python unless it declares otherwise, and
  `lib.rs` declares nothing; on such a build the assumption does not hold.
- `DepthFirstIter` is modelled in `Calls` as if it were called like the rest, but
  only unit tests use it.
- Benchmarks and CI.

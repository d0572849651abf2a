-------------------------------- MODULE Tree --------------------------------
(***************************************************************************)
(* A tree under the operations of core/tree.rs and core/mutation.rs, as    *)
(* the methods of SExp call them on live nodes.  Any node may be moved,    *)
(* the root included, as docs/guide.md says.                               *)
(*                                                                         *)
(* Two preconditions are the caller's and the code does not check them;    *)
(* TreeSpec assumes them, OpenSpec does not:                               *)
(*   - an unattached node is not linked below one of its own descendants;  *)
(*   - the reference sibling of insert_after is not the inserted child.    *)
(* Both assume, as docs/api.md asks, that the reference sibling is a child *)
(* of the parent.                                                          *)
(***************************************************************************)
EXTENDS Nodes

CONSTANT MaxVersion    \* bound on the version counter (a u64 in the code)

ASSUME TreeAssumption == MaxVersion \in Nat

VARIABLES nodes,     \* the slab of nodes
          root,      \* key of the root
          version,   \* staleness version
          status     \* "running", or "aborted": a panic ends the process

treeVars == <<nodes, root, version, status>>

(***************************************************************************)
(* Tree::new and new_bare have a list as root; the parser and the cloning  *)
(* of an atom make trees whose root is an atom.                            *)
(***************************************************************************)
TreeInit ==
  /\ root \in Slots
  /\ \E k \in Kinds :
       nodes = [n \in Slots |-> IF n = root THEN NewNode(k) ELSE Vacant]
  /\ version = 0
  /\ status = "running"

(***************************************************************************)
(* alloc_atom and alloc_list: a new unattached node of kind k.             *)
(***************************************************************************)
Alloc(n, k) ==
  /\ status = "running"
  /\ nodes[n] = Vacant
  /\ nodes' = Allocate(nodes, n, k)
  /\ UNCHANGED <<root, version, status>>

(***************************************************************************)
(* Mistake: insert_after(None) bumps again after prepend has.              *)
(***************************************************************************)
RestructureTwice(N) ==
  /\ version < MaxVersion
  /\ nodes' = N
  /\ version' = version + 2
  /\ UNCHANGED <<root, status>>

(***************************************************************************)
(* The node table is replaced and bump_version called.                     *)
(***************************************************************************)
Restructure(N) ==
  /\ version < MaxVersion
  /\ nodes' = N
  /\ version' = version + 1
  /\ UNCHANGED <<root, status>>

\* Mistake: a move does not bump the version.
AppendQuietly(p, c) ==
  /\ status = "running"
  /\ ~ WouldCreateCycle(nodes, p, c)
  /\ nodes' = LinkLast(Detach(nodes, c), p, c)
  /\ UNCHANGED <<root, version, status>>

\* append; the name Append belongs to Sequences.
AppendChild(p, c) ==
  /\ status = "running"
  /\ ~ WouldCreateCycle(nodes, p, c)
  /\ Restructure(LinkLast(Detach(nodes, c), p, c))

Prepend(p, c) ==
  /\ status = "running"
  /\ ~ WouldCreateCycle(nodes, p, c)
  /\ Restructure(LinkFirst(Detach(nodes, c), p, c))

(***************************************************************************)
(* insert_after with a sibling; with None it is Prepend.                   *)
(***************************************************************************)
InsertAfter(p, a, c) ==
  /\ status = "running"
  /\ ~ WouldCreateCycle(nodes, p, c)
  /\ Restructure(LinkAfter(Detach(nodes, c), p, a, c))

(***************************************************************************)
(* The assertion that opens the three functions fails: the process aborts  *)
(* before anything is written.                                             *)
(***************************************************************************)
CyclePanic(p, c) ==
  /\ status = "running"
  /\ WouldCreateCycle(nodes, p, c)
  /\ status' = "aborted"
  /\ UNCHANGED <<nodes, root, version>>

\* Mistake: the caller of mutation::remove does not bump the version.
RemoveQuietly(n) ==
  /\ status = "running"
  /\ n # root
  /\ nodes' = DropSubtree(Unlink(nodes, n), n)
  /\ UNCHANGED <<root, version, status>>

(***************************************************************************)
(* SExp.remove, and the part of SExp.extract that changes this tree: the   *)
(* root is refused, the subtree unlinked and dropped, the version bumped.  *)
(***************************************************************************)
Remove(n) ==
  /\ status = "running"
  /\ n # root
  /\ Restructure(DropSubtree(Unlink(nodes, n), n))

(***************************************************************************)
(* The caller's part of a move: what the fast path of would_create_cycle   *)
(* does not look at.                                                       *)
(***************************************************************************)
Movable(p, c) == nodes[c].parent = Null /\ c # p => c \notin Ancestors(nodes, p)

Create == \E n \in Slots, k \in Kinds : Alloc(n, k)

TreeNext ==
  \/ Create
  \/ \E p, c \in Live(nodes) :
       \/ Movable(p, c) /\ AppendChild(p, c)
       \/ Movable(p, c) /\ Prepend(p, c)
       \/ \E a \in Children(nodes, p) \ {c} :
            Movable(p, c) /\ InsertAfter(p, a, c)
       \/ CyclePanic(p, c)
  \/ \E n \in Live(nodes) : Remove(n)

TreeSpec == TreeInit /\ [][TreeNext]_treeVars

(***************************************************************************)
(* Callers that respect neither precondition.                              *)
(***************************************************************************)
OpenStep ==
  \/ Create
  \/ \E p, c \in Live(nodes) :
       \/ AppendChild(p, c)
       \/ Prepend(p, c)
       \/ \E a \in Children(nodes, p) : InsertAfter(p, a, c)
       \/ CyclePanic(p, c)
  \/ \E n \in Live(nodes) : Remove(n)

\* After a first cycle the walks of the code need not end: the model stops.
OpenNext == IF NoParentCycle(nodes) /\ NoSiblingCycle(nodes) THEN OpenStep ELSE FALSE

OpenSpec == TreeInit /\ [][OpenNext]_treeVars
-----------------------------------------------------------------------------
TypeOK ==
  /\ nodes \in Table
  /\ root \in Slots
  /\ version \in 0 .. MaxVersion
  /\ status \in {"running", "aborted"}

(***************************************************************************)
(* The links of every node agree with those of its parent and siblings,    *)
(* and none leads to a freed slot.  Every walk of the code (ChildIter,     *)
(* drop_subtree, the serializer, clone_into) reads one direction only, and *)
(* every edit of mutation.rs writes both.                                  *)
(***************************************************************************)
LinksAgree == LinksOK(nodes)

(***************************************************************************)
(* Neither sibling lists nor parent chains close on themselves, so that    *)
(* would_create_cycle and the walks over children end.                     *)
(***************************************************************************)
WalksEnd == NoParentCycle(nodes) /\ NoSiblingCycle(nodes)

(***************************************************************************)
(* child_count is the number of nodes whose parent link names the node.    *)
(* __getitem__ relies on it ("child_count was consistent") and aborts the  *)
(* process otherwise.                                                      *)
(***************************************************************************)
CountsAgree == CountOK(nodes)

(***************************************************************************)
(* would_create_cycle, which follows the parent links upwards, answers     *)
(* what the walk of drop_subtree down last_child and prev_sibling says: it *)
(* refuses no move to a place outside the subtree of c, which would end    *)
(* the process for nothing, and lets no move into that subtree through     *)
(* when c is attached or has no children.                                  *)
(***************************************************************************)
CycleRefused ==
  \A p, c \in Live(nodes) :
    LET below == p \in Walk(Unlink(nodes, c), c)
    IN  /\ WouldCreateCycle(nodes, p, c) => below
        /\ below /\ (nodes[c].parent # Null \/ nodes[c].first = Null) =>
             WouldCreateCycle(nodes, p, c)

(***************************************************************************)
(* What a step frees is a node that is not the root and all that hangs     *)
(* below it, by the parent links: the walk of drop_subtree, which follows  *)
(* last_child and prev_sibling, misses no descendant and takes nothing     *)
(* else.                                                                   *)
(***************************************************************************)
Frees ==
  LET freed == Live(nodes) \ Live(nodes')
  IN  freed # {} =>
        \E n \in freed \ {root} :
          freed = {m \in Live(nodes) : n \in Ancestors(nodes, m)}

FreesSubtree == [][Frees]_treeVars
-----------------------------------------------------------------------------
(***************************************************************************)
(* Claims of the comments and docs that the code does not live up to.      *)
(*                                                                         *)
(* would_create_cycle finds every link that would create a cycle, so that  *)
(* no parent chain closes on itself.                                       *)
(***************************************************************************)
ParentChainsEnd == NoParentCycle(nodes)

(***************************************************************************)
(* insert_after puts the child after its reference sibling within the same *)
(* parent, so that no sibling list closes on itself.                       *)
(***************************************************************************)
SiblingListsEnd == NoSiblingCycle(nodes)

(***************************************************************************)
(* The root node is always valid: no call frees its slot.                  *)
(***************************************************************************)
RootAlwaysValid == nodes[root] # Vacant

(***************************************************************************)
(* The len of an atom, its child_count, is always 0.                       *)
(***************************************************************************)
AtomsAreLeaves ==
  \A n \in Live(nodes) : nodes[n].kind # List => nodes[n].count = 0
=============================================================================

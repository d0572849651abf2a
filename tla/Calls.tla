-------------------------------- MODULE Calls --------------------------------
(***************************************************************************)
(* The methods that walk over a whole subtree, step by step, on a tree     *)
(* that changes as in Tree.tla between them: __repr__, __eq__, clone,      *)
(* remove and extract, and DepthFirstIter.                                 *)
(*                                                                         *)
(* The caller holds the GIL until the method returns, so that one call     *)
(* runs at a time and no other change falls into it.  Staleness is in      *)
(* Handles.tla: a call starts at any live node.                            *)
(***************************************************************************)
EXTENDS Tree, Queries, Text

VARIABLES op,        \* the call under way, or "none"
          arg,       \* the node it was made on; for "equal", both nodes
          stack, cursor, current, child, out, copy,   \* of the walks
          before     \* history: the table when a removal began

walkVars == <<stack, cursor, current, child, out, copy>>

callVars == <<treeVars, op, arg, walkVars, before>>

Writer == INSTANCE Serializer
Visitor == INSTANCE DepthFirst
Compare == INSTANCE Equality WITH lefts <- nodes, rights <- nodes,
                                  lc <- cursor, rc <- current, equal <- out
Copier == INSTANCE Copy
Dropper == INSTANCE Drop
CopyRef == INSTANCE Text WITH Slots <- Copier!CopyKeys

\* The markers are no keys or nodes of a copy either.
ASSUME CallsAssumption == Null \notin Copier!CopyKeys /\ Vacant \notin Copier!D!Node

Resting == stack = <<>> /\ cursor = Null /\ current = Null /\ child = Null
             /\ out = Null /\ copy = Null

CallsInit == TreeInit /\ op = "none" /\ arg = Null /\ Resting /\ before = Null

Idle == op = "none" /\ status = "running"

\* The calls of Tree.tla that are one step here too.
Between ==
  /\ Idle
  /\ TreeNext
  /\ Live(nodes) \subseteq Live(nodes')
  /\ UNCHANGED <<op, arg, walkVars, before>>

Return ==
  /\ op' = "none" /\ arg' = Null /\ before' = Null
  /\ stack' = <<>> /\ cursor' = Null /\ current' = Null /\ child' = Null
  /\ out' = Null /\ copy' = Null

\* The part of __repr__ that writes; the bare case and the cache are in
\* ReprCache.tla.
Repr(n) ==
  /\ Idle
  /\ op' = "repr" /\ arg' = n
  /\ Writer!Begin(n)
  /\ UNCHANGED <<treeVars, current, child, copy, before>>

Visit(n) ==
  /\ Idle
  /\ op' = "visit" /\ arg' = n
  /\ Visitor!Begin(n)
  /\ UNCHANGED <<treeVars, current, child, copy, before>>

Equal(l, r) ==
  /\ Idle
  /\ op' = "equal" /\ arg' = <<l, r>>
  /\ Compare!Begin(l, r)
  /\ UNCHANGED <<treeVars, child, copy, before>>

Clone(n) ==
  /\ Idle /\ n # root
  /\ op' = "clone" /\ arg' = n
  /\ Copier!Begin(n)
  /\ UNCHANGED <<treeVars, out, before>>

(***************************************************************************)
(* mutation::remove: the node is unlinked, then the subtree dropped; the   *)
(* version is bumped when that is done.                                    *)
(***************************************************************************)
\* Mistake: the subtree is dropped while it still hangs in the tree.
DetachLeavesLinked(n) ==
  /\ n # root
  /\ op' = "drop" /\ arg' = n /\ before' = nodes
  /\ UNCHANGED <<nodes, root, version, status>>
  /\ Dropper!Begin(n)

DetachToDrop(n) ==
  /\ n # root
  /\ op' = "drop" /\ arg' = n /\ before' = nodes
  /\ nodes' = Unlink(nodes, n)
  /\ UNCHANGED <<root, version, status>>
  /\ Dropper!Begin(n)

StartRemove(n) ==
  /\ Idle /\ version < MaxVersion
  /\ DetachToDrop(n)
  /\ UNCHANGED <<child, out, copy>>

\* extract: a copy first, then as remove.
StartExtract(n) ==
  /\ Idle /\ version < MaxVersion /\ n # root
  /\ op' = "extract" /\ arg' = n
  /\ Copier!Begin(n)
  /\ UNCHANGED <<treeVars, out, before>>

ExtractCopied ==
  /\ op = "extract" /\ Copier!Done
  /\ DetachToDrop(arg)
  /\ UNCHANGED <<child, out, copy>>

Dropped ==
  /\ op = "drop" /\ Dropper!Done
  /\ Restructure(nodes)
  /\ Return

Walked ==
  /\ \/ op = "repr" /\ Writer!Done
     \/ op = "visit" /\ Visitor!Done
     \/ op = "equal" /\ Compare!Done
     \/ op = "clone" /\ Copier!Done
  /\ Return
  /\ UNCHANGED treeVars

WalkStep ==
  \/ op = "repr" /\ Writer!WriteStep /\ UNCHANGED <<treeVars, current, child, copy>>
  \/ op = "visit" /\ Visitor!VisitStep /\ UNCHANGED <<treeVars, current, child, copy>>
  \/ op = "equal" /\ Compare!EqualStep /\ UNCHANGED <<treeVars, child, copy>>
  \/ op \in {"clone", "extract"} /\ Copier!CopyStep /\ UNCHANGED <<treeVars, out>>
  \/ op = "drop" /\ Dropper!DropStep /\ UNCHANGED <<root, version, status, child, out, copy>>

CallsNext ==
  \/ Between
  \/ \E n \in Live(nodes) :
       \/ Repr(n) \/ Visit(n) \/ Clone(n) \/ StartRemove(n) \/ StartExtract(n)
       \/ \E m \in Live(nodes) : Equal(n, m)
  \/ WalkStep /\ UNCHANGED <<op, arg, before>>
  \/ ExtractCopied
  \/ Dropped
  \/ Walked

CallsSpec == CallsInit /\ [][CallsNext]_callVars
-----------------------------------------------------------------------------
(***************************************************************************)
(* A walk never holds the key of a freed node, not even while it is        *)
(* dropping the nodes it walks over: reading one is a panic.               *)
(***************************************************************************)
Held ==
  LET tops == {stack[i] : i \in DOMAIN stack}
  IN  CASE op = "none" -> {}
        [] op = "repr" -> {f.node : f \in tops} \union {cursor}
        [] op \in {"visit", "drop"} -> tops \union {cursor}
        [] op = "equal" -> {p[i] : p \in tops, i \in {1, 2}} \union {cursor, current}
        [] op \in {"clone", "extract"} -> {p[1] : p \in tops} \union {cursor, child}

NoVacantRead == Held \subseteq Live(nodes) \union {Null}

(***************************************************************************)
(* The stack of DepthFirstIter brings out every node of the subtree once,  *)
(* parents before children and siblings in their order.                    *)
(***************************************************************************)
VisitsInOrder == op = "visit" /\ Visitor!Done => out = Preorder(nodes, arg)

(***************************************************************************)
(* The frames of the serializer bring out the text of the subtree: every   *)
(* bracket is closed, and spaces stand between siblings only.              *)
(***************************************************************************)
WritesText == op = "repr" /\ Writer!Done => out = Text(nodes, arg)

(***************************************************************************)
(* A copy is a well-formed tree with one root, and its text is that of     *)
(* what was copied.                                                        *)
(***************************************************************************)
CopyFaithful ==
  op \in {"clone", "extract"} /\ Copier!Done =>
    /\ Copier!D!WellFormed(copy)
    /\ {k \in Copier!D!Live(copy) : copy[k].parent = Null} = {Copier!CopyRoot}
    /\ CopyRef!Text(copy, Copier!CopyRoot) = Text(nodes, arg)

(***************************************************************************)
(* Nodes are equal just when their texts are, as serialize_node writes     *)
(* them: repr may differ, for the bare root of parse("") shows nothing and *)
(* is equal to an empty list.                                              *)
(***************************************************************************)
EqualMeansSame ==
  op = "equal" /\ Compare!Done =>
    (out <=> Text(nodes, arg[1]) = Text(nodes, arg[2]))

(***************************************************************************)
(* remove and extract, for all their steps, are the one step they are in   *)
(* Tree.tla: until they return the tree counts as untouched, and no other  *)
(* call changes it.  As Between takes the steps of TreeNext, Calls         *)
(* implements Tree.                                                        *)
(***************************************************************************)
Atomic == INSTANCE Tree WITH nodes <- IF op = "drop" THEN before ELSE nodes

RemovesAtomically ==
  [][op # "none" \/ op' # "none" =>
       UNCHANGED Atomic!treeVars \/ Atomic!Remove(arg)]_callVars

(***************************************************************************)
(* The indices from -len to len - 1 find the children, each twice, in the  *)
(* order of their links; the next on either side are an IndexError, in an  *)
(* empty list too, and never reach the expect.  Membership by handle       *)
(* agrees with the parent of the handle's node.                            *)
(***************************************************************************)
IndexFinds ==
  Idle => \A n \in Live(nodes) :
    LET len   == nodes[n].count
        item(i) == GetItem(nodes, n, i)
    IN  /\ {item(i) : i \in 0 .. len - 1} = Children(nodes, n)
        /\ \A i \in 1 .. len - 1 : nodes[item(i)].prev = item(i - 1)
        /\ \A i \in 1 .. len : item(- i) = item(len - i)
        /\ item(len) = Vacant /\ item(- len - 1) = Vacant
        /\ \A m \in Live(nodes) : ContainsNode(nodes, n, m) <=> nodes[m].parent = n

(***************************************************************************)
(* A name finds the first child whose text is that name or a list that     *)
(* starts with it, whenever no child is an atom with children.             *)
(***************************************************************************)
Named(c, v) ==
  LET t == Text(nodes, c)
  IN  Word(v) = IF t[1] = Mark("(") THEN t[2] ELSE t[1]

NameFinds ==
  Idle => \A n \in Live(nodes), v \in Values :
    (\A c \in Children(nodes, n) : nodes[c].kind # List => nodes[c].first = Null) =>
      LET f == FindName(nodes, n, v)
      IN  IF f = Null THEN \A c \in Children(nodes, n) : ~ Named(c, v)
          ELSE /\ f \in Children(nodes, n) /\ Named(f, v)
               /\ \A i \in 0 .. nodes[n].count - 1 :
                    Named(GetItem(nodes, n, i), v) =>
                      \E j \in 0 .. i : GetItem(nodes, n, j) = f
=============================================================================

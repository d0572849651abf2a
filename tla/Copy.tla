-------------------------------- MODULE Copy --------------------------------
(***************************************************************************)
(* clone_subtree of a node other than the root (core/clone.rs): the        *)
(* subtree is copied to a tree of its own, whose slab gives out 0, 1, ...  *)
(* (The clone of the root is the derived Clone of the whole Tree.)         *)
(***************************************************************************)
EXTENDS Nodes, Sequences

VARIABLES nodes,     \* the source, which is only read
          stack,     \* of pairs: a node to copy, and its parent in the copy
          cursor,    \* the child that is pushed next, or Null
          current,   \* the node made last, in the copy
          child,     \* the child of the cloned node whose turn is next, or Null
          copy       \* the nodes of the destination

CopyKeys == 0 .. Cardinality(Slots) - 1

D == INSTANCE Nodes WITH Slots <- CopyKeys

CopyRoot == 0

NextKey == Cardinality(D!Live(copy))

\* The copy of an atom is one atom, whatever hangs below it.
Begin(n) ==
  /\ copy' = D!Allocate([k \in CopyKeys |-> Vacant], CopyRoot, nodes[n].kind)
  /\ child' = IF nodes[n].kind = List THEN nodes[n].first ELSE Null
  /\ stack' = <<>> /\ cursor' = Null /\ current' = CopyRoot

NextChild ==
  /\ cursor = Null /\ stack = <<>> /\ child # Null
  /\ stack' = << <<child, CopyRoot>> >>
  /\ child' = nodes[child].next
  /\ UNCHANGED <<cursor, current, copy>>

(***************************************************************************)
(* clone_into: a new node without parent, so that the check of append for  *)
(* a cycle lets it through.                                                *)
(***************************************************************************)
CopyNode ==
  LET src == stack[Len(stack)][1]
      dst == stack[Len(stack)][2]
  IN  /\ cursor = Null /\ stack # <<>>
      /\ copy' = D!LinkLast(D!Allocate(copy, NextKey, nodes[src].kind), dst, NextKey)
      /\ current' = NextKey
      /\ cursor' = nodes[src].last
      /\ stack' = SubSeq(stack, 1, Len(stack) - 1)
      /\ UNCHANGED child

\* Mistake: the new node's parent is passed on instead of the new node.
PushChildFlat ==
  /\ cursor # Null
  /\ stack' = Append(stack, <<cursor, copy[current].parent>>)
  /\ cursor' = nodes[cursor].prev
  /\ UNCHANGED <<current, child, copy>>

PushChild ==
  /\ cursor # Null
  /\ stack' = Append(stack, <<cursor, current>>)
  /\ cursor' = nodes[cursor].prev
  /\ UNCHANGED <<current, child, copy>>

CopyStep == NextChild \/ CopyNode \/ PushChild

Done == stack = <<>> /\ cursor = Null /\ child = Null
=============================================================================

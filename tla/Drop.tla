-------------------------------- MODULE Drop --------------------------------
(***************************************************************************)
(* drop_subtree (core/mutation.rs): the nodes of a subtree are freed one   *)
(* by one, while the rest of it is still being walked.                     *)
(***************************************************************************)
EXTENDS Nodes, Sequences

VARIABLES nodes, stack,
          cursor,    \* the child that is pushed next, or Null
          current    \* the node popped last, until it is freed

Top    == stack[Len(stack)]
Popped == SubSeq(stack, 1, Len(stack) - 1)

Begin(n) == stack' = <<n>> /\ cursor' = Null /\ current' = Null

\* Mistake: the node is looked at and left on the stack.
TakePeeks ==
  /\ cursor = Null /\ current = Null /\ stack # <<>>
  /\ current' = Top
  /\ cursor' = nodes[Top].last
  /\ UNCHANGED <<nodes, stack>>

Take ==
  /\ cursor = Null /\ current = Null /\ stack # <<>>
  /\ current' = Top
  /\ stack' = Popped
  /\ cursor' = nodes[Top].last
  /\ UNCHANGED nodes

\* Mistake: only the last child is pushed.
PushLastOnly ==
  /\ cursor # Null
  /\ stack' = Append(stack, cursor)
  /\ cursor' = Null
  /\ UNCHANGED <<nodes, current>>

PushChild ==
  /\ cursor # Null
  /\ stack' = Append(stack, cursor)
  /\ cursor' = nodes[cursor].prev
  /\ UNCHANGED <<nodes, current>>

Free ==
  /\ cursor = Null /\ current # Null
  /\ nodes' = [nodes EXCEPT ![current] = Vacant]
  /\ current' = Null
  /\ UNCHANGED <<stack, cursor>>

DropStep == Take \/ PushChild \/ Free

Done == stack = <<>> /\ cursor = Null /\ current = Null
=============================================================================

----------------------------- MODULE DepthFirst -----------------------------
(***************************************************************************)
(* DepthFirstIter (core/iter.rs), run to its end.  It borrows the tree, so *)
(* that nothing changes between two calls of next.                         *)
(***************************************************************************)
EXTENDS Nodes, Sequences

VARIABLES nodes, stack,
          cursor,    \* the child that is pushed next, or Null
          out        \* the nodes yielded so far

Begin(n) == stack' = <<n>> /\ cursor' = Null /\ out' = <<>>

\* Mistake: the walk over the children starts at the wrong end.
YieldFromFirst ==
  /\ cursor = Null /\ stack # <<>>
  /\ out' = Append(out, stack[Len(stack)])
  /\ cursor' = nodes[stack[Len(stack)]].first
  /\ stack' = SubSeq(stack, 1, Len(stack) - 1)

Yield ==
  /\ cursor = Null /\ stack # <<>>
  /\ out' = Append(out, stack[Len(stack)])
  /\ cursor' = nodes[stack[Len(stack)]].last
  /\ stack' = SubSeq(stack, 1, Len(stack) - 1)

PushChild ==
  /\ cursor # Null
  /\ stack' = Append(stack, cursor)
  /\ cursor' = nodes[cursor].prev
  /\ UNCHANGED out

VisitStep == Yield \/ PushChild

Done == stack = <<>> /\ cursor = Null
=============================================================================

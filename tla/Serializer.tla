----------------------------- MODULE Serializer -----------------------------
(***************************************************************************)
(* write_node (serialize/serializer.rs): a node is written with a stack of *)
(* frames.  A frame is a node still to be written, after a space or not,   *)
(* or the closing bracket of a list; the latter also names the list, which *)
(* the code does not need.  The output is a sequence of marks and words.   *)
(***************************************************************************)
EXTENDS Text

VARIABLES nodes,
          stack,     \* of frames
          cursor,    \* the child whose frame is pushed next, or Null
          out        \* what has been written

Frame(n, s) == [node |-> n, space |-> s, close |-> FALSE]
Close(n)    == [node |-> n, space |-> FALSE, close |-> TRUE]

Top    == stack[Len(stack)]
Popped == SubSeq(stack, 1, Len(stack) - 1)

Begin(n) ==
  /\ stack' = <<Frame(n, FALSE)>>
  /\ cursor' = Null
  /\ out' = <<>>

\* The next frame is popped only when all children of the last list are pushed.
Pops == cursor = Null /\ stack # <<>>

After(space, symbol) == out \o (IF space THEN <<Mark(" ")>> ELSE <<>>) \o <<symbol>>

\* Mistake: a space before every child.
PushChildSpaced ==
  /\ cursor # Null
  /\ stack' = Append(stack, Frame(cursor, TRUE))
  /\ cursor' = nodes[cursor].prev
  /\ UNCHANGED out

(***************************************************************************)
(* The children go on the stack from the last to the first; all but the    *)
(* first are preceded by a space.                                          *)
(***************************************************************************)
PushChild ==
  /\ cursor # Null
  /\ stack' = Append(stack, Frame(cursor, nodes[cursor].prev # Null))
  /\ cursor' = nodes[cursor].prev
  /\ UNCHANGED out

WriteAtom ==
  /\ Pops /\ ~ Top.close
  /\ nodes[Top.node].kind # List
  /\ out' = After(Top.space, Word(nodes[Top.node].kind))
  /\ stack' = Popped
  /\ UNCHANGED cursor

OpenBracket ==
  /\ Pops /\ ~ Top.close
  /\ nodes[Top.node].kind = List
  /\ out' = After(Top.space, Mark("("))
  /\ stack' = Append(Popped, Close(Top.node))
  /\ cursor' = nodes[Top.node].last

CloseBracket ==
  /\ Pops /\ Top.close
  /\ out' = Append(out, Mark(")"))
  /\ stack' = Popped
  /\ UNCHANGED cursor

WriteStep == PushChild \/ WriteAtom \/ OpenBracket \/ CloseBracket

Done == stack = <<>> /\ cursor = Null
=============================================================================

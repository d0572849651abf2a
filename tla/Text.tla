-------------------------------- MODULE Text --------------------------------
(***************************************************************************)
(* The text of a node as serialize_node is to write it, in marks and       *)
(* words: the reference for what walks over a table.  The children of an   *)
(* atom, if it has any, are not part of it.                                *)
(***************************************************************************)
EXTENDS Nodes, Sequences

Mark(m) == [mark |-> m]
Word(v) == [word |-> v]

\* A node as it is written, when inner is what its children write as.
Written(N, n, inner) ==
  IF N[n].kind # List THEN <<Word(N[n].kind)>>
                      ELSE <<Mark("(")>> \o inner \o <<Mark(")")>>

\* The texts of a node and its next siblings, one space between any two.
Texts(N) ==
  LET t[n \in Live(N) \union {Null}] ==
        IF n = Null THEN <<>>
        ELSE Written(N, n, t[N[n].first])
             \o (IF N[n].next = Null THEN <<>> ELSE <<Mark(" ")>> \o t[N[n].next])
  IN  t

Text(N, n) == Written(N, n, Texts(N)[N[n].first])

\* A node and its next siblings with all below them, each node before its
\* children and they in order.
Below(N) ==
  LET b[n \in Live(N) \union {Null}] ==
        IF n = Null THEN <<>> ELSE <<n>> \o b[N[n].first] \o b[N[n].next]
  IN  b

Preorder(N, n) == <<n>> \o Below(N)[N[n].first]
=============================================================================

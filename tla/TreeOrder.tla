------------------------------ MODULE TreeOrder ------------------------------
(***************************************************************************)
(* The order of children: the pointer surgery of Nodes.tla against the     *)
(* sequences of Forest.tla, on every table Tree.tla can reach.             *)
(***************************************************************************)
EXTENDS Tree, Queries, Forest

\* The forest of a table, as ChildIter walks over it.
Kids(N) == [n \in Live(N) |-> Yielded(N, n)]

(***************************************************************************)
(* append, prepend, insert_after and remove do to the children what they   *)
(* promise: the moved node stands in its place, and all others, those of   *)
(* its former parent included, stay in their order.  A table can be linked *)
(* well and yet hold the children in the wrong order.                      *)
(***************************************************************************)
MovesAsLists ==
  status = "running" =>
    LET K == Kids(nodes)
    IN  /\ \A p, c \in Live(nodes) :
             Movable(p, c) /\ ~ WouldCreateCycle(nodes, p, c) =>
               LET D == Detach(nodes, c)
               IN  /\ Kids(LinkLast(D, p, c)) = AppendKid(K, p, c)
                   /\ Kids(LinkFirst(D, p, c)) = PrependKid(K, p, c)
                   /\ \A a \in Children(nodes, p) \ {c} :
                        Kids(LinkAfter(D, p, a, c)) = InsertKid(K, p, a, c)
        /\ \A n \in Live(nodes) \ {root} :
             Kids(DropSubtree(Unlink(nodes, n), n)) = RemoveKid(K, n)
=============================================================================

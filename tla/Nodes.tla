------------------------------- MODULE Nodes -------------------------------
(***************************************************************************)
(* The node table of a tree (core/node.rs, core/tree.rs) and the pointer   *)
(* surgery of core/mutation.rs, as operators from a table to a table.      *)
(*                                                                         *)
(* A table N is a function from Slots to node records or Vacant.  A slot   *)
(* stands for a Key of memory/slab.rs: N[n] = Vacant is a slot whose       *)
(* Option is None, or one past the end of the slab's Vec (get answers None *)
(* for both).  Which vacant slot an insertion takes is left open here and  *)
(* settled in Slab.tla.                                                    *)
(*                                                                         *)
(* The assignments of the code follow each other as the updates of an      *)
(* EXCEPT do, so two names for one slot (a sibling inserted after itself)  *)
(* behave as they do in the code.                                          *)
(***************************************************************************)
EXTENDS Integers, FiniteSets

CONSTANTS Slots,    \* keys of the slab
          Values,   \* values of atoms
          List,     \* the kind of a list node
          Null,     \* None, for an Option<NodeId>
          Vacant    \* None, for an Option<Node>

Kinds == Values \union {List}
Link  == Slots \union {Null}

Node == [kind   : Kinds,
         parent : Link,
         first  : Link,
         last   : Link,
         prev   : Link,
         next   : Link,
         count  : Int]

ASSUME NodesAssumption ==
  /\ IsFiniteSet(Slots)
  /\ Null \notin Slots
  /\ List \notin Values
  /\ Vacant \notin Node

Table == [Slots -> Node \union {Vacant}]

NewNode(k) == [kind |-> k, parent |-> Null, first |-> Null, last |-> Null,
               prev |-> Null, next |-> Null, count |-> 0]

Allocate(N, n, k) == [N EXCEPT ![n] = NewNode(k)]

Live(N) == {n \in Slots : N[n] # Vacant}

Children(N, p) == {n \in Live(N) : N[n].parent = p}

(***************************************************************************)
(* The slots met by walking from n along the parent links, n included.     *)
(***************************************************************************)
ParentClosed(N, S) ==
  \A n \in S \intersect Live(N) : N[n].parent = Null \/ N[n].parent \in S

Ancestors(N, n) ==
  {m \in Slots : \A S \in SUBSET Slots : n \in S /\ ParentClosed(N, S) => m \in S}

(***************************************************************************)
(* Mistake: the fast path is taken for every child.                        *)
(***************************************************************************)
ComparesOnly(N, p, c) == p = c

(***************************************************************************)
(* would_create_cycle: a child without a parent is compared with the new   *)
(* parent only; for any other child the whole parent chain is searched.    *)
(***************************************************************************)
WouldCreateCycle(N, p, c) ==
  IF N[c].parent = Null THEN p = c ELSE c \in Ancestors(N, p)

(***************************************************************************)
(* Mistake: the parent's count is not decremented.                         *)
(***************************************************************************)
UnlinkKeepsCount(N, n) ==
  LET p  == N[n].parent
      l  == N[n].prev
      r  == N[n].next
      N1 == IF l # Null THEN [N EXCEPT ![l].next = r]
            ELSE IF p # Null THEN [N EXCEPT ![p].first = r]
            ELSE N
      N2 == IF r # Null THEN [N1 EXCEPT ![r].prev = l]
            ELSE IF p # Null THEN [N1 EXCEPT ![p].last = l]
            ELSE N1
  IN  [N2 EXCEPT ![n].parent = Null, ![n].prev = Null, ![n].next = Null]

(***************************************************************************)
(* unlink: n leaves its parent and siblings and keeps its own children.    *)
(***************************************************************************)
Unlink(N, n) ==
  LET p  == N[n].parent
      l  == N[n].prev
      r  == N[n].next
      N1 == IF l # Null THEN [N EXCEPT ![l].next = r]
            ELSE IF p # Null THEN [N EXCEPT ![p].first = r]
            ELSE N
      N2 == IF r # Null THEN [N1 EXCEPT ![r].prev = l]
            ELSE IF p # Null THEN [N1 EXCEPT ![p].last = l]
            ELSE N1
      N3 == IF p # Null THEN [N2 EXCEPT ![p].count = @ - 1] ELSE N2
  IN  [N3 EXCEPT ![n].parent = Null, ![n].prev = Null, ![n].next = Null]

Detach(N, c) == IF N[c].parent # Null THEN Unlink(N, c) ELSE N

(***************************************************************************)
(* The three ways of linking an unattached c below p.                      *)
(***************************************************************************)
LinkLast(N, p, c) ==
  LET l  == N[p].last
      N1 == [N EXCEPT ![c].parent = p, ![c].prev = l, ![c].next = Null]
      N2 == IF l # Null THEN [N1 EXCEPT ![l].next = c]
                        ELSE [N1 EXCEPT ![p].first = c]
  IN  [N2 EXCEPT ![p].last = c, ![p].count = @ + 1]

LinkFirst(N, p, c) ==
  LET f  == N[p].first
      N1 == [N EXCEPT ![c].parent = p, ![c].prev = Null, ![c].next = f]
      N2 == IF f # Null THEN [N1 EXCEPT ![f].prev = c]
                        ELSE [N1 EXCEPT ![p].last = c]
  IN  [N2 EXCEPT ![p].first = c, ![p].count = @ + 1]

\* Mistake: last_child is not moved when c becomes the last child.
LinkAfterKeepsLast(N, p, a, c) ==
  LET r  == N[a].next
      N1 == [N EXCEPT ![c].parent = p, ![c].prev = a, ![c].next = r,
                      ![a].next = c]
      N2 == IF r # Null THEN [N1 EXCEPT ![r].prev = c] ELSE N1
  IN  [N2 EXCEPT ![p].count = @ + 1]

\* Mistake: c is linked before its reference sibling.
LinkAfterBefore(N, p, a, c) ==
  LET l  == N[a].prev
      N1 == [N EXCEPT ![c].parent = p, ![c].prev = l, ![c].next = a,
                      ![a].prev = c]
      N2 == IF l # Null THEN [N1 EXCEPT ![l].next = c]
                        ELSE [N1 EXCEPT ![p].first = c]
  IN  [N2 EXCEPT ![p].count = @ + 1]

LinkAfter(N, p, a, c) ==
  LET r  == N[a].next
      N1 == [N EXCEPT ![c].parent = p, ![c].prev = a, ![c].next = r,
                      ![a].next = c]
      N2 == IF r # Null THEN [N1 EXCEPT ![r].prev = c]
                        ELSE [N1 EXCEPT ![p].last = c]
  IN  [N2 EXCEPT ![p].count = @ + 1]

(***************************************************************************)
(* drop_subtree: the slots its stack meets are those reached from n along  *)
(* last_child and prev_sibling; all of them are vacated.  (n has just been *)
(* unlinked, so no sibling of its own is among them.)                      *)
(***************************************************************************)
\* Mistake: the last child only, without its previous siblings.
WalkClosedLast(N, S) ==
  \A n \in S \intersect Live(N) : N[n].last = Null \/ N[n].last \in S

WalkClosed(N, S) ==
  \A n \in S \intersect Live(N) :
    /\ N[n].last = Null \/ N[n].last \in S
    /\ N[n].prev = Null \/ N[n].prev \in S

Walk(N, n) ==
  {m \in Slots : \A S \in SUBSET Slots : n \in S /\ WalkClosed(N, S) => m \in S}

DropSubtree(N, n) == [m \in Slots |-> IF m \in Walk(N, n) THEN Vacant ELSE N[m]]
-----------------------------------------------------------------------------
(***************************************************************************)
(* The invariants of a well-formed table.                                  *)
(***************************************************************************)
LinkLive(N) ==
  \A n \in Live(N) :
    {N[n].parent, N[n].first, N[n].last, N[n].prev, N[n].next}
      \subseteq Live(N) \union {Null}

SiblingsAgree(N) ==
  \A n \in Live(N) :
    /\ N[n].next # Null => /\ N[N[n].next].prev = n
                           /\ N[N[n].next].parent = N[n].parent
    /\ N[n].prev # Null => N[N[n].prev].next = n

EndsAgree(N) ==
  \A n \in Live(N) :
    /\ N[n].first = Null <=> N[n].last = Null
    /\ N[n].first # Null => N[N[n].first].parent = n /\ N[N[n].first].prev = Null
    /\ N[n].last # Null  => N[N[n].last].parent = n /\ N[N[n].last].next = Null

ChildLinked(N) ==
  \A n \in Live(N) :
    IF N[n].parent = Null
      THEN N[n].prev = Null /\ N[n].next = Null
      ELSE /\ N[n].prev = Null => N[N[n].parent].first = n
           /\ N[n].next = Null => N[N[n].parent].last = n

LinksOK(N) ==
  LinkLive(N) /\ SiblingsAgree(N) /\ EndsAgree(N) /\ ChildLinked(N)

(***************************************************************************)
(* No set of nodes is closed under a link: a chain of the link ends.       *)
(***************************************************************************)
NoParentCycle(N) ==
  \A S \in SUBSET Live(N) : S # {} => \E n \in S : N[n].parent \notin S

NoSiblingCycle(N) ==
  \A S \in SUBSET Live(N) : S # {} => \E n \in S : N[n].next \notin S

CountOK(N) ==
  \A n \in Live(N) : N[n].count = Cardinality(Children(N, n))

WellFormed(N) ==
  LinksOK(N) /\ NoSiblingCycle(N) /\ NoParentCycle(N) /\ CountOK(N)
=============================================================================

--------------------------- MODULE HandlesProofs ---------------------------
(***************************************************************************)
(* Handles that are not stale are faithful, for every number of handles,   *)
(* slots and versions.                                                     *)
(***************************************************************************)
EXTENDS Handles, TreeProofs, WalkProofs

(***************************************************************************)
(* The inductive invariant.  A handle whose node was freed is of an older  *)
(* version and not to the root, so it is stale and nothing can renew it;   *)
(* any other is to a live node.  An iterator of the current version is at  *)
(* a live node and has to yield what follows there, since every step that  *)
(* frees a node or changes its next sibling bumps the version.             *)
(* The root is live, for a handle to it is never stale: it has no parent,  *)
(* no call moves it, and what is below another node does not reach it.     *)
(* Fine(h, N, v): what is so of a handle when N is the table and v the     *)
(* version.                                                                *)
(***************************************************************************)
RootStays == root \in Live(nodes) /\ nodes[root].parent = Null

Fine(h, N, v) ==
  h = Null \/ /\ h \in Handle
              /\ h.version <= v
              /\ IF h.lost THEN h.node # root /\ h.version < v ELSE h.node \in Live(N)

AllFine == /\ handles = [r \in Refs |-> handles[r]]
           /\ \A r \in Refs : Fine(handles[r], nodes, version)

IterFine ==
  \/ iter = Null
  \/ /\ iter = [next |-> iter.next, version |-> iter.version, rest |-> iter.rest]
     /\ iter.version \in 0 .. version
     /\ iter.next \in Link
     /\ iter.version = version => /\ iter.next \in Live(nodes) \union {Null}
                                  /\ iter.rest = Onward(nodes)[iter.next]

HandlesInv == TreeInv /\ RootStays /\ AllFine /\ IterFine

(***************************************************************************)
(* The invariant is enough.                                                *)
(***************************************************************************)
LEMMA InvFaithful == HandlesInv => HandlesFaithful
<1> SUFFICES ASSUME HandlesInv, NEW r \in Refs, handles[r] # Null, ~ IsStale(handles[r])
             PROVE  nodes[At(r)] # Vacant /\ ~ handles[r].lost
  BY DEF HandlesFaithful
<1>1. Fine(handles[r], nodes, version) /\ version \in Nat
  BY TreeAssumption DEF HandlesInv, AllFine, TreeInv, TypeOK
<1>2. ~ handles[r].lost
  BY <1>1, TreeAssumption DEF Fine, IsStale, Handle
<1>3. At(r) \in Live(nodes)
  BY <1>1, <1>2 DEF Fine, At
<1> QED BY <1>2, <1>3 DEF Live

(***************************************************************************)
(* A handle that can be used is to a live node.                            *)
(***************************************************************************)
LEMMA UsableLive ==
  ASSUME HandlesInv, NEW r \in Refs, Usable(r)
  PROVE  At(r) \in Live(nodes) /\ handles[r] \in Handle /\ ~ handles[r].lost
<1>1. Fine(handles[r], nodes, version) /\ handles[r] # Null /\ ~ IsStale(handles[r])
  BY DEF Usable, HandlesInv, AllFine
<1>2. ~ handles[r].lost
  BY <1>1, InvFaithful DEF HandlesFaithful
<1> QED BY <1>1, <1>2 DEF Fine, At

(***************************************************************************)
(* A handle made in a step that leaves the tree as it is.                  *)
(***************************************************************************)
LEMMA BindFine ==
  ASSUME HandlesInv, NEW s \in Refs, NEW n \in Live(nodes), Bind(s, n),
         UNCHANGED treeVars
  PROVE  AllFine'
<1>1. version \in Nat /\ Live(nodes) \subseteq Slots
  BY TableCells, TreeAssumption DEF HandlesInv, TreeInv, TypeOK
<1>2. Fine(HandleTo(n), nodes, version)
  BY <1>1 DEF Fine, HandleTo, Handle
<1>3. /\ handles' = [r \in Refs |-> handles'[r]]
      /\ \A r \in Refs : handles'[r] = IF r = s THEN HandleTo(n) ELSE handles[r]
  BY DEF Bind, HandlesInv, AllFine
<1>4. \A r \in Refs : Fine(handles'[r], nodes, version)
  BY <1>2, <1>3 DEF HandlesInv, AllFine
<1> QED BY <1>3, <1>4 DEF AllFine, Fine, treeVars

(***************************************************************************)
(* The end of with_tree_mut, for a call that frees nothing or bumps the    *)
(* version, and does not free the root.                                    *)
(***************************************************************************)
LEMMA RefreshedFine ==
  ASSUME HandlesInv, TreeInv', RootStays', NEW r \in Refs, Usable(r),
         root' = root, version <= version',
         Live(nodes) \subseteq Live(nodes') \/ version < version'
  PROVE  \A s \in Refs : Fine(Refreshed(r)[s], nodes', version')
<1> SUFFICES ASSUME NEW s \in Refs, handles[s] # Null
             PROVE  Fine(Refreshed(r)[s], nodes', version')
  BY DEF Refreshed, Fine
<1> DEFINE h == handles[s]
           lost == h.lost \/ h.node \in Freed
           renewed == s = r /\ nodes'[h.node] # Vacant
           k == Refreshed(r)[s]
<1>1. version \in Nat /\ version' \in Nat
  BY TreeAssumption DEF HandlesInv, TreeInv, TypeOK
<1>2. h \in Handle /\ Fine(h, nodes, version) /\ h # Null
  BY DEF HandlesInv, AllFine, Fine
<1>3. /\ k = [node |-> h.node, version |-> IF renewed THEN version' ELSE h.version, lost |-> IsFreed(s)]
      /\ IsFreed(s) \in BOOLEAN
      /\ IsFreed(s) <=> lost
  BY DEF Refreshed, At, IsFreed
<1> HIDE DEF renewed
<1>8. k.node = h.node /\ k.version = IF renewed THEN version' ELSE h.version
  BY <1>3
<1>9. k.lost <=> lost
  <2> HIDE DEF k, lost
  <2> QED BY <1>3
<1>10. k \in Handle
  <2>1. h.node \in Slots /\ h.version \in Nat
    BY <1>2 DEF Handle
  <2>2. (IF renewed THEN version' ELSE h.version) \in Nat
    BY <1>1, <2>1
  <2> HIDE DEF k, h
  <2> QED BY <1>3, <2>1, <2>2 DEF Handle
<1> HIDE DEF k, h
<1>4. root \in Live(nodes')
  BY DEF RootStays
<1>5. ASSUME h.lost
      PROVE  Fine(k, nodes', version')
  <2>1. s # r
    BY <1>5, UsableLive DEF h
  <2> QED BY <1>1, <1>2, <1>8, <1>9, <1>10, <1>5, <2>1 DEF renewed, Fine, Handle
<1>6. ASSUME ~ h.lost /\ h.node \in Freed
      PROVE  Fine(k, nodes', version')
  <2>1. h.node \in Live(nodes) /\ h.node \notin Live(nodes') /\ h.node \in Slots
    BY <1>2, <1>6 DEF Freed, Handle
  <2>2. nodes'[h.node] = Vacant /\ version < version' /\ h.node # root
    BY <1>4, <2>1 DEF Live
  <2> QED BY <1>1, <1>2, <1>8, <1>9, <1>10, <1>6, <2>2 DEF renewed, Fine, Handle
<1>7. ASSUME ~ h.lost /\ h.node \notin Freed
      PROVE  Fine(k, nodes', version')
  <2>1. h.node \in Live(nodes')
    BY <1>2, <1>7 DEF Fine, Freed, Handle
  <2>2. k.version <= version'
    BY <1>1, <1>2, <1>8 DEF Fine, Handle
  <2> QED BY <1>7, <1>8, <1>9, <1>10, <2>1, <2>2 DEF Fine
<1> QED BY <1>5, <1>6, <1>7 DEF k

(***************************************************************************)
(* An iterator through a step that leaves it alone, and bumps the version  *)
(* if it frees a node or changes what follows one.                         *)
(***************************************************************************)
FollowersKept ==
  /\ Live(nodes) \subseteq Live(nodes')
  /\ \A n \in Live(nodes) : nodes'[n].next = nodes[n].next

LEMMA IterFineKept ==
  ASSUME HandlesInv, TreeInv', UNCHANGED iter, version <= version',
         FollowersKept \/ version < version'
  PROVE  IterFine'
<1>1. version \in Nat /\ version' \in Nat
  BY TreeAssumption DEF HandlesInv, TreeInv, TypeOK
<1>2. CASE version < version'
  BY <1>1, <1>2 DEF HandlesInv, IterFine
<1>3. CASE FollowersKept
  <2>1. /\ nodes \in Table /\ LinksOK(nodes) /\ NoSiblingCycle(nodes)
        /\ nodes' \in Table /\ LinksOK(nodes') /\ NoSiblingCycle(nodes')
    BY DEF HandlesInv, TreeInv, TypeOK, WellFormed
  <2>2. \A n \in Live(nodes) \union {Null} : Onward(nodes')[n] = Onward(nodes)[n]
    <3>1. PICK N, M : N = nodes /\ M = nodes'
      OBVIOUS
    <3>2. \A n \in Live(N) \union {Null} : Onward(M)[n] = Onward(N)[n]
      BY <1>3, <2>1, <3>1, OnwardSame DEF FollowersKept
    <3> QED BY <3>1, <3>2
  <2> QED BY <1>1, <1>3, <2>2 DEF HandlesInv, IterFine, FollowersKept
<1> QED BY <1>2, <1>3

(***************************************************************************)
(* A call that ends with the renewal of its handle keeps the invariant.    *)
(***************************************************************************)
LEMMA CallKeeps ==
  ASSUME HandlesInv, TreeInv', RootStays', NEW r \in Refs, Usable(r),
         root' = root, version <= version',
         FollowersKept \/ version < version',
         handles' = Refreshed(r), UNCHANGED iter
  PROVE  HandlesInv'
<1>1. \A s \in Refs : Fine(Refreshed(r)[s], nodes', version')
  BY RefreshedFine DEF FollowersKept
<1>2. IterFine'
  BY IterFineKept
<1>3. handles' = [s \in Refs |-> handles'[s]]
  BY DEF Refreshed
<1>4. \A s \in Refs : Fine(handles'[s], nodes', version')
  BY <1>1
<1>5. AllFine'
  BY <1>3, <1>4 DEF AllFine, Fine
<1> QED BY <1>2, <1>5 DEF HandlesInv

(***************************************************************************)
(* A step that leaves the tree as it is keeps its invariant.               *)
(***************************************************************************)
LEMMA TreeStays == ASSUME HandlesInv, UNCHANGED treeVars PROVE TreeInv' /\ RootStays'
<1>1. TreeInv'
  BY NextTreeInv DEF HandlesInv
<1>2. RootStays'
  BY DEF HandlesInv, RootStays, treeVars, Live
<1> QED BY <1>1, <1>2

(***************************************************************************)
(* Methods that read the tree and make a handle or an iterator.            *)
(***************************************************************************)
LEMMA ReadKeeps ==
  ASSUME HandlesInv, NEW r \in Refs, NEW s \in Refs,
         GetChild(r, s) \/ GetParent(r, s) \/ IterNext(s)
  PROVE  HandlesInv'
<1>1. UNCHANGED treeVars /\ TreeInv' /\ RootStays'
  BY TreeStays DEF GetChild, GetParent, IterNext
<1>2. /\ nodes \in Table /\ version \in Nat /\ Live(nodes) \subseteq Slots /\ Null \notin Slots
      /\ \A n \in Live(nodes) :
           {nodes[n].parent, nodes[n].next} \subseteq Live(nodes) \union {Null}
  BY TableCells, TreeAssumption
     DEF HandlesInv, TreeInv, TypeOK, WellFormed, LinksOK, LinkLive
<1>3. CASE GetChild(r, s)
  <2>1. PICK n \in Live(nodes) : Bind(s, n)
    BY <1>3 DEF GetChild, Children
  <2>2. AllFine'
    BY <1>1, <2>1, BindFine
  <2>3. IterFine'
    BY <1>1, <1>2, <1>3, IterFineKept DEF FollowersKept, GetChild, treeVars
  <2> QED BY <1>1, <2>2, <2>3 DEF HandlesInv
<1>4. CASE GetParent(r, s)
  <2>1. At(r) \in Live(nodes)
    BY <1>4, UsableLive DEF GetParent
  <2>2. nodes[At(r)].parent \in Live(nodes) /\ Bind(s, nodes[At(r)].parent)
    BY <1>2, <1>4, <2>1 DEF GetParent
  <2>3. AllFine'
    BY <1>1, <2>2, BindFine
  <2>4. IterFine'
    BY <1>1, <1>2, <1>4, IterFineKept DEF FollowersKept, GetParent, treeVars
  <2> QED BY <1>1, <2>3, <2>4 DEF HandlesInv
<1>5. CASE IterNext(s)
  <2>1. /\ iter = [next |-> iter.next, version |-> iter.version, rest |-> iter.rest]
        /\ iter.version \in 0 .. version /\ iter.version = version
        /\ iter.next \in Live(nodes) /\ iter.rest = Onward(nodes)[iter.next]
    BY <1>5 DEF IterNext, HandlesInv, IterFine
  <2>2. Bind(s, iter.next)
        /\ iter' = [iter EXCEPT !.next = nodes[@].next, !.rest = Tail(@)]
    BY <1>5 DEF IterNext
  <2>3. AllFine'
    BY <1>1, <2>1, <2>2, BindFine
  <2>4. iter' = [next |-> nodes[iter.next].next, version |-> iter.version, rest |-> Tail(iter.rest)]
    BY <2>1, <2>2
  <2>5. nodes[iter.next].next \in Live(nodes) \union {Null}
    BY <1>2, <2>1
  <2>6. Tail(iter.rest) = Onward(nodes)[nodes[iter.next].next]
    <3>1. /\ Onward(nodes)[iter.next] = <<iter.next>> \o Onward(nodes)[nodes[iter.next].next]
          /\ Onward(nodes)[nodes[iter.next].next] \in Seq(Live(nodes))
      BY <1>2, <2>1, OnwardUnfolds DEF HandlesInv, TreeInv, WellFormed
    <3> QED BY <2>1, <3>1, TailOfCons
  <2>7. IterFine'
    BY <1>1, <1>2, <2>1, <2>4, <2>5, <2>6 DEF IterFine, treeVars, Link
  <2> QED BY <1>1, <2>3, <2>7 DEF HandlesInv
<1> QED BY <1>3, <1>4, <1>5

(***************************************************************************)
(* An iterator is made in a tree that stays as it is.                      *)
(***************************************************************************)
LEMMA IterateKeeps ==
  ASSUME HandlesInv, NEW r \in Refs, GetIter(r) \/ GetTail(r)
  PROVE  HandlesInv'
<1>1. UNCHANGED treeVars /\ TreeInv' /\ RootStays' /\ UNCHANGED handles
  BY TreeStays DEF GetIter, GetTail
<1>2. /\ version \in Nat /\ Live(nodes) \subseteq Slots /\ Null \notin Slots
      /\ \A n \in Live(nodes) :
           {nodes[n].first, nodes[n].next} \subseteq Live(nodes) \union {Null}
  BY TableCells, TreeAssumption
     DEF HandlesInv, TreeInv, TypeOK, WellFormed, LinksOK, LinkLive
<1>3. At(r) \in Live(nodes)
  BY UsableLive DEF GetIter, GetTail
<1>4. PICK n \in Live(nodes) \union {Null} : Iterate(n)
  <2>1. nodes[At(r)].first \in Live(nodes) \union {Null}
    BY <1>2, <1>3
  <2>2. CASE GetIter(r)
    BY <2>1, <2>2 DEF GetIter
  <2>3. CASE GetTail(r)
    <3> DEFINE f == nodes[At(r)].first
               t == IF f = Null THEN Null ELSE nodes[f].next
    <3>1. t \in Live(nodes) \union {Null}
      BY <1>2, <2>1
    <3>2. Iterate(t)
      BY <2>3 DEF GetTail
    <3> QED BY <3>1, <3>2
  <2> QED BY <2>2, <2>3
<1>5. AllFine'
  BY <1>1 DEF HandlesInv, AllFine, Fine, treeVars
<1>6. IterFine'
  BY <1>1, <1>2, <1>4 DEF Iterate, IterFine, treeVars, Link
<1> QED BY <1>1, <1>2, <1>5, <1>6 DEF HandlesInv

(***************************************************************************)
(* A new node is live and its handle of the current version.               *)
(***************************************************************************)
LEMMA NewKeeps ==
  ASSUME HandlesInv, NEW r \in Refs, NEW s \in Refs, NEW k \in Kinds, NewUnattached(r, s, k)
  PROVE  HandlesInv'
<1>1. PICK n \in Slots : Alloc(n, k) /\ handles' = [Refreshed(r) EXCEPT ![s] = HandleTo(n)]
  BY DEF NewUnattached
<1>2. TreeInv'
  BY <1>1, NextTreeInv DEF HandlesInv, TreeNext, Create
<1>3. /\ UNCHANGED <<root, version, iter>> /\ Usable(r) /\ version \in Nat
      /\ Live(nodes') = Live(nodes) \union {n}
      /\ \A m \in Live(nodes) : /\ nodes'[m].next = nodes[m].next
                                /\ nodes'[m].parent = nodes[m].parent
  <2>1. nodes \in Table /\ WellFormed(nodes) /\ nodes[n] = Vacant /\ nodes' = Allocate(nodes, n, k)
    BY <1>1 DEF Alloc, HandlesInv, TreeInv, TypeOK
  <2>2. Live(nodes') = Live(nodes) \union {n}
    BY <2>1, AllocKeeps
  <2>3. \A m \in Live(nodes) : /\ nodes'[m].next = nodes[m].next
                                /\ nodes'[m].parent = nodes[m].parent
    BY <2>1, TableCells DEF Allocate, Table, Live
  <2> QED BY <1>1, <2>2, <2>3, TreeAssumption DEF Alloc, NewUnattached, HandlesInv, TreeInv, TypeOK
<1>10. RootStays'
  BY <1>3 DEF HandlesInv, RootStays
<1>4. \A q \in Refs : Fine(Refreshed(r)[q], nodes', version')
  BY <1>2, <1>3, <1>10, RefreshedFine
<1>5. Fine(HandleTo(n), nodes', version')
  BY <1>3 DEF Fine, HandleTo, Handle
<1>6. /\ handles' = [q \in Refs |-> handles'[q]]
      /\ \A q \in Refs : handles'[q] = IF q = s THEN HandleTo(n) ELSE Refreshed(r)[q]
  BY <1>1 DEF Refreshed
<1>7. \A q \in Refs : Fine(handles'[q], nodes', version')
  BY <1>4, <1>5, <1>6
<1>8. AllFine'
  BY <1>3, <1>6, <1>7 DEF AllFine, Fine
<1>9. IterFine'
  BY <1>2, <1>3, IterFineKept DEF FollowersKept
<1> QED BY <1>2, <1>8, <1>9, <1>10 DEF HandlesInv

(***************************************************************************)
(* append, prepend and insert_after keep the invariant.                    *)
(***************************************************************************)
LEMMA MoveKeepsHandles ==
  ASSUME HandlesInv, NEW r \in Refs, NEW c \in Refs,
         \/ AppendCall(r, c)
         \/ PrependCall(r, c)
         \/ \E a \in Refs : InsertAfterCall(r, a, c)
  PROVE  HandlesInv'
<1>1. /\ Moves(r, c)
      /\ \/ AppendChild(At(r), At(c))
         \/ Prepend(At(r), At(c))
         \/ \E a \in Children(nodes, At(r)) \ {At(c)} : InsertAfter(At(r), a, At(c))
      /\ handles' = Refreshed(r) /\ UNCHANGED iter
  BY DEF AppendCall, PrependCall, InsertAfterCall
<1>2. Usable(r) /\ At(r) \in Live(nodes)
  BY <1>1, UsableLive DEF Moves
<1>3. At(c) \in Live(nodes)
  <2>1. handles[c] \in Handle
    BY <1>1 DEF Moves, HandlesInv, AllFine, Fine
  <2> QED BY <1>1, <2>1 DEF Moves, Handle, At, Live
<1>4. TreeInv'
  BY <1>1, <1>2, <1>3, MoveTreeInv DEF Moves, HandlesInv
<1>5. root' = root /\ version \in Nat /\ version' = version + 1
  BY <1>1, TreeAssumption
     DEF AppendChild, Prepend, InsertAfter, Restructure, HandlesInv, TreeInv, TypeOK
<1>6. RootStays'
  <2>1. PICK p, x : p = At(r) /\ x = At(c)
    OBVIOUS
  <2>2. nodes \in Table /\ WellFormed(nodes) /\ RootStays
    BY DEF HandlesInv, TreeInv, TypeOK
  <2>3. /\ p \in Live(nodes) /\ x \in Live(nodes) /\ x # root
        /\ x \notin Ancestors(nodes, p)
        /\ \/ nodes' = LinkLast(Detach(nodes, x), p, x)
           \/ nodes' = LinkFirst(Detach(nodes, x), p, x)
           \/ \E a \in Children(nodes, p) \ {x} : nodes' = LinkAfter(Detach(nodes, x), p, a, x)
    BY <1>1, <1>2, <1>3, <2>1, MovableNoCycle
       DEF Moves, AppendChild, Prepend, InsertAfter, Restructure
  <2>4. /\ Live(nodes') = Live(nodes)
        /\ \A n \in Live(nodes) : nodes'[n].parent = IF n = x THEN p ELSE nodes[n].parent
    BY <2>2, <2>3, MoveKeeps
  <2> QED BY <1>5, <2>2, <2>3, <2>4 DEF RootStays
<1> QED BY <1>1, <1>2, <1>4, <1>5, <1>6, CallKeeps

(***************************************************************************)
(* remove and extract keep the invariant.                                  *)
(***************************************************************************)
LEMMA RemoveKeepsHandles ==
  ASSUME HandlesInv, NEW r \in Refs, RemoveCall(r)
  PROVE  HandlesInv'
<1>1. Usable(r) /\ At(r) \in Live(nodes)
  BY UsableLive DEF RemoveCall
<1>2. Remove(At(r)) /\ handles' = Refreshed(r) /\ UNCHANGED iter
  BY DEF RemoveCall
<1>3. TreeInv'
  BY <1>1, <1>2, RemoveTreeInv DEF HandlesInv
<1>4. root' = root /\ version \in Nat /\ version' = version + 1
  BY <1>2, TreeAssumption DEF Remove, Restructure, HandlesInv, TreeInv, TypeOK
<1>5. RootStays'
  <2>1. PICK x : x = At(r)
    OBVIOUS
  <2>2. /\ nodes \in Table /\ WellFormed(nodes) /\ RootStays
        /\ x \in Live(nodes) /\ x # root
        /\ nodes' = DropSubtree(Unlink(nodes, x), x)
    BY <1>1, <1>2, <2>1 DEF HandlesInv, TreeInv, TypeOK, Remove, Restructure
  <2>3. PICK q : q = root
    OBVIOUS
  <2>4. q \in Live(nodes') /\ nodes'[q].parent = Null
    BY <2>2, <2>3, RootSpared DEF RootStays
  <2> QED BY <1>4, <2>3, <2>4 DEF RootStays
<1> QED BY <1>1, <1>2, <1>3, <1>4, <1>5, CallKeeps

(***************************************************************************)
(* The value setter keeps the invariant.                                   *)
(***************************************************************************)
LEMMA SetValueKeeps ==
  ASSUME HandlesInv, NEW r \in Refs, NEW v \in Values, SetValue(r, v)
  PROVE  HandlesInv'
<1>1. /\ Usable(r) /\ At(r) \in Live(nodes)
      /\ nodes' = [nodes EXCEPT ![At(r)].kind = v]
      /\ UNCHANGED <<root, version, status, iter>>
      /\ handles' = Refreshed(r)
  BY UsableLive DEF SetValue
<1>2. nodes \in Table /\ WellFormed(nodes) /\ TypeOK /\ RootStays /\ version \in Nat
  BY TreeAssumption DEF HandlesInv, TreeInv, TypeOK
<1>3. /\ nodes' \in Table /\ Live(nodes') = Live(nodes) /\ WellFormed(nodes')
      /\ SameLinks(nodes, nodes')
  BY <1>1, <1>2, SetKindKeeps DEF Kinds
<1>4. TypeOK'
  BY <1>1, <1>2, <1>3 DEF TypeOK
<1>5. RootStays'
  BY <1>1, <1>2, <1>3 DEF RootStays, SameLinks
<1>6. TreeInv'
  BY <1>3, <1>4 DEF TreeInv
<1>7. /\ Usable(r) /\ handles' = Refreshed(r) /\ UNCHANGED iter
      /\ root' = root /\ version <= version' /\ FollowersKept
  BY <1>1, <1>2, <1>3 DEF SameLinks, FollowersKept
<1> QED BY <1>5, <1>6, <1>7, CallKeeps

(***************************************************************************)
(* __repr__ and the panics keep the invariant.                             *)
(***************************************************************************)
LEMMA OtherKeeps ==
  ASSUME HandlesInv, NEW r \in Refs,
         ReprCall(r) \/ \E c \in Refs : MovePanic(r, c)
  PROVE  HandlesInv'
<1>0. version \in Nat
  BY TreeAssumption DEF HandlesInv, TreeInv, TypeOK
<1>1. CASE ReprCall(r)
  <2>1. TreeInv' /\ RootStays'
    BY <1>1, TreeStays DEF ReprCall
  <2>2. /\ Usable(r) /\ handles' = Refreshed(r) /\ UNCHANGED iter
        /\ root' = root /\ version <= version' /\ FollowersKept
    BY <1>0, <1>1 DEF ReprCall, treeVars, FollowersKept
  <2> QED BY <2>1, <2>2, CallKeeps
<1>2. CASE \E c \in Refs : MovePanic(r, c)
  <2>1. UNCHANGED <<nodes, root, version, handles, iter>> /\ status' = "aborted"
    BY <1>2 DEF MovePanic
  <2>2. TreeInv' /\ RootStays'
    BY <2>1 DEF HandlesInv, TreeInv, TypeOK, RootStays
  <2>3. AllFine' /\ IterFine'
    BY <2>1 DEF HandlesInv, AllFine, Fine, IterFine
  <2> QED BY <2>2, <2>3 DEF HandlesInv
<1> QED BY <1>1, <1>2

(***************************************************************************)
(* A program that has just got a tree holds a handle to its root.          *)
(***************************************************************************)
LEMMA InitHandlesInv == HandlesInit => HandlesInv
<1> SUFFICES ASSUME HandlesInit PROVE HandlesInv
  OBVIOUS
<1>1. TreeInv
  BY InitTreeInv DEF HandlesInit
<1>2. RootStays /\ root \in Live(nodes) /\ version = 0 /\ root \in Slots
  <2>1. PICK k \in Kinds :
          nodes = [n \in Slots |-> IF n = root THEN NewNode(k) ELSE Vacant]
    BY DEF HandlesInit, TreeInit
  <2>2. root \in Slots /\ version = 0
    BY DEF HandlesInit, TreeInit
  <2>3. NewNode(k) # Vacant /\ NewNode(k).parent = Null
    <3>1. NewNode(k) \in Node
      BY DEF NewNode, Node, Link
    <3>2. NewNode(k).parent = Null
      BY DEF NewNode
    <3> HIDE DEF NewNode
    <3> QED BY <3>1, <3>2, NodesAssumption
  <2> QED BY <2>1, <2>2, <2>3 DEF RootStays, Live
<1>3. Fine(HandleTo(root), nodes, version) /\ Fine(Null, nodes, version)
  BY <1>2 DEF Fine, HandleTo, Handle
<1>4. PICK r \in Refs : handles = [s \in Refs |-> IF s = r THEN HandleTo(root) ELSE Null]
  BY DEF HandlesInit
<1>5. AllFine
  BY <1>3, <1>4 DEF AllFine
<1>6. IterFine
  BY DEF HandlesInit, IterFine
<1> QED BY <1>1, <1>2, <1>5, <1>6 DEF HandlesInv

(***************************************************************************)
(* Every step keeps the invariant.                                         *)
(***************************************************************************)
LEMMA NextHandlesInv == HandlesInv /\ [HandlesNext]_handleVars => HandlesInv'
<1> SUFFICES ASSUME HandlesInv, [HandlesNext]_handleVars PROVE HandlesInv'
  OBVIOUS
<1>1. ASSUME NEW r \in Refs, NEW s \in Refs, GetChild(r, s) \/ GetParent(r, s) \/ IterNext(s)
      PROVE  HandlesInv'
  BY <1>1, ReadKeeps
<1>2. ASSUME NEW r \in Refs, NEW s \in Refs, NEW k \in Kinds, NewUnattached(r, s, k)
      PROVE  HandlesInv'
  BY <1>2, NewKeeps
<1>3. ASSUME NEW r \in Refs, NEW c \in Refs,
             AppendCall(r, c) \/ PrependCall(r, c) \/ \E a \in Refs : InsertAfterCall(r, a, c)
      PROVE  HandlesInv'
  BY <1>3, MoveKeepsHandles
<1>4. ASSUME NEW r \in Refs, GetIter(r) \/ GetTail(r) PROVE HandlesInv'
  BY <1>4, IterateKeeps
<1>5. ASSUME NEW r \in Refs, NEW v \in Values, SetValue(r, v) PROVE HandlesInv'
  BY <1>5, SetValueKeeps
<1>6. ASSUME NEW r \in Refs, RemoveCall(r) PROVE HandlesInv'
  BY <1>6, RemoveKeepsHandles
<1>7. ASSUME NEW r \in Refs, ReprCall(r) \/ \E c \in Refs : MovePanic(r, c) PROVE HandlesInv'
  BY <1>7, OtherKeeps
<1>8. CASE UNCHANGED handleVars
  <2>1. TreeInv' /\ RootStays'
    BY <1>8, TreeStays DEF handleVars, treeVars
  <2>2. AllFine' /\ IterFine'
    BY <1>8 DEF HandlesInv, AllFine, Fine, IterFine, handleVars
  <2> QED BY <2>1, <2>2 DEF HandlesInv
<1> QED BY <1>1, <1>2, <1>3, <1>4, <1>5, <1>6, <1>7, <1>8 DEF HandlesNext

(***************************************************************************)
(* The invariant holds of every reachable state.                           *)
(***************************************************************************)
THEOREM HandlesInvariance == HandlesSpec => []HandlesInv
BY InitHandlesInv, NextHandlesInv, PTL DEF HandlesSpec

(***************************************************************************)
(* No handle that passes the staleness check is to a freed or reused slot. *)
(***************************************************************************)
THEOREM HandlesNeverAlias == HandlesSpec => []HandlesFaithful
BY InvFaithful, HandlesInvariance, PTL

(***************************************************************************)
(* An iterator that does not raise yields the children there were when it  *)
(* was made, in their order.                                               *)
(***************************************************************************)
THEOREM IteratorsFaithful == HandlesSpec => []IterFaithful
<1>1. HandlesInv => IterFaithful
  BY DEF HandlesInv, IterFine, IterFaithful
<1> QED BY <1>1, HandlesInvariance, PTL

(***************************************************************************)
(* Snapshots are never ahead of the version.                               *)
(***************************************************************************)
THEOREM HandlesTyped == HandlesSpec => []HandlesTypeOK
<1>1. HandlesInv => HandlesTypeOK
  BY DEF HandlesInv, AllFine, Fine, IterFine, HandlesTypeOK
<1> QED BY <1>1, HandlesInvariance, PTL

(***************************************************************************)
(* Only remove and extract free nodes.                                     *)
(***************************************************************************)
LEMMA OnlyRemovalFrees ==
  ASSUME HandlesInv, HandlesNext, Freed # {}
  PROVE  \E r \in Refs : RemoveCall(r)
<1>1. nodes \in Table /\ WellFormed(nodes)
  BY DEF HandlesInv, TreeInv, TypeOK
<1>2. ~ (Live(nodes) \subseteq Live(nodes'))
  BY DEF Freed
<1>3. ~ UNCHANGED nodes
  BY <1>2
<1>4. ASSUME NEW r \in Refs, NEW s \in Refs, NEW k \in Kinds, NewUnattached(r, s, k)
      PROVE  FALSE
  <2>1. PICK n \in Slots : nodes[n] = Vacant /\ nodes' = Allocate(nodes, n, k)
    BY <1>4 DEF NewUnattached, Alloc
  <2>2. Live(nodes') = Live(nodes) \union {n}
    BY <1>1, <2>1, AllocKeeps
  <2> QED BY <1>2, <2>2
<1>5. ASSUME NEW r \in Refs, NEW c \in Refs,
             AppendCall(r, c) \/ PrependCall(r, c) \/ \E a \in Refs : InsertAfterCall(r, a, c)
      PROVE  FALSE
  <2>1. /\ Moves(r, c) /\ ~ WouldCreateCycle(nodes, At(r), At(c))
        /\ \/ nodes' = LinkLast(Detach(nodes, At(c)), At(r), At(c))
           \/ nodes' = LinkFirst(Detach(nodes, At(c)), At(r), At(c))
           \/ \E a \in Children(nodes, At(r)) \ {At(c)} :
                nodes' = LinkAfter(Detach(nodes, At(c)), At(r), a, At(c))
    BY <1>5 DEF AppendCall, PrependCall, InsertAfterCall, AppendChild, Prepend, InsertAfter, Restructure
  <2>2. At(r) \in Live(nodes)
    BY <2>1, UsableLive DEF Moves
  <2>3. At(c) \in Live(nodes)
    <3>1. handles[c] \in Handle
      BY <2>1 DEF Moves, HandlesInv, AllFine, Fine
    <3> QED BY <2>1, <3>1 DEF Moves, Handle, At, Live
  <2>4. At(c) \notin Ancestors(nodes, At(r))
    BY <2>1, MovableNoCycle DEF Moves
  <2>5. Live(nodes') = Live(nodes)
    BY <1>1, <2>1, <2>2, <2>3, <2>4, MoveKeeps
  <2> QED BY <1>2, <2>5
<1>6. ASSUME NEW r \in Refs, NEW v \in Values, SetValue(r, v) PROVE FALSE
  <2>1. At(r) \in Live(nodes) /\ nodes' = [nodes EXCEPT ![At(r)].kind = v]
    BY <1>6, UsableLive DEF SetValue
  <2>2. Live(nodes') = Live(nodes)
    BY <1>1, <2>1, SetKindKeeps DEF Kinds
  <2> QED BY <1>2, <2>2
<1>7. ASSUME NEW r \in Refs, NEW s \in Refs,
             \/ GetChild(r, s) \/ GetParent(r, s) \/ MovePanic(r, s)
             \/ GetIter(r) \/ GetTail(r) \/ IterNext(r) \/ ReprCall(r)
      PROVE  FALSE
  BY <1>3, <1>7 DEF GetChild, GetParent, MovePanic, GetIter, GetTail, IterNext, ReprCall, treeVars
<1> QED BY <1>4, <1>5, <1>6, <1>7 DEF HandlesNext

(***************************************************************************)
(* A removal makes every handle stale but those to the root.               *)
(***************************************************************************)
THEOREM RemovalInvalidates == HandlesSpec => RemovalStalesAll
<1> DEFINE AllStale == Freed # {} =>
             \A r \in Refs : handles'[r] # Null => handles'[r].node = root \/ IsStale(handles[r])'
<1>1. HandlesInv /\ [HandlesNext]_handleVars => [AllStale]_handleVars
  <2> SUFFICES ASSUME HandlesInv, HandlesNext, Freed # {}, NEW s \in Refs, handles'[s] # Null,
                      handles'[s].node # root
               PROVE  IsStale(handles[s])'
    OBVIOUS
  <2>1. PICK r \in Refs : RemoveCall(r)
    BY OnlyRemovalFrees
  <2>2. /\ Usable(r) /\ Remove(At(r)) /\ handles' = Refreshed(r)
        /\ root' = root /\ version \in Nat /\ version' = version + 1
        /\ nodes' = DropSubtree(Unlink(nodes, At(r)), At(r))
    BY <2>1, TreeAssumption DEF RemoveCall, Remove, Restructure, HandlesInv, TreeInv, TypeOK
  <2>3. nodes'[At(r)] = Vacant
    <3>1. At(r) \in Slots
      BY <2>2, UsableLive, TableCells DEF HandlesInv, TreeInv, TypeOK
    <3>2. At(r) \in Walk(Unlink(nodes, At(r)), At(r))
      BY <3>1 DEF Walk
    <3> QED BY <2>2, <3>1, <3>2 DEF DropSubtree
  <2>4. handles[s] # Null /\ handles'[s].version = handles[s].version
    BY <2>2, <2>3 DEF Refreshed
  <2>5. handles[s].version \in Nat /\ handles[s].version <= version
    BY <2>4 DEF HandlesInv, AllFine, Fine, Handle
  <2> QED BY <2>2, <2>4, <2>5 DEF IsStale
<1> QED BY <1>1, HandlesInvariance, PTL DEF HandlesSpec, RemovalStalesAll
=============================================================================

----------------------------- MODULE TreeProofs -----------------------------
(***************************************************************************)
(* The safety properties of Tree for every set of slots and values, and    *)
(* that its moves do to the lists of children what they promise.           *)
(***************************************************************************)
EXTENDS TreeOrder, WalkProofs

(***************************************************************************)
(* The inductive invariant.  Each conjunct needs the others: the counts    *)
(* need the parent links, the links of a new last child need sibling lists *)
(* that end, and what remove frees needs both.                             *)
(***************************************************************************)
TreeInv == TypeOK /\ WellFormed(nodes)

(***************************************************************************)
(* A tree with its root only is well formed.                               *)
(***************************************************************************)
LEMMA InitTreeInv == TreeInit => TreeInv
<1> SUFFICES ASSUME TreeInit PROVE TreeInv
  OBVIOUS
<1> DEFINE Empty == [n \in Slots |-> Vacant]
<1>1. PICK k \in Kinds : nodes = [n \in Slots |-> IF n = root THEN NewNode(k) ELSE Vacant]
  BY DEF TreeInit
<1>2. root \in Slots /\ version = 0 /\ status = "running"
  BY DEF TreeInit
<1>3. Empty \in Table /\ Live(Empty) = {}
  BY DEF Table, Live
<1>4. WellFormed(Empty)
  BY <1>3 DEF WellFormed, LinksOK, LinkLive, SiblingsAgree, EndsAgree, ChildLinked,
              NoSiblingCycle, NoParentCycle, CountOK
<1>5. Empty[root] = Vacant
  BY <1>2
<1>6. nodes = Allocate(Empty, root, k)
  BY <1>1 DEF Allocate
<1> HIDE DEF Empty
<1>7. nodes \in Table /\ WellFormed(nodes)
  BY <1>1, <1>2, <1>3, <1>4, <1>5, <1>6, AllocKeeps
<1>8. TypeOK
  BY <1>2, <1>7, TreeAssumption DEF TypeOK
<1> QED BY <1>7, <1>8 DEF TreeInv

(***************************************************************************)
(* A move allowed by the code's own check and by Movable does not link a   *)
(* node below itself.                                                      *)
(***************************************************************************)
LEMMA MovableNoCycle ==
  ASSUME NEW p, NEW c, Movable(p, c), ~ WouldCreateCycle(nodes, p, c)
  PROVE  c \notin Ancestors(nodes, p)
BY DEF Movable, WouldCreateCycle

(***************************************************************************)
(* The three moves keep the invariant.                                     *)
(***************************************************************************)
LEMMA MoveTreeInv ==
  ASSUME TreeInv, NEW p \in Live(nodes), NEW c \in Live(nodes), Movable(p, c),
         \/ AppendChild(p, c)
         \/ Prepend(p, c)
         \/ \E a \in Children(nodes, p) \ {c} : InsertAfter(p, a, c)
  PROVE  TreeInv'
<1>1. nodes \in Table /\ WellFormed(nodes) /\ TypeOK
  BY DEF TreeInv, TypeOK
<1>2. /\ ~ WouldCreateCycle(nodes, p, c)
      /\ status = "running"
      /\ version < MaxVersion
      /\ version' = version + 1
      /\ UNCHANGED <<root, status>>
      /\ \/ nodes' = LinkLast(Detach(nodes, c), p, c)
         \/ nodes' = LinkFirst(Detach(nodes, c), p, c)
         \/ \E a \in Children(nodes, p) \ {c} : nodes' = LinkAfter(Detach(nodes, c), p, a, c)
  BY DEF AppendChild, Prepend, InsertAfter, Restructure
<1>3. c \notin Ancestors(nodes, p)
  BY <1>2, MovableNoCycle
<1>4. /\ nodes' \in Table /\ Live(nodes') = Live(nodes)
      /\ WellFormed(nodes')
      /\ \A n \in Live(nodes) : nodes'[n].parent = IF n = c THEN p ELSE nodes[n].parent
  BY <1>1, <1>2, <1>3, MoveKeeps
<1>5. TypeOK'
  BY <1>1, <1>2, <1>4, TreeAssumption DEF TypeOK
<1> QED BY <1>4, <1>5 DEF TreeInv

(***************************************************************************)
(* What is below a node other than the root does not reach the root, which *)
(* has no parent.                                                          *)
(***************************************************************************)
LEMMA RootSpared ==
  ASSUME NEW N \in Table, WellFormed(N), NEW r \in Live(N), N[r].parent = Null,
         NEW x \in Live(N), x # r
  PROVE  LET M == DropSubtree(Unlink(N, x), x)
         IN  /\ M \in Table /\ WellFormed(M)
             /\ r \in Live(M) /\ M[r].parent = Null
<1> DEFINE U == Unlink(N, x)
           M == DropSubtree(U, x)
<1>1. {N[x].parent, N[x].prev, N[x].next} \subseteq Live(N) \union {Null}
  BY DEF WellFormed, LinksOK, LinkLive
<1>2. /\ U \in Table /\ Live(U) = Live(N)
      /\ U[x].parent = Null
      /\ \A n \in Live(N) : U[n].parent = IF n = x THEN Null ELSE N[n].parent
  BY <1>1, UnlinkFields
<1>3. LinksOK(U) /\ NoSiblingCycle(U)
  BY UnlinkLinks, UnlinkSiblingCycle DEF WellFormed
<1>4. /\ M \in Table
      /\ Live(M) = Live(N) \ Walk(U, x)
      /\ WellFormed(M)
      /\ \A m \in Live(M) : M[m].parent = N[m].parent
  BY RemoveKeeps
<1> HIDE DEF U, M
<1>5. r \notin Walk(U, x)
  <2>1. /\ Walk(U, x) \subseteq Live(U)
        /\ \A m \in Walk(U, x) \ {x} : U[m].parent \in Walk(U, x)
    BY <1>2, <1>3, WalkDescends
  <2>2. U[r].parent = Null
    BY <1>2
  <2>3. Null \notin Live(U)
    BY <1>2, TableCells
  <2> QED BY <2>1, <2>2, <2>3
<1> QED BY <1>4, <1>5 DEF U, M

(***************************************************************************)
(* Removal keeps the invariant.                                            *)
(***************************************************************************)
LEMMA RemoveTreeInv ==
  ASSUME TreeInv, NEW x \in Live(nodes), Remove(x)
  PROVE  TreeInv'
<1>1. nodes \in Table /\ WellFormed(nodes) /\ TypeOK
  BY DEF TreeInv, TypeOK
<1>2. /\ x # root
      /\ version < MaxVersion
      /\ version' = version + 1
      /\ UNCHANGED <<root, status>>
      /\ nodes' = DropSubtree(Unlink(nodes, x), x)
  BY DEF Remove, Restructure
<1>3. nodes' \in Table /\ WellFormed(nodes')
  BY <1>1, <1>2, RemoveKeeps
<1>4. TypeOK'
  BY <1>1, <1>2, <1>3, TreeAssumption DEF TypeOK
<1> QED BY <1>3, <1>4 DEF TreeInv

(***************************************************************************)
(* Every step keeps the invariant.                                         *)
(***************************************************************************)
LEMMA NextTreeInv == TreeInv /\ [TreeNext]_treeVars => TreeInv'
<1> SUFFICES ASSUME TreeInv, [TreeNext]_treeVars PROVE TreeInv'
  OBVIOUS
<1>1. CASE Create
  <2>1. PICK n \in Slots, k \in Kinds : Alloc(n, k)
    BY <1>1 DEF Create
  <2>2. nodes \in Table /\ WellFormed(nodes) /\ TypeOK
    BY DEF TreeInv, TypeOK
  <2>3. /\ nodes[n] = Vacant /\ nodes' = Allocate(nodes, n, k)
        /\ UNCHANGED <<root, version, status>>
    BY <2>1 DEF Alloc
  <2>4. /\ nodes' \in Table /\ WellFormed(nodes')
        /\ Live(nodes') = Live(nodes) \union {n}
        /\ \A m \in Live(nodes) : nodes'[m] = nodes[m]
    BY <2>1, <2>2, <2>3, AllocKeeps
  <2>5. TypeOK'
    BY <2>2, <2>3, <2>4 DEF TypeOK
  <2> QED BY <2>4, <2>5 DEF TreeInv
<1>2. ASSUME NEW p \in Live(nodes), NEW c \in Live(nodes), Movable(p, c),
             \/ AppendChild(p, c)
             \/ Prepend(p, c)
             \/ \E a \in Children(nodes, p) \ {c} : InsertAfter(p, a, c)
      PROVE  TreeInv'
  BY <1>2, MoveTreeInv
<1>3. ASSUME NEW p \in Live(nodes), NEW c \in Live(nodes), CyclePanic(p, c)
      PROVE  TreeInv'
  BY <1>3 DEF CyclePanic, TreeInv, TypeOK
<1>4. ASSUME NEW n \in Live(nodes), Remove(n)
      PROVE  TreeInv'
  BY <1>4, RemoveTreeInv
<1>5. CASE UNCHANGED treeVars
  BY <1>5 DEF treeVars, TreeInv, TypeOK
<1> QED BY <1>1, <1>2, <1>3, <1>4, <1>5 DEF TreeNext

(***************************************************************************)
(* The invariant holds of every reachable state.                           *)
(***************************************************************************)
THEOREM Invariance == TreeSpec => []TreeInv
BY InitTreeInv, NextTreeInv, PTL DEF TreeSpec

(***************************************************************************)
(* The slab holds well-typed nodes and the process runs or has aborted.    *)
(***************************************************************************)
THEOREM TypeCorrect == TreeSpec => []TypeOK
<1>1. TreeInv => TypeOK
  BY DEF TreeInv
<1> QED BY <1>1, Invariance, PTL

(***************************************************************************)
(* Parent, child and sibling links always agree and never dangle.          *)
(***************************************************************************)
THEOREM LinksCorrect == TreeSpec => []LinksAgree
<1>1. TreeInv => LinksAgree
  BY DEF TreeInv, WellFormed, LinksAgree
<1> QED BY <1>1, Invariance, PTL

(***************************************************************************)
(* No parent chain and no sibling list ever closes on itself.              *)
(***************************************************************************)
THEOREM WalksTerminate == TreeSpec => []WalksEnd
<1>1. TreeInv => WalksEnd
  BY DEF TreeInv, WellFormed, WalksEnd
<1> QED BY <1>1, Invariance, PTL

(***************************************************************************)
(* child_count is the number of children, so that the expect in            *)
(* __getitem__ never fails.                                                *)
(***************************************************************************)
THEOREM CountsCorrect == TreeSpec => []CountsAgree
<1>1. TreeInv => CountsAgree
  BY DEF TreeInv, WellFormed, CountsAgree
<1> QED BY <1>1, Invariance, PTL

(***************************************************************************)
(* The walk of drop_subtree from an unattached node without children stays *)
(* where it is.                                                            *)
(***************************************************************************)
LEMMA ChildlessAlone ==
  ASSUME NEW N \in Table, WellFormed(N), NEW x \in Live(N),
         N[x].parent = Null, N[x].first = Null
  PROVE  Walk(Unlink(N, x), x) \subseteq {x}
<1> DEFINE U == Unlink(N, x)
<1>1. x \in Slots /\ N[x].prev = Null /\ N[x].next = Null /\ N[x].last = Null
  BY TableCells DEF WellFormed, LinksOK, ChildLinked, EndsAgree
<1>2. U[x].last = Null /\ U[x].prev = Null
  BY <1>1, TableCells DEF Unlink, Table, Node
<1> HIDE DEF U
<1>3. {x} \in SUBSET Slots /\ x \in {x} /\ WalkClosed(U, {x})
  BY <1>1, <1>2 DEF WalkClosed
<1>4. Walk(U, x) \subseteq {x}
  BY <1>3 DEF Walk
<1> QED BY <1>4 DEF U

(***************************************************************************)
(* would_create_cycle and the walk of drop_subtree agree on which nodes    *)
(* are below a node, whenever that node is attached or has no children.    *)
(***************************************************************************)
THEOREM CycleCheckExact == TreeSpec => []CycleRefused
<1>1. TreeInv => CycleRefused
  <2> SUFFICES ASSUME TreeInv, NEW p \in Live(nodes), NEW c \in Live(nodes)
               PROVE  LET below == p \in Walk(Unlink(nodes, c), c)
                      IN  /\ WouldCreateCycle(nodes, p, c) => below
                          /\ below /\ (nodes[c].parent # Null \/ nodes[c].first = Null) =>
                               WouldCreateCycle(nodes, p, c)
    BY DEF CycleRefused
  <2>1. nodes \in Table /\ WellFormed(nodes) /\ p \in Slots
    BY TableCells DEF TreeInv, TypeOK
  <2>2. p \in Walk(Unlink(nodes, c), c) <=> c \in Ancestors(nodes, p)
    BY <2>1, FreedAreDescendants
  <2>3. p \in Ancestors(nodes, p)
    BY <2>1, AncestorsClosed
  <2>4. nodes[c].parent = Null /\ nodes[c].first = Null =>
          Walk(Unlink(nodes, c), c) \subseteq {c}
    BY <2>1, ChildlessAlone
  <2> QED BY <2>2, <2>3, <2>4 DEF WouldCreateCycle
<1> QED BY <1>1, Invariance, PTL

(***************************************************************************)
(* A step frees either nothing or a node other than the root and exactly   *)
(* its descendants.                                                        *)
(***************************************************************************)
THEOREM RemovalFreesSubtree == TreeSpec => FreesSubtree
<1>1. TreeInv /\ [TreeNext]_treeVars => [Frees]_treeVars
  <2> SUFFICES ASSUME TreeInv, TreeNext PROVE Frees
    OBVIOUS
  <2>1. nodes \in Table /\ WellFormed(nodes)
    BY DEF TreeInv, TypeOK
  <2>2. CASE Live(nodes) \subseteq Live(nodes')
    BY <2>2 DEF Frees
  <2>3. CASE Create
    <3>1. PICK n \in Slots, k \in Kinds : nodes[n] = Vacant /\ nodes' = Allocate(nodes, n, k)
      BY <2>3 DEF Create, Alloc
    <3>2. Live(nodes') = Live(nodes) \union {n}
      BY <2>1, <3>1, AllocKeeps
    <3> QED BY <2>2, <3>2
  <2>4. ASSUME NEW p \in Live(nodes), NEW c \in Live(nodes), Movable(p, c),
               \/ AppendChild(p, c)
               \/ Prepend(p, c)
               \/ \E a \in Children(nodes, p) \ {c} : InsertAfter(p, a, c)
        PROVE  Frees
    <3>1. /\ ~ WouldCreateCycle(nodes, p, c)
          /\ \/ nodes' = LinkLast(Detach(nodes, c), p, c)
             \/ nodes' = LinkFirst(Detach(nodes, c), p, c)
             \/ \E a \in Children(nodes, p) \ {c} : nodes' = LinkAfter(Detach(nodes, c), p, a, c)
      BY <2>4 DEF AppendChild, Prepend, InsertAfter, Restructure
    <3>2. c \notin Ancestors(nodes, p)
      BY <2>4, <3>1, MovableNoCycle
    <3>3. Live(nodes') = Live(nodes)
      BY <2>1, <3>1, <3>2, MoveKeeps
    <3> QED BY <2>2, <3>3
  <2>5. ASSUME NEW p \in Live(nodes), NEW c \in Live(nodes), CyclePanic(p, c)
        PROVE  Frees
    BY <2>2, <2>5 DEF CyclePanic
  <2>6. ASSUME NEW x \in Live(nodes), Remove(x)
        PROVE  Frees
    <3>1. x # root /\ nodes' = DropSubtree(Unlink(nodes, x), x)
      BY <2>6 DEF Remove, Restructure
    <3>2. Live(nodes') = Live(nodes) \ Walk(Unlink(nodes, x), x)
      BY <2>1, <3>1, RemoveKeeps
    <3>3. Walk(Unlink(nodes, x), x) = {m \in Live(nodes) : x \in Ancestors(nodes, m)}
      BY <2>1, FreedAreDescendants
    <3>4. x \in Ancestors(nodes, x)
      BY <2>1, AncestorsClosed, TableCells
    <3> QED BY <3>1, <3>2, <3>3, <3>4 DEF Frees
  <2> QED BY <2>3, <2>4, <2>5, <2>6 DEF TreeNext
<1> QED BY <1>1, Invariance, PTL DEF TreeSpec, FreesSubtree, Frees
-----------------------------------------------------------------------------
(***************************************************************************)
(* One element taken out of a sequence.                                    *)
(***************************************************************************)
LEMMA TakenOut ==
  ASSUME NEW T, NEW s \in Seq(T), NEW i \in 1 .. Len(s)
  PROVE  LET r == SubSeq(s, 1, i - 1) \o SubSeq(s, i + 1, Len(s))
         IN  /\ r \in Seq(T) /\ Len(s) \in Nat /\ Len(r) = Len(s) - 1
             /\ \A j \in 1 .. Len(r) : r[j] = IF j < i THEN s[j] ELSE s[j + 1]
<1> DEFINE u == SubSeq(s, 1, i - 1)
           v == SubSeq(s, i + 1, Len(s))
<1>1. Len(s) \in Nat /\ \A j \in 1 .. Len(s) : s[j] \in T
  BY LenProperties, ElementOfSeq
<1>2. /\ u \in Seq(T) /\ Len(u) = i - 1
      /\ \A j \in 1 .. i - 1 : u[j] = s[j]
  <2>1. 1 \in Int /\ i - 1 \in Int /\ \A j \in 1 .. i - 1 : s[j] \in T
    BY <1>1
  <2>2. /\ u \in Seq(T) /\ Len(u) = IF 1 <= i - 1 THEN i - 1 - 1 + 1 ELSE 0
        /\ \A j \in 1 .. i - 1 - 1 + 1 : u[j] = s[1 + j - 1]
    BY <2>1, SubSeqProperties
  <2> QED BY <1>1, <2>2
<1>3. /\ v \in Seq(T) /\ Len(v) = Len(s) - i
      /\ \A j \in 1 .. Len(s) - i : v[j] = s[i + j]
  <2>1. i + 1 \in Int /\ Len(s) \in Int /\ \A j \in i + 1 .. Len(s) : s[j] \in T
    BY <1>1
  <2>2. /\ v \in Seq(T) /\ Len(v) = IF i + 1 <= Len(s) THEN Len(s) - (i + 1) + 1 ELSE 0
        /\ \A j \in 1 .. Len(s) - (i + 1) + 1 : v[j] = s[i + 1 + j - 1]
    BY <2>1, SubSeqProperties
  <2> QED BY <1>1, <2>2
<1> HIDE DEF u, v
<1>4. /\ u \o v \in Seq(T) /\ Len(u \o v) = Len(u) + Len(v)
      /\ \A j \in 1 .. Len(u) + Len(v) :
           (u \o v)[j] = IF j <= Len(u) THEN u[j] ELSE v[j - Len(u)]
  BY <1>2, <1>3, ConcatProperties
<1> DEFINE r == u \o v
           n == Len(s)
<1>5. r \in Seq(T) /\ Len(r) = n - 1
  BY <1>1, <1>2, <1>3, <1>4
<1>6. ASSUME NEW j \in 1 .. n - 1 PROVE r[j] = IF j < i THEN s[j] ELSE s[j + 1]
  <2>1. CASE j < i
    BY <1>1, <1>2, <1>3, <1>4, <2>1
  <2>2. CASE ~ (j < i)
    <3>1. r[j] = v[j - (i - 1)] /\ j - (i - 1) \in 1 .. n - i /\ i + (j - (i - 1)) = j + 1
      <4>1. j \in 1 .. Len(u) + Len(v) /\ ~ (j <= Len(u)) /\ Len(u) = i - 1
        BY <1>1, <1>2, <1>3, <2>2
      <4>2. r[j] = v[j - Len(u)]
        BY <1>4, <4>1
      <4>3. j - (i - 1) \in 1 .. n - i /\ i + (j - (i - 1)) = j + 1
        BY <1>1, <2>2
      <4> QED BY <4>1, <4>2, <4>3
    <3> QED BY <1>3, <2>2, <3>1
  <2> QED BY <2>1, <2>2
<1> QED BY <1>1, <1>5, <1>6 DEF u, v

(***************************************************************************)
(* One element put into a sequence after its i-th.                         *)
(***************************************************************************)
HasIn(T, s, i, c, r) ==
  /\ r \in Seq(T) /\ Len(r) = Len(s) + 1
  /\ \A j \in 1 .. Len(s) + 1 :
       r[j] = IF j <= i THEN s[j] ELSE IF j = i + 1 THEN c ELSE s[j - 1]

LEMMA PutIn ==
  ASSUME NEW T, NEW s \in Seq(T), NEW i \in 1 .. Len(s), NEW c \in T
  PROVE  HasIn(T, s, i, c, SubSeq(s, 1, i) \o <<c>> \o SubSeq(s, i + 1, Len(s)))
<1> DEFINE u == SubSeq(s, 1, i)
           v == SubSeq(s, i + 1, Len(s))
           w == <<c>>
<1>1. Len(s) \in Nat /\ \A j \in 1 .. Len(s) : s[j] \in T
  BY LenProperties, ElementOfSeq
<1>2. /\ u \in Seq(T) /\ Len(u) = i
      /\ \A j \in 1 .. i : u[j] = s[j]
  <2>1. 1 \in Int /\ i \in Int /\ \A j \in 1 .. i : s[j] \in T
    BY <1>1
  <2>2. /\ u \in Seq(T) /\ Len(u) = IF 1 <= i THEN i - 1 + 1 ELSE 0
        /\ \A j \in 1 .. i - 1 + 1 : u[j] = s[1 + j - 1]
    BY <2>1, SubSeqProperties
  <2> QED BY <1>1, <2>2
<1>3. /\ v \in Seq(T) /\ Len(v) = Len(s) - i
      /\ \A j \in 1 .. Len(s) - i : v[j] = s[i + j]
  <2>1. i + 1 \in Int /\ Len(s) \in Int /\ \A j \in i + 1 .. Len(s) : s[j] \in T
    BY <1>1
  <2>2. /\ v \in Seq(T) /\ Len(v) = IF i + 1 <= Len(s) THEN Len(s) - (i + 1) + 1 ELSE 0
        /\ \A j \in 1 .. Len(s) - (i + 1) + 1 : v[j] = s[i + 1 + j - 1]
    BY <2>1, SubSeqProperties
  <2> QED BY <1>1, <2>2
<1>4. w \in Seq(T) /\ Len(w) = 1 /\ w[1] = c
  OBVIOUS
<1> HIDE DEF u, v, w
<1>5. /\ u \o w \in Seq(T) /\ Len(u \o w) = i + 1
      /\ \A j \in 1 .. i + 1 : (u \o w)[j] = IF j <= i THEN s[j] ELSE c
  <2>1. /\ u \o w \in Seq(T) /\ Len(u \o w) = Len(u) + Len(w)
        /\ \A j \in 1 .. Len(u) + Len(w) :
             (u \o w)[j] = IF j <= Len(u) THEN u[j] ELSE w[j - Len(u)]
    BY <1>2, <1>4, ConcatProperties
  <2>2. i + 1 - i = 1
    OBVIOUS
  <2> QED BY <1>2, <1>4, <2>1, <2>2
<1> DEFINE x == u \o w
<1> HIDE DEF x
<1>6. /\ x \o v \in Seq(T) /\ Len(x \o v) = Len(x) + Len(v)
      /\ \A j \in 1 .. Len(x) + Len(v) :
           (x \o v)[j] = IF j <= Len(x) THEN x[j] ELSE v[j - Len(x)]
  BY <1>3, <1>5, ConcatProperties DEF x
<1> DEFINE r == x \o v
           n == Len(s)
<1>7. r \in Seq(T) /\ Len(r) = n + 1
  BY <1>1, <1>3, <1>5, <1>6 DEF x
<1>8. ASSUME NEW j \in 1 .. n + 1
      PROVE  r[j] = IF j <= i THEN s[j] ELSE IF j = i + 1 THEN c ELSE s[j - 1]
  <2>1. CASE j <= i + 1
    <3>1. r[j] = x[j] /\ j \in 1 .. i + 1
      BY <1>1, <1>3, <1>5, <1>6, <2>1 DEF x
    <3> QED BY <1>5, <2>1, <3>1 DEF x
  <2>2. CASE ~ (j <= i + 1)
    <3>1. r[j] = v[j - (i + 1)] /\ j - (i + 1) \in 1 .. n - i /\ i + (j - (i + 1)) = j - 1
      BY <1>1, <1>3, <1>5, <1>6, <2>2 DEF x
    <3> QED BY <1>3, <2>2, <3>1
  <2> QED BY <2>1, <2>2
<1> HIDE DEF r
<1>9. HasIn(T, s, i, c, r)
  BY <1>7, <1>8 DEF HasIn
<1> QED BY <1>9 DEF r, u, v, w, x

(***************************************************************************)
(* Where a node stands among the children of another.                      *)
(***************************************************************************)
LEMMA ChildAt ==
  ASSUME NEW N \in Table, LinksOK(N), NoSiblingCycle(N), NEW n \in Live(N), NEW c
  PROVE  LET s == Yielded(N, n)
         IN  /\ c \notin Children(N, n) => Without(s, c) = s
             /\ c \in Children(N, n) =>
                  \E i \in 1 .. Len(s) :
                    /\ s[i] = c /\ PlaceOf(s, c) = i
                    /\ Without(s, c) = SubSeq(s, 1, i - 1) \o SubSeq(s, i + 1, Len(s))
<1> DEFINE s == Yielded(N, n)
<1>1. /\ s \in Seq(Live(N)) /\ {s[i] : i \in 1 .. Len(s)} = Children(N, n)
      /\ \A i, j \in 1 .. Len(s) : s[i] = s[j] => i = j
  BY YieldedChildren DEF YieldsChildren
<1> HIDE DEF s
<1>2. DOMAIN s = 1 .. Len(s)
  BY <1>1, LenProperties
<1>3. CASE c \notin Children(N, n)
  <2>1. ~ \E i \in DOMAIN s : s[i] = c
    BY <1>1, <1>2, <1>3
  <2> QED BY <1>3, <2>1 DEF Without, s
<1>4. CASE c \in Children(N, n)
  <2>1. PICK i \in 1 .. Len(s) : s[i] = c
    BY <1>1, <1>4
  <2>2. PlaceOf(s, c) = i
    BY <1>1, <1>2, <2>1 DEF PlaceOf
  <2>3. Without(s, c) = SubSeq(s, 1, i - 1) \o SubSeq(s, i + 1, Len(s))
    BY <1>2, <2>1, <2>2 DEF Without
  <2> QED BY <1>4, <2>1, <2>2, <2>3 DEF s
<1> QED BY <1>3, <1>4

(***************************************************************************)
(* The children of a node that no link of is written stay as they are.     *)
(***************************************************************************)
LEMMA OthersYield ==
  ASSUME NEW N \in Table, LinksOK(N), NoSiblingCycle(N),
         NEW M \in Table, LinksOK(M), NoSiblingCycle(M),
         NEW n \in Live(N) \intersect Live(M), Children(N, n) \subseteq Live(M),
         M[n].first = N[n].first,
         \A k \in Children(N, n) : M[k].next = N[k].next
  PROVE  Yielded(M, n) = Yielded(N, n)
<1> DEFINE s == Yielded(N, n)
<1>1. Chains(N, n, s) /\ {s[i] : i \in 1 .. Len(s)} = Children(N, n)
  BY YieldedChains, YieldedChildren DEF YieldsChildren
<1> HIDE DEF s
<1>2. \A i \in 1 .. Len(s) : s[i] \in Children(N, n)
  BY <1>1
<1>3. s \in Seq(Live(M))
  <2>1. Len(s) \in Nat /\ s \in [1 .. Len(s) -> Live(N)]
    BY <1>1, LenProperties DEF Chains
  <2>2. s \in [1 .. Len(s) -> Live(M)]
    BY <1>2, <2>1
  <2> QED BY <2>1, <2>2
<1>4. Chains(M, n, s)
  BY <1>1, <1>2, <1>3 DEF Chains
<1> QED BY <1>4, ChainYielded DEF s

(***************************************************************************)
(* unlink takes a node out of the children of its parent, and nothing      *)
(* else.                                                                   *)
(***************************************************************************)
LEMMA UnlinkYields ==
  ASSUME NEW N \in Table, LinksOK(N), NoSiblingCycle(N), NEW c \in Live(N), NEW n \in Live(N)
  PROVE  Yielded(Unlink(N, c), n) = Without(Yielded(N, n), c)
<1> DEFINE U == Unlink(N, c)
           s == Yielded(N, n)
           l == N[c].prev
           e == N[c].next
<1>1. /\ U \in Table /\ LinksOK(U) /\ NoSiblingCycle(U) /\ Live(U) = Live(N)
      /\ \A k \in Live(N) :
           /\ U[k].first = IF k = N[c].parent /\ l = Null THEN e ELSE N[k].first
           /\ U[k].next = IF k = c THEN Null ELSE IF k = l THEN e ELSE N[k].next
  <2>1. {N[c].parent, N[c].prev, N[c].next} \subseteq Live(N) \union {Null}
    BY DEF LinksOK, LinkLive
  <2> QED BY <2>1, UnlinkFields, UnlinkLinks, UnlinkSiblingCycle
<1>2. Null \notin Live(N) /\ l \in Live(N) \union {Null} /\ Children(N, n) \subseteq Live(N)
  BY TableCells DEF LinksOK, LinkLive, Children
<1>3. CASE c \notin Children(N, n)
  <2>1. N[c].parent # n
    BY <1>3 DEF Children
  <2>2. ASSUME NEW k \in Children(N, n) PROVE k # c /\ k # l
    <3>1. l # Null => N[l].parent = N[c].parent
      BY <1>2 DEF LinksOK, SiblingsAgree
    <3> QED BY <1>2, <1>3, <2>1, <3>1 DEF Children
  <2>3. U[n].first = N[n].first /\ \A k \in Children(N, n) : U[k].next = N[k].next
    BY <1>1, <1>2, <2>1, <2>2
  <2> HIDE DEF U
  <2>4. Yielded(U, n) = s
    BY <1>1, <1>2, <2>3, OthersYield
  <2> QED BY <1>3, <2>4, ChildAt DEF U
<1>4. CASE c \in Children(N, n)
  <2>1. Chains(N, n, s) /\ YieldsChildren(N, n, s)
    BY YieldedChains, YieldedChildren
  <2>2. PICK i \in 1 .. Len(s) :
          s[i] = c /\ Without(s, c) = SubSeq(s, 1, i - 1) \o SubSeq(s, i + 1, Len(s))
    BY <1>4, ChildAt
  <2> DEFINE r == SubSeq(s, 1, i - 1) \o SubSeq(s, i + 1, Len(s))
             m == Len(s)
  <2>3. /\ r \in Seq(Live(N)) /\ m \in Nat /\ Len(r) = m - 1
        /\ \A j \in 1 .. m - 1 : r[j] = IF j < i THEN s[j] ELSE s[j + 1]
    <3>1. s \in Seq(Live(N))
      BY <2>1 DEF Chains
    <3> QED BY <3>1, TakenOut
  <2> HIDE DEF r, s
  <2>4. /\ \A j \in 1 .. m : s[j] \in Live(N)
        /\ \A j, k \in 1 .. m : s[j] = s[k] => j = k
        /\ N[n].first = s[1]
        /\ \A j \in 1 .. m : N[s[j]].next = IF j < m THEN s[j + 1] ELSE Null
    BY <2>1, <2>3, ElementOfSeq DEF Chains, YieldsChildren
  <2>5. l = IF i = 1 THEN Null ELSE s[i - 1]
    <3>1. CASE i = 1
      BY <1>2, <2>2, <2>4, <3>1 DEF LinksOK, EndsAgree
    <3>2. CASE i # 1
      BY <2>1, <2>2, <3>2, SMTT(30) DEF YieldsChildren
    <3> QED BY <3>1, <3>2
  <2>6. e = IF i < m THEN s[i + 1] ELSE Null
    BY <2>2, <2>4
  <2>7. N[c].parent = n
    BY <1>4 DEF Children
  <2> HIDE DEF l, e, U
  <2>8. U[n].first = IF m - 1 = 0 THEN Null ELSE r[1]
    <3>1. U[n].first = IF i = 1 THEN e ELSE s[1]
      <4>1. CASE i = 1
        BY <1>1, <2>5, <2>7, <4>1
      <4>2. CASE i # 1
        <5>1. l # Null
          BY <1>2, <2>3, <2>4, <2>5, <4>2
        <5> QED BY <1>1, <2>4, <4>2, <5>1
      <4> QED BY <4>1, <4>2
    <3>2. CASE i = 1
      BY <2>3, <2>6, <3>1, <3>2
    <3>3. CASE i # 1
      BY <2>3, <3>1, <3>3
    <3> QED BY <3>2, <3>3
  <2>9. ASSUME NEW j \in 1 .. m - 1
        PROVE  U[r[j]].next = IF j < m - 1 THEN r[j + 1] ELSE Null
    <3>1. CASE j < i - 1
      <4>1. j \in 1 .. m /\ i - 1 \in 1 .. m /\ j < m /\ j < m - 1 /\ j < i /\ j + 1 < i
            /\ j + 1 \in 1 .. m - 1 /\ i # 1
        BY <2>3, <3>1
      <4>2. r[j] = s[j] /\ r[j + 1] = s[j + 1]
        BY <2>3, <4>1
      <4>3. s[j] # c /\ s[j] # l
        <5>1. j # i /\ j # i - 1
          BY <2>3, <3>1
        <5>2. s[j] # s[i]
          BY <2>4, <4>1, <5>1
        <5>3. s[j] # s[i - 1]
          BY <2>4, <4>1, <5>1
        <5> QED BY <2>2, <2>5, <4>1, <5>2, <5>3
      <4>4. U[s[j]].next = N[s[j]].next
        BY <1>1, <2>4, <4>1, <4>3
      <4> QED BY <2>4, <4>1, <4>2, <4>4
    <3>2. CASE j = i - 1
      <4>1. j \in 1 .. m /\ j < i /\ i # 1 /\ (j < m - 1 <=> i < m) /\ j + 1 = i
        BY <2>3, <3>2
      <4>2. r[j] = s[j] /\ (i < m => r[j + 1] = s[i + 1])
        BY <2>3, <4>1
      <4>3. s[j] # c /\ s[j] = l
        BY <2>2, <2>4, <2>5, <3>2, <4>1
      <4>4. U[s[j]].next = e
        BY <1>1, <2>4, <4>1, <4>3
      <4> QED BY <2>6, <4>1, <4>2, <4>4
    <3>3. CASE j > i - 1
      <4>1. j + 1 \in 1 .. m /\ ~ (j < i) /\ j + 1 # i /\ j + 1 # i - 1
            /\ (j < m - 1 <=> j + 1 < m)
        BY <2>3, <3>3
      <4>2. r[j] = s[j + 1] /\ (j < m - 1 => r[j + 1] = s[(j + 1) + 1])
        BY <2>3, <4>1
      <4>3. s[j + 1] # c /\ s[j + 1] # l
        <5>1. s[j + 1] # c
          BY <2>2, <2>4, <4>1
        <5>2. CASE i = 1
          BY <1>2, <2>4, <2>5, <4>1, <5>1, <5>2
        <5>3. CASE i # 1
          <6>1. i - 1 \in 1 .. m
            BY <2>3, <5>3
          <6> QED BY <2>4, <2>5, <4>1, <5>1, <5>3, <6>1
        <5> QED BY <5>2, <5>3
      <4>4. U[s[j + 1]].next = N[s[j + 1]].next
        BY <1>1, <2>4, <4>1, <4>3
      <4> QED BY <2>4, <4>1, <4>2, <4>4
    <3> QED BY <2>3, <3>1, <3>2, <3>3
  <2>10. Chains(U, n, r)
    BY <1>1, <2>3, <2>8, <2>9 DEF Chains
  <2>11. Yielded(U, n) = r
    BY <1>1, <2>10, ChainYielded
  <2> QED BY <2>2, <2>11 DEF U, r, s
<1> QED BY <1>3, <1>4

(***************************************************************************)
(* So does leaving the former parent.                                      *)
(***************************************************************************)
LEMMA DetachYields ==
  ASSUME NEW N \in Table, WellFormed(N), NEW c \in Live(N), NEW n \in Live(N)
  PROVE  Yielded(Detach(N, c), n) = Without(Yielded(N, n), c)
<1>1. LinksOK(N) /\ NoSiblingCycle(N) /\ Null \notin Live(N)
  BY TableCells DEF WellFormed
<1>2. CASE N[c].parent # Null
  BY <1>1, <1>2, UnlinkYields DEF Detach
<1>3. CASE N[c].parent = Null
  <2>1. c \notin Children(N, n) /\ Detach(N, c) = N
    BY <1>1, <1>3 DEF Children, Detach
  <2> QED BY <1>1, <2>1, ChildAt
<1> QED BY <1>2, <1>3

(***************************************************************************)
(* What the three links ask of a table: c is in it, and hangs nowhere.     *)
(***************************************************************************)
Loose(D, p, c) ==
  /\ D \in Table /\ LinksOK(D) /\ NoSiblingCycle(D)
  /\ p \in Live(D) /\ c \in Live(D) /\ p # c /\ D[c].parent = Null

\* M is what such a table has become: only c and below p it was written.
Spares(D, p, c, M) ==
  /\ M \in Table /\ LinksOK(M) /\ NoSiblingCycle(M) /\ Live(M) = Live(D)
  /\ \A k \in Live(D) \ {p} : M[k].first = D[k].first
  /\ \A k \in Live(D) : k # c /\ D[k].parent # p => M[k].next = D[k].next

(***************************************************************************)
(* The other nodes keep their children: none of them is written.           *)
(***************************************************************************)
LEMMA LooseOthers ==
  ASSUME NEW D, NEW p, NEW c, Loose(D, p, c), NEW M, Spares(D, p, c, M), NEW n \in Live(D)
  PROVE  n # p => Yielded(M, n) = Yielded(D, n)
<1> SUFFICES ASSUME n # p PROVE Yielded(M, n) = Yielded(D, n)
  OBVIOUS
<1>1. \A k \in Children(D, n) : k \in Live(D) /\ k # c /\ D[k].parent # p
  <2>1. n # Null
    BY TableCells DEF Loose
  <2> QED BY <2>1 DEF Loose, Children
<1>2. \A k \in Children(D, n) : M[k].next = D[k].next
  BY <1>1 DEF Spares
<1>3. Children(D, n) \subseteq Live(M) /\ M[n].first = D[n].first
  BY DEF Children, Spares
<1> QED BY <1>2, <1>3, OthersYield DEF Loose, Spares

(***************************************************************************)
(* append links c behind the children that p has.                          *)
(***************************************************************************)
LEMMA LastYields ==
  ASSUME NEW D, NEW p, NEW c, Loose(D, p, c), NEW n \in Live(D)
  PROVE  LET M == LinkLast(D, p, c)
         IN  /\ Live(M) = Live(D)
             /\ Yielded(M, n) = IF n = p THEN Append(Yielded(D, n), c) ELSE Yielded(D, n)
<1> DEFINE M == LinkLast(D, p, c)
           l == D[p].last
           s == Yielded(D, p)
           m == Len(s)
           r == Append(s, c)
<1>1. /\ M \in Table /\ LinksOK(M) /\ NoSiblingCycle(M) /\ Live(M) = Live(D)
      /\ \A k \in Live(D) :
           /\ M[k].next = IF k = l THEN c ELSE IF k = c THEN Null ELSE D[k].next
           /\ M[k].first = IF k = p /\ l = Null THEN c ELSE D[k].first
  <2>1. D[p].last \in Live(D) \union {Null}
    BY DEF Loose, LinksOK, LinkLive
  <2> QED BY <2>1, LinkLastFields, LinkLastLinks DEF Loose
<1>2. Null \notin Live(D) /\ (l # Null => l \in Live(D) /\ D[l].parent = p /\ D[l].next = Null)
  BY TableCells DEF Loose, LinksOK, LinkLive, EndsAgree
<1>3. Chains(D, p, s) /\ YieldsChildren(D, p, s)
  BY YieldedChains, YieldedChildren DEF Loose
<1>4. /\ s \in Seq(Live(D)) /\ m \in Nat /\ \A i \in 1 .. m : s[i] \in Live(D)
      /\ r \in Seq(Live(D)) /\ Len(r) = m + 1 /\ r[m + 1] = c
      /\ \A i \in 1 .. m : r[i] = s[i]
  <2>1. s \in Seq(Live(D)) /\ c \in Live(D)
    BY <1>3 DEF Chains, Loose
  <2> HIDE DEF s
  <2> QED BY <2>1, LenProperties, ElementOfSeq, AppendProperties
<1>5. ASSUME n # p PROVE Yielded(M, n) = Yielded(D, n)
  <2>1. \A k \in Live(D) \ {p} : M[k].first = D[k].first
    BY <1>1
  <2>2. \A k \in Live(D) : k # c /\ D[k].parent # p => M[k].next = D[k].next
    BY <1>1, <1>2
  <2> HIDE DEF M
  <2>3. Spares(D, p, c, M)
    BY <1>1, <2>1, <2>2 DEF Spares
  <2> QED BY <1>5, <2>3, LooseOthers
<1>6. ASSUME n = p PROVE Yielded(M, n) = r
  <2> HIDE DEF r, s, M
  <2>1. \A i \in 1 .. m : /\ D[s[i]].next = IF i < m THEN s[i + 1] ELSE Null
                          /\ D[s[i]].parent = p /\ s[i] # c
    BY <1>2, <1>3 DEF Chains, YieldsChildren, Children, Loose
  <2>2. D[p].first = IF m = 0 THEN Null ELSE s[1]
    BY <1>3 DEF Chains
  <2>3. l = IF m = 0 THEN Null ELSE s[m]
    <3>1. CASE m = 0
      BY <2>2, <3>1 DEF Loose, LinksOK, EndsAgree
    <3>2. CASE m # 0
      <4>1. s[m] \in Live(D) /\ D[s[m]].next = Null /\ D[s[m]].parent = p
        BY <1>4, <2>1, <3>2
      <4> QED BY <1>2, <3>2, <4>1 DEF Loose, LinksOK, ChildLinked
    <3> QED BY <3>1, <3>2
  <2>4. M[p].first = IF m + 1 = 0 THEN Null ELSE r[1]
    <3>1. CASE m = 0
      <4>1. l = Null /\ r[1] = c /\ m + 1 # 0
        BY <1>4, <2>3, <3>1
      <4> QED BY <1>1, <4>1 DEF Loose
    <3>2. CASE m # 0
      <4>1. l # Null /\ 1 \in 1 .. m
        BY <1>2, <1>4, <2>3, <3>2
      <4> QED BY <1>1, <1>4, <2>2, <3>2, <4>1 DEF Loose
    <3> QED BY <3>1, <3>2
  <2>5. ASSUME NEW i \in 1 .. m + 1
        PROVE  M[r[i]].next = IF i < m + 1 THEN r[i + 1] ELSE Null
    <3>1. CASE i = m + 1
      <4>1. l # c
        BY <1>2, <1>6 DEF Loose
      <4> QED BY <1>1, <1>4, <3>1, <4>1 DEF Loose
    <3>2. CASE i = m
      <4>1. i \in 1 .. m /\ i < m + 1 /\ r[i] = s[m] /\ l = s[m] /\ r[i + 1] = c
        BY <1>4, <2>3, <3>2
      <4> QED BY <1>1, <1>4, <4>1
    <3>3. CASE i < m
      <4>1. i \in 1 .. m /\ i < m + 1 /\ r[i] = s[i] /\ r[i + 1] = s[i + 1] /\ i + 1 \in 1 .. m
        BY <1>4, <3>3
      <4>2. D[s[i]].next = s[i + 1] /\ s[i + 1] # Null /\ s[i] # c
        BY <1>2, <1>4, <2>1, <3>3, <4>1
      <4>3. s[i] # l
        BY <1>2, <1>4, <4>1, <4>2
      <4> QED BY <1>1, <1>4, <4>1, <4>2, <4>3
    <3> QED BY <1>4, <3>1, <3>2, <3>3
  <2>6. Chains(M, p, r)
    <3>1. r \in Seq(Live(M)) /\ Len(r) = m + 1
      BY <1>1, <1>4
    <3> QED BY <2>4, <2>5, <3>1 DEF Chains
  <2>7. Yielded(M, p) = r
    BY <1>1, <2>6, ChainYielded DEF Loose
  <2> QED BY <1>6, <2>7
<1> HIDE DEF M
<1>7. /\ Live(M) = Live(D)
      /\ Yielded(M, n) = IF n = p THEN Append(Yielded(D, n), c) ELSE Yielded(D, n)
  BY <1>1, <1>5, <1>6 DEF r, s
<1> QED BY <1>7 DEF M

(***************************************************************************)
(* prepend links c before them.                                            *)
(***************************************************************************)
LEMMA FirstYields ==
  ASSUME NEW D, NEW p, NEW c, Loose(D, p, c), NEW n \in Live(D)
  PROVE  LET M == LinkFirst(D, p, c)
         IN  /\ Live(M) = Live(D)
             /\ Yielded(M, n) = IF n = p THEN <<c>> \o Yielded(D, n) ELSE Yielded(D, n)
<1> DEFINE M == LinkFirst(D, p, c)
           f == D[p].first
           s == Yielded(D, p)
           m == Len(s)
           r == <<c>> \o s
<1>1. /\ M \in Table /\ LinksOK(M) /\ NoSiblingCycle(M) /\ Live(M) = Live(D)
      /\ \A k \in Live(D) :
           /\ M[k].next = IF k = c THEN f ELSE D[k].next
           /\ M[k].first = IF k = p THEN c ELSE D[k].first
  <2>1. D[p].first \in Live(D) \union {Null}
    BY DEF Loose, LinksOK, LinkLive
  <2> QED BY <2>1, LinkFirstFields, LinkFirstLinks DEF Loose
<1>2. Null \notin Live(D)
  BY TableCells DEF Loose
<1>3. Chains(D, p, s) /\ YieldsChildren(D, p, s)
  BY YieldedChains, YieldedChildren DEF Loose
<1>4. /\ s \in Seq(Live(D)) /\ m \in Nat /\ \A i \in 1 .. m : s[i] \in Live(D)
      /\ r \in Seq(Live(D)) /\ Len(r) = m + 1 /\ r[1] = c
      /\ \A i \in 1 .. m : r[i + 1] = s[i]
  <2>1. s \in Seq(Live(D)) /\ c \in Live(D)
    BY <1>3 DEF Chains, Loose
  <2> HIDE DEF s
  <2>2. /\ <<c>> \o s \in Seq(Live(D)) /\ Len(<<c>> \o s) = m + 1 /\ (<<c>> \o s)[1] = c
        /\ \A i \in 1 .. m : (<<c>> \o s)[i + 1] = s[i]
    BY <2>1
  <2> QED BY <2>1, <2>2, LenProperties, ElementOfSeq
<1>5. ASSUME n # p PROVE Yielded(M, n) = Yielded(D, n)
  <2>1. \A k \in Live(D) \ {p} : M[k].first = D[k].first
    BY <1>1
  <2>2. \A k \in Live(D) : k # c /\ D[k].parent # p => M[k].next = D[k].next
    BY <1>1
  <2> HIDE DEF M
  <2>3. Spares(D, p, c, M)
    BY <1>1, <2>1, <2>2 DEF Spares
  <2> QED BY <1>5, <2>3, LooseOthers
<1>6. ASSUME n = p PROVE Yielded(M, n) = r
  <2> HIDE DEF r, s, M
  <2>1. \A i \in 1 .. m : D[s[i]].next = (IF i < m THEN s[i + 1] ELSE Null) /\ s[i] # c
    BY <1>2, <1>3 DEF Chains, YieldsChildren, Children, Loose
  <2>2. f = IF m = 0 THEN Null ELSE s[1]
    BY <1>3 DEF Chains
  <2>3. ASSUME NEW i \in 1 .. m + 1
        PROVE  M[r[i]].next = IF i < m + 1 THEN r[i + 1] ELSE Null
    <3>1. CASE i = 1
      <4>1. r[i] = c /\ M[c].next = f
        BY <1>1, <1>4, <3>1 DEF Loose
      <4>2. m # 0 => r[i + 1] = s[1]
        BY <1>4, <3>1
      <4> QED BY <1>4, <2>2, <3>1, <4>1, <4>2
    <3>2. CASE i # 1
      <4>1. i - 1 \in 1 .. m /\ (i - 1) + 1 = i /\ (i - 1 < m <=> i < m + 1)
        BY <1>4, <3>2
      <4>2. r[i] = s[i - 1] /\ (i < m + 1 => r[i + 1] = s[i])
        BY <1>4, <4>1
      <4>3. M[s[i - 1]].next = D[s[i - 1]].next
        BY <1>1, <1>4, <2>1, <4>1
      <4> QED BY <2>1, <4>1, <4>2, <4>3
    <3> QED BY <3>1, <3>2
  <2>4. M[p].first = IF m + 1 = 0 THEN Null ELSE r[1]
    BY <1>1, <1>4 DEF Loose
  <2>5. Chains(M, p, r)
    <3>1. r \in Seq(Live(M)) /\ Len(r) = m + 1
      BY <1>1, <1>4
    <3> QED BY <2>3, <2>4, <3>1 DEF Chains
  <2>6. Yielded(M, p) = r
    BY <1>1, <2>5, ChainYielded DEF Loose
  <2> QED BY <1>6, <2>6
<1> HIDE DEF M
<1>7. /\ Live(M) = Live(D)
      /\ Yielded(M, n) = IF n = p THEN <<c>> \o Yielded(D, n) ELSE Yielded(D, n)
  BY <1>1, <1>5, <1>6 DEF r, s
<1> QED BY <1>7 DEF M

(***************************************************************************)
(* insert_after links c right behind its reference sibling.                *)
(***************************************************************************)
LEMMA AfterYields ==
  ASSUME NEW D, NEW p, NEW c, Loose(D, p, c), NEW a \in Children(D, p) \ {c}, NEW n \in Live(D)
  PROVE  LET M == LinkAfter(D, p, a, c)
             s == Yielded(D, n)
         IN  /\ Live(M) = Live(D)
             /\ Yielded(M, n) = IF n = p THEN PutBehind(s, a, c) ELSE s
<1> DEFINE M == LinkAfter(D, p, a, c)
           e == D[a].next
           s == Yielded(D, p)
           m == Len(s)
<1>0. a \in Live(D) /\ a # c /\ D[a].parent = p /\ Null \notin Live(D)
  BY TableCells DEF Children, Loose
<1>1. /\ M \in Table /\ LinksOK(M) /\ NoSiblingCycle(M) /\ Live(M) = Live(D)
      /\ \A k \in Live(D) :
           /\ M[k].next = IF k = a THEN c ELSE IF k = c THEN e ELSE D[k].next
           /\ M[k].first = D[k].first
  <2>1. D[a].next \in Live(D) \union {Null}
    BY <1>0 DEF Loose, LinksOK, LinkLive
  <2> QED BY <1>0, <2>1, LinkAfterFields, LinkAfterLinks DEF Loose
<1>2. Chains(D, p, s) /\ YieldsChildren(D, p, s)
  BY YieldedChains, YieldedChildren DEF Loose
<1>3. PICK i \in 1 .. m : s[i] = a /\ PlaceOf(s, a) = i
  BY ChildAt DEF Loose
<1> DEFINE r == SubSeq(s, 1, i) \o <<c>> \o SubSeq(s, i + 1, Len(s))
<1>4. /\ s \in Seq(Live(D)) /\ m \in Nat /\ \A j \in 1 .. m : s[j] \in Live(D)
      /\ r \in Seq(Live(D)) /\ Len(r) = m + 1
      /\ \A j \in 1 .. m + 1 :
           r[j] = IF j <= i THEN s[j] ELSE IF j = i + 1 THEN c ELSE s[j - 1]
  <2>1. s \in Seq(Live(D)) /\ c \in Live(D)
    BY <1>2 DEF Chains, Loose
  <2> HIDE DEF s
  <2>2. s \in Seq(Live(D)) /\ i \in 1 .. Len(s) /\ c \in Live(D)
    BY <2>1
  <2>3. HasIn(Live(D), s, i, c, r)
    BY <2>2, PutIn
  <2>4. m \in Nat /\ \A j \in 1 .. m : s[j] \in Live(D)
    BY <2>1, LenProperties, ElementOfSeq
  <2> HIDE DEF r
  <2> QED BY <2>1, <2>3, <2>4 DEF HasIn
<1>5. ASSUME n # p PROVE Yielded(M, n) = Yielded(D, n)
  <2>1. \A k \in Live(D) \ {p} : M[k].first = D[k].first
    BY <1>1
  <2>2. \A k \in Live(D) : k # c /\ D[k].parent # p => M[k].next = D[k].next
    BY <1>0, <1>1
  <2> HIDE DEF M
  <2>3. Spares(D, p, c, M)
    BY <1>1, <2>1, <2>2 DEF Spares
  <2> QED BY <1>5, <2>3, LooseOthers
<1>6. ASSUME n = p PROVE Yielded(M, n) = r
  <2> HIDE DEF r, s, M
  <2>1. /\ \A j \in 1 .. m : D[s[j]].next = (IF j < m THEN s[j + 1] ELSE Null) /\ s[j] # c
        /\ \A j, k \in 1 .. m : s[j] = s[k] => j = k
    BY <1>0, <1>2 DEF Chains, YieldsChildren, Children, Loose
  <2>2. D[p].first = IF m = 0 THEN Null ELSE s[1]
    BY <1>2 DEF Chains
  <2>3. e = IF i < m THEN s[i + 1] ELSE Null
    BY <1>3, <2>1
  <2>4. ASSUME NEW j \in 1 .. m + 1
        PROVE  M[r[j]].next = IF j < m + 1 THEN r[j + 1] ELSE Null
    <3>1. CASE j < i
      <4>1. j \in 1 .. m /\ j + 1 <= i /\ j < m + 1 /\ j < m /\ j # i /\ j + 1 \in 1 .. m + 1 /\ j <= i
        BY <1>4, <3>1
      <4>2. r[j] = s[j] /\ r[j + 1] = s[j + 1]
        BY <1>4, <4>1
      <4>3. s[j] # a /\ s[j] # c
        BY <1>3, <2>1, <4>1
      <4> QED BY <1>1, <1>4, <2>1, <4>1, <4>2, <4>3
    <3>2. CASE j = i
      <4>1. j < m + 1 /\ j <= i /\ j + 1 = i + 1 /\ j + 1 \in 1 .. m + 1 /\ ~ (j + 1 <= i)
        BY <1>4, <3>2
      <4>2. r[j] = a /\ r[j + 1] = c
        BY <1>3, <1>4, <3>2, <4>1
      <4> QED BY <1>0, <1>1, <4>1, <4>2
    <3>3. CASE j = i + 1
      <4>1. ~ (j <= i) /\ (i < m <=> j < m + 1)
            /\ (i < m => j + 1 \in 1 .. m + 1 /\ ~ (j + 1 <= i) /\ j + 1 # i + 1 /\ (j + 1) - 1 = i + 1)
        BY <1>4, <3>3
      <4>2. r[j] = c /\ (i < m => r[j + 1] = s[i + 1])
        BY <1>4, <3>3, <4>1
      <4>3. M[c].next = e
        BY <1>0, <1>1 DEF Loose
      <4> QED BY <2>3, <4>1, <4>2, <4>3
    <3>4. CASE j > i + 1
      <4>1. /\ j - 1 \in 1 .. m /\ ~ (j <= i) /\ j # i + 1 /\ j - 1 # i
            /\ (j - 1 < m <=> j < m + 1) /\ (j - 1) + 1 = j
            /\ j < m + 1 => j + 1 \in 1 .. m + 1 /\ ~ (j + 1 <= i) /\ j + 1 # i + 1 /\ (j + 1) - 1 = j
        BY <1>4, <3>4
      <4>2. r[j] = s[j - 1] /\ (j < m + 1 => r[j + 1] = s[j])
        BY <1>4, <4>1
      <4>3. s[j - 1] # a /\ s[j - 1] # c
        BY <1>3, <2>1, <4>1
      <4>4. M[s[j - 1]].next = D[s[j - 1]].next
        BY <1>1, <1>4, <4>1, <4>3
      <4> QED BY <2>1, <4>1, <4>2, <4>4
    <3> QED BY <1>4, <3>1, <3>2, <3>3, <3>4
  <2>5. M[p].first = IF m + 1 = 0 THEN Null ELSE r[1]
    <3>1. m # 0 /\ m + 1 # 0 /\ 1 <= i /\ 1 \in 1 .. m + 1
      BY <1>4
    <3>2. r[1] = s[1]
      BY <1>4, <3>1
    <3> QED BY <1>1, <2>2, <3>1, <3>2 DEF Loose
  <2>6. Chains(M, p, r)
    <3>1. r \in Seq(Live(M)) /\ Len(r) = m + 1
      BY <1>1, <1>4
    <3> QED BY <2>4, <2>5, <3>1 DEF Chains
  <2>7. Yielded(M, p) = r
    BY <1>1, <2>6, ChainYielded DEF Loose
  <2> QED BY <1>6, <2>7
<1> HIDE DEF M
<1> DEFINE t == Yielded(D, n)
<1>7. /\ Live(M) = Live(D)
      /\ Yielded(M, n) = IF n = p THEN PutBehind(t, a, c) ELSE t
  <2>1. CASE n = p
    <3>1. t = s /\ r = PutBehind(s, a, c)
      BY <1>3, <2>1 DEF PutBehind
    <3>2. Yielded(M, n) = r
      BY <1>6, <2>1
    <3> HIDE DEF r, t, s
    <3> QED BY <1>1, <2>1, <3>1, <3>2
  <2>2. CASE n # p
    BY <1>1, <1>5, <2>2
  <2> QED BY <2>1, <2>2
<1> QED BY <1>7 DEF M

(***************************************************************************)
(* What is gone with n from the lists is what remove frees from the table. *)
(***************************************************************************)
LEMMA GoneFreed ==
  ASSUME NEW N \in Table, WellFormed(N), NEW n \in Live(N)
  PROVE  Gone(Kids(N), n) = Walk(Unlink(N, n), n)
<1> DEFINE K == Kids(N)
           B == {m \in Live(N) : n \in Ancestors(N, m)}
<1>1. Live(N) \subseteq Slots /\ Null \notin Slots
  BY TableCells
<1>2. DOMAIN K = Live(N)
  BY DEF Kids
<1>3. \A k \in Live(N) : {K[k][i] : i \in DOMAIN K[k]} = Children(N, k)
  <2> SUFFICES ASSUME NEW k \in Live(N)
               PROVE  {K[k][i] : i \in DOMAIN K[k]} = Children(N, k)
    OBVIOUS
  <2> DEFINE s == Yielded(N, k)
  <2>1. K[k] = s
    BY DEF Kids
  <2>2. s \in Seq(Live(N)) /\ {s[i] : i \in 1 .. Len(s)} = Children(N, k)
    BY YieldedChildren DEF WellFormed, YieldsChildren
  <2> HIDE DEF K, s
  <2>3. DOMAIN s = 1 .. Len(s)
    BY <2>2, LenProperties
  <2> QED BY <2>1, <2>2, <2>3
<1> HIDE DEF K
<1>4. Gone(K, n) \subseteq B
  <2>1. n \in B
    BY <1>1, AncestorsClosed
  <2>2. ASSUME NEW k \in B, NEW i \in DOMAIN K[k] PROVE K[k][i] \in B
    <3>1. K[k][i] \in Live(N) /\ N[K[k][i]].parent = k /\ k \in Slots
      BY <1>1, <1>3 DEF Children
    <3>2. Ancestors(N, k) \subseteq Ancestors(N, K[k][i])
      BY <3>1, AncestorsStep
    <3> QED BY <3>1, <3>2
  <2>3. B \in SUBSET DOMAIN K
    BY <1>2
  <2> QED BY <2>1, <2>2, <2>3 DEF Gone
<1>5. ASSUME NEW m \in B, m \notin Gone(K, n) PROVE FALSE
  <2>1. m \in Live(N) /\ n \in Ancestors(N, m)
    OBVIOUS
  <2>2. PICK S \in SUBSET Live(N) :
          n \in S /\ (\A k \in S : \A i \in DOMAIN K[k] : K[k][i] \in S) /\ m \notin S
    BY <1>2, <1>5, <2>1 DEF Gone
  <2>3. ASSUME NEW k \in (Slots \ S) \intersect Live(N), N[k].parent # Null
        PROVE  N[k].parent \in Slots \ S
    <3>1. N[k].parent \in Slots
      BY <2>3, TableCells DEF Node, Link
    <3>2. ASSUME N[k].parent \in S PROVE FALSE
      <4>1. k \in Children(N, N[k].parent)
        BY DEF Children
      <4>2. PICK i \in DOMAIN K[N[k].parent] : K[N[k].parent][i] = k
        BY <1>3, <3>2, <4>1
      <4> QED BY <2>2, <3>2, <4>2
    <3> QED BY <3>1, <3>2
  <2>4. ParentClosed(N, Slots \ S) /\ m \in Slots \ S /\ Slots \ S \in SUBSET Slots
    BY <1>1, <2>1, <2>2, <2>3 DEF ParentClosed
  <2>5. n \in Slots \ S
    BY <2>1, <2>4 DEF Ancestors
  <2> QED BY <2>2, <2>5
<1>6. Walk(Unlink(N, n), n) = B
  BY FreedAreDescendants
<1> QED BY <1>4, <1>5, <1>6 DEF K

(***************************************************************************)
(* remove takes n from its parent's children and leaves those of the       *)
(* others that stay.                                                       *)
(***************************************************************************)
LEMMA RemoveYields ==
  ASSUME NEW N \in Table, WellFormed(N), NEW n \in Live(N)
  PROVE  LET U == Unlink(N, n)
             M == DropSubtree(U, n)
         IN  /\ Live(M) = Live(N) \ Walk(U, n)
             /\ \A x \in Live(M) : Yielded(M, x) = Without(Yielded(N, x), n)
<1> DEFINE U == Unlink(N, n)
           W == Walk(U, n)
           M == DropSubtree(U, n)
<1>1. LinksOK(N) /\ NoSiblingCycle(N) /\ Null \notin Live(N)
  BY TableCells DEF WellFormed
<1>2. /\ U \in Table /\ LinksOK(U) /\ NoSiblingCycle(U) /\ Live(U) = Live(N)
      /\ U[n].parent = Null
  <2>1. {N[n].parent, N[n].prev, N[n].next} \subseteq Live(N) \union {Null}
    BY <1>1 DEF LinksOK, LinkLive
  <2> QED BY <1>1, <2>1, UnlinkFields, UnlinkLinks, UnlinkSiblingCycle
<1>3. M \in Table /\ WellFormed(M) /\ Live(M) = Live(N) \ W
  BY RemoveKeeps
<1>4. \A k \in Live(M) : M[k] = U[k]
  <2>1. Live(M) \subseteq Slots
    BY <1>3, TableCells
  <2> QED BY <1>3, <2>1 DEF DropSubtree
<1>5. \A k \in Live(N) : Yielded(U, k) = Without(Yielded(N, k), n)
  BY <1>1, UnlinkYields
<1> HIDE DEF U
<1>6. \A k \in W \ {n} : U[k].parent \in W
  BY <1>2, WalkDescends
<1> HIDE DEF M, W
<1>7. ASSUME NEW x \in Live(M) PROVE Yielded(M, x) = Yielded(U, x)
  <2>1. x \in Live(U) /\ x # Null /\ x \notin W
    BY <1>1, <1>2, <1>3
  <2>2. Children(U, x) \subseteq Live(M)
    BY <1>2, <1>3, <1>6, <2>1 DEF Children
  <2>3. M[x].first = U[x].first /\ \A k \in Children(U, x) : M[k].next = U[k].next
    BY <1>4, <2>2
  <2> QED BY <1>2, <1>3, <2>1, <2>2, <2>3, OthersYield DEF WellFormed
<1>8. Live(M) = Live(N) \ W /\ \A x \in Live(M) : Yielded(M, x) = Without(Yielded(N, x), n)
  BY <1>3, <1>5, <1>7
<1> QED BY <1>8 DEF M, U, W

(***************************************************************************)
(* A node that may move is loose once it has left its former parent.       *)
(***************************************************************************)
LEMMA DetachedLoose ==
  ASSUME NEW N \in Table, WellFormed(N), NEW p \in Live(N), NEW c \in Live(N),
         c \notin Ancestors(N, p)
  PROVE  /\ Loose(Detach(N, c), p, c) /\ Live(Detach(N, c)) = Live(N)
         /\ Children(N, p) \ {c} \subseteq Children(Detach(N, c), p) \ {c}
<1> DEFINE D == Detach(N, c)
<1>1. p # c
  BY TableCells, AncestorsClosed
<1>2. /\ D \in Table /\ Live(D) = Live(N) /\ LinksOK(D) /\ NoSiblingCycle(D) /\ D[c].parent = Null
      /\ \A n \in Live(N) : D[n].parent = IF n = c THEN Null ELSE N[n].parent
  BY DetachKeeps
<1> HIDE DEF D
<1>3. Loose(D, p, c) /\ Children(N, p) \ {c} \subseteq Children(D, p) \ {c}
  BY <1>1, <1>2 DEF Loose, Children
<1> QED BY <1>2, <1>3 DEF D

(***************************************************************************)
(* append, prepend, insert_after and remove put the children where they    *)
(* promise to, and leave all others in their order.                        *)
(***************************************************************************)
LEMMA ListsMoved == TreeInv => MovesAsLists
<1> SUFFICES ASSUME TreeInv PROVE MovesAsLists
  OBVIOUS
<1>1. PICK N \in Table : N = nodes /\ WellFormed(N)
  BY DEF TreeInv, TypeOK
<1> DEFINE K == Kids(N)
<1>2. ASSUME NEW p \in Live(N), NEW c \in Live(N), c \notin Ancestors(N, p)
      PROVE  LET D == Detach(N, c)
             IN  /\ Kids(LinkLast(D, p, c)) = AppendKid(K, p, c)
                 /\ Kids(LinkFirst(D, p, c)) = PrependKid(K, p, c)
                 /\ \A a \in Children(N, p) \ {c} :
                      Kids(LinkAfter(D, p, a, c)) = InsertKid(K, p, a, c)
  <2> DEFINE D == Detach(N, c)
             G == [n \in Live(N) |-> Without(Yielded(N, n), c)]
  <2>1. /\ Loose(D, p, c) /\ Live(D) = Live(N)
        /\ Children(N, p) \ {c} \subseteq Children(D, p) \ {c}
    BY <1>1, <1>2, DetachedLoose
  <2>2. \A n \in Live(N) : Yielded(D, n) = G[n]
    BY <1>1, DetachYields
  <2>3. Leave(K, c) = G
    BY DEF Leave, Kids
  <2> HIDE DEF D
  <2>4. Kids(LinkLast(D, p, c)) = AppendKid(K, p, c)
    <3> DEFINE M == LinkLast(D, p, c)
    <3>1. /\ Live(M) = Live(N)
          /\ \A n \in Live(N) :
               Yielded(M, n) = IF n = p THEN Append(Yielded(D, n), c) ELSE Yielded(D, n)
      BY <2>1, LastYields
    <3> HIDE DEF M, G
    <3>2. Kids(M) = [n \in Live(N) |-> IF n = p THEN Append(G[n], c) ELSE G[n]]
      BY <2>2, <3>1 DEF Kids
    <3>3. AppendKid(K, p, c) = [G EXCEPT ![p] = Append(@, c)]
      BY <2>3 DEF AppendKid
    <3>4. [G EXCEPT ![p] = Append(@, c)] = [n \in Live(N) |-> IF n = p THEN Append(G[n], c) ELSE G[n]]
      BY DEF G
    <3> QED BY <3>2, <3>3, <3>4 DEF M
  <2>5. Kids(LinkFirst(D, p, c)) = PrependKid(K, p, c)
    <3> DEFINE M == LinkFirst(D, p, c)
    <3>1. /\ Live(M) = Live(N)
          /\ \A n \in Live(N) :
               Yielded(M, n) = IF n = p THEN <<c>> \o Yielded(D, n) ELSE Yielded(D, n)
      BY <2>1, FirstYields
    <3> HIDE DEF M, G
    <3>2. Kids(M) = [n \in Live(N) |-> IF n = p THEN <<c>> \o G[n] ELSE G[n]]
      BY <2>2, <3>1 DEF Kids
    <3>3. PrependKid(K, p, c) = [G EXCEPT ![p] = <<c>> \o @]
      BY <2>3 DEF PrependKid
    <3>4. [G EXCEPT ![p] = <<c>> \o @] = [n \in Live(N) |-> IF n = p THEN <<c>> \o G[n] ELSE G[n]]
      BY DEF G
    <3> QED BY <3>2, <3>3, <3>4 DEF M
  <2>6. ASSUME NEW a \in Children(N, p) \ {c}
        PROVE  Kids(LinkAfter(D, p, a, c)) = InsertKid(K, p, a, c)
    <3> DEFINE M == LinkAfter(D, p, a, c)
    <3>1. /\ Live(M) = Live(N)
          /\ \A n \in Live(N) :
               Yielded(M, n) = IF n = p THEN PutBehind(Yielded(D, n), a, c) ELSE Yielded(D, n)
      BY <2>1, AfterYields
    <3> HIDE DEF M, G
    <3>2. Kids(M) = [n \in Live(N) |-> IF n = p THEN PutBehind(G[n], a, c) ELSE G[n]]
      BY <2>2, <3>1 DEF Kids
    <3>3. InsertKid(K, p, a, c) = [G EXCEPT ![p] = PutBehind(@, a, c)]
      BY <2>3 DEF InsertKid
    <3>4. [G EXCEPT ![p] = PutBehind(@, a, c)]
            = [n \in Live(N) |-> IF n = p THEN PutBehind(G[n], a, c) ELSE G[n]]
      BY DEF G
    <3> QED BY <3>2, <3>3, <3>4 DEF M
  <2> QED BY <2>4, <2>5, <2>6 DEF D
<1>3. ASSUME NEW n \in Live(N)
      PROVE  Kids(DropSubtree(Unlink(N, n), n)) = RemoveKid(K, n)
  <2> DEFINE M == DropSubtree(Unlink(N, n), n)
             R == Live(N) \ Walk(Unlink(N, n), n)
  <2>1. Live(M) = R /\ \A x \in Live(M) : Yielded(M, x) = Without(Yielded(N, x), n)
    BY <1>1, RemoveYields
  <2>2. DOMAIN K = Live(N) /\ Gone(K, n) = Walk(Unlink(N, n), n)
    BY <1>1, GoneFreed DEF Kids
  <2>3. RemoveKid(K, n) = [x \in R |-> Without(K[x], n)]
    BY <2>2 DEF RemoveKid
  <2>4. \A x \in R : K[x] = Yielded(N, x)
    BY DEF Kids
  <2> HIDE DEF K, M, R
  <2>5. Kids(M) = [x \in R |-> Without(K[x], n)]
    BY <2>1, <2>4 DEF Kids
  <2> QED BY <2>3, <2>5 DEF M
<1>4. \A p, c \in Live(N) : Movable(p, c) /\ ~ WouldCreateCycle(N, p, c) => c \notin Ancestors(N, p)
  BY <1>1, MovableNoCycle
<1> QED BY <1>1, <1>2, <1>3, <1>4 DEF MovesAsLists

(***************************************************************************)
(* The pointer surgery does to the children, in every reachable table,     *)
(* what the operations promise as operations on lists.                     *)
(***************************************************************************)
THEOREM MovesInOrder == TreeSpec => []MovesAsLists
BY ListsMoved, Invariance, PTL
=============================================================================

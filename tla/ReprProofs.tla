----------------------------- MODULE ReprProofs -----------------------------
(***************************************************************************)
(* __repr__ never shows a stale text, for every set of slots and values.   *)
(***************************************************************************)
EXTENDS ReprCache, TreeProofs, WalkProofs

(***************************************************************************)
(* The inductive invariant: a cached text of the current version is that   *)
(* of its node, which has not been freed since, as every step that frees a *)
(* node or changes a link bumps the version, and the value setter, which   *)
(* does not, clears the cache.                                             *)
(***************************************************************************)
CacheFine ==
  cache # Null =>
    /\ cache.version \in 0 .. version
    /\ cache.version = version =>
         cache.node \in Live(nodes) /\ cache.text = SerializeNode(cache.node)

ReprInv == TreeInv /\ CacheFine

(***************************************************************************)
(* The invariant is enough.                                                *)
(***************************************************************************)
LEMMA InvRepr == ReprInv => ReprFaithful
BY DEF ReprInv, CacheFine, ReprFaithful, Shown, CacheHit

(***************************************************************************)
(* A step that keeps the texts or bumps the version keeps the cache fine.  *)
(***************************************************************************)
LEMMA CacheKept ==
  ASSUME ReprInv, TreeInv', UNCHANGED cache, version <= version',
         SameTexts(nodes, nodes') \/ version < version'
  PROVE  CacheFine'
<1>1. version \in Nat /\ version' \in Nat
  BY TreeAssumption DEF ReprInv, TreeInv, TypeOK
<1>2. CASE version < version'
  BY <1>1, <1>2 DEF ReprInv, CacheFine
<1>3. CASE SameTexts(nodes, nodes')
  <2>1. PICK N, M : N = nodes /\ M = nodes'
    OBVIOUS
  <2>2. \A n \in Live(N) : Text(M, n) = Text(N, n)
    BY <1>3, <2>1, TextsSame DEF ReprInv, TreeInv, TypeOK, WellFormed
  <2>3. \A n \in Live(nodes) : n \in Live(nodes') /\ SerializeNode(n)' = SerializeNode(n)
    BY <1>3, <2>1, <2>2 DEF SerializeNode, SameTexts
  <2> QED BY <1>1, <2>3 DEF ReprInv, CacheFine
<1> QED BY <1>2, <1>3

(***************************************************************************)
(* The steps of the tree: a new node leaves the others as they are, and a  *)
(* move or a removal bumps the version.                                    *)
(***************************************************************************)
LEMMA TreeStepKeeps ==
  ASSUME ReprInv, TreeNext, UNCHANGED cache
  PROVE  ReprInv'
<1>1. TreeInv'
  BY NextTreeInv DEF ReprInv
<1>2. version \in Nat /\ nodes \in Table
  BY TreeAssumption DEF ReprInv, TreeInv, TypeOK
<1>3. CASE Create
  <2>1. PICK n \in Slots, k \in Kinds : nodes[n] = Vacant /\ nodes' = Allocate(nodes, n, k)
    BY <1>3 DEF Create, Alloc
  <2>2. \A m \in Live(nodes) : nodes'[m] = nodes[m] /\ m \in Slots
    BY <1>2, <2>1, TableCells DEF Allocate, Table, Live
  <2>3. SameTexts(nodes, nodes')
    BY <2>2 DEF SameTexts, Live
  <2>4. version' = version
    BY <1>3 DEF Create, Alloc
  <2> QED BY <1>1, <1>2, <2>3, <2>4, CacheKept DEF ReprInv
<1>4. CASE \E p, c \in Live(nodes) : CyclePanic(p, c)
  <2>1. nodes' = nodes /\ version' = version
    BY <1>4 DEF CyclePanic
  <2>2. SameTexts(nodes, nodes')
    BY <2>1 DEF SameTexts
  <2> QED BY <1>1, <1>2, <2>1, <2>2, CacheKept DEF ReprInv
<1>5. ASSUME \E N : Restructure(N) PROVE ReprInv'
  <2>1. version' = version + 1
    BY <1>5 DEF Restructure
  <2> QED BY <1>1, <1>2, <2>1, CacheKept DEF ReprInv
<1> QED BY <1>3, <1>4, <1>5 DEF TreeNext, AppendChild, Prepend, InsertAfter, Remove

(***************************************************************************)
(* The value setter changes a value and clears the cache.                  *)
(***************************************************************************)
LEMMA SetterKeeps ==
  ASSUME ReprInv, NEW n \in Live(nodes), NEW v \in Values, SetValue(n, v)
  PROVE  ReprInv'
<1>1. /\ nodes' = [nodes EXCEPT ![n].kind = v]
      /\ UNCHANGED <<root, version, status>> /\ cache' = Null
  BY DEF SetValue
<1>2. nodes \in Table /\ WellFormed(nodes) /\ TypeOK
  BY DEF ReprInv, TreeInv, TypeOK
<1>3. /\ nodes' \in Table /\ Live(nodes') = Live(nodes) /\ WellFormed(nodes')
      /\ SameLinks(nodes, nodes')
  BY <1>1, <1>2, SetKindKeeps DEF Kinds
<1>4. TypeOK'
  BY <1>1, <1>2, <1>3 DEF TypeOK
<1> QED BY <1>1, <1>3, <1>4 DEF ReprInv, TreeInv, CacheFine

(***************************************************************************)
(* Every step keeps the invariant.                                         *)
(***************************************************************************)
LEMMA NextReprInv == ReprInv /\ [ReprNext]_reprVars => ReprInv'
<1> SUFFICES ASSUME ReprInv, [ReprNext]_reprVars PROVE ReprInv'
  OBVIOUS
<1>1. CASE TreeNext /\ UNCHANGED <<cache, bare>>
  BY <1>1, TreeStepKeeps
<1>2. ASSUME NEW n \in Live(nodes), Repr(n) PROVE ReprInv'
  <2>1. /\ cache' = [node |-> n, version |-> version, text |-> SerializeNode(n)]
        /\ UNCHANGED treeVars
    BY <1>2 DEF Repr
  <2>2. TreeInv'
    BY <2>1, NextTreeInv DEF ReprInv
  <2>3. version \in Nat /\ UNCHANGED <<nodes, version>>
    BY <2>1, TreeAssumption DEF ReprInv, TreeInv, TypeOK, treeVars
  <2>4. SerializeNode(n)' = SerializeNode(n)
    BY <2>3 DEF SerializeNode
  <2> QED BY <2>1, <2>2, <2>3, <2>4 DEF ReprInv, CacheFine
<1>3. ASSUME NEW n \in Live(nodes), NEW v \in Values, SetValue(n, v) PROVE ReprInv'
  BY <1>3, SetterKeeps
<1>4. CASE UNCHANGED reprVars
  <2>1. UNCHANGED treeVars /\ UNCHANGED cache
    BY <1>4 DEF reprVars, treeVars
  <2>2. TreeInv'
    BY <2>1, NextTreeInv DEF ReprInv
  <2> QED BY <2>1, <2>2 DEF ReprInv, CacheFine, SerializeNode, treeVars
<1> QED BY <1>1, <1>2, <1>3, <1>4 DEF ReprNext

(***************************************************************************)
(* The invariant holds of every reachable state.                           *)
(***************************************************************************)
THEOREM ReprInvariance == ReprSpec => []ReprInv
<1>1. ReprInit => ReprInv
  BY InitTreeInv DEF ReprInit, ReprInv, CacheFine
<1> QED BY <1>1, NextReprInv, PTL DEF ReprSpec

(***************************************************************************)
(* __repr__ shows the subtree as it is now: never a text of an earlier     *)
(* tree, of another node in the same slot, or of a value since replaced.   *)
(***************************************************************************)
THEOREM CacheNeverStale == ReprSpec => []ReprFaithful
BY InvRepr, ReprInvariance, PTL
=============================================================================

----------------------------- MODULE ReprCache -----------------------------
(***************************************************************************)
(* The cached repr of a tree (core/tree.rs, SExp.__repr__ and the value    *)
(* setter of py/sexp.rs) while the tree changes as in Tree.tla.  The       *)
(* methods are called through handles that are not stale: see Handles.tla. *)
(***************************************************************************)
EXTENDS Tree, Text

VARIABLES cache,     \* the cached text with its node and version, or Null
          bare       \* the tree is the result of parsing ""

reprVars == <<nodes, root, version, status, cache, bare>>

\* What the serializer makes of a node: see WritesText in Calls.tla.
SerializeNode(n) == Text(nodes, n)

ReprInit ==
  /\ TreeInit
  /\ cache = Null
  /\ bare \in BOOLEAN
  /\ bare => nodes[root].kind = List

(***************************************************************************)
(* __repr__: the empty tree of parse("") writes as nothing, a cached text  *)
(* of this version is used, any other is written and cached.               *)
(***************************************************************************)
WritesNothing(n) == bare /\ n = root /\ nodes[n].first = Null

CacheHit(n) == cache # Null /\ cache.version = version /\ cache.node = n

Repr(n) ==
  /\ status = "running"
  /\ ~ WritesNothing(n)
  /\ ~ CacheHit(n)
  /\ cache' = [node |-> n, version |-> version, text |-> SerializeNode(n)]
  /\ UNCHANGED <<treeVars, bare>>

\* What __repr__ returns for node n.
Shown(n) ==
  IF WritesNothing(n) THEN Null
  ELSE IF CacheHit(n) THEN cache.text ELSE SerializeNode(n)

\* Mistake: the cached text is kept.
SetValueKeepsCache(n, v) ==
  /\ status = "running"
  /\ nodes[n].kind # List
  /\ nodes' = [nodes EXCEPT ![n].kind = v]
  /\ UNCHANGED <<root, version, status, cache, bare>>

(***************************************************************************)
(* The value setter: an atom gets another value, the version stays and the *)
(* cache is cleared.                                                       *)
(***************************************************************************)
SetValue(n, v) ==
  /\ status = "running"
  /\ nodes[n].kind # List
  /\ nodes' = [nodes EXCEPT ![n].kind = v]
  /\ cache' = Null
  /\ UNCHANGED <<root, version, status, bare>>

ReprNext ==
  \/ TreeNext /\ UNCHANGED <<cache, bare>>
  \/ \E n \in Live(nodes) : Repr(n) \/ \E v \in Values : SetValue(n, v)

ReprSpec == ReprInit /\ [][ReprNext]_reprVars
-----------------------------------------------------------------------------
(***************************************************************************)
(* __repr__ shows the subtree as it is now.  The cache may name a freed    *)
(* node, or one that took its slot: neither must be shown the old text.    *)
(***************************************************************************)
ReprFaithful ==
  \A n \in Live(nodes) : ~ WritesNothing(n) => Shown(n) = SerializeNode(n)
=============================================================================

------------------------------ MODULE Handles ------------------------------
(***************************************************************************)
(* Python's view of one tree: the handles (SExp) and an iterator           *)
(* (SExpIter), over the tree of Tree.tla.                                  *)
(*                                                                         *)
(* A method runs with the GIL held and never gives it up, so it is one     *)
(* step.  A method that raises changes nothing and is left out.  extract   *)
(* is remove here: the tree it returns is another one, as is the result    *)
(* of clone.  The cache of __repr__ is in ReprCache.tla.                   *)
(***************************************************************************)
EXTENDS Tree, Queries

CONSTANT Refs          \* Python variables that hold handles

VARIABLES handles,     \* what each holds: a handle, or Null
          iter         \* an iterator, or Null

handleVars == <<nodes, root, version, status, handles, iter>>

(***************************************************************************)
(* A handle holds a key and the version it was made or refreshed at.       *)
(* History: whether the node it was made for has been freed since.         *)
(***************************************************************************)
Handle == [node : Slots, version : Nat, lost : BOOLEAN]

HandleTo(n) == [node |-> n, version |-> version, lost |-> FALSE]

IsStale(h) == h.node # root /\ h.version # version

\* The handle of r can be used: it is there and not stale, and no panic came.
Usable(r) == status = "running" /\ handles[r] # Null /\ ~ IsStale(handles[r])

At(r) == handles[r].node

HandlesInit ==
  /\ TreeInit
  /\ \E r \in Refs : handles = [s \in Refs |-> IF s = r THEN HandleTo(root) ELSE Null]
  /\ iter = Null

(***************************************************************************)
(* The end of with_tree_mut for the handle of r: its snapshot is renewed,  *)
(* unless its own node is gone.                                            *)
(***************************************************************************)
Freed == Live(nodes) \ Live(nodes')

IsFreed(s) == handles[s].lost \/ At(s) \in Freed

\* Mistake: the snapshot runs one change ahead.
RefreshedAhead(r) ==
  [s \in Refs |->
     IF handles[s] = Null THEN Null
     ELSE [node    |-> At(s),
           version |-> IF s = r /\ nodes'[At(s)] # Vacant THEN version' + 1
                       ELSE handles[s].version,
           lost    |-> IsFreed(s)]]

\* Mistake: contains_node is not asked.
RefreshedAlways(r) ==
  [s \in Refs |->
     IF handles[s] = Null THEN Null
     ELSE [node    |-> At(s),
           version |-> IF s = r THEN version' ELSE handles[s].version,
           lost    |-> IsFreed(s)]]

Refreshed(r) ==
  [s \in Refs |->
     IF handles[s] = Null THEN Null
     ELSE [node    |-> At(s),
           version |-> IF s = r /\ nodes'[At(s)] # Vacant THEN version'
                       ELSE handles[s].version,
           lost    |-> IsFreed(s)]]

(***************************************************************************)
(* Methods that read: indexing, slices, head, and parent give the variable *)
(* s a handle.                                                             *)
(***************************************************************************)
Bind(s, n) == handles' = [handles EXCEPT ![s] = HandleTo(n)]

GetChild(r, s) ==
  /\ Usable(r)
  /\ \E n \in Children(nodes, At(r)) : Bind(s, n)
  /\ UNCHANGED <<treeVars, iter>>

GetParent(r, s) ==
  /\ Usable(r)
  /\ nodes[At(r)].parent # Null
  /\ Bind(s, nodes[At(r)].parent)
  /\ UNCHANGED <<treeVars, iter>>

(***************************************************************************)
(* __iter__ and tail.  History: what there is to be yielded.               *)
(***************************************************************************)
Iterate(n) == iter' = [next |-> n, version |-> version, rest |-> Onward(nodes)[n]]

GetIter(r) ==
  /\ Usable(r)
  /\ Iterate(nodes[At(r)].first)
  /\ UNCHANGED <<treeVars, handles>>

GetTail(r) ==
  LET f == nodes[At(r)].first
  IN  /\ Usable(r)
      /\ Iterate(IF f = Null THEN Null ELSE nodes[f].next)
      /\ UNCHANGED <<treeVars, handles>>

(***************************************************************************)
(* __next__ of an iterator that is neither exhausted nor stale.            *)
(***************************************************************************)
IterNext(s) ==
  /\ status = "running"
  /\ iter # Null
  /\ iter.next # Null
  /\ iter.version = version
  /\ iter' = [iter EXCEPT !.next = nodes[@].next, !.rest = Tail(@)]
  /\ Bind(s, iter.next)
  /\ UNCHANGED treeVars

(***************************************************************************)
(* The value setter: the version stays.                                    *)
(***************************************************************************)
SetValue(r, v) ==
  /\ Usable(r)
  /\ nodes[At(r)].kind # List
  /\ nodes' = [nodes EXCEPT ![At(r)].kind = v]
  /\ UNCHANGED <<root, version, status, iter>>
  /\ handles' = Refreshed(r)

(***************************************************************************)
(* __repr__ when it writes the cache, which takes with_tree_mut.           *)
(***************************************************************************)
ReprCall(r) ==
  /\ Usable(r)
  /\ UNCHANGED <<treeVars, iter>>
  /\ handles' = Refreshed(r)

(***************************************************************************)
(* new_atom and new_list.                                                  *)
(***************************************************************************)
NewUnattached(r, s, k) ==
  /\ Usable(r)
  /\ \E n \in Slots : /\ Alloc(n, k)
                      /\ handles' = [Refreshed(r) EXCEPT ![s] = HandleTo(n)]
  /\ UNCHANGED iter

(***************************************************************************)
(* append, prepend and insert_after.  The handle of the child is not       *)
(* looked at for staleness; a key that finds no node is a panic.  The code *)
(* does not refuse the root here; callers are assumed not to move it, for  *)
(* then it can be freed, and a handle to it is never stale (the claim      *)
(* RootAlwaysValid of Tree.tla fails).                                     *)
(***************************************************************************)
Moves(r, c) ==
  /\ Usable(r)
  /\ handles[c] # Null
  /\ nodes[At(c)] # Vacant
  /\ At(c) # root
  /\ Movable(At(r), At(c))

AppendCall(r, c) ==
  /\ Moves(r, c)
  /\ AppendChild(At(r), At(c))
  /\ UNCHANGED iter
  /\ handles' = Refreshed(r)

PrependCall(r, c) ==
  /\ Moves(r, c)
  /\ Prepend(At(r), At(c))
  /\ UNCHANGED iter
  /\ handles' = Refreshed(r)

InsertAfterCall(r, a, c) ==
  /\ Moves(r, c)
  /\ Usable(a)
  /\ At(a) \in Children(nodes, At(r)) \ {At(c)}
  /\ InsertAfter(At(r), At(a), At(c))
  /\ UNCHANGED iter
  /\ handles' = Refreshed(r)

MovePanic(r, c) ==
  /\ Usable(r)
  /\ handles[c] # Null
  /\ (nodes[At(c)] # Vacant => WouldCreateCycle(nodes, At(r), At(c)))
  /\ status' = "aborted"
  /\ UNCHANGED <<nodes, root, version, handles, iter>>

(***************************************************************************)
(* remove and extract.                                                     *)
(***************************************************************************)
RemoveCall(r) ==
  /\ Usable(r)
  /\ Remove(At(r))
  /\ UNCHANGED iter
  /\ handles' = Refreshed(r)

HandlesNext ==
  \/ \E r, s \in Refs :
       \/ GetChild(r, s)
       \/ GetParent(r, s)
       \/ \E k \in Kinds : NewUnattached(r, s, k)
       \/ AppendCall(r, s)
       \/ PrependCall(r, s)
       \/ \E a \in Refs : InsertAfterCall(r, a, s)
       \/ MovePanic(r, s)
  \/ \E r \in Refs :
       \/ GetIter(r)
       \/ GetTail(r)
       \/ IterNext(r)
       \/ ReprCall(r)
       \/ \E v \in Values : SetValue(r, v)
       \/ RemoveCall(r)

HandlesSpec == HandlesInit /\ [][HandlesNext]_handleVars
-----------------------------------------------------------------------------
\* No snapshot is of a version to come: it would be valid again by then.
HandlesTypeOK ==
  /\ handles \in [Refs -> Handle \union {Null}]
  /\ \A r \in Refs : handles[r] # Null => handles[r].version <= version
  /\ iter # Null => iter.next \in Link /\ iter.version \in 0 .. version

(***************************************************************************)
(* The staleness check is enough: a handle it lets through names the very  *)
(* node it was made for, and never a node that has taken its slot since.   *)
(***************************************************************************)
HandlesFaithful ==
  \A r \in Refs :
    handles[r] # Null /\ ~ IsStale(handles[r]) =>
      nodes[At(r)] # Vacant /\ ~ handles[r].lost

(***************************************************************************)
(* An iterator that does not raise yields the children there were when it  *)
(* was made, in their order, whatever was done between two calls.          *)
(***************************************************************************)
IterFaithful ==
  iter # Null /\ iter.version = version => Onward(nodes)[iter.next] = iter.rest

(***************************************************************************)
(* When a node is removed every handle becomes stale but those to the      *)
(* root, that of the removed node itself included.                         *)
(***************************************************************************)
RemovalStalesAll ==
  [][Freed # {} =>
       \A r \in Refs : handles'[r] # Null => handles'[r].node = root \/ IsStale(handles[r])']_handleVars
-----------------------------------------------------------------------------
(***************************************************************************)
(* Claims of the comments and docs that the code does not live up to.      *)
(*                                                                         *)
(* A handle whose node has been removed is refused: no call to which it is *)
(* passed moves a node or ends the process.                                *)
(***************************************************************************)
RemovedRefused ==
  [][\A r, c \in Refs :
       \/ AppendCall(r, c) \/ PrependCall(r, c) \/ MovePanic(r, c)
       \/ \E a \in Refs : InsertAfterCall(r, a, c)
       => ~ handles[c].lost]_handleVars

(***************************************************************************)
(* append, prepend and insert_after leave all existing handles valid.      *)
(***************************************************************************)
HandlesRemainValid ==
  [][\A r, c, s \in Refs :
       /\ AppendCall(r, c) \/ PrependCall(r, c) \/ \E a \in Refs : InsertAfterCall(r, a, c)
       /\ handles[s] # Null /\ ~ IsStale(handles[s])
       => ~ IsStale(handles[s])']_handleVars
=============================================================================

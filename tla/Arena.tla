-------------------------------- MODULE Arena --------------------------------
(***************************************************************************)
(* What memory/slab.rs promises: a store of values under keys, where a     *)
(* value is found under the key its insertion returned until it is removed *)
(* and no insertion touches another value.  Which free key an insertion    *)
(* takes is not promised; Tree.tla assumes no more than this of its nodes. *)
(***************************************************************************)
EXTENDS Naturals, FiniteSets

CONSTANTS Keys,      \* the keys there are
          Values,    \* what is stored
          None       \* the Option None

VARIABLES live,      \* function from the keys in use to their values
          ret        \* what the last operation returned

arenaVars == <<live, ret>>

Init == live = [k \in {} |-> None] /\ ret = None

Lookup(k) == IF k \in DOMAIN live THEN live[k] ELSE None

Insert(v) ==
  \E k \in Keys \ DOMAIN live :
    /\ live' = [j \in DOMAIN live \union {k} |-> IF j = k THEN v ELSE live[j]]
    /\ ret' = k

Remove(k) ==
  /\ live' = [j \in DOMAIN live \ {k} |-> live[j]]
  /\ ret' = Lookup(k)

Get(k) == UNCHANGED live /\ ret' = Lookup(k)

Count == UNCHANGED live /\ ret' = Cardinality(DOMAIN live)

Next ==
  \/ \E v \in Values : Insert(v)
  \/ \E k \in Keys : Remove(k) \/ Get(k)
  \/ Count

Spec == Init /\ [][Next]_arenaVars
=============================================================================

------------------------------- MODULE MCRepr -------------------------------
(***************************************************************************)
(* A small instance of ReprCache: slots and values are interchangeable.    *)
(***************************************************************************)
EXTENDS ReprCache, TLC

ReprSymmetry == Permutations(Slots) \union Permutations(Values)
=============================================================================

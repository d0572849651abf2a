------------------------------- MODULE MCSlab -------------------------------
(***************************************************************************)
(* A small instance of Slab: keys are numbers, the values interchangeable. *)
(***************************************************************************)
EXTENDS Slab, TLC

ValueSymmetry == Permutations(Values)
=============================================================================

------------------------------ MODULE MCCalls ------------------------------
(***************************************************************************)
(* A small instance of Calls: the slots are interchangeable.               *)
(***************************************************************************)
EXTENDS Calls, TLC

SlotSymmetry == Permutations(Slots)
=============================================================================

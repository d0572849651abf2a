------------------------------- MODULE MCTree -------------------------------
(***************************************************************************)
(* A small instance of Tree: the slots are interchangeable.                *)
(***************************************************************************)
EXTENDS TreeOrder, TLC

SlotSymmetry == Permutations(Slots)
=============================================================================

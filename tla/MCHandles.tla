----------------------------- MODULE MCHandles -----------------------------
(***************************************************************************)
(* A small instance of Handles: the slots are interchangeable, and so are  *)
(* the variables of Python.                                                *)
(***************************************************************************)
EXTENDS Handles, TLC

HandleSymmetry == Permutations(Slots) \union Permutations(Refs)
=============================================================================

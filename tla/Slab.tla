-------------------------------- MODULE Slab --------------------------------
(***************************************************************************)
(* The slab of memory/slab.rs: a Vec of options and a stack of the indices *)
(* that were vacated.  slots[k + 1] is the cell of key k.                  *)
(***************************************************************************)
EXTENDS Integers, Sequences, FiniteSets

CONSTANTS Values,    \* what is stored
          None,      \* the Option None
          KeyRange,  \* number of keys, 2^32 in the code: a Key holds a u32
          MaxSlots   \* bound on the length of the Vec

(***************************************************************************)
(* Past KeyRange cells the cast of the index would wrap around to a key in *)
(* use; the model, like any tree that fits in memory, stays below.         *)
(***************************************************************************)
ASSUME SlabAssumption ==
  /\ None \notin Values
  /\ KeyRange \in Nat \ {0}
  /\ MaxSlots \in 0 .. KeyRange

VARIABLES slots,     \* the cells
          free,      \* vacated keys, the last pushed at the end
          ret,       \* what the last operation returned
          peak       \* history: the most values that were live at a time

slabVars == <<slots, free, ret, peak>>

Keys == 0 .. KeyRange - 1

SlabInit == slots = <<>> /\ free = <<>> /\ ret = None /\ peak = 0

InUse(k) == k < Len(slots) /\ slots[k + 1] # None

LiveKeys == {k \in 0 .. Len(slots) - 1 : slots[k + 1] # None}

Lookup(k) == IF InUse(k) THEN slots[k + 1] ELSE None

\* len: the cells less the vacated ones.
Size == Len(slots) - Len(free)

\* An insertion makes one more cell live.
Raise ==
  LET n == Cardinality(LiveKeys) + 1
  IN  peak' = IF n > peak THEN n ELSE peak

\* Mistake: the vacated key is read and left on the stack.
ReuseKeepsKey(v) ==
  LET k == free[Len(free)]
  IN  /\ free # <<>>
      /\ slots' = [slots EXCEPT ![k + 1] = v]
      /\ ret' = k
      /\ Raise
      /\ UNCHANGED free

(***************************************************************************)
(* insert: the key vacated last is used again, or else the Vec grows.      *)
(***************************************************************************)
Reuse(v) ==
  LET k == free[Len(free)]
  IN  /\ free # <<>>
      /\ slots' = [slots EXCEPT ![k + 1] = v]
      /\ free' = SubSeq(free, 1, Len(free) - 1)
      /\ ret' = k
      /\ Raise

Grow(v) ==
  /\ free = <<>>
  /\ Len(slots) < MaxSlots
  /\ slots' = Append(slots, v)
  /\ ret' = Len(slots) % KeyRange
  /\ Raise
  /\ UNCHANGED free

\* Mistake: the length of the Vec is pushed and not the key.
RemovePushesLen(k) ==
  /\ InUse(k)
  /\ slots' = [slots EXCEPT ![k + 1] = None]
  /\ free' = Append(free, Len(slots))
  /\ ret' = slots[k + 1]
  /\ UNCHANGED peak

\* Mistake: the key is not pushed.
RemoveLosesKey(k) ==
  /\ InUse(k)
  /\ slots' = [slots EXCEPT ![k + 1] = None]
  /\ ret' = slots[k + 1]
  /\ UNCHANGED <<free, peak>>

\* Mistake: the key is pushed although its cell was vacant already.
RemoveTwice(k) ==
  /\ k < Len(slots)
  /\ slots' = [slots EXCEPT ![k + 1] = None]
  /\ free' = Append(free, k)
  /\ ret' = Lookup(k)
  /\ UNCHANGED peak

(***************************************************************************)
(* remove: only a key in use is vacated and pushed.                        *)
(***************************************************************************)
Remove(k) ==
  /\ InUse(k)
  /\ slots' = [slots EXCEPT ![k + 1] = None]
  /\ free' = Append(free, k)
  /\ ret' = slots[k + 1]
  /\ UNCHANGED peak

RemoveStale(k) ==
  /\ ~ InUse(k)
  /\ ret' = None
  /\ UNCHANGED <<slots, free, peak>>

Get(k) == ret' = Lookup(k) /\ UNCHANGED <<slots, free, peak>>

Count == ret' = Size /\ UNCHANGED <<slots, free, peak>>

SlabNext ==
  \/ \E v \in Values : Reuse(v) \/ Grow(v)
  \/ \E k \in Keys : Remove(k) \/ RemoveStale(k) \/ Get(k)
  \/ Count

SlabSpec == SlabInit /\ [][SlabNext]_slabVars
-----------------------------------------------------------------------------
TypeOK ==
  /\ slots \in Seq(Values \union {None})
  /\ free \in Seq(0 .. Len(slots) - 1)
  /\ Len(slots) <= MaxSlots
  /\ peak \in Nat

(***************************************************************************)
(* The stack holds each vacated key once and no other: a key pushed twice  *)
(* would be handed to two owners, one missing would never be used again.   *)
(***************************************************************************)
FreeExact ==
  /\ \A i \in 1 .. Len(free) : free[i] < Len(slots) /\ slots[free[i] + 1] = None
  /\ \A i, j \in 1 .. Len(free) : free[i] = free[j] => i = j
  /\ \A k \in 0 .. Len(slots) - 1 : slots[k + 1] = None => \E i \in 1 .. Len(free) : free[i] = k

(***************************************************************************)
(* The slab is dense: the Vec has never grown beyond the most values that  *)
(* were live together, counted cell by cell.  A key lost from the free     *)
(* list would leave a cell that nothing fills again.                       *)
(***************************************************************************)
Dense == Len(slots) = peak

(***************************************************************************)
(* The slab is an Arena: a key returned by insert was not in use, finds    *)
(* its value until it is removed, and is never hit by another insertion.   *)
(***************************************************************************)
A == INSTANCE Arena WITH
       live <- [k \in LiveKeys |-> slots[k + 1]]

IsArena == A!Spec
=============================================================================

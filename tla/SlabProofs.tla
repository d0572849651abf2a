----------------------------- MODULE SlabProofs -----------------------------
(***************************************************************************)
(* The slab is an Arena, for every number of keys and set of values.       *)
(***************************************************************************)
EXTENDS Slab, FiniteSetTheorems, SequenceTheorems, TLAPS

(***************************************************************************)
(* The inductive invariant.  That insert returns a key not in use needs    *)
(* the stack to hold vacated keys; that it keeps so needs each of them to  *)
(* be there once; and len counts the live values because of both.          *)
(***************************************************************************)
SizeExact == IsFiniteSet(LiveKeys) /\ Size = Cardinality(LiveKeys)

SlabInv == TypeOK /\ FreeExact /\ Dense /\ SizeExact

(***************************************************************************)
(* The types of what the stack holds.                                      *)
(***************************************************************************)
LEMMA FreeKeys ==
  ASSUME SlabInv, NEW i \in 1 .. Len(free)
  PROVE  free[i] \in Nat /\ free[i] < Len(slots) /\ free[i] + 1 \in 1 .. Len(slots)
BY DEF SlabInv, TypeOK, FreeExact

(***************************************************************************)
(* Insertion into a vacated cell.                                          *)
(***************************************************************************)
LEMMA ReuseFacts ==
  ASSUME SlabInv, NEW v \in Values, Reuse(v)
  PROVE  LET k == free[Len(free)]
         IN  /\ k \in 0 .. Len(slots) - 1 /\ slots[k + 1] = None
             /\ k \notin LiveKeys
             /\ LiveKeys' = LiveKeys \union {k}
             /\ Len(slots') = Len(slots) /\ Len(free') = Len(free) - 1
             /\ slots'[k + 1] = v
             /\ \A j \in 0 .. Len(slots) - 1 : j # k => slots'[j + 1] = slots[j + 1]
             /\ \A i \in 1 .. Len(free) - 1 : free'[i] = free[i] /\ free[i] # k
             /\ TypeOK'
<1> DEFINE k == free[Len(free)]
<1> DEFINE K == 0 .. Len(slots) - 1
<1>1. /\ slots \in Seq(Values \union {None}) /\ free \in Seq(K)
      /\ Len(slots) \in Nat /\ Len(free) \in Nat
      /\ None \notin Values
  BY SlabAssumption DEF SlabInv, TypeOK
<1>2. Len(free) \in 1 .. Len(free)
  BY <1>1 DEF Reuse
<1>3. k \in 0 .. Len(slots) - 1 /\ slots[k + 1] = None
  BY <1>1, <1>2, FreeKeys DEF SlabInv, FreeExact
<1>4. slots' = [slots EXCEPT ![k + 1] = v] /\ free' = SubSeq(free, 1, Len(free) - 1)
  BY DEF Reuse
<1>5. \A i \in 1 .. Len(free) - 1 : free[i] # k
  <2> SUFFICES ASSUME NEW i \in 1 .. Len(free) - 1, free[i] = k PROVE FALSE
    OBVIOUS
  <2>1. i \in 1 .. Len(free) /\ i # Len(free)
    BY <1>1
  <2> QED BY <1>2, <2>1 DEF SlabInv, FreeExact
<1>6. Len(slots') = Len(slots) /\ slots' \in Seq(Values \union {None})
  BY <1>1, <1>3, <1>4, SMTT(30)
<1>7. /\ Len(free') = Len(free) - 1 /\ free' \in Seq(K)
      /\ \A i \in 1 .. Len(free) - 1 : free'[i] = free[i]
  <2>1. /\ 1 \in 1 .. Len(free) + 1 /\ Len(free) - 1 \in 0 .. Len(free)
        /\ Len(free) - 1 - 1 + 1 = Len(free) - 1
    BY <1>1, <1>2
  <2>2. \A i \in 1 .. Len(free) - 1 : 1 + i - 1 = i /\ i \in 1 .. Len(free)
    BY <1>1
  <2> HIDE DEF K
  <2>3. /\ free' \in Seq(K) /\ Len(free') = Len(free) - 1
        /\ \A i \in 1 .. Len(free) - 1 : free'[i] = free[1 + i - 1]
    BY <1>1, <1>4, <2>1, SubSeqProperties
  <2> QED BY <2>2, <2>3
<1>8. /\ slots'[k + 1] = v
      /\ \A j \in 0 .. Len(slots) - 1 : j # k => slots'[j + 1] = slots[j + 1]
  BY <1>1, <1>3, <1>4, SMTT(30)
<1>9. LiveKeys' = LiveKeys \union {k} /\ k \notin LiveKeys
  BY <1>1, <1>3, <1>6, <1>8 DEF LiveKeys
<1>10. TypeOK'
  <2>1. peak' \in Nat
    BY FS_CardinalityType DEF SlabInv, TypeOK, SizeExact, Reuse, Raise
  <2>2. Len(slots') <= MaxSlots
    BY <1>6 DEF SlabInv, TypeOK
  <2> QED BY <1>6, <1>7, <2>1, <2>2 DEF TypeOK
<1> QED BY <1>3, <1>5, <1>6, <1>7, <1>8, <1>9, <1>10

(***************************************************************************)
(* Insertion that grows the Vec.                                           *)
(***************************************************************************)
LEMMA GrowFacts ==
  ASSUME SlabInv, NEW v \in Values, Grow(v)
  PROVE  LET k == Len(slots)
         IN  /\ ret' = k /\ k \in Keys
             /\ k \notin LiveKeys
             /\ LiveKeys' = LiveKeys \union {k}
             /\ Len(slots') = Len(slots) + 1
             /\ slots'[k + 1] = v
             /\ \A j \in 0 .. Len(slots) - 1 : slots'[j + 1] = slots[j + 1]
             /\ TypeOK'
<1> DEFINE k == Len(slots)
<1>1. /\ slots \in Seq(Values \union {None}) /\ peak \in Nat
      /\ k \in Nat /\ k < MaxSlots
      /\ None \notin Values /\ KeyRange \in Nat /\ MaxSlots \in Nat /\ MaxSlots <= KeyRange
      /\ free = <<>> /\ Len(free) = 0 /\ Cardinality(LiveKeys) \in Nat
  BY SlabAssumption, FS_CardinalityType DEF SlabInv, TypeOK, SizeExact, Grow
<1>2. slots' = Append(slots, v) /\ ret' = k % KeyRange
  BY DEF Grow
<1>3. k % KeyRange = k /\ k \in Keys
  BY <1>1 DEF Keys
<1>4. /\ Len(slots') = k + 1 /\ slots' \in Seq(Values \union {None})
      /\ slots'[k + 1] = v
      /\ \A j \in 0 .. k - 1 : slots'[j + 1] = slots[j + 1]
  BY <1>1, <1>2
<1>5. LiveKeys' = LiveKeys \union {k} /\ k \notin LiveKeys
  BY <1>1, <1>4 DEF LiveKeys
<1>6. TypeOK'
  <2>1. peak' \in Nat /\ Len(slots') <= MaxSlots
    BY <1>1, <1>4 DEF Grow, Raise
  <2>2. free' \in Seq(0 .. Len(slots') - 1)
    BY <1>1, EmptySeq DEF Grow
  <2> QED BY <1>4, <2>1, <2>2 DEF TypeOK
<1> QED BY <1>2, <1>3, <1>4, <1>5, <1>6

(***************************************************************************)
(* Removal of a key in use.                                                *)
(***************************************************************************)
LEMMA RemoveFacts ==
  ASSUME SlabInv, NEW k \in Keys, Remove(k)
  PROVE  /\ k \in LiveKeys
         /\ LiveKeys' = LiveKeys \ {k}
         /\ Len(slots') = Len(slots) /\ Len(free') = Len(free) + 1
         /\ slots'[k + 1] = None
         /\ \A j \in 0 .. Len(slots) - 1 : j # k => slots'[j + 1] = slots[j + 1]
         /\ free'[Len(free) + 1] = k
         /\ \A i \in 1 .. Len(free) : free'[i] = free[i] /\ free[i] # k
         /\ TypeOK'
<1> DEFINE K == 0 .. Len(slots) - 1
<1>1. /\ slots \in Seq(Values \union {None}) /\ free \in Seq(K)
      /\ Len(slots) \in Nat /\ Len(free) \in Nat
      /\ k \in Nat
  BY SlabAssumption DEF SlabInv, TypeOK, Keys
<1>2. k \in 0 .. Len(slots) - 1 /\ slots[k + 1] # None
  BY <1>1 DEF Remove, InUse
<1>3. slots' = [slots EXCEPT ![k + 1] = None] /\ free' = Append(free, k)
  BY DEF Remove
<1>4. /\ Len(slots') = Len(slots) /\ slots' \in Seq(Values \union {None})
      /\ slots'[k + 1] = None
      /\ \A j \in 0 .. Len(slots) - 1 : j # k => slots'[j + 1] = slots[j + 1]
  BY <1>1, <1>2, <1>3
<1>5. /\ Len(free') = Len(free) + 1 /\ free' \in Seq(K)
      /\ free'[Len(free) + 1] = k
      /\ \A i \in 1 .. Len(free) : free'[i] = free[i]
  <2> HIDE DEF K
  <2>1. k \in K
    BY <1>2 DEF K
  <2> QED BY <1>1, <1>3, <2>1
<1>6. \A i \in 1 .. Len(free) : free[i] # k
  BY <1>2 DEF SlabInv, FreeExact
<1>7. LiveKeys' = LiveKeys \ {k} /\ k \in LiveKeys
  BY <1>1, <1>2, <1>4 DEF LiveKeys
<1>8. TypeOK'
  BY <1>4, <1>5 DEF SlabInv, TypeOK, Remove
<1> QED BY <1>4, <1>5, <1>6, <1>7, <1>8

(***************************************************************************)
(* The empty slab satisfies the invariant.                                 *)
(***************************************************************************)
LEMMA InitSlabInv == SlabInit => SlabInv
<1> SUFFICES ASSUME SlabInit PROVE SlabInv
  OBVIOUS
<1>1. slots = <<>> /\ free = <<>> /\ peak = 0 /\ Len(slots) = 0 /\ Len(free) = 0
  BY DEF SlabInit
<1>2. LiveKeys = {}
  BY <1>1 DEF LiveKeys
<1> QED BY <1>1, <1>2, SlabAssumption, FS_EmptySet
        DEF SlabInv, TypeOK, FreeExact, Dense, SizeExact, Size

(***************************************************************************)
(* Every operation of the slab keeps the invariant.                        *)
(***************************************************************************)
LEMMA NextSlabInv == SlabInv /\ [SlabNext]_slabVars => SlabInv'
<1> SUFFICES ASSUME SlabInv, [SlabNext]_slabVars PROVE SlabInv'
  OBVIOUS
<1>0. Len(slots) \in Nat /\ Len(free) \in Nat /\ peak \in Nat
      /\ IsFiniteSet(LiveKeys) /\ Len(slots) - Len(free) = Cardinality(LiveKeys)
      /\ Len(slots) = peak
  BY DEF SlabInv, TypeOK, SizeExact, Size, Dense
<1>1. ASSUME NEW v \in Values, Reuse(v) PROVE SlabInv'
  <2> DEFINE k == free[Len(free)]
  <2>1. /\ k \in 0 .. Len(slots) - 1 /\ slots[k + 1] = None
        /\ k \notin LiveKeys
        /\ LiveKeys' = LiveKeys \union {k}
        /\ Len(slots') = Len(slots) /\ Len(free') = Len(free) - 1
        /\ slots'[k + 1] = v
        /\ \A j \in 0 .. Len(slots) - 1 : j # k => slots'[j + 1] = slots[j + 1]
        /\ \A i \in 1 .. Len(free) - 1 : free'[i] = free[i] /\ free[i] # k
        /\ TypeOK'
    BY <1>1, ReuseFacts
  <2>2. Len(free) > 0
    BY <1>0, <1>1 DEF Reuse, SlabInv, TypeOK
  <2> HIDE DEF k
  <2>3. FreeExact'
    <3>1. \A i \in 1 .. Len(free') : free'[i] < Len(slots') /\ slots'[free'[i] + 1] = None
      BY <1>0, <2>1, FreeKeys, SMTT(30) DEF SlabInv, FreeExact
    <3>2. \A i, j \in 1 .. Len(free') : free'[i] = free'[j] => i = j
      BY <1>0, <2>1, SMTT(30) DEF SlabInv, FreeExact
    <3>3. ASSUME NEW j \in 0 .. Len(slots') - 1, slots'[j + 1] = None
          PROVE  \E i \in 1 .. Len(free') : free'[i] = j
      <4>1. j # k
        BY <2>1, <3>3, SlabAssumption
      <4>2. PICK i \in 1 .. Len(free) : free[i] = j
        BY <2>1, <3>3, <4>1 DEF SlabInv, FreeExact
      <4>3. i # Len(free)
        BY <4>1, <4>2 DEF k
      <4> QED BY <1>0, <2>1, <4>2, <4>3
    <3> QED BY <3>1, <3>2, <3>3 DEF FreeExact
  <2>4. Dense'
    BY <1>0, <1>1, <2>1, <2>2 DEF Dense, Reuse, Raise
  <2>5. SizeExact'
    <3>1. IsFiniteSet(LiveKeys') /\ Cardinality(LiveKeys') = Cardinality(LiveKeys) + 1
      BY <1>0, <2>1, FS_AddElement
    <3> QED BY <1>0, <2>1, <3>1, FS_CardinalityType DEF SizeExact, Size
  <2> QED BY <2>1, <2>3, <2>4, <2>5 DEF SlabInv
<1>2. ASSUME NEW v \in Values, Grow(v) PROVE SlabInv'
  <2>1. /\ Len(slots) \notin LiveKeys
        /\ LiveKeys' = LiveKeys \union {Len(slots)}
        /\ Len(slots') = Len(slots) + 1
        /\ slots'[Len(slots) + 1] = v
        /\ \A j \in 0 .. Len(slots) - 1 : slots'[j + 1] = slots[j + 1]
        /\ TypeOK'
    BY <1>2, GrowFacts
  <2>2. free = <<>> /\ Len(free) = 0 /\ free' = free
    BY <1>2 DEF Grow
  <2>3. FreeExact'
    BY <1>0, <2>1, <2>2, SlabAssumption DEF SlabInv, FreeExact
  <2>4. Dense'
    BY <1>0, <1>2, <2>1, <2>2 DEF Dense, Grow, Raise
  <2>5. SizeExact'
    <3>1. IsFiniteSet(LiveKeys') /\ Cardinality(LiveKeys') = Cardinality(LiveKeys) + 1
      BY <1>0, <2>1, FS_AddElement
    <3> QED BY <1>0, <2>1, <2>2, <3>1, FS_CardinalityType DEF SizeExact, Size
  <2> QED BY <2>1, <2>3, <2>4, <2>5 DEF SlabInv
<1>3. ASSUME NEW k \in Keys, Remove(k) PROVE SlabInv'
  <2>1. /\ k \in LiveKeys
        /\ LiveKeys' = LiveKeys \ {k}
        /\ Len(slots') = Len(slots) /\ Len(free') = Len(free) + 1
        /\ slots'[k + 1] = None
        /\ \A j \in 0 .. Len(slots) - 1 : j # k => slots'[j + 1] = slots[j + 1]
        /\ free'[Len(free) + 1] = k
        /\ \A i \in 1 .. Len(free) : free'[i] = free[i] /\ free[i] # k
        /\ TypeOK'
    BY <1>3, RemoveFacts
  <2>2. FreeExact'
    <3>1. ASSUME NEW i \in 1 .. Len(free')
          PROVE  free'[i] < Len(slots') /\ slots'[free'[i] + 1] = None
      <4>1. CASE i = Len(free) + 1
        <5>1. k \in 0 .. Len(slots) - 1
          BY <2>1 DEF LiveKeys
        <5> QED BY <1>0, <2>1, <4>1, <5>1
      <4>2. CASE i \in 1 .. Len(free)
        <5>1. free[i] \in 0 .. Len(slots) - 1 /\ slots[free[i] + 1] = None
          BY <1>0, <4>2, FreeKeys DEF SlabInv, FreeExact
        <5> QED BY <2>1, <4>2, <5>1
      <4> QED BY <1>0, <2>1, <4>1, <4>2
    <3>2. \A i, j \in 1 .. Len(free') : free'[i] = free'[j] => i = j
      BY <1>0, <2>1 DEF SlabInv, FreeExact
    <3>3. ASSUME NEW j \in 0 .. Len(slots') - 1, slots'[j + 1] = None
          PROVE  \E i \in 1 .. Len(free') : free'[i] = j
      <4>1. CASE j = k
        BY <1>0, <2>1, <4>1
      <4>2. CASE j # k
        <5>1. PICK i \in 1 .. Len(free) : free[i] = j
          BY <2>1, <3>3, <4>2 DEF SlabInv, FreeExact
        <5> QED BY <1>0, <2>1, <5>1
      <4> QED BY <4>1, <4>2
    <3> QED BY <3>1, <3>2, <3>3 DEF FreeExact
  <2>3. Dense'
    BY <1>3, <2>1 DEF SlabInv, Dense, Remove
  <2>4. SizeExact'
    <3>1. IsFiniteSet(LiveKeys') /\ Cardinality(LiveKeys') = Cardinality(LiveKeys) - 1
      BY <1>0, <2>1, FS_RemoveElement
    <3> QED BY <1>0, <2>1, <3>1, FS_CardinalityType DEF SizeExact, Size
  <2> QED BY <2>1, <2>2, <2>3, <2>4 DEF SlabInv
<1>4. CASE UNCHANGED <<slots, free, peak>>
  BY <1>4 DEF SlabInv, TypeOK, FreeExact, Dense, SizeExact, Size, LiveKeys
<1>5. ASSUME NEW k \in Keys, RemoveStale(k) \/ Get(k) PROVE SlabInv'
  BY <1>4, <1>5 DEF RemoveStale, Get
<1>6. CASE Count
  BY <1>4, <1>6 DEF Count
<1>7. CASE UNCHANGED slabVars
  BY <1>4, <1>7 DEF slabVars
<1> QED BY <1>1, <1>2, <1>3, <1>5, <1>6, <1>7 DEF SlabNext

(***************************************************************************)
(* The invariant holds of every reachable state.                           *)
(***************************************************************************)
THEOREM SlabInvariance == SlabSpec => []SlabInv
BY InitSlabInv, NextSlabInv, PTL DEF SlabSpec

(***************************************************************************)
(* The Vec and the stack of vacated keys hold what they are meant to, and  *)
(* the Vec stays within its bound.                                         *)
(***************************************************************************)
THEOREM SlabTypeCorrect == SlabSpec => []TypeOK
<1>1. SlabInv => TypeOK
  BY DEF SlabInv
<1> QED BY <1>1, SlabInvariance, PTL

(***************************************************************************)
(* The free list is exact: it holds every vacated key once.                *)
(***************************************************************************)
THEOREM FreeListExact == SlabSpec => []FreeExact
<1>1. SlabInv => FreeExact
  BY DEF SlabInv
<1> QED BY <1>1, SlabInvariance, PTL

(***************************************************************************)
(* The Vec is never longer than the most values live at a time.            *)
(***************************************************************************)
THEOREM SlabDense == SlabSpec => []Dense
<1>1. SlabInv => Dense
  BY DEF SlabInv
<1> QED BY <1>1, SlabInvariance, PTL

(***************************************************************************)
(* Every behaviour of the slab is one of the arena it promises to be.      *)
(***************************************************************************)
THEOREM ImplementsArena == SlabSpec => IsArena
<1> DEFINE live == [k \in LiveKeys |-> slots[k + 1]]
<1>1. SlabInit => A!Init
  <2> SUFFICES ASSUME SlabInit PROVE A!Init
    OBVIOUS
  <2>1. LiveKeys = {} /\ ret = None
    BY DEF SlabInit, LiveKeys
  <2> QED BY <2>1 DEF A!Init
<1>2. SlabInv /\ SlabInv' /\ [SlabNext]_slabVars => [A!Next]_(A!arenaVars)
  <2> SUFFICES ASSUME SlabInv, SlabInv', [SlabNext]_slabVars
               PROVE  [A!Next]_(A!arenaVars)
    OBVIOUS
  <2>0. /\ Len(slots) \in Nat /\ Len(slots) <= KeyRange
        /\ LiveKeys \subseteq Keys
        /\ \A k \in Keys : InUse(k) <=> k \in LiveKeys
    BY SlabAssumption DEF SlabInv, TypeOK, LiveKeys, Keys, InUse
  <2>1. ASSUME NEW v \in Values, Reuse(v) PROVE A!Insert(v)
    <3> DEFINE k == free[Len(free)]
    <3>1. /\ k \in 0 .. Len(slots) - 1
          /\ k \notin LiveKeys
          /\ LiveKeys' = LiveKeys \union {k}
          /\ slots'[k + 1] = v
          /\ \A j \in LiveKeys : slots'[j + 1] = slots[j + 1]
      BY <2>1, ReuseFacts DEF LiveKeys
    <3>2. ret' = k /\ k \in Keys \ DOMAIN live
      BY <2>0, <2>1, <3>1, SlabAssumption DEF Reuse, Keys
    <3> HIDE DEF k
    <3>3. live' = [j \in DOMAIN live \union {k} |-> IF j = k THEN v ELSE live[j]]
      BY <3>1
    <3> QED BY <3>2, <3>3 DEF A!Insert
  <2>2. ASSUME NEW v \in Values, Grow(v) PROVE A!Insert(v)
    <3> DEFINE k == Len(slots)
    <3>1. /\ ret' = k /\ k \in Keys
          /\ k \notin LiveKeys
          /\ LiveKeys' = LiveKeys \union {k}
          /\ slots'[k + 1] = v
          /\ \A j \in LiveKeys : slots'[j + 1] = slots[j + 1]
      BY <2>2, GrowFacts DEF LiveKeys
    <3> HIDE DEF k
    <3>2. k \in Keys \ DOMAIN live
      BY <3>1
    <3>3. live' = [j \in DOMAIN live \union {k} |-> IF j = k THEN v ELSE live[j]]
      BY <3>1
    <3> QED BY <3>1, <3>2, <3>3 DEF A!Insert
  <2>3. ASSUME NEW k \in Keys, Remove(k) PROVE A!Remove(k)
    <3>1. /\ k \in LiveKeys
          /\ LiveKeys' = LiveKeys \ {k}
          /\ \A j \in LiveKeys \ {k} : slots'[j + 1] = slots[j + 1]
          /\ ret' = slots[k + 1]
      BY <2>3, RemoveFacts DEF LiveKeys, Remove
    <3>2. live' = [j \in DOMAIN live \ {k} |-> live[j]]
      BY <3>1
    <3>3. ret' = A!Lookup(k)
      BY <3>1 DEF A!Lookup
    <3> QED BY <3>2, <3>3 DEF A!Remove
  <2>4. ASSUME UNCHANGED slots PROVE live' = live
    BY <2>4 DEF LiveKeys
  <2>5. ASSUME NEW k \in Keys, RemoveStale(k) PROVE A!Remove(k)
    <3>1. k \notin LiveKeys /\ ret' = None /\ UNCHANGED slots
      BY <2>0, <2>5 DEF RemoveStale
    <3>2. DOMAIN live = LiveKeys /\ LiveKeys \ {k} = LiveKeys
      BY <3>1
    <3>3. live' = live
      BY <2>4, <3>1
    <3>4. live' = [j \in DOMAIN live \ {k} |-> live[j]]
      <4>1. live = [j \in LiveKeys |-> live[j]]
        OBVIOUS
      <4> HIDE DEF live
      <4> QED BY <3>2, <3>3, <4>1
    <3>5. ret' = A!Lookup(k)
      BY <3>1 DEF A!Lookup
    <3> QED BY <3>4, <3>5 DEF A!Remove
  <2>6. ASSUME NEW k \in Keys, Get(k) PROVE A!Get(k)
    <3>1. live' = live
      BY <2>4, <2>6 DEF Get
    <3>2. Lookup(k) = A!Lookup(k)
      BY <2>0 DEF Lookup, A!Lookup
    <3> QED BY <2>6, <3>1, <3>2 DEF Get, A!Get
  <2>7. ASSUME Count PROVE A!Count
    <3>1. live' = live
      BY <2>4, <2>7 DEF Count
    <3>2. Size = Cardinality(LiveKeys) /\ DOMAIN live = LiveKeys
      BY DEF SlabInv, SizeExact
    <3>3. ret' = Cardinality(DOMAIN live)
      BY <2>7, <3>2 DEF Count
    <3> QED BY <3>1, <3>3 DEF A!Count, A!Cardinality, Cardinality
  <2>8. ASSUME UNCHANGED slabVars PROVE UNCHANGED A!arenaVars
    BY <2>4, <2>8 DEF slabVars, A!arenaVars
  <2> QED BY <2>1, <2>2, <2>3, <2>5, <2>6, <2>7, <2>8 DEF SlabNext, A!Next
<1> QED BY <1>1, <1>2, SlabInvariance, PTL DEF SlabSpec, IsArena, A!Spec
=============================================================================

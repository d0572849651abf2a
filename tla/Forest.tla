------------------------------- MODULE Forest -------------------------------
(***************************************************************************)
(* What the moves of core/mutation.rs promise, with the pointers left out: *)
(* a forest K gives every node the sequence of its children.               *)
(***************************************************************************)
EXTENDS Naturals, Sequences

PlaceOf(s, c) == CHOOSE i \in DOMAIN s : s[i] = c

Without(s, c) ==
  IF \E i \in DOMAIN s : s[i] = c
    THEN SubSeq(s, 1, PlaceOf(s, c) - 1) \o SubSeq(s, PlaceOf(s, c) + 1, Len(s))
    ELSE s

\* c leaves its parent; the order of the others stays.
Leave(K, c) == [n \in DOMAIN K |-> Without(K[n], c)]

AppendKid(K, p, c) == [Leave(K, c) EXCEPT ![p] = Append(@, c)]

PrependKid(K, p, c) == [Leave(K, c) EXCEPT ![p] = <<c>> \o @]

PutBehind(s, a, c) == SubSeq(s, 1, PlaceOf(s, a)) \o <<c>> \o SubSeq(s, PlaceOf(s, a) + 1, Len(s))

InsertKid(K, p, a, c) == [Leave(K, c) EXCEPT ![p] = PutBehind(@, a, c)]

\* n is gone, and all that hangs below it.
Gone(K, n) ==
  {m \in DOMAIN K : \A S \in SUBSET DOMAIN K :
     n \in S /\ (\A k \in S : \A i \in DOMAIN K[k] : K[k][i] \in S) => m \in S}

RemoveKid(K, n) == [m \in DOMAIN K \ Gone(K, n) |-> Without(K[m], n)]
=============================================================================

-------------------------------- MODULE Atom --------------------------------
(***************************************************************************)
(* The text of an atom (memory/atom.rs): short ones lie in a buffer of a   *)
(* fixed size, padded with zeros, the others in a box of their own.        *)
(***************************************************************************)
EXTENDS Integers, Sequences

CONSTANT InlineCap     \* size of the buffer, INLINE_CAP: 15 in the code

\* The length of a text in the buffer is a u8.
ASSUME AtomAssumption == InlineCap \in 0 .. 255

\* The two representations: Inline(len, buffer) and Heap(box).
Atoms ==
  {a \in [inline : BOOLEAN, len : Nat, bytes : Seq(0 .. 255)] :
     IF a.inline THEN Len(a.bytes) = InlineCap /\ a.len <= InlineCap
                 ELSE a.len = Len(a.bytes) /\ a.len > InlineCap}

\* Mistake: the length of a full buffer wraps around to 0.
NewFull(s) ==
  IF Len(s) <= InlineCap
    THEN [inline |-> TRUE, len |-> IF Len(s) = InlineCap THEN 0 ELSE Len(s),
          bytes  |-> [i \in 1 .. InlineCap |-> IF i <= Len(s) THEN s[i] ELSE 0]]
    ELSE [inline |-> FALSE, len |-> Len(s), bytes |-> s]

New(s) ==
  IF Len(s) <= InlineCap
    THEN [inline |-> TRUE, len |-> Len(s) % 256,
          bytes  |-> [i \in 1 .. InlineCap |-> IF i <= Len(s) THEN s[i] ELSE 0]]
    ELSE [inline |-> FALSE, len |-> Len(s), bytes |-> s]

AsStr(a) == IF a.inline THEN SubSeq(a.bytes, 1, a.len) ELSE a.bytes
=============================================================================

------------------------------ MODULE Equality ------------------------------
(***************************************************************************)
(* subtrees_equal (py/shared.rs): pairs of nodes of two tables are         *)
(* compared until one differs or none is left.                             *)
(***************************************************************************)
EXTENDS Nodes, Sequences

VARIABLES lefts, rights,   \* the tables
          stack,           \* of pairs
          lc, rc,          \* the children that are paired next, or Null
          equal            \* the answer, when Done

L == stack[Len(stack)][1]
R == stack[Len(stack)][2]

Begin(l, r) == stack' = << <<l, r>> >> /\ lc' = Null /\ rc' = Null /\ equal' = TRUE

Pairing == lc # Null /\ rc # Null

PushPair ==
  /\ Pairing
  /\ stack' = Append(stack, <<lc, rc>>)
  /\ lc' = lefts[lc].next /\ rc' = rights[rc].next
  /\ UNCHANGED equal

Pops == ~ Pairing /\ stack # <<>> /\ stack' = SubSeq(stack, 1, Len(stack) - 1)

SameAtoms ==
  /\ Pops
  /\ lefts[L].kind # List /\ lefts[L].kind = rights[R].kind
  /\ UNCHANGED <<lc, rc, equal>>

\* Mistake: the counts are not compared.
SameListsUncounted ==
  /\ Pops
  /\ lefts[L].kind = List /\ rights[R].kind = List
  /\ lc' = lefts[L].first /\ rc' = rights[R].first
  /\ UNCHANGED equal

SameLists ==
  /\ Pops
  /\ lefts[L].kind = List /\ rights[R].kind = List
  /\ lefts[L].count = rights[R].count
  /\ lc' = lefts[L].first /\ rc' = rights[R].first
  /\ UNCHANGED equal

\* The first difference ends it.
Differ ==
  /\ ~ Pairing /\ stack # <<>>
  /\ \/ lefts[L].kind # rights[R].kind
     \/ lefts[L].kind = List /\ lefts[L].count # rights[R].count
  /\ equal' = FALSE
  /\ stack' = <<>> /\ lc' = Null /\ rc' = Null

EqualStep == PushPair \/ SameAtoms \/ SameLists \/ Differ

Done == stack = <<>> /\ ~ Pairing
=============================================================================

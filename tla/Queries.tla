------------------------------ MODULE Queries ------------------------------
(***************************************************************************)
(* What the methods of SExp that only read answer on a table: indexing by  *)
(* number and by name, and membership (py/sexp.rs).                        *)
(***************************************************************************)
EXTENDS Nodes, Sequences

(***************************************************************************)
(* ChildIter: what it yields from a node on, following next_sibling.       *)
(***************************************************************************)
Onward(N) ==
  LET s[n \in Live(N) \union {Null}] == IF n = Null THEN <<>> ELSE <<n>> \o s[N[n].next]
  IN  s

Yielded(N, n) == Onward(N)[N[n].first]

\* Its nth; Null stands for None.
Nth(N, n, k) == IF k < Len(Yielded(N, n)) THEN Yielded(N, n)[k + 1] ELSE Null

\* Mistake: the index one past the last is let through.
GetItemPastEnd(N, n, index) ==
  LET real == IF index < 0 THEN N[n].count + index ELSE index
  IN  IF real < 0 \/ real > N[n].count THEN Vacant ELSE Nth(N, n, real)

(***************************************************************************)
(* __getitem__ with a number: Vacant stands for IndexError, and Null for   *)
(* the failure of expect, which ends the process.                          *)
(***************************************************************************)
GetItem(N, n, index) ==
  LET real == IF index < 0 THEN N[n].count + index ELSE index
  IN  IF real < 0 \/ real >= N[n].count THEN Vacant ELSE Nth(N, n, real)

(***************************************************************************)
(* __getitem__ with a name: the first child that has it, as its head or as *)
(* its value; Null stands for KeyError.                                    *)
(***************************************************************************)
\* Mistake: the first child of a child is not looked at.
HasNameItself(N, c, v) == N[c].kind = v

HasName(N, c, v) == N[IF N[c].first # Null THEN N[c].first ELSE c].kind = v

FindName(N, n, v) ==
  LET c    == Yielded(N, n)
      hits == {i \in DOMAIN c : HasName(N, c[i], v)}
  IN  IF hits = {} THEN Null ELSE c[CHOOSE i \in hits : \A j \in hits : i <= j]

\* __contains__ with a node and with a text.
ContainsNode(N, n, m) == \E i \in DOMAIN Yielded(N, n) : Yielded(N, n)[i] = m

ContainsText(N, n, v) == \E i \in DOMAIN Yielded(N, n) : N[Yielded(N, n)[i]].kind = v
=============================================================================

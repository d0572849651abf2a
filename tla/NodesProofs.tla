---------------------------- MODULE NodesProofs ----------------------------
(***************************************************************************)
(* Lemmas about the operators of Nodes: which cells and fields the pointer *)
(* surgery writes, and that it keeps a table well formed.                  *)
(***************************************************************************)
EXTENDS Nodes, FiniteSetTheorems, TLAPS

(***************************************************************************)
(* A function that is a node exactly where a table is one is a table with  *)
(* the same live slots.                                                    *)
(***************************************************************************)
LEMMA TableByCell ==
  ASSUME NEW N \in Table, NEW M, M = [n \in Slots |-> M[n]],
         \A n \in Live(N) : M[n] \in Node,
         \A n \in Slots \ Live(N) : M[n] = Vacant
  PROVE  M \in Table /\ Live(M) = Live(N)
BY NodesAssumption DEF Table, Live

(***************************************************************************)
(* The cells of a table: nodes in the live slots, Vacant elsewhere.        *)
(***************************************************************************)
LEMMA TableCells ==
  ASSUME NEW N \in Table
  PROVE  /\ Live(N) \subseteq Slots
         /\ \A n \in Live(N) : N[n] \in Node
         /\ \A n \in Slots \ Live(N) : N[n] = Vacant
         /\ Null \notin Slots
BY NodesAssumption DEF Table, Live

(***************************************************************************)
(* What LinkLast writes.                                                   *)
(***************************************************************************)
LEMMA LinkLastFields ==
  ASSUME NEW N \in Table, NEW p \in Live(N), NEW c \in Live(N),
         p # c,
         N[p].last \in Live(N) \union {Null}
  PROVE  LET M == LinkLast(N, p, c)
             l == N[p].last
         IN  /\ M \in Table /\ Live(M) = Live(N)
             /\ \A n \in Live(N) :
                  /\ M[n].parent = IF n = c THEN p ELSE N[n].parent
                  /\ M[n].prev = IF n = c THEN l ELSE N[n].prev
                  /\ M[n].next = IF n = l THEN c ELSE IF n = c THEN Null ELSE N[n].next
                  /\ M[n].first = IF n = p /\ l = Null THEN c ELSE N[n].first
                  /\ M[n].last = IF n = p THEN c ELSE N[n].last
                  /\ M[n].count = IF n = p THEN N[n].count + 1 ELSE N[n].count
                  /\ M[n].kind = N[n].kind
<1> DEFINE l == N[p].last
           N1 == [N EXCEPT ![c].parent = p, ![c].prev = l, ![c].next = Null]
           N2 == IF l # Null THEN [N1 EXCEPT ![l].next = c]
                             ELSE [N1 EXCEPT ![p].first = c]
           M == [N2 EXCEPT ![p].last = c, ![p].count = @ + 1]
<1>0. /\ Live(N) \subseteq Slots
      /\ \A n \in Live(N) : N[n] \in Node
      /\ \A n \in Slots \ Live(N) : N[n] = Vacant
      /\ Null \notin Slots
  BY TableCells
<1>1. \A n \in Live(N) :
        /\ N1[n] \in Node
        /\ N1[n].parent = IF n = c THEN p ELSE N[n].parent
        /\ N1[n].prev = IF n = c THEN l ELSE N[n].prev
        /\ N1[n].next = IF n = c THEN Null ELSE N[n].next
        /\ N1[n].first = N[n].first
        /\ N1[n].last = N[n].last
        /\ N1[n].count = N[n].count
        /\ N1[n].kind = N[n].kind
  BY <1>0, ZenonT(30) DEF Table, Node, Link
<1>2. /\ \A n \in Slots \ Live(N) : N1[n] = Vacant
      /\ N1 = [n \in Slots |-> N1[n]]
  BY <1>0 DEF Table
<1>3. N1 \in Table /\ Live(N1) = Live(N)
  <2> HIDE DEF N1
  <2> QED BY <1>1, <1>2, TableByCell
<1>4. \A n \in Live(N) :
        /\ N2[n] \in Node
        /\ N2[n].parent = N1[n].parent
        /\ N2[n].prev = N1[n].prev
        /\ N2[n].next = IF n = l THEN c ELSE N1[n].next
        /\ N2[n].first = IF n = p /\ l = Null THEN c ELSE N1[n].first
        /\ N2[n].last = N1[n].last
        /\ N2[n].count = N1[n].count
        /\ N2[n].kind = N1[n].kind
  <2> HIDE DEF N1
  <2> QED BY <1>0, <1>1, <1>3 DEF Table, Node, Link
<1>5. /\ \A n \in Slots \ Live(N) : N2[n] = Vacant
      /\ N2 = [n \in Slots |-> N2[n]]
  <2> HIDE DEF N1
  <2> QED BY <1>0, <1>2, <1>3 DEF Table
<1>6. N2 \in Table /\ Live(N2) = Live(N)
  <2> HIDE DEF N2
  <2> QED BY <1>4, <1>5, TableByCell
<1>7. \A n \in Live(N) :
        /\ M[n] \in Node
        /\ M[n].parent = N2[n].parent
        /\ M[n].prev = N2[n].prev
        /\ M[n].next = N2[n].next
        /\ M[n].first = N2[n].first
        /\ M[n].last = IF n = p THEN c ELSE N2[n].last
        /\ M[n].count = IF n = p THEN N2[n].count + 1 ELSE N2[n].count
        /\ M[n].kind = N2[n].kind
  <2> HIDE DEF N2
  <2> QED BY <1>0, <1>4, <1>6 DEF Table, Node, Link
<1>8. /\ \A n \in Slots \ Live(N) : M[n] = Vacant
      /\ M = [n \in Slots |-> M[n]]
  <2> HIDE DEF N2
  <2> QED BY <1>0, <1>5, <1>6 DEF Table
<1>9. M \in Table /\ Live(M) = Live(N)
  <2> HIDE DEF M
  <2> QED BY <1>7, <1>8, TableByCell
<1>10. M = LinkLast(N, p, c)
  BY DEF LinkLast
<1> HIDE DEF N1, N2, M
<1> QED BY <1>0, <1>1, <1>4, <1>7, <1>9, <1>10

(***************************************************************************)
(* What LinkFirst writes.                                                  *)
(***************************************************************************)
LEMMA LinkFirstFields ==
  ASSUME NEW N \in Table, NEW p \in Live(N), NEW c \in Live(N),
         p # c,
         N[p].first \in Live(N) \union {Null}
  PROVE  LET M == LinkFirst(N, p, c)
             f == N[p].first
         IN  /\ M \in Table /\ Live(M) = Live(N)
             /\ \A n \in Live(N) :
                  /\ M[n].parent = IF n = c THEN p ELSE N[n].parent
                  /\ M[n].prev = IF n = f THEN c ELSE IF n = c THEN Null ELSE N[n].prev
                  /\ M[n].next = IF n = c THEN f ELSE N[n].next
                  /\ M[n].first = IF n = p THEN c ELSE N[n].first
                  /\ M[n].last = IF n = p /\ f = Null THEN c ELSE N[n].last
                  /\ M[n].count = IF n = p THEN N[n].count + 1 ELSE N[n].count
                  /\ M[n].kind = N[n].kind
<1> DEFINE f == N[p].first
           N1 == [N EXCEPT ![c].parent = p, ![c].prev = Null, ![c].next = f]
           N2 == IF f # Null THEN [N1 EXCEPT ![f].prev = c]
                             ELSE [N1 EXCEPT ![p].last = c]
           M == [N2 EXCEPT ![p].first = c, ![p].count = @ + 1]
<1>0. /\ Live(N) \subseteq Slots
      /\ \A n \in Live(N) : N[n] \in Node
      /\ \A n \in Slots \ Live(N) : N[n] = Vacant
      /\ Null \notin Slots
  BY TableCells
<1>1. \A n \in Live(N) :
        /\ N1[n] \in Node
        /\ N1[n].parent = IF n = c THEN p ELSE N[n].parent
        /\ N1[n].prev = IF n = c THEN Null ELSE N[n].prev
        /\ N1[n].next = IF n = c THEN f ELSE N[n].next
        /\ N1[n].first = N[n].first
        /\ N1[n].last = N[n].last
        /\ N1[n].count = N[n].count
        /\ N1[n].kind = N[n].kind
  BY <1>0, ZenonT(30) DEF Table, Node, Link
<1>2. /\ \A n \in Slots \ Live(N) : N1[n] = Vacant
      /\ N1 = [n \in Slots |-> N1[n]]
  BY <1>0 DEF Table
<1>3. N1 \in Table /\ Live(N1) = Live(N)
  <2> HIDE DEF N1
  <2> QED BY <1>1, <1>2, TableByCell
<1>4. \A n \in Live(N) :
        /\ N2[n] \in Node
        /\ N2[n].parent = N1[n].parent
        /\ N2[n].prev = IF n = f THEN c ELSE N1[n].prev
        /\ N2[n].next = N1[n].next
        /\ N2[n].first = N1[n].first
        /\ N2[n].last = IF n = p /\ f = Null THEN c ELSE N1[n].last
        /\ N2[n].count = N1[n].count
        /\ N2[n].kind = N1[n].kind
  <2> HIDE DEF N1
  <2> QED BY <1>0, <1>1, <1>3 DEF Table, Node, Link
<1>5. /\ \A n \in Slots \ Live(N) : N2[n] = Vacant
      /\ N2 = [n \in Slots |-> N2[n]]
  <2> HIDE DEF N1
  <2> QED BY <1>0, <1>2, <1>3 DEF Table
<1>6. N2 \in Table /\ Live(N2) = Live(N)
  <2> HIDE DEF N2
  <2> QED BY <1>4, <1>5, TableByCell
<1>7. \A n \in Live(N) :
        /\ M[n] \in Node
        /\ M[n].parent = N2[n].parent
        /\ M[n].prev = N2[n].prev
        /\ M[n].next = N2[n].next
        /\ M[n].first = IF n = p THEN c ELSE N2[n].first
        /\ M[n].last = N2[n].last
        /\ M[n].count = IF n = p THEN N2[n].count + 1 ELSE N2[n].count
        /\ M[n].kind = N2[n].kind
  <2> HIDE DEF N2
  <2> QED BY <1>0, <1>4, <1>6 DEF Table, Node, Link
<1>8. /\ \A n \in Slots \ Live(N) : M[n] = Vacant
      /\ M = [n \in Slots |-> M[n]]
  <2> HIDE DEF N2
  <2> QED BY <1>0, <1>5, <1>6 DEF Table
<1>9. M \in Table /\ Live(M) = Live(N)
  <2> HIDE DEF M
  <2> QED BY <1>7, <1>8, TableByCell
<1>10. M = LinkFirst(N, p, c)
  BY DEF LinkFirst
<1> HIDE DEF N1, N2, M
<1> QED BY <1>0, <1>1, <1>4, <1>7, <1>9, <1>10

(***************************************************************************)
(* What LinkAfter writes.                                                  *)
(***************************************************************************)
LEMMA LinkAfterFields ==
  ASSUME NEW N \in Table, NEW p \in Live(N), NEW a \in Live(N), NEW c \in Live(N),
         p # c,
         a # c,
         N[a].next \in Live(N) \union {Null}
  PROVE  LET M == LinkAfter(N, p, a, c)
             r == N[a].next
         IN  /\ M \in Table /\ Live(M) = Live(N)
             /\ \A n \in Live(N) :
                  /\ M[n].parent = IF n = c THEN p ELSE N[n].parent
                  /\ M[n].prev = IF n = r THEN c ELSE IF n = c THEN a ELSE N[n].prev
                  /\ M[n].next = IF n = a THEN c ELSE IF n = c THEN r ELSE N[n].next
                  /\ M[n].first = N[n].first
                  /\ M[n].last = IF n = p /\ r = Null THEN c ELSE N[n].last
                  /\ M[n].count = IF n = p THEN N[n].count + 1 ELSE N[n].count
                  /\ M[n].kind = N[n].kind
<1> DEFINE r == N[a].next
           N1 == [N EXCEPT ![c].parent = p, ![c].prev = a, ![c].next = r,
                           ![a].next = c]
           N2 == IF r # Null THEN [N1 EXCEPT ![r].prev = c]
                             ELSE [N1 EXCEPT ![p].last = c]
           M == [N2 EXCEPT ![p].count = @ + 1]
<1>0. /\ Live(N) \subseteq Slots
      /\ \A n \in Live(N) : N[n] \in Node
      /\ \A n \in Slots \ Live(N) : N[n] = Vacant
      /\ Null \notin Slots
  BY TableCells
<1>1. \A n \in Live(N) :
        /\ N1[n] \in Node
        /\ N1[n].parent = IF n = c THEN p ELSE N[n].parent
        /\ N1[n].prev = IF n = c THEN a ELSE N[n].prev
        /\ N1[n].next = IF n = a THEN c ELSE IF n = c THEN r ELSE N[n].next
        /\ N1[n].first = N[n].first
        /\ N1[n].last = N[n].last
        /\ N1[n].count = N[n].count
        /\ N1[n].kind = N[n].kind
  BY <1>0 DEF Table, Node, Link
<1>2. /\ \A n \in Slots \ Live(N) : N1[n] = Vacant
      /\ N1 = [n \in Slots |-> N1[n]]
  BY <1>0 DEF Table
<1>3. N1 \in Table /\ Live(N1) = Live(N)
  <2> HIDE DEF N1
  <2> QED BY <1>1, <1>2, TableByCell
<1>4. \A n \in Live(N) :
        /\ N2[n] \in Node
        /\ N2[n].parent = N1[n].parent
        /\ N2[n].prev = IF n = r THEN c ELSE N1[n].prev
        /\ N2[n].next = N1[n].next
        /\ N2[n].first = N1[n].first
        /\ N2[n].last = IF n = p /\ r = Null THEN c ELSE N1[n].last
        /\ N2[n].count = N1[n].count
        /\ N2[n].kind = N1[n].kind
  <2> HIDE DEF N1
  <2> QED BY <1>0, <1>1, <1>3 DEF Table, Node, Link
<1>5. /\ \A n \in Slots \ Live(N) : N2[n] = Vacant
      /\ N2 = [n \in Slots |-> N2[n]]
  <2> HIDE DEF N1
  <2> QED BY <1>0, <1>2, <1>3 DEF Table
<1>6. N2 \in Table /\ Live(N2) = Live(N)
  <2> HIDE DEF N2
  <2> QED BY <1>4, <1>5, TableByCell
<1>7. \A n \in Live(N) :
        /\ M[n] \in Node
        /\ M[n].parent = N2[n].parent
        /\ M[n].prev = N2[n].prev
        /\ M[n].next = N2[n].next
        /\ M[n].first = N2[n].first
        /\ M[n].last = N2[n].last
        /\ M[n].count = IF n = p THEN N2[n].count + 1 ELSE N2[n].count
        /\ M[n].kind = N2[n].kind
  <2> HIDE DEF N2
  <2> QED BY <1>0, <1>4, <1>6 DEF Table, Node, Link
<1>8. /\ \A n \in Slots \ Live(N) : M[n] = Vacant
      /\ M = [n \in Slots |-> M[n]]
  <2> HIDE DEF N2
  <2> QED BY <1>0, <1>5, <1>6 DEF Table
<1>9. M \in Table /\ Live(M) = Live(N)
  <2> HIDE DEF M
  <2> QED BY <1>7, <1>8, TableByCell
<1>10. M = LinkAfter(N, p, a, c)
  BY DEF LinkAfter
<1> HIDE DEF N1, N2, M
<1> QED BY <1>0, <1>1, <1>4, <1>7, <1>9, <1>10

(***************************************************************************)
(* A node with its three upward links cleared.                             *)
(***************************************************************************)
LEMMA ClearedNode ==
  ASSUME NEW r \in Node
  PROVE  LET s == [r EXCEPT !.parent = Null, !.prev = Null, !.next = Null]
         IN  /\ s \in Node
             /\ s.parent = Null /\ s.prev = Null /\ s.next = Null
             /\ s.first = r.first /\ s.last = r.last
             /\ s.count = r.count /\ s.kind = r.kind
BY DEF Node, Link

(***************************************************************************)
(* What Unlink writes.                                                     *)
(***************************************************************************)
LEMMA UnlinkFields ==
  ASSUME NEW N \in Table, NEW x \in Live(N),
         {N[x].parent, N[x].prev, N[x].next} \subseteq Live(N) \union {Null}
  PROVE  LET M == Unlink(N, x)
             p == N[x].parent
             l == N[x].prev
             r == N[x].next
         IN  /\ M \in Table /\ Live(M) = Live(N)
             /\ \A n \in Live(N) :
                  /\ M[n].parent = IF n = x THEN Null ELSE N[n].parent
                  /\ M[n].prev = IF n = x THEN Null ELSE IF n = r THEN l ELSE N[n].prev
                  /\ M[n].next = IF n = x THEN Null ELSE IF n = l THEN r ELSE N[n].next
                  /\ M[n].first = IF n = p /\ l = Null THEN r ELSE N[n].first
                  /\ M[n].last = IF n = p /\ r = Null THEN l ELSE N[n].last
                  /\ M[n].count = IF n = p THEN N[n].count - 1 ELSE N[n].count
                  /\ M[n].kind = N[n].kind
<1> DEFINE p == N[x].parent
           l == N[x].prev
           r == N[x].next
           N1 == IF l # Null THEN [N EXCEPT ![l].next = r]
                 ELSE IF p # Null THEN [N EXCEPT ![p].first = r]
                 ELSE N
           N2 == IF r # Null THEN [N1 EXCEPT ![r].prev = l]
                 ELSE IF p # Null THEN [N1 EXCEPT ![p].last = l]
                 ELSE N1
           N3 == IF p # Null THEN [N2 EXCEPT ![p].count = @ - 1] ELSE N2
           M == [N3 EXCEPT ![x].parent = Null, ![x].prev = Null, ![x].next = Null]
<1>0. /\ Live(N) \subseteq Slots
      /\ \A n \in Live(N) : N[n] \in Node
      /\ \A n \in Slots \ Live(N) : N[n] = Vacant
      /\ Null \notin Slots
  BY TableCells
<1>1. \A n \in Live(N) :
        /\ N1[n] \in Node
        /\ N1[n].parent = N[n].parent
        /\ N1[n].prev = N[n].prev
        /\ N1[n].next = IF n = l THEN r ELSE N[n].next
        /\ N1[n].first = IF n = p /\ l = Null THEN r ELSE N[n].first
        /\ N1[n].last = N[n].last
        /\ N1[n].count = N[n].count
        /\ N1[n].kind = N[n].kind
  BY <1>0 DEF Table, Node, Link
<1>2. /\ \A n \in Slots \ Live(N) : N1[n] = Vacant
      /\ N1 = [n \in Slots |-> N1[n]]
  BY <1>0 DEF Table
<1>3. N1 \in Table /\ Live(N1) = Live(N)
  <2> HIDE DEF N1
  <2> QED BY <1>1, <1>2, TableByCell
<1>4. \A n \in Live(N) :
        /\ N2[n] \in Node
        /\ N2[n].parent = N1[n].parent
        /\ N2[n].prev = IF n = r THEN l ELSE N1[n].prev
        /\ N2[n].next = N1[n].next
        /\ N2[n].first = N1[n].first
        /\ N2[n].last = IF n = p /\ r = Null THEN l ELSE N1[n].last
        /\ N2[n].count = N1[n].count
        /\ N2[n].kind = N1[n].kind
  <2> HIDE DEF N1
  <2> QED BY <1>0, <1>1, <1>3 DEF Table, Node, Link
<1>5. /\ \A n \in Slots \ Live(N) : N2[n] = Vacant
      /\ N2 = [n \in Slots |-> N2[n]]
  <2> HIDE DEF N1
  <2> QED BY <1>0, <1>2, <1>3 DEF Table
<1>6. N2 \in Table /\ Live(N2) = Live(N)
  <2> HIDE DEF N2
  <2> QED BY <1>4, <1>5, TableByCell
<1>7. \A n \in Live(N) :
        /\ N3[n] \in Node
        /\ N3[n].parent = N2[n].parent
        /\ N3[n].prev = N2[n].prev
        /\ N3[n].next = N2[n].next
        /\ N3[n].first = N2[n].first
        /\ N3[n].last = N2[n].last
        /\ N3[n].count = IF n = p THEN N2[n].count - 1 ELSE N2[n].count
        /\ N3[n].kind = N2[n].kind
  <2> HIDE DEF N2
  <2> QED BY <1>0, <1>4, <1>6 DEF Table, Node, Link
<1>8. /\ \A n \in Slots \ Live(N) : N3[n] = Vacant
      /\ N3 = [n \in Slots |-> N3[n]]
  <2> HIDE DEF N2
  <2> QED BY <1>0, <1>5, <1>6 DEF Table
<1>9. N3 \in Table /\ Live(N3) = Live(N)
  <2> HIDE DEF N3
  <2> QED BY <1>7, <1>8, TableByCell
<1>10. \A n \in Live(N) :
        /\ M[n] \in Node
        /\ M[n].parent = IF n = x THEN Null ELSE N3[n].parent
        /\ M[n].prev = IF n = x THEN Null ELSE N3[n].prev
        /\ M[n].next = IF n = x THEN Null ELSE N3[n].next
        /\ M[n].first = N3[n].first
        /\ M[n].last = N3[n].last
        /\ M[n].count = N3[n].count
        /\ M[n].kind = N3[n].kind
  <2> HIDE DEF N3
  <2>1. \A n \in Live(N) : N3[n] \in Node
    BY <1>7
  <2>2. \A n \in Live(N) \ {x} : M[n] = N3[n]
    BY <1>0, <1>9 DEF Table
  <2>3. M[x] = [N3[x] EXCEPT !.parent = Null, !.prev = Null, !.next = Null]
    BY <1>0, <1>9 DEF Table
  <2>4. /\ M[x] \in Node
        /\ M[x].parent = Null /\ M[x].prev = Null /\ M[x].next = Null
        /\ M[x].first = N3[x].first /\ M[x].last = N3[x].last
        /\ M[x].count = N3[x].count /\ M[x].kind = N3[x].kind
    BY <2>1, <2>3, ClearedNode, ZenonT(30)
  <2> HIDE DEF M
  <2> QED BY <2>1, <2>2, <2>4
<1>11. /\ \A n \in Slots \ Live(N) : M[n] = Vacant
      /\ M = [n \in Slots |-> M[n]]
  <2> HIDE DEF N3
  <2> QED BY <1>0, <1>8, <1>9 DEF Table
<1>12. M \in Table /\ Live(M) = Live(N)
  <2> HIDE DEF M
  <2> QED BY <1>10, <1>11, TableByCell
<1>13. M = Unlink(N, x)
  BY DEF Unlink
<1> HIDE DEF N1, N2, N3, M
<1> QED BY <1>0, <1>1, <1>4, <1>7, <1>10, <1>12, <1>13

(***************************************************************************)
(* No node is its own sibling.                                             *)
(***************************************************************************)
LEMMA NotOwnSibling ==
  ASSUME NEW N \in Table, NoSiblingCycle(N), SiblingsAgree(N), LinkLive(N), NEW x \in Live(N)
  PROVE  N[x].next # x /\ N[x].prev # x
<1>1. N[x].next # x
  BY {x} # {}, {x} \in SUBSET Live(N) DEF NoSiblingCycle
<1>2. N[x].prev # x
  BY <1>1, TableCells DEF SiblingsAgree
<1> QED BY <1>1, <1>2

(***************************************************************************)
(* Unlinking leaves every link in agreement.                               *)
(***************************************************************************)
LEMMA UnlinkLinks ==
  ASSUME NEW N \in Table, LinksOK(N), NoSiblingCycle(N), NEW x \in Live(N)
  PROVE  LinksOK(Unlink(N, x))
<1> DEFINE M == Unlink(N, x)
<1>1. {N[x].parent, N[x].prev, N[x].next} \subseteq Live(N) \union {Null}
  BY DEF LinksOK, LinkLive
<1>2. /\ M \in Table /\ Live(M) = Live(N)
      /\ \A n \in Live(N) :
           /\ M[n].parent = IF n = x THEN Null ELSE N[n].parent
           /\ M[n].prev = IF n = x THEN Null ELSE IF n = N[x].next THEN N[x].prev ELSE N[n].prev
           /\ M[n].next = IF n = x THEN Null ELSE IF n = N[x].prev THEN N[x].next ELSE N[n].next
           /\ M[n].first = IF n = N[x].parent /\ N[x].prev = Null THEN N[x].next ELSE N[n].first
           /\ M[n].last = IF n = N[x].parent /\ N[x].next = Null THEN N[x].prev ELSE N[n].last
  BY <1>1, UnlinkFields
<1>3. N[x].next # x /\ N[x].prev # x
  BY NotOwnSibling DEF LinksOK
<1>0. Null \notin Live(N)
  BY TableCells
<1> HIDE DEF M
<1>4. LinkLive(M)
  BY <1>1, <1>2 DEF LinkLive, LinksOK
<1>5. SiblingsAgree(M)
  <2> SUFFICES ASSUME NEW n \in Live(N)
               PROVE  /\ M[n].next # Null => /\ M[M[n].next].prev = n
                                            /\ M[M[n].next].parent = M[n].parent
                      /\ M[n].prev # Null => M[M[n].prev].next = n
    BY <1>2 DEF SiblingsAgree
  <2> QED BY <1>0, <1>1, <1>2, <1>3 DEF LinksOK, LinkLive, SiblingsAgree, ChildLinked
<1>6. EndsAgree(M)
  <2> SUFFICES ASSUME NEW n \in Live(N)
               PROVE  /\ M[n].first = Null <=> M[n].last = Null
                      /\ M[n].first # Null => M[M[n].first].parent = n /\ M[M[n].first].prev = Null
                      /\ M[n].last # Null  => M[M[n].last].parent = n /\ M[M[n].last].next = Null
    BY <1>2 DEF EndsAgree
  <2> QED BY <1>0, <1>1, <1>2, <1>3, SMTT(30) DEF LinksOK, LinkLive, SiblingsAgree, EndsAgree, ChildLinked
<1>7. ChildLinked(M)
  <2> SUFFICES ASSUME NEW n \in Live(N)
               PROVE  IF M[n].parent = Null
                        THEN M[n].prev = Null /\ M[n].next = Null
                        ELSE /\ M[n].prev = Null => M[M[n].parent].first = n
                             /\ M[n].next = Null => M[M[n].parent].last = n
    BY <1>2 DEF ChildLinked
  <2> QED BY <1>0, <1>1, <1>2, <1>3 DEF LinksOK, LinkLive, SiblingsAgree, EndsAgree, ChildLinked
<1> QED BY <1>4, <1>5, <1>6, <1>7 DEF LinksOK, M

(***************************************************************************)
(* Unlinking closes no sibling list on itself.                             *)
(***************************************************************************)
LEMMA UnlinkSiblingCycle ==
  ASSUME NEW N \in Table, LinksOK(N), NoSiblingCycle(N), NEW x \in Live(N)
  PROVE  NoSiblingCycle(Unlink(N, x))
<1> DEFINE M == Unlink(N, x)
<1>1. {N[x].parent, N[x].prev, N[x].next} \subseteq Live(N) \union {Null}
  BY DEF LinksOK, LinkLive
<1>2. /\ Live(M) = Live(N)
      /\ \A n \in Live(N) :
           M[n].next = IF n = x THEN Null ELSE IF n = N[x].prev THEN N[x].next ELSE N[n].next
  BY <1>1, UnlinkFields
<1>0. Null \notin Live(N)
  BY TableCells
<1> HIDE DEF M
<1> SUFFICES ASSUME NEW S \in SUBSET Live(N), S # {}
             PROVE  \E n \in S : M[n].next \notin S
  BY <1>2 DEF NoSiblingCycle, M
<1>4. CASE x \in S
  BY <1>0, <1>2, <1>4
<1>5. CASE x \notin S
  <2>1. PICK n \in S : N[n].next \notin S
    BY DEF NoSiblingCycle
  <2>2. CASE n # N[x].prev
    BY <1>2, <1>5, <2>1, <2>2
  <2>3. CASE n = N[x].prev
    <3>1. PICK m \in S \union {x} : N[m].next \notin S \union {x}
      <4>1. S \union {x} \in SUBSET Live(N) /\ S \union {x} # {}
        OBVIOUS
      <4> QED BY <4>1 DEF NoSiblingCycle
    <3>2. N[n].next = x
      BY <1>0, <2>3 DEF LinksOK, SiblingsAgree
    <3>3. CASE m = x
      BY <1>2, <1>5, <2>3, <3>1, <3>3
    <3>4. CASE m # x
      BY <1>2, <1>5, <2>3, <3>1, <3>2, <3>4
    <3> QED BY <3>3, <3>4
  <2> QED BY <2>2, <2>3
<1> QED BY <1>4, <1>5

(***************************************************************************)
(* Linking an unattached node as last child keeps links and lists right.   *)
(***************************************************************************)
LEMMA LinkLastLinks ==
  ASSUME NEW N \in Table, LinksOK(N), NoSiblingCycle(N),
         NEW p \in Live(N), NEW c \in Live(N), p # c, N[c].parent = Null
  PROVE  LinksOK(LinkLast(N, p, c)) /\ NoSiblingCycle(LinkLast(N, p, c))
<1> DEFINE M == LinkLast(N, p, c)
           l == N[p].last
<1>0. Null \notin Live(N)
  BY TableCells
<1>1. l \in Live(N) \union {Null}
  BY DEF LinksOK, LinkLive
<1>2. /\ Live(M) = Live(N)
      /\ \A n \in Live(N) :
           /\ M[n].parent = IF n = c THEN p ELSE N[n].parent
           /\ M[n].prev = IF n = c THEN l ELSE N[n].prev
           /\ M[n].next = IF n = l THEN c ELSE IF n = c THEN Null ELSE N[n].next
           /\ M[n].first = IF n = p /\ l = Null THEN c ELSE N[n].first
           /\ M[n].last = IF n = p THEN c ELSE N[n].last
  BY <1>1, LinkLastFields
<1>3. /\ N[c].prev = Null /\ N[c].next = Null /\ l # c
      /\ l # Null => N[l].parent = p /\ N[l].next = Null
  BY <1>0, <1>1 DEF LinksOK, ChildLinked, EndsAgree
<1> HIDE DEF M, l
<1>4. LinkLive(M)
  BY <1>1, <1>2 DEF LinkLive, LinksOK
<1>5. SiblingsAgree(M)
  <2> SUFFICES ASSUME NEW n \in Live(N)
               PROVE  /\ M[n].next # Null => /\ M[M[n].next].prev = n
                                            /\ M[M[n].next].parent = M[n].parent
                      /\ M[n].prev # Null => M[M[n].prev].next = n
    BY <1>2 DEF SiblingsAgree
  <2> QED BY <1>0, <1>1, <1>2, <1>3 DEF LinksOK, LinkLive, SiblingsAgree
<1>6. EndsAgree(M)
  <2> SUFFICES ASSUME NEW n \in Live(N)
               PROVE  /\ M[n].first = Null <=> M[n].last = Null
                      /\ M[n].first # Null => M[M[n].first].parent = n /\ M[M[n].first].prev = Null
                      /\ M[n].last # Null  => M[M[n].last].parent = n /\ M[M[n].last].next = Null
    BY <1>2 DEF EndsAgree
  <2> QED BY <1>0, <1>1, <1>2, <1>3 DEF LinksOK, LinkLive, EndsAgree, l
<1>7. ChildLinked(M)
  <2> SUFFICES ASSUME NEW n \in Live(N)
               PROVE  IF M[n].parent = Null
                        THEN M[n].prev = Null /\ M[n].next = Null
                        ELSE /\ M[n].prev = Null => M[M[n].parent].first = n
                             /\ M[n].next = Null => M[M[n].parent].last = n
    BY <1>2 DEF ChildLinked
  <2> QED BY <1>0, <1>1, <1>2, <1>3 DEF LinksOK, LinkLive, EndsAgree, ChildLinked, l
<1>8. NoSiblingCycle(M)
  <2> SUFFICES ASSUME NEW S \in SUBSET Live(N), S # {}
               PROVE  \E n \in S : M[n].next \notin S
    BY <1>2 DEF NoSiblingCycle
  <2>1. CASE c \in S
    BY <1>0, <1>2, <1>3, <2>1
  <2>2. CASE c \notin S
    <3>1. PICK n \in S : N[n].next \notin S
      BY DEF NoSiblingCycle
    <3> QED BY <1>2, <2>2, <3>1
  <2> QED BY <2>1, <2>2
<1> QED BY <1>4, <1>5, <1>6, <1>7, <1>8 DEF LinksOK, M

(***************************************************************************)
(* Linking an unattached node as first child keeps links and lists right.  *)
(***************************************************************************)
LEMMA LinkFirstLinks ==
  ASSUME NEW N \in Table, LinksOK(N), NoSiblingCycle(N),
         NEW p \in Live(N), NEW c \in Live(N), p # c, N[c].parent = Null
  PROVE  LinksOK(LinkFirst(N, p, c)) /\ NoSiblingCycle(LinkFirst(N, p, c))
<1> DEFINE M == LinkFirst(N, p, c)
           f == N[p].first
<1>0. Null \notin Live(N)
  BY TableCells
<1>1. f \in Live(N) \union {Null}
  BY DEF LinksOK, LinkLive
<1>2. /\ Live(M) = Live(N)
      /\ \A n \in Live(N) :
           /\ M[n].parent = IF n = c THEN p ELSE N[n].parent
           /\ M[n].prev = IF n = f THEN c ELSE IF n = c THEN Null ELSE N[n].prev
           /\ M[n].next = IF n = c THEN f ELSE N[n].next
           /\ M[n].first = IF n = p THEN c ELSE N[n].first
           /\ M[n].last = IF n = p /\ f = Null THEN c ELSE N[n].last
  BY <1>1, LinkFirstFields
<1>3. /\ N[c].prev = Null /\ N[c].next = Null /\ f # c
      /\ f # Null => N[f].parent = p /\ N[f].prev = Null
  BY <1>0, <1>1 DEF LinksOK, ChildLinked, EndsAgree
<1> HIDE DEF M, f
<1>4. LinkLive(M)
  BY <1>1, <1>2 DEF LinkLive, LinksOK
<1>5. SiblingsAgree(M)
  <2> SUFFICES ASSUME NEW n \in Live(N)
               PROVE  /\ M[n].next # Null => /\ M[M[n].next].prev = n
                                            /\ M[M[n].next].parent = M[n].parent
                      /\ M[n].prev # Null => M[M[n].prev].next = n
    BY <1>2 DEF SiblingsAgree
  <2> QED BY <1>0, <1>1, <1>2, <1>3 DEF LinksOK, LinkLive, SiblingsAgree
<1>6. EndsAgree(M)
  <2> SUFFICES ASSUME NEW n \in Live(N)
               PROVE  /\ M[n].first = Null <=> M[n].last = Null
                      /\ M[n].first # Null => M[M[n].first].parent = n /\ M[M[n].first].prev = Null
                      /\ M[n].last # Null  => M[M[n].last].parent = n /\ M[M[n].last].next = Null
    BY <1>2 DEF EndsAgree
  <2> QED BY <1>0, <1>1, <1>2, <1>3 DEF LinksOK, LinkLive, EndsAgree, f
<1>7. ChildLinked(M)
  <2> SUFFICES ASSUME NEW n \in Live(N)
               PROVE  IF M[n].parent = Null
                        THEN M[n].prev = Null /\ M[n].next = Null
                        ELSE /\ M[n].prev = Null => M[M[n].parent].first = n
                             /\ M[n].next = Null => M[M[n].parent].last = n
    BY <1>2 DEF ChildLinked
  <2> QED BY <1>0, <1>1, <1>2, <1>3 DEF LinksOK, LinkLive, EndsAgree, ChildLinked, f
<1>8. NoSiblingCycle(M)
  <2> SUFFICES ASSUME NEW S \in SUBSET Live(N), S # {}
               PROVE  \E n \in S : M[n].next \notin S
    BY <1>2 DEF NoSiblingCycle
  <2>1. CASE S = {c}
    BY <1>2, <1>3, <2>1
  <2>2. CASE S # {c}
    <3>1. PICK n \in S \ {c} : N[n].next \notin S \ {c}
      <4>1. S \ {c} \in SUBSET Live(N) /\ S \ {c} # {}
        BY <2>2
      <4> QED BY <4>1 DEF NoSiblingCycle
    <3>2. N[n].next # c
      BY <1>0, <1>3 DEF LinksOK, SiblingsAgree
    <3> QED BY <1>2, <3>1, <3>2
  <2> QED BY <2>1, <2>2
<1> QED BY <1>4, <1>5, <1>6, <1>7, <1>8 DEF LinksOK, M

(***************************************************************************)
(* Linking an unattached node after a child of its new parent keeps links  *)
(* and lists right.                                                        *)
(***************************************************************************)
LEMMA LinkAfterLinks ==
  ASSUME NEW N \in Table, LinksOK(N), NoSiblingCycle(N),
         NEW p \in Live(N), NEW a \in Live(N), NEW c \in Live(N),
         p # c, a # c, N[c].parent = Null, N[a].parent = p
  PROVE  LinksOK(LinkAfter(N, p, a, c)) /\ NoSiblingCycle(LinkAfter(N, p, a, c))
<1> DEFINE M == LinkAfter(N, p, a, c)
           r == N[a].next
<1>0. Null \notin Live(N)
  BY TableCells
<1>1. r \in Live(N) \union {Null}
  BY DEF LinksOK, LinkLive
<1>2. /\ Live(M) = Live(N)
      /\ \A n \in Live(N) :
           /\ M[n].parent = IF n = c THEN p ELSE N[n].parent
           /\ M[n].prev = IF n = r THEN c ELSE IF n = c THEN a ELSE N[n].prev
           /\ M[n].next = IF n = a THEN c ELSE IF n = c THEN r ELSE N[n].next
           /\ M[n].first = N[n].first
           /\ M[n].last = IF n = p /\ r = Null THEN c ELSE N[n].last
  BY <1>1, LinkAfterFields
<1>3. /\ N[c].prev = Null /\ N[c].next = Null /\ r # c /\ r # a
      /\ r # Null => N[r].parent = p /\ N[r].prev = a
  BY <1>0, <1>1, NotOwnSibling DEF LinksOK, ChildLinked, SiblingsAgree
<1> HIDE DEF M, r
<1>4. LinkLive(M)
  BY <1>1, <1>2 DEF LinkLive, LinksOK
<1>5. SiblingsAgree(M)
  <2> SUFFICES ASSUME NEW n \in Live(N)
               PROVE  /\ M[n].next # Null => /\ M[M[n].next].prev = n
                                            /\ M[M[n].next].parent = M[n].parent
                      /\ M[n].prev # Null => M[M[n].prev].next = n
    BY <1>2 DEF SiblingsAgree
  <2> QED BY <1>0, <1>1, <1>2, <1>3 DEF LinksOK, LinkLive, SiblingsAgree, r
<1>6. EndsAgree(M)
  <2> SUFFICES ASSUME NEW n \in Live(N)
               PROVE  /\ M[n].first = Null <=> M[n].last = Null
                      /\ M[n].first # Null => M[M[n].first].parent = n /\ M[M[n].first].prev = Null
                      /\ M[n].last # Null  => M[M[n].last].parent = n /\ M[M[n].last].next = Null
    BY <1>2 DEF EndsAgree
  <2> QED BY <1>0, <1>1, <1>2, <1>3, SMTT(30) DEF LinksOK, LinkLive, EndsAgree, SiblingsAgree, ChildLinked, r
<1>7. ChildLinked(M)
  <2> SUFFICES ASSUME NEW n \in Live(N)
               PROVE  IF M[n].parent = Null
                        THEN M[n].prev = Null /\ M[n].next = Null
                        ELSE /\ M[n].prev = Null => M[M[n].parent].first = n
                             /\ M[n].next = Null => M[M[n].parent].last = n
    BY <1>2 DEF ChildLinked
  <2> QED BY <1>0, <1>1, <1>2, <1>3 DEF LinksOK, LinkLive, ChildLinked, r
<1>8. NoSiblingCycle(M)
  <2> SUFFICES ASSUME NEW S \in SUBSET Live(N), S # {}
               PROVE  \E n \in S : M[n].next \notin S
    BY <1>2 DEF NoSiblingCycle
  <2>1. CASE S = {c}
    BY <1>2, <1>3, <2>1
  <2>2. CASE S # {c}
    <3>1. PICK n \in S \ {c} : N[n].next \notin S \ {c}
      <4>1. S \ {c} \in SUBSET Live(N) /\ S \ {c} # {}
        BY <2>2
      <4> QED BY <4>1 DEF NoSiblingCycle
    <3>2. N[n].next # c
      BY <1>0, <1>3 DEF LinksOK, SiblingsAgree
    <3>3. CASE n # a
      BY <1>2, <3>1, <3>2, <3>3
    <3>4. CASE n = a /\ c \in S
      BY <1>2, <1>3, <3>1, <3>2, <3>4 DEF r
    <3>5. CASE n = a /\ c \notin S
      BY <1>2, <3>1, <3>5
    <3> QED BY <3>3, <3>4, <3>5
  <2> QED BY <2>1, <2>2
<1> QED BY <1>4, <1>5, <1>6, <1>7, <1>8 DEF LinksOK, M

(***************************************************************************)
(* Ancestors(N, n) holds n and is closed under the parent link.            *)
(***************************************************************************)
LEMMA AncestorsClosed ==
  ASSUME NEW N \in Table, NEW n \in Slots
  PROVE  n \in Ancestors(N, n) /\ ParentClosed(N, Ancestors(N, n))
<1>1. n \in Ancestors(N, n)
  BY DEF Ancestors
<1>2. ASSUME NEW m \in Ancestors(N, n) \intersect Live(N), N[m].parent # Null
      PROVE  N[m].parent \in Ancestors(N, n)
  <2>1. N[m].parent \in Slots
    BY <1>2, TableCells DEF Node, Link
  <2>2. ASSUME NEW S \in SUBSET Slots, n \in S, ParentClosed(N, S)
        PROVE  N[m].parent \in S
    <3>1. m \in S
      BY <2>2 DEF Ancestors
    <3> QED BY <1>2, <2>2, <3>1 DEF ParentClosed
  <2> QED BY <2>1, <2>2 DEF Ancestors
<1> QED BY <1>1, <1>2 DEF ParentClosed

(***************************************************************************)
(* Giving c the parent p closes no parent chain when c is not on the chain *)
(* from p. This is what would_create_cycle has to establish.               *)
(***************************************************************************)
LEMMA MoveParentCycle ==
  ASSUME NEW N \in Table, NEW M \in Table, Live(M) = Live(N),
         NEW p \in Live(N), NEW c \in Live(N),
         NoParentCycle(N), c \notin Ancestors(N, p),
         \A n \in Live(N) : M[n].parent = IF n = c THEN p ELSE N[n].parent
  PROVE  NoParentCycle(M)
<1> SUFFICES ASSUME NEW S \in SUBSET Live(N), S # {},
                    \A n \in S : M[n].parent \in S
             PROVE  FALSE
  BY DEF NoParentCycle
<1> DEFINE A == Ancestors(N, p)
           T == S \intersect A
<1>0. Live(N) \subseteq Slots /\ Null \notin Live(N)
  BY TableCells
<1>1. p \in A /\ ParentClosed(N, A)
  BY <1>0, AncestorsClosed
<1> HIDE DEF A
<1>2. CASE c \notin S
  <2>1. PICK n \in S : N[n].parent \notin S
    BY DEF NoParentCycle
  <2> QED BY <1>2, <2>1
<1>3. CASE c \in S
  <2>1. p \in T
    BY <1>1, <1>3
  <2>2. T \in SUBSET Live(N)
    OBVIOUS
  <2>3. PICK n \in T : N[n].parent \notin T
    BY <2>1, <2>2 DEF NoParentCycle
  <2>4. n # c
    BY <2>3 DEF A
  <2>5. N[n].parent \in S
    BY <2>3, <2>4
  <2>6. N[n].parent \in A
    BY <1>0, <1>1, <2>3, <2>5 DEF ParentClosed
  <2> QED BY <2>3, <2>5, <2>6
<1> QED BY <1>2, <1>3

(***************************************************************************)
(* The walk of drop_subtree is the least set with its start and closed     *)
(* under its two links.                                                    *)
(***************************************************************************)
LEMMA WalkProperties ==
  ASSUME NEW N \in Table, NEW n \in Slots
  PROVE  /\ Walk(N, n) \subseteq Slots
         /\ n \in Walk(N, n)
         /\ WalkClosed(N, Walk(N, n))
         /\ \A S \in SUBSET Slots : n \in S /\ WalkClosed(N, S) => Walk(N, n) \subseteq S
<1>1. n \in Walk(N, n) /\ Walk(N, n) \subseteq Slots
  BY DEF Walk
<1>2. ASSUME NEW m \in Walk(N, n) \intersect Live(N)
      PROVE  /\ N[m].last = Null \/ N[m].last \in Walk(N, n)
             /\ N[m].prev = Null \/ N[m].prev \in Walk(N, n)
  <2>1. N[m].last \in Slots \union {Null} /\ N[m].prev \in Slots \union {Null}
    BY TableCells DEF Node, Link
  <2>2. ASSUME NEW S \in SUBSET Slots, n \in S, WalkClosed(N, S)
        PROVE  /\ N[m].last = Null \/ N[m].last \in S
               /\ N[m].prev = Null \/ N[m].prev \in S
    <3>1. m \in S
      BY <2>2 DEF Walk
    <3> QED BY <2>2, <3>1 DEF WalkClosed
  <2> QED BY <2>1, <2>2 DEF Walk
<1>3. \A S \in SUBSET Slots : n \in S /\ WalkClosed(N, S) => Walk(N, n) \subseteq S
  BY DEF Walk
<1> QED BY <1>1, <1>2, <1>3 DEF WalkClosed

(***************************************************************************)
(* From a node without a parent the walk reaches exactly what hangs below: *)
(* it follows last_child and prev_sibling only, and since sibling lists    *)
(* end, no child is left out.                                              *)
(***************************************************************************)
LEMMA WalkDescends ==
  ASSUME NEW N \in Table, LinksOK(N), NoSiblingCycle(N),
         NEW x \in Live(N), N[x].parent = Null
  PROVE  LET W == Walk(N, x)
         IN  /\ W \subseteq Live(N)
             /\ \A m \in W \ {x} : N[m].parent \in W
             /\ \A m \in Live(N) : N[m].parent \in W => m \in W
<1> DEFINE W == Walk(N, x)
           D == {m \in W \intersect Live(N) : m = x \/ N[m].parent \in W}
<1>0. /\ Live(N) \subseteq Slots
      /\ Null \notin Slots
      /\ W \subseteq Slots
      /\ x \in W
      /\ WalkClosed(N, W)
      /\ \A S \in SUBSET Slots : x \in S /\ WalkClosed(N, S) => W \subseteq S
  BY TableCells, WalkProperties
<1> HIDE DEF W
<1>1. N[x].prev = Null
  BY DEF LinksOK, ChildLinked
<1>2. W \subseteq D
  <2>1. D \in SUBSET Slots /\ x \in D
    BY <1>0
  <2>2. ASSUME NEW m \in D
        PROVE  /\ N[m].last = Null \/ N[m].last \in D
               /\ N[m].prev = Null \/ N[m].prev \in D
    <3>1. N[m].last \in Live(N) \union {Null} /\ N[m].prev \in Live(N) \union {Null}
      BY DEF LinksOK, LinkLive
    <3>2. /\ N[m].last = Null \/ N[m].last \in W
          /\ N[m].prev = Null \/ N[m].prev \in W
      BY <1>0 DEF WalkClosed
    <3>3. N[m].last # Null => N[N[m].last].parent = m
      BY DEF LinksOK, EndsAgree
    <3>4. N[m].prev # Null => N[N[m].prev].parent = N[m].parent
      BY <1>0, <3>1 DEF LinksOK, SiblingsAgree
    <3> QED BY <1>1, <3>1, <3>2, <3>3, <3>4
  <2> HIDE DEF D
  <2>3. WalkClosed(N, D)
    BY <2>2 DEF WalkClosed
  <2> QED BY <1>0, <2>1, <2>3
<1>3. ASSUME NEW k \in Live(N), N[k].parent \in W, k \notin W
      PROVE  FALSE
  <2> DEFINE q == N[k].parent
             U == {m \in Live(N) : N[m].parent = q /\ m \notin W}
  <2>1. PICK m \in U : N[m].next \notin U
    <3>1. U \in SUBSET Live(N) /\ U # {}
      BY <1>3
    <3> HIDE DEF U
    <3> QED BY <3>1 DEF NoSiblingCycle
  <2>2. q \in Live(N)
    BY <1>0, <1>3 DEF LinksOK, LinkLive
  <2>3. N[m].next # Null
    <3>1. N[q].last = Null \/ N[q].last \in W
      BY <1>0, <1>3, <2>2 DEF WalkClosed
    <3>2. N[m].next = Null => N[q].last = m
      BY <1>0, <2>1, <2>2 DEF LinksOK, ChildLinked
    <3> QED BY <1>0, <2>1, <3>1, <3>2
  <2>4. N[m].next \in Live(N) /\ N[N[m].next].parent = q /\ N[N[m].next].prev = m
    BY <2>1, <2>3 DEF LinksOK, LinkLive, SiblingsAgree
  <2>5. N[m].next \in W
    BY <2>1, <2>4
  <2> QED BY <1>0, <2>1, <2>4, <2>5 DEF WalkClosed
<1> QED BY <1>2, <1>3 DEF W

(***************************************************************************)
(* Vacating what the walk reaches leaves the rest of the table well formed *)
(* and its nodes unchanged.                                                *)
(***************************************************************************)
LEMMA DropKeeps ==
  ASSUME NEW N \in Table, LinksOK(N), NoSiblingCycle(N),
         NEW x \in Live(N), N[x].parent = Null
  PROVE  LET M == DropSubtree(N, x)
         IN  /\ M \in Table
             /\ Live(M) = Live(N) \ Walk(N, x)
             /\ \A m \in Live(M) : M[m] = N[m]
             /\ LinksOK(M)
             /\ NoSiblingCycle(M)
             /\ NoParentCycle(N) => NoParentCycle(M)
             /\ \A m \in Live(M) : Children(M, m) = Children(N, m)
<1> DEFINE W == Walk(N, x)
           M == DropSubtree(N, x)
<1>0. /\ Live(N) \subseteq Slots
      /\ \A n \in Live(N) : N[n] \in Node
      /\ Null \notin Slots
      /\ x \in W
      /\ W \subseteq Live(N)
      /\ \A m \in W \ {x} : N[m].parent \in W
      /\ \A m \in Live(N) : N[m].parent \in W => m \in W
      /\ WalkClosed(N, W)
  BY TableCells, WalkProperties, WalkDescends
<1>1. M = [m \in Slots |-> IF m \in W THEN Vacant ELSE N[m]]
  BY DEF DropSubtree
<1> HIDE DEF W, M
<1>2. M \in Table
  BY <1>1 DEF Table
<1>3. Live(M) = Live(N) \ W
  BY <1>1 DEF Live
<1>4. \A m \in Live(M) : M[m] = N[m]
  BY <1>1, <1>3, <1>0
<1>5. \A m \in Live(M) : {N[m].parent, N[m].first, N[m].last, N[m].prev, N[m].next} \subseteq Live(M) \union {Null}
  <2> SUFFICES ASSUME NEW m \in Live(M)
               PROVE  {N[m].parent, N[m].first, N[m].last, N[m].prev, N[m].next} \subseteq Live(M) \union {Null}
    OBVIOUS
  <2>1. m \in Live(N) /\ m \notin W
    BY <1>3
  <2>2. {N[m].parent, N[m].first, N[m].last, N[m].prev, N[m].next} \subseteq Live(N) \union {Null}
    BY <2>1 DEF LinksOK, LinkLive
  <2>3. N[x].parent = Null /\ N[x].prev = Null /\ N[x].next = Null
    BY DEF LinksOK, ChildLinked
  <2>4. N[m].parent \notin W
    BY <1>0, <2>1
  <2>5. N[m].first \notin W /\ N[m].last \notin W
    BY <1>0, <2>1, <2>2, <2>3 DEF LinksOK, EndsAgree
  <2>6. N[m].next \notin W
    BY <1>0, <2>1, <2>2 DEF LinksOK, SiblingsAgree, WalkClosed
  <2>7. N[m].prev \notin W
    <3> SUFFICES ASSUME N[m].prev \in W PROVE FALSE
      OBVIOUS
    <3> DEFINE y == N[m].prev
    <3>1. y \in Live(N) /\ y # Null
      BY <1>0
    <3>2. N[y].next = m
      BY <2>1, <3>1 DEF LinksOK, SiblingsAgree
    <3>3. m # Null
      BY <1>0, <2>1
    <3>4. N[y].parent = N[m].parent
      BY <2>1, <3>1, <3>2, <3>3 DEF LinksOK, SiblingsAgree
    <3>5. y # x
      BY <2>3, <3>2, <3>3
    <3> QED BY <1>0, <2>1, <3>4, <3>5
  <2> QED BY <1>3, <2>2, <2>4, <2>5, <2>6, <2>7
<1>6. LinkLive(M)
  BY <1>4, <1>5 DEF LinkLive
<1>7. SiblingsAgree(M)
  BY <1>0, <1>3, <1>4, <1>5 DEF SiblingsAgree, LinksOK
<1>8. EndsAgree(M)
  BY <1>0, <1>3, <1>4, <1>5 DEF EndsAgree, LinksOK
<1>9. ChildLinked(M)
  BY <1>0, <1>3, <1>4, <1>5 DEF ChildLinked, LinksOK
<1>10. NoSiblingCycle(M)
  BY <1>3, <1>4 DEF NoSiblingCycle
<1>11. NoParentCycle(N) => NoParentCycle(M)
  BY <1>3, <1>4 DEF NoParentCycle
<1>12. \A m \in Live(M) : Children(M, m) = Children(N, m)
  BY <1>0, <1>3, <1>4 DEF Children
<1> QED BY <1>2, <1>3, <1>4, <1>6, <1>7, <1>8, <1>9, <1>10, <1>11, <1>12 DEF LinksOK, M, W

(***************************************************************************)
(* A node has finitely many children.                                      *)
(***************************************************************************)
LEMMA ChildrenFinite ==
  ASSUME NEW N \in Table, NEW p
  PROVE  IsFiniteSet(Children(N, p))
<1>1. Children(N, p) \subseteq Slots
  BY TableCells DEF Children
<1> QED BY <1>1, NodesAssumption, FS_Subset

(***************************************************************************)
(* Unlinking keeps child_count equal to the number of children.            *)
(***************************************************************************)
LEMMA UnlinkCount ==
  ASSUME NEW N \in Table, LinksOK(N), CountOK(N), NEW x \in Live(N)
  PROVE  CountOK(Unlink(N, x))
<1> DEFINE M == Unlink(N, x)
<1>0. Null \notin Live(N)
  BY TableCells
<1>1. {N[x].parent, N[x].prev, N[x].next} \subseteq Live(N) \union {Null}
  BY DEF LinksOK, LinkLive
<1>2. /\ Live(M) = Live(N)
      /\ \A n \in Live(N) :
           /\ M[n].parent = IF n = x THEN Null ELSE N[n].parent
           /\ M[n].count = IF n = N[x].parent THEN N[n].count - 1 ELSE N[n].count
  BY <1>1, UnlinkFields
<1> HIDE DEF M
<1> SUFFICES ASSUME NEW q \in Live(N)
             PROVE  M[q].count = Cardinality(Children(M, q))
  BY <1>2 DEF CountOK, M
<1>3. N[q].count = Cardinality(Children(N, q)) /\ IsFiniteSet(Children(N, q))
  BY ChildrenFinite DEF CountOK
<1>4. CASE q = N[x].parent
  <2>1. Children(M, q) = Children(N, q) \ {x} /\ x \in Children(N, q)
    BY <1>0, <1>2, <1>4 DEF Children
  <2>2. Cardinality(Children(M, q)) = Cardinality(Children(N, q)) - 1
    BY <1>3, <2>1, FS_RemoveElement
  <2> QED BY <1>2, <1>3, <1>4, <2>2
<1>5. CASE q # N[x].parent
  <2>1. Children(M, q) = Children(N, q)
    BY <1>0, <1>2, <1>5 DEF Children
  <2> QED BY <1>2, <1>3, <1>5, <2>1
<1> QED BY <1>4, <1>5

(***************************************************************************)
(* So does any of the three ways of linking.                               *)
(***************************************************************************)
LEMMA LinkCount ==
  ASSUME NEW N \in Table, NEW M \in Table, Live(M) = Live(N), CountOK(N),
         NEW p \in Live(N), NEW c \in Live(N), N[c].parent = Null,
         \A n \in Live(N) :
           /\ M[n].parent = IF n = c THEN p ELSE N[n].parent
           /\ M[n].count = IF n = p THEN N[n].count + 1 ELSE N[n].count
  PROVE  CountOK(M)
<1>0. Null \notin Live(N)
  BY TableCells
<1> SUFFICES ASSUME NEW q \in Live(N)
             PROVE  M[q].count = Cardinality(Children(M, q))
  BY DEF CountOK
<1>3. N[q].count = Cardinality(Children(N, q)) /\ IsFiniteSet(Children(N, q))
  BY ChildrenFinite DEF CountOK
<1>4. CASE q = p
  <2>1. Children(M, q) = Children(N, q) \union {c} /\ c \notin Children(N, q)
    BY <1>0, <1>4 DEF Children
  <2> QED BY <1>3, <1>4, <2>1, FS_AddElement, ZenonT(30)
<1>5. CASE q # p
  <2>1. Children(M, q) = Children(N, q)
    BY <1>0, <1>5 DEF Children
  <2> QED BY <1>3, <1>5, <2>1
<1> QED BY <1>4, <1>5

(***************************************************************************)
(* What the first half of append, prepend and insert_after establishes.    *)
(***************************************************************************)
LEMMA DetachKeeps ==
  ASSUME NEW N \in Table, WellFormed(N), NEW c \in Live(N),
         NEW D, D = Detach(N, c)
  PROVE  /\ D \in Table /\ Live(D) = Live(N)
         /\ LinksOK(D) /\ NoSiblingCycle(D) /\ CountOK(D)
         /\ D[c].parent = Null
         /\ \A n \in Live(N) : /\ D[n].parent = IF n = c THEN Null ELSE N[n].parent
                               /\ D[n].kind = N[n].kind
<1>1. CASE N[c].parent = Null
  <2>1. D = N
    BY <1>1 DEF Detach
  <2> QED BY <1>1, <2>1 DEF WellFormed
<1>2. CASE N[c].parent # Null
  <2>1. Detach(N, c) = Unlink(N, c)
    BY <1>2 DEF Detach
  <2>2. {N[c].parent, N[c].prev, N[c].next} \subseteq Live(N) \union {Null}
    BY DEF WellFormed, LinksOK, LinkLive
  <2>3. /\ Unlink(N, c) \in Table /\ Live(Unlink(N, c)) = Live(N)
        /\ \A n \in Live(N) :
             /\ Unlink(N, c)[n].parent = IF n = c THEN Null ELSE N[n].parent
             /\ Unlink(N, c)[n].kind = N[n].kind
    BY <2>2, UnlinkFields
  <2>4. LinksOK(Unlink(N, c)) /\ NoSiblingCycle(Unlink(N, c)) /\ CountOK(Unlink(N, c))
    BY UnlinkLinks, UnlinkSiblingCycle, UnlinkCount DEF WellFormed
  <2> QED BY <2>1, <2>3, <2>4
<1> QED BY <1>1, <1>2

(***************************************************************************)
(* append, prepend and insert_after keep a table well formed and change    *)
(* one parent, when the child is not an ancestor of its new parent.        *)
(***************************************************************************)
LEMMA MoveKeeps ==
  ASSUME NEW N \in Table, WellFormed(N),
         NEW p \in Live(N), NEW c \in Live(N), c \notin Ancestors(N, p),
         NEW M,
         LET D == Detach(N, c)
         IN  \/ M = LinkLast(D, p, c)
             \/ M = LinkFirst(D, p, c)
             \/ \E a \in Children(N, p) \ {c} : M = LinkAfter(D, p, a, c)
  PROVE  /\ M \in Table /\ Live(M) = Live(N)
         /\ WellFormed(M)
         /\ \A n \in Live(N) : /\ M[n].parent = IF n = c THEN p ELSE N[n].parent
                               /\ M[n].kind = N[n].kind
<1> DEFINE D == Detach(N, c)
<1>0. Live(N) \subseteq Slots
  BY TableCells
<1>1. /\ D \in Table /\ Live(D) = Live(N)
      /\ LinksOK(D) /\ NoSiblingCycle(D) /\ CountOK(D)
      /\ D[c].parent = Null
      /\ \A n \in Live(N) : /\ D[n].parent = IF n = c THEN Null ELSE N[n].parent
                            /\ D[n].kind = N[n].kind
  BY DetachKeeps
<1>2. p # c
  BY <1>0, AncestorsClosed
<1>3. \A n \in Live(D) : {D[n].first, D[n].last, D[n].next} \subseteq Live(D) \union {Null}
  BY <1>1 DEF LinksOK, LinkLive
<1> HIDE DEF D
<1>4. /\ M \in Table /\ Live(M) = Live(D)
      /\ LinksOK(M) /\ NoSiblingCycle(M)
      /\ \A n \in Live(D) :
           /\ M[n].parent = IF n = c THEN p ELSE D[n].parent
           /\ M[n].count = IF n = p THEN D[n].count + 1 ELSE D[n].count
           /\ M[n].kind = D[n].kind
  <2>1. CASE M = LinkLast(D, p, c)
    BY <1>1, <1>2, <1>3, <2>1, LinkLastFields, LinkLastLinks
  <2>2. CASE M = LinkFirst(D, p, c)
    BY <1>1, <1>2, <1>3, <2>2, LinkFirstFields, LinkFirstLinks
  <2>3. CASE \E a \in Children(N, p) \ {c} : M = LinkAfter(D, p, a, c)
    <3>1. PICK a \in Children(N, p) \ {c} : M = LinkAfter(D, p, a, c)
      BY <2>3
    <3>2. a \in Live(D) /\ D[a].parent = p /\ a # c
      BY <1>1 DEF Children
    <3>3. D[a].next \in Live(D) \union {Null}
      BY <1>3, <3>2
    <3>4. /\ M \in Table /\ Live(M) = Live(D)
          /\ \A n \in Live(D) :
               /\ M[n].parent = IF n = c THEN p ELSE D[n].parent
               /\ M[n].count = IF n = p THEN D[n].count + 1 ELSE D[n].count
               /\ M[n].kind = D[n].kind
      BY <1>1, <1>2, <3>1, <3>2, <3>3, LinkAfterFields
    <3>5. LinksOK(M) /\ NoSiblingCycle(M)
      BY <1>1, <1>2, <3>1, <3>2, LinkAfterLinks
    <3> QED BY <3>4, <3>5
  <2> QED BY <2>1, <2>2, <2>3 DEF D
<1>5. CountOK(M)
  BY <1>1, <1>4, LinkCount
<1>6. NoParentCycle(M)
  <2>1. \A n \in Live(N) : M[n].parent = IF n = c THEN p ELSE N[n].parent
    BY <1>1, <1>4
  <2> QED BY <1>1, <1>4, <2>1, MoveParentCycle DEF WellFormed
<1> QED BY <1>1, <1>4, <1>5, <1>6 DEF WellFormed

(***************************************************************************)
(* Unlinking closes no parent chain on itself.                             *)
(***************************************************************************)
LEMMA UnlinkParentCycle ==
  ASSUME NEW N \in Table, LinksOK(N), NoParentCycle(N), NEW x \in Live(N)
  PROVE  NoParentCycle(Unlink(N, x))
<1> DEFINE U == Unlink(N, x)
<1>1. {N[x].parent, N[x].prev, N[x].next} \subseteq Live(N) \union {Null}
  BY DEF LinksOK, LinkLive
<1>2. /\ Live(U) = Live(N)
      /\ \A n \in Live(N) : U[n].parent = IF n = x THEN Null ELSE N[n].parent
  BY <1>1, UnlinkFields
<1> HIDE DEF U
<1> SUFFICES ASSUME NEW S \in SUBSET Live(N), S # {}
             PROVE  \E n \in S : U[n].parent \notin S
  BY <1>2 DEF NoParentCycle, U
<1>3. PICK n \in S : N[n].parent \notin S
  BY DEF NoParentCycle
<1> QED BY <1>2, <1>3, TableCells

(***************************************************************************)
(* remove keeps a table well formed.                                       *)
(***************************************************************************)
LEMMA RemoveKeeps ==
  ASSUME NEW N \in Table, WellFormed(N), NEW x \in Live(N)
  PROVE  LET U == Unlink(N, x)
             M == DropSubtree(U, x)
         IN  /\ M \in Table
             /\ Live(M) = Live(N) \ Walk(U, x)
             /\ WellFormed(M)
             /\ \A m \in Live(M) : M[m].parent = N[m].parent
<1> DEFINE U == Unlink(N, x)
           M == DropSubtree(U, x)
<1>1. {N[x].parent, N[x].prev, N[x].next} \subseteq Live(N) \union {Null}
  BY DEF WellFormed, LinksOK, LinkLive
<1>2. /\ U \in Table /\ Live(U) = Live(N)
      /\ U[x].parent = Null
      /\ \A n \in Live(N) : U[n].parent = IF n = x THEN Null ELSE N[n].parent
  BY <1>1, UnlinkFields
<1>3. LinksOK(U) /\ NoSiblingCycle(U) /\ CountOK(U)
  BY UnlinkLinks, UnlinkSiblingCycle, UnlinkCount DEF WellFormed
<1>4. NoParentCycle(U)
  BY UnlinkParentCycle DEF WellFormed
<1>5. x \in Walk(U, x)
  BY WalkProperties, <1>2, TableCells
<1> HIDE DEF U
<1>6. /\ M \in Table
      /\ Live(M) = Live(N) \ Walk(U, x)
      /\ \A m \in Live(M) : M[m] = U[m]
      /\ LinksOK(M) /\ NoSiblingCycle(M) /\ NoParentCycle(M)
      /\ \A m \in Live(M) : Children(M, m) = Children(U, m)
  BY <1>2, <1>3, <1>4, DropKeeps
<1> HIDE DEF M
<1>7. CountOK(M)
  BY <1>2, <1>3, <1>6 DEF CountOK
<1>8. \A m \in Live(M) : M[m].parent = N[m].parent
  BY <1>2, <1>5, <1>6
<1> QED BY <1>6, <1>7, <1>8 DEF WellFormed, M, U

(***************************************************************************)
(* alloc_atom and alloc_list keep a table well formed.                     *)
(***************************************************************************)
LEMMA AllocKeeps ==
  ASSUME NEW N \in Table, WellFormed(N), NEW x \in Slots, N[x] = Vacant,
         NEW k \in Kinds, NEW M, M = Allocate(N, x, k)
  PROVE  /\ M \in Table
         /\ Live(M) = Live(N) \union {x}
         /\ WellFormed(M)
         /\ \A n \in Live(N) : M[n] = N[n]
         /\ M[x] = NewNode(k)
<1>0. NewNode(k) \in Node
  BY DEF NewNode, Node, Link
<1>1. M \in Table
  BY <1>0 DEF Table, Allocate
<1>2. Live(M) = Live(N) \union {x} /\ x \notin Live(N)
  BY <1>0, NodesAssumption DEF Live, Table, Allocate
<1>3. \A n \in Live(N) : M[n] = N[n]
  BY <1>2, TableCells DEF Table, Allocate
<1>4. /\ M[x].parent = Null /\ M[x].first = Null /\ M[x].last = Null
      /\ M[x].prev = Null /\ M[x].next = Null /\ M[x].count = 0
      /\ M[x] = NewNode(k)
  BY DEF NewNode, Table, Allocate
<1>5. Null \notin Slots
  BY TableCells
<1>6. \A n \in Live(N) :
        {N[n].parent, N[n].first, N[n].last, N[n].prev, N[n].next} \subseteq Live(N) \union {Null}
  BY DEF WellFormed, LinksOK, LinkLive
<1>7. LinksOK(M)
  <2>1. LinkLive(M)
    BY <1>2, <1>3, <1>4, <1>6 DEF LinkLive
  <2>2. SiblingsAgree(M)
    BY <1>2, <1>3, <1>4, <1>6 DEF SiblingsAgree, WellFormed, LinksOK
  <2>3. EndsAgree(M)
    BY <1>2, <1>3, <1>4, <1>6 DEF EndsAgree, WellFormed, LinksOK
  <2>4. ChildLinked(M)
    BY <1>2, <1>3, <1>4, <1>6 DEF ChildLinked, WellFormed, LinksOK
  <2> QED BY <2>1, <2>2, <2>3, <2>4 DEF LinksOK
<1>8. NoSiblingCycle(M)
  <2> SUFFICES ASSUME NEW S \in SUBSET (Live(N) \union {x}), S # {}
               PROVE  \E n \in S : M[n].next \notin S
    BY <1>2 DEF NoSiblingCycle
  <2>1. CASE x \in S
    BY <1>4, <1>5, <1>2, <2>1, TableCells
  <2>2. CASE x \notin S
    BY <1>3, <2>2 DEF NoSiblingCycle, WellFormed
  <2> QED BY <2>1, <2>2
<1>9. NoParentCycle(M)
  <2> SUFFICES ASSUME NEW S \in SUBSET (Live(N) \union {x}), S # {}
               PROVE  \E n \in S : M[n].parent \notin S
    BY <1>2 DEF NoParentCycle
  <2>1. CASE x \in S
    BY <1>4, <1>5, <1>2, <2>1, TableCells
  <2>2. CASE x \notin S
    BY <1>3, <2>2 DEF NoParentCycle, WellFormed
  <2> QED BY <2>1, <2>2
<1>10. CountOK(M)
  <2>1. \A n \in Live(N) : Children(M, n) = Children(N, n)
    BY <1>2, <1>3, <1>4, <1>5, TableCells DEF Children
  <2>2. Children(M, x) = {}
    BY <1>2, <1>3, <1>4, <1>5, <1>6 DEF Children
  <2> QED BY <1>2, <1>3, <1>4, <2>1, <2>2, FS_EmptySet DEF CountOK, WellFormed
<1> QED BY <1>1, <1>2, <1>3, <1>4, <1>7, <1>8, <1>9, <1>10 DEF WellFormed

(***************************************************************************)
(* A node without children is nobody else's ancestor.                      *)
(***************************************************************************)
LEMMA ChildlessNotAncestor ==
  ASSUME NEW N \in Table, NEW c \in Slots, NEW p \in Slots, p # c,
         \A n \in Live(N) : N[n].parent # c, LinkLive(N)
  PROVE  c \notin Ancestors(N, p)
<1> DEFINE S == Slots \ {c}
<1>1. ParentClosed(N, S)
  BY DEF ParentClosed, LinkLive, Live
<1>2. p \in S /\ S \in SUBSET Slots /\ c \notin S
  OBVIOUS
<1> QED BY <1>1, <1>2 DEF Ancestors

(***************************************************************************)
(* A fresh node appended to a live one, and all its links.                 *)
(***************************************************************************)
LEMMA FreshLast ==
  ASSUME NEW N \in Table, WellFormed(N), NEW c \in Slots, N[c] = Vacant,
         NEW k \in Kinds, NEW p \in Live(N),
         NEW M, M = LinkLast(Allocate(N, c, k), p, c)
  PROVE  /\ M \in Table
         /\ Live(M) = Live(N) \union {c}
         /\ WellFormed(M)
         /\ \A n \in Live(N) :
              /\ M[n].parent = N[n].parent /\ M[n].kind = N[n].kind
              /\ M[n].next = IF n = N[p].last THEN c ELSE N[n].next
              /\ M[n].first = IF n = p /\ N[p].last = Null THEN c ELSE N[n].first
              /\ M[n].last = IF n = p THEN c ELSE N[n].last
         /\ M[c].parent = p /\ M[c].kind = k
         /\ M[c].next = Null /\ M[c].first = Null /\ M[c].last = Null
<1> DEFINE A == Allocate(N, c, k)
<1>1. /\ A \in Table /\ Live(A) = Live(N) \union {c} /\ WellFormed(A)
      /\ \A n \in Live(N) : A[n] = N[n]
      /\ A[c] = NewNode(k)
  BY AllocKeeps
<1> HIDE DEF A
<1>2. c \notin Live(N) /\ p # c /\ Null \notin Slots /\ p \in Slots
  BY TableCells DEF Live
<1>3. \A n \in Live(N) : {N[n].parent, N[n].last} \subseteq Live(N) \union {Null}
  BY DEF WellFormed, LinksOK, LinkLive
<1>4. \A n \in Live(A) : A[n].parent # c
  BY <1>1, <1>2, <1>3 DEF NewNode
<1>5. A[p] = N[p] /\ A[p].last # c /\ A[p].last \in Live(A) \union {Null}
  BY <1>1, <1>2, <1>3
<1>6. c \notin Ancestors(A, p)
  BY <1>1, <1>2, <1>4, ChildlessNotAncestor DEF WellFormed, LinksOK
<1>7. M = LinkLast(A, p, c)
  BY DEF A
<1>8. Detach(A, c) = A
  BY <1>1 DEF Detach, NewNode
<1>9. M \in Table /\ Live(M) = Live(A) /\ WellFormed(M)
  BY <1>1, <1>6, <1>7, <1>8, MoveKeeps
<1>10. \A n \in Live(A) :
         /\ M[n].parent = IF n = c THEN p ELSE A[n].parent
         /\ M[n].next = IF n = A[p].last THEN c ELSE IF n = c THEN Null ELSE A[n].next
         /\ M[n].first = IF n = p /\ A[p].last = Null THEN c ELSE A[n].first
         /\ M[n].last = IF n = p THEN c ELSE A[n].last
         /\ M[n].kind = A[n].kind
  BY <1>1, <1>2, <1>5, <1>7, LinkLastFields
<1>11. \A n \in Live(N) :
         /\ M[n].parent = N[n].parent /\ M[n].kind = N[n].kind
         /\ M[n].next = IF n = N[p].last THEN c ELSE N[n].next
         /\ M[n].first = IF n = p /\ N[p].last = Null THEN c ELSE N[n].first
         /\ M[n].last = IF n = p THEN c ELSE N[n].last
  BY <1>1, <1>2, <1>5, <1>10
<1>12. /\ M[c].parent = p /\ M[c].kind = k
       /\ M[c].next = Null /\ M[c].first = Null /\ M[c].last = Null
  BY <1>1, <1>2, <1>5, <1>10 DEF NewNode
<1> QED BY <1>1, <1>9, <1>11, <1>12

(***************************************************************************)
(* The ancestors of a node are itself and those of its parent.             *)
(***************************************************************************)
LEMMA AncestorsStep ==
  ASSUME NEW N \in Table, NEW m \in Live(N), NEW q \in Slots, N[m].parent = q
  PROVE  /\ Ancestors(N, q) \subseteq Ancestors(N, m)
         /\ Ancestors(N, m) \subseteq Ancestors(N, q) \union {m}
<1>0. Live(N) \subseteq Slots /\ q # Null
  BY TableCells
<1>1. ASSUME NEW x \in Ancestors(N, q)
      PROVE  x \in Ancestors(N, m)
  <2>1. \A S \in SUBSET Slots : m \in S /\ ParentClosed(N, S) => q \in S
    BY <1>0 DEF ParentClosed
  <2> QED BY <2>1 DEF Ancestors
<1>2. ASSUME NEW x \in Ancestors(N, m), x # m
      PROVE  x \in Ancestors(N, q)
  <2> SUFFICES ASSUME NEW S \in SUBSET Slots, q \in S, ParentClosed(N, S)
               PROVE  x \in S
    BY DEF Ancestors
  <2>1. ParentClosed(N, S \union {m})
    BY DEF ParentClosed
  <2>2. S \union {m} \in SUBSET Slots
    BY <1>0
  <2>3. x \in S \union {m}
    BY <2>1, <2>2 DEF Ancestors
  <2> QED BY <1>2, <2>3
<1> QED BY <1>1, <1>2

(***************************************************************************)
(* What remove frees: the node and its descendants, as the parent links of *)
(* the table before the call have them.                                    *)
(***************************************************************************)
LEMMA FreedAreDescendants ==
  ASSUME NEW N \in Table, WellFormed(N), NEW x \in Live(N)
  PROVE  Walk(Unlink(N, x), x) = {m \in Live(N) : x \in Ancestors(N, m)}
<1> DEFINE U == Unlink(N, x)
           W == Walk(U, x)
<1>1. {N[x].parent, N[x].prev, N[x].next} \subseteq Live(N) \union {Null}
  BY DEF WellFormed, LinksOK, LinkLive
<1>2. /\ U \in Table /\ Live(U) = Live(N)
      /\ U[x].parent = Null
      /\ \A n \in Live(N) : U[n].parent = IF n = x THEN Null ELSE N[n].parent
  BY <1>1, UnlinkFields
<1>3. LinksOK(U) /\ NoSiblingCycle(U)
  BY UnlinkLinks, UnlinkSiblingCycle DEF WellFormed
<1> HIDE DEF U
<1>4. /\ Live(N) \subseteq Slots
      /\ Null \notin Slots
      /\ x \in W
      /\ WalkClosed(U, W)
      /\ \A S \in SUBSET Slots : x \in S /\ WalkClosed(U, S) => W \subseteq S
      /\ W \subseteq Live(N)
      /\ \A m \in W \ {x} : U[m].parent \in W
      /\ \A m \in Live(N) : U[m].parent \in W => m \in W
  BY <1>2, <1>3, TableCells, WalkProperties, WalkDescends
<1> HIDE DEF W
<1>5. ASSUME NEW m \in Live(N), x \in Ancestors(N, m)
      PROVE  m \in W
  <2> SUFFICES ASSUME m \notin W PROVE FALSE
    OBVIOUS
  <2> DEFINE S == Slots \ W
  <2>1. ASSUME NEW k \in S \intersect Live(N), N[k].parent # Null
        PROVE  N[k].parent \in S
    <3>1. k # x /\ N[k].parent = U[k].parent
      BY <1>2, <1>4
    <3>2. N[k].parent \notin W
      BY <1>4, <3>1
    <3>3. N[k].parent \in Slots
      BY <2>1, TableCells DEF Node, Link
    <3> QED BY <3>2, <3>3
  <2>2. ParentClosed(N, S)
    BY <2>1 DEF ParentClosed
  <2>3. m \in S /\ S \in SUBSET Slots
    BY <1>4
  <2>4. x \in S
    BY <1>5, <2>2, <2>3 DEF Ancestors
  <2> QED BY <1>4, <2>4
<1>6. \A m \in W : x \in Ancestors(N, m)
  <2> DEFINE D == {m \in W : x \in Ancestors(N, m)}
  <2>1. D \in SUBSET Slots /\ x \in D
    BY <1>4, AncestorsClosed
  <2>2. ASSUME NEW m \in D, NEW y, y \in {U[m].last, U[m].prev}, y # Null
        PROVE  y \in D
    <3>1. m \in Live(N) /\ m \in W /\ x \in Ancestors(N, m)
      BY <1>4
    <3>2. y \in W /\ y \in Live(N)
      BY <1>2, <1>4, <2>2, <3>1 DEF WalkClosed
    <3>3. CASE y = U[m].last
      <4>1. U[y].parent = m
        BY <1>2, <1>3, <2>2, <3>1, <3>3 DEF LinksOK, EndsAgree
      <4>2. N[y].parent = m
        BY <1>2, <1>4, <3>1, <3>2, <4>1
      <4> QED BY <1>4, <3>1, <3>2, <4>2, AncestorsStep
    <3>4. CASE y = U[m].prev
      <4>1. m # x
        BY <1>2, <1>3, <2>2, <3>4 DEF LinksOK, ChildLinked
      <4>2. U[y].next = m
        BY <1>2, <1>3, <2>2, <3>1, <3>4 DEF LinksOK, SiblingsAgree
      <4>3. U[y].parent = U[m].parent
        BY <1>2, <1>3, <1>4, <3>1, <3>2, <4>2 DEF LinksOK, SiblingsAgree
      <4>4. U[m].parent \in W /\ U[m].parent = N[m].parent
        BY <1>2, <1>4, <3>1, <4>1
      <4>5. y # x
        BY <1>2, <1>4, <4>3, <4>4
      <4>6. N[y].parent = N[m].parent /\ N[m].parent \in Slots
        BY <1>2, <1>4, <3>2, <4>3, <4>4, <4>5
      <4>7. x \in Ancestors(N, N[m].parent)
        BY <3>1, <4>1, <4>6, AncestorsStep
      <4> QED BY <3>2, <4>6, <4>7, AncestorsStep
    <3> QED BY <2>2, <3>3, <3>4
  <2> HIDE DEF D
  <2>3. WalkClosed(U, D)
    BY <2>2 DEF WalkClosed
  <2>4. W \subseteq D
    BY <1>4, <2>1, <2>3
  <2> QED BY <2>4 DEF D
<1> QED BY <1>4, <1>5, <1>6 DEF W, U
(***************************************************************************)
(* Two tables with the same links are well formed together.                *)
(***************************************************************************)
SameLinks(N, M) ==
  \A n \in Live(N) :
    /\ M[n].parent = N[n].parent /\ M[n].prev = N[n].prev /\ M[n].next = N[n].next
    /\ M[n].first = N[n].first /\ M[n].last = N[n].last /\ M[n].count = N[n].count

LEMMA SameLinksKeep ==
  ASSUME NEW N \in Table, WellFormed(N), NEW M \in Table, Live(M) = Live(N), SameLinks(N, M)
  PROVE  WellFormed(M)
<1>1. \A n \in Live(N) :
        {N[n].parent, N[n].first, N[n].last, N[n].prev, N[n].next} \subseteq Live(N) \union {Null}
  BY DEF WellFormed, LinksOK, LinkLive
<1>2. LinkLive(M)
  BY <1>1 DEF LinkLive, SameLinks
<1>3. SiblingsAgree(M)
  BY <1>1 DEF WellFormed, LinksOK, SiblingsAgree, SameLinks
<1>4. EndsAgree(M)
  BY <1>1 DEF WellFormed, LinksOK, EndsAgree, SameLinks
<1>5. ChildLinked(M)
  BY <1>1 DEF WellFormed, LinksOK, ChildLinked, SameLinks
<1>6. NoParentCycle(M) /\ NoSiblingCycle(M)
  BY DEF WellFormed, NoParentCycle, NoSiblingCycle, SameLinks
<1>7. CountOK(M)
  <2>1. \A n \in Live(N) : Children(M, n) = Children(N, n)
    BY DEF Children, SameLinks
  <2>2. \A n \in Live(N) : N[n].count = Cardinality(Children(N, n)) /\ M[n].count = N[n].count
    BY DEF WellFormed, CountOK, SameLinks
  <2>3. \A n \in Live(N) : M[n].count = Cardinality(Children(M, n))
    BY <2>1, <2>2
  <2> QED BY <2>3 DEF CountOK
<1> QED BY <1>2, <1>3, <1>4, <1>5, <1>6, <1>7 DEF WellFormed, LinksOK

(***************************************************************************)
(* The value setter changes no link.                                       *)
(***************************************************************************)
LEMMA SetKindKeeps ==
  ASSUME NEW N \in Table, WellFormed(N), NEW x \in Live(N), NEW k \in Kinds
  PROVE  LET M == [N EXCEPT ![x].kind = k]
         IN  /\ M \in Table /\ Live(M) = Live(N) /\ WellFormed(M)
             /\ SameLinks(N, M)
<1> DEFINE M == [N EXCEPT ![x].kind = k]
<1>0. /\ Live(N) \subseteq Slots
      /\ \A n \in Live(N) : N[n] \in Node
      /\ \A n \in Slots \ Live(N) : N[n] = Vacant
  BY TableCells
<1>1. \A n \in Live(N) : M[n] \in Node
  BY <1>0 DEF Table, Node
<1>2. SameLinks(N, M)
  BY <1>0 DEF Table, Node, SameLinks
<1>3. /\ \A n \in Slots \ Live(N) : M[n] = Vacant
      /\ M = [n \in Slots |-> M[n]]
  BY <1>0 DEF Table
<1> HIDE DEF M
<1>4. M \in Table /\ Live(M) = Live(N)
  BY <1>1, <1>3, TableByCell
<1>5. WellFormed(M)
  BY <1>2, <1>4, SameLinksKeep
<1> QED BY <1>2, <1>4, <1>5 DEF M
=============================================================================

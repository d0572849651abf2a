---------------------------- MODULE CallsProofs ----------------------------
(***************************************************************************)
(* remove and extract, however many steps they take, are the one step they *)
(* are in Tree, so that Calls implements Tree; no walk ever holds the key  *)
(* of a freed node; and what the walks, the copies, indexing and lookup by *)
(* name answer is what it should be.                                       *)
(***************************************************************************)
EXTENDS Calls, TreeProofs, WalkProofs

(***************************************************************************)
(* The elements of a stack, and that none is on it twice.                  *)
(***************************************************************************)
Elems(s) == {s[i] : i \in 1 .. Len(s)}

Once(s) == \A i, j \in 1 .. Len(s) : s[i] = s[j] => i = j

(***************************************************************************)
(* A push adds one element.                                                *)
(***************************************************************************)
LEMMA Pushed ==
  ASSUME NEW S, NEW s \in Seq(S), NEW c \in S
  PROVE  LET t == Append(s, c)
         IN  /\ t \in Seq(S)
             /\ Elems(t) = Elems(s) \union {c}
             /\ Once(s) /\ c \notin Elems(s) => Once(t)
<1> DEFINE t == Append(s, c)
           n == Len(s)
<1>1. /\ n \in Nat /\ t \in Seq(S) /\ Len(t) = n + 1
      /\ t[n + 1] = c /\ \A i \in 1 .. n : t[i] = s[i]
  BY LenProperties, AppendProperties
<1>2. Len(s) = n
  OBVIOUS
<1> HIDE DEF n, t
<1>3. 1 .. n + 1 = (1 .. n) \union {n + 1}
  BY <1>1
<1>4. Elems(t) = Elems(s) \union {c}
  BY <1>1, <1>2, <1>3 DEF Elems
<1>5. ASSUME Once(s), c \notin Elems(s) PROVE Once(t)
  BY <1>1, <1>2, <1>3, <1>5 DEF Once, Elems
<1> QED BY <1>1, <1>4, <1>5 DEF t

(***************************************************************************)
(* A pop takes off the last element.                                       *)
(***************************************************************************)
LEMMA PopsOne ==
  ASSUME NEW S, NEW s \in Seq(S), s # <<>>
  PROVE  LET r == SubSeq(s, 1, Len(s) - 1)
         IN  /\ r \in Seq(S) /\ Len(r) = Len(s) - 1
             /\ \A i \in 1 .. Len(s) - 1 : r[i] = s[i]
             /\ s[Len(s)] \in S
             /\ Elems(s) = Elems(r) \union {s[Len(s)]}
             /\ Once(s) => Once(r) /\ s[Len(s)] \notin Elems(r)
<1> DEFINE r == SubSeq(s, 1, Len(s) - 1)
           n == Len(s)
           m == n - 1
<1>1. n \in Nat \ {0} /\ \A i \in 1 .. n : s[i] \in S
  BY EmptySeq, LenProperties, ElementOfSeq
<1>2. Len(s) = n /\ m \in Nat /\ n = m + 1
  BY <1>1
<1>4. r = SubSeq(s, 1, m)
  OBVIOUS
<1> HIDE DEF n, m, r
<1>3. \A i \in 1 .. m : i \in 1 .. n /\ s[i] \in S
  BY <1>1, <1>2
<1>5. /\ r \in Seq(S) /\ Len(r) = IF 1 <= m THEN m - 1 + 1 ELSE 0
      /\ \A i \in 1 .. m - 1 + 1 : r[i] = s[1 + i - 1]
  BY <1>2, <1>3, <1>4, SubSeqProperties
<1>6. Len(r) = m /\ \A i \in 1 .. m : r[i] = s[i]
  BY <1>2, <1>5
<1>7. 1 .. n = (1 .. m) \union {n} /\ n \notin 1 .. m
  BY <1>1, <1>2
<1>8. Elems(s) = Elems(r) \union {s[n]} /\ s[n] \in S
  BY <1>1, <1>2, <1>6, <1>7 DEF Elems
<1>9. ASSUME Once(s) PROVE Once(r) /\ s[n] \notin Elems(r)
  BY <1>2, <1>6, <1>7, <1>9 DEF Once, Elems
<1>10. Len(r) = n - 1 /\ \A i \in 1 .. n - 1 : r[i] = s[i]
  BY <1>2, <1>6
<1> QED BY <1>2, <1>5, <1>8, <1>9, <1>10 DEF r, n

(***************************************************************************)
(* The elements of a stack come from where the stack does.                 *)
(***************************************************************************)
LEMMA StackElems ==
  ASSUME NEW S, NEW s \in Seq(S)
  PROVE  /\ Elems(s) = {s[i] : i \in DOMAIN s} /\ Elems(s) \subseteq S
         /\ s = <<>> => Elems(s) = {}
<1>1. DOMAIN s = 1 .. Len(s) /\ Len(s) \in Nat /\ \A i \in 1 .. Len(s) : s[i] \in S
  BY LenProperties, ElementOfSeq
<1>2. Elems(s) = {s[i] : i \in DOMAIN s} /\ Elems(s) \subseteq S
  BY <1>1 DEF Elems
<1>3. s = <<>> => Len(s) = 0
  BY EmptySeq
<1> QED BY <1>2, <1>3 DEF Elems

-----------------------------------------------------------------------------
(***************************************************************************)
(* The table U that drop_subtree starts from: x has just been unlinked.    *)
(***************************************************************************)
Detached(U, x) ==
  /\ U \in Table /\ LinksOK(U) /\ NoSiblingCycle(U) /\ NoParentCycle(U)
  /\ x \in Live(U) /\ U[x].parent = Null

LEMMA UnlinkDetaches ==
  ASSUME NEW N \in Table, WellFormed(N), NEW x \in Live(N)
  PROVE  Detached(Unlink(N, x), x) /\ Live(Unlink(N, x)) = Live(N)
<1>1. {N[x].parent, N[x].prev, N[x].next} \subseteq Live(N) \union {Null}
  BY DEF WellFormed, LinksOK, LinkLive
<1>2. /\ Unlink(N, x) \in Table /\ Live(Unlink(N, x)) = Live(N)
      /\ Unlink(N, x)[x].parent = Null
  BY <1>1, UnlinkFields
<1>3. LinksOK(Unlink(N, x)) /\ NoSiblingCycle(Unlink(N, x)) /\ NoParentCycle(Unlink(N, x))
  BY UnlinkLinks, UnlinkSiblingCycle, UnlinkParentCycle DEF WellFormed
<1> QED BY <1>2, <1>3 DEF Detached

(***************************************************************************)
(* Where the links that the walk reads lead in such a table.               *)
(***************************************************************************)
LEMMA LinksRead ==
  ASSUME NEW U, NEW x, Detached(U, x), NEW m \in Live(U)
  PROVE  /\ U[m].parent \in Live(U) \union {Null}
         /\ U[m].last # Null => /\ U[m].last \in Live(U)
                                /\ U[U[m].last].parent = m /\ U[U[m].last].next = Null
         /\ U[m].prev # Null => /\ U[m].prev \in Live(U)
                                /\ U[U[m].prev].next = m
                                /\ U[U[m].prev].parent = U[m].parent
         /\ U[m].next # Null => /\ U[m].next \in Live(U)
                                /\ U[U[m].next].prev = m
                                /\ U[U[m].next].parent = U[m].parent
         /\ U[m].next = Null /\ U[m].parent # Null => U[U[m].parent].last = m
<1>0. Null \notin Live(U)
  BY TableCells DEF Detached
<1>1. {U[m].parent, U[m].last, U[m].prev, U[m].next} \subseteq Live(U) \union {Null}
  BY DEF Detached, LinksOK, LinkLive
<1>2. U[m].last # Null => U[U[m].last].parent = m /\ U[U[m].last].next = Null
  BY DEF Detached, LinksOK, EndsAgree
<1>3. U[m].prev # Null => U[U[m].prev].next = m /\ U[U[m].prev].parent = U[m].parent
  BY <1>0, <1>1 DEF Detached, LinksOK, SiblingsAgree
<1>4. U[m].next # Null => U[U[m].next].prev = m /\ U[U[m].next].parent = U[m].parent
  BY DEF Detached, LinksOK, SiblingsAgree
<1>5. U[m].next = Null /\ U[m].parent # Null => U[U[m].parent].last = m
  BY DEF Detached, LinksOK, ChildLinked
<1> QED BY <1>1, <1>2, <1>3, <1>4, <1>5

(***************************************************************************)
(* While drop_subtree runs, P is what it has still to free of the subtree  *)
(* W.  The walker is at pending nodes only and meets none twice; what it   *)
(* has not reached yet hangs below a pending node; and the children of the *)
(* current node are reached from the last to the first.                    *)
(***************************************************************************)
WalkerPlaced(U, P) ==
  /\ stack \in Seq(P) /\ Once(stack)
  /\ current \in P \union {Null} /\ current \notin Elems(stack)
  /\ cursor \in P \union {Null} /\ cursor \notin Elems(stack)
  /\ cursor # Null => /\ current # Null /\ U[cursor].parent = current
                      /\ U[cursor].next = Null \/ U[cursor].next \in Elems(stack)

FrontierClosed(U, P) ==
  /\ \A m \in Elems(stack) : U[m].parent \in P => U[m].parent = current
  /\ current # Null => U[current].parent \notin P
  /\ \A m \in Live(U) : U[m].parent \in P => m \in P
  /\ \A m \in P : m \notin Elems(stack) /\ m # current => U[m].parent \in P

FromLast(U, P) ==
  \A m \in P :
    current # Null /\ U[m].parent = current /\ m # cursor =>
      IF m \in Elems(stack) THEN U[m].next = Null \/ U[m].next \in Elems(stack)
                            ELSE U[m].next # Null /\ U[m].next \notin Elems(stack)

DropInv(U, W, P) ==
  /\ P \subseteq W
  /\ nodes = [m \in Slots |-> IF m \in W \ P THEN Vacant ELSE U[m]]
  /\ WalkerPlaced(U, P) /\ FrontierClosed(U, P) /\ FromLast(U, P)

(***************************************************************************)
(* The walk begins with the detached node on the stack.                    *)
(***************************************************************************)
LEMMA DropBegins ==
  ASSUME NEW U, NEW x, Detached(U, x), nodes' = U, Dropper!Begin(x)
  PROVE  DropInv(U, Walk(U, x), Walk(U, x))'
<1> DEFINE W == Walk(U, x)
<1>1. /\ W \subseteq Live(U) /\ x \in W
      /\ \A m \in W \ {x} : U[m].parent \in W
      /\ \A m \in Live(U) : U[m].parent \in W => m \in W
      /\ Live(U) \subseteq Slots /\ Null \notin Slots
  BY WalkProperties, WalkDescends, TableCells DEF Detached
<1>2. stack' = <<x>> /\ cursor' = Null /\ current' = Null
  BY DEF Dropper!Begin
<1>3. stack' \in Seq(W) /\ Len(stack') = 1 /\ stack'[1] = x
  BY <1>1, <1>2
<1>4. Elems(stack') = {x} /\ Once(stack')
  BY <1>3 DEF Elems, Once
<1>5. U[x].parent = Null /\ U = [m \in Slots |-> U[m]]
  BY DEF Detached, Table
<1> HIDE DEF W
<1>6. nodes' = [m \in Slots |-> IF m \in W \ W THEN Vacant ELSE U[m]]
  BY <1>5
<1>7. WalkerPlaced(U, W)'
  BY <1>1, <1>2, <1>3, <1>4 DEF WalkerPlaced
<1>8. FrontierClosed(U, W)'
  BY <1>1, <1>2, <1>4, <1>5 DEF FrontierClosed
<1>9. FromLast(U, W)'
  BY <1>1, <1>2, <1>4, <1>5 DEF FromLast
<1> QED BY <1>6, <1>7, <1>8, <1>9 DEF DropInv, W

(***************************************************************************)
(* What holds of the pending nodes in any state of the walk.               *)
(***************************************************************************)
LEMMA PendingNodes ==
  ASSUME NEW U, NEW x, Detached(U, x), NEW P, DropInv(U, Walk(U, x), P)
  PROVE  /\ P \subseteq Live(U) /\ Live(U) \subseteq Slots /\ Null \notin Live(U)
         /\ Null \notin P
         /\ \A m \in P : nodes[m] = U[m]
<1>1. /\ Walk(U, x) \subseteq Live(U)
      /\ Live(U) \subseteq Slots /\ Null \notin Slots
  BY WalkDescends, TableCells DEF Detached
<1> QED BY <1>1 DEF DropInv

(***************************************************************************)
(* A node is popped: it has no pending parent, so that nothing of it was   *)
(* on the stack before.                                                    *)
(***************************************************************************)
LEMMA TakeKeeps ==
  ASSUME NEW U, NEW x, Detached(U, x), NEW P, DropInv(U, Walk(U, x), P), Dropper!Take
  PROVE  DropInv(U, Walk(U, x), P)'
<1> DEFINE t == stack[Len(stack)]
<1>1. /\ P \subseteq Live(U) /\ Null \notin P /\ \A m \in P : nodes[m] = U[m]
  BY PendingNodes
<1>2. /\ cursor = Null /\ current = Null /\ stack # <<>>
      /\ current' = t /\ cursor' = nodes[t].last
      /\ stack' = SubSeq(stack, 1, Len(stack) - 1)
      /\ nodes' = nodes
  BY DEF Dropper!Take, Dropper!Top, Dropper!Popped
<1>3. WalkerPlaced(U, P) /\ FrontierClosed(U, P)
  BY DEF DropInv
<1>4. /\ stack' \in Seq(P) /\ Once(stack') /\ t \in P
      /\ Elems(stack) = Elems(stack') \union {t} /\ t \notin Elems(stack')
      /\ Elems(stack) \subseteq P
  <2>1. stack \in Seq(P) /\ Once(stack)
    BY <1>3 DEF WalkerPlaced
  <2>2. stack # <<>> /\ stack' = SubSeq(stack, 1, Len(stack) - 1)
    BY <1>2
  <2>3. Elems(stack) \subseteq P
    BY <2>1, StackElems
  <2> QED BY <2>1, <2>2, <2>3, PopsOne
<1> HIDE DEF t
<1>5. cursor' = U[t].last /\ t \in Live(U)
  BY <1>1, <1>2, <1>4
<1>6. \A m \in Elems(stack) : U[m].parent \notin P
  BY <1>1, <1>2, <1>3 DEF FrontierClosed
<1>7. cursor' # Null => /\ cursor' \in P /\ U[cursor'].parent = t
                        /\ U[cursor'].next = Null
  BY <1>3, <1>4, <1>5, LinksRead DEF FrontierClosed
<1>8. WalkerPlaced(U, P)'
  <2>1. cursor' \notin Elems(stack')
    BY <1>1, <1>4, <1>6, <1>7
  <2> QED BY <1>1, <1>2, <1>4, <1>7, <2>1 DEF WalkerPlaced
<1>9. FrontierClosed(U, P)'
  BY <1>1, <1>2, <1>3, <1>4, <1>6 DEF FrontierClosed
<1>10. FromLast(U, P)'
  <2> SUFFICES ASSUME NEW m \in P, U[m].parent = t, m # cursor'
               PROVE  /\ m \notin Elems(stack')
                      /\ U[m].next # Null /\ U[m].next \notin Elems(stack')
    BY <1>2 DEF FromLast
  <2>1. m \in Live(U) /\ t # Null
    BY <1>1, <1>4
  <2>2. U[m].next # Null
    BY <1>5, <2>1, LinksRead
  <2>3. U[U[m].next].parent = t
    BY <2>1, <2>2, LinksRead
  <2> QED BY <1>4, <1>6, <2>2, <2>3
<1> QED BY <1>2, <1>8, <1>9, <1>10 DEF DropInv

(***************************************************************************)
(* A child is pushed: its previous sibling is not on the stack, where it   *)
(* would be above the child.                                               *)
(***************************************************************************)
LEMMA PushKeeps ==
  ASSUME NEW U, NEW x, Detached(U, x), NEW P, DropInv(U, Walk(U, x), P), Dropper!PushChild
  PROVE  DropInv(U, Walk(U, x), P)'
<1> DEFINE c == cursor
<1>1. /\ P \subseteq Live(U) /\ Null \notin P /\ \A m \in P : nodes[m] = U[m]
  BY PendingNodes
<1>2. /\ c # Null
      /\ stack' = Append(stack, c) /\ cursor' = nodes[c].prev
      /\ current' = current /\ nodes' = nodes
  BY DEF Dropper!PushChild
<1>3. WalkerPlaced(U, P) /\ FrontierClosed(U, P) /\ FromLast(U, P)
  BY DEF DropInv
<1>4. /\ c \in P /\ c \notin Elems(stack)
      /\ current \in P /\ current # Null /\ U[c].parent = current
      /\ U[c].next = Null \/ U[c].next \in Elems(stack)
      /\ stack \in Seq(P) /\ Once(stack) /\ current \notin Elems(stack)
  BY <1>2, <1>3 DEF WalkerPlaced
<1>5. /\ stack' \in Seq(P) /\ Once(stack')
      /\ Elems(stack') = Elems(stack) \union {c}
  <2>1. stack \in Seq(P) /\ Once(stack) /\ c \in P /\ c \notin Elems(stack)
    BY <1>4
  <2>2. stack' = Append(stack, c)
    BY <1>2
  <2> QED BY <2>1, <2>2, Pushed
<1> HIDE DEF c
<1>6. cursor' = U[c].prev /\ c \in Live(U) /\ c # current
  BY <1>1, <1>2, <1>3, <1>4 DEF FrontierClosed
<1>7. cursor' # Null => /\ cursor' \in P /\ U[cursor'].parent = current
                        /\ U[cursor'].next = c
  BY <1>3, <1>4, <1>6, LinksRead DEF FrontierClosed
<1>8. cursor' # Null => cursor' # c /\ cursor' \notin Elems(stack)
  <2> SUFFICES ASSUME cursor' # Null
               PROVE  cursor' # c /\ cursor' \notin Elems(stack)
    OBVIOUS
  <2>1. U[c].next # c
    BY <1>6, NotOwnSibling DEF Detached, LinksOK
  <2>2. ASSUME cursor' \in Elems(stack) PROVE FALSE
    <3>1. cursor' # cursor
      BY <1>4, <2>2 DEF c
    <3>2. U[cursor'].next = Null \/ U[cursor'].next \in Elems(stack)
      BY <1>3, <1>4, <1>7, <2>2, <3>1 DEF FromLast
    <3>3. c # Null
      BY <1>1, <1>4
    <3> QED BY <1>4, <1>7, <3>2, <3>3
  <2> QED BY <1>7, <2>1, <2>2
<1>9. WalkerPlaced(U, P)'
  <2>1. cursor' \notin Elems(stack')
    <3>1. CASE cursor' = Null
      BY <1>1, <1>5, <3>1, StackElems
    <3>2. CASE cursor' # Null
      BY <1>5, <1>8, <3>2
    <3> QED BY <3>1, <3>2
  <2> QED BY <1>2, <1>4, <1>5, <1>6, <1>7, <2>1 DEF WalkerPlaced
<1>10. FrontierClosed(U, P)'
  BY <1>2, <1>3, <1>4, <1>5 DEF FrontierClosed
<1>11. FromLast(U, P)'
  <2> SUFFICES ASSUME NEW m \in P, U[m].parent = current, m # cursor'
               PROVE  IF m \in Elems(stack')
                        THEN U[m].next = Null \/ U[m].next \in Elems(stack')
                        ELSE U[m].next # Null /\ U[m].next \notin Elems(stack')
    BY <1>2 DEF FromLast
  <2>1. CASE m = c
    BY <1>4, <1>5, <2>1
  <2>2. CASE m # c
    <3>1. IF m \in Elems(stack)
            THEN U[m].next = Null \/ U[m].next \in Elems(stack)
            ELSE U[m].next # Null /\ U[m].next \notin Elems(stack)
      BY <1>3, <1>4, <2>2 DEF FromLast, c
    <3>2. U[m].next # c
      <4>1. m \in Live(U) /\ c # Null
        BY <1>1, <1>4
      <4> QED BY <1>6, <4>1, LinksRead
    <3> QED BY <1>5, <2>2, <3>1, <3>2
  <2> QED BY <2>1, <2>2
<1> QED BY <1>2, <1>9, <1>10, <1>11 DEF DropInv

(***************************************************************************)
(* When all that has been met is on the stack, no child was left out.      *)
(***************************************************************************)
LEMMA NoneLeftOut ==
  ASSUME NEW U, NEW x, Detached(U, x), NEW P, DropInv(U, Walk(U, x), P),
         cursor = Null, current # Null,
         NEW k \in P, U[k].parent = current
  PROVE  k \in Elems(stack)
<1> SUFFICES ASSUME k \notin Elems(stack) PROVE FALSE
  OBVIOUS
<1> DEFINE S == {m \in P : U[m].parent = current /\ m \notin Elems(stack)}
<1>1. P \subseteq Live(U) /\ Null \notin P
  BY PendingNodes
<1>2. FromLast(U, P) /\ FrontierClosed(U, P) /\ current \in P
  BY DEF DropInv, WalkerPlaced
<1>3. PICK m \in S : U[m].next \notin S
  <2>1. S \in SUBSET Live(U) /\ S # {}
    BY <1>1
  <2> HIDE DEF S
  <2> QED BY <2>1 DEF Detached, NoSiblingCycle
<1>4. U[m].next # Null /\ U[m].next \notin Elems(stack)
  BY <1>1, <1>2, <1>3 DEF FromLast
<1>5. U[m].next \in Live(U) /\ U[U[m].next].parent = current
  BY <1>1, <1>3, <1>4, LinksRead
<1>6. U[m].next \in P
  BY <1>2, <1>5 DEF FrontierClosed
<1> QED BY <1>3, <1>4, <1>5, <1>6

(***************************************************************************)
(* A node is freed: its parent is gone before it and its children are on   *)
(* the stack.                                                              *)
(***************************************************************************)
LEMMA FreeKeeps ==
  ASSUME NEW U, NEW x, Detached(U, x), NEW P, DropInv(U, Walk(U, x), P), Dropper!Free,
         NEW Q, Q = P \ {current}
  PROVE  DropInv(U, Walk(U, x), Q)'
<1> DEFINE W == Walk(U, x)
           t == current
<1>1. /\ P \subseteq Live(U) /\ Live(U) \subseteq Slots /\ Null \notin P
      /\ \A m \in P : nodes[m] = U[m]
  BY PendingNodes
<1>2. /\ cursor = Null /\ t # Null
      /\ nodes' = [nodes EXCEPT ![t] = Vacant]
      /\ current' = Null /\ stack' = stack /\ cursor' = cursor
  BY DEF Dropper!Free
<1>3. /\ WalkerPlaced(U, P) /\ FrontierClosed(U, P)
      /\ P \subseteq W
      /\ nodes = [m \in Slots |-> IF m \in W \ P THEN Vacant ELSE U[m]]
  BY DEF DropInv
<1>4. /\ t \in P /\ t \notin Elems(stack) /\ stack \in Seq(P) /\ Once(stack)
      /\ U[t].parent \notin P
  BY <1>2, <1>3 DEF WalkerPlaced, FrontierClosed
<1>5. \A k \in P : U[k].parent = t => k \in Elems(stack)
  BY <1>2, NoneLeftOut
<1> HIDE DEF W
<1>6. nodes' = [m \in Slots |-> IF m \in W \ Q THEN Vacant ELSE U[m]]
  BY <1>1, <1>2, <1>3, <1>4
<1>7. stack' \in Seq(Q) /\ Elems(stack') \subseteq Q
  <2>1. /\ Len(stack) \in Nat /\ stack \in [1 .. Len(stack) -> P]
        /\ \A i \in 1 .. Len(stack) : stack[i] \in Elems(stack)
    BY <1>4, LenProperties DEF Elems
  <2>2. \A i \in 1 .. Len(stack) : stack[i] \in Q
    BY <1>4, <2>1
  <2>3. stack \in Seq(Q)
    <3>1. stack \in [1 .. Len(stack) -> Q]
      BY <2>1, <2>2
    <3> QED BY <2>1, <3>1
  <2> QED BY <1>2, <2>3, StackElems
<1>8. WalkerPlaced(U, Q)'
  BY <1>1, <1>2, <1>4, <1>7 DEF WalkerPlaced
<1>9. FrontierClosed(U, Q)'
  <2>1. \A m \in Elems(stack) : U[m].parent \notin Q
    BY <1>3 DEF FrontierClosed
  <2>2. \A m \in Live(U) : U[m].parent \in Q => m \in Q
    BY <1>3, <1>4 DEF FrontierClosed
  <2>3. \A m \in Q : m \notin Elems(stack) => U[m].parent \in Q
    BY <1>3, <1>5 DEF FrontierClosed
  <2> QED BY <1>2, <2>1, <2>2, <2>3 DEF FrontierClosed
<1>10. FromLast(U, Q)'
  BY <1>2 DEF FromLast
<1>11. Q \subseteq W
  BY <1>3
<1> QED BY <1>6, <1>8, <1>9, <1>10, <1>11 DEF DropInv, W

(***************************************************************************)
(* When the stack is empty the whole subtree is free: a pending node would *)
(* have a pending parent, and so on for ever.                              *)
(***************************************************************************)
LEMMA DropEnds ==
  ASSUME NEW U, NEW x, Detached(U, x), NEW P, DropInv(U, Walk(U, x), P), Dropper!Done
  PROVE  nodes = DropSubtree(U, x)
<1>1. stack = <<>> /\ current = Null
  BY DEF Dropper!Done
<1>2. P \subseteq Live(U) /\ Null \notin P
  BY PendingNodes
<1>3. Elems(stack) = {}
  BY <1>1, StackElems DEF DropInv, WalkerPlaced
<1>4. \A m \in P : U[m].parent \in P
  BY <1>1, <1>2, <1>3 DEF DropInv, FrontierClosed
<1>5. P = {}
  BY <1>2, <1>4 DEF Detached, NoParentCycle
<1>6. nodes = [m \in Slots |-> IF m \in Walk(U, x) \ P THEN Vacant ELSE U[m]]
  BY DEF DropInv
<1> QED BY <1>5, <1>6 DEF DropSubtree
-----------------------------------------------------------------------------
(***************************************************************************)
(* What the stacks hold while the tree is only read.                       *)
(***************************************************************************)
LiveOrNull == Live(nodes) \union {Null}

Frames == [node : Live(nodes), space : BOOLEAN, close : BOOLEAN]

Reading ==
  /\ op = "repr" => stack \in Seq(Frames) /\ cursor \in LiveOrNull
  /\ op = "visit" => stack \in Seq(Live(nodes)) /\ cursor \in LiveOrNull
  /\ op = "equal" => /\ stack \in Seq(Live(nodes) \X Live(nodes))
                     /\ cursor \in LiveOrNull /\ current \in LiveOrNull
  /\ op \in {"clone", "extract"} =>
       /\ \E K : stack \in Seq(Live(nodes) \X K) /\ current \in K
       /\ cursor \in LiveOrNull /\ child \in LiveOrNull

(***************************************************************************)
(* A removal under way: before is the tree of TreeInv that it began with.  *)
(***************************************************************************)
Dropping ==
  /\ before \in Table /\ WellFormed(before)
  /\ root \in Slots
  /\ version \in 0 .. MaxVersion
  /\ arg \in Live(before) \ {root}
  /\ \E x, U, P : x = arg /\ U = Unlink(before, x) /\ DropInv(U, Walk(U, x), P)

CallsInv ==
  /\ op \in {"none", "repr", "visit", "equal", "clone", "extract", "drop"}
  /\ op # "none" => status = "running"
  /\ op # "drop" => TreeInv
  /\ op = "extract" => arg \in Live(nodes) \ {root}
  /\ op = "drop" => Dropping
  /\ Reading

(***************************************************************************)
(* No call is under way at the start.                                      *)
(***************************************************************************)
LEMMA InitCallsInv == CallsInit => CallsInv
<1> SUFFICES ASSUME CallsInit PROVE CallsInv
  OBVIOUS
<1>1. TreeInv /\ op = "none"
  BY InitTreeInv DEF CallsInit
<1> QED BY <1>1 DEF CallsInv, Reading

(***************************************************************************)
(* Every link of a live node leads to a live node or nowhere.              *)
(***************************************************************************)
LEMMA LinksHeld ==
  ASSUME TreeInv, NEW m \in LiveOrNull, m # Null
  PROVE  /\ m \in Live(nodes)
         /\ {nodes[m].first, nodes[m].last, nodes[m].prev, nodes[m].next} \subseteq LiveOrNull
BY DEF TreeInv, WellFormed, LinksOK, LinkLive, LiveOrNull

(***************************************************************************)
(* The calls that are one step are those of Tree.                          *)
(***************************************************************************)
LEMMA BetweenKeeps == ASSUME CallsInv, Between PROVE CallsInv'
<1>1. TreeInv /\ TreeNext /\ op = "none" /\ op' = "none"
  BY DEF Between, Idle, CallsInv
<1>2. TreeInv'
  BY <1>1, NextTreeInv
<1> QED BY <1>1, <1>2 DEF CallsInv, Reading

(***************************************************************************)
(* While the tree does not change, neither does what there is to read.     *)
(***************************************************************************)
LEMMA ReadsSame ==
  ASSUME TreeInv, UNCHANGED treeVars
  PROVE  /\ TreeInv' /\ Live(nodes)' = Live(nodes)
         /\ LiveOrNull' = LiveOrNull /\ Frames' = Frames
BY DEF treeVars, TreeInv, TypeOK, LiveOrNull, Frames

(***************************************************************************)
(* The calls that only read begin.                                         *)
(***************************************************************************)
LEMMA ReadBegins ==
  ASSUME CallsInv, NEW n \in Live(nodes),
         \/ Repr(n) \/ Visit(n) \/ Clone(n) \/ StartExtract(n)
         \/ \E m \in Live(nodes) : Equal(n, m)
  PROVE  CallsInv'
<1>1. TreeInv /\ status = "running" /\ UNCHANGED treeVars
  BY DEF Repr, Visit, Clone, StartExtract, Equal, Idle, CallsInv
<1>2. /\ TreeInv' /\ Live(nodes)' = Live(nodes)
      /\ LiveOrNull' = LiveOrNull /\ Frames' = Frames
      /\ status' = "running" /\ root' = root
  BY <1>1, ReadsSame DEF treeVars
<1>3. n \in LiveOrNull /\ n # Null /\ Null \in LiveOrNull
  BY <1>1, TableCells DEF LiveOrNull, TreeInv, TypeOK
<1>4. CASE Repr(n)
  <2>1. op' = "repr" /\ stack' = <<Writer!Frame(n, FALSE)>> /\ cursor' = Null
    BY <1>4 DEF Repr, Writer!Begin
  <2>2. Writer!Frame(n, FALSE) \in Frames
    BY DEF Writer!Frame, Frames
  <2>3. stack' \in Seq(Frames)
    <3> DEFINE f == Writer!Frame(n, FALSE)
    <3>1. f \in Frames
      BY <2>2
    <3> HIDE DEF f
    <3>2. << f >> \in Seq(Frames)
      BY <3>1
    <3> QED BY <2>1, <3>2 DEF f
  <2>4. Reading'
    BY <1>2, <1>3, <2>1, <2>3 DEF Reading
  <2> QED BY <1>2, <2>1, <2>4 DEF CallsInv
<1>5. CASE Visit(n)
  <2>1. op' = "visit" /\ stack' = <<n>> /\ cursor' = Null
    BY <1>5 DEF Visit, Visitor!Begin
  <2> QED BY <1>2, <1>3, <2>1 DEF CallsInv, Reading
<1>6. CASE Clone(n) \/ StartExtract(n)
  <2>1. /\ op' \in {"clone", "extract"} /\ Copier!Begin(n)
        /\ op' = "extract" => arg' = n /\ n # root
    BY <1>6 DEF Clone, StartExtract
  <2>2. /\ stack' = <<>> /\ cursor' = Null /\ current' = 0
        /\ child' = IF nodes[n].kind = List THEN nodes[n].first ELSE Null
    BY <2>1 DEF Copier!Begin, Copier!CopyRoot
  <2>3. child' \in LiveOrNull
    BY <1>1, <1>3, <2>2, LinksHeld
  <2>4. stack' \in Seq(Live(nodes) \X {0}) /\ current' \in {0}
    BY <2>2, EmptySeq
  <2>5. Reading'
    BY <1>2, <1>3, <2>1, <2>2, <2>3, <2>4 DEF Reading
  <2> QED BY <1>2, <2>1, <2>5 DEF CallsInv
<1>7. ASSUME NEW m \in Live(nodes), Equal(n, m) PROVE CallsInv'
  <2>1. op' = "equal" /\ stack' = << <<n, m>> >> /\ cursor' = Null /\ current' = Null
    BY <1>7 DEF Equal, Compare!Begin
  <2> QED BY <1>2, <1>3, <2>1 DEF CallsInv, Reading
<1> QED BY <1>4, <1>5, <1>6, <1>7
(***************************************************************************)
(* A sequence over a set is one over a larger set.                         *)
(***************************************************************************)
LEMMA SeqWidens ==
  ASSUME NEW S, NEW T, S \subseteq T, NEW s \in Seq(S)
  PROVE  s \in Seq(T)
<1>1. Len(s) \in Nat /\ s \in [1 .. Len(s) -> S]
  BY LenProperties
<1>2. s \in [1 .. Len(s) -> T]
  BY <1>1
<1> QED BY <1>1, <1>2

(***************************************************************************)
(* The steps of the calls that only read.                                  *)
(***************************************************************************)
LEMMA ReadSteps ==
  ASSUME CallsInv, op # "drop", WalkStep, UNCHANGED <<op, arg, before>>
  PROVE  CallsInv'
<1>1. TreeInv /\ Reading
  BY DEF CallsInv
<1>2. UNCHANGED treeVars
  BY DEF WalkStep
<1>3. /\ TreeInv' /\ Live(nodes)' = Live(nodes)
      /\ LiveOrNull' = LiveOrNull /\ Frames' = Frames
      /\ status' = status /\ root' = root
  BY <1>1, <1>2, ReadsSame DEF treeVars
<1>4. Null \notin Live(nodes)
  BY <1>1, TableCells DEF TreeInv, TypeOK
<1>5. Reading'
  <2>1. CASE op = "repr"
    <3>1. stack \in Seq(Frames) /\ cursor \in LiveOrNull /\ Writer!WriteStep
      BY <1>1, <2>1 DEF Reading, WalkStep
    <3>2. stack' \in Seq(Frames) /\ cursor' \in LiveOrNull
      <4>1. CASE Writer!PushChild
        <5>1. /\ cursor # Null /\ cursor' = nodes[cursor].prev
              /\ stack' = Append(stack, Writer!Frame(cursor, nodes[cursor].prev # Null))
          BY <4>1 DEF Writer!PushChild
        <5>2. Writer!Frame(cursor, nodes[cursor].prev # Null) \in Frames
          BY <3>1, <5>1 DEF Writer!Frame, Frames, LiveOrNull
        <5> QED BY <1>1, <3>1, <5>1, <5>2, LinksHeld, AppendProperties
      <4>2. CASE Writer!WriteAtom \/ Writer!CloseBracket
        <5>1. stack # <<>> /\ stack' = SubSeq(stack, 1, Len(stack) - 1) /\ cursor' = cursor
          BY <4>2 DEF Writer!WriteAtom, Writer!CloseBracket, Writer!Pops, Writer!Popped
        <5> QED BY <3>1, <5>1, PopsOne
      <4>3. CASE Writer!OpenBracket
        <5> DEFINE f == stack[Len(stack)]
                   r == SubSeq(stack, 1, Len(stack) - 1)
        <5>1. /\ stack # <<>> /\ cursor' = nodes[f.node].last
              /\ stack' = Append(r, Writer!Close(f.node))
          BY <4>3 DEF Writer!OpenBracket, Writer!Pops, Writer!Popped, Writer!Top
        <5>2. f \in Frames /\ r \in Seq(Frames)
          BY <3>1, <5>1, PopsOne
        <5> HIDE DEF f, r
        <5>3. f.node \in Live(nodes) /\ f.node \in LiveOrNull /\ f.node # Null
          BY <1>4, <5>2 DEF Frames, LiveOrNull
        <5>4. Writer!Close(f.node) \in Frames
          BY <5>3 DEF Writer!Close, Frames
        <5> QED BY <1>1, <5>1, <5>2, <5>3, <5>4, LinksHeld, AppendProperties
      <4> QED BY <3>1, <4>1, <4>2, <4>3 DEF Writer!WriteStep
    <3> QED BY <1>3, <2>1, <3>2 DEF Reading
  <2>2. CASE op = "visit"
    <3>1. stack \in Seq(Live(nodes)) /\ cursor \in LiveOrNull /\ Visitor!VisitStep
      BY <1>1, <2>2 DEF Reading, WalkStep
    <3>2. stack' \in Seq(Live(nodes)) /\ cursor' \in LiveOrNull
      <4>1. CASE Visitor!PushChild
        <5>1. cursor # Null /\ cursor' = nodes[cursor].prev /\ stack' = Append(stack, cursor)
          BY <4>1 DEF Visitor!PushChild
        <5> QED BY <1>1, <3>1, <5>1, LinksHeld, AppendProperties
      <4>2. CASE Visitor!Yield
        <5>1. /\ stack # <<>> /\ cursor' = nodes[stack[Len(stack)]].last
              /\ stack' = SubSeq(stack, 1, Len(stack) - 1)
          BY <4>2 DEF Visitor!Yield
        <5>2. stack[Len(stack)] \in Live(nodes) /\ stack' \in Seq(Live(nodes))
          BY <3>1, <5>1, PopsOne
        <5>3. stack[Len(stack)] \in LiveOrNull /\ stack[Len(stack)] # Null
          BY <1>4, <5>2 DEF LiveOrNull
        <5> QED BY <1>1, <5>1, <5>2, <5>3, LinksHeld
      <4> QED BY <3>1, <4>1, <4>2 DEF Visitor!VisitStep
    <3> QED BY <1>3, <2>2, <3>2 DEF Reading
  <2>3. CASE op = "equal"
    <3> DEFINE Pairs == Live(nodes) \X Live(nodes)
    <3>1. /\ stack \in Seq(Pairs) /\ cursor \in LiveOrNull /\ current \in LiveOrNull
          /\ Compare!EqualStep
      BY <1>1, <2>3 DEF Reading, WalkStep
    <3>2. stack' \in Seq(Pairs) /\ cursor' \in LiveOrNull /\ current' \in LiveOrNull
      <4>1. CASE Compare!PushPair
        <5>1. /\ cursor # Null /\ current # Null
              /\ cursor' = nodes[cursor].next /\ current' = nodes[current].next
              /\ stack' = Append(stack, <<cursor, current>>)
          BY <4>1 DEF Compare!PushPair, Compare!Pairing
        <5>2. <<cursor, current>> \in Pairs
          BY <3>1, <5>1 DEF LiveOrNull
        <5> HIDE DEF Pairs
        <5> QED BY <1>1, <3>1, <5>1, <5>2, LinksHeld, AppendProperties
      <4>2. CASE Compare!SameAtoms
        <5>1. /\ stack # <<>> /\ stack' = SubSeq(stack, 1, Len(stack) - 1)
              /\ cursor' = cursor /\ current' = current
          BY <4>2 DEF Compare!SameAtoms, Compare!Pops
        <5> QED BY <3>1, <5>1, PopsOne
      <4>3. CASE Compare!SameLists
        <5>1. /\ stack # <<>> /\ stack' = SubSeq(stack, 1, Len(stack) - 1)
              /\ cursor' = nodes[stack[Len(stack)][1]].first
              /\ current' = nodes[stack[Len(stack)][2]].first
          BY <4>3 DEF Compare!SameLists, Compare!Pops, Compare!L, Compare!R
        <5>2. stack[Len(stack)] \in Pairs /\ stack' \in Seq(Pairs)
          BY <3>1, <5>1, PopsOne
        <5>3. \A i \in {1, 2} : /\ stack[Len(stack)][i] \in LiveOrNull
                                /\ stack[Len(stack)][i] # Null
          BY <1>4, <5>2 DEF LiveOrNull
        <5> QED BY <1>1, <5>1, <5>2, <5>3, LinksHeld
      <4>4. CASE Compare!Differ
        BY <4>4, EmptySeq DEF Compare!Differ, LiveOrNull
      <4> QED BY <3>1, <4>1, <4>2, <4>3, <4>4 DEF Compare!EqualStep
    <3> QED BY <1>3, <2>3, <3>2 DEF Reading
  <2>4. CASE op \in {"clone", "extract"}
    <3>1. /\ cursor \in LiveOrNull /\ child \in LiveOrNull /\ Copier!CopyStep
          /\ \E K : stack \in Seq(Live(nodes) \X K) /\ current \in K
      BY <1>1, <2>4 DEF Reading, WalkStep
    <3>2. PICK K : stack \in Seq(Live(nodes) \X K) /\ current \in K
      BY <3>1
    <3> DEFINE Pairs == Live(nodes) \X K
    <3>3. /\ \E J : stack' \in Seq(Live(nodes) \X J) /\ current' \in J
          /\ cursor' \in LiveOrNull /\ child' \in LiveOrNull
      <4>1. CASE Copier!NextChild
        <5>1. /\ child # Null /\ stack' = << <<child, 0>> >> /\ child' = nodes[child].next
              /\ cursor' = cursor /\ current' = current
          BY <4>1 DEF Copier!NextChild, Copier!CopyRoot
        <5> DEFINE J == {0, current}
        <5>2. stack' \in Seq(Live(nodes) \X J) /\ current' \in J
          BY <3>1, <5>1 DEF LiveOrNull
        <5> HIDE DEF J
        <5> QED BY <1>1, <3>1, <5>1, <5>2, LinksHeld
      <4>2. CASE Copier!CopyNode
        <5> DEFINE J == K \union {current'}
        <5>1. /\ stack # <<>> /\ stack' = SubSeq(stack, 1, Len(stack) - 1)
              /\ cursor' = nodes[stack[Len(stack)][1]].last /\ child' = child
          BY <4>2 DEF Copier!CopyNode
        <5>2. stack[Len(stack)] \in Pairs /\ stack' \in Seq(Pairs)
          BY <3>2, <5>1, PopsOne
        <5>3. stack[Len(stack)][1] \in LiveOrNull /\ stack[Len(stack)][1] # Null
          BY <1>4, <5>2 DEF LiveOrNull
        <5>4. stack' \in Seq(Live(nodes) \X J) /\ current' \in J
          BY <5>2, SeqWidens
        <5> HIDE DEF J
        <5> QED BY <1>1, <3>1, <5>1, <5>3, <5>4, LinksHeld
      <4>3. CASE Copier!PushChild
        <5>1. /\ cursor # Null /\ cursor' = nodes[cursor].prev
              /\ stack' = Append(stack, <<cursor, current>>)
              /\ child' = child /\ current' = current
          BY <4>3 DEF Copier!PushChild
        <5>2. <<cursor, current>> \in Pairs
          BY <3>1, <3>2, <5>1 DEF LiveOrNull
        <5>3. stack' \in Seq(Pairs)
          <6> HIDE DEF Pairs
          <6> QED BY <3>2, <5>1, <5>2, AppendProperties DEF Pairs
        <5> QED BY <1>1, <3>1, <3>2, <5>1, <5>3, LinksHeld
      <4> QED BY <3>1, <4>1, <4>2, <4>3 DEF Copier!CopyStep
    <3> QED BY <1>3, <2>4, <3>3 DEF Reading
  <2> QED BY <2>1, <2>2, <2>3, <2>4 DEF WalkStep
<1> QED BY <1>3, <1>5 DEF CallsInv

(***************************************************************************)
(* A removal begins.                                                       *)
(***************************************************************************)
LEMMA RemovalBegins ==
  ASSUME CallsInv, status = "running", op # "drop",
         NEW n \in Live(nodes), DetachToDrop(n)
  PROVE  CallsInv'
<1>1. TreeInv
  BY DEF CallsInv
<1>2. /\ nodes \in Table /\ WellFormed(nodes)
      /\ root \in Slots
      /\ version \in 0 .. MaxVersion
  BY <1>1 DEF TreeInv, TypeOK
<1>3. PICK U : U = Unlink(nodes, n)
  OBVIOUS
<1>4. /\ n # root /\ op' = "drop" /\ arg' = n /\ before' = nodes
      /\ nodes' = U /\ UNCHANGED <<root, version, status>> /\ Dropper!Begin(n)
  BY <1>3 DEF DetachToDrop
<1>5. Detached(U, n)
  BY <1>2, <1>3, UnlinkDetaches
<1>6. DropInv(U, Walk(U, n), Walk(U, n))'
  BY <1>4, <1>5, DropBegins
<1>7. n = arg' /\ U = Unlink(before', n)
  BY <1>3, <1>4
<1>8. \E x, V, P : x = arg' /\ V = Unlink(before', x) /\ DropInv(V, Walk(V, x), P)'
  BY <1>6, <1>7
<1>9. Dropping'
  BY <1>2, <1>4, <1>8 DEF Dropping
<1> QED BY <1>4, <1>9 DEF CallsInv, Reading

(***************************************************************************)
(* drop_subtree takes a step.                                              *)
(***************************************************************************)
LEMMA RemovalSteps ==
  ASSUME CallsInv, op = "drop", WalkStep, UNCHANGED <<op, arg, before>>
  PROVE  CallsInv'
<1>1. Dropping /\ status = "running"
  BY DEF CallsInv
<1>2. Dropper!DropStep /\ UNCHANGED <<root, version, status>>
  BY DEF WalkStep
<1>3. PICK x : x = arg
  OBVIOUS
<1>4. PICK U, P : U = Unlink(before, x) /\ DropInv(U, Walk(U, x), P)
  BY <1>1, <1>3 DEF Dropping
<1>5. Detached(U, x)
  BY <1>1, <1>3, <1>4, UnlinkDetaches DEF Dropping
<1>6. \E Q : DropInv(U, Walk(U, x), Q)'
  <2>1. CASE Dropper!Take
    BY <1>4, <1>5, <2>1, TakeKeeps
  <2>2. CASE Dropper!PushChild
    BY <1>4, <1>5, <2>2, PushKeeps
  <2>3. CASE Dropper!Free
    <3>1. PICK Q : Q = P \ {current}
      OBVIOUS
    <3> QED BY <1>4, <1>5, <2>3, <3>1, FreeKeeps
  <2> QED BY <1>2, <2>1, <2>2, <2>3 DEF Dropper!DropStep
<1>7. PICK Q : DropInv(U, Walk(U, x), Q)'
  BY <1>6
<1>8. x = arg' /\ U = Unlink(before', x)
  BY <1>3, <1>4
<1>9. \E z, V, R : z = arg' /\ V = Unlink(before', z) /\ DropInv(V, Walk(V, z), R)'
  BY <1>7, <1>8
<1>10. Dropping'
  BY <1>1, <1>2, <1>9 DEF Dropping
<1> QED BY <1>1, <1>2, <1>10 DEF CallsInv, Reading

(***************************************************************************)
(* When drop_subtree is done, the table is what Tree makes of it in one    *)
(* step.                                                                   *)
(***************************************************************************)
LEMMA RemovalEnds ==
  ASSUME CallsInv, Dropped
  PROVE  /\ nodes' = DropSubtree(Unlink(before, arg), arg)
         /\ arg \in Live(before) \ {root} /\ op' = "none"
         /\ CallsInv'
<1>1. Dropping /\ status = "running" /\ op = "drop"
  BY DEF CallsInv, Dropped
<1>2. /\ Dropper!Done /\ op' = "none" /\ nodes' = nodes
      /\ version < MaxVersion /\ version' = version + 1 /\ UNCHANGED <<root, status>>
  BY DEF Dropped, Return, Restructure
<1>3. PICK x : x = arg
  OBVIOUS
<1>4. PICK U, P : U = Unlink(before, x) /\ DropInv(U, Walk(U, x), P)
  BY <1>1, <1>3 DEF Dropping
<1>5. Detached(U, x)
  BY <1>1, <1>3, <1>4, UnlinkDetaches DEF Dropping
<1>6. nodes' = DropSubtree(U, x)
  BY <1>2, <1>4, <1>5, DropEnds
<1>7. nodes' = DropSubtree(Unlink(before, arg), arg)
  BY <1>3, <1>4, <1>6
<1>8. nodes' \in Table /\ WellFormed(nodes')
  BY <1>1, <1>7, RemoveKeeps DEF Dropping
<1>9. TypeOK'
  BY <1>1, <1>2, <1>8, TreeAssumption DEF TypeOK, Dropping
<1>10. CallsInv'
  BY <1>1, <1>2, <1>8, <1>9 DEF CallsInv, Reading, TreeInv
<1> QED BY <1>1, <1>2, <1>7, <1>10 DEF Dropping

(***************************************************************************)
(* A call that only read returns.                                          *)
(***************************************************************************)
LEMMA WalkedKeeps == ASSUME CallsInv, Walked PROVE CallsInv'
<1>1. TreeInv /\ op' = "none" /\ UNCHANGED treeVars
  BY DEF Walked, Return, CallsInv
<1>2. TreeInv'
  BY <1>1, ReadsSame
<1> QED BY <1>1, <1>2 DEF CallsInv, Reading

(***************************************************************************)
(* Every step keeps the invariant.                                         *)
(***************************************************************************)
LEMMA NextCallsInv == CallsInv /\ [CallsNext]_callVars => CallsInv'
<1> SUFFICES ASSUME CallsInv, [CallsNext]_callVars PROVE CallsInv'
  OBVIOUS
<1>1. CASE Between
  BY <1>1, BetweenKeeps
<1>2. ASSUME NEW n \in Live(nodes),
             \/ Repr(n) \/ Visit(n) \/ Clone(n) \/ StartRemove(n) \/ StartExtract(n)
             \/ \E m \in Live(nodes) : Equal(n, m)
      PROVE  CallsInv'
  <2>1. CASE StartRemove(n)
    BY <2>1, RemovalBegins DEF StartRemove, Idle
  <2> QED BY <1>2, <2>1, ReadBegins
<1>3. CASE WalkStep /\ UNCHANGED <<op, arg, before>>
  BY <1>3, ReadSteps, RemovalSteps
<1>4. CASE ExtractCopied
  <2>1. /\ op = "extract" /\ status = "running" /\ arg \in Live(nodes)
        /\ DetachToDrop(arg)
    BY <1>4 DEF ExtractCopied, CallsInv
  <2>2. PICK n \in Live(nodes) : n = arg
    BY <2>1
  <2>3. DetachToDrop(n)
    BY <2>1, <2>2 DEF DetachToDrop, Dropper!Begin
  <2> QED BY <2>1, <2>3, RemovalBegins
<1>5. CASE Dropped
  BY <1>5, RemovalEnds
<1>6. CASE Walked
  BY <1>6, WalkedKeeps
<1>7. CASE UNCHANGED callVars
  <2>1. UNCHANGED <<nodes, root, version, status, op, arg, stack, cursor, current, child, before>>
    BY <1>7 DEF callVars, walkVars, treeVars
  <2>2. op # "drop" => TreeInv'
    BY <2>1, ReadsSame DEF CallsInv, treeVars
  <2>3. Reading'
    BY <2>1 DEF CallsInv, Reading, LiveOrNull, Frames
  <2>4. op = "drop" => Dropping'
    BY <2>1 DEF CallsInv, Dropping, DropInv, WalkerPlaced, FrontierClosed, FromLast
  <2> QED BY <2>1, <2>2, <2>3, <2>4 DEF CallsInv
<1> QED BY <1>1, <1>2, <1>3, <1>4, <1>5, <1>6, <1>7 DEF CallsNext

(***************************************************************************)
(* The invariant holds of every reachable state.                           *)
(***************************************************************************)
THEOREM CallsInvariance == CallsSpec => []CallsInv
BY InitCallsInv, NextCallsInv, PTL DEF CallsSpec

(***************************************************************************)
(* No walk reads a freed node, not even the one that frees what it walks   *)
(* over: the expect behind each access never fails.                        *)
(***************************************************************************)
LEMMA HeldLive == CallsInv => NoVacantRead
<1> SUFFICES ASSUME CallsInv PROVE Held \subseteq LiveOrNull
  BY DEF NoVacantRead, LiveOrNull
<1>1. Null \in LiveOrNull /\ Live(nodes) \subseteq LiveOrNull
  BY DEF LiveOrNull
<1>2. CASE op = "none"
  BY <1>2 DEF Held
<1>3. CASE op = "repr"
  <2>1. stack \in Seq(Frames) /\ cursor \in LiveOrNull
    BY <1>3 DEF CallsInv, Reading
  <2>2. {stack[i] : i \in DOMAIN stack} \subseteq Frames
    BY <2>1, StackElems
  <2>3. Held = {f.node : f \in {stack[i] : i \in DOMAIN stack}} \union {cursor}
    BY <1>3 DEF Held
  <2>4. \A f \in Frames : f.node \in Live(nodes)
    BY DEF Frames
  <2> QED BY <1>1, <2>1, <2>2, <2>3, <2>4
<1>4. CASE op = "visit"
  <2>1. stack \in Seq(Live(nodes)) /\ cursor \in LiveOrNull
    BY <1>4 DEF CallsInv, Reading
  <2>2. {stack[i] : i \in DOMAIN stack} \subseteq Live(nodes)
    BY <2>1, StackElems
  <2>3. Held = {stack[i] : i \in DOMAIN stack} \union {cursor}
    BY <1>4 DEF Held
  <2> QED BY <1>1, <2>1, <2>2, <2>3
<1>5. CASE op = "equal"
  <2> DEFINE Pairs == Live(nodes) \X Live(nodes)
             T == {stack[i] : i \in DOMAIN stack}
  <2>1. stack \in Seq(Pairs) /\ cursor \in LiveOrNull /\ current \in LiveOrNull
    BY <1>5 DEF CallsInv, Reading
  <2>2. T \subseteq Pairs
    <3> HIDE DEF Pairs
    <3> QED BY <2>1, StackElems
  <2>3. Held = {p[i] : p \in T, i \in {1, 2}} \union {cursor, current}
    BY <1>5 DEF Held
  <2>4. \A p \in T : p[1] \in LiveOrNull /\ p[2] \in LiveOrNull
    <3> HIDE DEF T
    <3> QED BY <1>1, <2>2
  <2> HIDE DEF T
  <2> QED BY <2>1, <2>3, <2>4
<1>6. CASE op \in {"clone", "extract"}
  <2> DEFINE T == {stack[i] : i \in DOMAIN stack}
  <2>1. PICK K : stack \in Seq(Live(nodes) \X K)
    BY <1>6 DEF CallsInv, Reading
  <2>2. cursor \in LiveOrNull /\ child \in LiveOrNull
    BY <1>6 DEF CallsInv, Reading
  <2>3. T \subseteq Live(nodes) \X K
    BY <2>1, StackElems
  <2>4. Held = {p[1] : p \in T} \union {cursor, child}
    BY <1>6 DEF Held
  <2> HIDE DEF T
  <2> QED BY <1>1, <2>2, <2>3, <2>4
<1>7. CASE op = "drop"
  <2>1. Dropping
    BY <1>7 DEF CallsInv
  <2>2. PICK x, U, P : x = arg /\ U = Unlink(before, x) /\ DropInv(U, Walk(U, x), P)
    BY <2>1 DEF Dropping
  <2>3. Detached(U, x)
    BY <2>1, <2>2, UnlinkDetaches DEF Dropping
  <2>4. P \subseteq Live(nodes)
    BY <2>2, <2>3, PendingNodes DEF Live
  <2>5. stack \in Seq(P) /\ cursor \in P \union {Null}
    BY <2>2 DEF DropInv, WalkerPlaced
  <2>6. {stack[i] : i \in DOMAIN stack} \subseteq P
    BY <2>5, StackElems
  <2>7. Held = {stack[i] : i \in DOMAIN stack} \union {cursor}
    BY <1>7 DEF Held
  <2> QED BY <1>1, <2>4, <2>5, <2>6, <2>7
<1> QED BY <1>2, <1>3, <1>4, <1>5, <1>6, <1>7 DEF CallsInv

(***************************************************************************)
(* In no reachable state does a walk hold a freed node: the expect behind  *)
(* each access of the serializer, the iterators, clone_into and            *)
(* drop_subtree never fails.                                               *)
(***************************************************************************)
THEOREM NeverVacant == CallsSpec => []NoVacantRead
BY HeldLive, CallsInvariance, PTL

-----------------------------------------------------------------------------
(***************************************************************************)
(* The tree as the callers see it, and the actions of Tree on it.          *)
(***************************************************************************)
Steady == IF op = "drop" THEN before ELSE nodes

(***************************************************************************)
(* The mapping leaves the operators alone.                                 *)
(***************************************************************************)
LEMMA SteadyUnlink ==
  ASSUME NEW N, NEW n
  PROVE  Atomic!Unlink(N, n) = Unlink(N, n)
BY DEF Atomic!Unlink, Unlink

(***************************************************************************)
(* Remove of Tree on that tree, spelled out.                               *)
(***************************************************************************)
LEMMA SteadyRemove ==
  ASSUME NEW n
  PROVE  Atomic!Remove(n) <=>
           /\ status = "running" /\ n # root /\ version < MaxVersion
           /\ Steady' = DropSubtree(Unlink(Steady, n), n)
           /\ version' = version + 1 /\ UNCHANGED <<root, status>>
<1>1. \A N : Atomic!Walk(N, n) = Walk(N, n)
  BY DEF Atomic!Walk, Walk, Atomic!WalkClosed, WalkClosed, Atomic!Live, Live
<1>2. \A N : Atomic!DropSubtree(N, n) = DropSubtree(N, n)
  BY <1>1 DEF Atomic!DropSubtree, DropSubtree
<1> DEFINE After(N) == DropSubtree(Unlink(N, n), n)
<1>3. \A N : Atomic!DropSubtree(Atomic!Unlink(N, n), n) = After(N)
  BY SteadyUnlink, <1>2
<1> HIDE DEF After
<1>4. Atomic!Remove(n) <=>
        /\ status = "running" /\ n # root /\ version < MaxVersion
        /\ Steady' = After(Steady)
        /\ version' = version + 1 /\ UNCHANGED <<root, status>>
  BY <1>3 DEF Atomic!Remove, Atomic!Restructure, Steady
<1> QED BY <1>4 DEF After

(***************************************************************************)
(* A step of a call leaves the tree as it was or, when a removal returns,  *)
(* is the step Remove of Tree.                                             *)
(***************************************************************************)
LEMMA StepAtomic ==
  ASSUME CallsInv, CallsNext, op # "none" \/ op' # "none"
  PROVE  \/ UNCHANGED <<Steady, root, version, status>>
         \/ op = "drop" /\ arg \in Live(Steady) /\ Atomic!Remove(arg)
<1>1. CASE Between
  BY <1>1 DEF Between, Idle
<1>2. ASSUME NEW n \in Live(nodes),
             \/ Repr(n) \/ Visit(n) \/ Clone(n) \/ StartExtract(n)
             \/ \E m \in Live(nodes) : Equal(n, m)
      PROVE  UNCHANGED <<Steady, root, version, status>>
  BY <1>2 DEF Repr, Visit, Clone, StartExtract, Equal, Idle, Steady, treeVars
<1>3. ASSUME NEW n \in Live(nodes), StartRemove(n)
      PROVE  UNCHANGED <<Steady, root, version, status>>
  BY <1>3 DEF StartRemove, DetachToDrop, Idle, Steady
<1>4. CASE WalkStep /\ UNCHANGED <<op, arg, before>>
  BY <1>4 DEF WalkStep, Steady, treeVars
<1>5. CASE ExtractCopied
  BY <1>5 DEF ExtractCopied, DetachToDrop, Steady
<1>6. CASE Dropped
  <2>1. /\ nodes' = DropSubtree(Unlink(before, arg), arg)
        /\ arg \in Live(before) \ {root} /\ op' = "none"
    BY <1>6, RemovalEnds
  <2>2. /\ op = "drop" /\ status = "running"
        /\ version < MaxVersion /\ version' = version + 1 /\ UNCHANGED <<root, status>>
    BY <1>6 DEF Dropped, Restructure, CallsInv
  <2>3. Steady = before /\ Steady' = nodes'
    BY <2>1, <2>2 DEF Steady
  <2> QED BY <2>1, <2>2, <2>3, SteadyRemove
<1>7. CASE Walked
  BY <1>7 DEF Walked, Return, Steady, treeVars
<1> QED BY <1>1, <1>2, <1>3, <1>4, <1>5, <1>6, <1>7 DEF CallsNext

(***************************************************************************)
(* remove and extract free node after node, and yet the tree goes in one   *)
(* step from what it was to what Tree says; nothing else that a walk does  *)
(* changes it.                                                             *)
(***************************************************************************)
THEOREM RemovalAtomic == CallsSpec => RemovesAtomically
<1>1. CallsInv /\ [CallsNext]_callVars =>
        [op # "none" \/ op' # "none" =>
           UNCHANGED Atomic!treeVars \/ Atomic!Remove(arg)]_callVars
  <2> SUFFICES ASSUME CallsInv, CallsNext, op # "none" \/ op' # "none"
               PROVE  UNCHANGED Atomic!treeVars \/ Atomic!Remove(arg)
    OBVIOUS
  <2>1. CASE UNCHANGED <<Steady, root, version, status>>
    BY <2>1 DEF Atomic!treeVars, Steady
  <2> QED BY <2>1, StepAtomic
<1> QED BY <1>1, CallsInvariance, PTL DEF CallsSpec, RemovesAtomically

(***************************************************************************)
(* The steps of Tree that Between takes.                                   *)
(***************************************************************************)
LEMMA SteadyNext ==
  ASSUME op = "none", op' = "none", TreeNext, Live(nodes) \subseteq Live(nodes')
  PROVE  Atomic!TreeNext \/ \E n \in Live(nodes) : Remove(n)
<1>1. Atomic!Live(nodes) = Live(nodes) /\ Atomic!Kinds = Kinds
  BY DEF Atomic!Live, Live, Atomic!Kinds, Kinds
<1>2. \A n, k : Atomic!Allocate(nodes, n, k) = Allocate(nodes, n, k)
  BY DEF Atomic!Allocate, Allocate, Atomic!NewNode, NewNode
<1>3. \A p : Atomic!Ancestors(nodes, p) = Ancestors(nodes, p)
  BY DEF Atomic!Ancestors, Ancestors, Atomic!ParentClosed, ParentClosed, Atomic!Live, Live
<1>4. \A p : Atomic!Children(nodes, p) = Children(nodes, p)
  BY DEF Atomic!Children, Children, Atomic!Live, Live
<1>5. \A c : Atomic!Detach(nodes, c) = Detach(nodes, c)
  BY SteadyUnlink DEF Atomic!Detach, Detach
<1>6. \A N, p, c : /\ Atomic!LinkLast(N, p, c) = LinkLast(N, p, c)
                   /\ Atomic!LinkFirst(N, p, c) = LinkFirst(N, p, c)
  BY DEF Atomic!LinkLast, LinkLast, Atomic!LinkFirst, LinkFirst
<1>7. \A N, p, a, c : Atomic!LinkAfter(N, p, a, c) = LinkAfter(N, p, a, c)
  BY DEF Atomic!LinkAfter, LinkAfter
<1>8. \A p, c : Atomic!WouldCreateCycle(nodes, p, c) <=> WouldCreateCycle(nodes, p, c)
  BY <1>3 DEF Atomic!WouldCreateCycle, WouldCreateCycle
<1>9. \A N : Atomic!Restructure(N) <=> Restructure(N)
  BY DEF Atomic!Restructure, Restructure
<1>10. \A p, c : Atomic!Movable(p, c) <=> Movable(p, c)
  BY <1>3 DEF Atomic!Movable, Movable
<1>11. Create => Atomic!Create
  BY <1>1, <1>2 DEF Create, Atomic!Create, Alloc, Atomic!Alloc
<1>12. \A p, c : AppendChild(p, c) => Atomic!AppendChild(p, c)
  BY <1>5, <1>6, <1>8, <1>9 DEF AppendChild, Atomic!AppendChild
<1>13. \A p, c : Prepend(p, c) => Atomic!Prepend(p, c)
  BY <1>5, <1>6, <1>8, <1>9 DEF Prepend, Atomic!Prepend
<1>14. \A p, a, c : InsertAfter(p, a, c) => Atomic!InsertAfter(p, a, c)
  BY <1>5, <1>7, <1>8, <1>9 DEF InsertAfter, Atomic!InsertAfter
<1>15. \A p, c : CyclePanic(p, c) => Atomic!CyclePanic(p, c)
  BY <1>8 DEF CyclePanic, Atomic!CyclePanic
<1> QED
  BY <1>1, <1>4, <1>10, <1>11, <1>12, <1>13, <1>14, <1>15 DEF TreeNext, Atomic!TreeNext

(***************************************************************************)
(* The calls with all their steps implement Tree: what Tree's invariants   *)
(* and theorems say of a tree they say of it between and during the calls. *)
(***************************************************************************)
THEOREM ImplementsTree == CallsSpec => Atomic!TreeSpec
<1>1. CallsInit => Atomic!TreeInit
  <2> SUFFICES ASSUME CallsInit PROVE Atomic!TreeInit
    OBVIOUS
  <2>1. TreeInit /\ Steady = nodes
    BY DEF CallsInit, Steady
  <2> QED BY <2>1 DEF TreeInit, Atomic!TreeInit, Steady, Kinds, Atomic!Kinds,
                      NewNode, Atomic!NewNode
<1>2. CallsInv /\ [CallsNext]_callVars => [Atomic!TreeNext]_(Atomic!treeVars)
  <2> SUFFICES ASSUME CallsInv, [CallsNext]_callVars
               PROVE  Atomic!TreeNext \/ UNCHANGED Atomic!treeVars
    OBVIOUS
  <2>1. CASE op = "none" /\ op' = "none" /\ CallsNext
    <3>1. Between
      BY <2>1 DEF CallsNext, Repr, Visit, Clone, StartRemove, DetachToDrop, StartExtract,
                  Equal, WalkStep, ExtractCopied, Dropped, Walked
    <3>2. TreeNext /\ Live(nodes) \subseteq Live(nodes')
      BY <3>1 DEF Between
    <3>3. ASSUME NEW n \in Live(nodes), Remove(n) PROVE FALSE
      <4>1. /\ nodes \in Table /\ WellFormed(nodes)
            /\ nodes' = DropSubtree(Unlink(nodes, n), n)
        BY <2>1, <3>3 DEF CallsInv, TreeInv, TypeOK, Remove, Restructure
      <4>2. Live(nodes') = Live(nodes) \ Walk(Unlink(nodes, n), n)
        BY <4>1, RemoveKeeps
      <4>3. n \in Walk(Unlink(nodes, n), n)
        BY <4>1, FreedAreDescendants, AncestorsClosed, TableCells
      <4> QED BY <3>2, <4>2, <4>3
    <3> QED BY <2>1, <3>2, <3>3, SteadyNext
  <2>2. CASE CallsNext /\ (op # "none" \/ op' # "none")
    <3>1. CASE UNCHANGED <<Steady, root, version, status>>
      BY <3>1 DEF Atomic!treeVars, Steady
    <3>2. CASE arg \in Live(Steady) /\ Atomic!Remove(arg)
      <4>1. Atomic!Live(Steady) = Live(Steady)
        BY DEF Atomic!Live, Live
      <4> QED BY <3>2, <4>1 DEF Atomic!TreeNext, Steady
    <3> QED BY <2>2, <3>1, <3>2, StepAtomic
  <2>3. CASE UNCHANGED callVars
    BY <2>3 DEF callVars, treeVars, Atomic!treeVars
  <2> QED BY <2>1, <2>2, <2>3
<1> QED BY <1>1, <1>2, CallsInvariance, PTL DEF CallsSpec, Atomic!TreeSpec

-----------------------------------------------------------------------------
(***************************************************************************)
(* What is proved of tables holds of that of a copy, whose slots are       *)
(* numbers.                                                                *)
(***************************************************************************)
Cp == INSTANCE WalkProofs WITH Slots <- Copier!CopyKeys

LEMMA CopyNodes == Cp!NodesAssumption
<1>1. Cp!Node = Copier!D!Node
  BY DEF Cp!Node, Copier!D!Node, Cp!Link, Copier!D!Link, Cp!Kinds, Copier!D!Kinds
<1>2. \A S : Copier!Cardinality(S) = Cardinality(S)
  BY DEF Copier!Cardinality, Cardinality
<1>3. IsFiniteSet(Copier!CopyKeys)
  BY <1>2, FS_Interval, NodesAssumption, FS_CardinalityType DEF Copier!CopyKeys
<1>4. Cp!IsFiniteSet(Copier!CopyKeys)
  BY <1>3 DEF IsFiniteSet, Cp!IsFiniteSet
<1> QED BY <1>1, <1>4, CallsAssumption, NodesAssumption DEF Cp!NodesAssumption

(***************************************************************************)
(* The operators of Copy on a copy are those of Nodes and Text.            *)
(***************************************************************************)
LEMMA CopyTables ==
  /\ \A N : Copier!D!Live(N) = Cp!Live(N)
  /\ \A N, n, k : Copier!D!Allocate(N, n, k) = Cp!Allocate(N, n, k)
  /\ \A N, n, k : Copier!D!LinkLast(N, n, k) = Cp!LinkLast(N, n, k)
  /\ \A N : Copier!D!WellFormed(N) <=> Cp!WellFormed(N)
<1>1. \A N : Copier!D!Live(N) = Cp!Live(N)
  BY DEF Copier!D!Live, Cp!Live
<1>2. \A N, n, k : Copier!D!Allocate(N, n, k) = Cp!Allocate(N, n, k)
  BY DEF Copier!D!Allocate, Cp!Allocate, Copier!D!NewNode, Cp!NewNode
<1>3. \A N, n, k : Copier!D!LinkLast(N, n, k) = Cp!LinkLast(N, n, k)
  BY DEF Copier!D!LinkLast, Cp!LinkLast
<1>4. \A N : Copier!D!WellFormed(N) <=> Cp!WellFormed(N)
  BY DEF Copier!D!Live, Cp!Live, Copier!D!WellFormed, Cp!WellFormed,
         Copier!D!LinksOK, Cp!LinksOK, Copier!D!LinkLive, Cp!LinkLive,
         Copier!D!SiblingsAgree, Cp!SiblingsAgree, Copier!D!EndsAgree, Cp!EndsAgree,
         Copier!D!ChildLinked, Cp!ChildLinked, Copier!D!NoParentCycle, Cp!NoParentCycle,
         Copier!D!NoSiblingCycle, Cp!NoSiblingCycle, Copier!D!CountOK, Cp!CountOK,
         Copier!D!Children, Cp!Children, Copier!D!Cardinality, Cp!Cardinality
<1> QED BY <1>1, <1>2, <1>3, <1>4

LEMMA CopyTexts ==
  /\ \A N, n : CopyRef!Text(N, n) = Cp!Text(N, n)
  /\ \A N, n, x : Cp!Written(N, n, x) = Written(N, n, x)
  /\ \A N, n, x : Cp!Joined(N, n, x) = Joined(N, n, x)
<1>1. \A N, n : CopyRef!Text(N, n) = Cp!Text(N, n)
  BY DEF CopyRef!Text, Cp!Text, CopyRef!Texts, Cp!Texts, CopyRef!Live, Cp!Live,
         CopyRef!Written, Cp!Written, CopyRef!Mark, Cp!Mark, CopyRef!Word, Cp!Word
<1>2. \A N, n, x : Cp!Written(N, n, x) = Written(N, n, x)
  BY DEF Cp!Written, Written, Cp!Mark, Mark, Word, Cp!Word
<1>3. \A N, n, x : Cp!Joined(N, n, x) = Joined(N, n, x)
  BY DEF Cp!Joined, Joined, Cp!Mark, Mark
<1> QED BY <1>1, <1>2, <1>3

(***************************************************************************)
(* Keys 0 .. m - 1 of the copy C stand for nodes of U, key k for f[k] and  *)
(* 0 for r; the links between them are those of what they stand for.       *)
(***************************************************************************)
CopyLinks(U, r, C, f, m) ==
  /\ f[0] = r /\ C[0].parent = Null
  /\ \A k \in 0 .. m - 1 :
       /\ f[k] \in Live(U) /\ C[k].kind = U[f[k]].kind
       /\ k # 0 => C[k].parent \in 0 .. m - 1 /\ U[f[k]].parent = f[C[k].parent]
       /\ C[k].first # Null => f[C[k].first] = U[f[k]].first
       /\ C[k].next # Null => f[C[k].next] = U[f[k]].next
  /\ \A j, k \in 0 .. m - 1 : f[j] = f[k] => j = k

CopyMaps(U, r, C, f, m) ==
  /\ m \in Nat /\ m # 0
  /\ C \in Cp!Table /\ Cp!WellFormed(C) /\ Cp!Live(C) = 0 .. m - 1
  /\ CopyLinks(U, r, C, f, m)

\* The child of what k stands for that is to be copied next, or Null.
Rest(U, C, f, k) == IF C[k].last = Null THEN U[f[k]].first ELSE U[f[C[k].last]].next

(***************************************************************************)
(* What is to be copied next below k hangs below what k stands for, and    *)
(* has not been copied.                                                    *)
(***************************************************************************)
LEMMA CopyFacts ==
  ASSUME NEW U, NEW r, NEW C, NEW f, NEW m, CopyMaps(U, r, C, f, m)
  PROVE  /\ \A k \in 0 .. m - 1 :
              {C[k].parent, C[k].first, C[k].last, C[k].next} \subseteq (0 .. m - 1) \union {Null}
         /\ Null \notin 0 .. m - 1
         /\ Cp!SiblingsAgree(C) /\ Cp!EndsAgree(C) /\ Cp!ChildLinked(C)
BY CopyNodes, Cp!TableCells DEF CopyMaps, Cp!WellFormed, Cp!LinksOK, Cp!LinkLive, Cp!NodesAssumption

LEMMA RestBelow ==
  ASSUME NEW U \in Table, WellFormed(U), NEW r, NEW C, NEW f, NEW m, CopyMaps(U, r, C, f, m),
         NEW d \in 0 .. m - 1, Rest(U, C, f, d) # Null
  PROVE  Rest(U, C, f, d) \in Live(U) /\ U[Rest(U, C, f, d)].parent = f[d]
<1>1. f[d] \in Live(U) /\ Cp!Live(C) = 0 .. m - 1
  BY DEF CopyMaps, CopyLinks
<1>4. C[d].last \in (0 .. m - 1) \union {Null} /\ Null \notin 0 .. m - 1 /\ Cp!EndsAgree(C)
  BY CopyFacts
<1>2. CASE C[d].last = Null
  BY <1>1, <1>2 DEF Rest, WellFormed, LinksOK, LinkLive, EndsAgree
<1>3. CASE C[d].last # Null
  <2>1. C[d].last \in 0 .. m - 1 /\ C[C[d].last].parent = d
    BY <1>1, <1>3, <1>4 DEF Cp!EndsAgree
  <2>2. C[d].last # 0
    BY <1>4, <2>1 DEF CopyMaps, CopyLinks
  <2>3. f[C[d].last] \in Live(U) /\ U[f[C[d].last]].parent = f[d]
    BY <2>1, <2>2 DEF CopyMaps, CopyLinks
  <2> QED BY <1>3, <2>3 DEF Rest, WellFormed, LinksOK, LinkLive, SiblingsAgree
<1> QED BY <1>2, <1>3

LEMMA RestUncopied ==
  ASSUME NEW U \in Table, WellFormed(U), NEW r, NEW C, NEW f, NEW m, CopyMaps(U, r, C, f, m),
         NEW d \in 0 .. m - 1, Rest(U, C, f, d) # Null
  PROVE  \A k \in 0 .. m - 1 : f[k] # Rest(U, C, f, d)
<1> DEFINE s == Rest(U, C, f, d)
<1>0. /\ s \in Live(U) /\ U[s].parent = f[d] /\ m \in Nat /\ m # 0 /\ 0 \in 0 .. m - 1
      /\ Cp!Live(C) = 0 .. m - 1 /\ Null \notin Slots
  BY RestBelow, NodesAssumption DEF CopyMaps
<1> SUFFICES ASSUME NEW k \in 0 .. m - 1, f[k] = s PROVE FALSE
  OBVIOUS
<1>1. CASE k = 0
  <2> DEFINE S == {f[j] : j \in 0 .. m - 1}
  <2>1. S \in SUBSET Live(U) /\ S # {}
    BY <1>0 DEF CopyMaps, CopyLinks
  <2>2. \A j \in 0 .. m - 1 : U[f[j]].parent \in S
    BY <1>0, <1>1 DEF CopyMaps, CopyLinks
  <2> HIDE DEF S
  <2>3. \A n \in S : U[n].parent \in S
    BY <2>2 DEF S
  <2> QED BY <2>1, <2>3 DEF WellFormed, NoParentCycle
<1>2. CASE k # 0
  <2>1. C[k].parent = d
    BY <1>0, <1>2 DEF CopyMaps, CopyLinks
  <2> DEFINE K == {j \in 0 .. m - 1 : C[j].parent = d}
             S == {f[j] : j \in K}
  <2>2. \A j \in K : C[j].next # Null => C[j].next \in K
    BY <1>0, CopyFacts DEF Cp!SiblingsAgree
  <2>3. \A j \in K : C[j].next = Null => C[d].last = j
    BY <1>0, CopyFacts DEF Cp!ChildLinked
  <2>4. C[d].last # Null
    <3>1. K \in SUBSET Cp!Live(C) /\ K # {}
      BY <1>0, <2>1
    <3>2. PICK j \in K : C[j].next \notin K
      BY <3>1 DEF CopyMaps, Cp!WellFormed, Cp!NoSiblingCycle
    <3>3. j # Null
      BY CopyFacts
    <3> QED BY <2>2, <2>3, <3>2, <3>3
  <2>5. U[f[C[d].last]].next = s
    BY <2>4 DEF Rest
  <2>6. S \in SUBSET Live(U) /\ S # {}
    BY <2>1 DEF CopyMaps, CopyLinks
  <2>7. \A j \in K : U[f[j]].next \in S
    <3> SUFFICES ASSUME NEW j \in K PROVE U[f[j]].next \in S
      OBVIOUS
    <3>1. CASE C[j].next # Null
      BY <2>2, <3>1 DEF CopyMaps, CopyLinks
    <3>2. CASE C[j].next = Null
      BY <2>1, <2>3, <2>5, <3>2
    <3> QED BY <3>1, <3>2
  <2>8. \A n \in S : U[n].next \in S
    BY <2>7
  <2> HIDE DEF S
  <2> QED BY <2>6, <2>8 DEF WellFormed, NoSiblingCycle
<1> QED BY <1>1, <1>2

(***************************************************************************)
(* A node is copied: k = m is appended to d and stands for what was to be  *)
(* copied next below d; what is to be copied next changes for d only.      *)
(***************************************************************************)
CopyGrown(U, C, f, m, d, M, g) ==
  LET s == Rest(U, C, f, d)
  IN  /\ M = Cp!LinkLast(Cp!Allocate(C, m, U[s].kind), d, m)
      /\ g = [k \in 0 .. m |-> IF k = m THEN s ELSE f[k]]

LEMMA CopyGrows ==
  ASSUME NEW U \in Table, WellFormed(U), NEW r, NEW C, NEW f, NEW m, CopyMaps(U, r, C, f, m),
         NEW d \in 0 .. m - 1, Rest(U, C, f, d) # Null,
         NEW M, NEW g, CopyGrown(U, C, f, m, d, M, g)
  PROVE  /\ CopyMaps(U, r, M, g, m + 1)
         /\ g[m] = Rest(U, C, f, d) /\ \A k \in 0 .. m - 1 : g[k] = f[k]
         /\ M[m].last = Null
         /\ Rest(U, M, g, m) = U[Rest(U, C, f, d)].first
         /\ Rest(U, M, g, d) = U[Rest(U, C, f, d)].next
         /\ \A k \in 0 .. m - 1 : k # d => M[k].last = C[k].last /\ Rest(U, M, g, k) = Rest(U, C, f, k)
<1> DEFINE s == Rest(U, C, f, d)
<1>1. /\ s \in Live(U) /\ U[s].parent = f[d]
      /\ \A k \in 0 .. m - 1 : f[k] # s
  BY RestBelow, RestUncopied
<1>2. /\ m \in Nat /\ m # 0 /\ d \in Cp!Live(C) /\ Cp!Live(C) = 0 .. m - 1 /\ f[d] \in Live(U)
      /\ C \in Cp!Table /\ Cp!WellFormed(C) /\ CopyLinks(U, r, C, f, m)
      /\ 0 .. (m + 1) - 1 = (0 .. m - 1) \union {m} /\ m \notin 0 .. m - 1 /\ 0 \in 0 .. m - 1
  BY DEF CopyMaps, CopyLinks
<1>3. /\ g[m] = s /\ \A k \in 0 .. m - 1 : g[k] = f[k]
      /\ g \in [0 .. m -> Live(U)]
      /\ \A j, k \in 0 .. m : g[j] = g[k] => j = k
  <2>1. g[m] = s /\ \A k \in 0 .. m - 1 : g[k] = f[k]
    BY <1>2 DEF CopyGrown
  <2>2. 0 .. m = (0 .. m - 1) \union {m}
    BY <1>2
  <2>3. \A k \in 0 .. m : g[k] \in Live(U)
    BY <1>1, <1>2, <2>1, <2>2 DEF CopyLinks
  <2>4. g \in [0 .. m -> Live(U)]
    BY <2>3 DEF CopyGrown
  <2>5. \A j, k \in 0 .. m : g[j] = g[k] => j = k
    BY <1>1, <1>2, <2>1, <2>2 DEF CopyLinks
  <2> QED BY <2>1, <2>4, <2>5
<1> HIDE DEF s
<1>4. m \in Copier!CopyKeys
  <2>1. IsFiniteSet(Slots) /\ Live(U) \in SUBSET Slots
    BY NodesAssumption DEF Live
  <2>2. g \in Injection(0 .. m, Slots)
    BY <1>3, <2>1 DEF Injection, IsInjective
  <2>3. Cardinality(0 .. m) <= Cardinality(Slots)
    BY <2>1, <2>2, FS_Injection
  <2>4. Cardinality(0 .. m) = m + 1
    BY <1>2, FS_Interval
  <2>5. Cardinality(Slots) \in Nat
    BY <2>1, FS_CardinalityType
  <2>6. Copier!Cardinality(Slots) = Cardinality(Slots)
    BY DEF Copier!Cardinality, Cardinality
  <2> QED BY <1>2, <2>3, <2>4, <2>5, <2>6 DEF Copier!CopyKeys
<1>5. C[m] = Vacant /\ U[s].kind \in Cp!Kinds
  <2>1. m \notin Cp!Live(C)
    BY <1>2
  <2>2. U[s].kind \in Kinds
    BY <1>1, TableCells DEF Node
  <2> QED BY <1>4, <2>1, <2>2 DEF Cp!Live, Cp!Kinds, Kinds
<1>6. /\ M \in Cp!Table
      /\ Cp!Live(M) = Cp!Live(C) \union {m}
      /\ Cp!WellFormed(M)
      /\ \A n \in Cp!Live(C) :
           /\ M[n].parent = C[n].parent /\ M[n].kind = C[n].kind
           /\ M[n].next = IF n = C[d].last THEN m ELSE C[n].next
           /\ M[n].first = IF n = d /\ C[d].last = Null THEN m ELSE C[n].first
           /\ M[n].last = IF n = d THEN m ELSE C[n].last
      /\ M[m].parent = d /\ M[m].kind = U[s].kind
      /\ M[m].next = Null /\ M[m].first = Null /\ M[m].last = Null
  BY <1>2, <1>4, <1>5, CopyNodes, Cp!FreshLast DEF CopyGrown, s
<1>7. /\ Cp!Live(M) = 0 .. (m + 1) - 1
      /\ \A k \in 0 .. m - 1 : M[k].last = IF k = d THEN m ELSE C[k].last
  BY <1>2, <1>6
<1>8. \A k \in 0 .. m - 1 :
        {C[k].parent, C[k].first, C[k].last, C[k].next} \subseteq (0 .. m - 1) \union {Null}
  BY CopyFacts
<1>9. Null \notin 0 .. m
  BY <1>2, <1>6, <1>7, CopyFacts, CopyNodes, Cp!TableCells DEF Cp!NodesAssumption, Cp!Live
<1>10. CopyLinks(U, r, M, g, m + 1)
  <2>1. g[0] = r /\ M[0].parent = Null
    BY <1>2, <1>3, <1>6 DEF CopyLinks
  <2>2. ASSUME NEW k \in 0 .. m - 1
        PROVE  /\ g[k] \in Live(U) /\ M[k].kind = U[g[k]].kind
               /\ k # 0 => M[k].parent \in 0 .. m /\ U[g[k]].parent = g[M[k].parent]
               /\ M[k].first # Null => g[M[k].first] = U[g[k]].first
               /\ M[k].next # Null => g[M[k].next] = U[g[k]].next
    <3>1. g[k] = f[k] /\ f[k] \in Live(U) /\ k \in 0 .. m
      BY <1>2, <1>3 DEF CopyLinks
    <3>2. M[k].kind = U[g[k]].kind
      BY <1>2, <1>6, <3>1 DEF CopyLinks
    <3>3. k # 0 => M[k].parent \in 0 .. m /\ U[g[k]].parent = g[M[k].parent]
      BY <1>2, <1>3, <1>6, <3>1 DEF CopyLinks
    <3>4. CASE k = d /\ C[d].last = Null
      <4>1. M[k].first = m /\ U[f[k]].first = s
        BY <1>2, <1>6, <3>1, <3>4 DEF Rest, s
      <4>2. M[k].next = C[k].next /\ (C[k].next # Null => C[k].next \in 0 .. m - 1)
        BY <1>2, <1>6, <1>8, <1>9, <3>4
      <4> QED BY <1>2, <1>3, <3>1, <3>2, <3>3, <4>1, <4>2 DEF CopyLinks
    <3>5. CASE k = C[d].last /\ ~ (k = d /\ C[d].last = Null)
      <4>1. C[d].last # Null /\ M[k].next = m /\ U[f[k]].next = s
        BY <1>2, <1>6, <1>9, <3>1, <3>5 DEF Rest, s
      <4>2. M[k].first = C[k].first /\ (C[k].first # Null => C[k].first \in 0 .. m - 1)
        BY <1>2, <1>6, <1>8, <3>5
      <4> QED BY <1>2, <1>3, <3>1, <3>2, <3>3, <4>1, <4>2 DEF CopyLinks
    <3>6. CASE ~ (k = d /\ C[d].last = Null) /\ k # C[d].last
      <4>1. M[k].first = C[k].first /\ (C[k].first # Null => C[k].first \in 0 .. m - 1)
        BY <1>2, <1>6, <1>8, <3>6
      <4>2. M[k].next = C[k].next /\ (C[k].next # Null => C[k].next \in 0 .. m - 1)
        BY <1>2, <1>6, <1>8, <3>6
      <4> QED BY <1>2, <1>3, <3>1, <3>2, <3>3, <4>1, <4>2, SMTT(30) DEF CopyLinks
    <3> QED BY <3>4, <3>5, <3>6
  <2>3. /\ g[m] \in Live(U) /\ M[m].kind = U[g[m]].kind
        /\ M[m].parent \in 0 .. m /\ U[g[m]].parent = g[M[m].parent]
        /\ M[m].first = Null /\ M[m].next = Null
    BY <1>1, <1>2, <1>3, <1>6 DEF s
  <2>4. 0 .. (m + 1) - 1 = 0 .. m
    BY <1>2
  <2> QED BY <1>2, <1>3, <2>1, <2>2, <2>3, <2>4 DEF CopyLinks
<1>11. CopyMaps(U, r, M, g, m + 1)
  BY <1>2, <1>6, <1>7, <1>10 DEF CopyMaps
<1>12. /\ Rest(U, M, g, m) = U[s].first /\ Rest(U, M, g, d) = U[s].next
       /\ \A k \in 0 .. m - 1 : k # d => Rest(U, M, g, k) = Rest(U, C, f, k)
  BY <1>2, <1>3, <1>6, <1>7, <1>8, <1>9, SMTT(30) DEF Rest
<1> QED BY <1>3, <1>6, <1>7, <1>11, <1>12 DEF s

(***************************************************************************)
(* What is pending: the n pairs S of a node and its parent in the copy, of *)
(* which the last is next, then the children that the cursor c goes over,  *)
(* below the node cr made last.  Of the pairs of one parent the last is    *)
(* what is to be copied next there, and each of the others the sibling     *)
(* after the one above it; nothing that is to be copied is missing.        *)
(* (Children of the copied node itself wait in ch, see RootPending.)       *)
(***************************************************************************)
PairPending(U, C, f, S, n, c, cr, i) ==
  LET s == S[i][1]
      d == S[i][2]
  IN  /\ d <= cr /\ \A j \in 1 .. i : S[j][2] <= d
      /\ IF i < n /\ S[i + 1][2] = d THEN S[i + 1][1] = U[s].prev
         ELSE IF i = n /\ c # Null /\ cr = d THEN c = U[s].prev
         ELSE s = Rest(U, C, f, d)
      /\ d # 0 /\ U[s].next # Null => i - 1 \in 1 .. n /\ S[i - 1] = <<U[s].next, d>>

CopyPending(U, C, f, m, S, n, c, cr) ==
  /\ n \in Nat /\ cr \in 0 .. m - 1
  /\ \A i \in 1 .. n : S[i] \in Live(U) \X (0 .. m - 1) /\ PairPending(U, C, f, S, n, c, cr, i)
  /\ c # Null =>
       /\ c \in Live(U) /\ cr # 0 /\ U[c].parent = f[cr] /\ C[cr].last = Null
       /\ U[c].next # Null => n # 0 /\ S[n] = <<U[c].next, cr>>
  /\ \A k \in 0 .. m - 1 :
       k # 0 /\ Rest(U, C, f, k) # Null =>
         (c # Null /\ cr = k) \/ \E i \in 1 .. n : S[i] = <<Rest(U, C, f, k), k>>

RootPending(U, C, f, S, n, c, ch) ==
  IF \E i \in 1 .. n : S[i][2] = 0 THEN n = 1 /\ c = Null /\ ch = U[S[1][1]].next
                                  ELSE ch = Rest(U, C, f, 0)

(***************************************************************************)
(* A child is pushed.                                                      *)
(***************************************************************************)
LEMMA CopyPushes ==
  ASSUME NEW U \in Table, WellFormed(U), NEW r, NEW C, NEW f, NEW m, CopyMaps(U, r, C, f, m),
         NEW S, NEW n, NEW c, c # Null, NEW cr, CopyPending(U, C, f, m, S, n, c, cr),
         NEW T, T[n + 1] = <<c, cr>>, \A i \in 1 .. n : T[i] = S[i]
  PROVE  /\ CopyPending(U, C, f, m, T, n + 1, U[c].prev, cr)
         /\ \A ch : RootPending(U, C, f, S, n, c, ch) => RootPending(U, C, f, T, n + 1, U[c].prev, ch)
<1>1. /\ n \in Nat /\ m \in Nat /\ cr \in 0 .. m - 1 /\ cr # 0 /\ c \in Live(U)
      /\ 1 .. n + 1 = (1 .. n) \union {n + 1} /\ n + 1 \notin 1 .. n
      /\ U[c].parent = f[cr] /\ C[cr].last = Null
      /\ U[c].next # Null => n # 0 /\ S[n] = <<U[c].next, cr>>
      /\ f[cr] \in Live(U)
  BY DEF CopyPending, CopyMaps, CopyLinks
<1>2. /\ U[c].prev \in Live(U) \union {Null} /\ Null \notin Live(U)
      /\ U[c].prev # Null => U[U[c].prev].next = c /\ U[U[c].prev].parent = f[cr]
      /\ U[c].prev = Null => Rest(U, C, f, cr) = c
  <2>1. U[c].prev \in Live(U) \union {Null} /\ Null \notin Live(U)
    BY <1>1, NodesAssumption DEF WellFormed, LinksOK, LinkLive, Live
  <2>2. U[c].prev # Null => U[U[c].prev].next = c /\ U[U[c].prev].parent = f[cr]
    BY <1>1, <2>1 DEF WellFormed, LinksOK, SiblingsAgree
  <2>3. U[c].prev = Null => U[f[cr]].first = c
    BY <1>1, <2>1, NodesAssumption DEF WellFormed, LinksOK, ChildLinked, Live
  <2> QED BY <1>1, <2>1, <2>2, <2>3 DEF Rest
<1>3. T[n + 1][1] = c /\ T[n + 1][2] = cr /\ T[n + 1] \in Live(U) \X (0 .. m - 1)
  BY <1>1
<1>4. \A i \in 1 .. n : /\ S[i] \in Live(U) \X (0 .. m - 1) /\ S[i][2] \in 0 .. m - 1
                        /\ PairPending(U, C, f, S, n, c, cr, i) /\ T[i] = S[i]
  BY DEF CopyPending
<1>5. ASSUME NEW i \in 1 .. n PROVE PairPending(U, C, f, T, n + 1, U[c].prev, cr, i)
  <2> DEFINE s == S[i][1]
             d == S[i][2]
  <2>1. /\ T[i][1] = s /\ T[i][2] = d /\ i \in Nat /\ i <= n
        /\ d <= cr /\ \A j \in 1 .. i : S[j][2] <= d
        /\ IF i < n /\ S[i + 1][2] = d THEN S[i + 1][1] = U[s].prev
           ELSE IF i = n /\ cr = d THEN c = U[s].prev
           ELSE s = Rest(U, C, f, d)
        /\ d # 0 /\ U[s].next # Null => i - 1 \in 1 .. n /\ S[i - 1] = <<U[s].next, d>>
    BY <1>1, <1>4 DEF PairPending
  <2> HIDE DEF s, d
  <2>2. \A j \in 1 .. i : T[j][2] <= d
    BY <1>1, <1>4, <2>1
  <2>3. d # 0 /\ U[s].next # Null => i - 1 \in 1 .. n + 1 /\ T[i - 1] = <<U[s].next, d>>
    BY <1>1, <1>4, <2>1
  <2>4. IF i < n + 1 /\ T[i + 1][2] = d THEN T[i + 1][1] = U[s].prev
        ELSE s = Rest(U, C, f, d)
    <3>1. CASE i < n
      <4>1. i + 1 \in 1 .. n
        BY <1>1, <2>1, <3>1
      <4> QED BY <1>1, <1>4, <2>1, <3>1, <4>1
    <3>2. CASE i = n
      BY <1>1, <1>3, <2>1, <3>2
    <3> QED BY <1>1, <2>1, <3>1, <3>2
  <2> QED BY <1>1, <2>1, <2>2, <2>3, <2>4 DEF PairPending
<1>6. PairPending(U, C, f, T, n + 1, U[c].prev, cr, n + 1)
  <2>1. \A j \in 1 .. n + 1 : T[j][2] <= cr
    BY <1>1, <1>3, <1>4 DEF PairPending
  <2>2. cr # 0 /\ U[c].next # Null => n \in 1 .. n + 1 /\ T[n] = <<U[c].next, cr>>
    BY <1>1, <1>4
  <2>3. U[c].prev = Null => c = Rest(U, C, f, cr)
    BY <1>2
  <2> QED BY <1>1, <1>3, <2>1, <2>2, <2>3 DEF PairPending
<1>7. \A i \in 1 .. n + 1 : T[i] \in Live(U) \X (0 .. m - 1)
                          /\ PairPending(U, C, f, T, n + 1, U[c].prev, cr, i)
  BY <1>1, <1>3, <1>4, <1>5, <1>6
<1>8. ASSUME NEW k \in 0 .. m - 1, k # 0, Rest(U, C, f, k) # Null, ~ (U[c].prev # Null /\ cr = k)
      PROVE  \E i \in 1 .. n + 1 : T[i] = <<Rest(U, C, f, k), k>>
  <2>1. CASE cr = k
    BY <1>1, <1>2, <1>8, <2>1
  <2>2. CASE cr # k
    <3>1. \E i \in 1 .. n : S[i] = <<Rest(U, C, f, k), k>>
      BY <1>8, <2>2 DEF CopyPending
    <3> QED BY <1>1, <1>4, <3>1
  <2> QED BY <2>1, <2>2
<1>9. U[c].prev # Null => U[U[c].prev].next = c /\ U[U[c].prev].parent = f[cr]
                          /\ U[c].prev \in Live(U) /\ n + 1 # 0 /\ T[n + 1] = <<U[U[c].prev].next, cr>>
  BY <1>1, <1>2
<1>10. CopyPending(U, C, f, m, T, n + 1, U[c].prev, cr)
  BY <1>1, <1>7, <1>8, <1>9 DEF CopyPending
<1>11. ASSUME NEW ch, RootPending(U, C, f, S, n, c, ch)
       PROVE  RootPending(U, C, f, T, n + 1, U[c].prev, ch)
  <2>1. (\A i \in 1 .. n : S[i][2] # 0) /\ ch = Rest(U, C, f, 0)
    BY <1>11 DEF RootPending
  <2>2. \A i \in 1 .. n + 1 : T[i][2] # 0
    BY <1>1, <1>3, <1>4, <2>1
  <2> QED BY <2>1, <2>2 DEF RootPending
<1> QED BY <1>10, <1>11

(***************************************************************************)
(* The next pair is copied.                                                *)
(***************************************************************************)
LEMMA CopyPops ==
  ASSUME NEW U \in Table, WellFormed(U), NEW r, NEW C, NEW f, NEW m, CopyMaps(U, r, C, f, m),
         NEW S, NEW n, n # 0, NEW cr, CopyPending(U, C, f, m, S, n, Null, cr),
         NEW M, NEW g, CopyGrown(U, C, f, m, S[n][2], M, g),
         NEW T, \A i \in 1 .. n - 1 : T[i] = S[i]
  PROVE  /\ S[n][1] = Rest(U, C, f, S[n][2])
         /\ CopyMaps(U, r, M, g, m + 1)
         /\ CopyPending(U, M, g, m + 1, T, n - 1, U[S[n][1]].last, m)
         /\ \A ch : RootPending(U, C, f, S, n, Null, ch) =>
                    RootPending(U, M, g, T, n - 1, U[S[n][1]].last, ch)
<1> DEFINE s == S[n][1]
           d == S[n][2]
           c == U[s].last
<1>1. /\ n \in Nat /\ n \in 1 .. n /\ m \in Nat /\ m # 0 /\ cr \in 0 .. m - 1 /\ n - 1 \in Nat
      /\ 1 .. n = (1 .. n - 1) \union {n} /\ n \notin 1 .. n - 1
      /\ 0 .. (m + 1) - 1 = (0 .. m - 1) \union {m} /\ m \notin 0 .. m - 1
  BY DEF CopyPending, CopyMaps
<1>2. \A i \in 1 .. n : /\ S[i] \in Live(U) \X (0 .. m - 1) /\ S[i][1] \in Live(U) /\ S[i][2] \in 0 .. m - 1
                        /\ PairPending(U, C, f, S, n, Null, cr, i)
  BY DEF CopyPending
<1>3. /\ s \in Live(U) /\ d \in 0 .. m - 1 /\ s = Rest(U, C, f, d) /\ s # Null
      /\ \A j \in 1 .. n : S[j][2] <= d
      /\ d # 0 /\ U[s].next # Null => n - 1 \in 1 .. n /\ S[n - 1] = <<U[s].next, d>>
  BY <1>1, <1>2, NodesAssumption DEF PairPending, Live
<1> HIDE DEF s, d, c
<1>4. /\ CopyMaps(U, r, M, g, m + 1)
      /\ g[m] = s /\ \A k \in 0 .. m - 1 : g[k] = f[k]
      /\ M[m].last = Null
      /\ Rest(U, M, g, m) = U[s].first
      /\ Rest(U, M, g, d) = U[s].next
      /\ \A k \in 0 .. m - 1 : k # d => Rest(U, M, g, k) = Rest(U, C, f, k)
  <2>1. CopyGrown(U, C, f, m, d, M, g)
    BY DEF d
  <2> QED BY <1>3, <2>1, CopyGrows
<1>5. /\ c \in Live(U) \union {Null} /\ (c = Null <=> U[s].first = Null)
      /\ c # Null => U[c].parent = s /\ U[c].next = Null
      /\ U[s].next # Null => U[U[s].next].prev = s
      /\ \A x \in Live(U) : U[x].prev # Null => U[U[x].prev].next = x
  BY <1>3 DEF c, WellFormed, LinksOK, LinkLive, EndsAgree, SiblingsAgree
<1>6. ASSUME NEW i \in 1 .. n - 1 PROVE PairPending(U, M, g, T, n - 1, c, m, i)
  <2> DEFINE x == S[i][1]
             e == S[i][2]
  <2>1. /\ T[i][1] = x /\ T[i][2] = e /\ i \in Nat /\ i <= n - 1 /\ i \in 1 .. n
        /\ e \in 0 .. m - 1 /\ x \in Live(U)
        /\ \A j \in 1 .. i : S[j][2] <= e
        /\ IF S[i + 1][2] = e THEN S[i + 1][1] = U[x].prev ELSE x = Rest(U, C, f, e)
        /\ e # 0 /\ U[x].next # Null => i - 1 \in 1 .. n /\ S[i - 1] = <<U[x].next, e>>
    BY <1>1, <1>2 DEF PairPending
  <2> HIDE DEF x, e
  <2>2. \A j \in 1 .. i : T[j][2] <= e
    BY <1>1, <2>1
  <2>3. e <= m /\ e # m
    BY <1>1, <2>1
  <2>4. e # 0 /\ U[x].next # Null => i - 1 \in 1 .. n - 1 /\ T[i - 1] = <<U[x].next, e>>
    BY <1>1, <2>1
  <2>5. CASE i < n - 1
    <3>1. i + 1 \in 1 .. n - 1 /\ i + 1 \in 1 .. n /\ T[i + 1] = S[i + 1]
      BY <1>1, <2>1, <2>5
    <3>2. S[i + 1][2] # e => e # d
      <4>1. PairPending(U, C, f, S, n, Null, cr, i + 1)
        BY <1>2, <3>1
      <4>2. i \in 1 .. i + 1
        BY <2>1
      <4>3. S[i][2] <= S[i + 1][2]
        BY <4>1, <4>2 DEF PairPending
      <4>4. S[i + 1][2] <= d /\ S[i + 1][2] \in 0 .. m - 1
        BY <1>2, <1>3, <3>1
      <4> QED BY <1>3, <2>1, <4>3, <4>4 DEF e
    <3>3. IF T[i + 1][2] = e THEN T[i + 1][1] = U[x].prev ELSE x = Rest(U, M, g, e)
      BY <1>4, <2>1, <3>1, <3>2
    <3> QED BY <2>1, <2>2, <2>3, <2>4, <2>5, <3>3 DEF PairPending
  <2>6. CASE i = n - 1
    <3>1. i + 1 = n
      BY <1>1, <2>6
    <3>2. x = Rest(U, M, g, e)
      <4>1. CASE e = d
        <5>1. s = U[x].prev
          BY <2>1, <3>1, <4>1 DEF s, d
        <5>2. U[s].next = x
          BY <1>3, <1>5, <2>1, <5>1
        <5> QED BY <1>4, <4>1, <5>2
      <4>2. CASE e # d
        BY <1>4, <2>1, <3>1, <4>2 DEF d
      <4> QED BY <4>1, <4>2
    <3> QED BY <1>1, <2>1, <2>2, <2>3, <2>4, <2>6, <3>2 DEF PairPending
  <2> QED BY <1>1, <2>1, <2>5, <2>6
<1>7. \A i \in 1 .. n - 1 : T[i] \in Live(U) \X (0 .. (m + 1) - 1)
                          /\ PairPending(U, M, g, T, n - 1, c, m, i)
  <2>1. ASSUME NEW i \in 1 .. n - 1 PROVE T[i] \in Live(U) \X (0 .. (m + 1) - 1)
    BY <1>1, <1>2
  <2> QED BY <1>6, <2>1
<1>8. ASSUME NEW k \in 0 .. (m + 1) - 1, k # 0, Rest(U, M, g, k) # Null, ~ (c # Null /\ m = k)
      PROVE  \E i \in 1 .. n - 1 : T[i] = <<Rest(U, M, g, k), k>>
  <2>1. k # m
    BY <1>4, <1>5, <1>8
  <2>2. k \in 0 .. m - 1
    BY <1>1, <2>1
  <2>3. CASE k = d
    <3>1. Rest(U, M, g, k) = U[s].next
      BY <1>4, <2>3
    <3>2. n - 1 \in 1 .. n /\ S[n - 1] = <<U[s].next, d>>
      BY <1>3, <1>8, <2>3, <3>1
    <3> QED BY <1>1, <2>3, <3>1, <3>2
  <2>4. CASE k # d
    <3>1. Rest(U, M, g, k) = Rest(U, C, f, k)
      BY <1>4, <2>2, <2>4
    <3>2. PICK i \in 1 .. n : S[i] = <<Rest(U, C, f, k), k>>
      BY <1>8, <2>2, <3>1 DEF CopyPending
    <3>3. i # n
      BY <2>4, <3>2 DEF d
    <3> QED BY <1>1, <3>1, <3>2, <3>3
  <2> QED BY <2>3, <2>4
<1>9. CopyPending(U, M, g, m + 1, T, n - 1, c, m)
  <2>1. c # Null => /\ c \in Live(U) /\ m # 0 /\ U[c].parent = g[m] /\ M[m].last = Null
                    /\ U[c].next = Null
    BY <1>1, <1>4, <1>5
  <2> QED BY <1>1, <1>7, <1>8, <2>1 DEF CopyPending
<1>10. ASSUME NEW ch, RootPending(U, C, f, S, n, Null, ch) PROVE RootPending(U, M, g, T, n - 1, c, ch)
  <2>0. 0 \in 0 .. m - 1
    BY <1>1
  <2>1. CASE \E i \in 1 .. n : S[i][2] = 0
    <3>1. n = 1 /\ ch = U[S[1][1]].next /\ S[1][2] = 0
      <4>1. n = 1 /\ ch = U[S[1][1]].next
        BY <1>10, <2>1 DEF RootPending
      <4> QED BY <2>1, <4>1
    <3>2. ch = Rest(U, M, g, 0)
      BY <1>4, <3>1 DEF s, d
    <3>3. 1 .. n - 1 = {}
      BY <3>1
    <3> QED BY <3>2, <3>3 DEF RootPending
  <2>2. CASE \A i \in 1 .. n : S[i][2] # 0
    <3>1. ch = Rest(U, C, f, 0) /\ d # 0
      BY <1>1, <1>10, <2>2 DEF RootPending, d
    <3>2. ch = Rest(U, M, g, 0) /\ \A i \in 1 .. n - 1 : T[i][2] # 0
      BY <1>1, <1>4, <2>0, <2>2, <3>1
    <3> QED BY <3>2 DEF RootPending
  <2> QED BY <2>1, <2>2
<1> QED BY <1>3, <1>4, <1>9, <1>10 DEF s, d, c

(***************************************************************************)
(* The next child of the copied node itself is pushed: nothing else is     *)
(* pending.                                                                *)
(***************************************************************************)
LEMMA CopyTurns ==
  ASSUME NEW U \in Table, WellFormed(U), NEW r, NEW C, NEW f, NEW m, CopyMaps(U, r, C, f, m),
         NEW S, NEW cr, CopyPending(U, C, f, m, S, 0, Null, cr),
         NEW ch, ch # Null, RootPending(U, C, f, S, 0, Null, ch),
         NEW T, T[1] = <<ch, 0>>
  PROVE  /\ CopyPending(U, C, f, m, T, 1, Null, cr)
         /\ RootPending(U, C, f, T, 1, Null, U[ch].next)
<1>1. ch = Rest(U, C, f, 0) /\ 0 \in 0 .. m - 1 /\ cr \in 0 .. m - 1 /\ m \in Nat
  BY DEF RootPending, CopyMaps, CopyPending
<1>2. ch \in Live(U)
  BY <1>1, RestBelow
<1>3. /\ T[1][1] = ch /\ T[1][2] = 0 /\ T[1] \in Live(U) \X (0 .. m - 1)
      /\ 1 .. 1 = {1}
  BY <1>1, <1>2
<1>4. PairPending(U, C, f, T, 1, Null, cr, 1)
  BY <1>1, <1>3 DEF PairPending
<1>5. \A k \in 0 .. m - 1 : k # 0 => Rest(U, C, f, k) = Null
  BY DEF CopyPending
<1>6. CopyPending(U, C, f, m, T, 1, Null, cr)
  BY <1>1, <1>3, <1>4, <1>5 DEF CopyPending
<1>7. RootPending(U, C, f, T, 1, Null, U[ch].next)
  BY <1>3 DEF RootPending
<1> QED BY <1>6, <1>7

(***************************************************************************)
(* The state of a copy: C is one of part of the subtree of r, and what is  *)
(* missing is pending.  An atom is copied when the copying begins.         *)
(***************************************************************************)
CopyInv(U, r, C, S, n, c, cr, ch) ==
  \E f, m :
    /\ CopyMaps(U, r, C, f, m)
    /\ CopyPending(U, C, f, m, S, n, c, cr)
    /\ IF U[r].kind = List THEN RootPending(U, C, f, S, n, c, ch)
                           ELSE m = 1 /\ n = 0 /\ c = Null /\ ch = Null

LEMMA CopyBegins ==
  ASSUME NEW U \in Table, WellFormed(U), NEW r \in Live(U), NEW S,
         NEW C, C = Cp!Allocate([k \in Copier!CopyKeys |-> Vacant], 0, U[r].kind)
  PROVE  CopyInv(U, r, C, S, 0, Null, 0, IF U[r].kind = List THEN U[r].first ELSE Null)
<1> DEFINE E == [k \in Copier!CopyKeys |-> Vacant]
           f == [k \in 0 .. 0 |-> r]
<1>1. 0 \in Copier!CopyKeys
  <2>1. IsFiniteSet(Slots) /\ {r} \in SUBSET Slots
    BY NodesAssumption DEF Live
  <2>2. Cardinality({r}) <= Cardinality(Slots) /\ Cardinality({r}) = 1 /\ Cardinality(Slots) \in Nat
    BY <2>1, FS_Subset, FS_Singleton, FS_CardinalityType
  <2>3. Copier!Cardinality(Slots) = Cardinality(Slots)
    BY DEF Copier!Cardinality, Cardinality
  <2> QED BY <2>2, <2>3 DEF Copier!CopyKeys
<1>2. E \in Cp!Table /\ Cp!Live(E) = {} /\ \A k \in Copier!CopyKeys : E[k] = Vacant
  BY DEF Cp!Table, Cp!Live
<1> HIDE DEF E
<1>3. Cp!WellFormed(E)
  BY <1>2 DEF Cp!WellFormed, Cp!LinksOK, Cp!LinkLive, Cp!SiblingsAgree, Cp!EndsAgree,
       Cp!ChildLinked, Cp!NoSiblingCycle, Cp!NoParentCycle, Cp!CountOK
<1>4. U[r].kind \in Cp!Kinds
  BY TableCells DEF Cp!Kinds, Kinds, Node
<1>5. /\ C \in Cp!Table /\ Cp!Live(C) = {0} /\ Cp!WellFormed(C)
      /\ C[0] = Cp!NewNode(U[r].kind)
  <2>1. C = Cp!Allocate(E, 0, U[r].kind)
    BY DEF E
  <2> QED BY <1>1, <1>2, <1>3, <1>4, <2>1, CopyNodes, Cp!AllocKeeps
<1>6. /\ C[0].kind = U[r].kind /\ C[0].parent = Null /\ C[0].first = Null
      /\ C[0].last = Null /\ C[0].next = Null
  BY <1>5 DEF Cp!NewNode
<1>7. f[0] = r /\ 0 .. 1 - 1 = {0}
  OBVIOUS
<1> HIDE DEF f
<1>8. CopyMaps(U, r, C, f, 1)
  BY <1>5, <1>6, <1>7 DEF CopyMaps, CopyLinks
<1>9. CopyPending(U, C, f, 1, S, 0, Null, 0)
  BY <1>7 DEF CopyPending
<1>10. RootPending(U, C, f, S, 0, Null, U[r].first)
  BY <1>6, <1>7 DEF RootPending, Rest
<1> QED BY <1>8, <1>9, <1>10 DEF CopyInv

(***************************************************************************)
(* When nothing is pending the copy is whole: a well-formed tree with one  *)
(* root, and the text of what was copied.                                  *)
(***************************************************************************)
LEMMA CopyEnds ==
  ASSUME NEW U \in Table, WellFormed(U), NEW r, NEW C, NEW S, NEW cr,
         CopyInv(U, r, C, S, 0, Null, cr, Null)
  PROVE  /\ Cp!WellFormed(C)
         /\ {k \in Cp!Live(C) : C[k].parent = Null} = {0}
         /\ Cp!Text(C, 0) = Text(U, r)
<1>1. PICK f, m : /\ CopyMaps(U, r, C, f, m)
                  /\ CopyPending(U, C, f, m, S, 0, Null, cr)
                  /\ IF U[r].kind = List THEN RootPending(U, C, f, S, 0, Null, Null) ELSE m = 1
  BY DEF CopyInv
<1>2. /\ m \in Nat /\ m # 0 /\ 0 \in 0 .. m - 1 /\ C \in Cp!Table /\ Cp!WellFormed(C)
      /\ Cp!Live(C) = 0 .. m - 1 /\ f[0] = r /\ C[0].parent = Null
      /\ \A k \in 0 .. m - 1 :
           /\ f[k] \in Live(U) /\ C[k].kind = U[f[k]].kind
           /\ k # 0 => C[k].parent \in 0 .. m - 1
           /\ C[k].first # Null => f[C[k].first] = U[f[k]].first
           /\ C[k].next # Null => f[C[k].next] = U[f[k]].next
  BY <1>1 DEF CopyMaps, CopyLinks
<1>3. /\ \A k \in 0 .. m - 1 :
           {C[k].parent, C[k].first, C[k].last, C[k].next} \subseteq (0 .. m - 1) \union {Null}
      /\ Null \notin 0 .. m - 1
      /\ Cp!SiblingsAgree(C) /\ Cp!EndsAgree(C) /\ Cp!ChildLinked(C)
  BY <1>1, CopyFacts
<1>4. {k \in Cp!Live(C) : C[k].parent = Null} = {0}
  BY <1>2, <1>3
<1>5. /\ \A k \in 0 .. m - 1 : k # 0 => Rest(U, C, f, k) = Null
      /\ U[r].kind = List => Rest(U, C, f, 0) = Null
  BY <1>1 DEF CopyPending, RootPending
<1>6. \A k \in 0 .. m - 1 :
        Rest(U, C, f, k) = Null /\ C[k].first = Null => U[f[k]].first = Null
  BY <1>2, <1>3 DEF Rest, Cp!EndsAgree
<1>7. ASSUME NEW k \in 0 .. m - 1, k # 0, C[k].next = Null, Rest(U, C, f, C[k].parent) = Null
      PROVE  U[f[k]].next = Null
  <2>1. C[k].parent \in 0 .. m - 1 /\ C[k].parent # Null
    BY <1>2, <1>3, <1>7
  <2>2. C[C[k].parent].last = k
    BY <1>2, <1>3, <1>7, <2>1 DEF Cp!ChildLinked
  <2> QED BY <1>3, <1>7, <2>2 DEF Rest
<1> DEFINE W == Texts(U)
           X == Cp!Texts(C)
<1>8. /\ W[Null] = <<>>
      /\ \A n \in Live(U) : W[n] = Written(U, n, W[U[n].first]) \o Joined(U, n, W[U[n].next])
  BY TextsUnfold DEF WellFormed
<1>9. /\ X[Null] = <<>>
      /\ \A k \in 0 .. m - 1 : X[k] = Written(C, k, X[C[k].first]) \o Joined(C, k, X[C[k].next])
  BY <1>2, CopyNodes, CopyTexts, Cp!TextsUnfold DEF Cp!WellFormed
<1> HIDE DEF W, X
<1>10. ASSUME m # 1 PROVE \A k \in 0 .. m - 1 : k # 0 => X[k] = W[f[k]]
  <2> DEFINE B == {k \in 0 .. m - 1 : k # 0 /\ X[k] # W[f[k]]}
  <2> SUFFICES ASSUME B # {} PROVE FALSE
    OBVIOUS
  <2>1. B \in SUBSET Cp!Live(C)
    BY <1>2
  <2>2. PICK k \in B : C[k].first \notin B /\ C[k].next \notin B
    BY <1>2, <2>1, CopyNodes, Cp!DescentEnds DEF Cp!WellFormed
  <2>3. k \in 0 .. m - 1 /\ k # 0 /\ X[k] # W[f[k]]
    BY <2>2
  <2>4. /\ C[k].parent # Null
        /\ C[k].first # Null => C[k].first # 0 /\ C[k].first \in 0 .. m - 1
        /\ C[k].next # Null => C[k].next # 0 /\ C[k].next \in 0 .. m - 1
    BY <1>2, <1>3, <2>3 DEF Cp!EndsAgree, Cp!SiblingsAgree
  <2>5. \A j \in 0 .. m - 1 : Rest(U, C, f, j) = Null
    BY <1>1, <1>5, <1>10
  <2>6. X[C[k].first] = W[U[f[k]].first]
    BY <1>2, <1>6, <1>8, <1>9, <2>2, <2>3, <2>4, <2>5
  <2>7. X[C[k].next] = W[U[f[k]].next] /\ (C[k].next = Null <=> U[f[k]].next = Null)
    <3>1. CASE C[k].next # Null
      <4>1. U[f[k]].next # Null
        BY <1>2, <2>3, <2>4, <3>1, NodesAssumption DEF Live
      <4> QED BY <1>2, <2>2, <2>3, <2>4, <3>1, <4>1
    <3>2. CASE C[k].next = Null
      <4>1. U[f[k]].next = Null
        BY <1>2, <1>7, <2>3, <2>5, <3>2
      <4> QED BY <1>8, <1>9, <3>2, <4>1
    <3> QED BY <3>1, <3>2
  <2>8. /\ \A x : Written(C, k, x) = Written(U, f[k], x)
        /\ \A x : Joined(C, k, x) = Joined(U, f[k], x)
    BY <1>2, <2>3, <2>7 DEF Written, Joined
  <2>9. /\ X[k] = Written(C, k, X[C[k].first]) \o Joined(C, k, X[C[k].next])
        /\ W[f[k]] = Written(U, f[k], W[U[f[k]].first]) \o Joined(U, f[k], W[U[f[k]].next])
    BY <1>2, <1>8, <1>9, <2>3
  <2> HIDE DEF B
  <2> QED BY <2>3, <2>6, <2>7, <2>8, <2>9, Zenon
<1>11. Written(C, 0, X[C[0].first]) = Written(U, r, W[U[r].first])
  <2>1. CASE U[r].kind = List
    <3>1. X[C[0].first] = W[U[r].first]
      <4>1. CASE C[0].first = Null
        BY <1>2, <1>5, <1>6, <1>8, <1>9, <2>1, <4>1
      <4>2. CASE C[0].first # Null
        <5>1. C[0].first \in 0 .. m - 1 /\ C[0].first # 0
          BY <1>2, <1>3, <4>2 DEF Cp!EndsAgree
        <5>2. m # 1
          BY <5>1
        <5> QED BY <1>2, <1>10, <4>2, <5>1, <5>2
      <4> QED BY <4>1, <4>2
    <3> QED BY <1>2, <2>1, <3>1 DEF Written
  <2>2. CASE U[r].kind # List
    BY <1>2, <2>2 DEF Written
  <2> QED BY <2>1, <2>2
<1>12. Cp!Text(C, 0) = Text(U, r)
  BY <1>11, CopyTexts DEF Cp!Text, Text, W, X
<1> QED BY <1>2, <1>4, <1>12

-----------------------------------------------------------------------------
(***************************************************************************)
(* What subtrees_equal has found of l and r: that they have the same text  *)
(* just when all that is left to compare has, or that they have not.       *)
(***************************************************************************)
EqualInv(N, l, r, s, c, d, e) ==
  IF e THEN SameSoFar(N, l, r, Elems(s), c, d)
       ELSE s = <<>> /\ c = Null /\ d = Null /\ Text(N, l) # Text(N, r)

(***************************************************************************)
(* What __repr__ and DepthFirstIter have brought out so far, with what     *)
(* their stacks hold, is what they are to bring out; what __eq__ has found *)
(* and what clone and extract have copied.                                 *)
(***************************************************************************)
WalkInv ==
  /\ op = "visit" => /\ arg \in Live(nodes) /\ out \in Seq(Live(nodes))
                     /\ VisitInv(nodes, arg, stack, cursor, out)
  /\ op = "repr"  => /\ arg \in Live(nodes) /\ out \in Seq(Tokens)
                     /\ WriteInv(nodes, arg, stack, cursor, out)
  /\ op = "equal" => /\ out \in BOOLEAN
                     /\ EqualInv(nodes, arg[1], arg[2], stack, cursor, current, out)
  /\ op \in {"clone", "extract"} =>
       CopyInv(nodes, arg, copy, stack, Len(stack), cursor, current, child)

(***************************************************************************)
(* What the lemmas of WalkProofs ask of the tree.                          *)
(***************************************************************************)
LEMMA TreeShape ==
  ASSUME TreeInv
  PROVE  nodes \in Table /\ LinksOK(nodes) /\ NoSiblingCycle(nodes) /\ NoParentCycle(nodes)
BY DEF TreeInv, TypeOK, WellFormed

(***************************************************************************)
(* A walk begins.                                                          *)
(***************************************************************************)
LEMMA WalkBegins ==
  ASSUME CallsInv, NEW n \in Live(nodes),
         Repr(n) \/ Visit(n) \/ \E m \in Live(nodes) : Equal(n, m)
  PROVE  WalkInv'
<1>1. TreeInv /\ nodes' = nodes
  BY DEF CallsInv, Repr, Visit, Equal, Idle, treeVars
<1>2. PICK N, s, c, o : N = nodes /\ s = stack' /\ c = cursor' /\ o = out'
  OBVIOUS
<1>3. N \in Table /\ LinksOK(N) /\ NoSiblingCycle(N) /\ NoParentCycle(N) /\ n \in Live(N)
  BY <1>1, <1>2, TreeShape
<1>4. CASE Repr(n)
  <2> DEFINE f == Writer!Frame(n, FALSE)
  <2>1. op' = "repr" /\ arg' = n /\ s = <<f>> /\ c = Null /\ o = <<>>
    BY <1>2, <1>4 DEF Repr, Writer!Begin
  <2>2. f \in FramesOver(N) /\ f.node = n /\ ~ f.space /\ ~ f.close
    BY <1>3 DEF FramesOver, Writer!Frame
  <2> HIDE DEF f
  <2>3. WriteInv(N, n, <<f>>, Null, <<>>)
    BY <1>3, <2>2, WriteBegins
  <2>4. WriteInv(N, n, s, c, o) /\ o \in Seq(Tokens)
    BY <2>1, <2>3
  <2> QED BY <1>1, <1>2, <2>1, <2>4 DEF WalkInv
<1>5. CASE Visit(n)
  <2>1. op' = "visit" /\ arg' = n /\ s = <<n>> /\ c = Null /\ o = <<>>
    BY <1>2, <1>5 DEF Visit, Visitor!Begin
  <2>2. VisitInv(N, n, s, c, o) /\ o \in Seq(Live(N))
    BY <1>3, <2>1, VisitBegins
  <2> QED BY <1>1, <1>2, <2>1, <2>2 DEF WalkInv
<1>6. ASSUME NEW m \in Live(nodes), Equal(n, m) PROVE WalkInv'
  <2> DEFINE z == <<n, m>>
  <2>1. /\ op' = "equal" /\ arg' = z /\ s = <<z>> /\ c = Null /\ o = TRUE
        /\ current' = Null /\ z[1] = n /\ z[2] = m
    BY <1>2, <1>6 DEF Equal, Compare!Begin
  <2>2. SameSoFar(N, n, m, {z}, Null, Null)
    BY <1>2, <1>3, SameBegins
  <2> HIDE DEF z
  <2>3. Elems(s) = {z}
    BY <2>1 DEF Elems
  <2>4. EqualInv(N, n, m, s, c, Null, o)
    BY <2>1, <2>2, <2>3 DEF EqualInv
  <2> QED BY <1>1, <1>2, <2>1, <2>4 DEF WalkInv
<1> QED BY <1>4, <1>5, <1>6

(***************************************************************************)
(* A step of DepthFirstIter.                                               *)
(***************************************************************************)
LEMMA VisitStepKeeps ==
  ASSUME CallsInv, WalkInv, op = "visit", WalkStep, UNCHANGED <<op, arg>>
  PROVE  WalkInv'
<1>1. /\ TreeInv /\ nodes' = nodes /\ Visitor!VisitStep
      /\ stack \in Seq(Live(nodes)) /\ cursor \in LiveOrNull
  BY DEF CallsInv, Reading, WalkStep, treeVars
<1>2. PICK N, n, s, c, o, s1, c1, o1 :
        /\ N = nodes /\ n = arg /\ s = stack /\ c = cursor /\ o = out
        /\ s1 = stack' /\ c1 = cursor' /\ o1 = out'
  OBVIOUS
<1>3. /\ N \in Table /\ LinksOK(N) /\ NoSiblingCycle(N) /\ NoParentCycle(N)
      /\ n \in Live(N) /\ s \in Seq(Live(N)) /\ o \in Seq(Live(N)) /\ VisitInv(N, n, s, c, o)
  BY <1>1, <1>2, TreeShape DEF WalkInv
<1>4. o1 \in Seq(Live(N)) /\ VisitInv(N, n, s1, c1, o1)
  <2>1. CASE Visitor!Yield
    <3>1. /\ c = Null /\ s # <<>> /\ o1 = Append(o, s[Len(s)])
          /\ c1 = N[s[Len(s)]].last /\ s1 = SubSeq(s, 1, Len(s) - 1)
      BY <1>2, <2>1 DEF Visitor!Yield
    <3>2. VisitInv(N, n, s, Null, o)
      BY <1>3, <3>1
    <3> QED BY <1>3, <3>1, <3>2, VisitYields
  <2>2. CASE Visitor!PushChild
    <3>1. c # Null /\ o1 = o /\ c1 = N[c].prev /\ s1 = Append(s, c)
      BY <1>2, <2>2 DEF Visitor!PushChild
    <3>2. c \in Live(N)
      BY <1>1, <1>2, <3>1 DEF LiveOrNull
    <3> QED BY <1>3, <3>1, <3>2, VisitPushes
  <2> QED BY <1>1, <2>1, <2>2 DEF Visitor!VisitStep
<1> QED BY <1>1, <1>2, <1>3, <1>4 DEF WalkInv

(***************************************************************************)
(* A step of write_node.                                                   *)
(***************************************************************************)
LEMMA WriteStepKeeps ==
  ASSUME CallsInv, WalkInv, op = "repr", WalkStep, UNCHANGED <<op, arg>>
  PROVE  WalkInv'
<1>1. /\ TreeInv /\ nodes' = nodes /\ Writer!WriteStep
      /\ stack \in Seq(Frames) /\ cursor \in LiveOrNull
  BY DEF CallsInv, Reading, WalkStep, treeVars
<1>2. PICK N, n, s, c, o, s1, c1, o1 :
        /\ N = nodes /\ n = arg /\ s = stack /\ c = cursor /\ o = out
        /\ s1 = stack' /\ c1 = cursor' /\ o1 = out'
  OBVIOUS
<1>3. /\ N \in Table /\ LinksOK(N) /\ NoSiblingCycle(N) /\ NoParentCycle(N)
      /\ n \in Live(N) /\ s \in Seq(FramesOver(N)) /\ o \in Seq(Tokens) /\ WriteInv(N, n, s, c, o)
  BY <1>1, <1>2, TreeShape DEF WalkInv, Frames, FramesOver
<1>4. o1 \in Seq(Tokens) /\ WriteInv(N, n, s1, c1, o1)
  <2>1. CASE Writer!PushChild
    <3> DEFINE f == Writer!Frame(c, N[c].prev # Null)
    <3>1. c # Null /\ o1 = o /\ c1 = N[c].prev /\ s1 = Append(s, f)
      BY <1>2, <2>1 DEF Writer!PushChild
    <3>2. c \in Live(N)
      BY <1>1, <1>2, <3>1 DEF LiveOrNull
    <3>3. f \in FramesOver(N) /\ f.node = c /\ f.space = (N[c].prev # Null) /\ ~ f.close
      BY <3>2 DEF FramesOver, Writer!Frame
    <3> HIDE DEF f
    <3> QED BY <1>3, <3>1, <3>2, <3>3, WritePushes
  <2>2. CASE Writer!WriteAtom
    <3>1. /\ c = Null /\ s # <<>> /\ ~ s[Len(s)].close /\ N[s[Len(s)].node].kind # List
          /\ o1 = o \o Gap(s[Len(s)].space) \o <<Word(N[s[Len(s)].node].kind)>>
          /\ c1 = Null /\ s1 = SubSeq(s, 1, Len(s) - 1)
      BY <1>2, <2>2 DEF Writer!WriteAtom, Writer!Pops, Writer!Top, Writer!Popped, Writer!After, Gap,
                        Writer!Mark, Mark, Writer!Word, Word
    <3>2. WriteInv(N, n, s, Null, o)
      BY <1>3, <3>1
    <3> QED BY <1>3, <3>1, <3>2, WritesAtom
  <2>3. CASE Writer!OpenBracket
    <3> DEFINE h == Writer!Close(s[Len(s)].node)
    <3>1. /\ c = Null /\ s # <<>> /\ ~ s[Len(s)].close /\ N[s[Len(s)].node].kind = List
          /\ o1 = o \o Gap(s[Len(s)].space) \o <<Mark("(")>>
          /\ c1 = N[s[Len(s)].node].last /\ s1 = Append(SubSeq(s, 1, Len(s) - 1), h)
      BY <1>2, <2>3 DEF Writer!OpenBracket, Writer!Pops, Writer!Top, Writer!Popped, Writer!After, Gap,
                        Writer!Mark, Mark
    <3>2. WriteInv(N, n, s, Null, o)
      BY <1>3, <3>1
    <3>3. s[Len(s)] \in FramesOver(N)
      BY <1>3, <3>1, <3>2, WritePops
    <3>4. h \in FramesOver(N) /\ h.close
      BY <3>3 DEF FramesOver, Writer!Close
    <3> HIDE DEF h
    <3> QED BY <1>3, <3>1, <3>2, <3>4, WritesOpen
  <2>4. CASE Writer!CloseBracket
    <3>1. /\ c = Null /\ s # <<>> /\ s[Len(s)].close /\ o1 = Append(o, Mark(")"))
          /\ c1 = Null /\ s1 = SubSeq(s, 1, Len(s) - 1)
      BY <1>2, <2>4 DEF Writer!CloseBracket, Writer!Pops, Writer!Top, Writer!Popped,
                        Writer!Mark, Mark
    <3>2. WriteInv(N, n, s, Null, o)
      BY <1>3, <3>1
    <3> QED BY <1>3, <3>1, <3>2, WritesClose
  <2> QED BY <1>1, <2>1, <2>2, <2>3, <2>4 DEF Writer!WriteStep
<1> QED BY <1>1, <1>2, <1>3, <1>4 DEF WalkInv

(***************************************************************************)
(* A step of subtrees_equal.                                               *)
(***************************************************************************)
LEMMA EqualStepKeeps ==
  ASSUME CallsInv, WalkInv, op = "equal", WalkStep, UNCHANGED <<op, arg>>
  PROVE  WalkInv'
<1>1. /\ TreeInv /\ nodes' = nodes /\ Compare!EqualStep
      /\ stack \in Seq(Live(nodes) \X Live(nodes))
      /\ cursor \in LiveOrNull /\ current \in LiveOrNull
  BY DEF CallsInv, Reading, WalkStep, treeVars
<1>2. PICK N, l, r, s, c, d, e, s1, c1, d1, e1 :
        /\ N = nodes /\ l = arg[1] /\ r = arg[2]
        /\ s = stack /\ c = cursor /\ d = current /\ e = out
        /\ s1 = stack' /\ c1 = cursor' /\ d1 = current' /\ e1 = out'
  OBVIOUS
<1>3. /\ N \in Table /\ LinksOK(N) /\ NoSiblingCycle(N) /\ NoParentCycle(N) /\ WellFormed(N)
      /\ s \in Seq(Live(N) \X Live(N)) /\ e \in BOOLEAN /\ EqualInv(N, l, r, s, c, d, e)
      /\ c \in Live(N) \union {Null} /\ d \in Live(N) \union {Null}
  BY <1>1, <1>2, TreeShape DEF WalkInv, TreeInv, LiveOrNull
<1> DEFINE p == s[Len(s)]
           q == SubSeq(s, 1, Len(s) - 1)
<1>4. ASSUME s # <<>>
      PROVE  /\ p[1] \in Live(N) /\ p[2] \in Live(N) /\ p = <<p[1], p[2]>>
             /\ e /\ SameSoFar(N, l, r, Elems(q) \union {p}, c, d)
  <2>1. p \in Live(N) \X Live(N) /\ Elems(s) = Elems(q) \union {p}
    BY <1>3, <1>4, PopsOne
  <2>2. e /\ SameSoFar(N, l, r, Elems(s), c, d)
    BY <1>3, <1>4 DEF EqualInv
  <2> HIDE DEF p, q
  <2> QED BY <2>1, <2>2
<1>5. e1 \in BOOLEAN /\ EqualInv(N, l, r, s1, c1, d1, e1)
  <2>1. CASE Compare!PushPair
    <3> DEFINE z == <<c, d>>
    <3>1. /\ c # Null /\ d # Null /\ e1 = e /\ s1 = Append(s, z)
          /\ c1 = N[c].next /\ d1 = N[d].next
      BY <1>2, <2>1 DEF Compare!PushPair, Compare!Pairing
    <3>2. c \in Live(N) /\ d \in Live(N) /\ z \in Live(N) \X Live(N)
      BY <1>3, <3>1
    <3>3. e /\ SameSoFar(N, l, r, Elems(s), c, d)
      BY <1>3, <3>1 DEF EqualInv
    <3>4. SameSoFar(N, l, r, Elems(s) \union {z}, N[c].next, N[d].next)
      BY <1>3, <3>2, <3>3, SamePushes
    <3> HIDE DEF z
    <3>5. Elems(Append(s, z)) = Elems(s) \union {z}
      BY <1>3, <3>2, Pushed
    <3> QED BY <1>3, <3>1, <3>3, <3>4, <3>5 DEF EqualInv
  <2>2. CASE Compare!SameAtoms \/ Compare!SameLists \/ Compare!Differ
    <3>1. (c = Null \/ d = Null) /\ s # <<>>
      BY <1>2, <2>2 DEF Compare!SameAtoms, Compare!SameLists, Compare!Differ,
                        Compare!Pops, Compare!Pairing
    <3>2. c = Null /\ d = Null
      BY <1>3, <1>4, <3>1, SameEnds
    <3>3. PICK a, b : a = p[1] /\ b = p[2]
      OBVIOUS
    <3>4. a \in Live(N) /\ b \in Live(N) /\ e
          /\ SameSoFar(N, l, r, Elems(q) \union {<<a, b>>}, Null, Null)
      <4> HIDE DEF p, q
      <4> QED BY <1>4, <3>1, <3>2, <3>3
    <3>5. CASE Compare!SameAtoms
      <4>1. /\ s1 = q /\ c1 = c /\ d1 = d /\ e1 = e
            /\ N[a].kind # List /\ N[a].kind = N[b].kind
        BY <1>2, <3>3, <3>5 DEF Compare!SameAtoms, Compare!Pops, Compare!L, Compare!R
      <4> HIDE DEF q
      <4>2. SameSoFar(N, l, r, Elems(q), Null, Null)
        BY <1>3, <3>4, <4>1, SamePops
      <4> QED BY <3>2, <3>4, <4>1, <4>2 DEF EqualInv
    <3>6. CASE Compare!SameLists
      <4>1. /\ s1 = q /\ c1 = N[a].first /\ d1 = N[b].first /\ e1 = e
            /\ N[a].kind = List /\ N[b].kind = List /\ N[a].count = N[b].count
        BY <1>2, <3>3, <3>6 DEF Compare!SameLists, Compare!Pops, Compare!L, Compare!R
      <4> HIDE DEF q
      <4>2. SameSoFar(N, l, r, Elems(q), N[a].first, N[b].first)
        BY <1>3, <3>4, <4>1, SamePops
      <4> QED BY <3>4, <4>1, <4>2 DEF EqualInv
    <3>7. CASE Compare!Differ
      <4>1. /\ s1 = <<>> /\ c1 = Null /\ d1 = Null /\ e1 = FALSE
            /\ \/ N[a].kind # N[b].kind
               \/ N[a].kind = List /\ N[b].kind = N[a].kind /\ N[a].count # N[b].count
        BY <1>2, <3>3, <3>7 DEF Compare!Differ, Compare!L, Compare!R
      <4> HIDE DEF q
      <4>2. \/ N[a].kind # N[b].kind
            \/ N[a].kind = List /\ N[b].kind = List /\ N[a].count # N[b].count
        BY <4>1
      <4>3. Text(N, a) # Text(N, b)
        BY <1>3, <3>4, <4>2, TextsDiffer
      <4>4. Text(N, l) = Text(N, r) => Text(N, a) = Text(N, b)
        <5> DEFINE z == <<a, b>>
        <5>1. z[1] = a /\ z[2] = b
          OBVIOUS
        <5>2. SameSoFar(N, l, r, Elems(q) \union {z}, Null, Null)
          BY <3>4
        <5> HIDE DEF z
        <5> QED BY <5>1, <5>2 DEF SameSoFar
      <4> QED BY <4>1, <4>3, <4>4 DEF EqualInv
    <3> QED BY <2>2, <3>5, <3>6, <3>7
  <2> QED BY <1>1, <2>1, <2>2 DEF Compare!EqualStep
<1> QED BY <1>1, <1>2, <1>3, <1>5 DEF WalkInv

(***************************************************************************)
(* clone and extract begin with the copy of the node itself.               *)
(***************************************************************************)
LEMMA CopyCallBegins ==
  ASSUME CallsInv, NEW n \in Live(nodes), Clone(n) \/ StartExtract(n)
  PROVE  WalkInv'
<1>1. /\ TreeInv /\ nodes' = nodes /\ op' \in {"clone", "extract"} /\ arg' = n
      /\ Copier!Begin(n)
  BY DEF CallsInv, Clone, StartExtract, Idle, treeVars
<1>2. PICK U, C : U = nodes /\ C = copy'
  OBVIOUS
<1>3. /\ C = Cp!Allocate([k \in Copier!CopyKeys |-> Vacant], 0, U[n].kind)
      /\ child' = IF U[n].kind = List THEN U[n].first ELSE Null
      /\ stack' = <<>> /\ cursor' = Null /\ current' = 0
  BY <1>1, <1>2, CopyTables DEF Copier!Begin, Copier!CopyRoot
<1>4. U \in Table /\ WellFormed(U) /\ n \in Live(U)
  BY <1>1, <1>2 DEF TreeInv, TypeOK
<1>5. CopyInv(U, n, C, <<>>, 0, Null, 0, IF U[n].kind = List THEN U[n].first ELSE Null)
  BY <1>3, <1>4, CopyBegins
<1>6. Len(stack') = 0
  BY <1>3
<1>7. CopyInv(nodes, arg, copy, stack, Len(stack), cursor, current, child)'
  BY <1>1, <1>2, <1>3, <1>5, <1>6
<1> QED BY <1>1, <1>7 DEF WalkInv

(***************************************************************************)
(* A step of clone_subtree.                                                *)
(***************************************************************************)
LEMMA CopyStepKeeps ==
  ASSUME CallsInv, WalkInv, op \in {"clone", "extract"}, WalkStep, UNCHANGED <<op, arg>>
  PROVE  WalkInv'
<1>1. /\ TreeInv /\ nodes' = nodes /\ Copier!CopyStep
      /\ \E K : stack \in Seq(Live(nodes) \X K)
      /\ CopyInv(nodes, arg, copy, stack, Len(stack), cursor, current, child)
  BY DEF CallsInv, Reading, WalkStep, WalkInv, treeVars
<1>2. PICK U, r, C, S, n, c, cr, ch :
        /\ U = nodes /\ r = arg /\ C = copy /\ S = stack /\ n = Len(stack)
        /\ c = cursor /\ cr = current /\ ch = child
  OBVIOUS
<1>3. PICK C2, S2, n2, c2, cr2, ch2 :
        /\ C2 = copy' /\ S2 = stack' /\ n2 = Len(stack')
        /\ c2 = cursor' /\ cr2 = current' /\ ch2 = child'
  OBVIOUS
<1>4. PICK K : S \in Seq(Live(U) \X K)
  BY <1>1, <1>2
<1>5. U \in Table /\ WellFormed(U) /\ n = Len(S) /\ n \in Nat /\ (n = 0 <=> S = <<>>)
  BY <1>1, <1>2, <1>4, LenProperties, EmptySeq DEF TreeInv, TypeOK
<1>6. PICK f, m :
        /\ CopyMaps(U, r, C, f, m)
        /\ CopyPending(U, C, f, m, S, n, c, cr)
        /\ IF U[r].kind = List THEN RootPending(U, C, f, S, n, c, ch)
                               ELSE m = 1 /\ n = 0 /\ c = Null /\ ch = Null
  BY <1>1, <1>2 DEF CopyInv
<1>7. CopyInv(U, r, C2, S2, n2, c2, cr2, ch2)
  <2>1. CASE Copier!NextChild
    <3>1. /\ c = Null /\ n = 0 /\ ch # Null /\ S2 = << <<ch, 0>> >> /\ ch2 = U[ch].next
          /\ c2 = c /\ cr2 = cr /\ C2 = C
      BY <1>2, <1>3, <1>5, <2>1 DEF Copier!NextChild, Copier!CopyRoot
    <3>2. n2 = 1 /\ S2[1] = <<ch, 0>>
      BY <1>3, <3>1
    <3>3. U[r].kind = List /\ RootPending(U, C, f, S, n, c, ch)
      BY <1>6, <3>1
    <3>4. CopyPending(U, C, f, m, S2, 1, Null, cr) /\ RootPending(U, C, f, S2, 1, Null, U[ch].next)
      BY <1>5, <1>6, <3>1, <3>2, <3>3, CopyTurns
    <3> QED BY <1>6, <3>1, <3>2, <3>3, <3>4 DEF CopyInv
  <2>2. CASE Copier!CopyNode
    <3> DEFINE s == S[n][1]
               d == S[n][2]
               g == [k \in 0 .. m |-> IF k = m THEN s ELSE f[k]]
    <3>1. /\ c = Null /\ n # 0 /\ S # <<>> /\ S2 = SubSeq(S, 1, n - 1) /\ ch2 = ch /\ c2 = U[s].last
          /\ cr2 = Copier!NextKey
          /\ C2 = Cp!LinkLast(Cp!Allocate(C, Copier!NextKey, U[s].kind), d, Copier!NextKey)
      BY <1>2, <1>3, <1>5, <2>2, CopyTables DEF Copier!CopyNode
    <3>2. Copier!NextKey = m
      <4>1. Cp!Live(C) = 0 .. m - 1 /\ m \in Nat
        BY <1>6 DEF CopyMaps
      <4>2. Copier!D!Live(copy) = 0 .. m - 1
        BY <1>2, <4>1, CopyTables
      <4>3. Copier!NextKey = Cardinality(0 .. m - 1)
        BY <4>2 DEF Copier!NextKey, Copier!Cardinality, Cardinality
      <4> QED BY <4>1, <4>3, FS_Interval
    <3>3. n2 = n - 1 /\ \A i \in 1 .. n - 1 : S2[i] = S[i]
      <4> DEFINE V == Live(U) \X K
      <4>1. S \in Seq(V)
        BY <1>4
      <4> HIDE DEF V
      <4>2. S # <<>> /\ S2 = SubSeq(S, 1, Len(S) - 1)
        BY <1>5, <3>1
      <4>3. Len(S2) = Len(S) - 1 /\ \A i \in 1 .. Len(S) - 1 : S2[i] = S[i]
        BY <4>1, <4>2, PopsOne
      <4> QED BY <1>3, <1>5, <4>3
    <3>4. s = Rest(U, C, f, d)
      <4>1. n \in 1 .. n /\ PairPending(U, C, f, S, n, c, cr, n)
        BY <1>5, <1>6, <3>1 DEF CopyPending
      <4> QED BY <3>1, <4>1 DEF PairPending
    <3>5. CopyGrown(U, C, f, m, S[n][2], C2, g)
      BY <3>1, <3>2, <3>4 DEF CopyGrown
    <3> HIDE DEF g, s, d
    <3>6. /\ CopyMaps(U, r, C2, g, m + 1)
          /\ CopyPending(U, C2, g, m + 1, S2, n - 1, U[S[n][1]].last, m)
          /\ \A x : RootPending(U, C, f, S, n, Null, x) =>
                   RootPending(U, C2, g, S2, n - 1, U[S[n][1]].last, x)
      BY <1>5, <1>6, <3>1, <3>3, <3>5, CopyPops
    <3>7. U[r].kind = List /\ RootPending(U, C2, g, S2, n2, c2, ch2)
      BY <1>6, <3>1, <3>3, <3>6 DEF s
    <3>8. CopyPending(U, C2, g, m + 1, S2, n2, c2, cr2)
      BY <3>1, <3>2, <3>3, <3>6 DEF s
    <3> QED BY <3>6, <3>7, <3>8 DEF CopyInv
  <2>3. CASE Copier!PushChild
    <3>1. /\ c # Null /\ S2 = Append(S, <<c, cr>>) /\ c2 = U[c].prev
          /\ cr2 = cr /\ ch2 = ch /\ C2 = C
      BY <1>2, <1>3, <2>3 DEF Copier!PushChild
    <3>2. n2 = n + 1 /\ S2[n + 1] = <<c, cr>> /\ \A i \in 1 .. n : S2[i] = S[i]
      <4> DEFINE V == (Live(U) \X K) \union {<<c, cr>>}
                 x == <<c, cr>>
      <4>1. S \in Seq(V) /\ x \in V
        <5>1. Live(U) \X K \subseteq V /\ x \in V
          OBVIOUS
        <5> HIDE DEF V, x
        <5> QED BY <1>4, <5>1, SeqWidens
      <4> HIDE DEF V, x
      <4>2. S2 = Append(S, x)
        BY <3>1 DEF x
      <4>3. n2 = n + 1 /\ S2[n + 1] = x /\ \A i \in 1 .. n : S2[i] = S[i]
        BY <1>3, <1>5, <4>1, <4>2, AppendProperties
      <4> QED BY <4>3 DEF x
    <3>3. U[r].kind = List /\ RootPending(U, C, f, S, n, c, ch)
      BY <1>6, <3>1
    <3>4. /\ CopyPending(U, C, f, m, S2, n + 1, U[c].prev, cr)
          /\ RootPending(U, C, f, S2, n + 1, U[c].prev, ch)
      BY <1>5, <1>6, <3>1, <3>2, <3>3, CopyPushes, ZenonT(30)
    <3> QED BY <1>6, <3>1, <3>2, <3>3, <3>4 DEF CopyInv
  <2> QED BY <1>1, <2>1, <2>2, <2>3 DEF Copier!CopyStep
<1>8. CopyInv(nodes, arg, copy, stack, Len(stack), cursor, current, child)'
  BY <1>1, <1>2, <1>3, <1>7
<1> QED BY <1>8 DEF WalkInv

(***************************************************************************)
(* Every step keeps it.                                                    *)
(***************************************************************************)
LEMMA NextWalkInv == CallsInv /\ WalkInv /\ [CallsNext]_callVars => WalkInv'
<1> SUFFICES ASSUME CallsInv, WalkInv, [CallsNext]_callVars PROVE WalkInv'
  OBVIOUS
<1>1. CASE Between
  BY <1>1 DEF Between, Idle, WalkInv
<1>2. ASSUME NEW n \in Live(nodes),
             \/ Repr(n) \/ Visit(n) \/ Clone(n) \/ StartRemove(n) \/ StartExtract(n)
             \/ \E m \in Live(nodes) : Equal(n, m)
      PROVE  WalkInv'
  <2>1. CASE Repr(n) \/ Visit(n) \/ \E m \in Live(nodes) : Equal(n, m)
    BY <2>1, WalkBegins
  <2>2. CASE Clone(n) \/ StartExtract(n)
    BY <2>2, CopyCallBegins
  <2>3. CASE StartRemove(n)
    BY <2>3 DEF StartRemove, DetachToDrop, WalkInv
  <2> QED BY <1>2, <2>1, <2>2, <2>3
<1>3. CASE WalkStep /\ UNCHANGED <<op, arg, before>>
  BY <1>3, VisitStepKeeps, WriteStepKeeps, EqualStepKeeps, CopyStepKeeps DEF WalkInv, WalkStep
<1>4. CASE ExtractCopied \/ Dropped \/ Walked
  <2>1. op' \notin {"visit", "repr", "equal", "clone", "extract"}
    BY <1>4 DEF ExtractCopied, DetachToDrop, Dropped, Walked, Return
  <2> QED BY <2>1 DEF WalkInv
<1>5. CASE UNCHANGED callVars
  BY <1>5 DEF callVars, walkVars, treeVars, WalkInv
<1> QED BY <1>1, <1>2, <1>3, <1>4, <1>5 DEF CallsNext

(***************************************************************************)
(* What is kept of the walks holds of every reachable state.               *)
(***************************************************************************)
LEMMA WalksKeep == CallsSpec => [](CallsInv /\ WalkInv)
<1>1. CallsInit => WalkInv
  BY DEF CallsInit, WalkInv
<1> QED BY <1>1, NextWalkInv, CallsInvariance, PTL DEF CallsSpec

(***************************************************************************)
(* DepthFirstIter yields every node of the subtree once, a parent before   *)
(* its children and they in their order, on every tree that can be built.  *)
(***************************************************************************)
THEOREM VisitsAll == CallsSpec => []VisitsInOrder
<1>1. WalkInv => VisitsInOrder
  <2> SUFFICES ASSUME WalkInv, op = "visit", Visitor!Done PROVE out = Preorder(nodes, arg)
    BY DEF VisitsInOrder
  <2>1. out \in Seq(Live(nodes)) /\ VisitInv(nodes, arg, <<>>, Null, out)
    BY DEF WalkInv, Visitor!Done
  <2> QED BY <2>1, VisitEnds
<1> QED BY <1>1, WalksKeep, PTL

(***************************************************************************)
(* write_node writes the text that the subtree is to have, every bracket   *)
(* closed and a space between siblings only, on every tree that can be     *)
(* built.                                                                  *)
(***************************************************************************)
THEOREM TextWritten == CallsSpec => []WritesText
<1>1. WalkInv => WritesText
  <2> SUFFICES ASSUME WalkInv, op = "repr", Writer!Done PROVE out = Text(nodes, arg)
    BY DEF WritesText
  <2>1. out \in Seq(Tokens) /\ WriteInv(nodes, arg, <<>>, Null, out)
    BY DEF WalkInv, Writer!Done
  <2> QED BY <2>1, WriteEnds
<1> QED BY <1>1, WalksKeep, PTL

(***************************************************************************)
(* subtrees_equal finds two nodes equal just when they have the same text, *)
(* whatever the trees that can be built.                                   *)
(***************************************************************************)
THEOREM EqualExact == CallsSpec => []EqualMeansSame
<1>1. CallsInv /\ WalkInv => EqualMeansSame
  <2> SUFFICES ASSUME CallsInv, WalkInv, op = "equal", Compare!Done
               PROVE  out <=> Text(nodes, arg[1]) = Text(nodes, arg[2])
    BY DEF EqualMeansSame
  <2>1. PICK N, l, r : N = nodes /\ l = arg[1] /\ r = arg[2]
    OBVIOUS
  <2>2. /\ N \in Table /\ LinksOK(N) /\ NoSiblingCycle(N) /\ NoParentCycle(N)
        /\ cursor \in Live(N) \union {Null} /\ current \in Live(N) \union {Null}
        /\ stack = <<>> /\ Elems(stack) = {} /\ (cursor = Null \/ current = Null)
        /\ out \in BOOLEAN /\ EqualInv(N, l, r, stack, cursor, current, out)
    BY <2>1, TreeShape, StackElems
       DEF CallsInv, WalkInv, Reading, LiveOrNull, Compare!Done, Compare!Pairing
  <2>3. CASE out
    <3>1. SameSoFar(N, l, r, {}, cursor, current)
      BY <2>2, <2>3 DEF EqualInv
    <3>2. cursor = Null /\ current = Null
      BY <2>2, <3>1, SameEnds
    <3> QED BY <2>1, <2>3, <3>1, <3>2 DEF SameSoFar
  <2>4. CASE ~ out
    BY <2>1, <2>2, <2>4 DEF EqualInv
  <2> QED BY <2>3, <2>4
<1> QED BY <1>1, WalksKeep, PTL

-----------------------------------------------------------------------------
(***************************************************************************)
(* The indices from -len to len - 1 find the children in their order and   *)
(* the next on either side none, on every tree that can be built, so that  *)
(* the expect behind an index never fails; membership by handle is being a *)
(* child.                                                                  *)
(***************************************************************************)
THEOREM IndexExact == CallsSpec => []IndexFinds
<1>1. CallsInv => IndexFinds
  <2> SUFFICES ASSUME CallsInv, Idle, NEW n \in Live(nodes)
               PROVE  LET len   == nodes[n].count
                          item(i) == GetItem(nodes, n, i)
                      IN  /\ {item(i) : i \in 0 .. len - 1} = Children(nodes, n)
                          /\ \A i \in 1 .. len - 1 : nodes[item(i)].prev = item(i - 1)
                          /\ \A i \in 1 .. len : item(- i) = item(len - i)
                          /\ item(len) = Vacant /\ item(- len - 1) = Vacant
                          /\ \A m \in Live(nodes) :
                               ContainsNode(nodes, n, m) <=> nodes[m].parent = n
    BY DEF IndexFinds
  <2> DEFINE s == Yielded(nodes, n)
             len == nodes[n].count
             item(i) == GetItem(nodes, n, i)
  <2>1. nodes \in Table /\ WellFormed(nodes) /\ LinksOK(nodes) /\ NoSiblingCycle(nodes)
    BY DEF CallsInv, Idle, TreeInv, TypeOK, WellFormed
  <2>2. YieldsChildren(nodes, n, s)
    BY <2>1, YieldedChildren
  <2>3. /\ len = Len(s) /\ len \in Nat
        /\ \A i \in 0 .. len - 1 : item(i) = s[i + 1]
        /\ \A i \in 1 .. len : item(- i) = item(len - i)
    BY <2>1, ItemFound
  <2>11. item(len) = Vacant /\ item(- len - 1) = Vacant
    <3> HIDE DEF s
    <3>1. \A i : item(i) = LET real == IF i < 0 THEN len + i ELSE i
                          IN  IF real < 0 \/ real >= len THEN Vacant ELSE Nth(nodes, n, real)
      BY DEF GetItem
    <3> HIDE DEF len, item
    <3>2. /\ ~ (len < 0) /\ len >= len
          /\ - len - 1 < 0 /\ len + (- len - 1) < 0
      BY <2>3
    <3> QED BY <3>1, <3>2
  <2>4. DOMAIN s = 1 .. len
    BY <2>2, <2>3, LenProperties DEF YieldsChildren
  <2>5. {s[i] : i \in 1 .. len} = Children(nodes, n)
    BY <2>2, <2>3 DEF YieldsChildren
  <2>6. \A i \in 2 .. len : nodes[s[i]].prev = s[i - 1]
    BY <2>2, <2>3 DEF YieldsChildren
  <2>7. \A m \in Live(nodes) : ContainsNode(nodes, n, m) <=> nodes[m].parent = n
    <3> HIDE DEF len
    <3>1. \A m : ContainsNode(nodes, n, m) <=> \E i \in 1 .. len : s[i] = m
      BY <2>4 DEF ContainsNode
    <3> HIDE DEF s
    <3> QED BY <2>5, <3>1 DEF Children
  <2> HIDE DEF s, len, item
  <2>8. \A i \in 1 .. len : i - 1 \in 0 .. len - 1 /\ item(i - 1) = s[i]
    BY <2>3
  <2>9. {item(i) : i \in 0 .. len - 1} = Children(nodes, n)
    <3>1. ASSUME NEW i \in 0 .. len - 1 PROVE item(i) \in {s[j] : j \in 1 .. len}
      <4>1. i + 1 \in 1 .. len
        BY <2>3
      <4> QED BY <2>3, <4>1
    <3>2. ASSUME NEW j \in 1 .. len PROVE s[j] \in {item(i) : i \in 0 .. len - 1}
      BY <2>8
    <3> QED BY <2>5, <3>1, <3>2
  <2>10. ASSUME NEW i \in 1 .. len - 1 PROVE nodes[item(i)].prev = item(i - 1)
    <3>1. i + 1 \in 2 .. len /\ i \in 0 .. len - 1 /\ i - 1 \in 0 .. len - 1
          /\ i + 1 - 1 = i /\ i - 1 + 1 = i
      BY <2>3
    <3>2. item(i) = s[i + 1] /\ item(i - 1) = s[i] /\ nodes[s[i + 1]].prev = s[i]
      BY <2>3, <2>6, <3>1
    <3> QED BY <3>2
  <2> QED BY <2>3, <2>7, <2>9, <2>10, <2>11 DEF len, item
<1> QED BY <1>1, CallsInvariance, PTL

(***************************************************************************)
(* Indexing by a name finds the first child that has that name as its text *)
(* or as the head of a list, and fails only when there is none, on every   *)
(* tree that can be built and at every node without a broken atom below.   *)
(***************************************************************************)
THEOREM NameExact == CallsSpec => []NameFinds
<1>1. CallsInv => NameFinds
  <2> SUFFICES ASSUME CallsInv, Idle, NEW n \in Live(nodes), NEW v \in Values,
                      \A c \in Children(nodes, n) : nodes[c].kind # List => nodes[c].first = Null
               PROVE  LET f == FindName(nodes, n, v)
                      IN  IF f = Null THEN \A c \in Children(nodes, n) : ~ Named(c, v)
                          ELSE /\ f \in Children(nodes, n) /\ Named(f, v)
                               /\ \A i \in 0 .. nodes[n].count - 1 :
                                    Named(GetItem(nodes, n, i), v) =>
                                      \E j \in 0 .. i : GetItem(nodes, n, j) = f
    BY DEF NameFinds
  <2> DEFINE s == Yielded(nodes, n)
             f == FindName(nodes, n, v)
             len == nodes[n].count
             item(i) == GetItem(nodes, n, i)
             K == Children(nodes, n)
  <2>1. /\ nodes \in Table /\ WellFormed(nodes)
        /\ LinksOK(nodes) /\ NoSiblingCycle(nodes) /\ NoParentCycle(nodes)
    BY DEF CallsInv, Idle, TreeInv, TypeOK, WellFormed
  <2>2. \A c \in K : Named(c, v) <=> HasName(nodes, c, v)
    BY <2>1, NameInText DEF Named, Children
  <2>3. YieldsChildren(nodes, n, s) /\ FindsFirst(nodes, n, v, f)
    BY <2>1, YieldedChildren, NameFound
  <2>4. len = Len(s) /\ len \in Nat /\ \A i \in 0 .. len - 1 : item(i) = s[i + 1]
    BY <2>1, ItemFound
  <2>5. DOMAIN s = 1 .. len /\ {s[i] : i \in 1 .. len} = K
    BY <2>3, <2>4, LenProperties DEF YieldsChildren
  <2>6. IF f = Null THEN \A i \in 1 .. len : ~ HasName(nodes, s[i], v)
        ELSE \E k \in 1 .. len : /\ f = s[k] /\ HasName(nodes, f, v)
                                 /\ \A i \in 1 .. len : HasName(nodes, s[i], v) => k <= i
    BY <2>3, <2>5 DEF FindsFirst
  <2> HIDE DEF s, f, len, item, K
  <2>7. CASE f = Null
    <3>1. \A c \in K : ~ Named(c, v)
      BY <2>2, <2>5, <2>6, <2>7
    <3> QED BY <2>7, <3>1 DEF f, K
  <2>8. CASE f # Null
    <3>1. PICK k \in 1 .. len : /\ f = s[k] /\ HasName(nodes, f, v)
                                /\ \A i \in 1 .. len : HasName(nodes, s[i], v) => k <= i
      BY <2>6, <2>8
    <3>2. f \in K /\ Named(f, v)
      BY <2>2, <2>5, <3>1
    <3>3. ASSUME NEW i \in 0 .. len - 1, Named(item(i), v)
          PROVE  \E j \in 0 .. i : item(j) = f
      <4>1. i + 1 \in 1 .. len /\ item(i) = s[i + 1]
        BY <2>4
      <4>2. HasName(nodes, s[i + 1], v)
        BY <2>2, <2>5, <3>3, <4>1
      <4>3. k <= i + 1 /\ k - 1 \in 0 .. i /\ k - 1 \in 0 .. len - 1 /\ k - 1 + 1 = k
        BY <2>4, <3>1, <4>1, <4>2
      <4>4. item(k - 1) = f
        BY <2>4, <3>1, <4>3
      <4> QED BY <4>3, <4>4
    <3> QED BY <2>8, <3>2, <3>3 DEF f, K, len, item
  <2> QED BY <2>7, <2>8
<1> QED BY <1>1, CallsInvariance, PTL


(***************************************************************************)
(* What clone and extract copy is a well-formed tree with one root, and    *)
(* its text is that of what they were asked to copy, on every tree that    *)
(* can be built.                                                           *)
(***************************************************************************)
THEOREM CopyExact == CallsSpec => []CopyFaithful
<1>1. CallsInv /\ WalkInv => CopyFaithful
  <2> SUFFICES ASSUME CallsInv, WalkInv, op \in {"clone", "extract"}, Copier!Done
               PROVE  /\ Copier!D!WellFormed(copy)
                      /\ {k \in Copier!D!Live(copy) : copy[k].parent = Null} = {Copier!CopyRoot}
                      /\ CopyRef!Text(copy, Copier!CopyRoot) = Text(nodes, arg)
    BY DEF CopyFaithful
  <2>1. PICK U, r, C, S, cr : U = nodes /\ r = arg /\ C = copy /\ S = stack /\ cr = current
    OBVIOUS
  <2>2. U \in Table /\ WellFormed(U)
    BY <2>1 DEF CallsInv, TreeInv, TypeOK
  <2>3. CopyInv(U, r, C, S, 0, Null, cr, Null)
    BY <2>1 DEF WalkInv, Copier!Done
  <2>4. /\ Cp!WellFormed(C)
        /\ {k \in Cp!Live(C) : C[k].parent = Null} = {0}
        /\ Cp!Text(C, 0) = Text(U, r)
    BY <2>2, <2>3, CopyEnds
  <2> QED BY <2>1, <2>4, CopyTables, CopyTexts DEF Copier!CopyRoot
<1> QED BY <1>1, WalksKeep, PTL
=============================================================================

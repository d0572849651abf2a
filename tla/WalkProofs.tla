----------------------------- MODULE WalkProofs -----------------------------
(***************************************************************************)
(* What is defined by recursion over the links of a table exists and is    *)
(* what its equation says, because the links lead down and on without end  *)
(* in no well-formed table.                                                *)
(***************************************************************************)
EXTENDS Text, Queries, NodesProofs, SequenceTheorems

(***************************************************************************)
(* If f leads out of a finite set then something in the set is not reached *)
(* by f from within.                                                       *)
(***************************************************************************)
LEMMA SomeUnreached ==
  ASSUME NEW S, IsFiniteSet(S), NEW f, NEW n \in S, f[n] \notin S
  PROVE  \E m \in S : \A k \in S : f[k] # m
<1> SUFFICES ASSUME \A m \in S : \E k \in S : f[k] = m
             PROVE  FALSE
  OBVIOUS
<1> DEFINE T == {k \in S : f[k] \in S}
           g == [k \in T |-> f[k]]
<1>1. T \in SUBSET S /\ n \notin T
  OBVIOUS
<1>2. g \in Surjection(T, S)
  <2>1. g \in [T -> S]
    OBVIOUS
  <2>2. \A m \in S : \E k \in T : g[k] = m
    OBVIOUS
  <2> QED BY <2>1, <2>2 DEF Surjection
<1>3. IsFiniteSet(T) /\ Cardinality(T) <= Cardinality(S) /\ (Cardinality(S) = Cardinality(T) => S = T)
  BY <1>1, FS_Subset
<1> HIDE DEF g, T
<1>4. Cardinality(S) <= Cardinality(T)
  BY <1>2, <1>3, FS_Surjection
<1>5. Cardinality(S) \in Nat /\ Cardinality(T) \in Nat
  BY <1>3, FS_CardinalityType
<1>6. S = T
  BY <1>3, <1>4, <1>5
<1> QED BY <1>1, <1>6

(***************************************************************************)
(* The equations c[Nil] = z and c[n] = g[n][c[a[n]]][c[b[n]]], for n in D, *)
(* over links a and b that lead nowhere without end and values in V.       *)
(***************************************************************************)
WellPosed(D, Nil, a, b, V, z, g) ==
  /\ IsFiniteSet(D) /\ Nil \notin D
  /\ \A n \in D : a[n] \in D \union {Nil} /\ b[n] \in D \union {Nil}
  /\ \A S \in SUBSET D : S # {} => \E n \in S : a[n] \notin S /\ b[n] \notin S
  /\ z \in V /\ \A n \in D, x \in V, y \in V : g[n][x][y] \in V

Solution(D, Nil, a, b, V, z, g, c) ==
  /\ c \in [D \union {Nil} -> V]
  /\ c[Nil] = z /\ \A n \in D : c[n] = g[n][c[a[n]]][c[b[n]]]

(***************************************************************************)
(* Such equations have a solution: one for the largest part of D closed    *)
(* under the links could be extended by a node whose links lead into it.   *)
(***************************************************************************)
LEMMA LinkRecursion ==
  ASSUME NEW D, NEW Nil, NEW a, NEW b, NEW V, NEW z, NEW g,
         WellPosed(D, Nil, a, b, V, z, g)
  PROVE  \E c : Solution(D, Nil, a, b, V, z, g, c)
<1> USE DEF WellPosed, Solution
<1> DEFINE Closed(T) == \A n \in T : a[n] \in T \union {Nil} /\ b[n] \in T \union {Nil}
           Solves(c, T) == /\ c \in [T \union {Nil} -> V]
                           /\ c[Nil] = z /\ \A n \in T : c[n] = g[n][c[a[n]]][c[b[n]]]
           Missing == {M \in SUBSET D : Closed(D \ M) /\ \E c : Solves(c, D \ M)}
<1>1. D \in Missing
  <2>1. D \ D = {} /\ Closed({})
    OBVIOUS
  <2>2. Solves([x \in {Nil} |-> z], {})
    OBVIOUS
  <2> QED BY <2>1, <2>2
<1>2. PICK M \in Missing : \A L \in Missing : ~ (L \subseteq M /\ L # M)
  <2>1. Missing \subseteq FiniteSubsetsOf(D)
    BY FS_FiniteSubsetsOfFinite
  <2> HIDE DEF Missing
  <2>2. PICK M \in Missing : \A L \in Missing : ~ (<<L, M>> \in StrictSubsetOrdering(D))
    BY <1>1, <2>1, FS_StrictSubsetOrderingWellFounded, WFMin
  <2>3. \A L \in Missing : L \in SUBSET D
    BY DEF Missing
  <2>4. ASSUME NEW L \in Missing, L \subseteq M, L # M
        PROVE  <<L, M>> \in StrictSubsetOrdering(D)
    BY <2>3, <2>4 DEF StrictSubsetOrdering
  <2>5. \A L \in Missing : ~ (L \subseteq M /\ L # M)
    BY <2>2, <2>4
  <2> HIDE DEF Missing
  <2> QED BY <2>5
<1>3. PICK c : Solves(c, D \ M)
  OBVIOUS
<1>4. M = {}
  <2> SUFFICES ASSUME M # {} PROVE FALSE
    OBVIOUS
  <2>1. PICK n \in M : a[n] \notin M /\ b[n] \notin M
    OBVIOUS
  <2> DEFINE T == D \ M
             U == D \ (M \ {n})
             d == [m \in U \union {Nil} |-> IF m = n THEN g[n][c[a[n]]][c[b[n]]] ELSE c[m]]
  <2>2. n \in D /\ n \notin T /\ U = T \union {n} /\ n # Nil
    OBVIOUS
  <2>3. a[n] \in T \union {Nil} /\ b[n] \in T \union {Nil}
    BY <2>1, <2>2
  <2>4. Closed(T) /\ Solves(c, T)
    BY <1>3
  <2>5. Closed(U)
    BY <2>2, <2>3, <2>4
  <2>6. Solves(d, U)
    <3> HIDE DEF U, T
    <3>1. c[a[n]] \in V /\ c[b[n]] \in V /\ g[n][c[a[n]]][c[b[n]]] \in V
      BY <2>2, <2>3, <2>4
    <3>2. d \in [U \union {Nil} -> V] /\ d[Nil] = z
      BY <2>2, <2>4, <3>1
    <3>3. d[n] = g[n][c[a[n]]][c[b[n]]] /\ \A m \in T \union {Nil} : d[m] = c[m]
      BY <2>2, <2>4
    <3> HIDE DEF d
    <3>4. \A m \in U : d[m] = g[m][d[a[m]]][d[b[m]]]
      BY <2>2, <2>3, <2>4, <3>3, SMTT(30)
    <3> QED BY <3>2, <3>4
  <2> HIDE DEF Closed, Solves, d
  <2>7. M \ {n} \in Missing
    BY <2>5, <2>6
  <2>8. M \ {n} \subseteq M /\ M \ {n} # M
    BY <2>1
  <2> HIDE DEF Missing
  <2> QED BY <1>2, <2>7, <2>8
<1> HIDE DEF Solves
<1>5. Solves(c, D)
  <2>1. D \ M = D
    BY <1>4
  <2> QED BY <1>3, <2>1
<1> QED BY <1>5 DEF Solves
-----------------------------------------------------------------------------
(***************************************************************************)
(* A previous sibling chain ends, as a next sibling chain does.            *)
(***************************************************************************)
LEMMA PrevEnds ==
  ASSUME NEW N \in Table, LinksOK(N), NoSiblingCycle(N), NEW S \in SUBSET Live(N), S # {}
  PROVE  \E n \in S : N[n].prev \notin S
<1>1. IsFiniteSet(S) /\ Null \notin S
  BY NodesAssumption, TableCells, FS_Subset
<1>2. PICK n \in S : N[n].next \notin S
  BY DEF NoSiblingCycle
<1> DEFINE next == [k \in S |-> N[k].next]
<1>3. PICK m \in S : \A k \in S : next[k] # m
  <2>1. next[n] \notin S
    BY <1>2
  <2> HIDE DEF next
  <2> QED BY <1>1, <2>1, SomeUnreached
<1>4. N[m].prev \in S => N[N[m].prev].next = m
  BY <1>1 DEF LinksOK, SiblingsAgree
<1> QED BY <1>3, <1>4

(***************************************************************************)
(* Going down to first children and on to next siblings ends: each node is *)
(* the first child or the next sibling of one node at most, and going back *)
(* that way ends.                                                          *)
(***************************************************************************)
LEMMA DescentEnds ==
  ASSUME NEW N \in Table, LinksOK(N), NoSiblingCycle(N), NoParentCycle(N),
         NEW S \in SUBSET Live(N), S # {}
  PROVE  \E n \in S : N[n].first \notin S /\ N[n].next \notin S
<1> DEFINE back == [k \in S |-> IF N[k].prev = Null THEN N[k].parent ELSE N[k].prev]
<1>1. IsFiniteSet(S) /\ Null \notin S
  BY NodesAssumption, TableCells, FS_Subset
<1>2. PICK n \in S : back[n] \notin S
  <2> SUFFICES ASSUME \A k \in S : back[k] \in S PROVE FALSE
    OBVIOUS
  <2>1. PICK n \in S : N[n].parent \notin S
    BY DEF NoParentCycle
  <2> DEFINE T == {k \in S : N[k].parent = N[n].parent}
  <2>2. \A k \in T : N[k].prev \in S
    BY <2>1
  <2>3. \A k \in T : N[k].prev \in T
    <3> SUFFICES ASSUME NEW k \in T PROVE N[k].prev \in T
      OBVIOUS
    <3>1. N[k].prev \in S /\ N[k].prev # Null /\ N[k].prev \in Live(N)
      BY <1>1, <2>2
    <3>2. N[N[k].prev].next = k
      BY <3>1 DEF LinksOK, SiblingsAgree
    <3>3. N[N[k].prev].parent = N[k].parent
      BY <1>1, <3>1, <3>2 DEF LinksOK, SiblingsAgree
    <3> QED BY <3>1, <3>3
  <2>4. T \in SUBSET Live(N) /\ n \in T
    OBVIOUS
  <2> HIDE DEF T
  <2> QED BY <2>3, <2>4, PrevEnds
<1>3. PICK m \in S : \A k \in S : back[k] # m
  <2> HIDE DEF back
  <2> QED BY <1>1, <1>2, SomeUnreached
<1>4. N[m].first \notin S
  BY <1>1, <1>3 DEF LinksOK, EndsAgree
<1>5. N[m].next \notin S
  BY <1>1, <1>3, TableCells DEF LinksOK, SiblingsAgree
<1> QED BY <1>4, <1>5

(***************************************************************************)
(* What the iterator over children yields.                                 *)
(***************************************************************************)
LEMMA OnwardUnfolds ==
  ASSUME NEW N \in Table, LinksOK(N), NoSiblingCycle(N)
  PROVE  /\ Onward(N) \in [Live(N) \union {Null} -> Seq(Live(N))]
         /\ Onward(N)[Null] = <<>>
         /\ \A n \in Live(N) : Onward(N)[n] = <<n>> \o Onward(N)[N[n].next]
<1> DEFINE D == Live(N)
           V == Seq(D)
           a == [n \in D |-> N[n].next]
           g == [n \in D |-> [x \in V |-> [y \in V |-> <<n>> \o y]]]
           Solves(c) == c = [n \in D \union {Null} |->
                               IF n = Null THEN <<>> ELSE <<n>> \o c[N[n].next]]
<1>1. IsFiniteSet(D) /\ Null \notin D
  BY NodesAssumption, TableCells, FS_Subset
<1>2. \A n \in D : a[n] \in D \union {Null}
  BY DEF LinksOK, LinkLive
<1>3. \A S \in SUBSET D : S # {} => \E n \in S : a[n] \notin S
  BY DEF NoSiblingCycle
<1>4. <<>> \in V /\ \A n \in D, y \in V : <<n>> \o y \in V
  OBVIOUS
<1>5. WellPosed(D, Null, a, a, V, <<>>, g)
  <2>1. \A n \in D, x \in V, y \in V : g[n][x][y] \in V
    <3> HIDE DEF V
    <3> QED BY <1>4
  <2> HIDE DEF D, V, a, g
  <2> QED BY <1>1, <1>2, <1>3, <1>4, <2>1 DEF WellPosed
<1>6. PICK c : Solution(D, Null, a, a, V, <<>>, g, c)
  BY <1>5, LinkRecursion
<1>7. \A n \in D : c[n] = <<n>> \o c[N[n].next]
  <2> SUFFICES ASSUME NEW n \in D PROVE c[n] = <<n>> \o c[N[n].next]
    OBVIOUS
  <2>1. c[a[n]] \in V /\ a[n] = N[n].next
    BY <1>2, <1>6 DEF Solution
  <2> HIDE DEF V
  <2> QED BY <1>6, <2>1 DEF Solution
<1>8. Solves(c)
  BY <1>1, <1>6, <1>7 DEF Solution
<1>9. Solves(Onward(N))
  <2>1. Onward(N) = CHOOSE d : Solves(d)
    BY DEF Onward
  <2> HIDE DEF Solves
  <2> QED BY <1>8, <2>1
<1> HIDE DEF V, g
<1> DEFINE o == Onward(N)
<1>10. o[Null] = <<>> /\ \A n \in D : o[n] = <<n>> \o o[a[n]] /\ a[n] = N[n].next
  BY <1>1, <1>9
<1>11. o = [n \in D \union {Null} |-> o[n]]
  BY <1>9
<1> HIDE DEF Solves, o, a
<1>12. \A n \in D : o[n] \in V
  <2> DEFINE S == {n \in D : o[n] \notin V}
  <2> SUFFICES ASSUME S # {} PROVE FALSE
    OBVIOUS
  <2>1. PICK n \in S : a[n] \notin S
    BY <1>3
  <2>2. o[a[n]] \in V
    BY <1>2, <1>4, <1>10, <2>1
  <2> QED BY <1>4, <1>10, <2>1, <2>2
<1> QED BY <1>4, <1>10, <1>11, <1>12 DEF V, o
(***************************************************************************)
(* The marks and words of a text.                                          *)
(***************************************************************************)
Tokens == {Mark(m) : m \in {"(", ")", " "}} \union {Word(v) : v \in Values}

(***************************************************************************)
(* A written node is a text when what its children write as is one.        *)
(***************************************************************************)
LEMMA WrittenText ==
  ASSUME NEW N \in Table, NEW n \in Live(N), NEW x \in Seq(Tokens)
  PROVE  Written(N, n, x) \in Seq(Tokens)
<1> DEFINE V == Seq(Tokens)
<1>0. Mark("(") \in Tokens /\ Mark(")") \in Tokens
  BY DEF Tokens
<1>1. <<Mark("(")>> \in V /\ <<Mark(")")>> \in V
  BY <1>0
<1>2. ASSUME N[n].kind # List
      PROVE  <<Word(N[n].kind)>> \in V
  <2>1. N[n].kind \in Values
    BY <1>2, TableCells DEF Node, Kinds
  <2>2. Word(N[n].kind) \in Tokens
    BY <2>1 DEF Tokens
  <2> QED BY <2>2
<1>3. \A s, t \in V : s \o t \in V
  OBVIOUS
<1> HIDE DEF V
<1>4. Written(N, n, x) \in V
  <2>1. x \in V
    BY DEF V
  <2>2. <<Mark("(")>> \o x \o <<Mark(")")>> \in V
    BY <1>1, <1>3, <2>1
  <2> QED BY <1>2, <2>2 DEF Written
<1> QED BY <1>4 DEF V

(***************************************************************************)
(* The texts of the nodes.                                                 *)
(***************************************************************************)
Joined(N, n, y) == IF N[n].next = Null THEN <<>> ELSE <<Mark(" ")>> \o y

LEMMA TextsUnfold ==
  ASSUME NEW N \in Table, LinksOK(N), NoSiblingCycle(N), NoParentCycle(N)
  PROVE  /\ Texts(N)[Null] = <<>>
         /\ \A n \in Live(N) \union {Null} : Texts(N)[n] \in Seq(Tokens)
         /\ \A n \in Live(N) :
              Texts(N)[n] = Written(N, n, Texts(N)[N[n].first])
                              \o Joined(N, n, Texts(N)[N[n].next])
<1> DEFINE D == Live(N)
           V == Seq(Tokens)
           a == [n \in D |-> N[n].first]
           b == [n \in D |-> N[n].next]
           g == [n \in D |-> [x \in V |-> [y \in V |-> Written(N, n, x) \o Joined(N, n, y)]]]
           Solves(c) == c = [n \in D \union {Null} |->
                               IF n = Null THEN <<>>
                               ELSE Written(N, n, c[N[n].first])
                                      \o (IF N[n].next = Null THEN <<>>
                                          ELSE <<Mark(" ")>> \o c[N[n].next])]
<1>1. IsFiniteSet(D) /\ Null \notin D
  BY NodesAssumption, TableCells, FS_Subset
<1>2. \A n \in D : a[n] \in D \union {Null} /\ b[n] \in D \union {Null}
  BY DEF LinksOK, LinkLive
<1>3. \A S \in SUBSET D : S # {} => \E n \in S : a[n] \notin S /\ b[n] \notin S
  <2> SUFFICES ASSUME NEW S \in SUBSET D, S # {} PROVE \E n \in S : a[n] \notin S /\ b[n] \notin S
    OBVIOUS
  <2>1. PICK n \in S : N[n].first \notin S /\ N[n].next \notin S
    BY DescentEnds
  <2> QED BY <2>1
<1>4. /\ <<>> \in V
      /\ \A n \in D, x \in V, y \in V : Written(N, n, x) \o Joined(N, n, y) \in V
  <2>1. <<>> \in V /\ <<Mark(" ")>> \in V
    BY DEF Tokens
  <2>2. \A s, t \in V : s \o t \in V
    OBVIOUS
  <2>3. \A n \in D, x \in V : Written(N, n, x) \in V
    BY WrittenText
  <2> HIDE DEF V
  <2>4. \A n \in D, y \in V : Joined(N, n, y) \in V
    BY <2>1, <2>2 DEF Joined
  <2> QED BY <2>1, <2>2, <2>3, <2>4
<1>5. WellPosed(D, Null, a, b, V, <<>>, g)
  <2>1. \A n \in D, x \in V, y \in V : g[n][x][y] \in V
    <3> HIDE DEF V
    <3> QED BY <1>4
  <2> HIDE DEF D, V, a, b, g
  <2> QED BY <1>1, <1>2, <1>3, <1>4, <2>1 DEF WellPosed
<1>6. PICK c : Solution(D, Null, a, b, V, <<>>, g, c)
  BY <1>5, LinkRecursion
<1>7. \A n \in D : c[n] = Written(N, n, c[N[n].first]) \o Joined(N, n, c[N[n].next])
  <2> SUFFICES ASSUME NEW n \in D
               PROVE  c[n] = Written(N, n, c[N[n].first]) \o Joined(N, n, c[N[n].next])
    OBVIOUS
  <2>1. /\ c[a[n]] \in V /\ a[n] = N[n].first
        /\ c[b[n]] \in V /\ b[n] = N[n].next
    BY <1>2, <1>6 DEF Solution
  <2> HIDE DEF V
  <2> QED BY <1>6, <2>1 DEF Solution
<1>8. Solves(c)
  BY <1>1, <1>6, <1>7 DEF Solution, Joined
<1>9. Solves(Texts(N))
  <2>1. Texts(N) = CHOOSE d : Solves(d)
    BY DEF Texts
  <2> HIDE DEF Solves
  <2> QED BY <1>8, <2>1
<1> HIDE DEF V, g
<1> DEFINE t == Texts(N)
<1>10. /\ t[Null] = <<>>
       /\ \A n \in D : t[n] = Written(N, n, t[a[n]]) \o Joined(N, n, t[b[n]])
       /\ \A n \in D : a[n] = N[n].first /\ b[n] = N[n].next
  BY <1>1, <1>9 DEF Joined
<1> HIDE DEF Solves, t, a, b
<1>11. \A n \in D : t[n] \in V
  <2> DEFINE S == {n \in D : t[n] \notin V}
  <2> SUFFICES ASSUME S # {} PROVE FALSE
    OBVIOUS
  <2>1. PICK n \in S : a[n] \notin S /\ b[n] \notin S
    BY <1>3
  <2>2. t[a[n]] \in V /\ t[b[n]] \in V
    BY <1>2, <1>4, <1>10, <2>1
  <2> QED BY <1>4, <1>10, <2>1, <2>2
<1> QED BY <1>4, <1>10, <1>11 DEF V, t

(***************************************************************************)
(* The order in which DepthFirstIter is to visit.                          *)
(***************************************************************************)
LEMMA BelowUnfolds ==
  ASSUME NEW N \in Table, LinksOK(N), NoSiblingCycle(N), NoParentCycle(N)
  PROVE  /\ Below(N)[Null] = <<>>
         /\ \A n \in Live(N) \union {Null} : Below(N)[n] \in Seq(Live(N))
         /\ \A n \in Live(N) :
              Below(N)[n] = <<n>> \o Below(N)[N[n].first] \o Below(N)[N[n].next]
<1> DEFINE D == Live(N)
           V == Seq(D)
           a == [n \in D |-> N[n].first]
           b == [n \in D |-> N[n].next]
           g == [n \in D |-> [x \in V |-> [y \in V |-> <<n>> \o x \o y]]]
           Solves(c) == c = [n \in D \union {Null} |->
                               IF n = Null THEN <<>>
                               ELSE <<n>> \o c[N[n].first] \o c[N[n].next]]
<1>1. IsFiniteSet(D) /\ Null \notin D
  BY NodesAssumption, TableCells, FS_Subset
<1>2. \A n \in D : a[n] \in D \union {Null} /\ b[n] \in D \union {Null}
  BY DEF LinksOK, LinkLive
<1>3. \A S \in SUBSET D : S # {} => \E n \in S : a[n] \notin S /\ b[n] \notin S
  <2> SUFFICES ASSUME NEW S \in SUBSET D, S # {} PROVE \E n \in S : a[n] \notin S /\ b[n] \notin S
    OBVIOUS
  <2>1. PICK n \in S : N[n].first \notin S /\ N[n].next \notin S
    BY DescentEnds
  <2> QED BY <2>1
<1>4. <<>> \in V /\ \A n \in D, x \in V, y \in V : <<n>> \o x \o y \in V
  OBVIOUS
<1>5. WellPosed(D, Null, a, b, V, <<>>, g)
  <2>1. \A n \in D, x \in V, y \in V : g[n][x][y] \in V
    <3> HIDE DEF V
    <3> QED BY <1>4
  <2> HIDE DEF D, V, a, b, g
  <2> QED BY <1>1, <1>2, <1>3, <1>4, <2>1 DEF WellPosed
<1>6. PICK c : Solution(D, Null, a, b, V, <<>>, g, c)
  BY <1>5, LinkRecursion
<1>7. \A n \in D : c[n] = <<n>> \o c[N[n].first] \o c[N[n].next]
  <2> SUFFICES ASSUME NEW n \in D PROVE c[n] = <<n>> \o c[N[n].first] \o c[N[n].next]
    OBVIOUS
  <2>1. /\ c[a[n]] \in V /\ a[n] = N[n].first
        /\ c[b[n]] \in V /\ b[n] = N[n].next
    BY <1>2, <1>6 DEF Solution
  <2> HIDE DEF V
  <2> QED BY <1>6, <2>1 DEF Solution
<1>8. Solves(c)
  BY <1>1, <1>6, <1>7 DEF Solution
<1>9. Solves(Below(N))
  <2>1. Below(N) = CHOOSE d : Solves(d)
    BY DEF Below
  <2> HIDE DEF Solves
  <2> QED BY <1>8, <2>1
<1> HIDE DEF V, g
<1> DEFINE t == Below(N)
<1>10. /\ t[Null] = <<>>
       /\ \A n \in D : t[n] = <<n>> \o t[a[n]] \o t[b[n]]
       /\ \A n \in D : a[n] = N[n].first /\ b[n] = N[n].next
  BY <1>1, <1>9
<1> HIDE DEF Solves, t, a, b
<1>11. \A n \in D : t[n] \in V
  <2> DEFINE S == {n \in D : t[n] \notin V}
  <2> SUFFICES ASSUME S # {} PROVE FALSE
    OBVIOUS
  <2>1. PICK n \in S : a[n] \notin S /\ b[n] \notin S
    BY <1>3
  <2>2. t[a[n]] \in V /\ t[b[n]] \in V
    BY <1>2, <1>4, <1>10, <2>1
  <2> QED BY <1>4, <1>10, <2>1, <2>2
<1> QED BY <1>4, <1>10, <1>11 DEF V, t
-----------------------------------------------------------------------------
(***************************************************************************)
(* A sequence less its head.                                               *)
(***************************************************************************)
LEMMA TailOfCons ==
  ASSUME NEW S, NEW x \in S, NEW s \in Seq(S)
  PROVE  Tail(<<x>> \o s) = s
<1> DEFINE t == <<x>> \o s
<1>1. /\ t \in Seq(S) /\ Len(t) = 1 + Len(s) /\ Len(s) \in Nat
      /\ \A i \in 1 .. Len(s) : t[i + 1] = s[i]
  OBVIOUS
<1> HIDE DEF t
<1>2. Tail(t) \in Seq(S) /\ Len(Tail(t)) = Len(s) /\ \A i \in 1 .. Len(s) : Tail(t)[i] = s[i]
  BY <1>1
<1>3. Tail(t) = s
  BY <1>2, SeqEqual
<1> QED BY <1>3 DEF t

(***************************************************************************)
(* What an iterator yields depends on the next links of live nodes only.   *)
(***************************************************************************)
LEMMA OnwardSame ==
  ASSUME NEW N \in Table, LinksOK(N), NoSiblingCycle(N),
         NEW M \in Table, LinksOK(M), NoSiblingCycle(M),
         Live(N) \subseteq Live(M), \A n \in Live(N) : M[n].next = N[n].next
  PROVE  \A n \in Live(N) \union {Null} : Onward(M)[n] = Onward(N)[n]
<1>1. /\ Onward(N)[Null] = <<>> /\ Onward(M)[Null] = <<>>
      /\ \A n \in Live(N) : Onward(N)[n] = <<n>> \o Onward(N)[N[n].next]
      /\ \A n \in Live(M) : Onward(M)[n] = <<n>> \o Onward(M)[M[n].next]
  BY OnwardUnfolds
<1> DEFINE S == {n \in Live(N) : Onward(M)[n] # Onward(N)[n]}
<1>2. ASSUME S # {} PROVE FALSE
  <2>1. PICK n \in S : N[n].next \notin S
    BY <1>2 DEF NoSiblingCycle
  <2>2. N[n].next \in Live(N) \union {Null}
    BY DEF LinksOK, LinkLive
  <2>3. Onward(M)[N[n].next] = Onward(N)[N[n].next]
    BY <1>1, <2>1, <2>2
  <2>4. /\ Onward(N)[n] = <<n>> \o Onward(N)[N[n].next]
        /\ Onward(M)[n] = <<n>> \o Onward(M)[N[n].next]
    BY <1>1
  <2>5. Onward(M)[n] # Onward(N)[n]
    OBVIOUS
  <2> HIDE DEF S
  <2> QED BY <2>3, <2>4, <2>5, Zenon
<1> QED BY <1>1, <1>2

(***************************************************************************)
(* A text depends on the kinds and the links down and on.                  *)
(***************************************************************************)
SameTexts(N, M) ==
  /\ Live(N) \subseteq Live(M)
  /\ \A n \in Live(N) :
       M[n].kind = N[n].kind /\ M[n].first = N[n].first /\ M[n].next = N[n].next

LEMMA TextsSame ==
  ASSUME NEW N \in Table, LinksOK(N), NoSiblingCycle(N), NoParentCycle(N),
         NEW M \in Table, LinksOK(M), NoSiblingCycle(M), NoParentCycle(M),
         SameTexts(N, M)
  PROVE  /\ \A n \in Live(N) \union {Null} : Texts(M)[n] = Texts(N)[n]
         /\ \A n \in Live(N) : Text(M, n) = Text(N, n)
<1>1. /\ Texts(N)[Null] = <<>> /\ Texts(M)[Null] = <<>>
      /\ \A n \in Live(N) : Texts(N)[n] = Written(N, n, Texts(N)[N[n].first])
                                             \o Joined(N, n, Texts(N)[N[n].next])
      /\ \A n \in Live(M) : Texts(M)[n] = Written(M, n, Texts(M)[M[n].first])
                                             \o Joined(M, n, Texts(M)[M[n].next])
  BY TextsUnfold
<1>2. \A n \in Live(N) : \A x :
        Written(M, n, x) = Written(N, n, x) /\ Joined(M, n, x) = Joined(N, n, x)
  BY DEF SameTexts, Written, Joined
<1>3. \A n \in Live(N) : N[n].first \in Live(N) \union {Null} /\ N[n].next \in Live(N) \union {Null}
  BY DEF LinksOK, LinkLive
<1> DEFINE S == {n \in Live(N) : Texts(M)[n] # Texts(N)[n]}
<1>4. ASSUME S # {} PROVE FALSE
  <2>1. PICK n \in S : N[n].first \notin S /\ N[n].next \notin S
    BY <1>4, DescentEnds
  <2>2. Texts(M)[N[n].first] = Texts(N)[N[n].first] /\ Texts(M)[N[n].next] = Texts(N)[N[n].next]
    BY <1>1, <1>3, <2>1
  <2>3. /\ Texts(N)[n] = Written(N, n, Texts(N)[N[n].first])
                            \o Joined(N, n, Texts(N)[N[n].next])
        /\ Texts(M)[n] = Written(N, n, Texts(M)[N[n].first])
                            \o Joined(N, n, Texts(M)[N[n].next])
    BY <1>1, <1>2, ZenonT(30) DEF SameTexts
  <2>4. Texts(M)[n] # Texts(N)[n]
    OBVIOUS
  <2> HIDE DEF S
  <2> QED BY <2>2, <2>3, <2>4, Zenon
<1>5. \A n \in Live(N) \union {Null} : Texts(M)[n] = Texts(N)[n]
  BY <1>1, <1>4
<1>6. \A n \in Live(N) : Text(M, n) = Text(N, n)
  BY <1>2, <1>3, <1>5 DEF Text, SameTexts
<1> QED BY <1>5, <1>6
-----------------------------------------------------------------------------
(***************************************************************************)
(* Joining sequences, as the walks below use it.                           *)
(***************************************************************************)
Joins(V) == \A x, y \in V : x \o y \in V

Regroups(V) == \A x, y, z \in V : (x \o y) \o z = x \o (y \o z)

LEMMA SeqJoins ==
  ASSUME NEW T
  PROVE  Joins(Seq(T)) /\ Regroups(Seq(T))
<1>1. ASSUME NEW x \in Seq(T), NEW y \in Seq(T)
      PROVE  x \o y \in Seq(T)
  BY ConcatProperties
<1>2. ASSUME NEW x \in Seq(T), NEW y \in Seq(T), NEW z \in Seq(T)
      PROVE  (x \o y) \o z = x \o (y \o z)
  BY ConcatAssociative
<1> QED BY <1>1, <1>2 DEF Joins, Regroups

(***************************************************************************)
(* What a stack still brings out, when its top comes first and f brings    *)
(* out t[f], a sequence over T.                                            *)
(***************************************************************************)
Pending(s, t, T, w) ==
  \E r \in [0 .. Len(s) -> Seq(T)] :
    /\ r[0] = <<>> /\ \A i \in 1 .. Len(s) : r[i] = t[s[i]] \o r[i - 1]
    /\ w = r[Len(s)]

(***************************************************************************)
(* An empty stack brings out nothing.                                      *)
(***************************************************************************)
LEMMA PendingNone ==
  ASSUME NEW t, NEW T
  PROVE  /\ Pending(<<>>, t, T, <<>>)
         /\ \A w : Pending(<<>>, t, T, w) => w = <<>>
<1>1. Len(<<>>) = 0
  BY EmptySeq
<1> DEFINE r == [i \in 0 .. 0 |-> <<>>]
<1>2. /\ r \in [0 .. Len(<<>>) -> Seq(T)] /\ r[0] = <<>> /\ r[Len(<<>>)] = <<>>
      /\ \A i \in 1 .. Len(<<>>) : FALSE
  BY <1>1, EmptySeq
<1> HIDE DEF r
<1>3. Pending(<<>>, t, T, <<>>)
  BY <1>2 DEF Pending
<1>4. ASSUME NEW w, Pending(<<>>, t, T, w) PROVE w = <<>>
  BY <1>1, <1>4 DEF Pending
<1> QED BY <1>3, <1>4

(***************************************************************************)
(* What is pushed comes out next.                                          *)
(***************************************************************************)
LEMMA PendingPush ==
  ASSUME NEW F, NEW T, NEW t \in [F -> Seq(T)], NEW s \in Seq(F), NEW f \in F,
         NEW w, Pending(s, t, T, w)
  PROVE  Pending(Append(s, f), t, T, t[f] \o w) /\ w \in Seq(T)
<1> DEFINE u == Append(s, f)
           n == Len(s)
           W == Seq(T)
<1>1. /\ n \in Nat /\ Len(u) = n + 1
      /\ u[n + 1] = f /\ \A i \in 1 .. n : u[i] = s[i]
  BY LenProperties, AppendProperties
<1>2. PICK r \in [0 .. n -> W] :
        r[0] = <<>> /\ (\A i \in 1 .. n : r[i] = t[s[i]] \o r[i - 1]) /\ w = r[n]
  BY DEF Pending
<1>3. t[f] \in W /\ \A x, y \in W : x \o y \in W
  BY ConcatProperties
<1> DEFINE x == t[f] \o w
           q == [i \in 0 .. n + 1 |-> IF i = n + 1 THEN x ELSE r[i]]
<1> HIDE DEF u, n, W
<1>4. w \in W /\ x \in W
  <2>1. n \in 0 .. n
    BY <1>1
  <2> QED BY <1>2, <1>3, <2>1
<1> HIDE DEF x
<1>5. q \in [0 .. n + 1 -> W] /\ q[0] = <<>> /\ q[n + 1] = x
  BY <1>1, <1>2, <1>4
<1>6. ASSUME NEW i \in 1 .. n + 1 PROVE q[i] = t[u[i]] \o q[i - 1]
  <2>1. CASE i = n + 1
    <3>1. q[i - 1] = w /\ u[i] = f /\ q[i] = x
      BY <1>1, <1>2, <2>1
    <3> HIDE DEF q
    <3> QED BY <3>1 DEF x
  <2>2. CASE i # n + 1
    <3>0. i \in 1 .. n /\ i - 1 \in 0 .. n + 1 /\ i \in 0 .. n + 1 /\ i - 1 # n + 1
      BY <1>1, <2>2
    <3>1. q[i - 1] = r[i - 1] /\ u[i] = s[i] /\ q[i] = r[i]
      BY <1>1, <2>2, <3>0
    <3>2. r[i] = t[s[i]] \o r[i - 1]
      BY <1>2, <3>0
    <3> HIDE DEF q
    <3> QED BY <3>1, <3>2, Zenon
  <2> HIDE DEF q
  <2> QED BY <2>1, <2>2
<1> HIDE DEF q
<1>7. Pending(u, t, T, x)
  BY <1>1, <1>5, <1>6 DEF Pending, W
<1> QED BY <1>4, <1>7 DEF u, x, W

(***************************************************************************)
(* What is popped comes out before the rest.                               *)
(***************************************************************************)
Leaves(s, t, T, w) ==
  \E v \in Seq(T) : /\ Pending(SubSeq(s, 1, Len(s) - 1), t, T, v)
                     /\ w = t[s[Len(s)]] \o v

LEMMA PendingPop ==
  ASSUME NEW F, NEW T, NEW t \in [F -> Seq(T)], NEW s \in Seq(F), s # <<>>,
         NEW w, Pending(s, t, T, w)
  PROVE  /\ s[Len(s)] \in F /\ SubSeq(s, 1, Len(s) - 1) \in Seq(F)
         /\ Leaves(s, t, T, w)
<1> DEFINE u == SubSeq(s, 1, Len(s) - 1)
           n == Len(s)
           m == n - 1
           W == Seq(T)
<1>1. n \in Nat \ {0} /\ \A i \in 1 .. n : s[i] \in F
  BY EmptySeq, LenProperties, ElementOfSeq
<1>2. Len(s) = n /\ m \in Nat /\ n = m + 1 /\ u = SubSeq(s, 1, m)
  BY <1>1
<1>3. PICK r \in [0 .. n -> W] :
        r[0] = <<>> /\ (\A i \in 1 .. n : r[i] = t[s[i]] \o r[i - 1]) /\ w = r[n]
  BY DEF Pending
<1> HIDE DEF n, m, u, W
<1>4. \A i \in 1 .. m : i \in 1 .. n /\ s[i] \in F
  BY <1>1, <1>2
<1>5. /\ u \in Seq(F) /\ Len(u) = IF 1 <= m THEN m - 1 + 1 ELSE 0
      /\ \A i \in 1 .. m - 1 + 1 : u[i] = s[1 + i - 1]
  BY <1>2, <1>4, SubSeqProperties
<1>6. Len(u) = m /\ \A i \in 1 .. m : u[i] = s[i]
  BY <1>2, <1>5
<1> DEFINE q == [i \in 0 .. m |-> r[i]]
<1>7. /\ q \in [0 .. m -> W] /\ q[0] = <<>> /\ q[m] = r[m]
      /\ r[m] \in W /\ w = t[s[n]] \o r[m]
  <2>1. m \in 0 .. n /\ n \in 1 .. n /\ n - 1 = m /\ 0 .. m \subseteq 0 .. n /\ m \in 0 .. m /\ 0 \in 0 .. m
    BY <1>1, <1>2
  <2>2. w = t[s[n]] \o r[n - 1]
    BY <1>3, <2>1
  <2>3. r[n - 1] = r[m]
    BY <2>1
  <2>4. q \in [0 .. m -> W] /\ q[0] = <<>> /\ q[m] = r[m] /\ r[m] \in W
    BY <1>3, <2>1
  <2> HIDE DEF q
  <2> QED BY <2>2, <2>3, <2>4
<1>8. ASSUME NEW i \in 1 .. m PROVE q[i] = t[u[i]] \o q[i - 1]
  <2>1. q[i] = r[i] /\ q[i - 1] = r[i - 1] /\ u[i] = s[i] /\ r[i] = t[s[i]] \o r[i - 1]
    <3>1. i \in 0 .. m /\ i - 1 \in 0 .. m /\ i \in 1 .. n
      BY <1>2, <1>4
    <3>2. r[i] = t[s[i]] \o r[i - 1]
      BY <1>3, <3>1
    <3>3. q[i] = r[i] /\ q[i - 1] = r[i - 1]
      BY <3>1
    <3> HIDE DEF q
    <3> QED BY <1>6, <3>2, <3>3
  <2> HIDE DEF q
  <2> QED BY <2>1
<1> HIDE DEF q
<1>9. Pending(u, t, T, r[m])
  BY <1>6, <1>7, <1>8 DEF Pending, W
<1>10. s[n] \in F
  BY <1>1, <1>2
<1> QED BY <1>2, <1>5, <1>7, <1>9, <1>10 DEF u, W, Leaves
-----------------------------------------------------------------------------
(***************************************************************************)
(* DepthFirstIter on a table that does not change: what it yielded and     *)
(* what its stack brings out make up the subtree of n.  While children are *)
(* pushed, those from the cursor back to the first are still to come.      *)
(***************************************************************************)
Orders(N) == [m \in Live(N) |-> Preorder(N, m)]

VisitInv(N, n, s, c, o) ==
  \E w \in Seq(Live(N)) :
    /\ Pending(s, Orders(N), Live(N), w)
    /\ c = Null => o \o w = Preorder(N, n)
    /\ c # Null => /\ c \in Live(N) /\ N[c].parent \in Live(N)
                   /\ \E q \in Seq(Live(N)) :
                        /\ w = Below(N)[N[c].next] \o q
                        /\ o \o (Below(N)[N[N[c].parent].first] \o q) = Preorder(N, n)

(***************************************************************************)
(* A node is visited before its children, and they before its siblings.    *)
(***************************************************************************)
LEMMA BelowPreorder ==
  ASSUME NEW N \in Table, LinksOK(N), NoSiblingCycle(N), NoParentCycle(N)
  PROVE  /\ Orders(N) \in [Live(N) -> Seq(Live(N))]
         /\ \A m \in Live(N) :
              /\ Orders(N)[m] = <<m>> \o Below(N)[N[m].first]
              /\ Below(N)[m] = Orders(N)[m] \o Below(N)[N[m].next]
<1>1. /\ \A m \in Live(N) \union {Null} : Below(N)[m] \in Seq(Live(N))
      /\ \A m \in Live(N) : Below(N)[m] = <<m>> \o Below(N)[N[m].first] \o Below(N)[N[m].next]
  BY BelowUnfolds
<1>2. \A m \in Live(N) : N[m].first \in Live(N) \union {Null}
  BY DEF LinksOK, LinkLive
<1> DEFINE B == Below(N)
           V == Seq(Live(N))
<1>3. \A m \in Live(N) : <<m>> \o B[N[m].first] \in V
  <2> HIDE DEF B
  <2> QED BY <1>1, <1>2 DEF B
<1> HIDE DEF B, V
<1>4. Orders(N) = [m \in Live(N) |-> <<m>> \o B[N[m].first]]
  BY DEF Orders, Preorder, B
<1>5. \A m \in Live(N) : Orders(N)[m] = <<m>> \o B[N[m].first]
  BY <1>4
<1>6. \A m \in Live(N) : B[m] = <<m>> \o B[N[m].first] \o B[N[m].next]
  BY <1>1 DEF B
<1> QED BY <1>3, <1>4, <1>5, <1>6 DEF B, V

(***************************************************************************)
(* The walk begins with the node itself.                                   *)
(***************************************************************************)
LEMMA VisitBegins ==
  ASSUME NEW N \in Table, LinksOK(N), NoSiblingCycle(N), NoParentCycle(N), NEW n \in Live(N)
  PROVE  VisitInv(N, n, <<n>>, Null, <<>>)
<1> DEFINE t == Orders(N)
           V == Seq(Live(N))
           w == t[n] \o <<>>
<1>1. t \in [Live(N) -> V] /\ t[n] = Preorder(N, n)
  BY BelowPreorder DEF Orders
<1>2. Pending(<<>>, t, Live(N), <<>>) /\ <<>> \in Seq(Live(N)) /\ Append(<<>>, n) = <<n>>
  BY PendingNone
<1>3. Pending(<<n>>, t, Live(N), w)
  <2> DEFINE L == Live(N)
  <2> HIDE DEF t
  <2>1. t \in [L -> Seq(L)] /\ <<>> \in Seq(L) /\ n \in L /\ Pending(<<>>, t, L, <<>>)
    BY <1>1, <1>2
  <2> HIDE DEF L
  <2>2. Pending(Append(<<>>, n), t, L, t[n] \o <<>>)
    BY <2>1, PendingPush
  <2> QED BY <1>2, <2>2 DEF L
<1> HIDE DEF t
<1>4. w = t[n] /\ <<>> \o w = w /\ w \in V
  BY <1>1, ConcatEmptySeq
<1> HIDE DEF w
<1> QED BY <1>1, <1>3, <1>4 DEF VisitInv, t

(***************************************************************************)
(* It yields the node on top and goes to the last of its children.         *)
(***************************************************************************)
LEMMA VisitYields ==
  ASSUME NEW N \in Table, LinksOK(N), NoSiblingCycle(N), NoParentCycle(N), NEW n \in Live(N),
         NEW s \in Seq(Live(N)), s # <<>>, NEW o \in Seq(Live(N)), VisitInv(N, n, s, Null, o)
  PROVE  /\ Append(o, s[Len(s)]) \in Seq(Live(N))
         /\ VisitInv(N, n, SubSeq(s, 1, Len(s) - 1), N[s[Len(s)]].last, Append(o, s[Len(s)]))
<1> DEFINE m == s[Len(s)]
           u == SubSeq(s, 1, Len(s) - 1)
           t == Orders(N)
           B == Below(N)
           V == Seq(Live(N))
           f == B[N[m].first]
           p == Append(o, m)
<1>1. t \in [Live(N) -> V]
  BY BelowPreorder
<1>2. PICK w \in V : Pending(s, t, Live(N), w) /\ o \o w = Preorder(N, n)
  BY DEF VisitInv
<1>3. /\ m \in Live(N) /\ u \in Seq(Live(N))
      /\ \E v \in V : Pending(u, t, Live(N), v) /\ w = t[m] \o v
  <2> DEFINE L == Live(N)
  <2>1. t \in [L -> Seq(L)] /\ s \in Seq(L) /\ s # <<>> /\ Pending(s, t, L, w)
    BY <1>1, <1>2
  <2> HIDE DEF t, L
  <2>2. s[Len(s)] \in L /\ SubSeq(s, 1, Len(s) - 1) \in Seq(L) /\ Leaves(s, t, L, w)
    BY <2>1, PendingPop
  <2> QED BY <2>2 DEF L, Leaves
<1> HIDE DEF m, u
<1>4. PICK v \in V : Pending(u, t, Live(N), v) /\ w = t[m] \o v
  BY <1>3
<1>5. t[m] = <<m>> \o f /\ f \in V
  <2>1. N[m].first \in Live(N) \union {Null}
    BY <1>3 DEF LinksOK, LinkLive
  <2> QED BY <1>3, <2>1, BelowPreorder, BelowUnfolds
<1>6. p \in V /\ p = o \o <<m>> /\ <<m>> \in V /\ o \in V
  BY <1>3, AppendProperties, AppendIsConcat
<1>7. p \o (f \o v) = Preorder(N, n)
  <2> HIDE DEF f, p, t
  <2>1. Joins(V) /\ Regroups(V) /\ o \in V /\ <<m>> \in V /\ f \in V /\ v \in V
    BY <1>5, <1>6, SeqJoins
  <2> HIDE DEF V
  <2>2. (<<m>> \o f) \o v = <<m>> \o (f \o v)
    BY <2>1 DEF Regroups
  <2>4. f \o v \in V
    BY <2>1 DEF Joins
  <2>3. (o \o <<m>>) \o (f \o v) = o \o (<<m>> \o (f \o v))
    BY <2>1, <2>4 DEF Regroups
  <2> QED BY <1>2, <1>4, <1>5, <1>6, <2>2, <2>3
<1>8. B[Null] = <<>> /\ <<>> \o v = v
  BY BelowUnfolds, <1>4, ConcatEmptySeq
<1> DEFINE c == N[m].last
<1>9. CASE c = Null
  <2>1. N[m].first = Null
    BY <1>3, <1>9 DEF LinksOK, EndsAgree
  <2>2. p \o v = Preorder(N, n)
    BY <1>7, <1>8, <2>1
  <2> HIDE DEF t, p, c
  <2>3. VisitInv(N, n, u, c, p)
    BY <1>4, <1>9, <2>2 DEF VisitInv, t
  <2> QED BY <1>6, <2>3 DEF m, u, p, c
<1>10. CASE c # Null
  <2>1. c \in Live(N) /\ N[c].parent = m /\ N[c].next = Null
    BY <1>3, <1>10 DEF LinksOK, EndsAgree, LinkLive
  <2>2. v = B[N[c].next] \o v /\ p \o (B[N[N[c].parent].first] \o v) = Preorder(N, n)
    BY <1>7, <1>8, <2>1
  <2> HIDE DEF t, p, c, B
  <2>3. VisitInv(N, n, u, c, p)
    BY <1>3, <1>4, <1>10, <2>1, <2>2 DEF VisitInv, t, B
  <2> QED BY <1>6, <2>3 DEF m, u, p, c
<1> QED BY <1>9, <1>10

(***************************************************************************)
(* A child is pushed and with it all that comes before its next sibling.   *)
(***************************************************************************)
LEMMA VisitPushes ==
  ASSUME NEW N \in Table, LinksOK(N), NoSiblingCycle(N), NoParentCycle(N), NEW n \in Live(N),
         NEW s \in Seq(Live(N)), NEW c \in Live(N), NEW o, VisitInv(N, n, s, c, o)
  PROVE  VisitInv(N, n, Append(s, c), N[c].prev, o)
<1> DEFINE t == Orders(N)
           B == Below(N)
           V == Seq(Live(N))
           p == N[c].prev
           u == Append(s, c)
           x == t[c]
           y == B[N[c].next]
<1>0. c # Null
  BY TableCells
<1>1. t \in [Live(N) -> V] /\ x \in V /\ B[c] = x \o y /\ y \in V
  <2>1. N[c].next \in Live(N) \union {Null}
    BY DEF LinksOK, LinkLive
  <2> QED BY <2>1, BelowPreorder, BelowUnfolds
<1>2. PICK w \in V, q \in V :
        /\ Pending(s, t, Live(N), w) /\ N[c].parent \in Live(N) /\ w = y \o q
        /\ o \o (B[N[N[c].parent].first] \o q) = Preorder(N, n)
  BY <1>0 DEF VisitInv
<1> DEFINE z == x \o w
<1>3. Pending(u, t, Live(N), z)
  <2> DEFINE L == Live(N)
  <2>1. t \in [L -> Seq(L)] /\ s \in Seq(L) /\ c \in L /\ Pending(s, t, L, w)
    BY <1>1, <1>2
  <2> HIDE DEF t, L
  <2>2. Pending(Append(s, c), t, L, t[c] \o w)
    BY <2>1, PendingPush
  <2> QED BY <2>2 DEF L
<1>4. z = B[c] \o q /\ z \in V
  <2> HIDE DEF x, y
  <2>1. Joins(V) /\ Regroups(V) /\ x \in V /\ y \in V /\ q \in V /\ w \in V
    BY <1>1, <1>2, SeqJoins
  <2> HIDE DEF B, V
  <2>2. (x \o y) \o q = x \o (y \o q)
    BY <2>1 DEF Regroups
  <2>3. x \o w \in V
    BY <2>1 DEF Joins
  <2> QED BY <1>1, <1>2, <2>2, <2>3
<1> HIDE DEF z
<1>5. CASE p = Null
  <2>1. N[N[c].parent].first = c
    BY <1>2, <1>5, TableCells DEF LinksOK, ChildLinked
  <2>2. o \o z = Preorder(N, n)
    BY <1>2, <1>4, <2>1
  <2> HIDE DEF t, p, u
  <2>3. VisitInv(N, n, u, p, o)
    BY <1>3, <1>4, <1>5, <2>2 DEF VisitInv, t
  <2> QED BY <2>3 DEF u, p
<1>6. CASE p # Null
  <2>1. p \in Live(N) /\ N[p].next = c
    BY <1>6 DEF LinksOK, LinkLive, SiblingsAgree
  <2>2. N[p].parent = N[c].parent
    BY <1>0, <2>1 DEF LinksOK, SiblingsAgree
  <2>3. /\ z = B[N[p].next] \o q /\ N[p].parent \in Live(N)
        /\ o \o (B[N[N[p].parent].first] \o q) = Preorder(N, n)
    BY <1>2, <1>4, <2>1, <2>2
  <2> HIDE DEF t, p, u, B
  <2>4. VisitInv(N, n, u, p, o)
    BY <1>2, <1>3, <1>4, <1>6, <2>1, <2>3 DEF VisitInv, t, B
  <2> QED BY <2>4 DEF u, p
<1> QED BY <1>5, <1>6

(***************************************************************************)
(* At its end all of the subtree has been visited.                         *)
(***************************************************************************)
LEMMA VisitEnds ==
  ASSUME NEW N, NEW n, NEW o \in Seq(Live(N)), VisitInv(N, n, <<>>, Null, o)
  PROVE  o = Preorder(N, n)
<1>1. PICK w \in Seq(Live(N)) : /\ Pending(<<>>, Orders(N), Live(N), w)
                                /\ o \o w = Preorder(N, n)
  BY DEF VisitInv
<1>2. w = <<>>
  BY <1>1, PendingNone
<1> QED BY <1>1, <1>2, ConcatEmptySeq
-----------------------------------------------------------------------------
(***************************************************************************)
(* write_node on a table that does not change: what is written and what    *)
(* the frames bring out make up the text of n.  While the frames of the    *)
(* children are pushed, the texts from the cursor back are still to come.  *)
(***************************************************************************)
FramesOver(N) == [node : Live(N), space : BOOLEAN, close : BOOLEAN]

Gap(b) == IF b THEN <<Mark(" ")>> ELSE <<>>

FrameTexts(N) ==
  [f \in FramesOver(N) |-> IF f.close THEN <<Mark(")")>> ELSE Gap(f.space) \o Text(N, f.node)]

WriteInv(N, n, s, c, o) ==
  \E w \in Seq(Tokens) :
    /\ Pending(s, FrameTexts(N), Tokens, w)
    /\ c = Null => o \o w = Text(N, n)
    /\ c # Null => /\ c \in Live(N) /\ N[c].parent \in Live(N)
                   /\ \E q \in Seq(Tokens) :
                        /\ w = Joined(N, c, Texts(N)[N[c].next]) \o q
                        /\ o \o (Texts(N)[N[N[c].parent].first] \o q) = Text(N, n)

(***************************************************************************)
(* The texts of nodes and frames.                                          *)
(***************************************************************************)
LEMMA FrameText ==
  ASSUME NEW N \in Table, LinksOK(N), NoSiblingCycle(N), NoParentCycle(N)
  PROVE  /\ \A b \in BOOLEAN : Gap(b) \in Seq(Tokens)
         /\ \A m \in Live(N) :
              /\ Text(N, m) \in Seq(Tokens)
              /\ Joined(N, m, Texts(N)[N[m].next]) \in Seq(Tokens)
              /\ Texts(N)[m] = Text(N, m) \o Joined(N, m, Texts(N)[N[m].next])
         /\ FrameTexts(N) \in [FramesOver(N) -> Seq(Tokens)]
<1> DEFINE V == Seq(Tokens)
<1>1. /\ \A m \in Live(N) \union {Null} : Texts(N)[m] \in V
      /\ \A m \in Live(N) : Texts(N)[m] = Written(N, m, Texts(N)[N[m].first])
                                            \o Joined(N, m, Texts(N)[N[m].next])
  BY TextsUnfold
<1>2. \A m \in Live(N) : N[m].first \in Live(N) \union {Null} /\ N[m].next \in Live(N) \union {Null}
  BY DEF LinksOK, LinkLive
<1>3. \A m \in Live(N), x \in V : Written(N, m, x) \in V
  BY WrittenText
<1>4. <<>> \in V /\ <<Mark(" ")>> \in V /\ <<Mark(")")>> \in V
  BY DEF Tokens
<1>5. \A x, y \in V : x \o y \in V
  BY ConcatProperties
<1> HIDE DEF V
<1>6. \A m \in Live(N) : Text(N, m) \in V
  BY <1>1, <1>2, <1>3 DEF Text
<1>7. \A m \in Live(N) : Joined(N, m, Texts(N)[N[m].next]) \in V
  BY <1>1, <1>2, <1>4, <1>5 DEF Joined
<1>8. \A b \in BOOLEAN : Gap(b) \in V
  BY <1>4 DEF Gap
<1>9. FrameTexts(N) \in [FramesOver(N) -> V]
  <2>1. \A f \in FramesOver(N) :
          (IF f.close THEN <<Mark(")")>> ELSE Gap(f.space) \o Text(N, f.node)) \in V
    BY <1>4, <1>5, <1>6, <1>8 DEF FramesOver
  <2> QED BY <2>1 DEF FrameTexts
<1>10. \A m \in Live(N) : Texts(N)[m] = Text(N, m) \o Joined(N, m, Texts(N)[N[m].next])
  BY <1>1 DEF Text
<1> QED BY <1>6, <1>7, <1>8, <1>9, <1>10 DEF V

(***************************************************************************)
(* The frame on top is popped and brings out its text before the rest.     *)
(***************************************************************************)
Follows(N, n, s, o) ==
  \E v \in Seq(Tokens) :
    /\ Pending(SubSeq(s, 1, Len(s) - 1), FrameTexts(N), Tokens, v)
    /\ o \o (FrameTexts(N)[s[Len(s)]] \o v) = Text(N, n)

LEMMA WritePops ==
  ASSUME NEW N \in Table, LinksOK(N), NoSiblingCycle(N), NoParentCycle(N), NEW n \in Live(N),
         NEW s \in Seq(FramesOver(N)), s # <<>>, NEW o, WriteInv(N, n, s, Null, o)
  PROVE  /\ s[Len(s)] \in FramesOver(N)
         /\ SubSeq(s, 1, Len(s) - 1) \in Seq(FramesOver(N))
         /\ Follows(N, n, s, o)
<1> DEFINE t == FrameTexts(N)
           F == FramesOver(N)
<1>1. t \in [F -> Seq(Tokens)]
  BY FrameText
<1>2. PICK w \in Seq(Tokens) : Pending(s, t, Tokens, w) /\ o \o w = Text(N, n)
  BY DEF WriteInv
<1> HIDE DEF t, F
<1>3. s[Len(s)] \in F /\ SubSeq(s, 1, Len(s) - 1) \in Seq(F) /\ Leaves(s, t, Tokens, w)
  <2>1. s \in Seq(F)
    BY DEF F
  <2> QED BY <1>1, <1>2, <2>1, PendingPop
<1>4. PICK v \in Seq(Tokens) : /\ Pending(SubSeq(s, 1, Len(s) - 1), t, Tokens, v)
                               /\ w = t[s[Len(s)]] \o v
  BY <1>3 DEF Leaves
<1>5. o \o (t[s[Len(s)]] \o v) = Text(N, n)
  BY <1>2, <1>4
<1> QED BY <1>3, <1>4, <1>5 DEF t, F, Follows

(***************************************************************************)
(* A frame is pushed.                                                      *)
(***************************************************************************)
LEMMA WritePushed ==
  ASSUME NEW N \in Table, LinksOK(N), NoSiblingCycle(N), NoParentCycle(N),
         NEW s \in Seq(FramesOver(N)), NEW f \in FramesOver(N),
         NEW w, Pending(s, FrameTexts(N), Tokens, w)
  PROVE  /\ w \in Seq(Tokens) /\ FrameTexts(N)[f] \o w \in Seq(Tokens)
         /\ Pending(Append(s, f), FrameTexts(N), Tokens, FrameTexts(N)[f] \o w)
<1> DEFINE t == FrameTexts(N)
           F == FramesOver(N)
<1>1. t \in [F -> Seq(Tokens)]
  BY FrameText
<1> HIDE DEF t
<1>2. Pending(Append(s, f), t, Tokens, t[f] \o w) /\ w \in Seq(Tokens)
  <2>1. Pending(s, t, Tokens, w)
    BY DEF t
  <2> HIDE DEF F
  <2>2. s \in Seq(F) /\ f \in F
    BY DEF F
  <2> QED BY <1>1, <2>1, <2>2, PendingPush
<1>3. t[f] \o w \in Seq(Tokens)
  BY <1>1, <1>2, ConcatProperties
<1> QED BY <1>2, <1>3 DEF t

(***************************************************************************)
(* The writer begins with the frame of the node itself.                    *)
(***************************************************************************)
LEMMA WriteBegins ==
  ASSUME NEW N \in Table, LinksOK(N), NoSiblingCycle(N), NoParentCycle(N), NEW n \in Live(N),
         NEW f \in FramesOver(N), f.node = n, ~ f.space, ~ f.close
  PROVE  WriteInv(N, n, <<f>>, Null, <<>>)
<1> DEFINE t == FrameTexts(N)
           w == t[f] \o <<>>
           x == Text(N, n)
<1>1. x \in Seq(Tokens)
  BY FrameText
<1>2. t[f] = <<>> \o x
  BY DEF FrameTexts, Gap
<1>3. <<>> \o x = x /\ x \o <<>> = x
  BY <1>1, ConcatEmptySeq
<1>4. Pending(<<>>, t, Tokens, <<>>)
  BY PendingNone
<1>5. Pending(Append(<<>>, f), t, Tokens, w)
  <2> DEFINE F == FramesOver(N)
  <2>1. <<>> \in Seq(F)
    OBVIOUS
  <2> HIDE DEF F
  <2>2. <<>> \in Seq(FramesOver(N))
    BY <2>1 DEF F
  <2> QED BY <1>4, <2>2, WritePushed
<1> HIDE DEF t, x
<1>6. w = x /\ <<>> \o w = x
  BY <1>2, <1>3
<1>7. Append(<<>>, f) = <<f>>
  OBVIOUS
<1> HIDE DEF w
<1> QED BY <1>1, <1>5, <1>6, <1>7 DEF WriteInv, t, x

(***************************************************************************)
(* A child is pushed and with it all that comes before the next one.       *)
(***************************************************************************)
LEMMA WritePushes ==
  ASSUME NEW N \in Table, LinksOK(N), NoSiblingCycle(N), NoParentCycle(N), NEW n \in Live(N),
         NEW s \in Seq(FramesOver(N)), NEW c \in Live(N), NEW o, WriteInv(N, n, s, c, o),
         NEW f \in FramesOver(N), f.node = c, f.space = (N[c].prev # Null), ~ f.close
  PROVE  WriteInv(N, n, Append(s, f), N[c].prev, o)
<1> DEFINE t == FrameTexts(N)
           B == Texts(N)
           V == Seq(Tokens)
           p == N[c].prev
           u == Append(s, f)
           x == Text(N, c)
           y == Joined(N, c, B[N[c].next])
           g == Gap(f.space)
<1>0. c # Null
  BY TableCells
<1>1. /\ x \in V /\ B[c] = x \o y /\ y \in V /\ t[f] = g \o x /\ B[c] \in V
      /\ g \in V
  <2>1. x \in V /\ B[c] = x \o y /\ y \in V
    BY FrameText
  <2>2. t[f] = g \o x
    BY DEF FrameTexts
  <2>3. f.space \in BOOLEAN
    BY DEF FramesOver
  <2>4. g \in V
    BY <2>3, FrameText
  <2> QED BY <2>1, <2>2, <2>4, TextsUnfold
<1>2. PICK w \in V, q \in V :
        /\ Pending(s, t, Tokens, w) /\ N[c].parent \in Live(N) /\ w = y \o q
        /\ o \o (B[N[N[c].parent].first] \o q) = Text(N, n)
  BY <1>0 DEF WriteInv
<1> DEFINE z == t[f] \o w
<1>3. Pending(u, t, Tokens, z) /\ z \in V
  BY <1>2, WritePushed
<1>4. z = g \o (B[c] \o q)
  <2> HIDE DEF x, y, t, B, g
  <2>1. Regroups(V) /\ x \in V /\ y \in V /\ q \in V /\ w \in V /\ g \in V
    BY <1>1, <1>2, SeqJoins
  <2> HIDE DEF V
  <2>2. /\ (x \o y) \o q = x \o (y \o q)
        /\ (g \o x) \o w = g \o (x \o w)
    BY <2>1, SMTT(30) DEF Regroups
  <2> QED BY <1>1, <1>2, <2>2
<1> HIDE DEF z
<1>5. CASE p = Null
  <2>1. N[N[c].parent].first = c
    BY <1>2, <1>5, TableCells DEF LinksOK, ChildLinked
  <2>2. g = <<>> /\ B[c] \o q \in V
    BY <1>1, <1>2, <1>5, ConcatProperties DEF Gap
  <2>3. z = B[c] \o q
    BY <1>4, <2>2, ConcatEmptySeq
  <2>4. o \o z = Text(N, n)
    BY <1>2, <2>1, <2>3
  <2> HIDE DEF t, p, u
  <2>5. WriteInv(N, n, u, p, o)
    BY <1>3, <1>5, <2>4 DEF WriteInv, t
  <2> QED BY <2>5 DEF u, p
<1>6. CASE p # Null
  <2>1. p \in Live(N) /\ N[p].next = c
    BY <1>6 DEF LinksOK, LinkLive, SiblingsAgree
  <2>2. N[p].parent = N[c].parent
    BY <1>0, <2>1 DEF LinksOK, SiblingsAgree
  <2>3. z = Joined(N, p, B[N[p].next]) \o q
    <3>1. g = <<Mark(" ")>>
      BY <1>6 DEF Gap
    <3>2. Joined(N, p, B[N[p].next]) = <<Mark(" ")>> \o B[c]
      BY <1>0, <2>1 DEF Joined
    <3>3. Regroups(V) /\ g \in V /\ B[c] \in V /\ q \in V
      BY <1>1, SeqJoins
    <3> HIDE DEF g, B, p, V
    <3>4. (g \o B[c]) \o q = g \o (B[c] \o q)
      BY <3>3 DEF Regroups
    <3> QED BY <1>4, <3>1, <3>2, <3>4
  <2>4. /\ N[p].parent \in Live(N)
        /\ o \o (B[N[N[p].parent].first] \o q) = Text(N, n)
    BY <1>2, <2>2
  <2> HIDE DEF t, p, u, B
  <2>5. WriteInv(N, n, u, p, o)
    BY <1>2, <1>3, <1>6, <2>1, <2>3, <2>4 DEF WriteInv, t, B
  <2> QED BY <2>5 DEF u, p
<1> QED BY <1>5, <1>6

(***************************************************************************)
(* An atom is written.                                                     *)
(***************************************************************************)
LEMMA WritesAtom ==
  ASSUME NEW N \in Table, LinksOK(N), NoSiblingCycle(N), NoParentCycle(N), NEW n \in Live(N),
         NEW s \in Seq(FramesOver(N)), s # <<>>, NEW o \in Seq(Tokens),
         WriteInv(N, n, s, Null, o),
         ~ s[Len(s)].close, N[s[Len(s)].node].kind # List
  PROVE  LET p == o \o Gap(s[Len(s)].space) \o <<Word(N[s[Len(s)].node].kind)>>
         IN  p \in Seq(Tokens) /\ WriteInv(N, n, SubSeq(s, 1, Len(s) - 1), Null, p)
<1> DEFINE f == s[Len(s)]
           u == SubSeq(s, 1, Len(s) - 1)
           t == FrameTexts(N)
           V == Seq(Tokens)
           g == Gap(f.space)
           a == <<Word(N[f.node].kind)>>
           p == o \o g \o a
<1>1. /\ f \in FramesOver(N) /\ u \in Seq(FramesOver(N))
      /\ \E v \in V : Pending(u, t, Tokens, v) /\ o \o (t[f] \o v) = Text(N, n)
  <2>1. s[Len(s)] \in FramesOver(N) /\ SubSeq(s, 1, Len(s) - 1) \in Seq(FramesOver(N)) /\ Follows(N, n, s, o)
    BY WritePops
  <2> QED BY <2>1 DEF Follows
<1> HIDE DEF f, u
<1>2. PICK v \in V : Pending(u, t, Tokens, v) /\ o \o (t[f] \o v) = Text(N, n)
  BY <1>1
<1>3. t[f] = g \o a /\ g \in V /\ a \in V
  <2>1. f.node \in Live(N) /\ f.space \in BOOLEAN /\ ~ f.close /\ N[f.node].kind # List
    BY <1>1 DEF FramesOver, f
  <2>2. Text(N, f.node) = a
    BY <2>1 DEF Text, Written
  <2>3. a \in V /\ g \in V
    BY <2>1, <2>2, FrameText
  <2> QED BY <1>1, <2>1, <2>2, <2>3 DEF FrameTexts
<1> HIDE DEF g, a, t
<1>4. p \o v = Text(N, n) /\ p \in V
  <2>1. Joins(V) /\ Regroups(V) /\ o \in V /\ g \in V /\ a \in V /\ v \in V
    BY <1>3, SeqJoins
  <2> HIDE DEF V
  <2>2. g \o a \in V
    BY <2>1 DEF Joins
  <2>3. (o \o g) \o a = o \o (g \o a)
    BY <2>1 DEF Regroups
  <2>4. (o \o (g \o a)) \o v = o \o ((g \o a) \o v)
    BY <2>1, <2>2 DEF Regroups
  <2>5. o \o (g \o a) \in V
    BY <2>1, <2>2 DEF Joins
  <2> QED BY <1>2, <1>3, <2>3, <2>4, <2>5
<1> HIDE DEF p
<1>5. WriteInv(N, n, u, Null, p)
  BY <1>2, <1>4 DEF WriteInv, t
<1> QED BY <1>4, <1>5 DEF p, u, f, g, a

(***************************************************************************)
(* A closing bracket is written.                                           *)
(***************************************************************************)
LEMMA WritesClose ==
  ASSUME NEW N \in Table, LinksOK(N), NoSiblingCycle(N), NoParentCycle(N), NEW n \in Live(N),
         NEW s \in Seq(FramesOver(N)), s # <<>>, NEW o \in Seq(Tokens),
         WriteInv(N, n, s, Null, o), s[Len(s)].close
  PROVE  /\ Append(o, Mark(")")) \in Seq(Tokens)
         /\ WriteInv(N, n, SubSeq(s, 1, Len(s) - 1), Null, Append(o, Mark(")")))
<1> DEFINE f == s[Len(s)]
           u == SubSeq(s, 1, Len(s) - 1)
           t == FrameTexts(N)
           V == Seq(Tokens)
           a == <<Mark(")")>>
           p == Append(o, Mark(")"))
<1>1. /\ f \in FramesOver(N) /\ u \in Seq(FramesOver(N))
      /\ \E v \in V : Pending(u, t, Tokens, v) /\ o \o (t[f] \o v) = Text(N, n)
  <2>1. s[Len(s)] \in FramesOver(N) /\ SubSeq(s, 1, Len(s) - 1) \in Seq(FramesOver(N)) /\ Follows(N, n, s, o)
    BY WritePops
  <2> QED BY <2>1 DEF Follows
<1>2. PICK v \in V : Pending(u, t, Tokens, v) /\ o \o (t[f] \o v) = Text(N, n)
  BY <1>1
<1>3. t[f] = a /\ a \in V /\ Mark(")") \in Tokens
  <2>1. Mark(")") \in Tokens
    BY DEF Tokens
  <2>2. a \in V
    BY <2>1
  <2>3. f.close
    OBVIOUS
  <2> HIDE DEF f, a
  <2>4. t[f] = <<Mark(")")>>
    BY <1>1, <2>3 DEF FrameTexts
  <2> QED BY <2>1, <2>2, <2>4 DEF a
<1> HIDE DEF f, u
<1>4. p = o \o a /\ p \in V
  BY <1>3, AppendProperties, AppendIsConcat
<1> HIDE DEF t, p, a
<1>5. p \o v = Text(N, n)
  <2>1. Regroups(V) /\ o \in V /\ a \in V /\ v \in V
    BY <1>3, SeqJoins
  <2> HIDE DEF V
  <2>2. (o \o a) \o v = o \o (a \o v)
    BY <2>1 DEF Regroups
  <2> QED BY <1>2, <1>3, <1>4, <2>2
<1>6. WriteInv(N, n, u, Null, p)
  BY <1>2, <1>5 DEF WriteInv, t
<1> QED BY <1>4, <1>6 DEF p, u

(***************************************************************************)
(* A list is opened: its frame makes room for that of its bracket, and its *)
(* children are next.                                                      *)
(***************************************************************************)
LEMMA WritesOpen ==
  ASSUME NEW N \in Table, LinksOK(N), NoSiblingCycle(N), NoParentCycle(N), NEW n \in Live(N),
         NEW s \in Seq(FramesOver(N)), s # <<>>, NEW o \in Seq(Tokens),
         WriteInv(N, n, s, Null, o),
         ~ s[Len(s)].close, N[s[Len(s)].node].kind = List,
         NEW h \in FramesOver(N), h.close
  PROVE  LET p == o \o Gap(s[Len(s)].space) \o <<Mark("(")>>
         IN  /\ p \in Seq(Tokens)
             /\ WriteInv(N, n, Append(SubSeq(s, 1, Len(s) - 1), h), N[s[Len(s)].node].last, p)
<1> DEFINE f == s[Len(s)]
           u == SubSeq(s, 1, Len(s) - 1)
           t == FrameTexts(N)
           B == Texts(N)
           V == Seq(Tokens)
           m == f.node
           g == Gap(f.space)
           a == <<Mark("(")>>
           b == <<Mark(")")>>
           x == B[N[m].first]
           p == o \o g \o a
           r == Append(u, h)
<1>1. /\ f \in FramesOver(N) /\ u \in Seq(FramesOver(N))
      /\ \E v \in V : Pending(u, t, Tokens, v) /\ o \o (t[f] \o v) = Text(N, n)
  <2>1. s[Len(s)] \in FramesOver(N) /\ SubSeq(s, 1, Len(s) - 1) \in Seq(FramesOver(N)) /\ Follows(N, n, s, o)
    BY WritePops
  <2> QED BY <2>1 DEF Follows
<1> HIDE DEF f, u
<1>2. PICK v \in V : Pending(u, t, Tokens, v) /\ o \o (t[f] \o v) = Text(N, n)
  BY <1>1
<1>3. m \in Live(N) /\ f.space \in BOOLEAN /\ ~ f.close /\ N[m].kind = List
  BY <1>1 DEF FramesOver, f
<1>4. /\ t[f] = g \o (a \o x \o b)
      /\ g \in V /\ a \in V /\ b \in V /\ x \in V
  <2>1. Text(N, m) = a \o x \o b
    BY <1>3 DEF Text, Written
  <2>2. N[m].first \in Live(N) \union {Null}
    BY <1>3 DEF LinksOK, LinkLive
  <2>3. g \in V /\ x \in V
    BY <1>3, <2>2, FrameText, TextsUnfold
  <2>4. a \in V /\ b \in V
    <3>1. Mark("(") \in Tokens /\ Mark(")") \in Tokens
      BY DEF Tokens
    <3> QED BY <3>1
  <2> QED BY <1>1, <1>3, <2>1, <2>3, <2>4 DEF FrameTexts
<1> DEFINE w == t[h] \o v
<1>5. w = b \o v /\ Pending(r, t, Tokens, w) /\ w \in V
  <2>1. t[h] = b
    BY DEF FrameTexts
  <2>2. Pending(r, t, Tokens, w) /\ w \in V
    BY <1>1, <1>2, WritePushed
  <2> QED BY <2>1, <2>2
<1> HIDE DEF g, a, b, x, t, w
<1>6. p \in V /\ p \o (x \o w) = Text(N, n)
  <2> DEFINE k == a \o x \o b
             l == x \o w
  <2>1. /\ Joins(V) /\ Regroups(V)
        /\ o \in V /\ v \in V /\ g \in V /\ a \in V /\ b \in V /\ x \in V /\ w \in V
    BY <1>4, <1>5, SeqJoins
  <2> HIDE DEF V
  <2>2. l \in V /\ o \o g \in V /\ x \o b \in V /\ a \o x \in V
    BY <2>1 DEF Joins
  <2>3. k \o v = a \o l
    <3>1. (a \o x) \o b = a \o (x \o b)
      <4>1. Regroups(V) /\ a \in V /\ x \in V /\ b \in V
        BY <2>1
      <4> QED BY <4>1 DEF Regroups
    <3>2. (a \o (x \o b)) \o v = a \o ((x \o b) \o v)
      <4>1. Regroups(V) /\ a \in V /\ x \o b \in V /\ v \in V
        BY <2>1, <2>2
      <4> QED BY <4>1 DEF Regroups
    <3>3. (x \o b) \o v = x \o (b \o v)
      <4>1. Regroups(V) /\ x \in V /\ b \in V /\ v \in V
        BY <2>1
      <4> QED BY <4>1 DEF Regroups
    <3> QED BY <1>5, <3>1, <3>2, <3>3
  <2>4. k \in V
    BY <2>1, <2>2 DEF Joins
  <2> HIDE DEF k, l
  <2>5. a \o l \in V /\ (o \o g) \o a \in V
    BY <2>1, <2>2 DEF Joins
  <2>6. ((o \o g) \o a) \o l = (o \o g) \o (a \o l)
    <3>1. Regroups(V) /\ o \o g \in V /\ a \in V /\ l \in V
      BY <2>1, <2>2
    <3> QED BY <3>1 DEF Regroups
  <2>7. (o \o g) \o (a \o l) = o \o (g \o (a \o l))
    <3>1. Regroups(V) /\ o \in V /\ g \in V /\ a \o l \in V
      BY <2>1, <2>5
    <3> QED BY <3>1 DEF Regroups
  <2>10. (g \o k) \o v = g \o (k \o v)
    <3>1. Regroups(V) /\ g \in V /\ k \in V /\ v \in V
      BY <2>1, <2>4
    <3> QED BY <3>1 DEF Regroups
  <2>8. t[f] = g \o k
    BY <1>4 DEF k
  <2>9. p \o l = Text(N, n)
    BY <1>2, <2>3, <2>6, <2>7, <2>8, <2>10
  <2> QED BY <2>5, <2>9 DEF l
<1> HIDE DEF p
<1>7. B[Null] = <<>> /\ <<>> \o w = w
  BY <1>5, TextsUnfold, ConcatEmptySeq
<1> DEFINE c == N[m].last
<1>8. CASE c = Null
  <2>1. N[m].first = Null
    BY <1>3, <1>8 DEF LinksOK, EndsAgree
  <2>2. p \o w = Text(N, n)
    BY <1>6, <1>7, <2>1 DEF x
  <2> HIDE DEF c, r
  <2>3. WriteInv(N, n, r, c, p)
    BY <1>5, <1>8, <2>2 DEF WriteInv, t
  <2> QED BY <1>6, <2>3 DEF f, u, p, c, g, a, r
<1>9. CASE c # Null
  <2>1. c \in Live(N) /\ N[c].parent = m /\ N[c].next = Null
    BY <1>3, <1>9 DEF LinksOK, EndsAgree, LinkLive
  <2>2. /\ w = Joined(N, c, B[N[c].next]) \o w
        /\ p \o (B[N[N[c].parent].first] \o w) = Text(N, n)
    BY <1>6, <1>7, <2>1 DEF Joined, x
  <2> HIDE DEF c, r, B
  <2>3. WriteInv(N, n, r, c, p)
    BY <1>3, <1>5, <1>9, <2>1, <2>2 DEF WriteInv, t, B
  <2> QED BY <1>6, <2>3 DEF f, u, p, c, g, a, r
<1> QED BY <1>8, <1>9

(***************************************************************************)
(* At its end the text is written.                                         *)
(***************************************************************************)
LEMMA WriteEnds ==
  ASSUME NEW N, NEW n, NEW o \in Seq(Tokens), WriteInv(N, n, <<>>, Null, o)
  PROVE  o = Text(N, n)
<1>1. PICK w \in Seq(Tokens) : /\ Pending(<<>>, FrameTexts(N), Tokens, w)
                               /\ o \o w = Text(N, n)
  BY DEF WriteInv
<1>2. w = <<>>
  BY <1>1, PendingNone
<1> QED BY <1>1, <1>2, ConcatEmptySeq
-----------------------------------------------------------------------------
(***************************************************************************)
(* What an iterator yields is the chain of next siblings: each element is  *)
(* followed by its next sibling, the last has none, and none comes twice.  *)
(***************************************************************************)
ChainFrom(N, n, s) ==
  /\ Len(s) >= 1 /\ s[1] = n
  /\ \A i \in 1 .. Len(s) :
       /\ N[s[i]].parent = N[n].parent
       /\ Len(Onward(N)[s[i]]) = Len(s) - i + 1
       /\ N[s[i]].next = IF i < Len(s) THEN s[i + 1] ELSE Null

LEMMA OnwardChain ==
  ASSUME NEW N \in Table, LinksOK(N), NoSiblingCycle(N)
  PROVE  \A n \in Live(N) : ChainFrom(N, n, Onward(N)[n])
<1> DEFINE o == Onward(N)
           S == {n \in Live(N) : ~ ChainFrom(N, n, o[n])}
<1>1. /\ \A n \in Live(N) \union {Null} : o[n] \in Seq(Live(N))
      /\ o[Null] = <<>>
      /\ \A n \in Live(N) : o[n] = <<n>> \o o[N[n].next]
  BY OnwardUnfolds
<1> SUFFICES ASSUME S # {} PROVE FALSE
  OBVIOUS
<1>2. PICK n \in S : N[n].next \notin S
  BY DEF NoSiblingCycle
<1> DEFINE m == N[n].next
           s == o[n]
           t == o[m]
<1>3. m \in Live(N) \union {Null} /\ n \in Live(N) /\ Null \notin Live(N)
  BY TableCells DEF LinksOK, LinkLive
<1>4. /\ t \in Seq(Live(N)) /\ s = <<n>> \o t
  BY <1>1, <1>3
<1> HIDE DEF t
<1>5. /\ Len(t) \in Nat /\ Len(s) = Len(t) + 1 /\ s[1] = n
      /\ \A i \in 1 .. Len(t) : s[i + 1] = t[i]
  BY <1>4
<1>6. m = Null => Len(t) = 0
  BY <1>1, EmptySeq DEF t
<1>7. m # Null => ChainFrom(N, m, t) /\ N[m].parent = N[n].parent
  BY <1>2, <1>3 DEF t, LinksOK, SiblingsAgree
<1>8. ~ ChainFrom(N, n, s)
  BY <1>2
<1>9. Len(o[n]) = Len(s)
  OBVIOUS
<1> HIDE DEF s, S
<1>10. N[s[1]].next = IF 1 < Len(s) THEN s[1 + 1] ELSE Null
  <2>1. CASE m = Null
    BY <1>5, <1>6, <2>1
  <2>2. CASE m # Null
    <3>1. Len(t) >= 1 /\ t[1] = m
      BY <1>7, <2>2 DEF ChainFrom
    <3>2. s[1 + 1] = t[1]
      BY <1>5, <3>1
    <3> QED BY <1>5, <3>1, <3>2
  <2> QED BY <2>1, <2>2
<1>11. ASSUME NEW i \in 1 .. Len(s), i # 1
       PROVE  /\ N[s[i]].parent = N[n].parent
              /\ Len(o[s[i]]) = Len(s) - i + 1
              /\ N[s[i]].next = IF i < Len(s) THEN s[i + 1] ELSE Null
  <2>1. m # Null /\ i - 1 \in 1 .. Len(t)
    BY <1>5, <1>6, <1>11
  <2> DEFINE j == i - 1
  <2>2. /\ N[t[j]].parent = N[m].parent
        /\ Len(o[t[j]]) = Len(t) - j + 1
        /\ N[t[j]].next = IF j < Len(t) THEN t[j + 1] ELSE Null
    BY <1>7, <2>1 DEF ChainFrom
  <2>3. s[i] = t[j]
    BY <1>5, <2>1
  <2>4. j < Len(t) => t[j + 1] = s[i + 1]
    BY <1>5, <2>1
  <2> HIDE DEF m, o
  <2> QED BY <1>5, <1>7, <2>1, <2>2, <2>3, <2>4
<1>12. /\ N[s[1]].parent = N[n].parent
       /\ Len(o[s[1]]) = Len(s) - 1 + 1
  BY <1>5, <1>9
<1> HIDE DEF m
<1>13. ChainFrom(N, n, s)
  <2>1. Len(s) >= 1
    BY <1>5
  <2>2. ASSUME NEW i \in 1 .. Len(s)
        PROVE  /\ N[s[i]].parent = N[n].parent
               /\ Len(o[s[i]]) = Len(s) - i + 1
               /\ N[s[i]].next = IF i < Len(s) THEN s[i + 1] ELSE Null
    <3>1. CASE i = 1
      BY <1>10, <1>12, <3>1
    <3>2. CASE i # 1
      BY <1>11, <3>2
    <3> QED BY <3>1, <3>2
  <2> QED BY <1>5, <2>1, <2>2 DEF ChainFrom
<1> QED BY <1>8, <1>13

(***************************************************************************)
(* ChildIter yields the children, each once, in the order of their links,  *)
(* and as many as are counted.                                             *)
(***************************************************************************)
YieldsChildren(N, n, s) ==
  /\ s \in Seq(Live(N))
  /\ {s[i] : i \in 1 .. Len(s)} = Children(N, n)
  /\ \A i, j \in 1 .. Len(s) : s[i] = s[j] => i = j
  /\ \A i \in 1 .. Len(s) : i > 1 => N[s[i]].prev = s[i - 1]

LEMMA YieldedChildren ==
  ASSUME NEW N \in Table, LinksOK(N), NoSiblingCycle(N), NEW n \in Live(N)
  PROVE  YieldsChildren(N, n, Yielded(N, n))
<1> DEFINE f == N[n].first
           s == Yielded(N, n)
           K == Children(N, n)
<1>1. f \in Live(N) \union {Null} /\ Null \notin Live(N) /\ K \subseteq Live(N) /\ n # Null
  BY TableCells DEF LinksOK, LinkLive, Children
<1>2. s \in Seq(Live(N)) /\ s = Onward(N)[f]
  BY <1>1, OnwardUnfolds DEF Yielded
<1>3. \A T \in SUBSET K : T # {} =>
        \E m \in T : m = f \/ (N[m].prev \in K \ T /\ N[N[m].prev].next = m)
  <2> SUFFICES ASSUME NEW T \in SUBSET K, T # {}
               PROVE  \E m \in T : m = f \/ (N[m].prev \in K \ T /\ N[N[m].prev].next = m)
    OBVIOUS
  <2>1. PICK m \in T : N[m].prev \notin T
    BY <1>1, PrevEnds
  <2>2. m \in Live(N) /\ N[m].parent = n
    BY DEF Children
  <2>3. CASE N[m].prev = Null
    <3>1. m = f
      BY <1>1, <2>2, <2>3 DEF LinksOK, ChildLinked
    <3> QED BY <3>1
  <2>4. CASE N[m].prev # Null
    <3>1. N[m].prev \in Live(N) /\ N[N[m].prev].next = m
      BY <2>2, <2>4 DEF LinksOK, LinkLive, SiblingsAgree
    <3>2. N[N[m].prev].parent = n
      BY <1>1, <2>2, <3>1 DEF LinksOK, SiblingsAgree
    <3>3. N[m].prev \in K
      BY <3>1, <3>2 DEF Children
    <3> QED BY <2>1, <3>1, <3>3
  <2> QED BY <2>3, <2>4
<1>4. CASE f = Null
  <2>1. s = <<>> /\ Len(s) = 0
    BY <1>2, <1>4, OnwardUnfolds, EmptySeq
  <2>2. K = {}
    <3> HIDE DEF K
    <3> QED BY <1>1, <1>3, <1>4
  <2> HIDE DEF s
  <2> QED BY <1>2, <2>1, <2>2 DEF YieldsChildren, s
<1>5. CASE f # Null
  <2>1. f \in Live(N) /\ N[f].parent = n
    BY <1>1, <1>5 DEF LinksOK, EndsAgree
  <2>2. /\ Len(s) \in Nat /\ s[1] = f /\ Len(s) >= 1
        /\ \A i \in 1 .. Len(s) :
             /\ s[i] \in Live(N)
             /\ N[s[i]].parent = n
             /\ Len(Onward(N)[s[i]]) = Len(s) - i + 1
             /\ N[s[i]].next = IF i < Len(s) THEN s[i + 1] ELSE Null
    <3>1. ChainFrom(N, f, s)
      BY <1>2, <2>1, OnwardChain
    <3>2. Len(s) \in Nat /\ \A i \in 1 .. Len(s) : s[i] \in Live(N)
      BY <1>2, LenProperties, ElementOfSeq
    <3> HIDE DEF s
    <3> QED BY <2>1, <3>1, <3>2 DEF ChainFrom
  <2> HIDE DEF s, f
  <2>3. \A i \in 1 .. Len(s) : s[i] \in K
    BY <2>2 DEF Children
  <2>4. K \subseteq {s[i] : i \in 1 .. Len(s)}
    <3> DEFINE T == {m \in K : \A i \in 1 .. Len(s) : s[i] # m}
    <3> SUFFICES ASSUME T # {} PROVE FALSE
      OBVIOUS
    <3>1. PICK m \in T : m = f \/ (N[m].prev \in K \ T /\ N[N[m].prev].next = m)
      <4>1. T \in SUBSET K
        OBVIOUS
      <4> HIDE DEF T, K
      <4> QED BY <1>3, <4>1
    <3>2. m # f
      BY <2>2
    <3>3. PICK i \in 1 .. Len(s) : s[i] = N[m].prev
      BY <3>1, <3>2
    <3>4. m = IF i < Len(s) THEN s[i + 1] ELSE Null
      BY <2>2, <3>1, <3>2, <3>3
    <3>5. m # Null
      BY <1>1
    <3> QED BY <2>2, <3>4, <3>5
  <2>5. \A i, j \in 1 .. Len(s) : s[i] = s[j] => i = j
    BY <2>2
  <2>6. ASSUME NEW i \in 1 .. Len(s), i > 1 PROVE N[s[i]].prev = s[i - 1]
    <3>1. i - 1 \in 1 .. Len(s) /\ i - 1 < Len(s) /\ i - 1 + 1 = i
      BY <2>2, <2>6
    <3>2. N[s[i - 1]].next = s[i] /\ s[i] # Null
      BY <1>1, <2>2, <3>1
    <3>3. s[i - 1] \in Live(N)
      BY <2>2, <3>1
    <3> QED BY <3>2, <3>3 DEF LinksOK, SiblingsAgree
  <2> HIDE DEF K
  <2> QED BY <1>2, <2>3, <2>4, <2>5, <2>6 DEF YieldsChildren, s, K
<1> QED BY <1>4, <1>5

(***************************************************************************)
(* So the number of children is the length of what is yielded.             *)
(***************************************************************************)
LEMMA YieldedCount ==
  ASSUME NEW N \in Table, WellFormed(N), NEW n \in Live(N)
  PROVE  N[n].count = Len(Yielded(N, n))
<1> DEFINE s == Yielded(N, n)
           b == [i \in 1 .. Len(s) |-> s[i]]
<1>1. YieldsChildren(N, n, s)
  BY YieldedChildren DEF WellFormed
<1> HIDE DEF s
<1>2. b \in Bijection(1 .. Len(s), Children(N, n))
  <2> DEFINE I == 1 .. Len(s)
             K == Children(N, n)
  <2>1. \A i \in I : b[i] = s[i]
    OBVIOUS
  <2>2. {s[i] : i \in I} = K /\ \A i, j \in I : s[i] = s[j] => i = j
    BY <1>1 DEF YieldsChildren
  <2>3. b \in [I -> K]
    <3>1. \A i \in I : s[i] \in K
      BY <2>2
    <3>2. b = [i \in I |-> s[i]]
      OBVIOUS
    <3> HIDE DEF I, K, b
    <3> QED BY <3>1, <3>2
  <2> HIDE DEF b, I, K
  <2>4. \A i, j \in I : b[i] = b[j] => i = j
    BY <2>1, <2>2
  <2>5. \A k \in K : \E i \in I : b[i] = k
    BY <2>1, <2>2
  <2>6. b \in Injection(I, K)
    BY <2>3, <2>4 DEF Injection, IsInjective
  <2>7. b \in Surjection(I, K)
    BY <2>3, <2>5 DEF Surjection
  <2> QED BY <2>6, <2>7 DEF Bijection, I, K
<1>3. ExistsBijection(1 .. Len(s), Children(N, n))
  BY <1>2 DEF ExistsBijection
<1>4. Len(s) \in Nat
  BY <1>1, LenProperties DEF YieldsChildren
<1>5. Cardinality(Children(N, n)) = Len(s)
  BY <1>3, <1>4, FS_CountingElements
<1> QED BY <1>5 DEF WellFormed, CountOK, s

(***************************************************************************)
(* What is found by an index.                                              *)
(***************************************************************************)
LEMMA ItemFound ==
  ASSUME NEW N \in Table, WellFormed(N), NEW n \in Live(N)
  PROVE  /\ Len(Yielded(N, n)) \in Nat /\ N[n].count = Len(Yielded(N, n))
         /\ \A i \in 0 .. Len(Yielded(N, n)) - 1 : GetItem(N, n, i) = Yielded(N, n)[i + 1]
         /\ \A i \in 1 .. Len(Yielded(N, n)) :
              GetItem(N, n, - i) = GetItem(N, n, Len(Yielded(N, n)) - i)
<1> DEFINE s == Yielded(N, n)
           l == Len(s)
<1>1. l \in Nat /\ N[n].count = l
  <2>1. s \in Seq(Live(N))
    BY YieldedChildren DEF WellFormed, YieldsChildren
  <2> QED BY <2>1, YieldedCount, LenProperties
<1>2. \A k \in Nat : k < l => Nth(N, n, k) = s[k + 1]
  BY DEF Nth
<1> HIDE DEF s, l
<1>3. \A i \in 0 .. l - 1 : GetItem(N, n, i) = s[i + 1]
  BY <1>1, <1>2 DEF GetItem
<1>4. ASSUME NEW i \in 1 .. l PROVE GetItem(N, n, - i) = GetItem(N, n, l - i)
  <2>1. - i \in Int /\ - i < 0 /\ l - i \in 0 .. l - 1 /\ l + (- i) = l - i
    BY <1>1
  <2> QED BY <1>1, <2>1 DEF GetItem
<1> QED BY <1>1, <1>3, <1>4 DEF s, l
-----------------------------------------------------------------------------
(***************************************************************************)
(* Marks and words are told apart.                                         *)
(***************************************************************************)
LEMMA WordsDiffer ==
  ASSUME NEW v, NEW w, NEW m
  PROVE  Word(v) # Mark(m) /\ (Word(v) = Word(w) => v = w)
<1>1. DOMAIN Word(v) = {"word"} /\ DOMAIN Mark(m) = {"mark"} /\ "word" # "mark"
  BY DEF Word, Mark
<1>2. Word(v).word = v /\ Word(w).word = w
  BY DEF Word
<1> HIDE DEF Word, Mark
<1> QED BY <1>1, <1>2

(***************************************************************************)
(* What the texts of siblings start with, and the text of a list.          *)
(***************************************************************************)
Start(N, n) == IF N[n].kind = List THEN Mark("(") ELSE Word(N[n].kind)

LEMMA TextStarts ==
  ASSUME NEW N \in Table, LinksOK(N), NoSiblingCycle(N), NoParentCycle(N), NEW n \in Live(N)
  PROVE  /\ Texts(N)[n][1] = Start(N, n) /\ Text(N, n)[1] = Start(N, n)
         /\ Len(Texts(N)[n]) >= 1 /\ Len(Text(N, n)) >= 1
         /\ N[n].kind = List =>
              Text(N, n)[2] = IF N[n].first = Null THEN Mark(")") ELSE Start(N, N[n].first)
<1> DEFINE x == Texts(N)[N[n].first]
           y == Joined(N, n, Texts(N)[N[n].next])
<1>1. /\ Text(N, n) \in Seq(Tokens) /\ y \in Seq(Tokens) /\ Texts(N)[n] = Text(N, n) \o y
  BY FrameText
<1>2. \A m \in Live(N) : Texts(N)[m] = Text(N, m) \o Joined(N, m, Texts(N)[N[m].next])
                         /\ Text(N, m) \in Seq(Tokens)
                         /\ Joined(N, m, Texts(N)[N[m].next]) \in Seq(Tokens)
  BY FrameText
<1>3. \A m \in Live(N) : Texts(N)[N[m].first] \in Seq(Tokens)
  <2>1. \A m \in Live(N) : N[m].first \in Live(N) \union {Null}
    BY DEF LinksOK, LinkLive
  <2> QED BY <2>1, TextsUnfold
<1>4. ASSUME NEW m \in Live(N)
      PROVE  Text(N, m)[1] = Start(N, m) /\ Len(Text(N, m)) >= 1
  <2> DEFINE z == Texts(N)[N[m].first]
  <2>1. CASE N[m].kind = List
    <3>1. Text(N, m) = <<Mark("(")>> \o z \o <<Mark(")")>> /\ z \in Seq(Tokens)
      BY <1>3, <2>1 DEF Text, Written
    <3> HIDE DEF z
    <3>2. /\ Len(z) \in Nat
          /\ (<<Mark("(")>> \o z \o <<Mark(")")>>)[1] = Mark("(")
          /\ Len(<<Mark("(")>> \o z \o <<Mark(")")>>) = Len(z) + 2
      BY <3>1
    <3> QED BY <2>1, <3>1, <3>2 DEF Start
  <2>2. CASE N[m].kind # List
    <3>1. Text(N, m) = <<Word(N[m].kind)>>
      BY <2>2 DEF Text, Written
    <3> QED BY <2>2, <3>1 DEF Start
  <2> QED BY <2>1, <2>2
<1>5. ASSUME NEW m \in Live(N)
      PROVE  Texts(N)[m][1] = Start(N, m) /\ Len(Texts(N)[m]) >= 1
  <2> DEFINE z == Text(N, m)
             w == Joined(N, m, Texts(N)[N[m].next])
  <2>1. z \in Seq(Tokens) /\ w \in Seq(Tokens) /\ Texts(N)[m] = z \o w
    BY <1>2
  <2>2. z[1] = Start(N, m) /\ Len(z) >= 1
    BY <1>4
  <2> HIDE DEF z, w
  <2>3. (z \o w)[1] = z[1] /\ Len(z \o w) >= 1
    BY <2>1, <2>2
  <2> QED BY <2>1, <2>2, <2>3
<1>6. ASSUME N[n].kind = List
      PROVE  Text(N, n)[2] = IF N[n].first = Null THEN Mark(")") ELSE Start(N, N[n].first)
  <2>1. Text(N, n) = <<Mark("(")>> \o x \o <<Mark(")")>> /\ x \in Seq(Tokens)
    BY <1>3, <1>6 DEF Text, Written
  <2>2. CASE N[n].first = Null
    <3>1. x = <<>>
      BY <2>2, TextsUnfold
    <3> HIDE DEF x
    <3>2. (<<Mark("(")>> \o <<>> \o <<Mark(")")>>)[2] = Mark(")")
      OBVIOUS
    <3> QED BY <2>1, <2>2, <3>1, <3>2
  <2>3. CASE N[n].first # Null
    <3>1. N[n].first \in Live(N)
      BY <2>3 DEF LinksOK, LinkLive
    <3>2. x[1] = Start(N, N[n].first) /\ Len(x) >= 1
      BY <1>5, <3>1
    <3> HIDE DEF x
    <3>3. (<<Mark("(")>> \o x \o <<Mark(")")>>)[2] = x[1]
      BY <2>1, <3>2
    <3> QED BY <2>1, <2>3, <3>2, <3>3
  <2> QED BY <2>2, <2>3
<1> QED BY <1>4, <1>5, <1>6

(***************************************************************************)
(* A node has a name just when its text is that name or a list that starts *)
(* with it, unless it is an atom with children.                            *)
(***************************************************************************)
LEMMA NameInText ==
  ASSUME NEW N \in Table, LinksOK(N), NoSiblingCycle(N), NoParentCycle(N), NEW c \in Live(N),
         N[c].kind # List => N[c].first = Null, NEW v \in Values
  PROVE  (Word(v) = IF Text(N, c)[1] = Mark("(") THEN Text(N, c)[2] ELSE Text(N, c)[1])
           <=> HasName(N, c, v)
<1>1. v # List
  BY NodesAssumption
<1>2. CASE N[c].kind # List
  <2>1. Text(N, c)[1] = Word(N[c].kind)
    BY <1>2, TextStarts DEF Start
  <2> QED BY <1>2, <2>1, WordsDiffer DEF HasName
<1>3. CASE N[c].kind = List
  <2>1. /\ Text(N, c)[1] = Mark("(")
        /\ Text(N, c)[2] = IF N[c].first = Null THEN Mark(")") ELSE Start(N, N[c].first)
    BY <1>3, TextStarts DEF Start
  <2>2. CASE N[c].first = Null
    BY <1>1, <1>3, <2>1, <2>2, WordsDiffer DEF HasName
  <2>3. CASE N[c].first # Null
    BY <1>1, <2>1, <2>3, WordsDiffer DEF HasName, Start
  <2> QED BY <2>2, <2>3
<1> QED BY <1>2, <1>3

(***************************************************************************)
(* A set of indices has a least one.                                       *)
(***************************************************************************)
LEMMA LeastIndex ==
  ASSUME NEW n \in Nat, NEW H \in SUBSET (1 .. n), H # {}
  PROVE  \E i \in H : \A j \in H : i <= j
<1> DEFINE Upto(i) == {j \in H : j <= i}
           U == {Upto(i) : i \in H}
<1>1. IsFiniteSet(H)
  <2>1. IsFiniteSet(1 .. n)
    BY FS_Interval
  <2> QED BY <2>1, FS_Subset
<1>2. U \subseteq SUBSET H /\ U # {}
  OBVIOUS
<1>3. U \subseteq FiniteSubsetsOf(H)
  <2> HIDE DEF U
  <2> QED BY <1>1, <1>2, FS_FiniteSubsetsOfFinite
<1> HIDE DEF U
<1>4. PICK M \in U : \A L \in U : ~ (<<L, M>> \in StrictSubsetOrdering(H))
  BY <1>2, <1>3, FS_StrictSubsetOrderingWellFounded, WFMin
<1>5. PICK i \in H : M = Upto(i)
  BY DEF U
<1>6. ASSUME NEW j \in H, ~ (i <= j) PROVE FALSE
  <2>1. i \in Nat /\ j \in Nat /\ j < i
    BY <1>6
  <2>2. Upto(j) \in U
    BY DEF U
  <2>3. Upto(j) \subseteq M /\ Upto(j) # M
    <3>1. i \in M /\ i \notin Upto(j)
      BY <1>5, <2>1
    <3>2. \A k \in H : k <= j => k <= i
      BY <2>1
    <3> QED BY <1>5, <3>1, <3>2
  <2>4. Upto(j) \in SUBSET H /\ M \in SUBSET H
    BY <1>5
  <2> HIDE DEF Upto
  <2>5. <<Upto(j), M>> \in StrictSubsetOrdering(H)
    BY <2>3, <2>4 DEF StrictSubsetOrdering
  <2> QED BY <1>4, <2>2, <2>5
<1> QED BY <1>6

(***************************************************************************)
(* What is found by a name: the first child that has it.                   *)
(***************************************************************************)
FindsFirst(N, n, v, f) ==
  IF f = Null THEN \A i \in DOMAIN Yielded(N, n) : ~ HasName(N, Yielded(N, n)[i], v)
  ELSE \E k \in DOMAIN Yielded(N, n) :
         /\ f = Yielded(N, n)[k] /\ HasName(N, f, v)
         /\ \A i \in DOMAIN Yielded(N, n) : HasName(N, Yielded(N, n)[i], v) => k <= i

LEMMA NameFound ==
  ASSUME NEW N \in Table, LinksOK(N), NoSiblingCycle(N), NEW n \in Live(N), NEW v
  PROVE  FindsFirst(N, n, v, FindName(N, n, v))
<1> DEFINE s == Yielded(N, n)
           H == {i \in DOMAIN s : HasName(N, s[i], v)}
           f == FindName(N, n, v)
<1>1. s \in Seq(Live(N)) /\ Null \notin Live(N)
  BY YieldedChildren, TableCells DEF YieldsChildren
<1>2. DOMAIN s = 1 .. Len(s) /\ Len(s) \in Nat /\ \A i \in DOMAIN s : s[i] \in Live(N)
  <2> HIDE DEF s
  <2>1. DOMAIN s = 1 .. Len(s) /\ Len(s) \in Nat /\ \A i \in 1 .. Len(s) : s[i] \in Live(N)
    BY <1>1, LenProperties, ElementOfSeq
  <2> QED BY <2>1
<1>3. f = IF H = {} THEN Null ELSE s[CHOOSE i \in H : \A j \in H : i <= j]
  BY DEF FindName
<1> HIDE DEF s, f
<1>4. CASE H = {}
  <2>1. f = Null /\ \A i \in DOMAIN s : ~ HasName(N, s[i], v)
    BY <1>3, <1>4
  <2> QED BY <2>1 DEF FindsFirst, s, f
<1>5. CASE H # {}
  <2> DEFINE k == CHOOSE i \in H : \A j \in H : i <= j
  <2>1. H \in SUBSET (1 .. Len(s)) /\ Len(s) \in Nat
    BY <1>2
  <2>2. k \in H /\ \A j \in H : k <= j
    <3> HIDE DEF H
    <3>1. \E i \in H : \A j \in H : i <= j
      BY <1>5, <2>1, LeastIndex
    <3> QED BY <3>1
  <2>3. f = s[k]
    BY <1>3, <1>5
  <2> HIDE DEF k
  <2>4. /\ k \in DOMAIN s /\ f # Null /\ HasName(N, f, v)
        /\ \A i \in DOMAIN s : HasName(N, s[i], v) => k <= i
    BY <1>1, <1>2, <2>2, <2>3
  <2> QED BY <2>3, <2>4 DEF FindsFirst, s, f
<1> QED BY <1>4, <1>5
-----------------------------------------------------------------------------
(***************************************************************************)
(* A text can be read in one way only: where siblings are followed by a    *)
(* closing bracket, what comes before the bracket is known.                *)
(***************************************************************************)
Closed(x) == <<Mark(")")>> \o x

ReadsOneWay(N, a) ==
  \A b \in Live(N) \union {Null}, x, y \in Seq(Tokens) :
    Texts(N)[a] \o Closed(x) = Texts(N)[b] \o Closed(y) => Texts(N)[a] = Texts(N)[b] /\ x = y

(***************************************************************************)
(* What is joined to a non-empty sequence does not change how it starts.   *)
(***************************************************************************)
LEMMA StartKept ==
  ASSUME NEW T, NEW x \in Seq(T), NEW y \in Seq(T), Len(x) >= 1
  PROVE  (x \o y)[1] = x[1]
OBVIOUS

(***************************************************************************)
(* Joining what begins with one more token.                                *)
(***************************************************************************)
LEMMA ClosedSeq ==
  ASSUME NEW x \in Seq(Tokens)
  PROVE  Closed(x) \in Seq(Tokens) /\ Closed(x)[1] = Mark(")")
<1>1. Mark(")") \in Tokens
  BY DEF Tokens
<1>2. <<Mark(")")>> \in Seq(Tokens)
  BY <1>1
<1> DEFINE m == Mark(")")
<1> HIDE DEF m
<1>3. <<m>> \o x \in Seq(Tokens) /\ (<<m>> \o x)[1] = m
  BY <1>2 DEF m
<1> QED BY <1>3 DEF Closed, m

(***************************************************************************)
(* Sequences that start alike go on alike.                                 *)
(***************************************************************************)
LEMMA SameRest ==
  ASSUME NEW T, NEW x \in Seq(T), NEW y \in Seq(T), NEW z \in Seq(T), x \o y = x \o z
  PROVE  y = z
<1>1. Len(y) \in Nat /\ Len(z) \in Nat /\ Len(x) \in Nat
  BY LenProperties
<1>2. Len(x \o y) = Len(x) + Len(y) /\ Len(x \o z) = Len(x) + Len(z)
  BY ConcatProperties
<1>3. Len(y) = Len(z)
  BY <1>1, <1>2
<1>4. ASSUME NEW i \in 1 .. Len(y) PROVE y[i] = z[i]
  <2>1. (x \o y)[Len(x) + i] = y[i]
    BY <1>1
  <2>2. (x \o z)[Len(x) + i] = z[i]
    BY <1>1, <1>3
  <2> QED BY <2>1, <2>2
<1> QED BY <1>3, <1>4, SeqEqual

TextsPart(N, a, b) ==
  \A x, y \in Seq(Tokens) :
    Text(N, a) \o x = Text(N, b) \o y => Text(N, a) = Text(N, b) /\ x = y

(***************************************************************************)
(* The text of one node can be read in one way, if those of its children   *)
(* can.                                                                    *)
(***************************************************************************)
LEMMA NodeReads ==
  ASSUME NEW N \in Table, LinksOK(N), NoSiblingCycle(N), NoParentCycle(N),
         NEW a \in Live(N), ReadsOneWay(N, N[a].first),
         NEW b \in Live(N)
  PROVE  TextsPart(N, a, b)
<1> SUFFICES ASSUME NEW x \in Seq(Tokens), NEW y \in Seq(Tokens),
                    Text(N, a) \o x = Text(N, b) \o y
             PROVE  Text(N, a) = Text(N, b) /\ x = y
  BY DEF TextsPart
<1> DEFINE V == Seq(Tokens)
           t == Text(N, a)
           u == Text(N, b)
<1>1. t \in V /\ u \in V /\ t[1] = Start(N, a) /\ u[1] = Start(N, b)
  BY FrameText, TextStarts
<1>2. Len(t) >= 1 /\ Len(u) >= 1
  BY TextStarts
<1>3. Start(N, a) = Start(N, b)
  <2> HIDE DEF t, u
  <2>1. (t \o x)[1] = t[1] /\ (u \o y)[1] = u[1]
    BY <1>1, <1>2, StartKept
  <2>2. t \o x = u \o y
    BY DEF t, u
  <2> QED BY <1>1, <2>1, <2>2
<1>4. /\ N[a].kind = List <=> N[b].kind = List
      /\ N[a].kind = N[b].kind
  BY <1>3, WordsDiffer DEF Start
<1>5. CASE N[a].kind # List
  <2>1. t = u
    BY <1>4, <1>5 DEF Text, Written
  <2>2. x = y
    <3> HIDE DEF t, u
    <3>1. t \o x = t \o y
      BY <2>1 DEF t, u
    <3> QED BY <1>1, <3>1, SameRest
  <2> QED BY <2>1, <2>2
<1>6. CASE N[a].kind = List
  <2> DEFINE p == <<Mark("(")>>
             q == <<Mark(")")>>
             f == Texts(N)[N[a].first]
             g == Texts(N)[N[b].first]
  <2>1. t = p \o f \o q /\ u = p \o g \o q
    BY <1>4, <1>6 DEF Text, Written
  <2>2. p \in V /\ q \in V
    <3>1. Mark("(") \in Tokens /\ Mark(")") \in Tokens
      BY DEF Tokens
    <3> QED BY <3>1
  <2>3. f \in V /\ g \in V /\ N[b].first \in Live(N) \union {Null}
    <3>1. N[a].first \in Live(N) \union {Null} /\ N[b].first \in Live(N) \union {Null}
      BY DEF LinksOK, LinkLive
    <3> QED BY <3>1, TextsUnfold
  <2>4. Joins(V) /\ Regroups(V) /\ x \in V /\ y \in V
    BY SeqJoins
  <2>5. q \o x = Closed(x) /\ q \o y = Closed(y)
    BY DEF Closed
  <2>6. t \o x = u \o y
    OBVIOUS
  <2> HIDE DEF t, u, p, q, f, g, V
  <2>7. /\ (p \o f) \o q = p \o (f \o q) /\ (p \o g) \o q = p \o (g \o q)
        /\ f \o q \in V /\ g \o q \in V
    <3>1. (p \o f) \o q = p \o (f \o q)
      BY <2>2, <2>3, <2>4, SMTT(30) DEF Regroups
    <3>2. (p \o g) \o q = p \o (g \o q)
      BY <2>2, <2>3, <2>4, SMTT(30) DEF Regroups
    <3> QED BY <2>2, <2>3, <2>4, <3>1, <3>2 DEF Joins
  <2>8. (p \o (f \o q)) \o x = p \o (f \o Closed(x))
    <3>1. (p \o (f \o q)) \o x = p \o ((f \o q) \o x)
      BY <2>2, <2>4, <2>7, SMTT(30) DEF Regroups
    <3>2. (f \o q) \o x = f \o (q \o x)
      BY <2>2, <2>3, <2>4, SMTT(30) DEF Regroups
    <3> QED BY <2>5, <3>1, <3>2
  <2>9. (p \o (g \o q)) \o y = p \o (g \o Closed(y))
    <3>1. (p \o (g \o q)) \o y = p \o ((g \o q) \o y)
      BY <2>2, <2>4, <2>7, SMTT(30) DEF Regroups
    <3>2. (g \o q) \o y = g \o (q \o y)
      BY <2>2, <2>3, <2>4, SMTT(30) DEF Regroups
    <3> QED BY <2>5, <3>1, <3>2
  <2>10. f \o Closed(x) \in V /\ g \o Closed(y) \in V
    <3>1. Closed(x) \in V /\ Closed(y) \in V
      BY <2>2, <2>4, <2>5 DEF Joins
    <3> QED BY <2>3, <2>4, <3>1 DEF Joins
  <2>11. p \o (f \o Closed(x)) = p \o (g \o Closed(y))
    BY <2>1, <2>6, <2>7, <2>8, <2>9
  <2>12. f \o Closed(x) = g \o Closed(y)
    <3>1. /\ p \in Seq(Tokens)
          /\ f \o Closed(x) \in Seq(Tokens) /\ g \o Closed(y) \in Seq(Tokens)
      BY <2>2, <2>10 DEF V
    <3> QED BY <2>11, <3>1, SameRest
  <2>13. f = g /\ x = y
    BY <2>3, <2>12 DEF ReadsOneWay, f, g
  <2>14. t = u
    BY <2>1, <2>13
  <2> QED BY <2>13, <2>14 DEF t, u
<1> QED BY <1>5, <1>6

(***************************************************************************)
(* Marks are told apart, and none but an opening bracket starts a text.    *)
(***************************************************************************)
LEMMA MarksDiffer ==
  ASSUME NEW N \in Table, NEW n \in Live(N)
  PROVE  Mark(")") # Mark(" ") /\ Start(N, n) # Mark(")") /\ Start(N, n) # Mark(" ")
<1>1. Mark("(").mark = "(" /\ Mark(")").mark = ")" /\ Mark(" ").mark = " "
  BY DEF Mark
<1> HIDE DEF Mark
<1>2. Mark(")") # Mark(" ") /\ Mark("(") # Mark(")") /\ Mark("(") # Mark(" ")
  BY <1>1
<1> QED BY <1>2, WordsDiffer DEF Start

(***************************************************************************)
(* What follows a node among its siblings, closed by a bracket, starts     *)
(* with a space or with that bracket.                                      *)
(***************************************************************************)
LEMMA ClosedTexts ==
  ASSUME NEW N \in Table, LinksOK(N), NoSiblingCycle(N), NoParentCycle(N),
         NEW n \in Live(N), NEW x \in Seq(Tokens)
  PROVE  LET w == Texts(N)[N[n].next] \o Closed(x)
             z == IF N[n].next = Null THEN Closed(x) ELSE <<Mark(" ")>> \o w
         IN  /\ Texts(N)[n] \o Closed(x) = Text(N, n) \o z
             /\ w \in Seq(Tokens) /\ z \in Seq(Tokens) /\ <<Mark(" ")>> \in Seq(Tokens)
             /\ z[1] = IF N[n].next = Null THEN Mark(")") ELSE Mark(" ")
             /\ (Texts(N)[n] \o Closed(x))[1] = Start(N, n)
<1> DEFINE V == Seq(Tokens)
           t == Text(N, n)
           e == Texts(N)[N[n].next]
           j == Joined(N, n, e)
           c == Closed(x)
           p == <<Mark(" ")>>
           w == e \o c
           z == IF N[n].next = Null THEN c ELSE p \o w
           s == Texts(N)[n]
<1>1. t \in V /\ j \in V /\ s = t \o j
  BY FrameText
<1>2. e \in V
  <2>1. N[n].next \in Live(N) \union {Null}
    BY DEF LinksOK, LinkLive
  <2> QED BY <2>1, TextsUnfold
<1>3. c \in V /\ c[1] = Mark(")")
  BY ClosedSeq
<1>4. p \in V /\ p[1] = Mark(" ") /\ Len(p) >= 1
  <2> DEFINE m == Mark(" ")
  <2>1. m \in Tokens
    BY DEF Tokens
  <2> HIDE DEF m
  <2>2. <<m>> \in Seq(Tokens) /\ <<m>>[1] = m /\ Len(<<m>>) >= 1
    BY <2>1
  <2> QED BY <2>2, Zenon DEF m
<1>5. Joins(V) /\ Regroups(V) /\ <<>> \o c = c
  <2>1. <<>> \o c = c
    BY <1>3, ConcatEmptySeq
  <2> QED BY <2>1, SeqJoins
<1>6. j = IF N[n].next = Null THEN <<>> ELSE p \o e
  BY DEF Joined
<1>7. s \in V /\ Len(s) >= 1 /\ s[1] = Start(N, n)
  <2>1. s \in V
    BY TextsUnfold
  <2> QED BY <2>1, TextStarts
<1>8. (s \o c)[1] = Start(N, n)
  <2> HIDE DEF s, c
  <2> QED BY <1>3, <1>7, StartKept
<1> HIDE DEF V, t, e, j, c, p, s
<1>9. w \in V /\ z \in V
  BY <1>2, <1>3, <1>4, <1>5 DEF Joins
<1>10. (t \o j) \o c = t \o (j \o c)
  BY <1>1, <1>3, <1>5 DEF Regroups
<1>11. j \o c = z
  <2>1. CASE N[n].next = Null
    BY <1>5, <1>6, <2>1
  <2>2. CASE N[n].next # Null
    <3>1. (p \o e) \o c = p \o (e \o c)
      BY <1>2, <1>3, <1>4, <1>5 DEF Regroups
    <3> QED BY <1>6, <2>2, <3>1
  <2> QED BY <2>1, <2>2
<1>12. z[1] = IF N[n].next = Null THEN Mark(")") ELSE Mark(" ")
  <2>1. CASE N[n].next = Null
    BY <1>3, <2>1
  <2>2. CASE N[n].next # Null
    <3> HIDE DEF w
    <3>1. (p \o w)[1] = p[1]
      BY <1>4, <1>9, StartKept DEF V
    <3> QED BY <1>4, <2>2, <3>1
  <2> QED BY <2>1, <2>2
<1>13. s \o c = t \o z
  BY <1>1, <1>10, <1>11
<1> QED BY <1>4, <1>8, <1>9, <1>12, <1>13 DEF V, t, e, j, c, p, s

(***************************************************************************)
(* The texts of no siblings are read in one way.                           *)
(***************************************************************************)
LEMMA NoneRead ==
  ASSUME NEW N \in Table, LinksOK(N), NoSiblingCycle(N), NoParentCycle(N)
  PROVE  ReadsOneWay(N, Null)
<1> SUFFICES ASSUME NEW b \in Live(N) \union {Null}, NEW x \in Seq(Tokens), NEW y \in Seq(Tokens),
                    Texts(N)[Null] \o Closed(x) = Texts(N)[b] \o Closed(y)
             PROVE  Texts(N)[Null] = Texts(N)[b] /\ x = y
  BY DEF ReadsOneWay
<1>1. Closed(x) \in Seq(Tokens) /\ Closed(x)[1] = Mark(")")
  BY ClosedSeq
<1>2. Texts(N)[Null] \o Closed(x) = Closed(x)
  BY <1>1, TextsUnfold, ConcatEmptySeq
<1>3. b = Null
  <2> SUFFICES ASSUME b \in Live(N) PROVE FALSE
    OBVIOUS
  <2>1. (Texts(N)[b] \o Closed(y))[1] = Start(N, b)
    BY ClosedTexts
  <2> QED BY <1>1, <1>2, <2>1, MarksDiffer
<1>4. x = y
  <2>1. Closed(y) \in Seq(Tokens)
    BY ClosedSeq
  <2>2. Texts(N)[Null] \in Seq(Tokens)
    BY TextsUnfold
  <2>3. Closed(x) = Closed(y)
    BY <1>1, <1>3, <2>1, <2>2, SameRest
  <2>4. <<Mark(")")>> \in Seq(Tokens)
    <3>1. Mark(")") \in Tokens
      BY DEF Tokens
    <3> QED BY <3>1
  <2> QED BY <2>3, <2>4, SameRest DEF Closed
<1> QED BY <1>3, <1>4

(***************************************************************************)
(* Texts closed by a bracket are read in one way, those of a table below   *)
(* and after a node first.                                                 *)
(***************************************************************************)
LEMMA SiblingsRead ==
  ASSUME NEW N \in Table, LinksOK(N), NoSiblingCycle(N), NoParentCycle(N),
         NEW a \in Live(N), ReadsOneWay(N, N[a].first), ReadsOneWay(N, N[a].next)
  PROVE  ReadsOneWay(N, a)
<1> SUFFICES ASSUME NEW b \in Live(N) \union {Null}, NEW x \in Seq(Tokens), NEW y \in Seq(Tokens),
                    Texts(N)[a] \o Closed(x) = Texts(N)[b] \o Closed(y)
             PROVE  Texts(N)[a] = Texts(N)[b] /\ x = y
  BY DEF ReadsOneWay
<1>1. b \in Live(N)
  <2> SUFFICES ASSUME b = Null PROVE FALSE
    OBVIOUS
  <2>1. Texts(N)[Null] = <<>> /\ Closed(y) \in Seq(Tokens) /\ Closed(y)[1] = Mark(")")
    BY ClosedSeq, TextsUnfold
  <2>2. Texts(N)[b] \o Closed(y) = Closed(y)
    BY <2>1, ConcatEmptySeq
  <2>3. (Texts(N)[a] \o Closed(x))[1] = Start(N, a)
    BY ClosedTexts
  <2> QED BY <2>1, <2>2, <2>3, MarksDiffer
<1> DEFINE p == <<Mark(" ")>>
           v == Texts(N)[N[a].next] \o Closed(x)
           w == Texts(N)[N[b].next] \o Closed(y)
           c == IF N[a].next = Null THEN Closed(x) ELSE p \o v
           d == IF N[b].next = Null THEN Closed(y) ELSE p \o w
<1>2. /\ Texts(N)[a] \o Closed(x) = Text(N, a) \o c
      /\ v \in Seq(Tokens) /\ c \in Seq(Tokens) /\ p \in Seq(Tokens)
      /\ c[1] = IF N[a].next = Null THEN Mark(")") ELSE Mark(" ")
  BY ClosedTexts
<1>3. /\ Texts(N)[b] \o Closed(y) = Text(N, b) \o d
      /\ w \in Seq(Tokens) /\ d \in Seq(Tokens)
      /\ d[1] = IF N[b].next = Null THEN Mark(")") ELSE Mark(" ")
  BY <1>1, ClosedTexts
<1>4. Text(N, a) \o c = Text(N, b) \o d
  BY <1>2, <1>3
<1> HIDE DEF c, d
<1>5. Text(N, a) = Text(N, b) /\ c = d
  <2> HIDE DEF p, v, w
  <2>1. c \in Seq(Tokens) /\ d \in Seq(Tokens)
    BY <1>2, <1>3
  <2>2. TextsPart(N, a, b)
    BY <1>1, NodeReads
  <2> QED BY <1>4, <2>1, <2>2 DEF TextsPart
<1>6. N[a].next = Null <=> N[b].next = Null
  BY <1>2, <1>3, <1>5, MarksDiffer
<1>7. N[b].next \in Live(N) \union {Null}
  BY <1>1 DEF LinksOK, LinkLive
<1>8. Texts(N)[N[a].next] = Texts(N)[N[b].next] /\ x = y
  <2>1. CASE N[a].next = Null
    <3>1. Closed(x) = Closed(y)
      BY <1>5, <1>6, <2>1 DEF c, d
    <3>2. <<Mark(")")>> \in Seq(Tokens)
      <4>1. Mark(")") \in Tokens
        BY DEF Tokens
      <4> QED BY <4>1
    <3>3. x = y
      BY <3>1, <3>2, SameRest DEF Closed
    <3> QED BY <1>6, <2>1, <3>3
  <2>2. CASE N[a].next # Null
    <3>1. p \o v = p \o w
      BY <1>5, <1>6, <2>2 DEF c, d
    <3> HIDE DEF p, v, w
    <3>2. v = w
      BY <1>2, <1>3, <3>1, SameRest
    <3> QED BY <1>7, <3>2, ZenonT(30) DEF v, w, ReadsOneWay
  <2> QED BY <2>1, <2>2
<1>9. /\ Texts(N)[a] = Text(N, a) \o Joined(N, a, Texts(N)[N[a].next])
      /\ Texts(N)[b] = Text(N, b) \o Joined(N, b, Texts(N)[N[b].next])
  BY <1>1, FrameText
<1> QED BY <1>5, <1>6, <1>8, <1>9 DEF Joined

(***************************************************************************)
(* So are those of every node, as going down and on ends.                  *)
(***************************************************************************)
LEMMA AllRead ==
  ASSUME NEW N \in Table, LinksOK(N), NoSiblingCycle(N), NoParentCycle(N)
  PROVE  \A a \in Live(N) \union {Null} : ReadsOneWay(N, a)
<1> DEFINE S == {a \in Live(N) : ~ ReadsOneWay(N, a)}
<1>1. ReadsOneWay(N, Null)
  BY NoneRead
<1>2. S = {}
  <2> SUFFICES ASSUME S # {} PROVE FALSE
    OBVIOUS
  <2>1. S \in SUBSET Live(N)
    OBVIOUS
  <2>2. PICK n \in S : N[n].first \notin S /\ N[n].next \notin S
    <3> HIDE DEF S
    <3> QED BY <2>1, DescentEnds
  <2>3. N[n].first \in Live(N) \union {Null} /\ N[n].next \in Live(N) \union {Null}
    BY DEF LinksOK, LinkLive
  <2>4. ReadsOneWay(N, N[n].first) /\ ReadsOneWay(N, N[n].next)
    BY <1>1, <2>2, <2>3
  <2> QED BY <2>4, SiblingsRead
<1> QED BY <1>1, <1>2

(***************************************************************************)
(* Siblings have the same texts when the first have and the rest have; so  *)
(* they are as many.                                                       *)
(***************************************************************************)
LEMMA SiblingsSame ==
  ASSUME NEW N \in Table, LinksOK(N), NoSiblingCycle(N), NoParentCycle(N),
         NEW a \in Live(N), NEW b \in Live(N)
  PROVE  Texts(N)[a] = Texts(N)[b] <=>
           /\ Text(N, a) = Text(N, b)
           /\ N[a].next = Null <=> N[b].next = Null
           /\ Texts(N)[N[a].next] = Texts(N)[N[b].next]
<1>1. /\ Texts(N)[a] = Text(N, a) \o Joined(N, a, Texts(N)[N[a].next])
      /\ Texts(N)[b] = Text(N, b) \o Joined(N, b, Texts(N)[N[b].next])
  BY FrameText
<1>2. ASSUME Text(N, a) = Text(N, b), N[a].next = Null <=> N[b].next = Null,
             Texts(N)[N[a].next] = Texts(N)[N[b].next]
      PROVE  Texts(N)[a] = Texts(N)[b]
  BY <1>1, <1>2 DEF Joined
<1>3. ASSUME Texts(N)[a] = Texts(N)[b]
      PROVE  /\ Text(N, a) = Text(N, b)
             /\ N[a].next = Null <=> N[b].next = Null
             /\ Texts(N)[N[a].next] = Texts(N)[N[b].next]
  <2> DEFINE e == Closed(<<>>)
             p == <<Mark(" ")>>
             v == Texts(N)[N[a].next] \o e
             w == Texts(N)[N[b].next] \o e
             c == IF N[a].next = Null THEN e ELSE p \o v
             d == IF N[b].next = Null THEN e ELSE p \o w
  <2>0. <<>> \in Seq(Tokens)
    OBVIOUS
  <2>1. /\ Texts(N)[a] \o e = Text(N, a) \o c
        /\ v \in Seq(Tokens) /\ c \in Seq(Tokens) /\ p \in Seq(Tokens)
        /\ c[1] = IF N[a].next = Null THEN Mark(")") ELSE Mark(" ")
    BY <2>0, ClosedTexts
  <2>2. /\ Texts(N)[b] \o e = Text(N, b) \o d
        /\ w \in Seq(Tokens) /\ d \in Seq(Tokens)
        /\ d[1] = IF N[b].next = Null THEN Mark(")") ELSE Mark(" ")
    BY <2>0, ClosedTexts
  <2>3. Text(N, a) \o c = Text(N, b) \o d
    BY <1>3, <2>1, <2>2
  <2> HIDE DEF c, d
  <2>4. N[a].first \in Live(N) \union {Null} /\ N[a].next \in Live(N) \union {Null}
        /\ N[b].next \in Live(N) \union {Null}
    BY DEF LinksOK, LinkLive
  <2>5. ReadsOneWay(N, N[a].first) /\ ReadsOneWay(N, N[a].next)
    BY <2>4, AllRead
  <2>6. Text(N, a) = Text(N, b) /\ c = d
    <3> HIDE DEF p, v, w, e
    <3>1. c \in Seq(Tokens) /\ d \in Seq(Tokens)
      BY <2>1, <2>2
    <3>2. TextsPart(N, a, b)
      BY <2>5, NodeReads
    <3> QED BY <2>3, <3>1, <3>2 DEF TextsPart
  <2>7. N[a].next = Null <=> N[b].next = Null
    BY <2>1, <2>2, <2>6, MarksDiffer
  <2>8. Texts(N)[N[a].next] = Texts(N)[N[b].next]
    <3>1. CASE N[a].next = Null
      BY <2>7, <3>1
    <3>2. CASE N[a].next # Null
      <4>1. p \o v = p \o w
        BY <2>6, <2>7, <3>2 DEF c, d
      <4> HIDE DEF p, v, w, e
      <4>2. v = w
        BY <2>1, <2>2, <4>1, SameRest
      <4> QED BY <2>0, <2>4, <2>5, <4>2 DEF v, w, e, ReadsOneWay
    <3> QED BY <3>1, <3>2
  <2> QED BY <2>6, <2>7, <2>8
<1> QED BY <1>2, <1>3

(***************************************************************************)
(* How many siblings are left.                                             *)
(***************************************************************************)
LEMMA OnwardLength ==
  ASSUME NEW N \in Table, LinksOK(N), NoSiblingCycle(N)
  PROVE  /\ Len(Onward(N)[Null]) = 0
         /\ \A n \in Live(N) : /\ Len(Onward(N)[n]) \in Nat \ {0}
                              /\ Len(Onward(N)[n]) = 1 + Len(Onward(N)[N[n].next])
         /\ \A n \in Live(N) \union {Null} : Len(Onward(N)[n]) \in Nat
<1> DEFINE D == Live(N)
           o == Onward(N)
<1>1. o[Null] = <<>> /\ \A n \in D \union {Null} : o[n] \in Seq(D)
  BY OnwardUnfolds
<1>2. Len(o[Null]) = 0
  BY <1>1, EmptySeq
<1>3. \A n \in D \union {Null} : Len(o[n]) \in Nat
  BY <1>1, LenProperties
<1>4. ASSUME NEW n \in D PROVE Len(o[n]) = 1 + Len(o[N[n].next])
  <2> DEFINE y == o[N[n].next]
  <2>1. y \in Seq(D) /\ o[n] = <<n>> \o y
    BY <1>1, OnwardUnfolds DEF LinksOK, LinkLive
  <2> HIDE DEF y, D, o
  <2>2. Len(<<n>> \o y) = 1 + Len(y)
    BY <2>1
  <2> QED BY <2>1, <2>2 DEF y
<1>5. \A n \in D : N[n].next \in D \union {Null}
  BY DEF LinksOK, LinkLive
<1> HIDE DEF o, D
<1>6. \A n \in D : Len(o[n]) \in Nat \ {0}
  BY <1>3, <1>4, <1>5
<1> QED BY <1>2, <1>3, <1>4, <1>6 DEF o, D

(***************************************************************************)
(* Siblings whose texts are the same are as many.                          *)
(***************************************************************************)
LEMMA SameNumber ==
  ASSUME NEW N \in Table, LinksOK(N), NoSiblingCycle(N), NoParentCycle(N)
  PROVE  \A a, b \in Live(N) \union {Null} :
           Texts(N)[a] = Texts(N)[b] => Len(Onward(N)[a]) = Len(Onward(N)[b])
<1> DEFINE D == Live(N)
           t == Texts(N)
           o == Onward(N)
           OK(a) == \A b \in D \union {Null} : t[a] = t[b] => Len(o[a]) = Len(o[b])
           S == {a \in D : ~ OK(a)}
<1>1. /\ t[Null] = <<>> /\ \A n \in D : t[n] # <<>>
      /\ Null \notin D
  <2>1. ASSUME NEW n \in D PROVE t[n] # <<>>
    <3>1. Len(t[n]) >= 1
      BY TextStarts
    <3> QED BY <3>1
  <2> QED BY <2>1, TableCells, TextsUnfold
<1>2. OK(Null)
  BY <1>1
<1>3. \A n \in D : N[n].next \in D \union {Null}
  BY DEF LinksOK, LinkLive
<1>4. \A n \in D : Len(o[n]) = 1 + Len(o[N[n].next])
  BY OnwardLength
<1>5. S = {}
  <2> SUFFICES ASSUME S # {} PROVE FALSE
    OBVIOUS
  <2>1. S \in SUBSET D
    OBVIOUS
  <2>2. PICK n \in S : N[n].next \notin S
    <3> HIDE DEF S
    <3> QED BY <2>1 DEF NoSiblingCycle
  <2>3. N[n].next \in D \union {Null} /\ OK(N[n].next)
    BY <1>2, <1>3, <2>2
  <2>4. PICK b \in D \union {Null} : t[n] = t[b] /\ Len(o[n]) # Len(o[b])
    OBVIOUS
  <2>5. b \in D
    BY <1>1, <2>4
  <2>6. t[N[n].next] = t[N[b].next]
    BY <2>4, <2>5, SiblingsSame
  <2>7. Len(o[N[n].next]) = Len(o[N[b].next])
    BY <1>3, <2>3, <2>5, <2>6
  <2> QED BY <1>4, <2>4, <2>5, <2>7
<1> QED BY <1>2, <1>5

(***************************************************************************)
(* The lists of two nodes have the same text just when their children      *)
(* have.                                                                   *)
(***************************************************************************)
LEMMA ListsSame ==
  ASSUME NEW N \in Table, LinksOK(N), NoSiblingCycle(N), NoParentCycle(N),
         NEW a \in Live(N), NEW b \in Live(N), N[a].kind = List, N[b].kind = List
  PROVE  Text(N, a) = Text(N, b) <=> Texts(N)[N[a].first] = Texts(N)[N[b].first]
<1> DEFINE V == Seq(Tokens)
           p == <<Mark("(")>>
           q == <<Mark(")")>>
           f == Texts(N)[N[a].first]
           g == Texts(N)[N[b].first]
<1>1. Text(N, a) = p \o f \o q /\ Text(N, b) = p \o g \o q
  BY DEF Text, Written
<1>2. p \in V /\ q \in V /\ q = Closed(<<>>) /\ <<>> \in V
  <2>1. Mark("(") \in Tokens /\ Mark(")") \in Tokens
    BY DEF Tokens
  <2>2. p \in V /\ q \in V
    BY <2>1
  <2>3. q \o <<>> = q
    <3> HIDE DEF q
    <3> QED BY <2>2, ConcatEmptySeq
  <2> QED BY <2>2, <2>3 DEF Closed
<1>3. /\ N[a].first \in Live(N) \union {Null} /\ N[b].first \in Live(N) \union {Null}
      /\ f \in V /\ g \in V
  <2>1. N[a].first \in Live(N) \union {Null} /\ N[b].first \in Live(N) \union {Null}
    BY DEF LinksOK, LinkLive
  <2> QED BY <2>1, TextsUnfold
<1>4. ASSUME Text(N, a) = Text(N, b) PROVE f = g
  <2> HIDE DEF p, q, f, g, V
  <2>1. Joins(V) /\ Regroups(V)
    BY SeqJoins DEF V
  <2>2. (p \o f) \o q = p \o (f \o q)
    BY <1>2, <1>3, <2>1, SMTT(30) DEF Regroups
  <2>3. (p \o g) \o q = p \o (g \o q)
    BY <1>2, <1>3, <2>1, SMTT(30) DEF Regroups
  <2>4. f \o q \in V /\ g \o q \in V
    BY <1>2, <1>3, <2>1 DEF Joins
  <2>5. p \o (f \o q) = p \o (g \o q)
    BY <1>1, <1>4, <2>2, <2>3
  <2>6. f \o q = g \o q
    BY <1>2, <2>4, <2>5, SameRest DEF V
  <2>7. f \o Closed(<<>>) = g \o Closed(<<>>)
    BY <1>2, <2>6
  <2>8. ReadsOneWay(N, N[a].first)
    BY <1>3, AllRead
  <2> QED BY <1>2, <1>3, <2>7, <2>8 DEF ReadsOneWay, V, f, g
<1>5. ASSUME f = g PROVE Text(N, a) = Text(N, b)
  BY <1>1, <1>5
<1> QED BY <1>4, <1>5

(***************************************************************************)
(* Nodes that differ in kind, or lists in their counts, differ in text;    *)
(* atoms of one kind do not.                                               *)
(***************************************************************************)
LEMMA TextsDiffer ==
  ASSUME NEW N \in Table, WellFormed(N), NEW a \in Live(N), NEW b \in Live(N)
  PROVE  /\ N[a].kind # N[b].kind => Text(N, a) # Text(N, b)
         /\ N[a].kind = List /\ N[b].kind = List /\ N[a].count # N[b].count
              => Text(N, a) # Text(N, b)
         /\ N[a].kind # List /\ N[a].kind = N[b].kind => Text(N, a) = Text(N, b)
<1>1. LinksOK(N) /\ NoSiblingCycle(N) /\ NoParentCycle(N)
  BY DEF WellFormed
<1>2. ASSUME Text(N, a) = Text(N, b) PROVE N[a].kind = N[b].kind
  <2>1. Start(N, a) = Start(N, b)
    BY <1>1, <1>2, TextStarts
  <2> QED BY <2>1, WordsDiffer DEF Start
<1>3. ASSUME Text(N, a) = Text(N, b), N[a].kind = List, N[b].kind = List
      PROVE  N[a].count = N[b].count
  <2>1. Texts(N)[N[a].first] = Texts(N)[N[b].first]
    BY <1>1, <1>3, ListsSame
  <2>2. N[a].first \in Live(N) \union {Null} /\ N[b].first \in Live(N) \union {Null}
    BY <1>1 DEF LinksOK, LinkLive
  <2>3. Len(Onward(N)[N[a].first]) = Len(Onward(N)[N[b].first])
    BY <1>1, <2>1, <2>2, SameNumber
  <2> QED BY <2>3, YieldedCount DEF Yielded
<1>4. ASSUME N[a].kind # List, N[a].kind = N[b].kind PROVE Text(N, a) = Text(N, b)
  BY <1>4 DEF Text, Written
<1> QED BY <1>2, <1>3, <1>4

(***************************************************************************)
(* subtrees_equal so far, with the pairs of E on its stack and the         *)
(* children c and d next: l and r have the same text just when all that is *)
(* left has, and as many children are left on either side.                 *)
(***************************************************************************)
SameSoFar(N, l, r, E, c, d) ==
  /\ Text(N, l) = Text(N, r) <=>
       (\A p \in E : Text(N, p[1]) = Text(N, p[2])) /\ Texts(N)[c] = Texts(N)[d]
  /\ Len(Onward(N)[c]) = Len(Onward(N)[d])

(***************************************************************************)
(* A pair of children is put on the stack.                                 *)
(***************************************************************************)
LEMMA SamePushes ==
  ASSUME NEW N \in Table, LinksOK(N), NoSiblingCycle(N), NoParentCycle(N),
         NEW l, NEW r, NEW E, NEW c \in Live(N), NEW d \in Live(N),
         SameSoFar(N, l, r, E, c, d)
  PROVE  SameSoFar(N, l, r, E \union {<<c, d>>}, N[c].next, N[d].next)
<1> DEFINE x == N[c].next
           y == N[d].next
           o == Onward(N)
<1>1. x \in Live(N) \union {Null} /\ y \in Live(N) \union {Null}
  BY DEF LinksOK, LinkLive
<1>2. Len(o[x]) = Len(o[y])
  BY <1>1, OnwardLength, SMTT(30) DEF SameSoFar
<1>3. x = Null <=> y = Null
  BY <1>1, <1>2, OnwardLength
<1>4. Texts(N)[c] = Texts(N)[d] <=> Text(N, c) = Text(N, d) /\ Texts(N)[x] = Texts(N)[y]
  BY <1>3, SiblingsSame
<1> DEFINE t(n) == Text(N, n)
<1>5. (\A p \in E \union {<<c, d>>} : t(p[1]) = t(p[2])) <=>
        (\A p \in E : t(p[1]) = t(p[2])) /\ t(c) = t(d)
  <2> DEFINE z == <<c, d>>
  <2>1. z[1] = c /\ z[2] = d
    OBVIOUS
  <2> HIDE DEF z, t
  <2>2. (\A p \in E \union {z} : t(p[1]) = t(p[2])) <=>
          (\A p \in E : t(p[1]) = t(p[2])) /\ t(z[1]) = t(z[2])
    OBVIOUS
  <2> QED BY <2>1, <2>2 DEF z
<1> QED BY <1>2, <1>4, <1>5 DEF SameSoFar

(***************************************************************************)
(* It begins, and ends when no child is left on one side.                  *)
(***************************************************************************)
LEMMA SameBegins ==
  ASSUME NEW N \in Table, LinksOK(N), NoSiblingCycle(N), NoParentCycle(N),
         NEW l \in Live(N), NEW r \in Live(N)
  PROVE  SameSoFar(N, l, r, {<<l, r>>}, Null, Null)
<1> DEFINE t(n) == Text(N, n)
           z == <<l, r>>
<1>1. z[1] = l /\ z[2] = r
  OBVIOUS
<1>2. (\A p \in {z} : t(p[1]) = t(p[2])) <=> t(z[1]) = t(z[2])
  OBVIOUS
<1> QED BY <1>1, <1>2 DEF SameSoFar

(***************************************************************************)
(* No child is left on either side when none is left on one.               *)
(***************************************************************************)
LEMMA SameEnds ==
  ASSUME NEW N \in Table, LinksOK(N), NoSiblingCycle(N), NoParentCycle(N),
         NEW l, NEW r, NEW E, NEW c \in Live(N) \union {Null}, NEW d \in Live(N) \union {Null},
         SameSoFar(N, l, r, E, c, d), c = Null \/ d = Null
  PROVE  c = Null /\ d = Null
BY OnwardLength DEF SameSoFar

(***************************************************************************)
(* A pair is taken from the stack: equal atoms, or lists of one length.    *)
(***************************************************************************)
LEMMA SamePops ==
  ASSUME NEW N \in Table, WellFormed(N), NEW l, NEW r, NEW E,
         NEW a \in Live(N), NEW b \in Live(N),
         SameSoFar(N, l, r, E \union {<<a, b>>}, Null, Null)
  PROVE  /\ N[a].kind # List /\ N[a].kind = N[b].kind => SameSoFar(N, l, r, E, Null, Null)
         /\ N[a].kind = List /\ N[b].kind = List /\ N[a].count = N[b].count
              => SameSoFar(N, l, r, E, N[a].first, N[b].first)
<1>1. LinksOK(N) /\ NoSiblingCycle(N) /\ NoParentCycle(N)
  BY DEF WellFormed
<1> DEFINE t(n) == Text(N, n)
           Rest == \A p \in E : t(p[1]) = t(p[2])
<1>2. (t(l) = t(r)) <=> Rest /\ t(a) = t(b)
  <2> DEFINE z == <<a, b>>
  <2>1. z[1] = a /\ z[2] = b
    OBVIOUS
  <2>2. (t(l) = t(r)) <=> \A p \in E \union {z} : t(p[1]) = t(p[2])
    BY DEF SameSoFar
  <2> HIDE DEF z, t
  <2>3. (\A p \in E \union {z} : t(p[1]) = t(p[2])) <=> Rest /\ t(z[1]) = t(z[2])
    OBVIOUS
  <2> QED BY <2>1, <2>2, <2>3
<1>3. ASSUME N[a].kind # List, N[a].kind = N[b].kind PROVE SameSoFar(N, l, r, E, Null, Null)
  <2>1. t(a) = t(b)
    BY <1>3, TextsDiffer
  <2> QED BY <1>2, <2>1 DEF SameSoFar
<1>4. ASSUME N[a].kind = List, N[b].kind = List, N[a].count = N[b].count
      PROVE  SameSoFar(N, l, r, E, N[a].first, N[b].first)
  <2>1. t(a) = t(b) <=> Texts(N)[N[a].first] = Texts(N)[N[b].first]
    BY <1>1, <1>4, ListsSame
  <2>2. Len(Onward(N)[N[a].first]) = Len(Onward(N)[N[b].first])
    BY <1>4, YieldedCount DEF Yielded
  <2> QED BY <1>2, <2>1, <2>2 DEF SameSoFar
<1> QED BY <1>3, <1>4
-----------------------------------------------------------------------------
(***************************************************************************)
(* The sequence that follows the links from the first child of n.          *)
(***************************************************************************)
Chains(N, n, s) ==
  /\ s \in Seq(Live(N))
  /\ N[n].first = IF Len(s) = 0 THEN Null ELSE s[1]
  /\ \A i \in 1 .. Len(s) : N[s[i]].next = IF i < Len(s) THEN s[i + 1] ELSE Null

(***************************************************************************)
(* What the iterator yields is such a sequence.                            *)
(***************************************************************************)
LEMMA YieldedChains ==
  ASSUME NEW N \in Table, LinksOK(N), NoSiblingCycle(N), NEW n \in Live(N)
  PROVE  Chains(N, n, Yielded(N, n))
<1> DEFINE f == N[n].first
           s == Yielded(N, n)
<1>1. f \in Live(N) \union {Null}
  BY DEF LinksOK, LinkLive
<1>2. s \in Seq(Live(N)) /\ s = Onward(N)[f]
  BY <1>1, OnwardUnfolds DEF Yielded
<1>3. f = Null => Len(s) = 0
  BY <1>2, OnwardLength
<1>4. f # Null => ChainFrom(N, f, s)
  BY <1>1, <1>2, OnwardChain
<1>5. Len(s) \in Nat
  BY <1>2, LenProperties
<1> HIDE DEF f, s
<1>6. f = IF Len(s) = 0 THEN Null ELSE s[1]
  BY <1>3, <1>4, <1>5 DEF ChainFrom
<1>7. \A i \in 1 .. Len(s) : N[s[i]].next = IF i < Len(s) THEN s[i + 1] ELSE Null
  BY <1>3, <1>4, <1>5 DEF ChainFrom
<1> QED BY <1>2, <1>6, <1>7 DEF Chains, f, s

(***************************************************************************)
(* There is no other: two of them would differ first where the links of    *)
(* both lead on from the same node.                                        *)
(***************************************************************************)
LEMMA OneChain ==
  ASSUME NEW N \in Table, NEW n, NEW s, NEW t, Chains(N, n, s), Chains(N, n, t)
  PROVE  s = t
<1>1. /\ s \in Seq(Live(N)) /\ t \in Seq(Live(N)) /\ Null \notin Live(N)
      /\ Len(s) \in Nat /\ Len(t) \in Nat
      /\ \A i \in 1 .. Len(s) : s[i] \in Live(N)
      /\ \A i \in 1 .. Len(t) : t[i] \in Live(N)
  BY TableCells, LenProperties, ElementOfSeq DEF Chains
<1> DEFINE H == {i \in 1 .. Len(s) : ~ (i <= Len(t) /\ s[i] = t[i])}
<1>2. H = {}
  <2> SUFFICES ASSUME H # {} PROVE FALSE
    OBVIOUS
  <2>1. H \in SUBSET (1 .. Len(s))
    OBVIOUS
  <2>2. PICK k \in H : \A j \in H : k <= j
    <3> HIDE DEF H
    <3> QED BY <1>1, <2>1, LeastIndex
  <2>3. k \in 1 .. Len(s) /\ ~ (k <= Len(t) /\ s[k] = t[k])
    OBVIOUS
  <2>4. CASE k = 1
    <3>1. N[n].first = s[1] /\ s[1] # Null
      BY <1>1, <2>3, <2>4 DEF Chains
    <3>2. Len(t) # 0 /\ t[1] = s[1]
      BY <3>1 DEF Chains
    <3> QED BY <1>1, <2>3, <2>4, <3>2
  <2>5. CASE k # 1
    <3>1. PICK j \in 1 .. Len(s) : k = j + 1 /\ j < Len(s)
      <4>1. k - 1 \in 1 .. Len(s) /\ k = (k - 1) + 1 /\ k - 1 < Len(s)
        BY <1>1, <2>3, <2>5
      <4> QED BY <4>1
    <3>2. j \notin H
      <4> HIDE DEF H
      <4> QED BY <1>1, <2>2, <3>1
    <3>3. j \in 1 .. Len(t) /\ s[j] = t[j]
      BY <1>1, <3>1, <3>2
    <3>4. N[s[j]].next = s[j + 1] /\ s[j + 1] # Null
      BY <1>1, <2>3, <3>1 DEF Chains
    <3>5. N[t[j]].next = IF j < Len(t) THEN t[j + 1] ELSE Null
      BY <3>3 DEF Chains
    <3>6. j < Len(t) /\ t[j + 1] = s[j + 1]
      BY <3>3, <3>4, <3>5
    <3>7. k <= Len(t) /\ s[k] = t[k]
      BY <1>1, <3>1, <3>6
    <3> QED BY <2>3, <3>7
  <2> QED BY <2>4, <2>5
<1>3. \A i \in 1 .. Len(s) : i <= Len(t) /\ s[i] = t[i]
  BY <1>2
<1> HIDE DEF H
<1>4. Len(s) = Len(t)
  <2> SUFFICES ASSUME Len(s) # Len(t) PROVE FALSE
    OBVIOUS
  <2>1. CASE Len(s) = 0
    <3>1. t[1] # Null /\ N[n].first = t[1] /\ N[n].first = Null
      BY <1>1, <2>1 DEF Chains
    <3> QED BY <3>1
  <2>2. CASE Len(s) # 0
    <3>1. Len(s) \in 1 .. Len(s) /\ Len(s) < Len(t) /\ Len(s) \in 1 .. Len(t)
          /\ Len(s) + 1 \in 1 .. Len(t)
      BY <1>1, <1>3, <2>2
    <3>2. N[s[Len(s)]].next = Null
      BY <3>1 DEF Chains
    <3>3. N[t[Len(s)]].next = t[Len(s) + 1]
      BY <3>1 DEF Chains
    <3>4. s[Len(s)] = t[Len(s)] /\ t[Len(s) + 1] # Null
      BY <1>1, <1>3, <3>1
    <3> QED BY <3>2, <3>3, <3>4
  <2> QED BY <2>1, <2>2
<1> QED BY <1>1, <1>3, <1>4, SeqEqual

(***************************************************************************)
(* So a sequence that follows the links is what the iterator yields.       *)
(***************************************************************************)
LEMMA ChainYielded ==
  ASSUME NEW N \in Table, LinksOK(N), NoSiblingCycle(N), NEW n \in Live(N), NEW s
  PROVE  Chains(N, n, s) => Yielded(N, n) = s
BY YieldedChains, OneChain
=============================================================================

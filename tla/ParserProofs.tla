---------------------------- MODULE ParserProofs ----------------------------
(***************************************************************************)
(* What parse_bytes builds, for all inputs: every cut lies between two     *)
(* characters, the table is well-formed after every token, the outcome is  *)
(* what the brackets of the input say, and the tree is written as the      *)
(* canonical form of the source.                                           *)
(***************************************************************************)
EXTENDS RoundTrip, WalkProofs

Byte == 0 .. 255

-----------------------------------------------------------------------------
(***************************************************************************)
(* Atoms: as_str gives back the bytes new was given, whichever side of the *)
(* capacity they lie on, so that atoms are equal just when their texts are *)
(* (derive(PartialEq) compares the representations).                       *)
(***************************************************************************)
THEOREM AtomKeepsText ==
  ASSUME NEW s \in Seq(Byte)
  PROVE  AsStr(New(s)) = s
<1>1. Len(s) \in Nat /\ \A i \in 1 .. Len(s) : s[i] \in Byte
  BY LenProperties, ElementOfSeq
<1> DEFINE l == Len(s)
<1>0. l \in Nat
  BY <1>1
<1>2. CASE Len(s) <= InlineCap
  <2> DEFINE buf == [i \in 1 .. InlineCap |-> IF i <= Len(s) THEN s[i] ELSE 0]
  <2>1. Len(s) % 256 = Len(s)
    <3>1. \A k \in 0 .. 255 : k % 256 = k
      OBVIOUS
    <3>2. l <= InlineCap
      BY <1>2
    <3> HIDE DEF l
    <3>3. l \in 0 .. 255
      BY <1>0, <3>2, AtomAssumption
    <3> QED BY <3>1, <3>3 DEF l
  <2>2. New(s).inline /\ New(s).len = Len(s) /\ New(s).bytes = buf
    BY <1>2, <2>1 DEF New
  <2>3. AsStr(New(s)) = SubSeq(buf, 1, Len(s))
    BY <2>2 DEF AsStr
  <2>4. \A i \in 1 .. Len(s) : i \in 1 .. InlineCap /\ buf[i] = s[i]
    BY <1>1, <1>2, AtomAssumption
  <2> HIDE DEF buf
  <2>5. \A i \in 1 .. Len(s) : buf[i] \in Byte
    BY <1>1, <2>4
  <2>6. /\ SubSeq(buf, 1, Len(s)) \in Seq(Byte)
        /\ Len(SubSeq(buf, 1, Len(s))) = IF 1 <= Len(s) THEN Len(s) - 1 + 1 ELSE 0
        /\ \A i \in 1 .. Len(s) - 1 + 1 : SubSeq(buf, 1, Len(s))[i] = buf[1 + i - 1]
    BY <1>1, <2>5, SubSeqProperties
  <2>7. Len(SubSeq(buf, 1, Len(s))) = Len(s)
    BY <1>1, <2>6
  <2>8. \A i \in 1 .. Len(SubSeq(buf, 1, Len(s))) : SubSeq(buf, 1, Len(s))[i] = s[i]
    BY <1>1, <2>4, <2>6, <2>7
  <2> QED BY <2>3, <2>6, <2>7, <2>8, SeqEqual
<1>3. CASE ~ (Len(s) <= InlineCap)
  BY <1>3 DEF New, AsStr
<1> QED BY <1>2, <1>3

-----------------------------------------------------------------------------
(***************************************************************************)
(* A set of positions that is not empty has a least one.                   *)
(***************************************************************************)
LEMMA LeastPosition ==
  ASSUME NEW n \in Nat, NEW H \in SUBSET (1 .. n), H # {}
  PROVE  \E i \in H : \A j \in H : i <= j
<1> DEFINE T == {1 .. i : i \in H}
           R == StrictSubsetOrdering(1 .. n)
<1>1. IsFiniteSet(1 .. n)
  BY FS_Interval
<1>2. IsWellFoundedOn(R, SUBSET (1 .. n))
  BY <1>1, FS_StrictSubsetOrderingWellFounded, FS_FiniteSubsetsOfFinite
<1>3. T \subseteq SUBSET (1 .. n) /\ T # {}
  <2>1. \A i \in H : 1 .. i \subseteq 1 .. n
    OBVIOUS
  <2>2. PICK i \in H : TRUE
    OBVIOUS
  <2>3. 1 .. i \in T
    BY <2>2
  <2> QED BY <2>1, <2>3
<1>4. PICK x \in T : \A y \in T : ~ (<<y, x>> \in R)
  <2> HIDE DEF T, R
  <2> QED BY <1>2, <1>3, WFMin
<1>5. PICK i \in H : x = 1 .. i
  BY <1>4
<1>6. ASSUME NEW j \in H, ~ (i <= j) PROVE FALSE
  <2>1. 1 .. j \in T /\ (1 .. j) \subseteq x /\ i \in x /\ i \notin 1 .. j
    BY <1>5, <1>6
  <2>2. <<1 .. j, x>> \in R
    BY <1>3, <1>4, <2>1 DEF StrictSubsetOrdering
  <2> QED BY <1>4, <2>1, <2>2
<1> QED BY <1>6

(***************************************************************************)
(* position(..).unwrap_or(len): no byte of the classes before, one there.  *)
(***************************************************************************)
LEMMA PositionFacts ==
  ASSUME NEW s \in Seq(Byte), NEW classes
  PROVE  LET p == Position(s, classes)
         IN  /\ p \in 0 .. Len(s)
             /\ \A i \in 1 .. p : Stop(s[i]) \notin classes
             /\ p < Len(s) => Stop(s[p + 1]) \in classes
<1> DEFINE hits == {i \in 1 .. Len(s) : Stop(s[i]) \in classes}
<1>1. Len(s) \in Nat
  BY LenProperties
<1>2. CASE hits = {}
  BY <1>1, <1>2 DEF Position
<1>3. CASE hits # {}
  <2> DEFINE first == CHOOSE i \in hits : \A j \in hits : i <= j
  <2>1. \E i \in hits : \A j \in hits : i <= j
    <3> hits \in SUBSET (1 .. Len(s))
      OBVIOUS
    <3> HIDE DEF hits
    <3> QED BY <1>1, <1>3, LeastPosition
  <2>2. first \in hits /\ \A j \in hits : first <= j
    <3> HIDE DEF hits
    <3> QED BY <2>1
  <2>3. Position(s, classes) = first - 1
    BY <1>3 DEF Position
  <2> HIDE DEF first
  <2>4. first \in 1 .. Len(s) /\ Stop(s[first]) \in classes
    BY <2>2
  <2>5. \A i \in 1 .. first - 1 : Stop(s[i]) \notin classes
    BY <1>1, <2>2, <2>4
  <2> QED BY <1>1, <2>3, <2>4, <2>5
<1> QED BY <1>2, <1>3

(***************************************************************************)
(* A slice of a sequence, and a slice of what is left after a skip.        *)
(***************************************************************************)
LEMMA SliceFacts ==
  ASSUME NEW s \in Seq(Byte), NEW b \in 0 .. Len(s), NEW e \in b .. Len(s)
  PROVE  LET t == SubSeq(s, b + 1, e)
         IN  t \in Seq(Byte) /\ Len(t) = e - b /\ \A i \in 1 .. e - b : t[i] = s[b + i]
<1>1. Len(s) \in Nat /\ \A i \in 1 .. Len(s) : s[i] \in Byte
  BY LenProperties, ElementOfSeq
<1>2. \A i \in b + 1 .. e : s[i] \in Byte
  BY <1>1
<1>3. /\ SubSeq(s, b + 1, e) \in Seq(Byte)
      /\ Len(SubSeq(s, b + 1, e)) = IF b + 1 <= e THEN e - (b + 1) + 1 ELSE 0
      /\ \A i \in 1 .. e - (b + 1) + 1 : SubSeq(s, b + 1, e)[i] = s[b + 1 + i - 1]
  BY <1>1, <1>2, SubSeqProperties
<1> QED BY <1>1, <1>3

(***************************************************************************)
(* A slice of what a skip leaves is a slice of the whole.                  *)
(***************************************************************************)
LEMMA SliceOfSkip ==
  ASSUME NEW s \in Seq(Byte), NEW k \in 0 .. Len(s),
         NEW b \in 0 .. Len(s) - k, NEW e \in b .. Len(s) - k
  PROVE  SubSeq(Skip(s, k), b + 1, e) = SubSeq(s, k + b + 1, k + e)
<1>0. Len(s) \in Nat
  BY LenProperties
<1> DEFINE t == Skip(s, k)
           u == SubSeq(t, b + 1, e)
           v == SubSeq(s, k + b + 1, k + e)
<1>1. t \in Seq(Byte) /\ Len(t) = Len(s) - k /\ \A i \in 1 .. Len(s) - k : t[i] = s[k + i]
  BY <1>0, SliceFacts DEF Skip
<1>2. b \in 0 .. Len(t) /\ e \in b .. Len(t)
  BY <1>0, <1>1
<1>3. k + b \in 0 .. Len(s) /\ k + e \in k + b .. Len(s)
  BY <1>0
<1> HIDE DEF t
<1>4. u \in Seq(Byte) /\ Len(u) = e - b /\ \A i \in 1 .. e - b : u[i] = t[b + i]
  BY <1>1, <1>2, SliceFacts
<1>5. /\ v \in Seq(Byte) /\ Len(v) = (k + e) - (k + b)
      /\ \A i \in 1 .. (k + e) - (k + b) : v[i] = s[k + b + i]
  BY <1>3, SliceFacts
<1>6. Len(u) = Len(v) /\ \A i \in 1 .. Len(u) : u[i] = v[i]
  <2> HIDE DEF u, v
  <2>0. (k + e) - (k + b) = e - b
    BY <1>0
  <2>1. Len(u) = Len(v) /\ Len(u) = e - b
    BY <1>4, <1>5, <2>0
  <2>2. ASSUME NEW i \in 1 .. e - b PROVE u[i] = v[i]
    <3>1. b + i \in 1 .. Len(s) - k /\ k + (b + i) = k + b + i
      BY <1>0
    <3>2. u[i] = t[b + i] /\ t[b + i] = s[k + (b + i)]
      BY <1>1, <1>4, <3>1
    <3>3. v[i] = s[k + b + i]
      BY <1>5, <2>0
    <3> QED BY <3>1, <3>2, <3>3
  <2> QED BY <2>1, <2>2
<1> HIDE DEF u, v
<1>7. u = v
  BY <1>4, <1>5, <1>6, SeqEqual
<1> QED BY <1>7 DEF t, u, v

(***************************************************************************)
(* What the tokenizer finds: b bytes of whitespace are skipped and bytes   *)
(* b + 1 to e are consumed.                                                *)
(***************************************************************************)
Consumed(s, b, e, t) ==
  /\ t.remaining = Skip(s, e)
  /\ \A i \in 1 .. b : Stop(s[i]) = 2
  /\ \/ t.token = "end" /\ b = e /\ e = Len(s)
     \/ t.token = "left" /\ b + 1 = e /\ s[e] = LeftParen
     \/ t.token = "right" /\ b + 1 = e /\ s[e] = RightParen
     \/ /\ t.token = "atom" /\ b < e
        /\ t.text = SubSeq(s, b + 1, e)
        /\ \A i \in b + 1 .. e : Stop(s[i]) = 0
        /\ e < Len(s) => Stop(s[e + 1]) # 0

(***************************************************************************)
(* The next token consumes such bytes, whatever the sequence.              *)
(***************************************************************************)
LEMMA TokenConsumes ==
  ASSUME NEW s \in Seq(Byte)
  PROVE  \E b \in 0 .. Len(s) : \E e \in b .. Len(s) : Consumed(s, b, e, NextToken(s))
<1>0. Len(s) \in Nat /\ s # <<>> => Len(s) > 0
  BY LenProperties
<1> DEFINE b == Position(s, {0, 1})
           rest == Skip(s, b)
           n == Position(rest, {1, 2})
           e == b + n
<1>1. /\ b \in 0 .. Len(s)
      /\ b < Len(s) => Stop(s[b + 1]) \in {0, 1}
      /\ \A i \in 1 .. b : Stop(s[i]) = 2
  BY PositionFacts DEF Stop
<1>2. /\ rest \in Seq(Byte) /\ Len(rest) = Len(s) - b
      /\ \A i \in 1 .. Len(s) - b : rest[i] = s[b + i]
  <2> HIDE DEF b
  <2> QED BY <1>0, <1>1, SliceFacts DEF Skip
<1>3. /\ n \in 0 .. Len(rest)
      /\ n < Len(rest) => Stop(rest[n + 1]) \in {1, 2}
      /\ \A i \in 1 .. n : Stop(rest[i]) = 0
  <2> HIDE DEF rest
  <2>1. \A x : Stop(x) \in {0, 1, 2}
    BY DEF Stop
  <2>2. \A i \in 1 .. n : Stop(rest[i]) \notin {1, 2}
    BY <1>2, PositionFacts
  <2> QED BY <1>2, <2>1, <2>2, PositionFacts
<1>4. NextToken(s) = FoundAt(rest, SubSeq(rest, 1, n), Skip(rest, n))
  BY DEF NextToken
<1> HIDE DEF b, rest, n
<1>5. CASE b = Len(s)
  <2>1. rest = <<>>
    BY <1>0, <1>1, <1>2, <1>5, EmptySeq
  <2>2. Skip(s, Len(s)) = <<>>
    BY <1>0, SubSeqEmpty DEF Skip
  <2>3. NextToken(s).token = "end" /\ NextToken(s).remaining = <<>>
    BY <1>4, <2>1 DEF FoundAt, Found
  <2> QED BY <1>0, <1>1, <1>5, <2>2, <2>3 DEF Consumed
<1>6. CASE b # Len(s)
  <2>1. /\ b + 1 \in 1 .. Len(s) /\ rest # <<>> /\ rest[1] = s[b + 1]
        /\ Stop(s[b + 1]) \in {0, 1}
    <3>1. Len(rest) > 0
      BY <1>0, <1>1, <1>2, <1>6
    <3> QED BY <1>0, <1>1, <1>2, <1>6, <3>1, EmptySeq
  <2>2. CASE rest[1] \in {LeftParen, RightParen}
    <3>1. Tail(rest) = Skip(rest, 1)
      BY <1>2, <2>1, TailIsSubSeq DEF Skip
    <3>2. Skip(rest, 1) = Skip(s, b + 1)
      <4> DEFINE m == Len(rest)
      <4>1. m \in 1 .. Len(s) - b /\ 1 \in 0 .. Len(s) - b
        BY <1>0, <1>1, <1>2, <1>6
      <4>2. SubSeq(Skip(s, b), 1 + 1, m) = SubSeq(s, b + 1 + 1, b + m)
        <5> HIDE DEF m
        <5> QED BY <1>1, <4>1, SliceOfSkip
      <4>3. b + Len(rest) = Len(s)
        BY <1>0, <1>1, <1>2
      <4> QED BY <4>2, <4>3 DEF Skip, rest
    <3>3. /\ NextToken(s).remaining = Tail(rest)
          /\ \/ NextToken(s).token = "left" /\ rest[1] = LeftParen
             \/ NextToken(s).token = "right" /\ rest[1] = RightParen
      BY <1>4, <2>1, <2>2 DEF FoundAt, Found
    <3>5. Consumed(s, b, b + 1, NextToken(s))
      BY <1>1, <2>1, <3>1, <3>2, <3>3 DEF Consumed
    <3> QED BY <1>0, <1>1, <2>1, <3>5
  <2>3. CASE rest[1] \notin {LeftParen, RightParen}
    <3>1. Stop(s[b + 1]) = 0
      BY <2>1, <2>3 DEF Stop
    <3>2. n > 0
      BY <1>2, <1>3, <2>1, <3>1
    <3>3. /\ NextToken(s).token = "atom"
          /\ NextToken(s).text = SubSeq(rest, 1, n)
          /\ NextToken(s).remaining = Skip(rest, n)
      <4>1. rest # <<>> /\ rest[1] # LeftParen /\ rest[1] # RightParen
        BY <2>1, <2>3
      <4>2. NextToken(s) = Found("atom", SubSeq(rest, 1, n), Skip(rest, n))
        BY <1>4, <4>1 DEF FoundAt
      <4> DEFINE x == SubSeq(rest, 1, n)
                 y == Skip(rest, n)
                 t == NextToken(s)
      <4>3. t = [token |-> "atom", text |-> x, remaining |-> y]
        BY <4>2 DEF Found
      <4> HIDE DEF t, x, y
      <4>4. t.token = "atom" /\ t.text = x /\ t.remaining = y
        BY <4>3
      <4> QED BY <4>4 DEF t, x, y
    <3>4. e \in b .. Len(s) /\ n \in 0 .. Len(s) - b /\ b < e
      BY <1>0, <1>1, <1>2, <1>3, <3>2
    <3>5. SubSeq(rest, 1, n) = SubSeq(s, b + 1, e)
      <4>0. 0 \in 0 .. Len(s) - b
        BY <1>0, <1>1
      <4>1. SubSeq(Skip(s, b), 0 + 1, n) = SubSeq(s, b + 0 + 1, b + n)
        BY <1>1, <3>4, <4>0, SliceOfSkip
      <4>2. 0 + 1 = 1 /\ b + 0 + 1 = b + 1
        BY <1>1
      <4> QED BY <4>1, <4>2 DEF rest
    <3>6. Skip(rest, n) = Skip(s, e)
      <4> DEFINE m == Len(rest)
      <4>1. m \in n .. Len(s) - b
        BY <1>0, <1>1, <1>2, <1>3
      <4>2. SubSeq(Skip(s, b), n + 1, m) = SubSeq(s, b + n + 1, b + m)
        <5> HIDE DEF m
        <5> QED BY <1>1, <3>4, <4>1, SliceOfSkip
      <4>3. b + Len(rest) = Len(s)
        BY <1>0, <1>1, <1>2
      <4> QED BY <4>2, <4>3 DEF Skip, rest
    <3>7. e < Len(s) => Stop(s[e + 1]) # 0
      <4> SUFFICES ASSUME e < Len(s) PROVE Stop(s[e + 1]) # 0
        OBVIOUS
      <4>1. n < Len(rest) /\ n + 1 \in 1 .. Len(s) - b /\ b + (n + 1) = e + 1
        BY <1>0, <1>1, <1>2, <1>3
      <4>2. rest[n + 1] = s[e + 1]
        BY <1>2, <4>1
      <4> QED BY <1>3, <4>1, <4>2
    <3>8. \A i \in b + 1 .. e : Stop(s[i]) = 0
      <4> SUFFICES ASSUME NEW i \in b + 1 .. e PROVE Stop(s[i]) = 0
        OBVIOUS
      <4>1. i - b \in 1 .. n /\ i - b \in 1 .. Len(s) - b /\ b + (i - b) = i
        BY <1>0, <1>1, <1>2, <1>3
      <4>2. rest[i - b] = s[i]
        BY <1>2, <4>1
      <4> QED BY <1>3, <4>1, <4>2
    <3>9. Consumed(s, b, e, NextToken(s))
      BY <1>1, <3>3, <3>4, <3>5, <3>6, <3>7, <3>8 DEF Consumed
    <3> QED BY <1>1, <3>4, <3>9
  <2> QED BY <2>2, <2>3
<1> QED BY <1>5, <1>6

-----------------------------------------------------------------------------
(***************************************************************************)
(* UTF-8: a sequence may be cut where no byte continues a character.       *)
(***************************************************************************)
CutAt(s, b) == b < Len(s) => ~ Continues(s[b + 1])

(***************************************************************************)
(* What lies between two cuts is UTF-8 when the whole is.                  *)
(***************************************************************************)
LEMMA BetweenCuts ==
  ASSUME NEW s \in Seq(Byte), IsUtf8(s),
         NEW b \in 0 .. Len(s), NEW e \in b .. Len(s), CutAt(s, b), CutAt(s, e)
  PROVE  IsUtf8(SubSeq(s, b + 1, e))
<1> DEFINE t == SubSeq(s, b + 1, e)
<1>0. Len(s) \in Nat
  BY LenProperties
<1>1. Len(t) = e - b /\ \A i \in 1 .. e - b : t[i] = s[b + i]
  BY SliceFacts
<1> HIDE DEF t
<1>2. \A x : Width(x) \in 0 .. 4
  BY DEF Width
<1>3. ASSUME NEW i \in 1 .. e - b, Continues(t[i])
      PROVE  \E j \in 1 .. i - 1 :
               i - j < Width(t[j]) /\ \A k \in j + 1 .. i : Continues(t[k])
  <2>1. b + i \in 1 .. Len(s) /\ Continues(s[b + i])
    BY <1>0, <1>1, <1>3
  <2>2. PICK j \in 1 .. b + i - 1 :
          b + i - j < Width(s[j]) /\ \A k \in j + 1 .. b + i : Continues(s[k])
    BY <2>1 DEF IsUtf8
  <2>3. j > b
    <3> SUFFICES ASSUME j <= b PROVE FALSE
      BY <1>0
    <3>1. b + 1 \in j + 1 .. b + i /\ b < Len(s)
      BY <1>0
    <3> QED BY <2>2, <3>1 DEF CutAt
  <2> DEFINE q == j - b
  <2>4. q \in 1 .. i - 1 /\ q \in 1 .. e - b /\ b + q = j /\ b + i - j = i - q
    BY <1>0, <2>3
  <2>5. t[q] = s[j]
    BY <1>1, <2>4
  <2>6. ASSUME NEW k \in q + 1 .. i PROVE Continues(t[k])
    <3>1. k \in 1 .. e - b /\ b + k \in j + 1 .. b + i
      BY <1>0, <2>4
    <3> QED BY <1>1, <2>2, <3>1
  <2> QED BY <2>2, <2>4, <2>5, <2>6
<1>4. ASSUME NEW i \in 1 .. e - b, ~ Continues(t[i])
      PROVE  /\ Width(t[i]) > 0
             /\ i + Width(t[i]) - 1 <= e - b
             /\ \A k \in i + 1 .. i + Width(t[i]) - 1 : Continues(t[k])
             /\ Width(t[i]) > 1 => t[i + 1] \in Second(t[i])
  <2> DEFINE w == Width(s[b + i])
  <2>1. b + i \in 1 .. Len(s) /\ ~ Continues(s[b + i]) /\ t[i] = s[b + i]
    BY <1>0, <1>1, <1>4
  <2>2. /\ w > 0 /\ b + i + w - 1 <= Len(s)
        /\ \A k \in b + i + 1 .. b + i + w - 1 : Continues(s[k])
        /\ w > 1 => s[b + i + 1] \in Second(s[b + i])
    BY <2>1 DEF IsUtf8
  <2>3. w \in 0 .. 4
    BY <1>2
  <2> HIDE DEF w
  <2>4. i + w - 1 <= e - b
    <3> SUFFICES ASSUME i + w - 1 > e - b PROVE FALSE
      BY <1>0, <2>3
    <3>1. e + 1 \in b + i + 1 .. b + i + w - 1 /\ e < Len(s)
      BY <1>0, <2>2, <2>3
    <3> QED BY <2>2, <3>1 DEF CutAt
  <2>5. ASSUME NEW k \in i + 1 .. i + w - 1 PROVE Continues(t[k])
    <3>1. k \in 1 .. e - b /\ b + k \in b + i + 1 .. b + i + w - 1
      BY <1>0, <2>3, <2>4
    <3> QED BY <1>1, <2>2, <3>1
  <2>6. ASSUME w > 1 PROVE t[i + 1] \in Second(t[i])
    <3>1. i + 1 \in 1 .. e - b /\ b + (i + 1) = b + i + 1
      BY <1>0, <2>3, <2>4, <2>6
    <3>2. t[i + 1] = s[b + i + 1]
      BY <1>1, <3>1
    <3> QED BY <2>1, <2>2, <2>6, <3>2
  <2> QED BY <2>1, <2>2, <2>4, <2>5, <2>6 DEF w
<1>5. \A i \in 1 .. Len(t) : i \in 1 .. e - b
  BY <1>1
<1>6. IsUtf8(t)
  BY <1>1, <1>3, <1>4, <1>5 DEF IsUtf8
<1> QED BY <1>6 DEF t

(***************************************************************************)
(* Brackets and whitespace are characters of one byte.                     *)
(***************************************************************************)
LEMMA StopIsAscii ==
  ASSUME NEW x, Stop(x) # 0
  PROVE  ~ Continues(x) /\ Width(x) = 1
BY DEF Stop, Continues, Width, LeftParen, RightParen, Blanks

(***************************************************************************)
(* Both ends of what the tokenizer consumes are cuts.                      *)
(***************************************************************************)
LEMMA Cuts ==
  ASSUME NEW s \in Seq(Byte), IsUtf8(s), NEW b \in 0 .. Len(s),
         \/ b = 0
         \/ b = Len(s)
         \/ b > 0 /\ Stop(s[b]) # 0
         \/ b < Len(s) /\ Stop(s[b + 1]) # 0
  PROVE  CutAt(s, b)
<1>0. Len(s) \in Nat
  BY LenProperties
<1>1. CASE b = Len(s)
  BY <1>0, <1>1 DEF CutAt
<1>2. CASE b < Len(s) /\ Stop(s[b + 1]) # 0
  BY <1>2, StopIsAscii DEF CutAt
<1>3. CASE b = 0 \/ (b > 0 /\ Stop(s[b]) # 0)
  <2> SUFFICES ASSUME b < Len(s), Continues(s[b + 1]) PROVE FALSE
    BY DEF CutAt
  <2>1. b + 1 \in 1 .. Len(s)
    BY <1>0
  <2>2. PICK j \in 1 .. (b + 1) - 1 :
          (b + 1) - j < Width(s[j]) /\ \A k \in j + 1 .. b + 1 : Continues(s[k])
    BY <2>1 DEF IsUtf8
  <2>3. b > 0 /\ ~ Continues(s[b]) /\ Width(s[b]) = 1
    BY <1>3, <2>2, StopIsAscii
  <2>4. CASE j = b
    BY <2>2, <2>3, <2>4
  <2>5. CASE j # b
    <3>1. b \in j + 1 .. b + 1
      BY <2>2, <2>5
    <3> QED BY <2>2, <2>3, <3>1
  <2> QED BY <2>4, <2>5
<1> QED BY <1>1, <1>2, <1>3

(***************************************************************************)
(* One token of the rest r of a source s.                                  *)
(***************************************************************************)
LEMMA SkipTwice ==
  ASSUME NEW s \in Seq(Byte), NEW k \in 0 .. Len(s), NEW e \in 0 .. Len(s) - k
  PROVE  Skip(Skip(s, k), e) = Skip(s, k + e)
<1>0. Len(s) \in Nat
  BY LenProperties
<1> DEFINE m == Len(s) - k
<1>1. Len(Skip(s, k)) = m
  BY <1>0, SliceFacts DEF Skip
<1>2. m \in e .. Len(s) - k /\ k + m = Len(s)
  BY <1>0
<1>3. SubSeq(Skip(s, k), e + 1, m) = SubSeq(s, k + e + 1, k + m)
  <2> HIDE DEF m
  <2> QED BY <1>2, SliceOfSkip
<1> QED BY <1>1, <1>2, <1>3 DEF Skip

(***************************************************************************)
(* A token of a suffix of the source leaves a shorter suffix, and its text *)
(* is a slice of the source; both are UTF-8 when the suffix is.            *)
(***************************************************************************)
LEMMA TokenOfRest ==
  ASSUME NEW s \in Seq(Byte), NEW r \in Seq(Byte), Len(r) <= Len(s),
         r = Skip(s, Len(s) - Len(r)), NEW t, t = NextToken(r)
  PROVE  /\ t.remaining \in Seq(Byte)
         /\ Len(t.remaining) <= Len(r)
         /\ t.remaining = Skip(s, Len(s) - Len(t.remaining))
         /\ t.token \in {"left", "right", "atom"} => Len(t.remaining) < Len(r)
         /\ t.token = "atom" =>
              t.text \in Seq(Byte) /\ \E i, j \in 1 .. Len(s) : t.text = SubSeq(s, i, j)
         /\ IsUtf8(r) => IsUtf8(t.remaining) /\ (t.token = "atom" => IsUtf8(t.text))
<1>0. Len(s) \in Nat /\ Len(r) \in Nat
  BY LenProperties
<1> DEFINE k == Len(s) - Len(r)
<1>1. PICK b \in 0 .. Len(r) : \E e \in b .. Len(r) : Consumed(r, b, e, t)
  BY TokenConsumes
<1>2. PICK e \in b .. Len(r) : Consumed(r, b, e, t)
  BY <1>1
<1>3. k \in 0 .. Len(s) /\ e \in 0 .. Len(r) /\ Len(r) = Len(s) - k /\ r = Skip(s, k)
  BY <1>0
<1>4. /\ t.remaining = Skip(r, e)
      /\ t.remaining \in Seq(Byte) /\ Len(t.remaining) = Len(r) - e
  <2>1. t.remaining = Skip(r, e) /\ Len(r) \in e .. Len(r)
    BY <1>0, <1>2 DEF Consumed
  <2>2. LET u == SubSeq(r, e + 1, Len(r)) IN u \in Seq(Byte) /\ Len(u) = Len(r) - e
    BY <1>3, <2>1, SliceFacts
  <2> QED BY <2>1, <2>2 DEF Skip
<1>5. t.remaining = Skip(s, Len(s) - Len(t.remaining))
  <2>1. Skip(Skip(s, k), e) = Skip(s, k + e)
    <3> HIDE DEF k
    <3> QED BY <1>3, SkipTwice
  <2>2. k + e = Len(s) - Len(t.remaining)
    BY <1>0, <1>4
  <2> QED BY <1>3, <1>4, <2>1, <2>2
<1>6. t.token \in {"left", "right", "atom"} => e > 0
  BY <1>0, <1>2 DEF Consumed
<1>7. ASSUME t.token = "atom"
      PROVE  t.text \in Seq(Byte) /\ \E i, j \in 1 .. Len(s) : t.text = SubSeq(s, i, j)
  <2>1. t.text = SubSeq(r, b + 1, e) /\ b < e
    BY <1>2, <1>7 DEF Consumed
  <2>2. SubSeq(Skip(s, k), b + 1, e) = SubSeq(s, k + b + 1, k + e)
    <3>1. b \in 0 .. Len(s) - k /\ e \in b .. Len(s) - k
      BY <1>3
    <3> HIDE DEF k
    <3> QED BY <1>3, <3>1, SliceOfSkip
  <2>3. k + b + 1 \in 1 .. Len(s) /\ k + e \in 1 .. Len(s)
    BY <1>0, <1>3, <2>1
  <2>4. t.text \in Seq(Byte)
    BY <2>1, SliceFacts
  <2> QED BY <1>3, <2>1, <2>2, <2>3, <2>4
<1>8. ASSUME IsUtf8(r)
      PROVE  IsUtf8(t.remaining) /\ (t.token = "atom" => IsUtf8(t.text))
  <2>1. CutAt(r, Len(r))
    BY <1>0 DEF CutAt
  <2>2. CutAt(r, e)
    <3>1. \/ e = Len(r)
          \/ e > 0 /\ Stop(r[e]) # 0
          \/ e < Len(r) /\ Stop(r[e + 1]) # 0
      BY <1>0, <1>2 DEF Consumed, Stop
    <3> QED BY <1>3, <1>8, <3>1, Cuts
  <2>3. Len(r) \in e .. Len(r)
    BY <1>0
  <2>4. IsUtf8(Skip(r, e))
    BY <1>3, <1>8, <2>1, <2>2, <2>3, BetweenCuts DEF Skip
  <2>5. ASSUME t.token = "atom" PROVE IsUtf8(t.text)
    <3>1. t.text = SubSeq(r, b + 1, e) /\ (b > 0 => Stop(r[b]) # 0)
      <4>1. b > 0 => b \in 1 .. b
        BY <1>0
      <4> QED BY <1>2, <2>5, <4>1 DEF Consumed
    <3>2. CutAt(r, b)
      <4>1. b = 0 \/ (b > 0 /\ Stop(r[b]) # 0)
        BY <1>0, <3>1
      <4> QED BY <1>8, <4>1, Cuts
    <3> QED BY <1>8, <2>2, <3>1, <3>2, BetweenCuts
  <2> QED BY <1>4, <2>4, <2>5
<1> QED BY <1>0, <1>3, <1>4, <1>5, <1>6, <1>7, <1>8

-----------------------------------------------------------------------------
(***************************************************************************)
(* link_child on a fresh node is the append of mutation.rs, which does not *)
(* rely on the links of the node being None.                               *)
(***************************************************************************)
LEMMA LinkChildIsLinkLast ==
  ASSUME NEW N \in Table, NEW p \in Live(N), NEW c \in Live(N), p # c,
         NEW k \in Kinds, N[c] = NewNode(k), N[p].last # c
  PROVE  LinkChild(N, p, c) = LinkLast(N, p, c)
<1> DEFINE l == N[p].last
           P == [N EXCEPT ![c].parent = p]
           A == [N EXCEPT ![c].parent = p, ![c].prev = l, ![c].next = Null]
<1>0. c \in Slots /\ N \in [Slots -> Node \union {Vacant}]
      /\ N[c].prev = Null /\ N[c].next = Null
  BY DEF Live, Table, NewNode
<1>1. CASE l = Null
  <2>1. P[c] = A[c]
    BY <1>0, <1>1 DEF NewNode
  <2>2. P = A
    BY <1>0, <2>1
  <2> HIDE DEF P, A
  <2> QED BY <1>1, <2>2 DEF LinkChild, LinkLast, P, A
<1>2. CASE l # Null
  <2> DEFINE P2 == [P EXCEPT ![l].next = c, ![c].prev = l]
             A2 == [A EXCEPT ![l].next = c]
  <2>1. P2[c] = A2[c]
    BY <1>0 DEF NewNode
  <2>2. \A n \in Slots \ {c} : P2[n] = A2[n]
    BY <1>0
  <2>3. P2 = A2
    BY <1>0, <2>1, <2>2
  <2>4. LinkChild(N, p, c) = [P2 EXCEPT ![p].last = c, ![p].count = @ + 1]
    BY <1>2, Zenon DEF LinkChild
  <2>5. LinkLast(N, p, c) = [A2 EXCEPT ![p].last = c, ![p].count = @ + 1]
    BY <1>2, Zenon DEF LinkLast
  <2> HIDE DEF P2, A2
  <2> QED BY <2>3, <2>4, <2>5
<1> QED BY <1>1, <1>2

(***************************************************************************)
(* A fresh node below a live one.                                          *)
(***************************************************************************)
LEMMA FreshChild ==
  ASSUME NEW N \in Table, WellFormed(N), NEW c \in Slots, N[c] = Vacant,
         NEW k \in Kinds, NEW p \in Live(N),
         NEW M, M = LinkChild(Allocate(N, c, k), p, c)
  PROVE  /\ M \in Table
         /\ Live(M) = Live(N) \union {c}
         /\ WellFormed(M)
         /\ \A n \in Live(N) :
              /\ M[n].parent = N[n].parent /\ M[n].kind = N[n].kind
              /\ M[n].next = IF n = N[p].last THEN c ELSE N[n].next
              /\ M[n].first = IF n = p /\ N[p].last = Null THEN c ELSE N[n].first
              /\ M[n].last = IF n = p THEN c ELSE N[n].last
         /\ M[c].parent = p /\ M[c].kind = k
         /\ M[c].next = Null /\ M[c].first = Null /\ M[c].last = Null
<1> DEFINE A == Allocate(N, c, k)
<1>1. /\ A \in Table /\ Live(A) = Live(N) \union {c}
      /\ \A n \in Live(N) : A[n] = N[n]
      /\ A[c] = NewNode(k)
  BY AllocKeeps
<1> HIDE DEF A
<1>2. c \notin Live(N) /\ p # c /\ Null \notin Slots /\ p \in Slots
  BY TableCells DEF Live
<1>3. N[p].last \in Live(N) \union {Null}
  BY DEF WellFormed, LinksOK, LinkLive
<1>4. A[p].last # c
  BY <1>1, <1>2, <1>3
<1>5. M = LinkLast(A, p, c)
  BY <1>1, <1>2, <1>4, LinkChildIsLinkLast DEF A
<1> QED BY <1>2, <1>5, FreshLast DEF A

-----------------------------------------------------------------------------
(***************************************************************************)
(* The inductive invariant.  The keys are handed out in order and there    *)
(* are no more of them than bytes consumed, so that the next one is always *)
(* vacant; what has no parent is what top_level holds.                     *)
(***************************************************************************)
Numbered == \E k \in Nat : Live(nodes) = 0 .. k - 1 /\ k + Len(remaining) <= Len(input)

TopsAreRoots ==
  {n \in Live(nodes) : nodes[n].parent = Null} = {top[i] : i \in 1 .. Len(top)}

ParseInv ==
  /\ ParseTypeOK
  /\ input \in Sources
  /\ remaining \in Seq(Byte)
  /\ WellFormed(nodes)
  /\ outcome # "bare" => Numbered
  /\ \A i \in 1 .. Len(open) : open[i] \in Live(nodes)
  /\ TopsAreRoots
  /\ outcome \in {"tree", "bare"} => Len(top) = 1
  /\ outcome = "given" => remaining = input /\ nodes = Empty
  /\ CutsWhole

(***************************************************************************)
(* What is assumed of a source.                                            *)
(***************************************************************************)
LEMMA SourceFacts ==
  ASSUME NEW s \in Sources
  PROVE  /\ s \in Seq(Byte) /\ Len(s) \in Nat /\ Len(s) <= MaxLen
         /\ \A i, j \in 1 .. Len(s) : New(SubSeq(s, i, j)) \in Values
         /\ MaxLen \in Nat /\ Slots = 0 .. MaxLen
BY ParserAssumption, LenProperties DEF Byte

(***************************************************************************)
(* The table of a new slab.                                                *)
(***************************************************************************)
LEMMA EmptyTable ==
  /\ Empty \in Table /\ Live(Empty) = {} /\ WellFormed(Empty)
  /\ \A n \in Slots : Empty[n] = Vacant
<1>1. Empty \in Table /\ Live(Empty) = {} /\ \A n \in Slots : Empty[n] = Vacant
  BY DEF Empty, Table, Live
<1>2. WellFormed(Empty)
  BY <1>1 DEF WellFormed, LinksOK, LinkLive, SiblingsAgree, EndsAgree, ChildLinked,
              NoSiblingCycle, NoParentCycle, CountOK
<1> QED BY <1>1, <1>2

(***************************************************************************)
(* A source that is given satisfies the invariant.                         *)
(***************************************************************************)
LEMMA InitParseInv == ParseInit => ParseInv
<1> SUFFICES ASSUME ParseInit PROVE ParseInv
  OBVIOUS
<1>1. /\ input \in Sources /\ remaining = input /\ nodes = Empty
      /\ open = <<>> /\ top = <<>> /\ outcome = "given"
  BY DEF ParseInit
<1>2. input \in Seq(Byte) /\ Len(input) \in Nat
  BY <1>1, SourceFacts
<1>3. Skip(input, Len(input) - Len(input)) = input
  <2> DEFINE t == SubSeq(input, 0 + 1, Len(input))
  <2>1. t \in Seq(Byte) /\ Len(t) = Len(input) /\ \A i \in 1 .. Len(input) : t[i] = input[i]
    <3>1. 0 \in 0 .. Len(input) /\ Len(input) \in 0 .. Len(input)
      BY <1>2
    <3> QED BY <1>2, <3>1, SliceFacts
  <2> HIDE DEF t
  <2>2. t = input
    BY <1>2, <2>1, SeqEqual
  <2> QED BY <1>2, <2>2 DEF t, Skip
<1>4. ParseTypeOK
  <2>1. Len(remaining) <= Len(input)
    BY <1>1, <1>2
  <2>2. open \in Seq(Slots) /\ top \in Seq(Slots)
    BY <1>1
  <2> QED BY <1>1, <1>2, <1>3, <2>1, <2>2, EmptyTable DEF ParseTypeOK, Byte
<1>5. Live(nodes) = 0 .. 0 - 1 /\ 0 + Len(remaining) <= Len(input)
  BY <1>1, <1>2, EmptyTable
<1>6. Numbered
  BY <1>5 DEF Numbered
<1>7. Len(open) = 0 /\ Len(top) = 0
  BY <1>1
<1>8. TopsAreRoots
  BY <1>1, <1>7, EmptyTable DEF TopsAreRoots
<1>9. \A i \in 1 .. Len(open) : open[i] \in Live(nodes)
  BY <1>7
<1> QED BY <1>1, <1>2, <1>4, <1>6, <1>8, <1>9, EmptyTable DEF ParseInv, CutsWhole

(***************************************************************************)
(* What every token does to the rest of the input.                         *)
(***************************************************************************)
LEMMA AdvanceFacts ==
  ASSUME ParseInv, NEW token \in {"left", "right", "atom", "end"}, Advance(token)
  PROVE  /\ outcome = "parsing" /\ input' = input
         /\ remaining' \in Seq(Byte)
         /\ Len(remaining) \in Nat /\ Len(remaining') \in Nat
         /\ Len(remaining') <= Len(remaining) /\ Len(remaining) <= Len(input)
         /\ remaining' = Skip(input, Len(input) - Len(remaining'))
         /\ token # "end" => Len(remaining') < Len(remaining)
         /\ IsUtf8(remaining')
         /\ token = "atom" =>
              LET text == NextToken(remaining).text
              IN  New(text) \in Values /\ New(text) \in Kinds /\ AsStr(New(text)) = text /\ IsUtf8(text)
<1> DEFINE t == NextToken(remaining)
<1>1. /\ outcome = "parsing" /\ input' = input
      /\ t.token = token /\ remaining' = t.remaining
  BY DEF Advance
<1>2. /\ input \in Seq(Byte) /\ remaining \in Seq(Byte) /\ Len(remaining) <= Len(input)
      /\ remaining = Skip(input, Len(input) - Len(remaining))
      /\ IsUtf8(remaining)
      /\ input \in Sources
  BY <1>1, SourceFacts DEF ParseInv, ParseTypeOK, CutsWhole
<1>3. /\ t.remaining \in Seq(Byte)
      /\ Len(t.remaining) <= Len(remaining)
      /\ t.remaining = Skip(input, Len(input) - Len(t.remaining))
      /\ t.token \in {"left", "right", "atom"} => Len(t.remaining) < Len(remaining)
      /\ t.token = "atom" =>
           t.text \in Seq(Byte) /\ \E i, j \in 1 .. Len(input) : t.text = SubSeq(input, i, j)
      /\ IsUtf8(remaining) => IsUtf8(t.remaining) /\ (t.token = "atom" => IsUtf8(t.text))
  BY <1>2, TokenOfRest
<1>4. Len(remaining) \in Nat /\ Len(t.remaining) \in Nat
  BY <1>2, <1>3, LenProperties
<1> HIDE DEF t
<1>5. ASSUME token = "atom"
      PROVE  /\ New(t.text) \in Values /\ New(t.text) \in Kinds
             /\ AsStr(New(t.text)) = t.text /\ IsUtf8(t.text)
  <2>1. t.text \in Seq(Byte) /\ IsUtf8(t.text)
    BY <1>1, <1>2, <1>3, <1>5
  <2>2. PICK i \in 1 .. Len(input), j \in 1 .. Len(input) : t.text = SubSeq(input, i, j)
    BY <1>1, <1>3, <1>5
  <2>3. New(t.text) \in Values
    BY <1>2, <2>2, SourceFacts
  <2> QED BY <2>1, <2>3, AtomKeepsText DEF Kinds
<1> QED BY <1>1, <1>2, <1>3, <1>4, <1>5 DEF t

(***************************************************************************)
(* A new form takes the next key, which is vacant, and is linked below a   *)
(* list or recorded at the top.                                            *)
(***************************************************************************)
LEMMA AddFormFacts ==
  ASSUME ParseInv, outcome = "parsing", NEW k \in Kinds, AddForm(k),
         input' = input, Len(remaining') \in Nat, Len(remaining') < Len(remaining)
  PROVE  /\ nodes' \in Table /\ WellFormed(nodes')
         /\ Numbered'
         /\ NextKey \in Slots \ Live(nodes)
         /\ Live(nodes') = Live(nodes) \union {NextKey}
         /\ nodes'[NextKey].kind = k
         /\ \A n \in Live(nodes) : nodes'[n].kind = nodes[n].kind
         /\ top' \in Seq(Slots)
         /\ TopsAreRoots'
<1>1. /\ nodes \in Table /\ WellFormed(nodes) /\ TopsAreRoots
      /\ open \in Seq(Slots) /\ top \in Seq(Slots)
      /\ \A i \in 1 .. Len(open) : open[i] \in Live(nodes)
      /\ remaining \in Seq(Byte) /\ input \in Sources /\ Numbered
  BY DEF ParseInv, ParseTypeOK
<1>2. PICK m \in Nat : Live(nodes) = 0 .. m - 1 /\ m + Len(remaining) <= Len(input)
  BY <1>1 DEF Numbered
<1>3. /\ Len(remaining) \in Nat /\ Len(input) \in Nat /\ Len(input) <= MaxLen
      /\ MaxLen \in Nat /\ Slots = 0 .. MaxLen
  BY <1>1, SourceFacts, LenProperties
<1>4. NextKey = m
  <2>1. Cardinality(0 .. m - 1) = m
    BY <1>2, FS_Interval
  <2> QED BY <1>2, <2>1 DEF NextKey
<1>5. m \in Slots /\ m \notin Live(nodes) /\ nodes[m] = Vacant
  BY <1>2, <1>3 DEF Live
<1> DEFINE A == Allocate(nodes, m, k)
<1>6. /\ nodes' \in Table /\ WellFormed(nodes')
      /\ Live(nodes') = Live(nodes) \union {m}
      /\ nodes'[m].kind = k
      /\ \A n \in Live(nodes) : nodes'[n].parent = nodes[n].parent /\ nodes'[n].kind = nodes[n].kind
      /\ \/ nodes'[m].parent = Null /\ top' = Append(top, m)
         \/ nodes'[m].parent \in Live(nodes) /\ top' = top
  <2>1. CASE open = <<>>
    <3>1. nodes' = A /\ top' = Append(top, m)
      BY <1>4, <2>1 DEF AddForm
    <3>2. /\ A \in Table /\ Live(A) = Live(nodes) \union {m} /\ WellFormed(A)
          /\ \A n \in Live(nodes) : A[n] = nodes[n]
          /\ A[m] = NewNode(k)
      BY <1>1, <1>5, AllocKeeps
    <3> HIDE DEF A
    <3> QED BY <3>1, <3>2 DEF NewNode
  <2>2. CASE open # <<>>
    <3>1. nodes' = LinkChild(A, Innermost, m) /\ top' = top
      BY <1>4, <2>2 DEF AddForm
    <3>2. Innermost \in Live(nodes)
      <4>1. Len(open) \in 1 .. Len(open)
        BY <1>1, <2>2, EmptySeq, LenProperties
      <4> QED BY <1>1, <4>1 DEF Innermost
    <3>3. /\ nodes' \in Table
          /\ Live(nodes') = Live(nodes) \union {m}
          /\ WellFormed(nodes')
          /\ \A n \in Live(nodes) : nodes'[n].parent = nodes[n].parent /\ nodes'[n].kind = nodes[n].kind
          /\ nodes'[m].parent = Innermost /\ nodes'[m].kind = k
      BY <1>1, <1>5, <3>1, <3>2, FreshChild
    <3> QED BY <3>1, <3>2, <3>3
  <2> QED BY <2>1, <2>2
<1>7. Numbered'
  <2>1. Live(nodes') = 0 .. (m + 1) - 1 /\ (m + 1) + Len(remaining') <= Len(input')
    BY <1>2, <1>3, <1>6
  <2> QED BY <2>1 DEF Numbered
<1>8. top' \in Seq(Slots) /\ TopsAreRoots'
  <2>1. Null \notin Live(nodes)
    BY <1>1, TableCells
  <2>2. CASE nodes'[m].parent = Null /\ top' = Append(top, m)
    <3>1. /\ top' \in Seq(Slots) /\ Len(top') = Len(top) + 1 /\ Len(top) \in Nat
          /\ top'[Len(top) + 1] = m
          /\ \A i \in 1 .. Len(top) : top'[i] = top[i]
      BY <1>1, <1>5, <2>2, AppendProperties, LenProperties
    <3>2. {n \in Live(nodes') : nodes'[n].parent = Null}
            = {n \in Live(nodes) : nodes[n].parent = Null} \union {m}
      BY <1>5, <1>6, <2>2
    <3>3. {top'[i] : i \in 1 .. Len(top')} = {top[i] : i \in 1 .. Len(top)} \union {m}
      BY <3>1
    <3> QED BY <1>1, <3>1, <3>2, <3>3 DEF TopsAreRoots
  <2>3. CASE nodes'[m].parent \in Live(nodes) /\ top' = top
    <3>1. {n \in Live(nodes') : nodes'[n].parent = Null}
            = {n \in Live(nodes) : nodes[n].parent = Null}
      BY <1>5, <1>6, <2>1, <2>3
    <3> QED BY <1>1, <2>3, <3>1 DEF TopsAreRoots
  <2> QED BY <1>6, <2>2, <2>3
<1> QED BY <1>4, <1>5, <1>6, <1>7, <1>8

(***************************************************************************)
(* The parts of the invariant that a token that keeps on parsing leaves to *)
(* its caller.                                                             *)
(***************************************************************************)
LEMMA AddedKeeps ==
  ASSUME ParseInv, NEW token \in {"left", "atom"}, Advance(token),
         NEW k \in Kinds, k = List \/ IsUtf8(AsStr(k)),
         AddForm(k), outcome' = outcome,
         open' \in Seq(Slots), \A i \in 1 .. Len(open') : open'[i] \in Live(nodes')
  PROVE  ParseInv'
<1>1. /\ outcome = "parsing" /\ input' = input
      /\ remaining' \in Seq(Byte)
      /\ Len(remaining) \in Nat /\ Len(remaining') \in Nat
      /\ Len(remaining') < Len(remaining) /\ Len(remaining) <= Len(input)
      /\ remaining' = Skip(input, Len(input) - Len(remaining'))
      /\ IsUtf8(remaining')
  BY AdvanceFacts
<1>2. /\ nodes' \in Table /\ WellFormed(nodes')
      /\ Numbered'
      /\ Live(nodes') = Live(nodes) \union {NextKey}
      /\ nodes'[NextKey].kind = k
      /\ \A n \in Live(nodes) : nodes'[n].kind = nodes[n].kind
      /\ top' \in Seq(Slots)
      /\ TopsAreRoots'
  BY <1>1, AddFormFacts
<1>3. input \in Seq(0 .. 255) /\ input \in Sources /\ Len(input) \in Nat
  BY SourceFacts DEF ParseInv, Byte
<1>4. ParseTypeOK'
  <2>1. Len(remaining') <= Len(input)
    BY <1>1, <1>3
  <2> QED BY <1>1, <1>2, <1>3, <2>1 DEF ParseTypeOK
<1>5. CutsWhole'
  <2>1. \A n \in Live(nodes) : nodes[n].kind # List => IsUtf8(AsStr(nodes[n].kind))
    BY <1>1 DEF ParseInv, CutsWhole
  <2>2. ASSUME NEW n \in Live(nodes'), nodes'[n].kind # List
        PROVE  IsUtf8(AsStr(nodes'[n].kind))
    BY <1>2, <2>1, <2>2
  <2> QED BY <1>1, <2>2 DEF CutsWhole
<1> QED BY <1>1, <1>2, <1>3, <1>4, <1>5 DEF ParseInv

(***************************************************************************)
(* The end of the input keeps the invariant.                               *)
(***************************************************************************)
LEMMA FinishKeeps ==
  ASSUME ParseInv, Finish
  PROVE  ParseInv'
<1>1. /\ outcome = "parsing" /\ input' = input
      /\ remaining' \in Seq(Byte)
      /\ Len(remaining) \in Nat /\ Len(remaining') \in Nat
      /\ Len(remaining') <= Len(remaining) /\ Len(remaining) <= Len(input)
      /\ remaining' = Skip(input, Len(input) - Len(remaining'))
      /\ IsUtf8(remaining')
  BY AdvanceFacts DEF Finish
<1>2. /\ input \in Seq(0 .. 255) /\ input \in Sources
      /\ Len(input) \in Nat /\ Len(input) <= MaxLen
      /\ MaxLen \in Nat /\ Slots = 0 .. MaxLen
  BY SourceFacts DEF ParseInv, Byte
<1>3. /\ open' = open
      /\ outcome' \in {"UnclosedParenthesis", "MultipleTopLevelForms", "bare", "tree"}
      /\ outcome' = "bare" <=> open = <<>> /\ top = <<>>
      /\ outcome' = "tree" => open = <<>> /\ top # <<>> /\ ~ (Len(top) > 1)
      /\ outcome' = "bare" => nodes' = Allocate(Empty, 0, List) /\ top' = <<0>>
      /\ outcome' # "bare" => nodes' = nodes /\ top' = top
  <2>1. Len(<<>>) = 0
    OBVIOUS
  <2> QED BY <2>1 DEF Finish
<1>4. /\ nodes \in Table /\ WellFormed(nodes) /\ TopsAreRoots /\ Numbered
      /\ open \in Seq(Slots) /\ top \in Seq(Slots)
      /\ \A i \in 1 .. Len(open) : open[i] \in Live(nodes)
      /\ \A n \in Live(nodes) : nodes[n].kind # List => IsUtf8(AsStr(nodes[n].kind))
  BY <1>1 DEF ParseInv, ParseTypeOK, CutsWhole
<1>5. CASE outcome' = "bare"
  <2>1. /\ nodes' \in Table /\ WellFormed(nodes')
        /\ Live(nodes') = {0} /\ nodes'[0] = NewNode(List)
    <3>1. 0 \in Slots /\ Empty[0] = Vacant /\ List \in Kinds
      BY <1>2, EmptyTable DEF Kinds
    <3> QED BY <1>3, <1>5, <3>1, EmptyTable, AllocKeeps
  <2>2. open' = <<>> /\ top' = <<0>> /\ top' \in Seq(Slots) /\ Len(top') = 1 /\ Len(open') = 0
    <3>1. open' = <<>> /\ top' = <<0>>
      BY <1>3, <1>5
    <3>2. 0 \in Slots
      BY <1>2
    <3>3. <<0>> \in Seq(Slots) /\ Len(<<0>>) = 1 /\ Len(<<>>) = 0
      BY <3>2
    <3> QED BY <3>1, <3>3
  <2>3. nodes'[0].parent = Null /\ nodes'[0].kind = List
    BY <2>1 DEF NewNode
  <2>4. TopsAreRoots'
    BY <2>1, <2>2, <2>3 DEF TopsAreRoots
  <2>5. ParseTypeOK'
    <3>1. Len(remaining') <= Len(input)
      BY <1>1, <1>2
    <3> QED BY <1>1, <1>2, <1>4, <1>5, <2>1, <2>2, <3>1 DEF ParseTypeOK
  <2>6. CutsWhole'
    BY <1>1, <2>1, <2>3 DEF CutsWhole
  <2> QED BY <1>1, <1>2, <1>5, <2>1, <2>2, <2>4, <2>5, <2>6 DEF ParseInv
<1>6. CASE outcome' # "bare"
  <2>1. nodes' = nodes /\ top' = top /\ open' = open
    BY <1>3, <1>6
  <2>2. ParseTypeOK'
    <3>1. Len(remaining') <= Len(input)
      BY <1>1, <1>2
    <3> QED BY <1>1, <1>2, <1>3, <1>4, <2>1, <3>1 DEF ParseTypeOK, Errors
  <2>3. Numbered'
    <3>1. PICK m \in Nat : Live(nodes) = 0 .. m - 1 /\ m + Len(remaining) <= Len(input)
      BY <1>4 DEF Numbered
    <3>2. m + Len(remaining') <= Len(input)
      BY <1>1, <1>2, <3>1
    <3> QED BY <1>1, <2>1, <3>1, <3>2 DEF Numbered
  <2>4. outcome' = "tree" => Len(top) = 1
    <3> SUFFICES ASSUME outcome' = "tree" PROVE Len(top) = 1
      OBVIOUS
    <3>1. top # <<>> /\ ~ (Len(top) > 1)
      BY <1>3
    <3>2. Len(top) \in Nat /\ Len(top) # 0
      BY <1>4, <3>1, EmptySeq, LenProperties
    <3> DEFINE n == Len(top)
    <3>3. n \in Nat /\ n # 0 /\ ~ (n > 1)
      BY <3>1, <3>2
    <3> HIDE DEF n
    <3>4. n = 1
      BY <3>3
    <3> QED BY <3>4 DEF n
  <2>5. TopsAreRoots'
    BY <1>4, <2>1 DEF TopsAreRoots
  <2>6. CutsWhole'
    BY <1>1, <1>4, <2>1 DEF CutsWhole
  <2> QED BY <1>1, <1>2, <1>3, <1>4, <1>6, <2>1, <2>2, <2>3, <2>4, <2>5, <2>6 DEF ParseInv
<1> QED BY <1>5, <1>6

(***************************************************************************)
(* A right bracket keeps the invariant.                                    *)
(***************************************************************************)
LEMMA CloseListKeeps ==
  ASSUME ParseInv, CloseList
  PROVE  ParseInv'
<1>1. /\ outcome = "parsing" /\ input' = input
      /\ remaining' \in Seq(Byte)
      /\ Len(remaining) \in Nat /\ Len(remaining') \in Nat
      /\ Len(remaining') < Len(remaining) /\ Len(remaining) <= Len(input)
      /\ remaining' = Skip(input, Len(input) - Len(remaining'))
      /\ IsUtf8(remaining')
  BY AdvanceFacts DEF CloseList
<1>2. input \in Seq(0 .. 255) /\ input \in Sources /\ Len(input) \in Nat
  BY SourceFacts DEF ParseInv, Byte
<1>3. /\ nodes' = nodes /\ top' = top
      /\ outcome' \in {"parsing", "StrayClosingParenthesis"}
      /\ \/ open' = open
         \/ open # <<>> /\ open' = SubSeq(open, 1, Len(open) - 1)
  BY <1>1 DEF CloseList
<1>4. /\ nodes \in Table /\ WellFormed(nodes) /\ TopsAreRoots /\ Numbered
      /\ open \in Seq(Slots) /\ top \in Seq(Slots)
      /\ \A i \in 1 .. Len(open) : open[i] \in Live(nodes)
      /\ \A n \in Live(nodes) : nodes[n].kind # List => IsUtf8(AsStr(nodes[n].kind))
  BY <1>1 DEF ParseInv, ParseTypeOK, CutsWhole
<1>5. open' \in Seq(Slots) /\ \A i \in 1 .. Len(open') : open'[i] \in Live(nodes)
  <2>1. CASE open' = open
    BY <1>4, <2>1
  <2>2. CASE open # <<>> /\ open' = SubSeq(open, 1, Len(open) - 1)
    <3> DEFINE m == Len(open) - 1
    <3>1. m \in Nat /\ m <= Len(open) /\ \A i \in 1 .. Len(open) : open[i] \in Slots
      BY <1>4, <2>2, EmptySeq, LenProperties, ElementOfSeq
    <3>2. m < Len(open)
      BY <1>4, LenProperties
    <3> HIDE DEF m
    <3>3. \A i \in 1 .. m : i \in 1 .. Len(open) /\ open[i] \in Slots
      BY <1>4, <3>1, LenProperties
    <3>4. /\ SubSeq(open, 1, m) \in Seq(Slots)
          /\ Len(SubSeq(open, 1, m)) = IF 1 <= m THEN m - 1 + 1 ELSE 0
          /\ \A i \in 1 .. m - 1 + 1 : SubSeq(open, 1, m)[i] = open[1 + i - 1]
      BY <3>1, <3>3, SubSeqProperties
    <3>5. Len(SubSeq(open, 1, m)) = m /\ \A i \in 1 .. m : SubSeq(open, 1, m)[i] = open[i]
      BY <3>1, <3>4
    <3> QED BY <1>4, <2>2, <3>3, <3>4, <3>5 DEF m
  <2> QED BY <1>3, <2>1, <2>2
<1>6. ParseTypeOK'
  <2>1. Len(remaining') <= Len(input)
    BY <1>1, <1>2
  <2> QED BY <1>1, <1>2, <1>3, <1>4, <1>5, <2>1 DEF ParseTypeOK, Errors
<1>7. Numbered'
  <2>1. PICK m \in Nat : Live(nodes) = 0 .. m - 1 /\ m + Len(remaining) <= Len(input)
    BY <1>4 DEF Numbered
  <2>2. m + Len(remaining') <= Len(input)
    BY <1>1, <1>2, <2>1
  <2> QED BY <1>1, <1>3, <2>1, <2>2 DEF Numbered
<1>8. TopsAreRoots'
  BY <1>3, <1>4 DEF TopsAreRoots
<1>9. CutsWhole'
  BY <1>1, <1>3, <1>4 DEF CutsWhole
<1> QED BY <1>1, <1>2, <1>3, <1>4, <1>5, <1>6, <1>7, <1>8, <1>9 DEF ParseInv

(***************************************************************************)
(* Every step keeps the invariant.                                         *)
(***************************************************************************)
LEMMA NextParseInv == ParseInv /\ [ParseNext]_parseVars => ParseInv'
<1> SUFFICES ASSUME ParseInv, [ParseNext]_parseVars PROVE ParseInv'
  OBVIOUS
<1>0. /\ open \in Seq(Slots)
      /\ \A i \in 1 .. Len(open) : open[i] \in Live(nodes)
  BY DEF ParseInv, ParseTypeOK
<1>1. CASE Decode
  <2>1. /\ outcome = "given" /\ UNCHANGED <<input, remaining, nodes, open, top>>
        /\ outcome' = IF IsUtf8(input) THEN "parsing" ELSE "InvalidUtf8"
    BY <1>1 DEF Decode
  <2>2. remaining = input /\ nodes = Empty /\ Live(nodes) = {}
    BY <2>1, EmptyTable DEF ParseInv
  <2>3. ParseTypeOK'
    BY <2>1 DEF ParseInv, ParseTypeOK, Errors
  <2>4. CutsWhole'
    BY <2>1, <2>2 DEF CutsWhole
  <2>5. Numbered' /\ TopsAreRoots'
    BY <2>1 DEF ParseInv, Numbered, TopsAreRoots
  <2> QED BY <2>1, <2>3, <2>4, <2>5 DEF ParseInv
<1>2. CASE OpenList
  <2>1. /\ Advance("left") /\ AddForm(List) /\ List \in Kinds
        /\ open' = Append(open, NextKey) /\ outcome' = outcome
    BY <1>2 DEF OpenList, Kinds
  <2>2. NextKey \in Slots /\ Live(nodes') = Live(nodes) \union {NextKey}
    BY <2>1, AdvanceFacts, AddFormFacts
  <2>3. /\ open' \in Seq(Slots)
        /\ \A i \in 1 .. Len(open') : open'[i] \in Live(nodes')
    <3>1. /\ open' \in Seq(Slots) /\ Len(open') = Len(open) + 1 /\ Len(open) \in Nat
          /\ open'[Len(open) + 1] = NextKey
          /\ \A i \in 1 .. Len(open) : open'[i] = open[i]
      BY <1>0, <2>1, <2>2, AppendProperties, LenProperties
    <3> QED BY <1>0, <2>2, <3>1
  <2> QED BY <2>1, <2>3, AddedKeeps
<1>3. CASE AddAtom
  <2> DEFINE text == NextToken(remaining).text
  <2>1. /\ Advance("atom") /\ AddForm(New(text))
        /\ open' = open /\ outcome' = outcome
    BY <1>3 DEF AddAtom
  <2>2. /\ outcome = "parsing" /\ input' = input /\ Len(remaining') \in Nat
        /\ Len(remaining') < Len(remaining)
        /\ New(text) \in Kinds /\ IsUtf8(AsStr(New(text)))
    BY <2>1, AdvanceFacts
  <2> HIDE DEF text
  <2>3. Live(nodes') = Live(nodes) \union {NextKey}
    BY <2>1, <2>2, AddFormFacts
  <2> QED BY <1>0, <2>1, <2>2, <2>3, AddedKeeps
<1>4. CASE CloseList
  BY <1>4, CloseListKeeps
<1>5. CASE Finish
  BY <1>5, FinishKeeps
<1>6. CASE UNCHANGED parseVars
  BY <1>6 DEF parseVars, ParseInv, ParseTypeOK, Numbered, TopsAreRoots, CutsWhole
<1> QED BY <1>1, <1>2, <1>3, <1>4, <1>5, <1>6 DEF ParseNext

(***************************************************************************)
(* The invariant holds of every reachable state.                           *)
(***************************************************************************)
THEOREM ParserInvariance == ParseSpec => []ParseInv
BY InitParseInv, NextParseInv, PTL DEF ParseSpec

(***************************************************************************)
(* What is left of the input is always a suffix of it, and the slab, the   *)
(* open lists and the top-level forms are well-typed.                      *)
(***************************************************************************)
THEOREM ParserTypeCorrect == ParseSpec => []ParseTypeOK
<1>1. ParseInv => ParseTypeOK
  BY DEF ParseInv
<1> QED BY <1>1, ParserInvariance, PTL

(***************************************************************************)
(* The links agree after every token of every input.                       *)
(***************************************************************************)
THEOREM ParserLinksCorrect == ParseSpec => []ParserLinks
<1>1. ParseInv => ParserLinks
  BY DEF ParseInv, ParserLinks
<1> QED BY <1>1, ParserInvariance, PTL

(***************************************************************************)
(* A tree that is handed out has one node without a parent, its root.      *)
(***************************************************************************)
THEOREM OneRootCorrect == ParseSpec => []OneRoot
<1>1. ParseInv => OneRoot
  <2> SUFFICES ASSUME ParseInv, outcome \in {"tree", "bare"}
               PROVE  Len(top) = 1 /\ {n \in Live(nodes) : nodes[n].parent = Null} = {top[1]}
    BY DEF OneRoot
  <2>1. Len(top) = 1 /\ TopsAreRoots
    BY DEF ParseInv
  <2>2. {top[i] : i \in 1 .. 1} = {top[1]}
    OBVIOUS
  <2> QED BY <2>1, <2>2 DEF TopsAreRoots
<1> QED BY <1>1, ParserInvariance, PTL

(***************************************************************************)
(* No cut of a UTF-8 input lies inside a character.                        *)
(***************************************************************************)
THEOREM CutsCorrect == ParseSpec => []CutsWhole
<1>1. ParseInv => CutsWhole
  BY DEF ParseInv
<1> QED BY <1>1, ParserInvariance, PTL

-----------------------------------------------------------------------------
(***************************************************************************)
(* The definitions behind Meaning, of any sequence of bytes.               *)
(***************************************************************************)
\* The forms that begin at the top among the first p bytes.
TopForms(s, p) == {i \in FormStarts(s) : i <= p /\ Depth(s, i) = 0}

(***************************************************************************)
(* One byte adds one to a count or nothing.                                *)
(***************************************************************************)
LEMMA CountStep ==
  ASSUME NEW s \in Seq(Byte), NEW b, NEW i \in Nat
  PROVE  /\ Count(s, b, i) \in Nat
         /\ Count(s, b, 0) = 0
         /\ s[i + 1] = b => Count(s, b, i + 1) = Count(s, b, i) + 1
         /\ s[i + 1] # b => Count(s, b, i + 1) = Count(s, b, i)
<1> DEFINE A == {j \in 1 .. i : s[j] = b}
           B == {j \in 1 .. i + 1 : s[j] = b}
<1>1. IsFiniteSet(A) /\ Cardinality(A) \in Nat
  <2>1. IsFiniteSet(1 .. i) /\ A \in SUBSET (1 .. i)
    BY FS_Interval
  <2> HIDE DEF A
  <2> QED BY <2>1, FS_Subset, FS_CardinalityType
<1>2. Count(s, b, 0) = 0
  <2>1. {j \in 1 .. 0 : s[j] = b} = {}
    OBVIOUS
  <2> QED BY <2>1, FS_EmptySet DEF Count
<1>3. 1 .. i + 1 = (1 .. i) \union {i + 1} /\ i + 1 \notin 1 .. i
  OBVIOUS
<1>4. Cardinality(B) = IF s[i + 1] = b THEN Cardinality(A) + 1 ELSE Cardinality(A)
  <2>1. CASE s[i + 1] = b
    <3>1. B = A \union {i + 1} /\ i + 1 \notin A
      BY <1>3, <2>1
    <3> HIDE DEF A, B
    <3> QED BY <1>1, <2>1, <3>1, FS_AddElement
  <2>2. CASE s[i + 1] # b
    <3>1. B = A
      BY <1>3, <2>2
    <3> QED BY <2>2, <3>1
  <2> QED BY <2>1, <2>2
<1> QED BY <1>1, <1>2, <1>4 DEF Count

(***************************************************************************)
(* A left bracket raises the depth by one, a right bracket lowers it.      *)
(***************************************************************************)
LEMMA DepthStep ==
  ASSUME NEW s \in Seq(Byte), NEW i \in Nat
  PROVE  /\ Depth(s, 1) = 0 /\ Depth(s, i + 1) \in Int
         /\ s[i + 1] = LeftParen => Depth(s, i + 2) = Depth(s, i + 1) + 1
         /\ s[i + 1] = RightParen => Depth(s, i + 2) = Depth(s, i + 1) - 1
<1>1. (i + 1) - 1 = i /\ (i + 2) - 1 = i + 1 /\ 1 - 1 = 0 /\ LeftParen # RightParen
  BY DEF LeftParen, RightParen
<1> DEFINE l == Count(s, LeftParen, i)
           r == Count(s, RightParen, i)
           x == Count(s, LeftParen, i + 1)
           y == Count(s, RightParen, i + 1)
<1>2. /\ l \in Nat /\ r \in Nat
      /\ s[i + 1] = LeftParen => x = l + 1
      /\ s[i + 1] # LeftParen => x = l
      /\ s[i + 1] = RightParen => y = r + 1
      /\ s[i + 1] # RightParen => y = r
  BY CountStep
<1>3. Depth(s, i + 1) = l - r /\ Depth(s, i + 2) = x - y
  BY <1>1 DEF Depth
<1>4. Depth(s, 1) = 0
  <2>1. Count(s, LeftParen, 0) = 0 /\ Count(s, RightParen, 0) = 0
    BY CountStep
  <2> QED BY <1>1, <2>1 DEF Depth
<1> HIDE DEF l, r, x, y
<1>5. Depth(s, i + 1) \in Int
  BY <1>2, <1>3
<1>6. s[i + 1] = LeftParen => Depth(s, i + 2) = Depth(s, i + 1) + 1
  BY <1>1, <1>2, <1>3
<1>7. s[i + 1] = RightParen => Depth(s, i + 2) = Depth(s, i + 1) - 1
  BY <1>1, <1>2, <1>3
<1> QED BY <1>4, <1>5, <1>6, <1>7

(***************************************************************************)
(* Over bytes that are no brackets the depth stays.                        *)
(***************************************************************************)
LEMMA DepthStays ==
  ASSUME NEW s \in Seq(Byte), NEW p \in Nat, NEW q \in Nat, p <= q,
         \A j \in p + 1 .. q : Stop(s[j]) # 1
  PROVE  Depth(s, q + 1) = Depth(s, p + 1)
<1>1. \A j \in p + 1 .. q : s[j] # LeftParen /\ s[j] # RightParen
  BY DEF Stop
<1>2. \A j \in 1 .. q : j \in 1 .. p \/ j \in p + 1 .. q
  OBVIOUS
<1>3. 1 .. p \subseteq 1 .. q
  OBVIOUS
<1>4. /\ {j \in 1 .. q : s[j] = LeftParen} = {j \in 1 .. p : s[j] = LeftParen}
      /\ {j \in 1 .. q : s[j] = RightParen} = {j \in 1 .. p : s[j] = RightParen}
  BY <1>1, <1>2, <1>3
<1>5. (q + 1) - 1 = q /\ (p + 1) - 1 = p
  OBVIOUS
<1> QED BY <1>4, <1>5 DEF Depth, Count

(***************************************************************************)
(* How far a source has been read: no list was closed that was not open, l *)
(* lists are open, t forms have begun at the top, and p is not inside an   *)
(* atom.                                                                   *)
(***************************************************************************)
ReadTo(s, p, l, t) ==
  /\ p \in 0 .. Len(s)
  /\ \A i \in 1 .. p : Depth(s, i + 1) >= 0
  /\ l = Depth(s, p + 1)
  /\ t = Cardinality(TopForms(s, p))
  /\ 0 < p /\ p < Len(s) => ~ InAtom(s, p) \/ ~ InAtom(s, p + 1)

(***************************************************************************)
(* The depth is never negative; the forms at the top are finitely many.    *)
(***************************************************************************)
LEMMA ReadFacts ==
  ASSUME NEW s \in Seq(Byte), NEW p, NEW l, NEW t, ReadTo(s, p, l, t)
  PROVE  /\ Len(s) \in Nat /\ p \in 0 .. Len(s) /\ l \in Nat /\ t \in Nat
         /\ IsFiniteSet(TopForms(s, p)) /\ p + 1 \notin TopForms(s, p)
<1>1. Len(s) \in Nat /\ p \in 0 .. Len(s) /\ p \in Nat /\ t = Cardinality(TopForms(s, p))
  BY LenProperties DEF ReadTo
<1>2. l \in Nat
  <2>1. l = Depth(s, p + 1) /\ l \in Int
    BY <1>1, DepthStep DEF ReadTo
  <2>2. CASE p = 0
    <3>1. Depth(s, 1) = 0
      BY <1>1, DepthStep
    <3> QED BY <2>1, <2>2, <3>1
  <2>3. CASE p # 0
    <3>1. p \in 1 .. p
      BY <1>1, <2>3
    <3> QED BY <2>1, <3>1 DEF ReadTo
  <2> QED BY <2>2, <2>3
<1>3. IsFiniteSet(TopForms(s, p)) /\ p + 1 \notin TopForms(s, p)
  <2>1. TopForms(s, p) \in SUBSET (1 .. Len(s)) /\ IsFiniteSet(1 .. Len(s))
    BY <1>1, FS_Interval DEF TopForms, FormStarts
  <2> QED BY <1>1, <2>1, FS_Subset DEF TopForms
<1> QED BY <1>1, <1>2, <1>3, FS_CardinalityType

(***************************************************************************)
(* Blanks are passed over.                                                 *)
(***************************************************************************)
LEMMA BlanksRead ==
  ASSUME NEW s \in Seq(Byte), NEW p, NEW l, NEW t, ReadTo(s, p, l, t),
         NEW q \in p .. Len(s), \A j \in p + 1 .. q : Stop(s[j]) = 2
  PROVE  ReadTo(s, q, l, t)
<1>1. /\ Len(s) \in Nat /\ p \in 0 .. Len(s) /\ p \in Nat /\ q \in Nat /\ p <= q /\ q <= Len(s)
      /\ l \in Nat /\ l = Depth(s, p + 1)
  BY ReadFacts DEF ReadTo
<1>2. \A i \in p .. q : Depth(s, i + 1) = l
  BY <1>1, DepthStays
<1>3. TopForms(s, q) = TopForms(s, p)
  <2>1. \A i \in FormStarts(s) : i \notin p + 1 .. q
    BY DEF FormStarts, InAtom, Stop
  <2>2. \A i \in FormStarts(s) : i \in Nat
    BY <1>1 DEF FormStarts
  <2>3. \A i \in FormStarts(s) : i <= q <=> i <= p
    BY <1>1, <2>1, <2>2
  <2> QED BY <2>3 DEF TopForms
<1>4. \A i \in 1 .. q : Depth(s, i + 1) >= 0
  <2>1. \A i \in 1 .. q : i \in 1 .. p \/ i \in p .. q
    BY <1>1
  <2> QED BY <1>1, <1>2, <2>1 DEF ReadTo
<1>5. 0 < q /\ q < Len(s) => ~ InAtom(s, q) \/ ~ InAtom(s, q + 1)
  <2>1. CASE q = p
    BY <2>1 DEF ReadTo
  <2>2. CASE q # p
    <3>1. q \in p + 1 .. q
      BY <1>1, <2>2
    <3> QED BY <3>1 DEF InAtom
  <2> QED BY <2>1, <2>2
<1>6. Depth(s, q + 1) = l /\ q \in 0 .. Len(s)
  BY <1>1, <1>2
<1> QED BY <1>3, <1>4, <1>5, <1>6 DEF ReadTo

(***************************************************************************)
(* A form begins, and its bracket or its atom is read.                     *)
(***************************************************************************)
LEMMA FormRead ==
  ASSUME NEW s \in Seq(Byte), NEW p, NEW l, NEW t, ReadTo(s, p, l, t),
         NEW q \in p + 1 .. Len(s),
         \/ s[p + 1] = LeftParen /\ q = p + 1
         \/ /\ \A j \in p + 1 .. q : Stop(s[j]) = 0
            /\ q < Len(s) => Stop(s[q + 1]) # 0
  PROVE  ReadTo(s, q, IF s[p + 1] = LeftParen THEN l + 1 ELSE l, IF l = 0 THEN t + 1 ELSE t)
<1>1. /\ Len(s) \in Nat /\ p \in 0 .. Len(s) /\ p \in Nat /\ q \in Nat /\ p < q /\ q <= Len(s)
      /\ p + 1 \in 1 .. Len(s) /\ p + 1 \in p + 1 .. q
      /\ l \in Nat /\ t \in Nat /\ l = Depth(s, p + 1) /\ t = Cardinality(TopForms(s, p))
      /\ IsFiniteSet(TopForms(s, p)) /\ p + 1 \notin TopForms(s, p)
  BY ReadFacts DEF ReadTo
<1>2. p + 1 \in FormStarts(s)
  <2>1. CASE s[p + 1] = LeftParen
    BY <1>1, <2>1 DEF FormStarts
  <2>2. CASE s[p + 1] # LeftParen
    <3>1. InAtom(s, p + 1)
      BY <1>1, <2>2 DEF InAtom
    <3>2. p + 1 > 1 => ~ InAtom(s, (p + 1) - 1)
      BY <1>1, <3>1 DEF ReadTo
    <3> QED BY <1>1, <3>1, <3>2 DEF FormStarts
  <2> QED BY <2>1, <2>2
<1>3. \A i \in FormStarts(s) : i \in p + 1 .. q => i = p + 1
  <2>1. CASE s[p + 1] = LeftParen /\ q = p + 1
    BY <1>1, <2>1
  <2>2. CASE \A j \in p + 1 .. q : Stop(s[j]) = 0
    <3> SUFFICES ASSUME NEW i \in FormStarts(s), i \in p + 1 .. q, i # p + 1 PROVE FALSE
      OBVIOUS
    <3>1. i - 1 \in p + 1 .. q /\ i > 1
      BY <1>1
    <3>2. s[i] # LeftParen
      BY <2>2 DEF Stop
    <3> QED BY <2>2, <3>1, <3>2 DEF FormStarts, InAtom
  <2> QED BY <2>1, <2>2
<1>4. \A i \in FormStarts(s) : i <= q <=> i <= p \/ i = p + 1
  <2>1. \A i \in FormStarts(s) : i \in Nat
    BY <1>1 DEF FormStarts
  <2> QED BY <1>1, <1>3, <2>1
<1>5. Cardinality(TopForms(s, q)) = IF l = 0 THEN t + 1 ELSE t
  <2>1. CASE l = 0
    <3>1. TopForms(s, q) = TopForms(s, p) \union {p + 1}
      BY <1>1, <1>2, <1>4, <2>1 DEF TopForms
    <3> QED BY <1>1, <2>1, <3>1, FS_AddElement
  <2>2. CASE l # 0
    <3>1. TopForms(s, q) = TopForms(s, p)
      BY <1>1, <1>4, <2>2 DEF TopForms
    <3> QED BY <1>1, <2>2, <3>1
  <2> QED BY <2>1, <2>2
<1>6. CASE s[p + 1] = LeftParen /\ q = p + 1
  <2>1. Depth(s, p + 2) = l + 1 /\ q + 1 = p + 2
    BY <1>1, <1>6, DepthStep
  <2>2. \A i \in 1 .. q : Depth(s, i + 1) >= 0
    <3>1. \A i \in 1 .. q : i \in 1 .. p \/ i = q
      BY <1>1, <1>6
    <3> QED BY <1>1, <2>1, <3>1 DEF ReadTo
  <2>3. ~ InAtom(s, q)
    BY <1>6 DEF InAtom, Stop
  <2> QED BY <1>1, <1>5, <1>6, <2>1, <2>2, <2>3 DEF ReadTo
<1>7. CASE /\ \A j \in p + 1 .. q : Stop(s[j]) = 0
           /\ q < Len(s) => Stop(s[q + 1]) # 0
  <2>1. \A i \in p .. q : Depth(s, i + 1) = l
    BY <1>1, <1>7, DepthStays, SMTT(30)
  <2>2. \A i \in 1 .. q : Depth(s, i + 1) >= 0
    <3>1. \A i \in 1 .. q : i \in 1 .. p \/ i \in p .. q
      BY <1>1
    <3> QED BY <1>1, <2>1, <3>1 DEF ReadTo
  <2>3. q < Len(s) => ~ InAtom(s, q + 1)
    BY <1>7 DEF InAtom
  <2>4. s[p + 1] # LeftParen
    BY <1>1, <1>7 DEF Stop
  <2>5. Depth(s, q + 1) = l /\ q \in 0 .. Len(s)
    BY <1>1, <2>1
  <2> QED BY <1>1, <1>5, <2>2, <2>3, <2>4, <2>5 DEF ReadTo
<1> QED BY <1>6, <1>7

(***************************************************************************)
(* A right bracket is read.                                                *)
(***************************************************************************)
LEMMA CloseRead ==
  ASSUME NEW s \in Seq(Byte), NEW p, NEW l, NEW t, ReadTo(s, p, l, t),
         p < Len(s), s[p + 1] = RightParen
  PROVE  /\ l = 0 => Depth(s, (p + 1) + 1) < 0
         /\ l # 0 => ReadTo(s, p + 1, l - 1, t)
<1>1. /\ Len(s) \in Nat /\ p \in 0 .. Len(s) /\ p \in Nat /\ p + 1 \in 0 .. Len(s)
      /\ l \in Nat /\ l = Depth(s, p + 1) /\ t = Cardinality(TopForms(s, p))
  BY ReadFacts DEF ReadTo
<1>2. Depth(s, p + 2) = l - 1 /\ (p + 1) + 1 = p + 2
  BY <1>1, DepthStep
<1>3. ~ InAtom(s, p + 1) /\ s[p + 1] # LeftParen
  BY DEF InAtom, Stop, LeftParen, RightParen
<1>4. TopForms(s, p + 1) = TopForms(s, p)
  <2>1. \A i \in FormStarts(s) : i \in Nat /\ i # p + 1
    BY <1>1, <1>3 DEF FormStarts
  <2>2. \A i \in FormStarts(s) : i <= p + 1 <=> i <= p
    BY <1>1, <2>1
  <2> QED BY <2>2 DEF TopForms
<1>5. ASSUME l # 0 PROVE \A i \in 1 .. p + 1 : Depth(s, i + 1) >= 0
  <2>1. \A i \in 1 .. p + 1 : i \in 1 .. p \/ i = p + 1
    BY <1>1
  <2>2. l - 1 >= 0
    BY <1>1, <1>5
  <2> QED BY <1>2, <2>1, <2>2 DEF ReadTo
<1>6. l = 0 => Depth(s, p + 2) < 0
  BY <1>1, <1>2
<1> QED BY <1>1, <1>2, <1>3, <1>4, <1>5, <1>6 DEF ReadTo

(***************************************************************************)
(* Where in the source the next token lies: after the bytes p + 1 to b,    *)
(* which are blanks, and up to byte e.                                     *)
(***************************************************************************)
Located(s, p, b, e, t) ==
  /\ Len(t.remaining) = Len(s) - e
  /\ \A i \in p + 1 .. b : Stop(s[i]) = 2
  /\ \/ t.token = "end" /\ b = e /\ e = Len(s)
     \/ t.token = "left" /\ e = b + 1 /\ s[b + 1] = LeftParen
     \/ t.token = "right" /\ e = b + 1 /\ s[b + 1] = RightParen
     \/ /\ t.token = "atom" /\ b < e
        /\ t.text = SubSeq(s, b + 1, e)
        /\ \A i \in b + 1 .. e : Stop(s[i]) = 0
        /\ e < Len(s) => Stop(s[e + 1]) # 0

(***************************************************************************)
(* What a skip leaves.                                                     *)
(***************************************************************************)
LEMMA SkipFacts ==
  ASSUME NEW s \in Seq(Byte), NEW k \in 0 .. Len(s)
  PROVE  /\ Skip(s, k) \in Seq(Byte) /\ Len(Skip(s, k)) = Len(s) - k
         /\ \A i \in 1 .. Len(s) - k : Skip(s, k)[i] = s[k + i]
<1>1. Len(s) \in Nat
  BY LenProperties
<1>2. Len(s) \in k .. Len(s)
  BY <1>1
<1> QED BY <1>2, SliceFacts DEF Skip

(***************************************************************************)
(* The next token of a suffix of the source has such a place.              *)
(***************************************************************************)
LEMMA TokenPlaces ==
  ASSUME NEW s \in Seq(Byte), NEW r \in Seq(Byte),
         Len(r) <= Len(s), r = Skip(s, Len(s) - Len(r))
  PROVE  \E b \in Len(s) - Len(r) .. Len(s) : \E e \in b .. Len(s) :
           Located(s, Len(s) - Len(r), b, e, NextToken(r))
<1> DEFINE m == Len(r)
           p == Len(s) - m
           t == NextToken(r)
<1>1. Len(s) \in Nat /\ m \in Nat /\ p \in 0 .. Len(s) /\ p + m = Len(s)
  BY LenProperties
<1>2. \A i \in 1 .. m : r[i] = s[p + i]
  <2>1. /\ Skip(s, p) \in Seq(Byte) /\ Len(Skip(s, p)) = Len(s) - p
        /\ \A i \in 1 .. Len(s) - p : Skip(s, p)[i] = s[p + i]
    <3> HIDE DEF p
    <3> QED BY <1>1, SkipFacts
  <2> QED BY <1>1, <2>1
<1>11. PICK c \in 0 .. m : \E d \in c .. m : Consumed(r, c, d, t)
  BY TokenConsumes
<1>3. PICK d \in c .. m : Consumed(r, c, d, t)
  BY <1>11
<1> DEFINE b == p + c
           e == p + d
<1>4. b \in p .. Len(s) /\ e \in b .. Len(s) /\ d \in 0 .. m
  BY <1>1, <1>3
<1>5. Len(t.remaining) = Len(s) - e
  <2>1. /\ Skip(r, d) \in Seq(Byte) /\ Len(Skip(r, d)) = m - d
    BY <1>4, SkipFacts
  <2>2. t.remaining = Skip(r, d)
    BY <1>3 DEF Consumed
  <2> QED BY <1>1, <1>4, <2>1, <2>2
<1> HIDE DEF p, t
<1>6. ASSUME NEW i \in p + 1 .. p + m
      PROVE  i - p \in 1 .. m /\ r[i - p] = s[i]
  BY <1>1, <1>2
<1>7. \A i \in p + 1 .. b : Stop(s[i]) = 2
  <2>1. \A i \in p + 1 .. b : i \in p + 1 .. p + m /\ i - p \in 1 .. c
    BY <1>1, <1>3
  <2> QED BY <1>3, <1>6, <2>1 DEF Consumed
<1>8. CASE t.token = "end" /\ c = d /\ d = m
  BY <1>1, <1>4, <1>5, <1>7, <1>8 DEF Located, p, t
<1>9. CASE t.token \in {"left", "right"}
  <2>1. /\ c + 1 = d
        /\ \/ t.token = "left" /\ r[d] = LeftParen
           \/ t.token = "right" /\ r[d] = RightParen
    BY <1>3, <1>9 DEF Consumed
  <2>2. e = b + 1 /\ e \in p + 1 .. p + m /\ e - p = d
    BY <1>1, <1>3, <2>1
  <2>3. s[b + 1] = r[d]
    BY <1>6, <2>2
  <2> QED BY <1>4, <1>5, <1>7, <2>1, <2>2, <2>3 DEF Located, p, t
<1>10. CASE /\ t.token = "atom" /\ c < d
            /\ t.text = SubSeq(r, c + 1, d)
            /\ \A i \in c + 1 .. d : Stop(r[i]) = 0
            /\ d < m => Stop(r[d + 1]) # 0
  <2>1. \A i \in b + 1 .. e : Stop(s[i]) = 0
    <3>1. \A i \in b + 1 .. e : i \in p + 1 .. p + m /\ i - p \in c + 1 .. d
      BY <1>1, <1>3
    <3> QED BY <1>6, <1>10, <3>1
  <2>2. e < Len(s) => Stop(s[e + 1]) # 0
    <3> SUFFICES ASSUME e < Len(s) PROVE Stop(s[e + 1]) # 0
      OBVIOUS
    <3>1. e + 1 \in p + 1 .. p + m /\ (e + 1) - p = d + 1 /\ d < m
      BY <1>1, <1>3, <1>4
    <3> QED BY <1>6, <1>10, <3>1
  <2>3. b < e
    BY <1>1, <1>3, <1>10
  <2>4. t.text = SubSeq(s, b + 1, e)
    <3>1. c \in 0 .. Len(s) - p /\ d \in c .. Len(s) - p
      BY <1>1, <1>3
    <3>2. SubSeq(Skip(s, p), c + 1, d) = SubSeq(s, p + c + 1, p + d)
      BY <1>1, <3>1, SliceOfSkip
    <3> QED BY <1>10, <3>2 DEF p
  <2> QED BY <1>4, <1>5, <1>7, <1>10, <2>1, <2>2, <2>3, <2>4 DEF Located, p, t
<1> QED BY <1>3, <1>8, <1>9, <1>10 DEF Consumed

-----------------------------------------------------------------------------
(***************************************************************************)
(* UTF-8 by ranges of bytes, as from_utf8 decides it, and by code points,  *)
(* as IsText says it, are the same.  First for one character.              *)
(***************************************************************************)
LeadAt(s, i) ==
  /\ Width(s[i]) > 0
  /\ i + Width(s[i]) - 1 <= Len(s)
  /\ \A k \in i + 1 .. i + Width(s[i]) - 1 : Continues(s[k])
  /\ Width(s[i]) > 1 => s[i + 1] \in Second(s[i])

(***************************************************************************)
(* A leading byte and what follows it encode a scalar value of their width *)
(* when from_utf8 takes them: two bytes, three, and four.                  *)
(***************************************************************************)
LEMMA TwoBytes ==
  ASSUME NEW a \in Int, 192 <= a, a < 224, NEW b \in Int, Carries(b)
  PROVE  Takes((a - 192) * 64 + (b - 128), 2) <=> 194 <= a
BY SMT DEF Carries, Takes

(***************************************************************************)
(* The code points of three and of four bytes.                             *)
(***************************************************************************)
Code3(a, b, c) == (a - 224) * 4096 + (b - 128) * 64 + (c - 128)

Code4(a, b, c, d) ==
  (a - 240) * 262144 + (b - 128) * 4096 + (c - 128) * 64 + (d - 128)

LEMMA ThreeBytes ==
  ASSUME NEW a \in Int, 224 <= a, a < 240, NEW b \in Int, Carries(b), NEW c \in Int, Carries(c)
  PROVE  Takes(Code3(a, b, c), 3) <=> b \in Second(a)
<1>1. PICK p \in Int : p = Code3(a, b, c)
  BY SMT DEF Code3
<1>2. Takes(p, 3) <=> (a = 224 => b >= 160) /\ (a = 237 => b < 160)
  BY <1>1, SMT DEF Carries, Takes, Code3
<1>3. b \in Second(a) <=> (a = 224 => b >= 160) /\ (a = 237 => b < 160)
  BY SMT DEF Second, Carries
<1> QED BY <1>1, <1>2, <1>3, Zenon

LEMMA FourBytes ==
  ASSUME NEW a \in Int, 240 <= a, a < 248, NEW b \in Int, Carries(b),
         NEW c \in Int, Carries(c), NEW d \in Int, Carries(d)
  PROVE  Takes(Code4(a, b, c, d), 4) <=> a < 245 /\ b \in Second(a)
<1>1. PICK p \in Int : p = Code4(a, b, c, d)
  BY SMT DEF Code4
<1>2. Takes(p, 4) <=> a < 245 /\ (a = 240 => b >= 144) /\ (a = 244 => b < 144)
  BY <1>1, SMT DEF Carries, Takes, Code4
<1>3. b \in Second(a) <=> (a = 240 => b >= 144) /\ (a = 244 => b < 144)
  BY SMT DEF Second, Carries
<1> QED BY <1>1, <1>2, <1>3, Zenon

(***************************************************************************)
(* What each byte says of its character.                                   *)
(***************************************************************************)
LEMMA Leading ==
  ASSUME NEW a \in Byte
  PROVE  /\ a \in Int /\ 0 <= a /\ a < 256
         /\ Continues(a) <=> Carries(a)
         /\ a < 128 => Announced(a) = 1 /\ Width(a) = 1
         /\ Carries(a) => Announced(a) = 0 /\ Width(a) = 0
         /\ 192 <= a /\ a < 194 => Announced(a) = 2 /\ Width(a) = 0
         /\ 194 <= a /\ a < 224 => Announced(a) = 2 /\ Width(a) = 2 /\ Second(a) = 128 .. 191
         /\ 224 <= a /\ a < 240 => Announced(a) = 3 /\ Width(a) = 3
         /\ 240 <= a /\ a < 245 => Announced(a) = 4 /\ Width(a) = 4
         /\ 245 <= a /\ a < 248 => Announced(a) = 4 /\ Width(a) = 0
         /\ 248 <= a => Announced(a) = 0 /\ Width(a) = 0
<1>1. a \in Int /\ 0 <= a /\ a < 256
  BY SMT DEF Byte
<1>2. Continues(a) <=> Carries(a)
  BY <1>1, SMT DEF Continues, Carries
<1>3. /\ a < 128 => Announced(a) = 1
      /\ Carries(a) => Announced(a) = 0
      /\ 192 <= a /\ a < 224 => Announced(a) = 2
      /\ 224 <= a /\ a < 240 => Announced(a) = 3
      /\ 240 <= a /\ a < 248 => Announced(a) = 4
      /\ 248 <= a => Announced(a) = 0
  BY <1>1, SMT DEF Announced, Carries
<1>4. /\ a < 128 => Width(a) = 1
      /\ 128 <= a /\ a < 194 => Width(a) = 0
      /\ 194 <= a /\ a < 224 => Width(a) = 2
      /\ 224 <= a /\ a < 240 => Width(a) = 3
      /\ 240 <= a /\ a < 245 => Width(a) = 4
      /\ 245 <= a => Width(a) = 0
  BY <1>1, SMT DEF Width
<1>5. Carries(a) => 128 <= a /\ a < 194
  BY <1>1, SMT DEF Carries
<1>6. 194 <= a /\ a < 224 => Second(a) = 128 .. 191
  BY <1>1, SMT DEF Second
<1> HIDE DEF Width, Announced, Second, Carries, Continues
<1> QED BY <1>1, <1>2, <1>3, <1>4, <1>5, <1>6, SMT

(***************************************************************************)
(* The two definitions take the same bytes for a character.                *)
(***************************************************************************)
LEMMA CharExact ==
  ASSUME NEW s \in Seq(Byte), NEW i \in 1 .. Len(s)
  PROVE  CharAt(s, i) <=> LeadAt(s, i)
<1>0. Len(s) \in Nat /\ \A k \in 1 .. Len(s) : s[k] \in Byte
  BY LenProperties, ElementOfSeq
<1>1. PICK a \in Byte : a = s[i]
  BY <1>0
<1>2. \A k \in 1 .. Len(s) : s[k] \in Int /\ (Continues(s[k]) <=> Carries(s[k]))
  BY <1>0, Leading
<1>3. a \in Int /\ 0 <= a /\ a < 256
  BY Leading
<1>4. CASE a < 128
  <2>1. Announced(a) = 1 /\ Width(a) = 1
    BY <1>4, Leading
  <2>2. Takes(CodePoint(s, i, 1), 1)
    BY <1>1, <1>3, <1>4, SMT DEF CodePoint, Takes
  <2>3. CharAt(s, i)
    BY <1>0, <1>1, <2>1, <2>2, SMT DEF CharAt
  <2>4. LeadAt(s, i)
    BY <1>0, <1>1, <2>1, SMT DEF LeadAt
  <2> QED BY <2>3, <2>4
<1>5. CASE 192 <= a /\ a < 224
  <2>1. /\ Announced(a) = 2
        /\ IF 194 <= a THEN Width(a) = 2 /\ Second(a) = 128 .. 191 ELSE Width(a) = 0
    BY <1>3, <1>5, Leading, SMT
  <2>2. CodePoint(s, i, 2) = (a - 192) * 64 + (s[i + 1] - 128)
    BY <1>1, SMT DEF CodePoint
  <2> DEFINE Trails == i + 1 <= Len(s) /\ Carries(s[i + 1])
             Coded   == Takes(CodePoint(s, i, 2), 2)
  <2>3. CharAt(s, i) <=> Trails /\ Coded
    BY <1>0, <1>1, <2>1, SMT DEF CharAt
  <2>4. LeadAt(s, i) <=> 194 <= a /\ Trails
    <3>1. i + 1 <= Len(s) => (Continues(s[i + 1]) <=> Carries(s[i + 1]))
      BY <1>0, <1>2, SMT
    <3>2. CASE 194 <= a
      <4>1. Width(a) = 2
        BY <2>1, <3>2
      <4>2. s[i + 1] \in Second(a) <=> Continues(s[i + 1])
        BY <2>1, <3>2, Zenon DEF Continues
      <4> HIDE DEF Trails
      <4>3. LeadAt(s, i) <=> i + 1 <= Len(s) /\ Continues(s[i + 1])
        BY <1>0, <1>1, <4>1, <4>2, SMT DEF LeadAt
      <4> QED BY <3>1, <3>2, <4>3, Zenon DEF Trails
    <3>3. CASE ~ (194 <= a)
      <4>1. Width(a) = 0
        BY <2>1, <3>3
      <4> QED BY <1>1, <3>3, <4>1, SMT DEF LeadAt
    <3> QED BY <3>2, <3>3
  <2>5. Trails => (Coded <=> 194 <= a)
    <3> SUFFICES ASSUME Trails PROVE Coded <=> 194 <= a
      OBVIOUS
    <3>1. PICK b \in Int : b = s[i + 1] /\ Carries(b)
      BY <1>0, <1>2, SMT
    <3>2. Takes((a - 192) * 64 + (b - 128), 2) <=> 194 <= a
      BY <1>3, <1>5, <3>1, TwoBytes, SMT
    <3> QED BY <2>2, <3>1, <3>2, SMT
  <2> HIDE DEF Trails, Coded
  <2> QED BY <2>3, <2>4, <2>5, Zenon
<1>6. CASE 224 <= a /\ a < 240
  <2>1. Announced(a) = 3 /\ Width(a) = 3
    BY <1>6, Leading
  <2>2. CodePoint(s, i, 3) = Code3(a, s[i + 1], s[i + 2])
    BY <1>1, SMT DEF CodePoint, Code3
  <2> DEFINE Trails == i + 2 <= Len(s) /\ Carries(s[i + 1]) /\ Carries(s[i + 2])
             Coded  == Takes(CodePoint(s, i, 3), 3)
  <2>3. CharAt(s, i) <=> Trails /\ Coded
    BY <1>0, <1>1, <2>1, SMT DEF CharAt
  <2>4. LeadAt(s, i) <=> Trails /\ s[i + 1] \in Second(a)
    <3>1. i + 2 <= Len(s) => /\ Continues(s[i + 1]) <=> Carries(s[i + 1])
                             /\ Continues(s[i + 2]) <=> Carries(s[i + 2])
      BY <1>0, <1>2, SMT
    <3> QED BY <1>0, <1>1, <2>1, <3>1, SMT DEF LeadAt
  <2>5. Trails => (Coded <=> s[i + 1] \in Second(a))
    <3> SUFFICES ASSUME Trails PROVE Coded <=> s[i + 1] \in Second(a)
      OBVIOUS
    <3>1. PICK b \in Int : b = s[i + 1] /\ Carries(b)
      BY <1>0, <1>2, SMT
    <3>2. PICK c \in Int : c = s[i + 2] /\ Carries(c)
      BY <1>0, <1>2, SMT
    <3>3. Takes(Code3(a, b, c), 3) <=> b \in Second(a)
      BY <1>3, <1>6, <3>1, <3>2, ThreeBytes, SMT
    <3> QED BY <2>2, <3>1, <3>2, <3>3, SMT
  <2> HIDE DEF Trails, Coded
  <2> QED BY <2>3, <2>4, <2>5, Zenon
<1>7. CASE 240 <= a /\ a < 248
  <2>1. Announced(a) = 4 /\ Width(a) = IF a < 245 THEN 4 ELSE 0
    BY <1>3, <1>7, Leading, SMT
  <2>2. CodePoint(s, i, 4) = Code4(a, s[i + 1], s[i + 2], s[i + 3])
    BY <1>1, SMT DEF CodePoint, Code4
  <2> DEFINE Trails == i + 3 <= Len(s) /\ Carries(s[i + 1]) /\ Carries(s[i + 2]) /\ Carries(s[i + 3])
             Coded  == Takes(CodePoint(s, i, 4), 4)
  <2>3. CharAt(s, i) <=> Trails /\ Coded
    BY <1>0, <1>1, <2>1, SMT DEF CharAt
  <2>4. LeadAt(s, i) <=> Trails /\ a < 245 /\ s[i + 1] \in Second(a)
    <3>1. i + 3 <= Len(s) => /\ Continues(s[i + 1]) <=> Carries(s[i + 1])
                             /\ Continues(s[i + 2]) <=> Carries(s[i + 2])
                             /\ Continues(s[i + 3]) <=> Carries(s[i + 3])
      BY <1>0, <1>2, SMT
    <3> QED BY <1>0, <1>1, <1>3, <2>1, <3>1, SMT DEF LeadAt
  <2>5. Trails => (Coded <=> a < 245 /\ s[i + 1] \in Second(a))
    <3> SUFFICES ASSUME Trails PROVE Coded <=> a < 245 /\ s[i + 1] \in Second(a)
      OBVIOUS
    <3>1. PICK b \in Int : b = s[i + 1] /\ Carries(b)
      BY <1>0, <1>2, SMT
    <3>2. PICK c \in Int : c = s[i + 2] /\ Carries(c)
      BY <1>0, <1>2, SMT
    <3>3. PICK d \in Int : d = s[i + 3] /\ Carries(d)
      BY <1>0, <1>2, SMT
    <3>4. Takes(Code4(a, b, c, d), 4) <=> a < 245 /\ b \in Second(a)
      BY <1>3, <1>7, <3>1, <3>2, <3>3, FourBytes, SMT
    <3> QED BY <2>2, <3>1, <3>2, <3>3, <3>4, SMT
  <2> HIDE DEF Trails, Coded
  <2> QED BY <2>3, <2>4, <2>5, Zenon
<1>8. CASE Carries(a) \/ 248 <= a
  <2>1. Announced(a) = 0 /\ Width(a) = 0
    BY <1>8, Leading
  <2> QED BY <1>1, <2>1, SMT DEF CharAt, LeadAt
<1>9. a < 128 \/ Carries(a) \/ (192 <= a /\ a < 224) \/ (224 <= a /\ a < 240)
        \/ (240 <= a /\ a < 248) \/ 248 <= a
  BY <1>3, SMT DEF Carries
<1> QED BY <1>4, <1>5, <1>6, <1>7, <1>8, <1>9, Zenon

(***************************************************************************)
(* So they take the same sequences of bytes for text.                      *)
(***************************************************************************)
THEOREM Utf8IsText ==
  ASSUME NEW s \in Seq(Byte)
  PROVE  IsUtf8(s) <=> IsText(s)
<1>0. Len(s) \in Nat
  BY LenProperties
<1>1. \A x \in Byte : /\ Announced(x) \in 0 .. 4 /\ Width(x) \in 0 .. 4
                      /\ Width(x) > 0 => Announced(x) = Width(x)
                      /\ Continues(x) => Announced(x) = 0
  <2> SUFFICES ASSUME NEW x \in Byte
               PROVE  /\ Announced(x) \in 0 .. 4 /\ Width(x) \in 0 .. 4
                      /\ Width(x) > 0 => Announced(x) = Width(x)
                      /\ Continues(x) => Announced(x) = 0
    OBVIOUS
  <2>1. x \in Int /\ 0 <= x /\ (Continues(x) <=> Carries(x))
    BY Leading
  <2>2. x < 128 \/ Carries(x) \/ (192 <= x /\ x < 194) \/ (194 <= x /\ x < 224)
          \/ (224 <= x /\ x < 240) \/ (240 <= x /\ x < 245) \/ (245 <= x /\ x < 248) \/ 248 <= x
    BY <2>1, SMT DEF Carries
  <2>3. CASE Carries(x)
    BY <2>1, <2>3, Leading, SMT
  <2>4. CASE ~ Carries(x)
    BY <2>1, <2>2, <2>4, Leading, SMT
  <2> QED BY <2>3, <2>4
<1>2. \A i \in 1 .. Len(s) : /\ Announced(s[i]) \in 0 .. 4 /\ Width(s[i]) \in 0 .. 4
                             /\ Width(s[i]) > 0 => Announced(s[i]) = Width(s[i])
                             /\ Continues(s[i]) => Announced(s[i]) = 0
  <2>1. \A i \in 1 .. Len(s) : s[i] \in Byte
    BY ElementOfSeq
  <2> TAKE i \in 1 .. Len(s)
  <2>2. PICK x \in Byte : x = s[i]
    BY <2>1
  <2> QED BY <1>1, <2>2
<1>3. \A i \in 1 .. Len(s) : CharAt(s, i) => /\ ~ Continues(s[i])
                                             /\ Width(s[i]) > 0
                                             /\ Announced(s[i]) = Width(s[i])
  BY <1>2, CharExact DEF CharAt, LeadAt
<1>4. ASSUME IsUtf8(s) PROVE IsText(s)
  <2> SUFFICES ASSUME NEW i \in 1 .. Len(s)
               PROVE  \E j \in 1 .. i : i < j + Announced(s[j]) /\ CharAt(s, j)
    BY DEF IsText
  <2>1. \A j \in 1 .. Len(s) : ~ Continues(s[j]) => CharAt(s, j)
    <3>1. \A j \in 1 .. Len(s) : ~ Continues(s[j]) => LeadAt(s, j)
      BY <1>4 DEF IsUtf8, LeadAt
    <3> QED BY <3>1, CharExact
  <2>2. CASE Continues(s[i])
    <3>1. PICK j \in 1 .. i - 1 : i - j < Width(s[j])
      BY <1>4, <2>2 DEF IsUtf8
    <3>2. j \in 1 .. Len(s) /\ j \in 1 .. i
      BY <1>0
    <3>3. Width(s[j]) > 0 /\ Announced(s[j]) = Width(s[j])
      BY <1>0, <1>2, <3>1, <3>2
    <3>4. CharAt(s, j)
      BY <1>2, <2>1, <3>2, <3>3
    <3>5. Width(s[j]) \in 0 .. 4
      BY <1>2, <3>2
    <3>6. i < j + Announced(s[j])
      BY <3>1, <3>2, <3>3, <3>5
    <3> QED BY <3>2, <3>4, <3>6
  <2>3. CASE ~ Continues(s[i])
    <3>1. CharAt(s, i) /\ Announced(s[i]) \in 1 .. 4
      BY <1>2, <1>3, <2>1, <2>3
    <3>2. i \in 1 .. i /\ i < i + Announced(s[i])
      BY <1>0, <3>1
    <3> QED BY <3>1, <3>2
  <2> QED BY <2>2, <2>3
<1>5. ASSUME IsText(s) PROVE IsUtf8(s)
  <2>1. ASSUME NEW i \in 1 .. Len(s)
        PROVE  \E j \in 1 .. i : /\ LeadAt(s, j) /\ ~ Continues(s[j])
                                 /\ i < j + Width(s[j]) /\ Width(s[j]) \in 0 .. 4
    <3>1. PICK j \in 1 .. i : i < j + Announced(s[j]) /\ CharAt(s, j)
      BY <1>5 DEF IsText
    <3>2. j \in 1 .. Len(s)
      BY <1>0
    <3>3. LeadAt(s, j) /\ ~ Continues(s[j]) /\ i < j + Width(s[j]) /\ Width(s[j]) \in 0 .. 4
      BY <1>2, <1>3, <3>1, <3>2, CharExact
    <3> QED BY <3>3
  <2>2. ASSUME NEW i \in 1 .. Len(s), Continues(s[i])
        PROVE  \E j \in 1 .. i - 1 : i - j < Width(s[j]) /\ \A k \in j + 1 .. i : Continues(s[k])
    <3>1. PICK j \in 1 .. i : /\ LeadAt(s, j) /\ ~ Continues(s[j])
                              /\ i < j + Width(s[j]) /\ Width(s[j]) \in 0 .. 4
      BY <2>1
    <3>2. j # i
      BY <2>2, <3>1
    <3>3. j \in 1 .. i - 1 /\ i - j < Width(s[j])
      BY <3>1, <3>2
    <3>4. \A k \in j + 1 .. i : k \in j + 1 .. j + Width(s[j]) - 1
      BY <3>1
    <3>5. \A k \in j + 1 .. i : Continues(s[k])
      BY <3>1, <3>4 DEF LeadAt
    <3> QED BY <3>3, <3>5
  <2>3. ASSUME NEW i \in 1 .. Len(s), ~ Continues(s[i])
        PROVE  LeadAt(s, i)
    <3>1. PICK j \in 1 .. i : /\ LeadAt(s, j) /\ ~ Continues(s[j])
                              /\ i < j + Width(s[j]) /\ Width(s[j]) \in 0 .. 4
      BY <2>1
    <3>2. j # i => i \in j + 1 .. j + Width(s[j]) - 1
      BY <3>1
    <3>3. j = i
      BY <2>3, <3>1, <3>2 DEF LeadAt
    <3> QED BY <3>1, <3>3
  <2> QED BY <2>2, <2>3 DEF IsUtf8, LeadAt
<1> QED BY <1>4, <1>5

-----------------------------------------------------------------------------
(***************************************************************************)
(* The invariant behind OutcomeMeant: as long as the parser goes on, it    *)
(* has met no stray bracket, it keeps as many lists open as the brackets   *)
(* say, and it has recorded every form that begins at the top.             *)
(***************************************************************************)
ReadSoFar == ReadTo(input, Len(input) - Len(remaining), Len(open), Len(top))

OutcomeInv ==
  /\ OutcomeMeant
  /\ outcome = "given" => open = <<>> /\ top = <<>>
  /\ outcome = "parsing" => IsUtf8(input) /\ ReadSoFar

(***************************************************************************)
(* Meaning, in the terms of the lemmas above.                              *)
(***************************************************************************)
LEMMA MeaningFacts ==
  ASSUME input \in Seq(Byte)
  PROVE  /\ ~ IsUtf8(input) => Meaning = "InvalidUtf8"
         /\ \A i \in 1 .. Len(input) :
              IsUtf8(input) /\ Depth(input, i + 1) < 0 => Meaning = "StrayClosingParenthesis"
         /\ \A l, t :
              IsUtf8(input) /\ ReadTo(input, Len(input), l, t) =>
                /\ l # 0 => Meaning = "UnclosedParenthesis"
                /\ l = 0 /\ t > 1 => Meaning = "MultipleTopLevelForms"
                /\ l = 0 /\ t = 1 => Meaning = "tree"
                /\ l = 0 /\ t = 0 => Meaning = "bare"
<1>1. DOMAIN input = 1 .. Len(input) /\ Len(input) \in Nat
  BY LenProperties
<1>2. IsUtf8(input) <=> IsText(input)
  BY Utf8IsText
<1>4. ~ IsUtf8(input) => Meaning = "InvalidUtf8"
  BY <1>2 DEF Meaning
<1>5. ASSUME NEW i \in 1 .. Len(input), IsUtf8(input), Depth(input, i + 1) < 0
      PROVE  Meaning = "StrayClosingParenthesis"
  <2>1. \E j \in DOMAIN input : Depth(input, j + 1) < 0
    BY <1>1, <1>5
  <2> QED BY <1>2, <1>5, <2>1 DEF Meaning
<1>6. ASSUME NEW l, NEW t, IsUtf8(input), ReadTo(input, Len(input), l, t)
      PROVE  /\ l # 0 => Meaning = "UnclosedParenthesis"
             /\ l = 0 /\ t > 1 => Meaning = "MultipleTopLevelForms"
             /\ l = 0 /\ t = 1 => Meaning = "tree"
             /\ l = 0 /\ t = 0 => Meaning = "bare"
  <2>1. l \in Nat /\ t \in Nat
    BY <1>6, ReadFacts
  <2>2. /\ \A i \in 1 .. Len(input) : Depth(input, i + 1) >= 0
        /\ l = Depth(input, Len(input) + 1)
        /\ t = Cardinality(TopForms(input, Len(input)))
    BY <1>6 DEF ReadTo
  <2>3. ~ \E i \in DOMAIN input : Depth(input, i + 1) < 0
    <3>1. \A i \in 1 .. Len(input) : Depth(input, i + 1) \in Int
      BY <1>1, DepthStep
    <3> QED BY <1>1, <2>2, <3>1
  <2>4. Depth(input, Len(input) + 1) = l
    BY <2>2
  <2>5. {i \in FormStarts(input) : Depth(input, i) = 0} = TopForms(input, Len(input))
    <3>1. \A i \in FormStarts(input) : i <= Len(input)
      BY <1>1 DEF FormStarts
    <3> QED BY <3>1 DEF TopForms
  <2>6. CASE l # 0
    <3>1. Depth(input, Len(input) + 1) > 0
      BY <2>1, <2>4, <2>6
    <3> QED BY <1>2, <1>6, <2>3, <2>6, <3>1 DEF Meaning
  <2>7. CASE l = 0
    <3>1. ~ (Depth(input, Len(input) + 1) > 0)
      BY <2>4, <2>7
    <3>2. Meaning = CASE t = 0 -> "bare" [] t = 1 -> "tree" [] OTHER -> "MultipleTopLevelForms"
      BY <1>2, <1>6, <2>2, <2>3, <2>5, <3>1 DEF Meaning
    <3> QED BY <2>1, <2>7, <3>2
  <2> QED BY <2>6, <2>7
<1> QED BY <1>4, <1>5, <1>6

(***************************************************************************)
(* At first nothing is open and nothing is recorded.                       *)
(***************************************************************************)
LEMMA InitOutcomeInv == ParseInit => OutcomeInv
BY DEF ParseInit, OutcomeInv, OutcomeMeant

(***************************************************************************)
(* Decoding rejects what is not UTF-8, and nothing is read yet of the rest. *)
(***************************************************************************)
LEMMA DecodeMeans ==
  ASSUME ParseInv, OutcomeInv, Decode
  PROVE  OutcomeInv'
<1>1. /\ outcome = "given" /\ open = <<>> /\ top = <<>> /\ remaining = input
      /\ outcome' = IF IsUtf8(input) THEN "parsing" ELSE "InvalidUtf8"
      /\ input' = input /\ remaining' = remaining /\ open' = open /\ top' = top
      /\ input \in Seq(Byte)
  BY SourceFacts DEF Decode, ParseInv, OutcomeInv
<1>2. PICK M : M = Meaning
  OBVIOUS
<1>3. Meaning' = M
  BY <1>1, <1>2 DEF Meaning
<1>4. CASE ~ IsUtf8(input)
  BY <1>1, <1>2, <1>3, <1>4, MeaningFacts DEF OutcomeInv, OutcomeMeant
<1>5. CASE IsUtf8(input)
  <2>1. ReadTo(input, 0, 0, 0)
    <3>1. Len(input) \in Nat
      BY <1>1, LenProperties
    <3>2. Depth(input, 0 + 1) = 0
      BY <1>1, DepthStep
    <3>3. TopForms(input, 0) = {}
      BY <3>1 DEF TopForms, FormStarts
    <3>4. Cardinality(TopForms(input, 0)) = 0
      BY <3>3, FS_EmptySet
    <3> QED BY <3>1, <3>2, <3>4 DEF ReadTo
  <2>2. Len(input') - Len(remaining') = 0 /\ Len(open') = 0 /\ Len(top') = 0
    BY <1>1, LenProperties
  <2>3. ReadSoFar'
    BY <1>1, <2>1, <2>2 DEF ReadSoFar
  <2>4. outcome' = "parsing" /\ IsUtf8(input)'
    BY <1>1, <1>5
  <2> QED BY <2>3, <2>4 DEF OutcomeInv, OutcomeMeant
<1> QED BY <1>4, <1>5

(***************************************************************************)
(* Where the parser stands before and after a token.                       *)
(***************************************************************************)
LEMMA AdvancePlaces ==
  ASSUME ParseInv, OutcomeInv, NEW token, Advance(token)
  PROVE  /\ outcome = "parsing" /\ input \in Seq(Byte) /\ IsUtf8(input)
         /\ input' = input /\ Meaning' = Meaning
         /\ \E b \in 0 .. Len(input), e \in 0 .. Len(input) :
              /\ ReadTo(input, b, Len(open), Len(top))
              /\ b <= e /\ e = Len(input) - Len(remaining')
              /\ token = "end" => b = Len(input)
              /\ token = "left" => e = b + 1 /\ b < e /\ input[b + 1] = LeftParen
              /\ token = "right" => e = b + 1 /\ input[b + 1] = RightParen
              /\ token = "atom" => /\ b < e
                                   /\ \A i \in b + 1 .. e : Stop(input[i]) = 0
                                   /\ e < Len(input) => Stop(input[e + 1]) # 0
<1> DEFINE t == NextToken(remaining)
           p == Len(input) - Len(remaining)
<1>1. /\ outcome = "parsing" /\ input' = input
      /\ t.token = token /\ remaining' = t.remaining
  BY DEF Advance
<1>2. /\ input \in Seq(Byte) /\ remaining \in Seq(Byte) /\ Len(remaining) <= Len(input)
      /\ remaining = Skip(input, Len(input) - Len(remaining))
      /\ IsUtf8(input) /\ ReadTo(input, p, Len(open), Len(top))
  BY <1>1, SourceFacts DEF ParseInv, ParseTypeOK, OutcomeInv, ReadSoFar
<1>11. PICK b \in p .. Len(input) : \E e \in b .. Len(input) : Located(input, p, b, e, t)
  BY <1>2, TokenPlaces
<1>3. PICK e \in b .. Len(input) : Located(input, p, b, e, t)
  BY <1>11
<1>4. Len(input) \in Nat /\ p \in 0 .. Len(input)
  BY <1>2, LenProperties
<1> HIDE DEF t, p
<1>5. b \in 0 .. Len(input) /\ e \in 0 .. Len(input) /\ b <= e
  BY <1>3, <1>4
<1>6. ReadTo(input, b, Len(open), Len(top))
  <2>1. \A i \in p + 1 .. b : Stop(input[i]) = 2
    BY <1>3 DEF Located
  <2> QED BY <1>2, <1>3, <2>1, BlanksRead
<1>7. Len(remaining') = Len(input) - e
  BY <1>1, <1>3 DEF Located
<1>8. e = Len(input) - Len(remaining')
  BY <1>4, <1>5, <1>7
<1>9. /\ token = "end" => b = Len(input)
      /\ token = "left" => e = b + 1 /\ b < e /\ input[b + 1] = LeftParen
      /\ token = "right" => e = b + 1 /\ input[b + 1] = RightParen
      /\ token = "atom" => /\ b < e
                           /\ \A i \in b + 1 .. e : Stop(input[i]) = 0
                           /\ e < Len(input) => Stop(input[e + 1]) # 0
  BY <1>1, <1>3, <1>5 DEF Located
<1>10. Meaning' = Meaning
  BY <1>1 DEF Meaning
<1> QED BY <1>1, <1>2, <1>5, <1>6, <1>8, <1>9, <1>10

(***************************************************************************)
(* A form that is opened counts at the top just when no list is open.      *)
(***************************************************************************)
LEMMA FormCounted ==
  ASSUME open \in Seq(Slots), top \in Seq(Slots), NEW k, AddForm(k)
  PROVE  /\ Len(open) = 0 => Len(top') = Len(top) + 1
         /\ Len(open) # 0 => Len(top') = Len(top)
<1>1. Len(open) \in Nat /\ (open = <<>> <=> Len(open) = 0)
  BY LenProperties, EmptySeq
<1>2. CASE open = <<>>
  <2>1. top' = Append(top, NextKey)
    BY <1>2 DEF AddForm
  <2>2. Len(top') = Len(top) + 1
    BY <2>1
  <2> QED BY <1>1, <1>2, <2>2
<1>3. CASE open # <<>>
  BY <1>1, <1>3 DEF AddForm
<1> QED BY <1>2, <1>3

(***************************************************************************)
(* Each step of the parser keeps the invariant.                            *)
(***************************************************************************)
LEMMA StepMeans == ParseInv /\ OutcomeInv /\ [ParseNext]_parseVars => OutcomeInv'
<1> SUFFICES ASSUME ParseInv, OutcomeInv, [ParseNext]_parseVars
             PROVE  OutcomeInv'
  OBVIOUS
<1>0. open \in Seq(Slots) /\ top \in Seq(Slots) /\ Len(open) \in Nat /\ Len(top) \in Nat
  BY LenProperties DEF ParseInv, ParseTypeOK
<1>1. CASE Decode
  BY <1>1, DecodeMeans
<1>2. CASE OpenList
  <2>1. Advance("left") /\ AddForm(List) /\ open' = Append(open, NextKey) /\ outcome' = outcome
    BY <1>2 DEF OpenList
  <2>2. /\ outcome = "parsing" /\ input \in Seq(Byte) /\ IsUtf8(input) /\ input' = input
        /\ \E b \in 0 .. Len(input), e \in 0 .. Len(input) :
             /\ ReadTo(input, b, Len(open), Len(top))
             /\ e = Len(input) - Len(remaining')
             /\ e = b + 1 /\ b < e /\ input[b + 1] = LeftParen
    BY <2>1, AdvancePlaces
  <2>3. PICK b \in 0 .. Len(input), e \in 0 .. Len(input) :
             /\ ReadTo(input, b, Len(open), Len(top))
             /\ e = Len(input) - Len(remaining')
             /\ e = b + 1 /\ b < e /\ input[b + 1] = LeftParen
    BY <2>2
  <2>4. Len(open') = Len(open) + 1
    BY <1>0, <2>1
  <2>5. /\ Len(open) = 0 => Len(top') = Len(top) + 1
        /\ Len(open) # 0 => Len(top') = Len(top)
    BY <1>0, <2>1, FormCounted
  <2>6. ReadTo(input, e, Len(open'), Len(top'))
    <3>1. e \in b + 1 .. Len(input)
      BY <2>2, <2>3, LenProperties
    <3>2. /\ Len(open) = 0 => ReadTo(input, e, Len(open) + 1, Len(top) + 1)
          /\ Len(open) # 0 => ReadTo(input, e, Len(open) + 1, Len(top))
      BY <2>2, <2>3, <3>1, FormRead
    <3> QED BY <2>4, <2>5, <3>2
  <2>7. outcome' = "parsing" /\ IsUtf8(input)' /\ ReadSoFar'
    BY <2>1, <2>2, <2>3, <2>6 DEF ReadSoFar
  <2> QED BY <2>7 DEF OutcomeInv, OutcomeMeant
<1>3. CASE AddAtom
  <2>1. Advance("atom") /\ AddForm(New(NextToken(remaining).text)) /\ open' = open /\ outcome' = outcome
    BY <1>3 DEF AddAtom
  <2>2. /\ outcome = "parsing" /\ input \in Seq(Byte) /\ IsUtf8(input) /\ input' = input
        /\ \E b \in 0 .. Len(input), e \in 0 .. Len(input) :
             /\ ReadTo(input, b, Len(open), Len(top))
             /\ e = Len(input) - Len(remaining') /\ b < e
             /\ \A i \in b + 1 .. e : Stop(input[i]) = 0
             /\ e < Len(input) => Stop(input[e + 1]) # 0
    BY <2>1, AdvancePlaces
  <2>3. PICK b \in 0 .. Len(input), e \in 0 .. Len(input) :
             /\ ReadTo(input, b, Len(open), Len(top))
             /\ e = Len(input) - Len(remaining') /\ b < e
             /\ \A i \in b + 1 .. e : Stop(input[i]) = 0
             /\ e < Len(input) => Stop(input[e + 1]) # 0
    BY <2>2
  <2>5. /\ Len(open) = 0 => Len(top') = Len(top) + 1
        /\ Len(open) # 0 => Len(top') = Len(top)
    BY <1>0, <2>1, FormCounted
  <2>6. ReadTo(input, e, Len(open'), Len(top'))
    <3>1. e \in b + 1 .. Len(input) /\ b + 1 \in b + 1 .. e
      BY <2>2, <2>3, LenProperties
    <3>2. input[b + 1] # LeftParen
      BY <2>3, <3>1 DEF Stop
    <3>3. /\ Len(open) = 0 => ReadTo(input, e, Len(open), Len(top) + 1)
          /\ Len(open) # 0 => ReadTo(input, e, Len(open), Len(top))
      BY <2>2, <2>3, <3>1, <3>2, FormRead
    <3> QED BY <2>1, <2>5, <3>3
  <2>7. outcome' = "parsing" /\ IsUtf8(input)' /\ ReadSoFar'
    BY <2>1, <2>2, <2>3, <2>6 DEF ReadSoFar
  <2> QED BY <2>7 DEF OutcomeInv, OutcomeMeant
<1>4. CASE CloseList
  <2>1. Advance("right") /\ top' = top
    BY <1>4 DEF CloseList
  <2>2. /\ outcome = "parsing" /\ input \in Seq(Byte) /\ IsUtf8(input) /\ input' = input
        /\ Meaning' = Meaning
        /\ \E b \in 0 .. Len(input), e \in 0 .. Len(input) :
             /\ ReadTo(input, b, Len(open), Len(top))
             /\ e = Len(input) - Len(remaining')
             /\ e = b + 1 /\ input[b + 1] = RightParen
    BY <2>1, AdvancePlaces
  <2>3. PICK b \in 0 .. Len(input), e \in 0 .. Len(input) :
             /\ ReadTo(input, b, Len(open), Len(top))
             /\ e = Len(input) - Len(remaining')
             /\ e = b + 1 /\ input[b + 1] = RightParen
    BY <2>2
  <2>4. Len(input) \in Nat /\ b < Len(input)
    BY <2>2, <2>3, LenProperties
  <2>5. /\ Len(open) = 0 => Depth(input, (b + 1) + 1) < 0
        /\ Len(open) # 0 => ReadTo(input, b + 1, Len(open) - 1, Len(top))
    BY <2>2, <2>3, <2>4, CloseRead
  <2>6. CASE open = <<>>
    <3>1. b + 1 \in 1 .. Len(input) /\ Len(open) = 0
      BY <2>4, <2>6
    <3>2. Meaning = "StrayClosingParenthesis"
      BY <2>2, <2>5, <3>1, MeaningFacts
    <3>3. outcome' = "StrayClosingParenthesis"
      BY <1>4, <2>6 DEF CloseList
    <3>4. Meaning' = "StrayClosingParenthesis"
      BY <2>2, <3>2
    <3> QED BY <3>3, <3>4 DEF OutcomeInv, OutcomeMeant
  <2>7. CASE open # <<>>
    <3>1. Len(open) # 0
      BY <1>0, <2>7, EmptySeq
    <3>2. open' = SubSeq(open, 1, Len(open) - 1) /\ outcome' = outcome
      BY <1>4, <2>7 DEF CloseList
    <3>3. Len(open') = Len(open) - 1
      <4> DEFINE m == Len(open) - 1
      <4>1. m \in Nat /\ \A i \in 1 .. m : i \in 1 .. Len(open)
        BY <1>0, <3>1
      <4>2. \A i \in 1 .. m : open[i] \in Slots
        BY <1>0, <4>1, ElementOfSeq
      <4> HIDE DEF m
      <4>3. Len(SubSeq(open, 1, m)) = IF 1 <= m THEN m - 1 + 1 ELSE 0
        BY <4>1, <4>2, SubSeqProperties
      <4>4. Len(SubSeq(open, 1, m)) = m
        BY <4>1, <4>3
      <4> QED BY <3>2, <4>4 DEF m
    <3>4. outcome' = "parsing" /\ IsUtf8(input)' /\ ReadSoFar'
      BY <2>1, <2>2, <2>3, <2>5, <3>1, <3>2, <3>3 DEF ReadSoFar
    <3> QED BY <3>4 DEF OutcomeInv, OutcomeMeant
  <2> QED BY <2>6, <2>7
<1>5. CASE Finish
  <2>1. Advance("end")
    BY <1>5 DEF Finish
  <2>2. /\ input \in Seq(Byte) /\ IsUtf8(input) /\ Meaning' = Meaning
        /\ ReadTo(input, Len(input), Len(open), Len(top))
    BY <2>1, AdvancePlaces
  <2> DEFINE l == Len(open)
             t == Len(top)
  <2>0. l \in Nat /\ t \in Nat
    BY <1>0
  <2>3. /\ l # 0 => Meaning = "UnclosedParenthesis"
        /\ l = 0 /\ t > 1 => Meaning = "MultipleTopLevelForms"
        /\ l = 0 /\ t = 1 => Meaning = "tree"
        /\ l = 0 /\ t = 0 => Meaning = "bare"
    <3>1. \A x, y :
            IsUtf8(input) /\ ReadTo(input, Len(input), x, y) =>
              /\ x # 0 => Meaning = "UnclosedParenthesis"
              /\ x = 0 /\ y > 1 => Meaning = "MultipleTopLevelForms"
              /\ x = 0 /\ y = 1 => Meaning = "tree"
              /\ x = 0 /\ y = 0 => Meaning = "bare"
      BY <2>2, MeaningFacts
    <3>2. ReadTo(input, Len(input), l, t)
      BY <2>2
    <3> HIDE DEF l, t
    <3> QED BY <2>2, <3>1, <3>2
  <2>4. (open = <<>> <=> Len(open) = 0) /\ (top = <<>> <=> Len(top) = 0)
    BY <1>0, EmptySeq
  <2>5. outcome' = IF open # <<>> THEN "UnclosedParenthesis"
                   ELSE IF Len(top) > 1 THEN "MultipleTopLevelForms"
                   ELSE IF top = <<>> THEN "bare" ELSE "tree"
    BY <1>5 DEF Finish
  <2>6. outcome' = Meaning
    <3>1. outcome' = IF l # 0 THEN "UnclosedParenthesis"
                     ELSE IF t > 1 THEN "MultipleTopLevelForms"
                     ELSE IF t = 0 THEN "bare" ELSE "tree"
      BY <2>4, <2>5
    <3> HIDE DEF l, t
    <3>2. t > 1 \/ t = 1 \/ t = 0
      BY <2>0
    <3> QED BY <2>0, <2>3, <3>1, <3>2
  <2>7. outcome' \notin {"given", "parsing"} /\ outcome' = Meaning'
    BY <2>2, <2>5, <2>6
  <2> QED BY <2>7 DEF OutcomeInv, OutcomeMeant
<1>6. CASE UNCHANGED parseVars
  <2>1. /\ input' = input /\ remaining' = remaining /\ open' = open /\ top' = top
        /\ outcome' = outcome
    BY <1>6 DEF parseVars
  <2> QED BY <2>1 DEF OutcomeInv, OutcomeMeant, ReadSoFar, Meaning
<1> QED BY <1>1, <1>2, <1>3, <1>4, <1>5, <1>6 DEF ParseNext

(***************************************************************************)
(* parse_bytes gives each source the outcome that counting its brackets    *)
(* says: the four errors, the tree and the empty one, whatever the source. *)
(***************************************************************************)
THEOREM OutcomeExact == TripSpec => []OutcomeMeant
<1>1. TripInit => ParseInv /\ OutcomeInv
  BY InitParseInv, InitOutcomeInv DEF TripInit
<1>2. ParseInv /\ OutcomeInv /\ [TripNext]_tripVars => (ParseInv /\ OutcomeInv)'
  <2>1. [TripNext]_tripVars => [ParseNext]_parseVars
    BY DEF TripNext, Read, BeginWrite, WriteBare, Write, EndWrite, tripVars
  <2> QED BY <2>1, NextParseInv, StepMeans
<1>3. OutcomeInv => OutcomeMeant
  BY DEF OutcomeInv
<1> QED BY <1>1, <1>2, <1>3, PTL DEF TripSpec

-----------------------------------------------------------------------------
-----------------------------------------------------------------------------
(***************************************************************************)
(* The right brackets of k lists.                                          *)
(***************************************************************************)
Rights(k) == [i \in 1 .. k |-> Mark(")")]

(***************************************************************************)
(* One more right bracket, before or behind the others.                    *)
(***************************************************************************)
LEMMA RightsFacts ==
  ASSUME NEW k \in Nat
  PROVE  /\ Rights(k) \in Seq(Tokens) /\ Len(Rights(k)) = k
         /\ Rights(0) = <<>>
         /\ Rights(k) \o <<Mark(")")>> = Rights(k + 1)
         /\ <<Mark(")")>> \o Rights(k) = Rights(k + 1)
<1> DEFINE m == Mark(")")
           o == <<m>>
           r == Rights(k)
           q == Rights(k + 1)
           x == r \o o
           y == o \o r
<1>1. m \in Tokens
  BY DEF Tokens
<1> HIDE DEF m
<1>2. o \in Seq(Tokens) /\ Len(o) = 1 /\ o[1] = m
  BY <1>1
<1>3. /\ r \in Seq(Tokens) /\ Len(r) = k /\ \A i \in 1 .. k : r[i] = m
      /\ q \in Seq(Tokens) /\ Len(q) = k + 1 /\ \A i \in 1 .. k + 1 : q[i] = m
  BY <1>1 DEF Rights, m
<1>4. Rights(0) = <<>>
  <2>1. Rights(0) \in Seq(Tokens) /\ Len(Rights(0)) = 0
    BY <1>1 DEF Rights, m
  <2> QED BY <2>1, EmptySeq
<1> HIDE DEF o, r, q
<1>5. /\ x \in Seq(Tokens) /\ Len(x) = k + 1
      /\ \A i \in 1 .. k + 1 : x[i] = IF i <= k THEN r[i] ELSE o[i - k]
  BY <1>2, <1>3, ConcatProperties, SMTT(40)
<1>6. /\ y \in Seq(Tokens) /\ Len(y) = k + 1
      /\ \A i \in 1 .. k + 1 : y[i] = IF i <= 1 THEN o[i] ELSE r[i - 1]
  <2>1. /\ y \in Seq(Tokens) /\ Len(y) = Len(o) + Len(r)
        /\ \A i \in 1 .. Len(o) + Len(r) : y[i] = IF i <= Len(o) THEN o[i] ELSE r[i - Len(o)]
    BY <1>2, <1>3, ConcatProperties
  <2>2. Len(o) + Len(r) = k + 1
    BY <1>2, <1>3
  <2> HIDE DEF y
  <2> QED BY <1>2, <2>1, <2>2
<1> HIDE DEF x, y
<1>7. \A i \in 1 .. k + 1 : x[i] = m /\ y[i] = m
  <2> SUFFICES ASSUME NEW i \in 1 .. k + 1 PROVE x[i] = m /\ y[i] = m
    OBVIOUS
  <2>1. x[i] = m
    <3>1. CASE i <= k
      BY <1>3, <1>5, <3>1
    <3>2. CASE ~ (i <= k)
      <4>1. i - k = 1
        BY <3>2
      <4> QED BY <1>2, <1>5, <3>2, <4>1
    <3> QED BY <3>1, <3>2
  <2>2. y[i] = m
    <3>1. CASE i <= 1
      <4>1. i = 1
        BY <3>1
      <4> QED BY <1>2, <1>6, <4>1
    <3>2. CASE ~ (i <= 1)
      <4>1. i - 1 \in 1 .. k
        BY <3>2
      <4> QED BY <1>3, <1>6, <3>2, <4>1
    <3> QED BY <3>1, <3>2
  <2> QED BY <2>1, <2>2
<1>8. x = q
  BY <1>3, <1>5, <1>7, SeqEqual
<1>9. y = q
  BY <1>3, <1>6, <1>7, SeqEqual
<1> QED BY <1>3, <1>4, <1>8, <1>9 DEF x, y, q, r, o, m

(***************************************************************************)
(* A text grows by g before its last k right brackets.                     *)
(***************************************************************************)
Grows(g, x, y, k) ==
  \E a \in Seq(Tokens) : x = a \o Rights(k) /\ y = (a \o g) \o Rights(k)

(***************************************************************************)
(* It grows at its end, behind what it begins with, and before a bracket   *)
(* that is added.                                                          *)
(***************************************************************************)
LEMMA GrowsAtEnd ==
  ASSUME NEW g \in Seq(Tokens), NEW x \in Seq(Tokens)
  PROVE  Grows(g, x, x \o g, 0)
<1> DEFINE V == Seq(Tokens)
           y == x \o g
<1>1. y \in V /\ x \in V
  BY ConcatProperties
<1>2. Rights(0) = <<>>
  BY RightsFacts
<1> HIDE DEF y
<1>3. x = x \o <<>> /\ y = y \o <<>>
  BY <1>1, ConcatEmptySeq DEF V
<1> QED BY <1>1, <1>2, <1>3 DEF Grows, V, y

(***************************************************************************)
(* Where one text grows, so does the two of them behind another text.      *)
(***************************************************************************)
LEMMA GrowsBehind ==
  ASSUME NEW g \in Seq(Tokens), NEW x, NEW y, NEW k \in Nat, Grows(g, x, y, k),
         NEW w \in Seq(Tokens)
  PROVE  Grows(g, w \o x, w \o y, k)
<1> DEFINE V == Seq(Tokens)
           r == Rights(k)
<1>1. PICK a \in V : x = a \o r /\ y = (a \o g) \o r
  BY DEF Grows
<1>2. r \in V
  BY RightsFacts
<1> HIDE DEF r
<1>3. Joins(V) /\ Regroups(V) /\ g \in V /\ w \in V /\ a \in V /\ r \in V
  BY <1>1, <1>2, SeqJoins
<1> HIDE DEF V
<1>4. w \o a \in V /\ a \o g \in V
  BY <1>3 DEF Joins
<1>5. (w \o a) \o r = w \o (a \o r)
  BY <1>3 DEF Regroups
<1>6. (w \o (a \o g)) \o r = w \o ((a \o g) \o r)
  BY <1>3, <1>4, SMTT(40) DEF Regroups
<1>7. (w \o a) \o g = w \o (a \o g)
  BY <1>3 DEF Regroups
<1>8. w \o x = (w \o a) \o r
  BY <1>1, <1>5
<1>9. w \o y = ((w \o a) \o g) \o r
  BY <1>1, <1>6, <1>7
<1> QED BY <1>4, <1>8, <1>9 DEF Grows, V, r

(***************************************************************************)
(* A bracket added at the end is one more that the text grows before.      *)
(***************************************************************************)
LEMMA GrowsBefore ==
  ASSUME NEW g \in Seq(Tokens), NEW x, NEW y, NEW k \in Nat, Grows(g, x, y, k)
  PROVE  Grows(g, x \o <<Mark(")")>>, y \o <<Mark(")")>>, k + 1)
<1> DEFINE V == Seq(Tokens)
           r == Rights(k)
           q == Rights(k + 1)
           o == <<Mark(")")>>
<1>1. PICK a \in V : x = a \o r /\ y = (a \o g) \o r
  BY DEF Grows
<1>2. r \in V /\ r \o o = q
  BY RightsFacts
<1>3. o \in V
  <2>1. Mark(")") \in Tokens
    BY DEF Tokens
  <2> QED BY <2>1
<1> HIDE DEF r, q, o
<1>4. Joins(V) /\ Regroups(V) /\ g \in V /\ a \in V /\ r \in V /\ o \in V
  BY <1>1, <1>2, <1>3, SeqJoins
<1> HIDE DEF V
<1>5. a \o g \in V
  BY <1>4 DEF Joins
<1>6. (a \o r) \o o = a \o (r \o o)
  BY <1>4 DEF Regroups
<1>7. ((a \o g) \o r) \o o = (a \o g) \o (r \o o)
  BY <1>4, <1>5, SMTT(40) DEF Regroups
<1>8. x \o o = a \o q
  BY <1>1, <1>2, <1>6
<1>9. y \o o = (a \o g) \o q
  BY <1>1, <1>2, <1>7
<1> QED BY <1>4, <1>8, <1>9 DEF Grows, V, q, o

(***************************************************************************)
(* Where the brackets begin is known from their number.                    *)
(***************************************************************************)
LEMMA RightsCut ==
  ASSUME NEW a \in Seq(Tokens), NEW b \in Seq(Tokens), NEW k \in Nat,
         NEW x, x = a \o Rights(k), x = b \o Rights(k)
  PROVE  a = b
<1> DEFINE r == Rights(k)
<1>1. r \in Seq(Tokens) /\ Len(r) = k
  BY RightsFacts
<1> HIDE DEF r
<1>2. /\ Len(x) = Len(a) + k /\ \A i \in 1 .. Len(a) : x[i] = a[i]
      /\ Len(x) = Len(b) + k /\ \A i \in 1 .. Len(b) : x[i] = b[i]
  <2>1. x = a \o r /\ x = b \o r
    BY DEF r
  <2>2. /\ Len(a \o r) = Len(a) + k
        /\ \A i \in 1 .. Len(a) + k : (a \o r)[i] = IF i <= Len(a) THEN a[i] ELSE r[i - Len(a)]
    BY <1>1, ConcatProperties
  <2>3. /\ Len(b \o r) = Len(b) + k
        /\ \A i \in 1 .. Len(b) + k : (b \o r)[i] = IF i <= Len(b) THEN b[i] ELSE r[i - Len(b)]
    BY <1>1, ConcatProperties
  <2>4. Len(a) \in Nat /\ Len(b) \in Nat
    BY LenProperties
  <2> QED BY <2>1, <2>2, <2>3, <2>4
<1>3. Len(a) \in Nat /\ Len(b) \in Nat
  BY LenProperties
<1>4. Len(a) = Len(b)
  BY <1>2, <1>3
<1>5. \A i \in 1 .. Len(a) : a[i] = b[i]
  BY <1>2, <1>4
<1> QED BY <1>4, <1>5, SeqEqual

(***************************************************************************)
(* The text x is a and k right brackets.                                   *)
(***************************************************************************)
Bracketed(x, a, k) == x = a \o Rights(k)

(***************************************************************************)
(* A text that grows has its new part where its brackets begin.            *)
(***************************************************************************)
LEMMA GrowsWhere ==
  ASSUME NEW g \in Seq(Tokens), NEW x, NEW y, NEW k \in Nat, Grows(g, x, y, k),
         NEW b \in Seq(Tokens), Bracketed(x, b, k)
  PROVE  Bracketed(y, b \o g, k)
<1>1. PICK a \in Seq(Tokens) : x = a \o Rights(k) /\ y = (a \o g) \o Rights(k)
  BY DEF Grows
<1>2. a = b
  BY <1>1, RightsCut DEF Bracketed
<1> QED BY <1>1, <1>2 DEF Bracketed

(***************************************************************************)
(* The open lists lead down from a root, each the last child of the one    *)
(* before.                                                                 *)
(***************************************************************************)
Spine(N, o) ==
  /\ \A i \in 1 .. Len(o) : o[i] \in Live(N) /\ N[o[i]].kind = List
  /\ \A i \in 1 .. Len(o) - 1 : N[o[i]].last = o[i + 1]
  /\ \A i, j \in 1 .. Len(o) : o[i] = o[j] => i = j
  /\ o # <<>> => N[o[1]].parent = Null

(***************************************************************************)
(* The nodes on it and their children.                                     *)
(***************************************************************************)
LEMMA SpineFacts ==
  ASSUME NEW N \in Table, WellFormed(N), NEW o \in Seq(Slots), o # <<>>, Spine(N, o)
  PROVE  /\ Len(o) \in Nat \ {0}
         /\ \A i \in 1 .. Len(o) : o[i] \in Live(N) /\ o[i] # Null /\ N[o[i]].kind = List
         /\ \A i \in 1 .. Len(o) - 1 :
              /\ i + 1 \in 1 .. Len(o) /\ N[o[i]].last = o[i + 1]
              /\ N[o[i + 1]].parent = o[i] /\ N[o[i + 1]].next = Null
         /\ \A i, j \in 1 .. Len(o) : N[o[j]].parent = o[i] => j = i + 1
         /\ \A j \in 1 .. Len(o) : j # 1 => \E i \in 1 .. Len(o) : N[o[j]].parent = o[i]
<1>1. Len(o) \in Nat \ {0}
  BY EmptySeq, LenProperties
<1>2. \A i \in 1 .. Len(o) : o[i] \in Live(N) /\ o[i] # Null /\ N[o[i]].kind = List
  BY TableCells DEF Spine
<1>3. \A i \in 1 .. Len(o) - 1 :
        /\ i + 1 \in 1 .. Len(o) /\ N[o[i]].last = o[i + 1]
        /\ N[o[i + 1]].parent = o[i] /\ N[o[i + 1]].next = Null
  <2> SUFFICES ASSUME NEW i \in 1 .. Len(o) - 1
               PROVE  /\ i + 1 \in 1 .. Len(o) /\ N[o[i]].last = o[i + 1]
                      /\ N[o[i + 1]].parent = o[i] /\ N[o[i + 1]].next = Null
    OBVIOUS
  <2>1. i \in 1 .. Len(o) /\ i + 1 \in 1 .. Len(o)
    BY <1>1
  <2>2. N[o[i]].last = o[i + 1]
    BY DEF Spine
  <2> QED BY <1>2, <2>1, <2>2 DEF WellFormed, LinksOK, EndsAgree
<1>4. \A j \in 1 .. Len(o) : j # 1 => j - 1 \in 1 .. Len(o) /\ N[o[j]].parent = o[j - 1]
  <2> SUFFICES ASSUME NEW j \in 1 .. Len(o), j # 1
               PROVE  j - 1 \in 1 .. Len(o) /\ N[o[j]].parent = o[j - 1]
    OBVIOUS
  <2>1. j - 1 \in 1 .. Len(o) - 1 /\ (j - 1) + 1 = j
    BY <1>1
  <2>2. N[o[(j - 1) + 1]].parent = o[j - 1]
    BY <1>3, <2>1
  <2> QED BY <1>1, <2>1, <2>2
<1>5. ASSUME NEW i \in 1 .. Len(o), NEW j \in 1 .. Len(o), N[o[j]].parent = o[i]
      PROVE  j = i + 1
  <2>1. j # 1
    BY <1>2, <1>5 DEF Spine
  <2>2. j - 1 \in 1 .. Len(o) /\ o[j - 1] = o[i]
    BY <1>4, <1>5, <2>1
  <2>3. j - 1 = i
    BY <2>2 DEF Spine
  <2> QED BY <1>1, <2>3
<1> QED BY <1>1, <1>2, <1>3, <1>4, <1>5

(***************************************************************************)
(* What a fresh node c of the innermost open list p adds to the text: what *)
(* it is written as, after a space when p has children.                    *)
(***************************************************************************)
Gained(N, p, y) == IF N[p].first = Null THEN y ELSE <<Mark(" ")>> \o y

(***************************************************************************)
(* LinkChild of a fresh node to the innermost open list: the text of the   *)
(* tree grows before the right brackets of the open lists, by the text of  *)
(* the node and the space before it (add_child while a list is parsed).    *)
(***************************************************************************)
LEMMA GrowsOnSpine ==
  ASSUME NEW N \in Table, WellFormed(N), NEW o \in Seq(Slots), o # <<>>, Spine(N, o),
         NEW c \in Slots, N[c] = Vacant, NEW k \in Kinds,
         NEW M, M = LinkChild(Allocate(N, c, k), o[Len(o)], c),
         NEW y, y = Written(M, c, <<>>)
  PROVE  Grows(Gained(N, o[Len(o)], y), Text(N, o[1]), Text(M, o[1]), Len(o))
<1> DEFINE l == Len(o)
           p == o[l]
           T == Texts(N)
           U == Texts(M)
           V == Seq(Tokens)
           g == Gained(N, p, y)
           Opens(m) == \E i \in 1 .. l : m = o[i]
           Right(m) == /\ \A i \in 1 .. l : N[m].parent = o[i] => Grows(g, T[m], U[m], l - i)
                       /\ ~ Opens(N[m].parent) /\ m # o[1] => U[m] = T[m]
<1>1. /\ l \in Nat \ {0} /\ l \in 1 .. l /\ 1 \in 1 .. l
      /\ \A i \in 1 .. l : o[i] \in Live(N) /\ o[i] # Null /\ N[o[i]].kind = List
      /\ \A i \in 1 .. l - 1 :
           /\ i + 1 \in 1 .. l /\ N[o[i]].last = o[i + 1]
           /\ N[o[i + 1]].parent = o[i] /\ N[o[i + 1]].next = Null
      /\ \A i, j \in 1 .. l : N[o[j]].parent = o[i] => j = i + 1
      /\ \A j \in 1 .. l : j # 1 => \E i \in 1 .. l : N[o[j]].parent = o[i]
      /\ \A i, j \in 1 .. l : o[i] = o[j] => i = j
      /\ N[o[1]].parent = Null
  <2>1. Len(o) \in Nat \ {0}
    BY SpineFacts
  <2> QED BY <2>1, SpineFacts DEF Spine
<1>2. p \in Live(N)
  BY <1>1
<1>3. /\ M \in Table
      /\ Live(M) = Live(N) \union {c}
      /\ WellFormed(M)
      /\ \A n \in Live(N) :
           /\ M[n].parent = N[n].parent /\ M[n].kind = N[n].kind
           /\ M[n].next = IF n = N[p].last THEN c ELSE N[n].next
           /\ M[n].first = IF n = p /\ N[p].last = Null THEN c ELSE N[n].first
      /\ M[c].kind = k /\ M[c].next = Null /\ M[c].first = Null
  BY <1>2, FreshChild
<1>4. c \notin Live(N) /\ c # Null /\ Null \notin Live(N)
  BY TableCells DEF Live
<1>5. /\ LinksOK(N) /\ NoSiblingCycle(N) /\ NoParentCycle(N)
      /\ LinksOK(M) /\ NoSiblingCycle(M) /\ NoParentCycle(M)
  BY <1>3 DEF WellFormed
<1>6. /\ T[Null] = <<>> /\ \A n \in Live(N) \union {Null} : T[n] \in V
      /\ \A n \in Live(N) : Text(N, n) \in V /\ T[n] = Text(N, n) \o Joined(N, n, T[N[n].next])
  BY <1>5, TextsUnfold, FrameText
<1>7. /\ U[Null] = <<>> /\ \A n \in Live(M) \union {Null} : U[n] \in V
      /\ \A n \in Live(M) : Text(M, n) \in V /\ U[n] = Text(M, n) \o Joined(M, n, U[M[n].next])
  BY <1>3, <1>5, TextsUnfold, FrameText
<1>8. \A n \in Live(N) :
        /\ N[n].first \in Live(N) \union {Null} /\ N[n].next \in Live(N) \union {Null}
        /\ N[n].first = Null <=> N[n].last = Null
        /\ N[n].first # Null => N[N[n].first].parent = n /\ N[N[n].first].prev = Null
        /\ N[n].last # Null => N[N[n].last].parent = n /\ N[N[n].last].next = Null
        /\ N[n].next # Null => N[N[n].next].prev = n /\ N[N[n].next].parent = N[n].parent
        /\ N[n].parent = Null => N[n].prev = Null
        /\ N[n].parent # Null /\ N[n].next = Null => N[N[n].parent].last = n
  BY <1>5 DEF LinksOK, LinkLive, EndsAgree, SiblingsAgree, ChildLinked
<1> HIDE DEF T, U
<1>9. U[c] = y /\ y \in V
  <2>1. Text(M, c) = y
    BY <1>3, <1>7 DEF Text, U
  <2>2. Joined(M, c, U[M[c].next]) = <<>>
    BY <1>3 DEF Joined
  <2>3. c \in Live(M)
    BY <1>3
  <2>4. Text(M, c) \o <<>> = Text(M, c)
    BY <1>7, <2>3, ConcatEmptySeq
  <2> QED BY <1>7, <2>1, <2>2, <2>3, <2>4
<1>10. <<Mark(" ")>> \in V /\ <<Mark("(")>> \in V /\ <<>> \in V
  BY DEF Tokens
<1>11. g \in V
  BY <1>9, <1>10, ConcatProperties DEF Gained
<1> HIDE DEF g, V
<1>12. \A x \in V : x \o <<>> = x
  BY ConcatEmptySeq DEF V
<1>13. \A n \in Live(N) : N[n].next = Null => T[n] = Text(N, n)
  <2>1. ASSUME NEW n \in Live(N), N[n].next = Null PROVE T[n] = Text(N, n)
    <3>1. Joined(N, n, T[N[n].next]) = <<>>
      BY <2>1 DEF Joined
    <3> QED BY <1>6, <1>12, <3>1, Zenon
  <2> QED BY <2>1
<1>14. \A n \in Live(N) : M[n].next = Null => U[n] = Text(M, n)
  <2>1. ASSUME NEW n \in Live(N), M[n].next = Null PROVE U[n] = Text(M, n)
    <3>1. Joined(M, n, U[M[n].next]) = <<>>
      BY <2>1 DEF Joined
    <3>2. n \in Live(M)
      BY <1>3
    <3> QED BY <1>7, <1>12, <3>1, <3>2, Zenon
  <2> QED BY <2>1
<1>15. /\ \A n \in Live(N) : N[n].next # Null => T[n] = Text(N, n) \o (<<Mark(" ")>> \o T[N[n].next])
       /\ \A n \in Live(N) : M[n].next # Null => U[n] = Text(M, n) \o (<<Mark(" ")>> \o U[M[n].next])
  <2>1. /\ \A n \in Live(N) : T[n] = Text(N, n) \o Joined(N, n, T[N[n].next])
        /\ \A n \in Live(N) : U[n] = Text(M, n) \o Joined(M, n, U[M[n].next])
    BY <1>3, <1>6, <1>7
  <2>2. /\ \A n : N[n].next # Null => Joined(N, n, T[N[n].next]) = <<Mark(" ")>> \o T[N[n].next]
        /\ \A n : M[n].next # Null => Joined(M, n, U[M[n].next]) = <<Mark(" ")>> \o U[M[n].next]
    BY Zenon DEF Joined
  <2> QED BY <2>1, <2>2, Zenon
<1> HIDE DEF p
<1>16. ASSUME NEW n \in Live(N), N[n].first # Null => Right(N[n].first)
       PROVE  /\ \A i \in 1 .. l : n = o[i] => Grows(g, Text(N, n), Text(M, n), (l - i) + 1)
              /\ ~ Opens(n) => Text(M, n) = Text(N, n)
  <2> DEFINE f == N[n].first
  <2>1. ASSUME NEW i \in 1 .. l, n = o[i]
        PROVE  Grows(g, Text(N, n), Text(M, n), (l - i) + 1)
    <3> DEFINE a == <<Mark("(")>>
               b == <<Mark(")")>>
               x == T[f]
               z == U[M[n].first]
    <3>1. Text(N, n) = (a \o x) \o b /\ Text(M, n) = (a \o z) \o b
      <4>1. N[n].kind = List /\ M[n].kind = List
        BY <1>1, <1>3, <2>1
      <4>2. Text(N, n) = Written(N, n, x) /\ Text(M, n) = Written(M, n, z)
        BY Zenon DEF Text, T, U
      <4> HIDE DEF x, z
      <4> QED BY <4>1, <4>2, Zenon DEF Written
    <3>2. Grows(g, x, z, l - i)
      <4>1. CASE f # Null
        <5>1. N[f].parent = o[i] /\ N[n].last # Null
          BY <1>8, <2>1, <4>1
        <5>2. M[n].first = f
          BY <1>3, <5>1
        <5>3. Grows(g, T[f], U[f], l - i)
          BY <1>16, <4>1, <5>1
        <5> QED BY <5>2, <5>3
      <4>2. CASE f = Null
        <5>1. N[n].last = Null
          BY <1>8, <4>2
        <5>2. i = l
          BY <1>1, <2>1, <5>1
        <5>3. n = p /\ M[n].first = c
          BY <1>3, <2>1, <5>1, <5>2 DEF p
        <5>4. g = y /\ x = <<>> /\ z = y
          BY <1>6, <1>9, <4>2, <5>3 DEF Gained, g
        <5>5. Grows(g, <<>>, <<>> \o g, 0)
          BY <1>10, <1>11, GrowsAtEnd DEF V
        <5>6. <<>> \o g = g
          BY <1>11, ConcatEmptySeq DEF V
        <5>7. l - i = 0
          BY <1>1, <5>2
        <5> QED BY <5>4, <5>5, <5>6, <5>7
      <4> QED BY <4>1, <4>2
    <3> DEFINE j == l - i
    <3>3. j \in Nat
      BY <1>1
    <3>4. a \in Seq(Tokens) /\ g \in Seq(Tokens)
      BY <1>10, <1>11 DEF V
    <3> HIDE DEF x, z, j, a
    <3>5. Grows(g, x, z, j)
      BY <3>2 DEF j
    <3>6. Grows(g, a \o x, a \o z, j)
      BY <3>3, <3>4, <3>5, GrowsBehind
    <3>7. Grows(g, (a \o x) \o <<Mark(")")>>, (a \o z) \o <<Mark(")")>>, j + 1)
      BY <3>3, <3>4, <3>6, GrowsBefore
    <3> QED BY <3>1, <3>7 DEF j
  <2>2. ASSUME ~ Opens(n) PROVE Text(M, n) = Text(N, n)
    <3>1. n # p
      BY <1>1, <2>2 DEF p
    <3>2. M[n].first = f /\ M[n].kind = N[n].kind
      BY <1>3, <3>1
    <3>3. U[f] = T[f]
      <4>1. CASE f = Null
        BY <1>6, <1>7, <4>1
      <4>2. CASE f # Null
        <5>1. N[f].parent = n
          BY <1>8, <4>2
        <5>2. f # o[1]
          BY <1>1, <1>4, <5>1
        <5> QED BY <1>16, <2>2, <4>2, <5>1, <5>2
      <4> QED BY <4>1, <4>2
    <3> QED BY <3>2, <3>3 DEF Text, Written, T, U
  <2> QED BY <2>1, <2>2
<1>17. ASSUME NEW m \in Live(N), N[m].first # Null => Right(N[m].first),
              N[m].next # Null => Right(N[m].next)
       PROVE  Right(m)
  <2> DEFINE q == N[m].next
             w == Text(N, m)
             s == <<Mark(" ")>>
  <2>0. w \in Seq(Tokens) /\ s \in Seq(Tokens) /\ g \in Seq(Tokens)
    BY <1>6, <1>10, <1>11 DEF V
  <2>1. ASSUME NEW i \in 1 .. l, N[m].parent = o[i]
        PROVE  Grows(g, T[m], U[m], l - i)
    <3>1. \A j \in 1 .. l : m = o[j] => j = i + 1
      BY <1>1, <2>1
    <3>2. CASE q = Null /\ i = l
      <4>1. m = N[p].last
        BY <1>1, <1>8, <2>1, <3>2 DEF p
      <4>2. ~ Opens(m)
        BY <1>1, <3>1, <3>2
      <4>3. Text(M, m) = w
        BY <1>16, <1>17, <4>2
      <4>4. M[m].next = c
        BY <1>3, <4>1
      <4>5. N[p].first # Null
        BY <1>2, <1>4, <1>8, <4>1
      <4>6. T[m] = w /\ U[m] = w \o (s \o y)
        BY <1>4, <1>9, <1>13, <1>15, <3>2, <4>3, <4>4
      <4>7. g = s \o y
        BY <4>5 DEF Gained, g
      <4>8. Grows(g, w, w \o g, 0)
        BY <2>0, GrowsAtEnd
      <4>9. l - i = 0
        BY <1>1, <3>2
      <4> QED BY <4>6, <4>7, <4>8, <4>9
    <3>3. CASE q = Null /\ i # l
      <4>1. i \in 1 .. l - 1
        BY <1>1, <3>3
      <4>2. m = o[i + 1] /\ i + 1 \in 1 .. l
        BY <1>1, <1>8, <2>1, <3>3, <4>1
      <4>3. m # N[p].last
        <5>1. CASE N[p].last = Null
          BY <1>4, <5>1
        <5>2. CASE N[p].last # Null
          <6>1. N[N[p].last].parent = o[l]
            BY <1>2, <1>8, <5>2 DEF p
          <6>2. o[i] # o[l]
            BY <1>1, <3>3
          <6> QED BY <2>1, <6>1, <6>2
        <5> QED BY <5>1, <5>2
      <4>4. M[m].next = Null
        BY <1>3, <3>3, <4>3
      <4>5. T[m] = w /\ U[m] = Text(M, m)
        BY <1>13, <1>14, <3>3, <4>4
      <4>6. Grows(g, w, Text(M, m), (l - (i + 1)) + 1)
        BY <1>16, <1>17, <4>2
      <4>7. (l - (i + 1)) + 1 = l - i
        BY <1>1
      <4> QED BY <4>5, <4>6, <4>7
    <3>4. CASE q # Null
      <4>1. ~ Opens(m)
        <5> SUFFICES ASSUME NEW j \in 1 .. l, m = o[j] PROVE FALSE
          OBVIOUS
        <5>1. j = i + 1
          BY <3>1
        <5>2. i \in 1 .. l - 1
          BY <1>1, <5>1
        <5>3. N[o[i + 1]].next = Null
          BY <1>1, <5>2
        <5> QED BY <3>4, <5>1, <5>3
      <4>2. Text(M, m) = w
        BY <1>16, <1>17, <4>1
      <4>3. m # N[p].last
        BY <1>2, <1>4, <1>8, <3>4
      <4>4. M[m].next = q
        BY <1>3, <4>3
      <4>5. N[q].parent = o[i]
        BY <1>8, <2>1, <3>4
      <4>6. Grows(g, T[q], U[q], l - i)
        BY <1>17, <3>4, <4>5
      <4>7. T[m] = w \o (s \o T[q]) /\ U[m] = w \o (s \o U[q])
        BY <1>15, <3>4, <4>2, <4>4
      <4> DEFINE j == l - i
                 x == T[q]
                 z == U[q]
      <4>8. j \in Nat
        BY <1>1
      <4>9. Grows(g, x, z, j)
        BY <4>6
      <4> HIDE DEF j, x, z, w, s
      <4>10. Grows(g, s \o x, s \o z, j)
        BY <2>0, <4>8, <4>9, GrowsBehind
      <4>11. Grows(g, w \o (s \o x), w \o (s \o z), j)
        BY <2>0, <4>8, <4>10, GrowsBehind
      <4> QED BY <4>7, <4>11 DEF j, x, z, w, s
    <3> QED BY <3>2, <3>3, <3>4
  <2>2. ASSUME ~ Opens(N[m].parent), m # o[1] PROVE U[m] = T[m]
    <3>1. ~ Opens(m)
      BY <1>1, <2>2
    <3>2. Text(M, m) = w
      BY <1>16, <1>17, <3>1
    <3>3. m # N[p].last
      BY <1>1, <1>2, <1>4, <1>8, <2>2 DEF p
    <3>4. M[m].next = q
      BY <1>3, <3>3
    <3>5. CASE q = Null
      BY <1>13, <1>14, <3>2, <3>4, <3>5
    <3>6. CASE q # Null
      <4>1. N[q].parent = N[m].parent /\ N[q].prev = m /\ q \in Live(N)
        BY <1>8, <3>6
      <4>2. q # o[1]
        BY <1>1, <1>4, <1>8, <4>1
      <4>3. U[q] = T[q]
        BY <1>17, <2>2, <3>6, <4>1, <4>2
      <4> QED BY <1>15, <3>2, <3>4, <3>6, <4>3
    <3> QED BY <3>5, <3>6
  <2> QED BY <2>1, <2>2
<1>18. \A m \in Live(N) : Right(m)
  <2> DEFINE S == {m \in Live(N) : ~ Right(m)}
  <2> SUFFICES ASSUME S # {} PROVE FALSE
    BY Zenon
  <2>1. PICK m \in S : N[m].first \notin S /\ N[m].next \notin S
    BY <1>5, DescentEnds
  <2> HIDE DEF Right
  <2>2. N[m].first # Null => Right(N[m].first)
    BY <1>8, <2>1
  <2>3. N[m].next # Null => Right(N[m].next)
    BY <1>8, <2>1
  <2> QED BY <1>17, <2>1, <2>2, <2>3
<1>19. Grows(g, Text(N, o[1]), Text(M, o[1]), (l - 1) + 1)
  <2>1. o[1] \in Live(N) /\ 1 \in 1 .. l
    BY <1>1
  <2>2. N[o[1]].first # Null => Right(N[o[1]].first)
    <3> HIDE DEF Right
    <3> QED BY <1>8, <1>18, <2>1
  <2> HIDE DEF Right
  <2> QED BY <1>16, <2>1, <2>2
<1>20. (l - 1) + 1 = l
  BY <1>1
<1> QED BY <1>19, <1>20 DEF g, p

(***************************************************************************)
(* What is read in a text x: of an atom, its as_str.                       *)
(***************************************************************************)
Spoken(t) == IF "word" \in DOMAIN t THEN Word(AsStr(t.word)) ELSE t

(***************************************************************************)
(* The spelling of a text, token by token.                                 *)
(***************************************************************************)
Spelt(x) == [k \in 1 .. Len(x) |-> Spoken(x[k])]

(***************************************************************************)
(* What a text is spelt in.                                                *)
(***************************************************************************)
Said == {Spoken(t) : t \in Tokens}

(***************************************************************************)
(* The spelling of texts put together.                                     *)
(***************************************************************************)
LEMMA SpeltFacts ==
  /\ \A x \in Seq(Tokens) : Spelt(x) \in Seq(Said)
  /\ \A x, y \in Seq(Tokens) : Spelt(x \o y) = Spelt(x) \o Spelt(y)
  /\ \A t \in Tokens : Spelt(<<t>>) = <<Spoken(t)>>
  /\ \A m : Spoken(Mark(m)) = Mark(m)
  /\ \A v : Spoken(Word(v)) = Word(AsStr(v))
<1>1. ASSUME NEW x \in Seq(Tokens)
      PROVE  /\ Spelt(x) \in Seq(Said) /\ Len(Spelt(x)) = Len(x)
             /\ \A k \in 1 .. Len(x) : Spelt(x)[k] = Spoken(x[k])
  <2>1. Len(x) \in Nat /\ \A k \in 1 .. Len(x) : x[k] \in Tokens
    BY LenProperties, ElementOfSeq
  <2>2. \A k \in 1 .. Len(x) : Spoken(x[k]) \in Said
    BY <2>1 DEF Said
  <2> QED BY <2>1, <2>2 DEF Spelt
<1>2. ASSUME NEW x \in Seq(Tokens), NEW y \in Seq(Tokens)
      PROVE  Spelt(x \o y) = Spelt(x) \o Spelt(y)
  <2> DEFINE z == x \o y
             a == Spelt(x)
             b == Spelt(y)
             w == Spelt(z)
             v == a \o b
  <2>1. /\ z \in Seq(Tokens) /\ Len(z) = Len(x) + Len(y)
        /\ \A i \in 1 .. Len(x) + Len(y) : z[i] = IF i <= Len(x) THEN x[i] ELSE y[i - Len(x)]
    BY ConcatProperties
  <2> HIDE DEF z
  <2>2. /\ a \in Seq(Said) /\ Len(a) = Len(x) /\ \A k \in 1 .. Len(x) : a[k] = Spoken(x[k])
        /\ b \in Seq(Said) /\ Len(b) = Len(y) /\ \A k \in 1 .. Len(y) : b[k] = Spoken(y[k])
        /\ w \in Seq(Said) /\ Len(w) = Len(z) /\ \A k \in 1 .. Len(z) : w[k] = Spoken(z[k])
    BY <1>1, <2>1
  <2> HIDE DEF a, b, w
  <2>3. /\ v \in Seq(Said) /\ Len(v) = Len(a) + Len(b)
        /\ \A i \in 1 .. Len(a) + Len(b) : v[i] = IF i <= Len(a) THEN a[i] ELSE b[i - Len(a)]
    <3>1. a \in Seq(Said) /\ b \in Seq(Said)
      BY <2>2
    <3> QED BY <3>1, ConcatProperties
  <2> HIDE DEF v
  <2>4. Len(x) \in Nat /\ Len(y) \in Nat
    BY LenProperties
  <2>5. Len(w) = Len(v)
    BY <2>1, <2>2, <2>3
  <2>6. ASSUME NEW i \in 1 .. Len(w) PROVE w[i] = v[i]
    <3>1. CASE i <= Len(x)
      <4>1. i \in 1 .. Len(x) /\ i \in 1 .. Len(z) /\ i \in 1 .. Len(x) + Len(y)
        BY <2>1, <2>2, <2>4, <3>1
      <4> QED BY <2>1, <2>2, <2>3, <3>1, <4>1
    <3>2. CASE ~ (i <= Len(x))
      <4>1. i - Len(x) \in 1 .. Len(y) /\ i \in 1 .. Len(z) /\ i \in 1 .. Len(x) + Len(y)
        BY <2>1, <2>2, <2>4, <3>2
      <4> QED BY <2>1, <2>2, <2>3, <3>2, <4>1, ZenonT(40)
    <3> QED BY <3>1, <3>2
  <2>7. w = v
    BY <2>2, <2>3, <2>5, <2>6, SeqEqual
  <2> QED BY <2>7 DEF w, v, a, b, z
<1>3. ASSUME NEW t \in Tokens PROVE Spelt(<<t>>) = <<Spoken(t)>>
  <2> DEFINE o == <<t>>
             u == <<Spoken(t)>>
  <2>1. o \in Seq(Tokens) /\ Len(o) = 1 /\ o[1] = t
    OBVIOUS
  <2>2. Spoken(t) \in Said
    BY DEF Said
  <2>3. u \in Seq(Said) /\ Len(u) = 1 /\ u[1] = Spoken(t)
    BY <2>2
  <2> HIDE DEF o, u
  <2>4. Spelt(o) \in Seq(Said) /\ Len(Spelt(o)) = 1 /\ Spelt(o)[1] = Spoken(t)
    BY <1>1, <2>1
  <2>5. Spelt(o) = u
    BY <2>3, <2>4, SeqEqual
  <2> QED BY <2>5 DEF o, u
<1>4. \A m : Spoken(Mark(m)) = Mark(m)
  BY DEF Spoken, Mark
<1>5. \A v : Spoken(Word(v)) = Word(AsStr(v))
  BY DEF Spoken, Word
<1> QED BY <1>1, <1>2, <1>3, <1>4, <1>5

-----------------------------------------------------------------------------
(***************************************************************************)
(* What a token that begins at byte i adds to the canonical form.          *)
(***************************************************************************)
Added(s, i) == IF Spaced(s, i) THEN <<Ser!Mark(" "), Symbol(s, i)>> ELSE <<Symbol(s, i)>>

(***************************************************************************)
(* What a canonical form is made of.                                       *)
(***************************************************************************)
Symbols(s) == {Ser!Mark(" ")} \union {Symbol(s, i) : i \in 1 .. Len(s)}

(***************************************************************************)
(* The canonical form satisfies its equation.                              *)
(***************************************************************************)
LEMMA CanonicalUnfolds ==
  ASSUME NEW s \in Seq(Byte)
  PROVE  /\ CanonicalTo(s)[0] = <<>>
         /\ \A i \in 0 .. Len(s) : CanonicalTo(s)[i] \in Seq(Symbols(s))
         /\ \A i \in 1 .. Len(s) :
              /\ i \notin TokenStarts(s) => CanonicalTo(s)[i] = CanonicalTo(s)[i - 1]
              /\ i \in TokenStarts(s) => CanonicalTo(s)[i] = CanonicalTo(s)[i - 1] \o Added(s, i)
<1> DEFINE n == Len(s)
           D == 1 .. n
           V == Seq(Symbols(s))
           a == [i \in D |-> i - 1]
           add(i) == IF i \notin TokenStarts(s) THEN <<>> ELSE Added(s, i)
           g == [i \in D |-> [x \in V |-> [y \in V |-> x \o add(i)]]]
           Solves(c) == c = [i \in 0 .. n |-> IF i = 0 THEN <<>> ELSE c[i - 1] \o add(i)]
<1>1. n \in Nat /\ IsFiniteSet(D) /\ 0 \notin D /\ D \union {0} = 0 .. n
  <2>1. n \in Nat
    BY LenProperties
  <2> QED BY <2>1, FS_Interval, SMTT(40)
<1>2. \A i \in D : a[i] \in D \union {0} /\ a[i] = i - 1
  BY <1>1
<1>3. \A S \in SUBSET D : S # {} => \E i \in S : a[i] \notin S
  <2> SUFFICES ASSUME NEW S \in SUBSET D, S # {} PROVE \E i \in S : a[i] \notin S
    OBVIOUS
  <2>1. PICK i \in S : \A j \in S : i <= j
    BY <1>1, LeastPosition
  <2>2. i \in D /\ i - 1 \notin S
    BY <1>1, <2>1
  <2> QED BY <1>2, <2>1, <2>2
<1>4. <<>> \in V /\ \A i \in D : add(i) \in V
  <2>1. Ser!Mark(" ") \in Symbols(s) /\ \A i \in D : Symbol(s, i) \in Symbols(s)
    BY DEF Symbols
  <2>2. <<>> \in V
    OBVIOUS
  <2>3. \A i \in D : <<Symbol(s, i)>> \in V /\ <<Ser!Mark(" "), Symbol(s, i)>> \in V
    <3>1. \A x, y \in Symbols(s) : <<y>> \in V /\ <<x, y>> \in V
      OBVIOUS
    <3> QED BY <2>1, <3>1
  <2> HIDE DEF V
  <2> QED BY <2>2, <2>3 DEF Added
<1> HIDE DEF add
<1>5. WellPosed(D, 0, a, a, V, <<>>, g)
  <2>1. \A x, y \in V : x \o y \in V
    BY ConcatProperties
  <2>2. \A i \in D, x \in V, y \in V : g[i][x][y] \in V
    <3> HIDE DEF V, D
    <3> QED BY <1>4, <2>1
  <2> HIDE DEF D, V, a, g
  <2> QED BY <1>1, <1>2, <1>3, <1>4, <2>2 DEF WellPosed
<1>6. PICK c : Solution(D, 0, a, a, V, <<>>, g, c)
  BY <1>5, LinkRecursion
<1>7. \A i \in D : c[i] = c[i - 1] \o add(i)
  <2> SUFFICES ASSUME NEW i \in D PROVE c[i] = c[i - 1] \o add(i)
    OBVIOUS
  <2>1. c[a[i]] \in V /\ a[i] = i - 1
    BY <1>2, <1>6 DEF Solution
  <2> HIDE DEF V, D
  <2> QED BY <1>6, <2>1 DEF Solution
<1>8. Solves(c)
  <2>1. c \in [0 .. n -> V] /\ c[0] = <<>>
    BY <1>1, <1>6 DEF Solution
  <2>2. \A i \in 0 .. n : i # 0 => i \in D
    BY <1>1
  <2> HIDE DEF V
  <2> QED BY <1>7, <2>1, <2>2
<1> DEFINE C == CanonicalTo(s)
<1>9. Solves(C)
  <2>1. C = CHOOSE d : Solves(d)
    BY DEF CanonicalTo, add, Added
  <2> HIDE DEF Solves, C
  <2> QED BY <1>8, <2>1
<1> HIDE DEF C, V, g
<1>10. C[0] = <<>> /\ \A i \in D : C[i] = C[i - 1] \o add(i)
  <2>1. 0 \in 0 .. n /\ \A i \in D : i \in 0 .. n /\ i # 0
    BY <1>1
  <2>2. \A i \in 0 .. n : C[i] = IF i = 0 THEN <<>> ELSE C[i - 1] \o add(i)
    <3> DEFINE f == [i \in 0 .. n |-> IF i = 0 THEN <<>> ELSE C[i - 1] \o add(i)]
    <3>1. C = f
      BY <1>9
    <3>2. \A i \in 0 .. n : f[i] = IF i = 0 THEN <<>> ELSE C[i - 1] \o add(i)
      OBVIOUS
    <3> HIDE DEF f
    <3> QED BY <3>1, <3>2
  <2> HIDE DEF Solves, D
  <2> QED BY <2>1, <2>2
<1> HIDE DEF Solves
<1>11. \A i \in 0 .. n : C[i] \in V
  <2> DEFINE S == {i \in D : C[i] \notin V}
  <2>1. S = {}
    <3> SUFFICES ASSUME S # {} PROVE FALSE
      OBVIOUS
    <3>1. S \in SUBSET D
      OBVIOUS
    <3>2. PICK i \in S : a[i] \notin S
      BY <1>3, <3>1
    <3>3. i \in D /\ C[i] \notin V /\ i - 1 \in D \union {0} /\ i - 1 \notin S
      BY <1>2, <3>2
    <3>4. C[i - 1] \in V
      BY <1>4, <1>10, <3>3
    <3>5. C[i - 1] \o add(i) \in V
      BY <1>4, <3>3, <3>4, ConcatProperties DEF V
    <3> QED BY <1>10, <3>3, <3>5
  <2>2. \A i \in 0 .. n : i = 0 \/ i \in D
    BY <1>1
  <2> QED BY <1>4, <1>10, <2>1, <2>2
<1>12. ASSUME NEW i \in 1 .. n
       PROVE  /\ i \notin TokenStarts(s) => C[i] = C[i - 1]
              /\ i \in TokenStarts(s) => C[i] = C[i - 1] \o Added(s, i)
  <2>1. i \in D /\ i - 1 \in 0 .. n
    BY <1>1
  <2>2. C[i] = C[i - 1] \o add(i)
    BY <1>10, <2>1
  <2>3. C[i - 1] \o <<>> = C[i - 1]
    BY <1>11, <2>1, ConcatEmptySeq DEF V
  <2>4. /\ i \notin TokenStarts(s) => add(i) = <<>>
        /\ i \in TokenStarts(s) => add(i) = Added(s, i)
    BY DEF add
  <2> QED BY <2>2, <2>3, <2>4
<1> QED BY <1>10, <1>11, <1>12 DEF C, V

(***************************************************************************)
(* The tokens that begin among the first p bytes.                          *)
(***************************************************************************)
Met(s, p) == {j \in TokenStarts(s) : j < p + 1}

(***************************************************************************)
(* Where no token begins nothing is added.                                 *)
(***************************************************************************)
LEMMA NothingMet ==
  ASSUME NEW s \in Seq(Byte), NEW p \in 0 .. Len(s), NEW q \in p .. Len(s),
         \A j \in p + 1 .. q : j \notin TokenStarts(s)
  PROVE  Met(s, q) = Met(s, p) /\ CanonicalTo(s)[q] = CanonicalTo(s)[p]
<1> DEFINE n == Len(s)
           C == CanonicalTo(s)
           H == {j \in p + 1 .. q : C[j] # C[p]}
<1>1. n \in Nat
  BY LenProperties
<1>2. Met(s, q) = Met(s, p)
  <2>1. TokenStarts(s) \subseteq 1 .. n
    BY DEF TokenStarts, FormStarts
  <2>2. \A j \in TokenStarts(s) : j < q + 1 <=> j < p + 1
    BY <1>1, <2>1
  <2> QED BY <2>2 DEF Met
<1>3. H = {}
  <2> SUFFICES ASSUME H # {} PROVE FALSE
    OBVIOUS
  <2>1. H \in SUBSET (1 .. n)
    BY <1>1
  <2> HIDE DEF H
  <2>2. PICK j \in H : \A k \in H : j <= k
    BY <1>1, <2>1, LeastPosition
  <2>3. j \in p + 1 .. q /\ C[j] # C[p] /\ j \in 1 .. n
    BY <2>1, <2>2 DEF H
  <2>4. C[j] = C[j - 1]
    BY <2>3, CanonicalUnfolds
  <2>5. j - 1 \notin H
    BY <1>1, <2>2, <2>3
  <2>6. j - 1 = p \/ j - 1 \in p + 1 .. q
    BY <1>1, <2>3
  <2> QED BY <2>3, <2>4, <2>5, <2>6 DEF H
<1>4. C[q] = C[p]
  <2>1. q = p \/ q \in p + 1 .. q
    BY <1>1
  <2> QED BY <1>3, <2>1
<1> QED BY <1>2, <1>4

(***************************************************************************)
(* From byte p the token that begins at byte i is read up to byte e: what  *)
(* the canonical form gains, and whether a space comes first.              *)
(***************************************************************************)
Reads(s, p, i, e) ==
  /\ i \in 1 .. Len(s)
  /\ Met(s, e) # {} /\ Max(Met(s, e)) = i
  /\ CanonicalTo(s)[e] = CanonicalTo(s)[p] \o Added(s, i)
  /\ Spaced(s, i) <=> Met(s, p) # {} /\ s[Max(Met(s, p))] # LeftParen /\ s[i] # RightParen

(***************************************************************************)
(* A token after bytes where none begins is read so.                       *)
(***************************************************************************)
LEMMA TokenMet ==
  ASSUME NEW s \in Seq(Byte), NEW p \in 0 .. Len(s), NEW b \in p .. Len(s), NEW e \in b + 1 .. Len(s),
         \A j \in p + 1 .. b : j \notin TokenStarts(s),
         b + 1 \in TokenStarts(s),
         \A j \in (b + 1) + 1 .. e : j \notin TokenStarts(s)
  PROVE  Reads(s, p, b + 1, e)
<1> DEFINE n == Len(s)
           i == b + 1
           C == CanonicalTo(s)
<1>1. /\ n \in Nat /\ i \in 1 .. n /\ i \in 0 .. n /\ b \in 0 .. n /\ e \in i .. n
      /\ i - 1 = b /\ i \in Nat
  <2>1. n \in Nat
    BY LenProperties
  <2> QED BY <2>1
<1>2. Met(s, b) = Met(s, p) /\ C[b] = C[p]
  BY NothingMet
<1>3. Met(s, e) = Met(s, i) /\ C[e] = C[i]
  <2>1. \A j \in i + 1 .. e : j \notin TokenStarts(s)
    OBVIOUS
  <2> HIDE DEF i
  <2> QED BY <1>1, <2>1, NothingMet
<1>4. C[i] = C[b] \o Added(s, i)
  BY <1>1, CanonicalUnfolds
<1>5. Spaced(s, i) <=> Met(s, b) # {} /\ s[Max(Met(s, b))] # LeftParen /\ s[i] # RightParen
  BY DEF Spaced, Met
<1> HIDE DEF i, C
<1>6. i \in Met(s, i) /\ \A j \in Met(s, i) : j \in Nat /\ j <= i
  <2>1. i \in TokenStarts(s) /\ TokenStarts(s) \subseteq 1 .. n
    BY DEF i, TokenStarts, FormStarts
  <2> QED BY <1>1, <2>1 DEF Met
<1>7. Max(Met(s, i)) = i
  <2>1. \E x \in Met(s, i) : \A y \in Met(s, i) : x >= y
    BY <1>1, <1>6
  <2>2. Max(Met(s, i)) \in Met(s, i) /\ \A y \in Met(s, i) : Max(Met(s, i)) >= y
    BY <2>1 DEF Max
  <2> QED BY <1>1, <1>6, <2>2
<1>8. Reads(s, p, i, e)
  BY <1>1, <1>2, <1>3, <1>4, <1>5, <1>6, <1>7 DEF Reads, C
<1> QED BY <1>8 DEF i

(***************************************************************************)
(* The atom that begins at byte b + 1.                                     *)
(***************************************************************************)
LEMMA AtomWhole ==
  ASSUME NEW s \in Seq(Byte), NEW b \in 0 .. Len(s), NEW e \in b + 1 .. Len(s),
         \A i \in b + 1 .. e : Stop(s[i]) = 0,
         e < Len(s) => Stop(s[e + 1]) # 0
  PROVE  AtomAt(s, b + 1) = SubSeq(s, b + 1, e)
<1> DEFINE ends == {j \in b + 1 .. Len(s) : \A k \in b + 1 .. j : InAtom(s, k)}
<1>1. Len(s) \in Nat
  BY LenProperties
<1>2. ends = b + 1 .. e
  <2>1. ASSUME NEW j \in b + 1 .. e PROVE j \in ends
    <3>1. j \in b + 1 .. Len(s) /\ \A k \in b + 1 .. j : k \in b + 1 .. e
      BY <1>1
    <3> QED BY <3>1 DEF InAtom
  <2>2. ASSUME NEW j \in ends PROVE j \in b + 1 .. e
    <3> SUFFICES ASSUME ~ (j <= e) PROVE FALSE
      BY <1>1
    <3>1. e + 1 \in b + 1 .. j /\ e < Len(s)
      BY <1>1
    <3>2. InAtom(s, e + 1)
      BY <3>1
    <3> QED BY <3>1, <3>2 DEF InAtom
  <2> HIDE DEF ends
  <2> QED BY <2>1, <2>2
<1>3. Cardinality(b + 1 .. e) = e - b
  <2>1. Cardinality(b + 1 .. e) = IF b + 1 > e THEN 0 ELSE e - (b + 1) + 1
    BY <1>1, FS_Interval
  <2> QED BY <1>1, <2>1
<1>4. AtomAt(s, b + 1) = SubSeq(s, b + 1, (b + 1) + Cardinality(ends) - 1)
  BY DEF AtomAt
<1>5. (b + 1) + (e - b) - 1 = e
  BY <1>1
<1> QED BY <1>2, <1>3, <1>4, <1>5

(***************************************************************************)
(* What the next token x is to the canonical form: from byte p it begins   *)
(* at byte i and is read up to byte e, or there is none.                   *)
(***************************************************************************)
TokenAt(s, p, i, e, x) ==
  /\ e \in 0 .. Len(s) /\ Len(x.remaining) = Len(s) - e
  /\ x.token = "end" => Met(s, e) = Met(s, p) /\ CanonicalTo(s)[Len(s)] = CanonicalTo(s)[p]
  /\ x.token \in {"left", "right", "atom"} => Reads(s, p, i, e)
  /\ x.token = "left" => s[i] = LeftParen /\ Symbol(s, i) = Mark("(")
  /\ x.token = "right" => s[i] = RightParen /\ Symbol(s, i) = Mark(")")
  /\ x.token = "atom" => /\ s[i] \notin {LeftParen, RightParen}
                         /\ Symbol(s, i) = Word(x.text)

(***************************************************************************)
(* NextToken from the end of what was read: the token it returns is the    *)
(* one whose first byte the canonical form counts next, and it is all      *)
(* there is up to the byte where the rest begins.                          *)
(***************************************************************************)
LEMMA TokenReads ==
  ASSUME NEW s \in Seq(Byte), NEW r \in Seq(Byte),
         Len(r) <= Len(s), r = Skip(s, Len(s) - Len(r)),
         NEW l, NEW t, ReadTo(s, Len(s) - Len(r), l, t),
         NEW x, x = NextToken(r)
  PROVE  \E i, e : TokenAt(s, Len(s) - Len(r), i, e, x)
<1> DEFINE p == Len(s) - Len(r)
<1>1. Len(s) \in Nat /\ Len(r) \in Nat /\ p \in 0 .. Len(s)
  BY LenProperties
<1>2. PICK b \in p .. Len(s) : \E e \in b .. Len(s) : Located(s, p, b, e, x)
  BY TokenPlaces
<1>3. PICK e \in b .. Len(s) : Located(s, p, b, e, x)
  BY <1>2
<1>4. ReadTo(s, p, l, t)
  OBVIOUS
<1> HIDE DEF p
<1>5. /\ Len(x.remaining) = Len(s) - e
      /\ \A i \in p + 1 .. b : Stop(s[i]) = 2
      /\ b \in 0 .. Len(s) /\ e \in 0 .. Len(s) /\ b \in Nat
  BY <1>1, <1>3 DEF Located
<1>6. ReadTo(s, b, l, t)
  BY <1>4, <1>5, BlanksRead
<1>7. \A j \in p + 1 .. b : j \notin TokenStarts(s)
  BY <1>5 DEF TokenStarts, FormStarts, InAtom, Stop, LeftParen, RightParen, Blanks
<1>8. CASE x.token = "end" /\ b = e /\ e = Len(s)
  <2>1. Met(s, e) = Met(s, p) /\ CanonicalTo(s)[e] = CanonicalTo(s)[p]
    BY <1>1, <1>7, <1>8, NothingMet
  <2>2. TokenAt(s, p, 1, e, x)
    BY <1>5, <1>8, <2>1 DEF TokenAt
  <2> QED BY <2>2 DEF p
<1>9. CASE x.token \in {"left", "right"} /\ e = b + 1
           /\ s[b + 1] = IF x.token = "left" THEN LeftParen ELSE RightParen
  <2>1. /\ b + 1 \in TokenStarts(s) /\ e \in b + 1 .. Len(s)
        /\ \A j \in (b + 1) + 1 .. e : j \notin TokenStarts(s)
    <3>1. b + 1 \in 1 .. Len(s) /\ e \in b + 1 .. Len(s)
      BY <1>1, <1>3, <1>5, <1>9
    <3>2. b + 1 \in TokenStarts(s)
      BY <1>9, <3>1 DEF TokenStarts, FormStarts
    <3>3. \A j \in (b + 1) + 1 .. e : FALSE
      BY <1>5, <1>9
    <3> QED BY <3>1, <3>2, <3>3
  <2>2. Reads(s, p, b + 1, e)
    BY <1>1, <1>7, <2>1, TokenMet
  <2>3. Symbol(s, b + 1) = IF x.token = "left" THEN Mark("(") ELSE Mark(")")
    BY <1>9 DEF Symbol, InAtom, Stop, LeftParen, RightParen, Ser!Mark, Mark
  <2>4. TokenAt(s, p, b + 1, e, x)
    BY <1>5, <1>9, <2>2, <2>3 DEF TokenAt
  <2> QED BY <2>4 DEF p
<1>10. CASE /\ x.token = "atom" /\ b < e
            /\ x.text = SubSeq(s, b + 1, e)
            /\ \A i \in b + 1 .. e : Stop(s[i]) = 0
            /\ e < Len(s) => Stop(s[e + 1]) # 0
  <2>1. b + 1 \in 1 .. Len(s) /\ e \in b + 1 .. Len(s) /\ b + 1 \in b + 1 .. e
    BY <1>1, <1>3, <1>5, <1>10
  <2>2. s[b + 1] # LeftParen /\ s[b + 1] # RightParen /\ InAtom(s, b + 1)
    BY <1>10, <2>1 DEF Stop, InAtom
  <2>3. b + 1 \in TokenStarts(s)
    <3>1. b + 1 > 1 => ~ InAtom(s, (b + 1) - 1)
      <4> SUFFICES ASSUME b + 1 > 1 PROVE ~ InAtom(s, (b + 1) - 1)
        OBVIOUS
      <4>1. 0 < b /\ b < Len(s) /\ (b + 1) - 1 = b
        BY <1>1, <1>5, <2>1
      <4> QED BY <1>6, <2>2, <4>1 DEF ReadTo
    <3> QED BY <2>1, <2>2, <3>1 DEF TokenStarts, FormStarts
  <2>4. \A j \in (b + 1) + 1 .. e : j \notin TokenStarts(s)
    <3> SUFFICES ASSUME NEW j \in (b + 1) + 1 .. e PROVE j \notin TokenStarts(s)
      OBVIOUS
    <3>1. j \in b + 1 .. e /\ j - 1 \in b + 1 .. e /\ j > 1
      BY <1>5
    <3>2. InAtom(s, j - 1) /\ s[j] # LeftParen /\ s[j] # RightParen
      BY <1>10, <3>1 DEF InAtom, Stop
    <3> QED BY <3>1, <3>2 DEF TokenStarts, FormStarts
  <2>5. Reads(s, p, b + 1, e)
    BY <1>1, <1>7, <2>1, <2>3, <2>4, TokenMet
  <2>6. Symbol(s, b + 1) = Word(x.text)
    <3>1. AtomAt(s, b + 1) = x.text
      BY <1>5, <1>10, <2>1, AtomWhole
    <3> QED BY <2>2, <3>1 DEF Symbol, Ser!Word, Word
  <2>7. TokenAt(s, p, b + 1, e, x)
    BY <1>5, <1>10, <2>2, <2>5, <2>6 DEF TokenAt
  <2> QED BY <2>7 DEF p
<1> QED BY <1>3, <1>8, <1>9, <1>10 DEF Located

(***************************************************************************)
(* A form of kind k is written as u and, for a list, a right bracket.      *)
(***************************************************************************)
IsForm(k, u, d) ==
  \/ k = List /\ u = Mark("(") /\ d = 1
  \/ k # List /\ u = Word(k) /\ d = 0

(***************************************************************************)
(* The right bracket of a form and those of the lists around it.           *)
(***************************************************************************)
LEMMA RightsJoin ==
  ASSUME NEW d \in {0, 1}, NEW k \in Nat
  PROVE  Rights(d) \o Rights(k) = Rights(k + d)
<1> DEFINE o == <<Mark(")")>>
           r == Rights(k)
<1>1. r \in Seq(Tokens) /\ o \o r = Rights(k + 1) /\ Rights(0) = <<>>
  BY RightsFacts
<1>2. o \in Seq(Tokens) /\ Rights(0) \o o = Rights(0 + 1)
  <2>1. Mark(")") \in Tokens
    BY DEF Tokens
  <2>2. Rights(0) \o o = Rights(0 + 1)
    BY RightsFacts
  <2> QED BY <2>1, <2>2
<1> HIDE DEF o, r
<1>3. <<>> \o r = r /\ <<>> \o o = o
  BY <1>1, <1>2, ConcatEmptySeq
<1>4. CASE d = 0
  <2>1. k + d = k
    BY <1>4
  <2> QED BY <1>1, <1>3, <1>4, <2>1, Zenon DEF r
<1>5. CASE d = 1
  <2>1. 0 + 1 = 1
    OBVIOUS
  <2>2. Rights(d) = o
    BY <1>1, <1>2, <1>3, <1>5, <2>1, Zenon
  <2> QED BY <1>1, <1>5, <2>2 DEF r
<1> QED BY <1>4, <1>5

(***************************************************************************)
(* A node without children is written as a form of its kind.               *)
(***************************************************************************)
LEMMA FormWritten ==
  ASSUME NEW M \in Table, NEW c \in Live(M), NEW u, NEW d, IsForm(M[c].kind, u, d)
  PROVE  u \in Tokens /\ Written(M, c, <<>>) = <<u>> \o Rights(d)
<1>1. u \in Tokens
  <2>1. M[c].kind # List => M[c].kind \in Values
    BY TableCells DEF Node, Kinds
  <2> QED BY <2>1 DEF IsForm, Tokens
<1>2. <<u>> \in Seq(Tokens) /\ <<Mark(")")>> \in Seq(Tokens)
  <2>1. \A t \in Tokens : <<t>> \in Seq(Tokens)
    OBVIOUS
  <2> QED BY <1>1, <2>1 DEF Tokens
<1>3. Rights(0) = <<>> /\ Rights(1) = <<Mark(")")>>
  <2>1. Rights(0) = <<>> /\ Rights(0) \o <<Mark(")")>> = Rights(0 + 1)
    BY RightsFacts
  <2>2. <<>> \o <<Mark(")")>> = <<Mark(")")>> /\ 0 + 1 = 1
    BY <1>2, ConcatEmptySeq
  <2> QED BY <2>1, <2>2, Zenon
<1>4. <<u>> \o <<>> = <<u>>
  BY <1>2, ConcatEmptySeq
<1>5. CASE M[c].kind = List
  <2>1. u = Mark("(") /\ d = 1
    BY <1>5 DEF IsForm
  <2>2. Written(M, c, <<>>) = (<<u>> \o <<>>) \o <<Mark(")")>>
    BY <1>5, <2>1, Zenon DEF Written
  <2> QED BY <1>1, <1>3, <1>4, <2>1, <2>2, Zenon
<1>6. CASE M[c].kind # List
  <2>1. u = Word(M[c].kind) /\ d = 0
    BY <1>6 DEF IsForm
  <2>2. Written(M, c, <<>>) = <<u>>
    BY <1>6, <2>1 DEF Written
  <2> QED BY <1>1, <1>3, <1>4, <2>1, <2>2, Zenon
<1> QED BY <1>5, <1>6

(***************************************************************************)
(* The text of the tree so far, less the right brackets of the open lists, *)
(* is the canonical form of what was read.                                 *)
(***************************************************************************)
Restores(s, p, x, l) ==
  \E a \in Seq(Tokens) : x = a \o Rights(l) /\ Spelt(a) = CanonicalTo(s)[p]

(***************************************************************************)
(* The first form is read.                                                 *)
(***************************************************************************)
LEMMA FirstForm ==
  ASSUME NEW s \in Seq(Byte), NEW p, NEW i, NEW e, Reads(s, p, i, e),
         Met(s, p) = {}, CanonicalTo(s)[p] = <<>>,
         NEW M \in Table, LinksOK(M), NoSiblingCycle(M), NoParentCycle(M),
         NEW c \in Live(M), M[c].first = Null,
         NEW u, NEW d, IsForm(M[c].kind, u, d), Spoken(u) = Symbol(s, i)
  PROVE  Restores(s, e, Text(M, c), d)
<1>1. Text(M, c) = <<u>> \o Rights(d) /\ u \in Tokens
  <2>1. Text(M, c) = Written(M, c, <<>>)
    BY TextsUnfold DEF Text
  <2>2. Written(M, c, <<>>) = <<u>> \o Rights(d) /\ u \in Tokens
    BY FormWritten
  <2> QED BY <2>1, <2>2, Zenon
<1>2. <<u>> \in Seq(Tokens)
  BY <1>1
<1>3. Added(s, i) = <<Symbol(s, i)>>
  BY DEF Reads, Added
<1>4. CanonicalTo(s)[e] = <<>> \o <<Symbol(s, i)>>
  BY <1>3 DEF Reads
<1>5. Spelt(<<u>>) = <<Symbol(s, i)>>
  BY <1>1, SpeltFacts
<1>6. <<>> \o <<Symbol(s, i)>> = <<Symbol(s, i)>>
  OBVIOUS
<1> QED BY <1>1, <1>2, <1>4, <1>5, <1>6 DEF Restores

(***************************************************************************)
(* Two sequences of one element.                                           *)
(***************************************************************************)
LEMMA PairOf ==
  ASSUME NEW x, NEW y
  PROVE  <<x>> \o <<y>> = <<x, y>>
<1> DEFINE W == {x, y}
           a == <<x>>
           b == <<y>>
           c == <<x, y>>
           d == a \o b
<1>1. /\ a \in Seq(W) /\ Len(a) = 1 /\ a[1] = x
      /\ b \in Seq(W) /\ Len(b) = 1 /\ b[1] = y
      /\ c \in Seq(W) /\ Len(c) = 2 /\ c[1] = x /\ c[2] = y
  OBVIOUS
<1> HIDE DEF a, b, c
<1>2. /\ d \in Seq(W) /\ Len(d) = Len(a) + Len(b)
      /\ \A i \in 1 .. Len(a) + Len(b) : d[i] = IF i <= Len(a) THEN a[i] ELSE b[i - Len(a)]
  <2>1. a \in Seq(W) /\ b \in Seq(W)
    BY <1>1
  <2> HIDE DEF W
  <2> QED BY <2>1, ConcatProperties
<1> HIDE DEF d, W
<1>3. Len(d) = 2 /\ d[1] = x /\ d[2] = y
  BY <1>1, <1>2
<1>4. \A i \in 1 .. 2 : i = 1 \/ i = 2
  OBVIOUS
<1>5. d = c
  BY <1>1, <1>2, <1>3, <1>4, SeqEqual
<1> QED BY <1>5 DEF d, a, b, c

(***************************************************************************)
(* A form is read below an open list.                                      *)
(***************************************************************************)
LEMMA FormBelow ==
  ASSUME NEW s \in Seq(Byte), NEW p, NEW i, NEW e, Reads(s, p, i, e), s[i] # RightParen,
         NEW N \in Table, WellFormed(N), NEW o \in Seq(Slots), o # <<>>, Spine(N, o),
         Met(s, p) # {}, Restores(s, p, Text(N, o[1]), Len(o)),
         N[o[Len(o)]].first = Null <=> s[Max(Met(s, p))] = LeftParen,
         NEW c \in Slots, N[c] = Vacant, NEW k \in Kinds,
         NEW M, M = LinkChild(Allocate(N, c, k), o[Len(o)], c),
         NEW u, NEW d, IsForm(k, u, d), Spoken(u) = Symbol(s, i)
  PROVE  Restores(s, e, Text(M, o[1]), Len(o) + d)
<1>1. M \in Table /\ c \in Live(M) /\ M[c].kind = k
  <2>1. o[Len(o)] \in Live(N)
    BY SpineFacts
  <2> QED BY <2>1, FreshChild
<1>2. u \in Tokens /\ d \in {0, 1} /\ Written(M, c, <<>>) = <<u>> \o Rights(d)
  <2>1. ASSUME NEW D \in Table, NEW m \in Live(D), IsForm(D[m].kind, u, d)
        PROVE  u \in Tokens /\ Written(D, m, <<>>) = <<u>> \o Rights(d)
    BY <2>1, FormWritten
  <2> QED BY <1>1, <2>1 DEF IsForm
<1> DEFINE V == Seq(Tokens)
           y == Written(M, c, <<>>)
           l == Len(o)
           q == o[l]
           g == Gained(N, q, y)
           w == <<u>>
           b == <<Mark(" ")>>
           r == Rights(d)
           z == Rights(l)
           h == IF N[q].first = Null THEN w ELSE b \o w
<1>3. Mark(" ") \in Tokens
  BY DEF Tokens
<1>4. w \in V /\ b \in V /\ r \in V /\ z \in V /\ l \in Nat
  <2>1. w \in V /\ b \in V
    <3>1. \A t \in Tokens : <<t>> \in Seq(Tokens)
      OBVIOUS
    <3>2. u \in Tokens
      BY <1>2
    <3> QED BY <1>3, <3>1, <3>2
  <2>2. l \in Nat /\ d \in Nat
    BY <1>2, LenProperties
  <2>3. Rights(d) \in Seq(Tokens) /\ Rights(l) \in Seq(Tokens)
    BY <2>2, RightsFacts
  <2> QED BY <2>1, <2>2, <2>3
<1>5. PICK a \in V : Text(N, o[1]) = a \o z /\ Spelt(a) = CanonicalTo(s)[p]
  BY DEF Restores
<1>6. Grows(g, Text(N, o[1]), Text(M, o[1]), l)
  BY GrowsOnSpine
<1>7. r \o z = Rights(l + d)
  <2>1. l \in Nat
    BY <1>4
  <2>2. Rights(d) \o Rights(l) = Rights(l + d)
    BY <1>2, <2>1, RightsJoin
  <2> QED BY <2>2
<1>8. CanonicalTo(s)[e] = Spelt(a) \o Added(s, i)
  BY <1>5 DEF Reads
<1>9. Spelt(h) = Added(s, i) /\ h \in V
  <2>1. Spelt(w) = <<Symbol(s, i)>> /\ Spelt(b) = <<Mark(" ")>>
    BY <1>2, <1>3, SpeltFacts
  <2>2. CASE N[q].first = Null
    <3>1. Added(s, i) = <<Symbol(s, i)>>
      BY <2>2 DEF Reads, Added
    <3> QED BY <1>4, <2>1, <2>2, <3>1
  <2>3. CASE N[q].first # Null
    <3>1. Added(s, i) = <<Mark(" "), Symbol(s, i)>>
      BY <2>3 DEF Reads, Added, Ser!Mark, Mark
    <3>2. Spelt(b \o w) = Spelt(b) \o Spelt(w) /\ b \o w \in V
      BY <1>4, SpeltFacts, ConcatProperties
    <3>3. <<Mark(" ")>> \o <<Symbol(s, i)>> = <<Mark(" "), Symbol(s, i)>>
      BY PairOf
    <3> QED BY <2>1, <2>3, <3>1, <3>2, <3>3
  <2> QED BY <2>2, <2>3
<1> HIDE DEF y, l, q, w, b, r, z
<1>10. g = h \o r /\ g \in V
  <2>1. Regroups(V) /\ Joins(V) /\ w \in V /\ b \in V /\ r \in V /\ h \in V
    BY <1>4, <1>9, SeqJoins
  <2> HIDE DEF V
  <2>2. (b \o w) \o r = b \o (w \o r)
    BY <2>1 DEF Regroups
  <2>3. g = h \o r
    <3>0. y = w \o r
      BY <1>2 DEF y, w, r
    <3>1. CASE N[q].first = Null
      <4>1. g = y /\ h = w
        BY <3>1 DEF Gained
      <4> QED BY <3>0, <4>1, Zenon
    <3>2. CASE N[q].first # Null
      <4>1. g = b \o y /\ h = b \o w
        BY <3>2, Zenon DEF Gained, b
      <4> QED BY <2>2, <3>0, <4>1, Zenon
    <3> QED BY <3>1, <3>2
  <2> HIDE DEF h, g
  <2> QED BY <2>1, <2>3 DEF Joins
<1> HIDE DEF g, h
<1>11. Text(M, o[1]) = (a \o g) \o z
  <2>1. l \in Nat /\ g \in Seq(Tokens) /\ a \in Seq(Tokens)
    BY <1>4, <1>10
  <2> DEFINE x == Text(N, o[1])
             v == Text(M, o[1])
  <2>2. Bracketed(x, a, l) /\ Grows(g, x, v, l)
    BY <1>5, <1>6, Zenon DEF Bracketed, z
  <2> HIDE DEF x, v
  <2>3. Bracketed(v, a \o g, l)
    BY <2>1, <2>2, GrowsWhere
  <2> QED BY <2>3, Zenon DEF Bracketed, z, v
<1>12. (a \o g) \o z = (a \o h) \o (r \o z) /\ a \o h \in V
  <2>1. Regroups(V) /\ Joins(V) /\ a \in V /\ h \in V /\ r \in V /\ z \in V
    BY <1>4, <1>9, SeqJoins
  <2> HIDE DEF V
  <2>2. a \o h \in V
    BY <2>1 DEF Joins
  <2>3. (a \o h) \o r = a \o (h \o r)
    BY <2>1 DEF Regroups
  <2>4. ((a \o h) \o r) \o z = (a \o h) \o (r \o z)
    BY <2>1, <2>2, SMTT(40) DEF Regroups
  <2> QED BY <1>10, <2>2, <2>3, <2>4
<1>13. Spelt(a \o h) = CanonicalTo(s)[e]
  <2>1. Spelt(a \o h) = Spelt(a) \o Spelt(h)
    BY <1>9, SpeltFacts
  <2> QED BY <1>8, <1>9, <2>1
<1> DEFINE f == a \o h
<1>14. Text(M, o[1]) = f \o Rights(l + d) /\ f \in V /\ Spelt(f) = CanonicalTo(s)[e]
  BY <1>7, <1>11, <1>12, <1>13
<1> HIDE DEF f
<1> QED BY <1>14 DEF Restores, l

(***************************************************************************)
(* A right bracket is read.                                                *)
(***************************************************************************)
LEMMA ListClosed ==
  ASSUME NEW s \in Seq(Byte), NEW p, NEW i, NEW e, Reads(s, p, i, e),
         s[i] = RightParen, Symbol(s, i) = Mark(")"),
         NEW x, NEW l \in Nat, Restores(s, p, x, l + 1)
  PROVE  Restores(s, e, x, l)
<1> DEFINE V == Seq(Tokens)
           b == <<Mark(")")>>
           z == Rights(l)
<1>1. PICK a \in V : x = a \o Rights(l + 1) /\ Spelt(a) = CanonicalTo(s)[p]
  BY DEF Restores
<1>2. Mark(")") \in Tokens
  BY DEF Tokens
<1>3. z \in V /\ b \o z = Rights(l + 1)
  BY RightsFacts
<1>4. Spelt(b) = b
  BY <1>2, SpeltFacts
<1>5. Added(s, i) = b
  BY DEF Reads, Added
<1>6. b \in V
  BY <1>2
<1> HIDE DEF b, z
<1>7. x = (a \o b) \o z /\ a \o b \in V
  <2>1. Regroups(V) /\ Joins(V) /\ a \in V /\ b \in V /\ z \in V
    BY <1>3, <1>6, SeqJoins
  <2> HIDE DEF V
  <2>2. (a \o b) \o z = a \o (b \o z)
    BY <2>1 DEF Regroups
  <2> QED BY <1>1, <1>3, <2>1, <2>2 DEF Joins
<1>8. Spelt(a \o b) = CanonicalTo(s)[e]
  <2>1. Spelt(a \o b) = Spelt(a) \o Spelt(b)
    BY <1>6, SpeltFacts
  <2> QED BY <1>1, <1>4, <1>5, <2>1 DEF Reads
<1> QED BY <1>7, <1>8 DEF Restores, z

(***************************************************************************)
(* A form that is opened below the innermost open list, and one at the     *)
(* top, keep the spine; and so does a list that is closed.                 *)
(***************************************************************************)
LEMMA SpineGrows ==
  ASSUME NEW N \in Table, WellFormed(N), NEW o \in Seq(Slots), o # <<>>, Spine(N, o),
         NEW c \in Slots, N[c] = Vacant, NEW k \in Kinds,
         NEW M, M = LinkChild(Allocate(N, c, k), o[Len(o)], c)
  PROVE  Spine(M, o) /\ (k = List => Spine(M, Append(o, c)))
<1> DEFINE l == Len(o)
           w == Append(o, c)
<1>1. /\ l \in Nat \ {0} /\ l \in 1 .. l /\ 1 \in 1 .. l
      /\ \A i \in 1 .. l : o[i] \in Live(N) /\ N[o[i]].kind = List
      /\ \A i \in 1 .. l - 1 : i \in 1 .. l /\ i # l /\ N[o[i]].last = o[i + 1]
      /\ \A i, j \in 1 .. l : o[i] = o[j] => i = j
      /\ N[o[1]].parent = Null
  <2>1. Len(o) \in Nat \ {0}
    BY SpineFacts
  <2> QED BY <2>1 DEF Spine
<1>2. /\ Live(M) = Live(N) \union {c}
      /\ \A n \in Live(N) :
           /\ M[n].parent = N[n].parent /\ M[n].kind = N[n].kind
           /\ M[n].last = IF n = o[l] THEN c ELSE N[n].last
      /\ M[c].kind = k
  <2>1. o[Len(o)] \in Live(N)
    BY <1>1
  <2> QED BY <2>1, FreshChild
<1>3. c \notin Live(N)
  BY TableCells DEF Live
<1> DEFINE q == o[l]
<1>4. /\ q \in Live(N) /\ \A i \in 1 .. l - 1 : o[i] # q
      /\ \A n \in Live(N) : M[n].last = IF n = q THEN c ELSE N[n].last
  BY <1>1, <1>2
<1> HIDE DEF l, q
<1>5. /\ \A i \in 1 .. l : o[i] \in Live(M) /\ M[o[i]].kind = List /\ o[i] # c
      /\ \A i \in 1 .. l - 1 : M[o[i]].last = o[i + 1]
      /\ M[o[l]].last = c
      /\ M[o[1]].parent = Null
  <2>1. \A i \in 1 .. l : o[i] \in Live(M) /\ M[o[i]].kind = List /\ o[i] # c
    BY <1>1, <1>2, <1>3
  <2>2. \A i \in 1 .. l - 1 : M[o[i]].last = o[i + 1]
    BY <1>1, <1>4
  <2>3. M[q].last = c
    BY <1>4
  <2>4. M[o[1]].parent = Null
    BY <1>1, <1>2
  <2> QED BY <2>1, <2>2, <2>3, <2>4 DEF q
<1>6. Spine(M, o)
  BY <1>1, <1>5 DEF Spine, l
<1>7. ASSUME k = List PROVE Spine(M, w)
  <2>1. /\ Len(w) = l + 1 /\ w[l + 1] = c
        /\ \A i \in 1 .. l : w[i] = o[i]
    <3>1. /\ Len(w) = Len(o) + 1 /\ w[Len(o) + 1] = c
          /\ \A i \in 1 .. Len(o) : w[i] = o[i]
      BY AppendProperties
    <3> QED BY <3>1 DEF l
  <2> HIDE DEF w
  <2>2. \A i \in 1 .. l + 1 : i \in 1 .. l \/ i = l + 1
    BY <1>1
  <2>3. \A i \in 1 .. (l + 1) - 1 : (i \in 1 .. l - 1 /\ i + 1 \in 1 .. l) \/ i = l
    BY <1>1
  <2>4. \A i \in 1 .. Len(w) : w[i] \in Live(M) /\ M[w[i]].kind = List
    BY <1>2, <1>5, <1>7, <2>1, <2>2
  <2>5. \A i \in 1 .. Len(w) - 1 : M[w[i]].last = w[i + 1]
    BY <1>1, <1>5, <2>1, <2>3
  <2>6. \A i, j \in 1 .. Len(w) : w[i] = w[j] => i = j
    BY <1>1, <1>5, <2>1, <2>2
  <2>7. M[w[1]].parent = Null
    BY <1>1, <1>5, <2>1
  <2> QED BY <2>4, <2>5, <2>6, <2>7 DEF Spine
<1> QED BY <1>6, <1>7

(***************************************************************************)
(* A list at the top is a spine of its own.                                *)
(***************************************************************************)
LEMMA SpineBegins ==
  ASSUME NEW M, NEW c, c \in Live(M), M[c].kind = List, M[c].parent = Null
  PROVE  Spine(M, <<c>>)
<1> DEFINE o == <<c>>
<1>1. Len(o) = 1 /\ o[1] = c
  OBVIOUS
<1> HIDE DEF o
<1>2. \A i \in 1 .. Len(o) : i = 1
  BY <1>1
<1>3. \A i \in 1 .. Len(o) - 1 : FALSE
  BY <1>1
<1>4. Spine(M, o)
  BY <1>1, <1>2, <1>3 DEF Spine
<1> QED BY <1>4 DEF o

(***************************************************************************)
(* The open lists when the innermost is closed.                            *)
(***************************************************************************)
Shorter(o) == SubSeq(o, 1, Len(o) - 1)

(***************************************************************************)
(* What is left is a spine, and the list closed is its end's last child.   *)
(***************************************************************************)
LEMMA SpineEnds ==
  ASSUME NEW N, NEW o \in Seq(Slots), o # <<>>, Spine(N, o),
         NEW w, w = Shorter(o)
  PROVE  /\ w \in Seq(Slots) /\ Len(w) \in Nat /\ Len(o) = Len(w) + 1
         /\ \A i \in 1 .. Len(w) : w[i] = o[i] /\ N[w[i]].last = o[i + 1] /\ i + 1 \in 1 .. Len(o)
         /\ Spine(N, w)
<1> DEFINE m == Len(o) - 1
<1>1. m \in Nat /\ Len(o) = m + 1 /\ \A i \in 1 .. m + 1 : o[i] \in Slots
  BY EmptySeq, LenProperties, ElementOfSeq
<1>2. \A i \in 1 .. m : i \in 1 .. m + 1 /\ i + 1 \in 1 .. m + 1
  BY <1>1
<1>3. w = SubSeq(o, 1, m)
  BY DEF Shorter
<1> HIDE DEF m
<1>4. w \in Seq(Slots) /\ Len(w) = m /\ \A i \in 1 .. m : w[i] = o[i]
  <2>1. \A i \in 1 .. m : o[i] \in Slots
    BY <1>1, <1>2
  <2>2. /\ SubSeq(o, 1, m) \in Seq(Slots)
        /\ Len(SubSeq(o, 1, m)) = IF 1 <= m THEN m - 1 + 1 ELSE 0
        /\ \A i \in 1 .. m - 1 + 1 : SubSeq(o, 1, m)[i] = o[1 + i - 1]
    BY <1>1, <2>1, SubSeqProperties
  <2>3. /\ SubSeq(o, 1, m) \in Seq(Slots) /\ Len(SubSeq(o, 1, m)) = m
        /\ \A i \in 1 .. m : SubSeq(o, 1, m)[i] = o[i]
    BY <1>1, <2>2
  <2> QED BY <1>3, <2>3, Zenon
<1>5. /\ \A i \in 1 .. m + 1 : o[i] \in Live(N) /\ N[o[i]].kind = List
      /\ \A i \in 1 .. m : N[o[i]].last = o[i + 1]
      /\ \A i, j \in 1 .. m + 1 : o[i] = o[j] => i = j
      /\ N[o[1]].parent = Null
  <2>1. (m + 1) - 1 = m
    BY <1>1
  <2> QED BY <1>1, <2>1 DEF Spine
<1>6. Spine(N, w)
  <2>1. \A i \in 1 .. Len(w) - 1 : i \in 1 .. m /\ i + 1 \in 1 .. m
    BY <1>1, <1>4
  <2>2. w # <<>> => 1 \in 1 .. m
    <3>1. w # <<>> => m # 0
      BY <1>4, EmptySeq
    <3> QED BY <1>1, <3>1
  <2>3. \A i \in 1 .. Len(w) : w[i] \in Live(N) /\ N[w[i]].kind = List
    BY <1>2, <1>4, <1>5
  <2>4. \A i \in 1 .. Len(w) - 1 : N[w[i]].last = w[i + 1]
    BY <1>4, <1>5, <2>1
  <2>5. \A i, j \in 1 .. Len(w) : w[i] = w[j] => i = j
    BY <1>2, <1>4, <1>5
  <2>6. w # <<>> => N[w[1]].parent = Null
    BY <1>4, <1>5, <2>2
  <2> QED BY <2>3, <2>4, <2>5, <2>6 DEF Spine
<1> QED BY <1>1, <1>2, <1>4, <1>5, <1>6

(***************************************************************************)
(* What the parser has built after p bytes, as long as there is one form,  *)
(* n, with the lists o open: the text of its tree, with the right brackets *)
(* of the open lists to come.  A list without children is the innermost    *)
(* open one just after its left bracket.                                   *)
(***************************************************************************)
BuiltOne(s, p, N, o, n) ==
  /\ Met(s, p) # {}
  /\ Restores(s, p, Text(N, n), Len(o))
  /\ o # <<>> => o[1] = n /\ (N[o[Len(o)]].first = Null <=> s[Max(Met(s, p))] = LeftParen)

(***************************************************************************)
(* What is built when no token was met, and after the first form.          *)
(***************************************************************************)
Built(s, p, N, o, t) ==
  /\ Spine(N, o)
  /\ o # <<>> => t # <<>>
  /\ Len(t) = 0 => Met(s, p) = {} /\ CanonicalTo(s)[p] = <<>>
  /\ Len(t) = 1 => BuiltOne(s, p, N, o, t[1])

(***************************************************************************)
(* The open lists after a form of kind k.                                  *)
(***************************************************************************)
Opened(k, o, c) == IF k = List THEN Append(o, c) ELSE o

(***************************************************************************)
(* A form at the top.                                                      *)
(***************************************************************************)
LEMMA FormOnTop ==
  ASSUME NEW s \in Seq(Byte), NEW p, NEW i, NEW e, Reads(s, p, i, e),
         NEW N \in Table, WellFormed(N), NEW t \in Seq(Slots), Built(s, p, N, <<>>, t),
         NEW c \in Slots, N[c] = Vacant, NEW k \in Kinds,
         NEW u, NEW d, IsForm(k, u, d), Spoken(u) = Symbol(s, i),
         k = List <=> s[i] = LeftParen,
         NEW M, M = Allocate(N, c, k)
  PROVE  Built(s, e, M, Opened(k, <<>>, c), Append(t, c))
<1> DEFINE v == Append(t, c)
           w == Opened(k, <<>>, c)
<1>0. w = IF k = List THEN <<c>> ELSE <<>>
  <2>1. Append(<<>>, c) = <<c>>
    OBVIOUS
  <2> QED BY <2>1 DEF Opened
<1>1. /\ M \in Table /\ Live(M) = Live(N) \union {c} /\ WellFormed(M)
      /\ M[c] = NewNode(k)
  BY AllocKeeps
<1>2. M[c].kind = k /\ M[c].first = Null /\ M[c].parent = Null /\ c \in Live(M)
  BY <1>1 DEF NewNode
<1>3. v \in Seq(Slots) /\ Len(v) = Len(t) + 1 /\ Len(t) \in Nat /\ v[Len(t) + 1] = c
  BY AppendProperties, LenProperties
<1> HIDE DEF v, w
<1>4. Spine(M, w)
  <2>1. CASE k = List
    <3>1. Spine(M, <<c>>)
      BY <1>2, <2>1, SpineBegins
    <3> QED BY <1>0, <2>1, <3>1
  <2>2. CASE k # List
    <3>1. Len(<<>>) = 0 /\ w = <<>>
      BY <1>0, <2>2
    <3>2. \A j \in 1 .. 0 : FALSE
      OBVIOUS
    <3>3. \A j \in 1 .. 0 - 1 : FALSE
      OBVIOUS
    <3> QED BY <3>1, <3>2, <3>3 DEF Spine
  <2> QED BY <2>1, <2>2
<1>5. v # <<>> /\ Len(v) # 0
  <2>1. Len(v) # 0
    BY <1>3
  <2>2. Len(<<>>) = 0
    OBVIOUS
  <2> QED BY <2>1, <2>2
<1>6. ASSUME Len(v) = 1 PROVE BuiltOne(s, e, M, w, v[1])
  <2>1. Len(t) = 0 /\ v[1] = c
    <3>1. Len(t) = 0
      BY <1>3, <1>6
    <3> QED BY <1>3, <3>1
  <2>2. Met(s, p) = {} /\ CanonicalTo(s)[p] = <<>>
    BY <2>1 DEF Built
  <2>3. Restores(s, e, Text(M, c), d)
    <3>1. LinksOK(M) /\ NoSiblingCycle(M) /\ NoParentCycle(M)
      BY <1>1 DEF WellFormed
    <3>2. IsForm(M[c].kind, u, d)
      BY <1>2
    <3> QED BY <1>1, <1>2, <2>2, <3>1, <3>2, FirstForm
  <2>4. Met(s, e) # {} /\ Max(Met(s, e)) = i
    BY DEF Reads
  <2>5. d = Len(w) /\ (w # <<>> => k = List /\ w[1] = c /\ w[Len(w)] = c)
    <3>1. Len(<<c>>) = 1 /\ <<c>>[1] = c /\ Len(<<>>) = 0
      OBVIOUS
    <3>2. CASE k = List
      <4>1. w = <<c>> /\ d = 1
        BY <1>0, <3>2 DEF IsForm
      <4> QED BY <3>1, <3>2, <4>1
    <3>3. CASE k # List
      <4>1. w = <<>> /\ d = 0
        BY <1>0, <3>3 DEF IsForm
      <4> QED BY <3>1, <4>1
    <3> QED BY <3>2, <3>3
  <2> QED BY <1>2, <2>1, <2>3, <2>4, <2>5 DEF BuiltOne
<1> QED BY <1>4, <1>5, <1>6 DEF Built, v, w

(***************************************************************************)
(* A form below the innermost open list.                                   *)
(***************************************************************************)
LEMMA FormInside ==
  ASSUME NEW s \in Seq(Byte), NEW p, NEW i, NEW e, Reads(s, p, i, e), s[i] # RightParen,
         NEW N \in Table, WellFormed(N), NEW o \in Seq(Slots), o # <<>>,
         NEW t \in Seq(Slots), Built(s, p, N, o, t),
         NEW c \in Slots, N[c] = Vacant, NEW k \in Kinds,
         NEW u, NEW d, IsForm(k, u, d), Spoken(u) = Symbol(s, i),
         k = List <=> s[i] = LeftParen,
         NEW M, M = LinkChild(Allocate(N, c, k), o[Len(o)], c),
         NEW w, w = Opened(k, o, c)
  PROVE  Built(s, e, M, w, t)
<1>0. Spine(N, o) /\ t # <<>>
  BY DEF Built
<1>1. Len(o) \in Nat \ {0} /\ o[Len(o)] \in Live(N)
  BY <1>0, SpineFacts
<1>2. /\ Spine(M, o) /\ (k = List => Spine(M, Append(o, c)))
  BY <1>0, SpineGrows
<1>3. /\ Live(M) = Live(N) \union {c}
      /\ M[o[Len(o)]].first = IF N[o[Len(o)]].last = Null THEN c ELSE N[o[Len(o)]].first
      /\ M[c].first = Null
  <2>1. /\ Live(M) = Live(N) \union {c}
        /\ \A n \in Live(N) :
             M[n].first = IF n = o[Len(o)] /\ N[o[Len(o)]].last = Null THEN c ELSE N[n].first
        /\ M[c].first = Null
    BY <1>1, FreshChild
  <2> QED BY <1>1, <2>1
<1>4. M[o[Len(o)]].first # Null
  <2>1. c # Null /\ (N[o[Len(o)]].first = Null <=> N[o[Len(o)]].last = Null)
    BY <1>1, TableCells DEF WellFormed, LinksOK, EndsAgree
  <2> QED BY <1>3, <2>1
<1>5. Len(t) # 0
  BY <1>0, EmptySeq
<1>6. ASSUME Len(t) = 1 PROVE BuiltOne(s, e, M, w, t[1])
  <2>1. /\ Met(s, p) # {} /\ Restores(s, p, Text(N, t[1]), Len(o)) /\ o[1] = t[1]
        /\ N[o[Len(o)]].first = Null <=> s[Max(Met(s, p))] = LeftParen
    BY <1>6 DEF Built, BuiltOne
  <2>2. Restores(s, p, Text(N, o[1]), Len(o))
    BY <2>1
  <2>3. Restores(s, e, Text(M, o[1]), Len(o) + d)
    BY <1>0, <2>1, <2>2, FormBelow
  <2>4. Met(s, e) # {} /\ Max(Met(s, e)) = i
    BY DEF Reads
  <2>5. CASE k = List
    <3>1. d = 1 /\ w = Append(o, c)
      BY <2>5 DEF IsForm, Opened
    <3>2. Len(w) = Len(o) + 1 /\ w[Len(o) + 1] = c /\ w[1] = o[1]
      <4>1. 1 \in 1 .. Len(o)
        BY <1>1
      <4> QED BY <3>1, <4>1, AppendProperties
    <3> QED BY <1>3, <2>1, <2>3, <2>4, <2>5, <3>1, <3>2 DEF BuiltOne
  <2>6. CASE k # List
    <3>1. d = 0 /\ w = o
      BY <2>6 DEF IsForm, Opened
    <3>2. Len(o) + d = Len(o)
      BY <1>1, <3>1
    <3> QED BY <1>4, <2>1, <2>3, <2>4, <2>6, <3>1, <3>2 DEF BuiltOne
  <2> QED BY <2>5, <2>6
<1>7. Spine(M, w)
  BY <1>2 DEF Opened
<1> QED BY <1>0, <1>5, <1>6, <1>7 DEF Built

(***************************************************************************)
(* A list that ends has given its bracket to the canonical form, and the   *)
(* one that is open next has it as its last child.                         *)
(***************************************************************************)
LEMMA FormEnds ==
  ASSUME NEW s \in Seq(Byte), NEW p, NEW i, NEW e, Reads(s, p, i, e),
         s[i] = RightParen, Symbol(s, i) = Mark(")"),
         NEW N \in Table, WellFormed(N), NEW o \in Seq(Slots), o # <<>>,
         NEW t \in Seq(Slots), Built(s, p, N, o, t),
         NEW w, w = Shorter(o)
  PROVE  Built(s, e, N, w, t)
<1>0. Spine(N, o) /\ t # <<>>
  BY DEF Built
<1>1. /\ w \in Seq(Slots) /\ Len(w) \in Nat /\ Len(o) = Len(w) + 1
      /\ \A j \in 1 .. Len(w) : w[j] = o[j] /\ N[w[j]].last = o[j + 1] /\ j + 1 \in 1 .. Len(o)
      /\ Spine(N, w)
  BY <1>0, SpineEnds
<1>2. \A j \in 1 .. Len(o) : o[j] \in Live(N) /\ o[j] # Null
  BY <1>0, SpineFacts
<1>3. Len(t) # 0
  BY <1>0, EmptySeq
<1>4. ASSUME Len(t) = 1 PROVE BuiltOne(s, e, N, w, t[1])
  <2>1. Met(s, p) # {} /\ Restores(s, p, Text(N, t[1]), Len(w) + 1) /\ o[1] = t[1]
    BY <1>1, <1>4 DEF Built, BuiltOne
  <2>2. Restores(s, e, Text(N, t[1]), Len(w))
    BY <1>1, <2>1, ListClosed
  <2>3. Met(s, e) # {} /\ Max(Met(s, e)) = i /\ s[i] # LeftParen
    BY DEF Reads, LeftParen, RightParen
  <2>4. w # <<>> => w[1] = t[1] /\ N[w[Len(w)]].first # Null
    <3> SUFFICES ASSUME w # <<>> PROVE w[1] = t[1] /\ N[w[Len(w)]].first # Null
      OBVIOUS
    <3>1. Len(w) \in 1 .. Len(w) /\ 1 \in 1 .. Len(w)
      BY <1>1, EmptySeq
    <3>2. Len(w) \in 1 .. Len(o)
      BY <1>1, <3>1
    <3>3. w[Len(w)] \in Live(N) /\ N[w[Len(w)]].last # Null
      BY <1>1, <1>2, <3>1, <3>2
    <3>4. N[w[Len(w)]].first # Null
      BY <3>3 DEF WellFormed, LinksOK, EndsAgree
    <3> QED BY <1>1, <2>1, <3>1, <3>4
  <2> QED BY <2>2, <2>3, <2>4 DEF BuiltOne
<1> QED BY <1>0, <1>1, <1>3, <1>4 DEF Built

(***************************************************************************)
(* At the end of the input.                                                *)
(***************************************************************************)
LEMMA WholeRead ==
  ASSUME NEW s, NEW p, NEW N, NEW t,
         Built(s, p, N, <<>>, t), CanonicalTo(s)[Len(s)] = CanonicalTo(s)[p]
  PROVE  /\ Len(t) = 0 => CanonicalTo(s)[Len(s)] = <<>>
         /\ Len(t) = 1 => Spelt(Text(N, t[1])) = CanonicalTo(s)[Len(s)]
<1> DEFINE C == CanonicalTo(s)
           n == Len(s)
<1>1. C[n] = C[p]
  OBVIOUS
<1> HIDE DEF C, n
<1>2. Len(t) = 0 => C[n] = <<>>
  BY <1>1 DEF Built, C
<1>3. ASSUME Len(t) = 1 PROVE Spelt(Text(N, t[1])) = C[n]
  <2> DEFINE x == Text(N, t[1])
  <2>1. Restores(s, p, x, Len(<<>>)) /\ Len(<<>>) = 0
    BY <1>3 DEF Built, BuiltOne
  <2>2. PICK a \in Seq(Tokens) : x = a \o Rights(0) /\ Spelt(a) = C[p]
    BY <2>1 DEF Restores, C
  <2>3. Rights(0) = <<>> /\ a \o <<>> = a
    <3>1. Rights(0) = <<>>
      BY RightsFacts
    <3> QED BY <3>1, ConcatEmptySeq
  <2> HIDE DEF x
  <2>4. x = a
    BY <2>2, <2>3, Zenon
  <2> QED BY <1>1, <2>2, <2>4 DEF x
<1> QED BY <1>2, <1>3 DEF C, n

(***************************************************************************)
(* How far the source is read.                                             *)
(***************************************************************************)
BytesRead == Len(input) - Len(remaining)

(***************************************************************************)
(* The invariant behind SourceRestored while the source is read.           *)
(***************************************************************************)
SourceInv ==
  /\ outcome = "parsing" => Built(input, BytesRead, nodes, open, top)
  /\ outcome = "tree" => Spelt(Text(nodes, top[1])) = Canonical
  /\ outcome = "bare" => Canonical = <<>>

(***************************************************************************)
(* What the next token is to the canonical form.                           *)
(***************************************************************************)
LEMMA AdvanceReads ==
  ASSUME ParseInv, OutcomeInv, SourceInv, NEW token, Advance(token)
  PROVE  /\ outcome = "parsing" /\ input \in Seq(Byte) /\ input' = input
         /\ nodes \in Table /\ WellFormed(nodes) /\ open \in Seq(Slots) /\ top \in Seq(Slots)
         /\ NextToken(remaining).token = token
         /\ Built(input, BytesRead, nodes, open, top)
         /\ \E i : TokenAt(input, BytesRead, i, BytesRead', NextToken(remaining))
<1> DEFINE x == NextToken(remaining)
<1>1. /\ outcome = "parsing" /\ input' = input /\ x.token = token /\ remaining' = x.remaining
  BY DEF Advance
<1>2. /\ input \in Seq(Byte) /\ remaining \in Seq(Byte) /\ Len(remaining) <= Len(input)
      /\ remaining = Skip(input, Len(input) - Len(remaining))
      /\ ReadTo(input, Len(input) - Len(remaining), Len(open), Len(top))
      /\ nodes \in Table /\ WellFormed(nodes) /\ open \in Seq(Slots) /\ top \in Seq(Slots)
  BY <1>1, SourceFacts DEF ParseInv, ParseTypeOK, OutcomeInv, ReadSoFar
<1>3. \E i, e : TokenAt(input, Len(input) - Len(remaining), i, e, x)
  BY <1>2, TokenReads
<1>4. PICK i, e : TokenAt(input, BytesRead, i, e, x)
  BY <1>3 DEF BytesRead
<1> HIDE DEF x
<1>5. e = BytesRead'
  <2>1. e \in 0 .. Len(input) /\ Len(remaining') = Len(input) - e /\ Len(input) \in Nat
    BY <1>1, <1>2, <1>4, LenProperties DEF TokenAt
  <2> QED BY <1>1, <2>1 DEF BytesRead
<1>6. Built(input, BytesRead, nodes, open, top)
  BY <1>1 DEF SourceInv
<1> QED BY <1>1, <1>2, <1>4, <1>5, <1>6 DEF x

(***************************************************************************)
(* A form is added.                                                        *)
(***************************************************************************)
LEMMA AddFormReads ==
  ASSUME ParseInv, OutcomeInv, SourceInv, NEW token \in {"left", "atom"}, Advance(token),
         NEW k \in Kinds, AddForm(k), outcome' = outcome,
         open' = IF k = List THEN Append(open, NextKey) ELSE open,
         NEW u, NEW d, IsForm(k, u, d),
         k = List <=> token = "left",
         Spoken(u) = IF token = "left" THEN Mark("(") ELSE Word(NextToken(remaining).text)
  PROVE  SourceInv'
<1>1. /\ outcome = "parsing" /\ input \in Seq(Byte) /\ input' = input
      /\ nodes \in Table /\ WellFormed(nodes) /\ open \in Seq(Slots) /\ top \in Seq(Slots)
      /\ NextToken(remaining).token = token
      /\ Built(input, BytesRead, nodes, open, top)
      /\ \E i : TokenAt(input, BytesRead, i, BytesRead', NextToken(remaining))
  BY AdvanceReads
<1>2. PICK i : TokenAt(input, BytesRead, i, BytesRead', NextToken(remaining))
  BY <1>1
<1>3. NextKey \in Slots /\ nodes[NextKey] = Vacant
  <2>1. NextKey \in Slots \ Live(nodes)
    <3>1. input' = input /\ Len(remaining') \in Nat /\ Len(remaining') < Len(remaining)
      BY AdvanceFacts
    <3> QED BY <1>1, <3>1, AddFormFacts
  <2> QED BY <2>1 DEF Live
<1>4. PICK s, p, e, N, o, t, c, M, w, v :
        /\ s = input /\ p = BytesRead /\ e = BytesRead' /\ c = NextKey
        /\ N = nodes /\ o = open /\ t = top
        /\ M = nodes' /\ w = open' /\ v = top'
  OBVIOUS
<1>5. /\ s \in Seq(Byte) /\ N \in Table /\ WellFormed(N) /\ o \in Seq(Slots) /\ t \in Seq(Slots)
      /\ Built(s, p, N, o, t) /\ c \in Slots /\ N[c] = Vacant
  BY <1>1, <1>3, <1>4
<1>6. /\ Reads(s, p, i, e) /\ s[i] # RightParen
      /\ k = List <=> s[i] = LeftParen
      /\ Spoken(u) = Symbol(s, i)
  BY <1>1, <1>2, <1>4 DEF TokenAt, LeftParen, RightParen
<1>7. w = Opened(k, o, c)
  BY <1>4 DEF Opened
<1>8. Built(s, e, M, w, v)
  <2>1. CASE o = <<>>
    <3>1. M = Allocate(N, c, k) /\ v = Append(t, c)
      BY <1>4, <2>1 DEF AddForm
    <3>2. Built(s, p, N, <<>>, t)
      BY <1>5, <2>1
    <3>3. Built(s, e, M, Opened(k, <<>>, c), Append(t, c))
      BY <1>5, <1>6, <3>1, <3>2, FormOnTop
    <3> QED BY <1>7, <2>1, <3>1, <3>3, Zenon
  <2>2. CASE o # <<>>
    <3>1. M = LinkChild(Allocate(N, c, k), o[Len(o)], c) /\ v = t
      BY <1>4, <2>2 DEF AddForm, Innermost
    <3>2. Built(s, e, M, w, t)
      BY <1>5, <1>6, <1>7, <2>2, <3>1, FormInside
    <3> QED BY <3>1, <3>2
  <2> QED BY <2>1, <2>2
<1>9. Built(input, BytesRead, nodes, open, top)'
  BY <1>1, <1>4, <1>8
<1> QED BY <1>1, <1>9 DEF SourceInv

(***************************************************************************)
(* The end of a list.                                                      *)
(***************************************************************************)
LEMMA CloseListReads ==
  ASSUME ParseInv, OutcomeInv, SourceInv, CloseList
  PROVE  SourceInv'
<1>0. Advance("right") /\ nodes' = nodes /\ top' = top
  BY DEF CloseList
<1>1. /\ outcome = "parsing" /\ input \in Seq(Byte) /\ input' = input
      /\ nodes \in Table /\ WellFormed(nodes) /\ open \in Seq(Slots) /\ top \in Seq(Slots)
      /\ NextToken(remaining).token = "right"
      /\ Built(input, BytesRead, nodes, open, top)
      /\ \E i : TokenAt(input, BytesRead, i, BytesRead', NextToken(remaining))
  BY <1>0, AdvanceReads
<1>2. PICK i : TokenAt(input, BytesRead, i, BytesRead', NextToken(remaining))
  BY <1>1
<1>3. CASE open = <<>>
  BY <1>3 DEF CloseList, SourceInv
<1>4. CASE open # <<>>
  <2>1. open' = Shorter(open) /\ outcome' = outcome
    BY <1>4 DEF CloseList, Shorter
  <2>2. PICK s, p, e, N, o, t, w :
          /\ s = input /\ p = BytesRead /\ e = BytesRead'
          /\ N = nodes /\ o = open /\ t = top /\ w = open'
    OBVIOUS
  <2>3. /\ s \in Seq(Byte) /\ N \in Table /\ WellFormed(N) /\ o \in Seq(Slots) /\ t \in Seq(Slots)
        /\ Built(s, p, N, o, t) /\ o # <<>> /\ w = Shorter(o)
    BY <1>1, <1>4, <2>1, <2>2
  <2>4. Reads(s, p, i, e) /\ s[i] = RightParen /\ Symbol(s, i) = Mark(")")
    BY <1>1, <1>2, <2>2 DEF TokenAt
  <2>5. Built(s, e, N, w, t)
    BY <2>3, <2>4, FormEnds
  <2>6. Built(input, BytesRead, nodes, open, top)'
    BY <1>0, <1>1, <2>2, <2>5
  <2> QED BY <1>1, <2>1, <2>6 DEF SourceInv
<1> QED BY <1>3, <1>4

(***************************************************************************)
(* The end of the input.                                                   *)
(***************************************************************************)
LEMMA FinishReads ==
  ASSUME ParseInv, OutcomeInv, SourceInv, Finish
  PROVE  SourceInv'
<1>0. Advance("end") /\ open' = open
  BY DEF Finish
<1>1. /\ outcome = "parsing" /\ input \in Seq(Byte) /\ input' = input
      /\ open \in Seq(Slots) /\ top \in Seq(Slots)
      /\ NextToken(remaining).token = "end"
      /\ Built(input, BytesRead, nodes, open, top)
      /\ \E i : TokenAt(input, BytesRead, i, BytesRead', NextToken(remaining))
  BY <1>0, AdvanceReads
<1>2. PICK i : TokenAt(input, BytesRead, i, BytesRead', NextToken(remaining))
  BY <1>1
<1>3. PICK s, p, N, t : s = input /\ p = BytesRead /\ N = nodes /\ t = top
  OBVIOUS
<1>4. s \in Seq(Byte) /\ CanonicalTo(s)[Len(s)] = CanonicalTo(s)[p]
  BY <1>1, <1>2, <1>3 DEF TokenAt
<1>5. Canonical' = CanonicalTo(s)[Len(s)]
  BY <1>1, <1>3 DEF Canonical
<1>6. ASSUME open = <<>>
      PROVE  /\ Len(t) = 0 => CanonicalTo(s)[Len(s)] = <<>>
             /\ Len(t) = 1 => Spelt(Text(N, t[1])) = CanonicalTo(s)[Len(s)]
  <2>1. Built(s, p, N, <<>>, t)
    BY <1>1, <1>3, <1>6
  <2> QED BY <1>4, <2>1, WholeRead
<1>7. outcome' = IF open # <<>> THEN "UnclosedParenthesis"
                 ELSE IF Len(top) > 1 THEN "MultipleTopLevelForms"
                 ELSE IF top = <<>> THEN "bare" ELSE "tree"
  BY DEF Finish
<1>8. outcome' # "bare" => nodes' = nodes /\ top' = top
  BY DEF Finish
<1>9. CASE outcome' = "bare"
  <2>1. open = <<>> /\ top = <<>>
    BY <1>7, <1>9
  <2>2. Len(t) = 0
    BY <1>3, <2>1
  <2>3. Canonical' = <<>>
    BY <1>5, <1>6, <2>1, <2>2, Zenon
  <2> QED BY <1>9, <2>3 DEF SourceInv
<1>10. CASE outcome' = "tree"
  <2>1. open = <<>> /\ top # <<>> /\ ~ (Len(top) > 1)
    BY <1>7, <1>10
  <2>2. Len(t) = 1
    <3>1. Len(top) \in Nat /\ Len(top) # 0
      BY <1>1, <2>1, EmptySeq, LenProperties
    <3> DEFINE n == Len(top)
    <3>2. n \in Nat /\ n # 0 /\ ~ (n > 1)
      BY <2>1, <3>1
    <3> HIDE DEF n
    <3>3. n = 1
      BY <3>2
    <3> QED BY <1>3, <3>3 DEF n
  <2>3. Spelt(Text(N, t[1])) = Canonical'
    BY <1>5, <1>6, <2>1, <2>2, Zenon
  <2>4. Spelt(Text(nodes', top'[1])) = Canonical'
    BY <1>3, <1>8, <1>10, <2>3
  <2> QED BY <1>10, <2>4 DEF SourceInv
<1>11. CASE outcome' \notin {"bare", "tree"}
  <2>1. outcome' # "parsing"
    BY <1>7
  <2> QED BY <1>11, <2>1 DEF SourceInv
<1> QED BY <1>9, <1>10, <1>11

(***************************************************************************)
(* Each step of the parser keeps the invariant.                            *)
(***************************************************************************)
LEMMA StepReads == ParseInv /\ OutcomeInv /\ SourceInv /\ [ParseNext]_parseVars => SourceInv'
<1> SUFFICES ASSUME ParseInv, OutcomeInv, SourceInv, [ParseNext]_parseVars
             PROVE  SourceInv'
  OBVIOUS
<1>1. CASE Decode
  <2>1. /\ outcome = "given" /\ open = <<>> /\ top = <<>> /\ remaining = input
        /\ outcome' \in {"parsing", "InvalidUtf8"}
        /\ input' = input /\ remaining' = remaining /\ open' = open /\ top' = top
        /\ nodes' = nodes /\ input \in Seq(Byte)
    BY <1>1, SourceFacts DEF Decode, ParseInv, OutcomeInv
  <2>2. Len(input) \in Nat /\ BytesRead' = 0
    <3>1. Len(input) \in Nat
      BY <2>1, LenProperties
    <3> QED BY <2>1, <3>1 DEF BytesRead
  <2>3. PICK s, N : s = input /\ N = nodes
    OBVIOUS
  <2>4. Met(s, 0) = {} /\ CanonicalTo(s)[0] = <<>>
    <3>1. s \in Seq(Byte)
      BY <2>1, <2>3
    <3>2. TokenStarts(s) \subseteq 1 .. Len(s)
      BY DEF TokenStarts, FormStarts
    <3>3. Met(s, 0) = {}
      BY <2>2, <2>3, <3>2 DEF Met
    <3> QED BY <3>1, <3>3, CanonicalUnfolds
  <2>5. Len(<<>>) = 0 /\ Spine(N, <<>>)
    <3>1. Len(<<>>) = 0
      OBVIOUS
    <3>2. \A j \in 1 .. 0 : FALSE
      OBVIOUS
    <3>3. \A j \in 1 .. 0 - 1 : FALSE
      OBVIOUS
    <3> QED BY <3>1, <3>2, <3>3 DEF Spine
  <2>6. Built(s, 0, N, <<>>, <<>>)
    BY <2>4, <2>5 DEF Built
  <2>7. Built(input, BytesRead, nodes, open, top)'
    BY <2>1, <2>2, <2>3, <2>6
  <2> QED BY <2>1, <2>7 DEF SourceInv
<1>2. CASE OpenList
  <2>1. /\ Advance("left") /\ AddForm(List) /\ List \in Kinds
        /\ open' = IF List = List THEN Append(open, NextKey) ELSE open
        /\ outcome' = outcome
    BY <1>2 DEF OpenList, Kinds
  <2>2. IsForm(List, Mark("("), 1) /\ Spoken(Mark("(")) = Mark("(")
    BY SpeltFacts DEF IsForm
  <2> QED BY <2>1, <2>2, AddFormReads
<1>3. CASE AddAtom
  <2> DEFINE text == NextToken(remaining).text
             k == New(text)
  <2>1. Advance("atom") /\ AddForm(k) /\ open' = open /\ outcome' = outcome
    BY <1>3 DEF AddAtom
  <2>2. k \in Values /\ k \in Kinds /\ AsStr(k) = text
    BY <2>1, AdvanceFacts
  <2>3. k # List
    BY <2>2, NodesAssumption
  <2> HIDE DEF k
  <2>4. IsForm(k, Word(k), 0) /\ Spoken(Word(k)) = Word(text)
    BY <2>2, <2>3, SpeltFacts DEF IsForm
  <2>5. open' = IF k = List THEN Append(open, NextKey) ELSE open
    BY <2>1, <2>3
  <2> QED BY <2>1, <2>2, <2>3, <2>4, <2>5, AddFormReads
<1>4. CASE CloseList
  BY <1>4, CloseListReads
<1>5. CASE Finish
  BY <1>5, FinishReads
<1>6. CASE UNCHANGED parseVars
  <2>1. /\ input' = input /\ remaining' = remaining /\ open' = open /\ top' = top
        /\ outcome' = outcome /\ nodes' = nodes
    BY <1>6 DEF parseVars
  <2> QED BY <2>1 DEF SourceInv, BytesRead, Canonical
<1> QED BY <1>1, <1>2, <1>3, <1>4, <1>5, <1>6 DEF ParseNext

(***************************************************************************)
(* While the tree is written the invariant of write_node holds of it.      *)
(***************************************************************************)
Writing ==
  /\ top[1] \in Live(nodes)
  /\ stack \in Seq(FramesOver(nodes))
  /\ cursor \in Live(nodes) \union {Null}
  /\ out \in Seq(Tokens)
  /\ WriteInv(nodes, top[1], stack, cursor, out)

(***************************************************************************)
(* The invariant behind SourceRestored from its reading to its writing.    *)
(***************************************************************************)
TripInv ==
  /\ stage \in {"read", "write", "written"}
  /\ stage = "read" => out = <<>>
  /\ stage = "write" => outcome = "tree" /\ Writing
  /\ SourceRestored

(***************************************************************************)
(* The tree that is written.                                               *)
(***************************************************************************)
LEMMA TreeRead ==
  ASSUME ParseInv, outcome = "tree"
  PROVE  /\ nodes \in Table /\ LinksOK(nodes) /\ NoSiblingCycle(nodes) /\ NoParentCycle(nodes)
         /\ top[1] \in Live(nodes)
<1>1. nodes \in Table /\ WellFormed(nodes) /\ TopsAreRoots /\ Len(top) = 1
  BY DEF ParseInv, ParseTypeOK
<1>2. top[1] \in {top[i] : i \in 1 .. Len(top)}
  BY <1>1
<1> QED BY <1>1, <1>2 DEF TopsAreRoots, WellFormed

(***************************************************************************)
(* The writer begins.                                                      *)
(***************************************************************************)
LEMMA BeginWrites ==
  ASSUME ParseInv, BeginWrite
  PROVE  Writing'
<1>1. /\ outcome = "tree" /\ Ser!Begin(top[1]) /\ nodes' = nodes /\ top' = top
  BY DEF BeginWrite, parseVars
<1>2. PICK N, n, s, c, o : N = nodes /\ n = top[1] /\ s = stack' /\ c = cursor' /\ o = out'
  OBVIOUS
<1>3. /\ N \in Table /\ LinksOK(N) /\ NoSiblingCycle(N) /\ NoParentCycle(N) /\ n \in Live(N)
  BY <1>1, <1>2, TreeRead
<1> DEFINE f == Ser!Frame(n, FALSE)
<1>4. s = <<f>> /\ c = Null /\ o = <<>>
  BY <1>1, <1>2 DEF Ser!Begin
<1>5. f \in FramesOver(N) /\ f.node = n /\ ~ f.space /\ ~ f.close
  BY <1>3 DEF FramesOver, Ser!Frame
<1> HIDE DEF f
<1>6. WriteInv(N, n, <<f>>, Null, <<>>)
  BY <1>3, <1>5, WriteBegins
<1>7. s \in Seq(FramesOver(N)) /\ o \in Seq(Tokens) /\ WriteInv(N, n, s, c, o)
  BY <1>4, <1>5, <1>6
<1> QED BY <1>1, <1>2, <1>3, <1>4, <1>7 DEF Writing

(***************************************************************************)
(* A step of write_node.                                                   *)
(***************************************************************************)
LEMMA WriteKeeps ==
  ASSUME ParseInv, TripInv, Write
  PROVE  Writing'
<1>1. /\ outcome = "tree" /\ Writing /\ Ser!WriteStep /\ nodes' = nodes /\ top' = top
  BY DEF Write, parseVars, TripInv
<1>2. PICK N, n, s, c, o, s1, c1, o1 :
        /\ N = nodes /\ n = top[1] /\ s = stack /\ c = cursor /\ o = out
        /\ s1 = stack' /\ c1 = cursor' /\ o1 = out'
  OBVIOUS
<1>3. /\ N \in Table /\ LinksOK(N) /\ NoSiblingCycle(N) /\ NoParentCycle(N)
      /\ n \in Live(N) /\ s \in Seq(FramesOver(N)) /\ o \in Seq(Tokens) /\ WriteInv(N, n, s, c, o)
      /\ c \in Live(N) \union {Null}
  BY <1>1, <1>2, TreeRead DEF Writing
<1>4. \A m \in Live(N) : N[m].prev \in Live(N) \union {Null} /\ N[m].last \in Live(N) \union {Null}
  BY <1>3 DEF LinksOK, LinkLive
<1>5. ASSUME s # <<>>, c = Null
      PROVE  s[Len(s)] \in FramesOver(N) /\ SubSeq(s, 1, Len(s) - 1) \in Seq(FramesOver(N))
  <2>1. WriteInv(N, n, s, Null, o)
    BY <1>3, <1>5
  <2> QED BY <1>3, <1>5, <2>1, WritePops
<1>6. /\ o1 \in Seq(Tokens) /\ WriteInv(N, n, s1, c1, o1)
      /\ s1 \in Seq(FramesOver(N)) /\ c1 \in Live(N) \union {Null}
  <2>1. CASE Ser!PushChild
    <3> DEFINE f == Ser!Frame(c, N[c].prev # Null)
    <3>1. c # Null /\ o1 = o /\ c1 = N[c].prev /\ s1 = Append(s, f)
      BY <1>2, <2>1 DEF Ser!PushChild
    <3>2. c \in Live(N)
      BY <1>3, <3>1
    <3>3. f \in FramesOver(N) /\ f.node = c /\ f.space = (N[c].prev # Null) /\ ~ f.close
      BY <3>2 DEF FramesOver, Ser!Frame
    <3> HIDE DEF f
    <3>4. WriteInv(N, n, Append(s, f), N[c].prev, o)
      BY <1>3, <3>2, <3>3, WritePushes
    <3>5. Append(s, f) \in Seq(FramesOver(N))
      BY <1>3, <3>3, AppendProperties
    <3> QED BY <1>3, <1>4, <3>1, <3>2, <3>4, <3>5
  <2>2. CASE Ser!WriteAtom
    <3>1. /\ c = Null /\ s # <<>> /\ ~ s[Len(s)].close /\ N[s[Len(s)].node].kind # List
          /\ o1 = o \o Gap(s[Len(s)].space) \o <<Word(N[s[Len(s)].node].kind)>>
          /\ c1 = Null /\ s1 = SubSeq(s, 1, Len(s) - 1)
      BY <1>2, <2>2 DEF Ser!WriteAtom, Ser!Pops, Ser!Top, Ser!Popped, Ser!After, Gap,
                        Ser!Mark, Mark, Ser!Word, Word
    <3>2. WriteInv(N, n, s, Null, o)
      BY <1>3, <3>1
    <3>3. o1 \in Seq(Tokens) /\ WriteInv(N, n, s1, c1, o1)
      BY <1>3, <3>1, <3>2, WritesAtom
    <3> QED BY <1>5, <3>1, <3>3
  <2>3. CASE Ser!OpenBracket
    <3> DEFINE h == Ser!Close(s[Len(s)].node)
    <3>1. /\ c = Null /\ s # <<>> /\ ~ s[Len(s)].close /\ N[s[Len(s)].node].kind = List
          /\ o1 = o \o Gap(s[Len(s)].space) \o <<Mark("(")>>
          /\ c1 = N[s[Len(s)].node].last /\ s1 = Append(SubSeq(s, 1, Len(s) - 1), h)
      BY <1>2, <2>3 DEF Ser!OpenBracket, Ser!Pops, Ser!Top, Ser!Popped, Ser!After, Gap,
                        Ser!Mark, Mark
    <3>2. WriteInv(N, n, s, Null, o)
      BY <1>3, <3>1
    <3>3. s[Len(s)] \in FramesOver(N) /\ SubSeq(s, 1, Len(s) - 1) \in Seq(FramesOver(N))
      BY <1>5, <3>1
    <3>4. h \in FramesOver(N) /\ h.close
      BY <3>3 DEF FramesOver, Ser!Close
    <3> HIDE DEF h
    <3>5. o1 \in Seq(Tokens) /\ WriteInv(N, n, s1, c1, o1)
      BY <1>3, <3>1, <3>2, <3>4, WritesOpen
    <3>6. s[Len(s)].node \in Live(N)
      BY <3>3 DEF FramesOver
    <3>7. s1 \in Seq(FramesOver(N))
      BY <3>1, <3>3, <3>4, AppendProperties
    <3> QED BY <1>4, <3>1, <3>5, <3>6, <3>7
  <2>4. CASE Ser!CloseBracket
    <3>1. /\ c = Null /\ s # <<>> /\ s[Len(s)].close /\ o1 = Append(o, Mark(")"))
          /\ c1 = Null /\ s1 = SubSeq(s, 1, Len(s) - 1)
      BY <1>2, <2>4 DEF Ser!CloseBracket, Ser!Pops, Ser!Top, Ser!Popped,
                        Ser!Mark, Mark
    <3>2. WriteInv(N, n, s, Null, o)
      BY <1>3, <3>1
    <3>3. o1 \in Seq(Tokens) /\ WriteInv(N, n, s1, c1, o1)
      BY <1>3, <3>1, <3>2, WritesClose
    <3> QED BY <1>5, <3>1, <3>3
  <2> QED BY <1>1, <2>1, <2>2, <2>3, <2>4 DEF Ser!WriteStep
<1> QED BY <1>1, <1>2, <1>3, <1>6 DEF Writing

(***************************************************************************)
(* What is spelled is the spelling of what is written.                     *)
(***************************************************************************)
LEMMA SpelledIs ==
  ASSUME out \in Seq(Tokens)
  PROVE  Spelled = Spelt(out)
<1>1. DOMAIN out = 1 .. Len(out)
  BY LenProperties
<1>2. \A k \in 1 .. Len(out) :
        Spoken(out[k]) = IF "word" \in DOMAIN out[k] THEN Ser!Word(AsStr(out[k].word)) ELSE out[k]
  BY DEF Spoken, Ser!Word, Word
<1> QED BY <1>1, <1>2 DEF Spelled, Spelt

(***************************************************************************)
(* At its end the canonical form is written.                               *)
(***************************************************************************)
LEMMA EndWrites ==
  ASSUME ParseInv, SourceInv, TripInv, EndWrite
  PROVE  Spelled = Canonical
<1>1. stage = "write" /\ stack = <<>> /\ cursor = Null
  BY DEF EndWrite, Ser!Done
<1>2. /\ outcome = "tree" /\ out \in Seq(Tokens)
      /\ WriteInv(nodes, top[1], <<>>, Null, out)
  BY <1>1 DEF TripInv, Writing
<1>3. out = Text(nodes, top[1])
  BY <1>2, WriteEnds
<1>4. Spelt(out) = Canonical
  BY <1>2, <1>3 DEF SourceInv
<1> QED BY <1>2, <1>4, SpelledIs

(***************************************************************************)
(* Each step keeps the invariant.                                          *)
(***************************************************************************)
LEMMA StepWrites ==
  ParseInv /\ SourceInv /\ TripInv /\ [TripNext]_tripVars => TripInv'
<1> SUFFICES ASSUME ParseInv, SourceInv, TripInv, [TripNext]_tripVars PROVE TripInv'
  OBVIOUS
<1>1. CASE Read
  BY <1>1 DEF Read, TripInv, SourceRestored
<1>2. CASE BeginWrite
  <2>1. stage' = "write" /\ outcome' = "tree"
    BY <1>2 DEF BeginWrite, parseVars
  <2>2. Writing'
    BY <1>2, BeginWrites
  <2> QED BY <2>1, <2>2 DEF TripInv, SourceRestored
<1>3. CASE WriteBare
  <2>1. /\ stage' = "written" /\ out' = <<>> /\ out = <<>> /\ Canonical = <<>>
        /\ input' = input
    BY <1>3 DEF WriteBare, parseVars, TripInv, SourceInv
  <2>2. Spelled' = <<>>
    <3>1. out \in Seq(Tokens) /\ Spelt(<<>>) = <<>>
      <4>1. <<>> \in Seq(Tokens) /\ Len(<<>>) = 0
        OBVIOUS
      <4>2. Spelt(<<>>) \in Seq(Said) /\ Len(Spelt(<<>>)) = 0
        BY <4>1, SpeltFacts DEF Spelt
      <4> QED BY <2>1, <4>1, <4>2, EmptySeq
    <3>2. Spelled = <<>>
      BY <2>1, <3>1, SpelledIs
    <3> QED BY <2>1, <3>2 DEF Spelled
  <2>3. Canonical' = Canonical
    BY <2>1 DEF Canonical
  <2> QED BY <2>1, <2>2, <2>3 DEF TripInv, SourceRestored
<1>4. CASE Write
  <2>1. stage' = "write" /\ outcome' = "tree"
    BY <1>4 DEF Write, parseVars, TripInv
  <2>2. Writing'
    BY <1>4, WriteKeeps
  <2> QED BY <2>1, <2>2 DEF TripInv, SourceRestored
<1>5. CASE EndWrite
  <2>1. stage' = "written" /\ out' = out /\ input' = input
    BY <1>5 DEF EndWrite, parseVars
  <2>2. Spelled = Canonical
    BY <1>5, EndWrites
  <2>3. Spelled' = Canonical'
    BY <2>1, <2>2 DEF Spelled, Canonical
  <2> QED BY <2>1, <2>3 DEF TripInv, SourceRestored
<1>6. CASE UNCHANGED tripVars
  BY <1>6 DEF tripVars, parseVars, TripInv, Writing, SourceRestored, Spelled, Canonical
<1> QED BY <1>1, <1>2, <1>3, <1>4, <1>5, <1>6 DEF TripNext

(***************************************************************************)
(* Writing what was read gives the canonical form of the source, whatever  *)
(* the source and the capacity of Atom: repr(parse(source)) loses no form  *)
(* and no byte of an atom, and puts none in another place.                 *)
(***************************************************************************)
THEOREM SourceExact == TripSpec => []SourceRestored
<1>1. TripInit => ParseInv /\ OutcomeInv /\ SourceInv /\ TripInv
  <2>1. TripInit => ParseInit
    BY DEF TripInit
  <2>2. TripInit => SourceInv /\ TripInv
    BY DEF TripInit, ParseInit, SourceInv, TripInv, SourceRestored
  <2> QED BY <2>1, <2>2, InitParseInv, InitOutcomeInv
<1>2. /\ ParseInv /\ OutcomeInv /\ SourceInv /\ TripInv /\ [TripNext]_tripVars
        => (ParseInv /\ OutcomeInv /\ SourceInv /\ TripInv)'
  <2>1. [TripNext]_tripVars => [ParseNext]_parseVars
    BY DEF TripNext, Read, BeginWrite, WriteBare, Write, EndWrite, tripVars
  <2> QED BY <2>1, NextParseInv, StepMeans, StepReads, StepWrites
<1>3. TripInv => SourceRestored
  BY DEF TripInv
<1> QED BY <1>1, <1>2, <1>3, PTL DEF TripSpec
=============================================================================

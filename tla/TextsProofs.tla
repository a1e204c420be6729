---------------------------- MODULE TextsProofs ----------------------------
(***************************************************************************)
(* Lemmas and theorems about texts joined in a payload and split again,    *)
(* for any alphabet, any number of texts and whatever is in them.          *)
(*                                                                         *)
(* What a recursive function computes is proved by induction over a set:   *)
(* the numbers for which it is as it should be are all numbers.            *)
(***************************************************************************)
EXTENDS Texts, SequenceTheorems, FiniteSetTheorems, TLAPS

\* Two sequences, one after the other.
LEMMA ConcatHalves ==
  ASSUME NEW T, NEW s \in Seq(T), NEW t \in Seq(T)
  PROVE  /\ s \o t \in Seq(T)
         /\ Len(s \o t) = Len(s) + Len(t)
         /\ \A i \in 1..Len(s) : (s \o t)[i] = s[i]
         /\ \A i \in 1..Len(t) : (s \o t)[Len(s) + i] = t[i]
<1>1. /\ Len(s) \in Nat /\ Len(t) \in Nat
      /\ s \o t \in Seq(T)
      /\ Len(s \o t) = Len(s) + Len(t)
      /\ \A i \in 1..Len(s) + Len(t) :
           (s \o t)[i] = IF i <= Len(s) THEN s[i] ELSE t[i - Len(s)]
  BY LenProperties, ConcatProperties
<1>2. ASSUME NEW i \in 1..Len(s) PROVE (s \o t)[i] = s[i]
  BY <1>1
<1>3. ASSUME NEW i \in 1..Len(t) PROVE (s \o t)[Len(s) + i] = t[i]
  <2>1. /\ Len(s) + i \in 1..Len(s) + Len(t)
        /\ ~(Len(s) + i <= Len(s))
        /\ (Len(s) + i) - Len(s) = i
    BY <1>1
  <2>2. (s \o t)[Len(s) + i] =
          IF Len(s) + i <= Len(s) THEN s[Len(s) + i] ELSE t[(Len(s) + i) - Len(s)]
    BY <1>1, <2>1
  <2> QED BY <2>1, <2>2, Zenon
<1> QED BY <1>1, <1>2, <1>3

-----------------------------------------------------------------------------
(* Induction *)

\* A set of numbers from 1 on that has with each all smaller ones.
LEMMA Initial ==
  ASSUME NEW n \in Nat, NEW S \in SUBSET (1..n),
         \A i \in S : \A j \in 1..n : j < i => j \in S
  PROVE  Cardinality(S) \in 0..n /\ S = 1..Cardinality(S)
<1>1. IsFiniteSet(1..n) /\ Cardinality(1..n) = n
  BY FS_Interval
<1>2. IsFiniteSet(S) /\ Cardinality(S) <= n
  BY <1>1, FS_Subset
<1>3. Cardinality(S) \in Nat
  BY <1>2, FS_CardinalityType
<1>4. PICK t \in Nat : t = Cardinality(S)
  BY <1>3
<1>5. ASSUME NEW i \in S PROVE i \in 1..t
  <2>1. 1..i \subseteq S
    OBVIOUS
  <2>2. Cardinality(1..i) = i
    BY FS_Interval
  <2>3. Cardinality(1..i) <= Cardinality(S)
    BY <1>2, <2>1, FS_Subset
  <2> QED BY <1>4, <2>2, <2>3
<1>6. IsFiniteSet(1..t) /\ Cardinality(1..t) = t
  BY <1>4, FS_Interval
<1>7. S = 1..t
  BY <1>4, <1>5, <1>6, FS_Subset
<1> QED BY <1>2, <1>4, <1>7

\* Induction over a set.
LEMMA SetInduction ==
  ASSUME NEW S, 0 \in S, \A n \in Nat : n \in S => n + 1 \in S
  PROVE  \A n \in Nat : n \in S
<1> SUFFICES ASSUME NEW n \in Nat, n \notin S PROVE FALSE
  OBVIOUS
<1> DEFINE T == {k \in 1..n + 1 : \A i \in 0..k - 1 : i \in S}
<1>1. T \in SUBSET (1..n + 1)
  OBVIOUS
<1>2. ASSUME NEW k \in T, NEW j \in 1..n + 1, j < k PROVE j \in T
  BY <1>2
<1>3. 1 \in T
  OBVIOUS
<1>4. n + 1 \notin T
  OBVIOUS
<1>5. ASSUME NEW k \in T, k <= n PROVE k + 1 \in T
  <2>1. k - 1 \in Nat /\ k - 1 \in S
    BY <1>5
  <2>2. k \in S
    BY <1>5, <2>1
  <2>3. \A i \in 0..(k + 1) - 1 : i \in 0..k - 1 \/ i = k
    BY <1>5
  <2> QED BY <1>5, <2>2, <2>3
<1> HIDE DEF T
<1>6. Cardinality(T) \in 0..n + 1 /\ T = 1..Cardinality(T)
  <2>1. PICK N \in Nat : N = n + 1
    OBVIOUS
  <2>2. T \in SUBSET (1..N) /\ \A i \in T : \A j \in 1..N : j < i => j \in T
    BY <1>1, <1>2, <2>1
  <2>3. Cardinality(T) \in 0..N /\ T = 1..Cardinality(T)
    BY <2>2, Initial
  <2> QED BY <2>1, <2>3
<1>7. PICK t \in 0..n + 1 : T = 1..t
  BY <1>6
<1> QED BY <1>3, <1>4, <1>5, <1>7

\* A function over the first N numbers that is defined by recursion.
Computes(g, N, base, step) ==
  g[0] = base /\ \A n \in 1..N : g[n] = step[<<n, g[n - 1]>>]

\* There is one.
LEMMA Recursion ==
  ASSUME NEW V, NEW base \in V, NEW step \in [Nat \X V -> V], NEW N \in Nat
  PROVE  \E g \in [0..N -> V] : Computes(g, N, base, step)
<1> DEFINE Good(n, g) == /\ g[0] = base
                         /\ \A i \in 1..n : g[i] = step[<<i, g[i - 1]>>]
           S == {n \in Nat : \E g \in [0..n -> V] : Good(n, g)}
<1>1. 0 \in S
  <2>1. [i \in 0..0 |-> base] \in [0..0 -> V] /\ Good(0, [i \in 0..0 |-> base])
    OBVIOUS
  <2> QED BY <2>1
<1>2. ASSUME NEW n \in Nat, n \in S PROVE n + 1 \in S
  <2>1. PICK g \in [0..n -> V] : Good(n, g)
    BY <1>2
  <2> DEFINE h == [i \in 0..n + 1 |-> IF i <= n THEN g[i] ELSE step[<<n + 1, g[n]>>]]
  <2>2. step[<<n + 1, g[n]>>] \in V
    OBVIOUS
  <2>3. h \in [0..n + 1 -> V]
    BY <2>2
  <2>4. h[0] = base
    BY <2>1
  <2>5. ASSUME NEW i \in 1..n + 1 PROVE h[i] = step[<<i, h[i - 1]>>]
    <3>1. CASE i <= n
      <4>1. h[i] = g[i] /\ h[i - 1] = g[i - 1] /\ i \in 1..n
        BY <3>1
      <4> QED BY <2>1, <4>1
    <3>2. CASE i = n + 1
      <4>1. h[i] = step[<<n + 1, g[n]>>] /\ h[i - 1] = g[n]
        BY <3>2
      <4> QED BY <3>2, <4>1
    <3> QED BY <3>1, <3>2
  <2> HIDE DEF h
  <2>6. Good(n + 1, h)
    BY <2>4, <2>5
  <2> QED BY <2>3, <2>6
<1> HIDE DEF S
<1>3. N \in S
  BY <1>1, <1>2, SetInduction
<1> QED BY <1>3 DEF S, Computes

-----------------------------------------------------------------------------
(* What the recursive functions compute *)

\* Sequences are put together one after the other.
LEMMA FlattenSteps ==
  ASSUME NEW T, NEW seqs \in Seq(Seq(T))
  PROVE  \E g \in [0..Len(seqs) -> Seq(T)] :
           /\ g[0] = <<>>
           /\ \A n \in 1..Len(seqs) : g[n] = g[n - 1] \o seqs[n]
           /\ FlattenSeq(seqs) = g[Len(seqs)]
<1>1. PICK N \in Nat : N = Len(seqs)
  BY LenProperties
<1>2. <<>> \in Seq(T)
  BY EmptySeq
<1>3. CASE N = 0
  <2>1. seqs = <<>> /\ FlattenSeq(seqs) = seqs
    BY <1>1, <1>3, EmptySeq DEF FlattenSeq
  <2>2. PICK g : g = [i \in 0..0 |-> <<>>]
    OBVIOUS
  <2>3. g \in [0..0 -> Seq(T)] /\ g[0] = <<>>
    BY <1>2, <2>2
  <2>4. g \in [0..Len(seqs) -> Seq(T)] /\ g[Len(seqs)] = <<>> /\ 1..Len(seqs) = {}
    BY <1>1, <1>3, <2>3
  <2> QED BY <2>1, <2>3, <2>4
<1>4. CASE N # 0
  <2> DEFINE step == [p \in Nat \X Seq(T) |->
                        p[2] \o (IF p[1] \in 1..N THEN seqs[p[1]] ELSE <<>>)]
  <2>1. step \in [Nat \X Seq(T) -> Seq(T)]
    <3> SUFFICES ASSUME NEW n \in Nat, NEW v \in Seq(T)
                 PROVE  v \o (IF n \in 1..N THEN seqs[n] ELSE <<>>) \in Seq(T)
      OBVIOUS
    <3>1. (IF n \in 1..N THEN seqs[n] ELSE <<>>) \in Seq(T)
      BY <1>1, <1>2, ElementOfSeq
    <3> QED BY <3>1, ConcatProperties
  <2>2. ASSUME NEW n \in 1..N, NEW v \in Seq(T) PROVE step[<<n, v>>] = v \o seqs[n]
    <3>1. <<n, v>> \in Nat \X Seq(T)
      OBVIOUS
    <3>2. step[<<n, v>>] = v \o (IF n \in 1..N THEN seqs[n] ELSE <<>>)
      BY <3>1, Zenon
    <3> QED BY <3>2, Zenon
  <2> HIDE DEF step
  <2>3. PICK g \in [0..N -> Seq(T)] : /\ g[0] = <<>>
                                      /\ \A n \in 1..N : g[n] = step[<<n, g[n - 1]>>]
    <3>1. PICK V : V = Seq(T)
      OBVIOUS
    <3>2. <<>> \in V /\ step \in [Nat \X V -> V]
      BY <1>2, <2>1, <3>1
    <3>3. PICK base : base = <<>>
      OBVIOUS
    <3>4. base \in V
      BY <3>2, <3>3
    <3>5. \E g \in [0..N -> V] : Computes(g, N, base, step)
      BY <3>2, <3>4, Recursion
    <3> QED BY <3>1, <3>3, <3>5, Zenon DEF Computes
  <2>4. ASSUME NEW n \in 1..N PROVE g[n] = g[n - 1] \o seqs[n]
    <3>1. g[n - 1] \in Seq(T)
      OBVIOUS
    <3> QED BY <2>2, <2>3, <3>1, Zenon
  <2>5. g[1] = seqs[1]
    <3>1. seqs[1] \in Seq(T)
      BY <1>1, <1>4, ElementOfSeq
    <3>2. 1 \in 1..N /\ 1 - 1 = 0
      BY <1>4
    <3>3. g[1] = <<>> \o seqs[1]
      BY <2>3, <2>4, <3>2, Zenon
    <3> QED BY <3>1, <3>3, ConcatEmptySeq
  <2> DEFINE flatten[i \in 1..N] == IF i = 1 THEN seqs[i] ELSE flatten[i - 1] \o seqs[i]
             Step(f) == [i \in 1..N |-> IF i = 1 THEN seqs[i] ELSE f[i - 1] \o seqs[i]]
             h == [i \in 1..N |-> g[i]]
  <2>6. h = Step(h)
    <3>1. ASSUME NEW i \in 1..N, i # 1 PROVE h[i] = h[i - 1] \o seqs[i]
      <4>1. i - 1 \in 1..N
        BY <3>1
      <4>2. h[i] = g[i] /\ h[i - 1] = g[i - 1]
        BY <4>1, Zenon
      <4> QED BY <2>4, <4>2, Zenon
    <3>2. ASSUME NEW i \in 1..N, i = 1 PROVE h[i] = seqs[i]
      BY <2>5, <3>2, Zenon
    <3>3. h = [i \in 1..N |-> h[i]]
      OBVIOUS
    <3> HIDE DEF h
    <3>4. \A i \in 1..N : h[i] = IF i = 1 THEN seqs[i] ELSE h[i - 1] \o seqs[i]
      BY <3>1, <3>2, Zenon
    <3> QED BY <3>3, <3>4, Zenon
  <2>7. flatten = Step(flatten)
    <3>1. flatten = CHOOSE f : f = Step(f)
      OBVIOUS
    <3> HIDE DEF flatten, Step, h
    <3> QED BY <2>6, <3>1
  <2>8. \A n \in 1..N : flatten[n] = IF n = 1 THEN seqs[n] ELSE flatten[n - 1] \o seqs[n]
    <3> HIDE DEF flatten
    <3> QED BY <2>7, Zenon
  <2>9. FlattenSeq(seqs) = flatten[N]
    BY <1>1, <1>4 DEF FlattenSeq
  <2> HIDE DEF flatten
  <2>10. flatten[N] = g[N]
    <3> DEFINE S == {n \in Nat : n \in 1..N => flatten[n] = g[n]}
    <3>1. 0 \in S
      OBVIOUS
    <3>2. ASSUME NEW n \in Nat, n \in S PROVE n + 1 \in S
      <4> SUFFICES ASSUME n + 1 \in 1..N PROVE flatten[n + 1] = g[n + 1]
        OBVIOUS
      <4>1. CASE n = 0
        <5>1. n + 1 = 1
          BY <4>1
        <5> QED BY <2>5, <2>8, <5>1, Zenon
      <4>2. CASE n # 0
        <5>1. n + 1 # 1 /\ (n + 1) - 1 = n /\ n \in 1..N
          BY <4>2
        <5>2. flatten[n] = g[n]
          BY <3>2, <5>1
        <5>3. flatten[n + 1] = flatten[(n + 1) - 1] \o seqs[n + 1]
          BY <2>8, <5>1, Zenon
        <5>4. g[n + 1] = g[(n + 1) - 1] \o seqs[n + 1]
          BY <2>4
        <5> QED BY <5>1, <5>2, <5>3, <5>4, Zenon
      <4> QED BY <4>1, <4>2
    <3> HIDE DEF S
    <3>3. N \in S
      BY <3>1, <3>2, SetInduction
    <3> QED BY <1>4, <3>3 DEF S
  <2>11. /\ \A n \in 1..N : g[n] = g[n - 1] \o seqs[n]
         /\ FlattenSeq(seqs) = g[N]
    BY <2>4, <2>9, <2>10
  <2> QED BY <1>1, <2>3, <2>11, Zenon
<1> QED BY <1>3, <1>4

TextsOver(Char) == Seq(Seq(Char)) \ {<<>>}

\* What split_string makes of one more character.
GoOn(texts, char) ==
  IF char = Slash THEN Append(texts, <<>>)
  ELSE Append(Front(texts), Append(Last(texts), char))

\* All texts but the last, and the last.
LEMMA FrontLast ==
  ASSUME NEW T, NEW s \in Seq(T), s # <<>>
  PROVE  /\ Front(s) \in Seq(T)
         /\ Len(Front(s)) = Len(s) - 1
         /\ \A i \in 1..Len(s) - 1 : Front(s)[i] = s[i]
         /\ Last(s) \in T
         /\ Last(s) = s[Len(s)]
<1>1. Len(s) \in Nat \ {0}
  BY EmptySeq
<1>2. \A i \in 1..Len(s) - 1 : s[i] \in T
  BY <1>1, ElementOfSeq
<1>3. Last(s) = s[Len(s)] /\ s[Len(s)] \in T
  BY <1>1, ElementOfSeq DEF Last
<1>4. PICK k \in Nat : k = Len(s) - 1
  BY <1>1
<1>5. /\ SubSeq(s, 1, k) \in Seq(T)
      /\ Len(SubSeq(s, 1, k)) = IF 1 <= k THEN k - 1 + 1 ELSE 0
      /\ \A i \in 1..k - 1 + 1 : SubSeq(s, 1, k)[i] = s[1 + i - 1]
  BY <1>2, <1>4, SubSeqProperties
<1>6. Front(s) = SubSeq(s, 1, k)
  BY <1>4 DEF Front
<1>7. Len(Front(s)) = k /\ \A i \in 1..k : Front(s)[i] = s[i]
  BY <1>5, <1>6
<1> QED BY <1>3, <1>4, <1>5, <1>6, <1>7

\* What is before the last of two sequences is the first, and of the other what is
\* before the last.
LEMMA FrontBehind ==
  ASSUME NEW T, NEW s \in Seq(T), NEW t \in Seq(T), t # <<>>
  PROVE  Front(s \o t) = s \o Front(t)
<1>1. PICK a \in Nat, b \in Nat : a = Len(s) /\ b = Len(t) - 1
  BY EmptySeq, LenProperties
<1>2. PICK st : st = s \o t
  OBVIOUS
<1>3. PICK f : f = Front(t)
  OBVIOUS
<1>4. f \in Seq(T)
  BY <1>3, FrontLast
<1>5. PICK sf : sf = s \o f
  OBVIOUS
<1>6. /\ st \in Seq(T) /\ Len(st) = a + b + 1
      /\ \A i \in 1..a : st[i] = s[i]
      /\ \A i \in 1..b + 1 : st[a + i] = t[i]
  <2>1. /\ st \in Seq(T)
        /\ Len(st) = Len(s) + Len(t)
        /\ \A i \in 1..Len(s) : st[i] = s[i]
        /\ \A i \in 1..Len(t) : st[Len(s) + i] = t[i]
    BY <1>2, ConcatHalves
  <2> QED BY <1>1, <2>1
<1>7. Len(f) = b /\ \A i \in 1..b : f[i] = t[i]
  BY <1>1, <1>3, FrontLast
<1>8. /\ sf \in Seq(T) /\ Len(sf) = a + b
      /\ \A i \in 1..a : sf[i] = s[i]
      /\ \A i \in 1..b : sf[a + i] = f[i]
  <2>1. /\ sf \in Seq(T)
        /\ Len(sf) = Len(s) + Len(f)
        /\ \A i \in 1..Len(s) : sf[i] = s[i]
        /\ \A i \in 1..Len(f) : sf[Len(s) + i] = f[i]
    BY <1>4, <1>5, ConcatHalves
  <2> QED BY <1>1, <1>7, <2>1
<1>9. PICK fst : fst = Front(st)
  OBVIOUS
<1>10. /\ fst \in Seq(T) /\ Len(fst) = a + b
       /\ \A i \in 1..a + b : fst[i] = st[i]
  <2>1. st \in Seq(T) /\ st # <<>>
    BY <1>6, EmptySeq
  <2>2. /\ fst \in Seq(T) /\ Len(fst) = Len(st) - 1
        /\ \A i \in 1..Len(st) - 1 : fst[i] = st[i]
    BY <1>9, <2>1, FrontLast
  <2> QED BY <1>6, <2>2
<1>11. ASSUME NEW i \in 1..a + b PROVE fst[i] = sf[i]
  <2>1. CASE i <= a
    BY <1>6, <1>8, <1>10, <2>1
  <2>2. CASE ~(i <= a)
    <3>1. PICK k : k = i - a
      OBVIOUS
    <3>2. k \in 1..b /\ k \in 1..b + 1 /\ a + k = i
      BY <2>2, <3>1
    <3>3. st[i] = t[k] /\ sf[i] = f[k] /\ f[k] = t[k]
      BY <1>6, <1>7, <1>8, <3>2, Zenon
    <3> QED BY <1>10, <3>3
  <2> QED BY <2>1, <2>2
<1>12. fst = sf
  BY <1>8, <1>10, <1>11, SeqEqual
<1> QED BY <1>2, <1>3, <1>5, <1>9, <1>12

\* One more character makes texts of texts.
LEMMA GoOnType ==
  ASSUME NEW Char, Slash \in Char, NEW texts \in TextsOver(Char), NEW char \in Char
  PROVE  GoOn(texts, char) \in TextsOver(Char)
<1>1. texts \in Seq(Seq(Char)) /\ texts # <<>> /\ <<>> \in Seq(Char)
  BY EmptySeq DEF TextsOver
<1>2. Front(texts) \in Seq(Seq(Char)) /\ Last(texts) \in Seq(Char)
  BY <1>1, FrontLast
<1>3. Append(Last(texts), char) \in Seq(Char)
  BY <1>2, AppendProperties
<1>4. \A s \in Seq(Seq(Char)), e \in Seq(Char) : Append(s, e) \in TextsOver(Char)
  BY AppendProperties DEF TextsOver
<1>5. Append(texts, <<>>) \in TextsOver(Char)
  BY <1>1, <1>4
<1>6. Append(Front(texts), Append(Last(texts), char)) \in TextsOver(Char)
  BY <1>2, <1>3, <1>4
<1> QED BY <1>5, <1>6 DEF GoOn

\* The texts before the last are not touched any more.
GoesOnBehind(Char) ==
  \A s \in Seq(Seq(Char)), t \in TextsOver(Char), char \in Char :
    GoOn(s \o t, char) = s \o GoOn(t, char)
LEMMA GoOnBehind ==
  ASSUME NEW Char, Slash \in Char
  PROVE  GoesOnBehind(Char)
<1> SUFFICES ASSUME NEW s \in Seq(Seq(Char)), NEW t \in TextsOver(Char), NEW char \in Char
             PROVE  GoOn(s \o t, char) = s \o GoOn(t, char)
  BY DEF GoesOnBehind
<1>1. t \in Seq(Seq(Char)) /\ t # <<>> /\ <<>> \in Seq(Char) /\ Len(t) \in Nat \ {0}
  BY EmptySeq DEF TextsOver
<1>2. Len(s) \in Nat
  BY LenProperties
<1>3. PICK st : st = s \o t
  OBVIOUS
<1>4. /\ st \in Seq(Seq(Char)) /\ Len(st) = Len(s) + Len(t)
      /\ \A i \in 1..Len(s) : st[i] = s[i]
      /\ \A i \in 1..Len(t) : st[Len(s) + i] = t[i]
  BY <1>1, <1>3, ConcatHalves
<1>5. st # <<>>
  BY <1>1, <1>2, <1>4, EmptySeq
<1>6. ASSUME NEW a \in Seq(Seq(Char)), NEW e \in Seq(Char)
      PROVE  Append(s \o a, e) = s \o Append(a, e)
  <2>1. Append(a, e) = a \o <<e>> /\ s \o a \in Seq(Seq(Char))
    BY AppendIsConcat, ConcatProperties
  <2>2. Append(s \o a, e) = (s \o a) \o <<e>>
    BY <2>1, AppendIsConcat
  <2>3. <<e>> \in Seq(Seq(Char))
    OBVIOUS
  <2>4. (s \o a) \o <<e>> = s \o (a \o <<e>>)
    BY <2>3, ConcatAssociative
  <2> QED BY <2>1, <2>2, <2>4
<1>7. Last(st) = Last(t) /\ Last(t) \in Seq(Char) /\ Front(t) \in Seq(Seq(Char))
  <2>1. Last(st) = st[Len(st)] /\ Last(t) = t[Len(t)]
    BY <1>1, <1>4, <1>5, FrontLast
  <2>2. st[Len(st)] = t[Len(t)]
    BY <1>1, <1>2, <1>4
  <2> QED BY <1>1, <2>1, <2>2, FrontLast
<1>8. Front(st) = s \o Front(t)
  BY <1>1, <1>3, FrontBehind
<1>9. CASE char = Slash
  BY <1>1, <1>6, <1>9 DEF GoOn
<1>10. CASE char # Slash
  <2>1. PICK e : e = Append(Last(t), char)
    OBVIOUS
  <2>2. e \in Seq(Char)
    BY <1>7, <2>1, AppendProperties
  <2>3. GoOn(st, char) = Append(s \o Front(t), e)
    BY <1>7, <1>8, <1>10, <2>1, Zenon DEF GoOn
  <2>4. GoOn(t, char) = Append(Front(t), e)
    BY <1>10, <2>1, Zenon DEF GoOn
  <2>5. Append(s \o Front(t), e) = s \o Append(Front(t), e)
    BY <1>6, <1>7, <2>2
  <2> QED BY <1>3, <2>3, <2>4, <2>5, Zenon
<1> QED BY <1>9, <1>10

\* The texts of a text, character by character.
LEMMA TokensSteps ==
  ASSUME NEW Char, Slash \in Char, NEW text \in Seq(Char)
  PROVE  \E u \in [0..Len(text) -> TextsOver(Char)] :
           /\ u[0] = << <<>> >>
           /\ \A n \in 1..Len(text) : u[n] = GoOn(u[n - 1], text[n])
           /\ Tokens(text) = u[Len(text)]
<1>1. PICK N \in Nat : N = Len(text)
  BY LenProperties
<1>2. PICK base \in TextsOver(Char) : base = << <<>> >>
  <2>1. <<>> \in Seq(Char)
    BY EmptySeq
  <2>2. << <<>> >> \in Seq(Seq(Char)) /\ << <<>> >> # <<>>
    BY <2>1
  <2> QED BY <2>2 DEF TextsOver
<1> DEFINE step == [p \in Nat \X TextsOver(Char) |->
                      IF p[1] \in 1..N THEN GoOn(p[2], text[p[1]]) ELSE p[2]]
<1>3. step \in [Nat \X TextsOver(Char) -> TextsOver(Char)]
  <2> SUFFICES ASSUME NEW n \in Nat, NEW v \in TextsOver(Char)
               PROVE  (IF n \in 1..N THEN GoOn(v, text[n]) ELSE v) \in TextsOver(Char)
    OBVIOUS
  <2>1. n \in 1..N => text[n] \in Char
    BY <1>1, ElementOfSeq
  <2> QED BY <2>1, GoOnType
<1>4. ASSUME NEW n \in 1..N, NEW v \in TextsOver(Char) PROVE step[<<n, v>>] = GoOn(v, text[n])
  <2>1. <<n, v>> \in Nat \X TextsOver(Char)
    OBVIOUS
  <2>2. step[<<n, v>>] = IF n \in 1..N THEN GoOn(v, text[n]) ELSE v
    BY <2>1, Zenon
  <2> QED BY <2>2, Zenon
<1> HIDE DEF step
<1>5. PICK g \in [0..N -> TextsOver(Char)] : Computes(g, N, base, step)
  BY <1>3, Recursion
<1>6. g[0] = base
  BY <1>5 DEF Computes
<1>7. ASSUME NEW n \in 1..N PROVE g[n] = GoOn(g[n - 1], text[n])
  <2>1. g[n - 1] \in TextsOver(Char)
    OBVIOUS
  <2>2. g[n] = step[<<n, g[n - 1]>>]
    BY <1>5 DEF Computes
  <2> QED BY <1>4, <2>1, <2>2, Zenon
<1> DEFINE upTo[n \in 0..N] ==
             IF n = 0 THEN << <<>> >>
             ELSE IF text[n] = Slash THEN Append(upTo[n - 1], <<>>)
             ELSE Append(Front(upTo[n - 1]), Append(Last(upTo[n - 1]), text[n]))
           Step(f) == [n \in 0..N |->
                         IF n = 0 THEN << <<>> >>
                         ELSE IF text[n] = Slash THEN Append(f[n - 1], <<>>)
                         ELSE Append(Front(f[n - 1]), Append(Last(f[n - 1]), text[n]))]
<1>8. Tokens(text) = upTo[N]
  BY <1>1 DEF Tokens
<1>9. g = Step(g)
  <2>1. \A n \in 0..N : g[n] = IF n = 0 THEN << <<>> >>
                               ELSE IF text[n] = Slash THEN Append(g[n - 1], <<>>)
                               ELSE Append(Front(g[n - 1]), Append(Last(g[n - 1]), text[n]))
    <3> SUFFICES ASSUME NEW n \in 0..N
                 PROVE  g[n] = IF n = 0 THEN << <<>> >>
                               ELSE IF text[n] = Slash THEN Append(g[n - 1], <<>>)
                               ELSE Append(Front(g[n - 1]), Append(Last(g[n - 1]), text[n]))
      OBVIOUS
    <3>1. CASE n = 0
      BY <1>2, <1>6, <3>1
    <3>2. CASE n # 0
      <4>1. n \in 1..N
        BY <3>2
      <4> QED BY <1>7, <3>2, <4>1, Zenon DEF GoOn
    <3> QED BY <3>1, <3>2
  <2>2. g = [n \in 0..N |-> g[n]]
    OBVIOUS
  <2> QED BY <2>1, <2>2, Zenon
<1>10. upTo = Step(upTo)
  <2>1. upTo = CHOOSE f : f = Step(f)
    OBVIOUS
  <2> HIDE DEF upTo, Step
  <2> QED BY <1>9, <2>1
<1>11. upTo[0] = base
  <2> HIDE DEF upTo
  <2>1. 0 \in 0..N
    OBVIOUS
  <2> QED BY <1>2, <1>10, <2>1, Zenon
<1>12. ASSUME NEW n \in 1..N PROVE upTo[n] = GoOn(upTo[n - 1], text[n])
  <2> HIDE DEF upTo
  <2>1. n \in 0..N /\ n # 0
    OBVIOUS
  <2> QED BY <1>10, <2>1, Zenon DEF GoOn
<1> HIDE DEF upTo, Step
<1>13. upTo[N] = g[N]
  <2> DEFINE S == {n \in Nat : n <= N => upTo[n] = g[n]}
  <2>1. 0 \in S
    BY <1>6, <1>11
  <2>2. ASSUME NEW n \in Nat, n \in S PROVE n + 1 \in S
    <3> SUFFICES ASSUME n + 1 <= N PROVE upTo[n + 1] = g[n + 1]
      OBVIOUS
    <3>1. n + 1 \in 1..N /\ (n + 1) - 1 = n /\ n <= N
      OBVIOUS
    <3>2. upTo[n] = g[n]
      BY <2>2, <3>1
    <3>3. upTo[n + 1] = GoOn(upTo[n], text[n + 1]) /\ g[n + 1] = GoOn(g[n], text[n + 1])
      BY <1>7, <1>12, <3>1
    <3> QED BY <3>2, <3>3, Zenon
  <2> HIDE DEF S
  <2>3. N \in S
    BY <2>1, <2>2, SetInduction
  <2> QED BY <2>3 DEF S
<1>14. /\ g[0] = << <<>> >>
       /\ \A n \in 1..N : g[n] = GoOn(g[n - 1], text[n])
       /\ Tokens(text) = g[N]
  BY <1>2, <1>6, <1>7, <1>8, <1>13
<1> QED BY <1>1, <1>14, Zenon

\* They are texts, and there is one at least.
LEMMA TokensType ==
  ASSUME NEW Char, Slash \in Char, NEW text \in Seq(Char)
  PROVE  Tokens(text) \in TextsOver(Char)
<1>1. PICK u \in [0..Len(text) -> TextsOver(Char)] : Tokens(text) = u[Len(text)]
  BY TokensSteps
<1>2. Len(text) \in Nat
  BY LenProperties
<1> QED BY <1>1, <1>2

\* A delimiter in a text divides its texts into those before it and those behind.
LEMMA TokensSplit ==
  ASSUME NEW Char, Slash \in Char, NEW a \in Seq(Char), NEW b \in Seq(Char)
  PROVE  /\ a \o <<Slash>> \o b \in Seq(Char)
         /\ Tokens(a \o <<Slash>> \o b) = Tokens(a) \o Tokens(b)
<1>1. PICK la \in Nat, lb \in Nat : la = Len(a) /\ lb = Len(b)
  BY LenProperties
<1>2. <<Slash>> \in Seq(Char) /\ Len(<<Slash>>) = 1 /\ <<Slash>>[1] = Slash
  OBVIOUS
<1>3. PICK c : c = a \o <<Slash>>
  OBVIOUS
<1>4. /\ c \in Seq(Char)
      /\ Len(c) = la + 1
      /\ \A i \in 1..la : c[i] = a[i]
      /\ c[la + 1] = Slash
  <2>1. /\ c \in Seq(Char)
        /\ Len(c) = Len(a) + Len(<<Slash>>)
        /\ \A i \in 1..Len(a) : c[i] = a[i]
        /\ \A i \in 1..Len(<<Slash>>) : c[Len(a) + i] = <<Slash>>[i]
    BY <1>2, <1>3, ConcatHalves
  <2>2. 1 \in 1..Len(<<Slash>>)
    BY <1>2
  <2> QED BY <1>1, <1>2, <2>1, <2>2
<1>5. PICK text : text = c \o b
  OBVIOUS
<1>6. /\ text \in Seq(Char)
      /\ Len(text) = la + 1 + lb
      /\ \A i \in 1..la + 1 : text[i] = c[i]
      /\ \A i \in 1..lb : text[la + 1 + i] = b[i]
  <2>1. c \in Seq(Char)
    BY <1>4
  <2>2. /\ text \in Seq(Char)
        /\ Len(text) = Len(c) + Len(b)
        /\ \A i \in 1..Len(c) : text[i] = c[i]
        /\ \A i \in 1..Len(b) : text[Len(c) + i] = b[i]
    BY <1>5, <2>1, ConcatHalves
  <2> QED BY <1>1, <1>4, <2>2
<1>7. /\ \A i \in 1..la : text[i] = a[i]
      /\ text[la + 1] = Slash
  BY <1>4, <1>6
<1>8. PICK ua \in [0..la -> TextsOver(Char)] :
        /\ ua[0] = << <<>> >>
        /\ \A n \in 1..la : ua[n] = GoOn(ua[n - 1], a[n])
        /\ Tokens(a) = ua[la]
  BY <1>1, TokensSteps
<1>9. PICK ub \in [0..lb -> TextsOver(Char)] :
        /\ ub[0] = << <<>> >>
        /\ \A n \in 1..lb : ub[n] = GoOn(ub[n - 1], b[n])
        /\ Tokens(b) = ub[lb]
  BY <1>1, TokensSteps
<1>10. PICK u \in [0..la + 1 + lb -> TextsOver(Char)] :
         /\ u[0] = << <<>> >>
         /\ \A n \in 1..la + 1 + lb : u[n] = GoOn(u[n - 1], text[n])
         /\ Tokens(text) = u[la + 1 + lb]
  <2>1. PICK N \in Nat : N = la + 1 + lb
    OBVIOUS
  <2>2. text \in Seq(Char) /\ Len(text) = N
    BY <1>6, <2>1
  <2>3. \E u \in [0..N -> TextsOver(Char)] :
          /\ u[0] = << <<>> >>
          /\ \A n \in 1..N : u[n] = GoOn(u[n - 1], text[n])
          /\ Tokens(text) = u[N]
    BY <2>2, TokensSteps
  <2> QED BY <2>1, <2>3
<1>11. u[la] = ua[la]
  <2> DEFINE S == {n \in Nat : n <= la => u[n] = ua[n]}
  <2>1. 0 \in S
    BY <1>8, <1>10
  <2>2. ASSUME NEW n \in Nat, n \in S PROVE n + 1 \in S
    <3> SUFFICES ASSUME n + 1 <= la PROVE u[n + 1] = ua[n + 1]
      OBVIOUS
    <3>1. /\ n + 1 \in 1..la /\ n + 1 \in 1..la + 1 + lb
          /\ (n + 1) - 1 = n /\ n <= la
      OBVIOUS
    <3>2. u[n] = ua[n]
      BY <2>2, <3>1
    <3>3. u[n + 1] = GoOn(u[n], text[n + 1])
      BY <1>10, <3>1
    <3>4. ua[n + 1] = GoOn(ua[n], a[n + 1])
      BY <1>8, <3>1
    <3>5. text[n + 1] = a[n + 1]
      BY <1>7, <3>1
    <3> QED BY <3>2, <3>3, <3>4, <3>5, Zenon
  <2> HIDE DEF S
  <2>3. la \in S
    BY <2>1, <2>2, SetInduction
  <2> QED BY <2>3 DEF S
<1>12. PICK first : first = Tokens(a)
  OBVIOUS
<1>13. first \in TextsOver(Char) /\ first \in Seq(Seq(Char)) /\ <<>> \in Seq(Char)
  BY <1>12, TokensType, EmptySeq DEF TextsOver
<1>14. u[la + 1] = first \o ub[0]
  <2>1. la + 1 \in 1..la + 1 + lb /\ (la + 1) - 1 = la
    OBVIOUS
  <2>2. u[la + 1] = GoOn(u[la], text[la + 1])
    BY <1>10, <2>1
  <2>3. u[la + 1] = Append(first, <<>>)
    BY <1>7, <1>8, <1>11, <1>12, <2>2, Zenon DEF GoOn
  <2>4. PICK e \in Seq(Char) : e = <<>>
    BY <1>13
  <2>5. Append(first, e) = first \o <<e>>
    BY <1>13, AppendIsConcat
  <2> QED BY <1>9, <2>3, <2>4, <2>5, Zenon
<1>15. u[la + 1 + lb] = first \o ub[lb]
  <2> DEFINE S == {n \in Nat : n <= lb => u[la + 1 + n] = first \o ub[n]}
  <2>1. 0 \in S
    <3>1. la + 1 + 0 = la + 1
      OBVIOUS
    <3>2. u[la + 1 + 0] = first \o ub[0]
      BY <1>14, <3>1, Zenon
    <3> QED BY <3>2, Zenon
  <2>2. ASSUME NEW n \in Nat, n \in S PROVE n + 1 \in S
    <3> SUFFICES ASSUME n + 1 <= lb PROVE u[la + 1 + (n + 1)] = first \o ub[n + 1]
      OBVIOUS
    <3>1. /\ n + 1 \in 1..lb /\ la + 1 + (n + 1) \in 1..la + 1 + lb /\ n \in 0..lb
          /\ (n + 1) - 1 = n /\ n <= lb /\ (la + 1 + (n + 1)) - 1 = la + 1 + n
      OBVIOUS
    <3>2. u[la + 1 + n] = first \o ub[n]
      BY <2>2, <3>1
    <3>3. u[la + 1 + (n + 1)] = GoOn(u[la + 1 + n], text[la + 1 + (n + 1)])
      BY <1>10, <3>1
    <3>4. ub[n + 1] = GoOn(ub[n], b[n + 1])
      BY <1>9, <3>1
    <3>5. text[la + 1 + (n + 1)] = b[n + 1] /\ b[n + 1] \in Char
      BY <1>1, <1>6, <3>1, ElementOfSeq
    <3>6. ub[n] \in TextsOver(Char)
      BY <3>1
    <3>7. GoOn(first \o ub[n], b[n + 1]) = first \o GoOn(ub[n], b[n + 1])
      <4>1. GoesOnBehind(Char)
        BY GoOnBehind
      <4> QED BY <1>13, <3>5, <3>6, <4>1, Zenon DEF GoesOnBehind
    <3> QED BY <3>2, <3>3, <3>4, <3>5, <3>7, Zenon
  <2> HIDE DEF S
  <2>3. lb \in S
    BY <2>1, <2>2, SetInduction
  <2> QED BY <2>3 DEF S
<1>16. Tokens(text) = Tokens(a) \o Tokens(b)
  BY <1>9, <1>10, <1>12, <1>15, Zenon
<1> QED BY <1>3, <1>5, <1>6, <1>16

-----------------------------------------------------------------------------
(* Joining and splitting *)

\* What is joined, each text with the delimiter and what follows that in memory,
\* before a character is popped.
Unpopped(vec, tail) == FlattenSeq([i \in 1..Len(vec) |-> vec[i] \o <<Slash>> \o tail])

\* A text arrives behind what followed the delimiter before it.
Piece(vec, tail, i) == IF i = 1 THEN vec[i] ELSE tail \o vec[i]

\* Texts one behind the other.
Associative(Char) == \A s, t, u \in Seq(Char) : s \o (t \o u) = (s \o t) \o u
LEMMA AssociativeTexts ==
  ASSUME NEW Char
  PROVE  Associative(Char)
BY ConcatAssociative DEF Associative

\* A text behind a text is a text.
LEMMA ConcatTexts ==
  ASSUME NEW Char, NEW s \in Seq(Char), NEW t \in Seq(Char)
  PROVE  s \o t \in Seq(Char)
BY ConcatProperties

\* One more text, behind those that have been joined.
JoinsOne(Char) ==
  \A a, tail, word \in Seq(Char) : \E b \in Seq(Char) :
    /\ (a \o <<Slash>> \o tail) \o (word \o <<Slash>> \o tail) = b \o <<Slash>> \o tail
    /\ Tokens(b) = Tokens(a) \o Tokens(tail \o word)
LEMMA JoinOne ==
  ASSUME NEW Char, Slash \in Char
  PROVE  JoinsOne(Char)
<1> SUFFICES ASSUME NEW a \in Seq(Char), NEW tail \in Seq(Char), NEW word \in Seq(Char)
             PROVE  \E b \in Seq(Char) :
                      /\ (a \o <<Slash>> \o tail) \o (word \o <<Slash>> \o tail)
                           = b \o <<Slash>> \o tail
                      /\ Tokens(b) = Tokens(a) \o Tokens(tail \o word)
  BY DEF JoinsOne
<1>1. PICK d : d = <<Slash>>
  OBVIOUS
<1>2. d \in Seq(Char)
  BY <1>1
<1> DEFINE ad == a \o d
           wd == word \o d
           at == ad \o tail
           tw == tail \o word
<1>11. \A s, t, u \in Seq(Char) : s \o (t \o u) = (s \o t) \o u
  <2>1. Associative(Char)
    BY AssociativeTexts
  <2> QED BY <2>1, Zenon DEF Associative
<1>3. ad \in Seq(Char) /\ wd \in Seq(Char) /\ tw \in Seq(Char)
  BY <1>2, ConcatTexts, Zenon
<1> HIDE DEF ad, wd, tw
<1>4. at \in Seq(Char)
  BY <1>3, ConcatTexts, Zenon
<1> HIDE DEF at
<1>5. tail \in Seq(Char)
  BY <1>2
<1>6. at \o (wd \o tail) = (at \o wd) \o tail
  <2>1. \A u \in Seq(Char) : at \o (wd \o u) = (at \o wd) \o u
    BY <1>3, <1>4, <1>11, Zenon
  <2> QED BY <1>5, <2>1, Zenon
<1>7. ad \o (tail \o wd) = (ad \o tail) \o wd
  <2>1. \A u \in Seq(Char) : ad \o (tail \o u) = (ad \o tail) \o u
    BY <1>3, <1>5, <1>11, Zenon
  <2>2. wd \in Seq(Char)
    BY <1>3
  <2> QED BY <2>1, <2>2, Zenon
<1>8. tail \o (word \o d) = (tail \o word) \o d
  BY <1>2, <1>11, Zenon
<1>9. ad \o (tw \o d) = (ad \o tw) \o d
  <2>1. \A u \in Seq(Char) : ad \o (tw \o u) = (ad \o tw) \o u
    BY <1>3, <1>11, Zenon
  <2> QED BY <1>2, <2>1, Zenon
<1>10. at \o (wd \o tail) = ((ad \o tw) \o d) \o tail
  BY <1>6, <1>7, <1>8, <1>9, Zenon DEF at, wd, tw
<1>12. a \o <<Slash>> \o tw \in Seq(Char) /\ Tokens(a \o <<Slash>> \o tw) = Tokens(a) \o Tokens(tw)
  BY <1>3, TokensSplit
<1>13. ((ad \o tw) \o d) \o tail = (a \o <<Slash>> \o tw) \o <<Slash>> \o tail
  BY <1>1, Zenon DEF ad
<1>14. at \o (wd \o tail) = (a \o <<Slash>> \o tail) \o (word \o <<Slash>> \o tail)
  BY <1>1, Zenon DEF at, ad, wd
<1> QED BY <1>10, <1>12, <1>13, <1>14, Zenon DEF tw

\* The texts that are joined end in a delimiter and what follows it, and before that
\* are the texts, one after the other.
LEMMA JoinedTexts ==
  ASSUME NEW Char, Slash \in Char, NEW vec \in Seq(Seq(Char)), vec # <<>>, NEW tail \in Seq(Char)
  PROVE  \E a \in Seq(Char) :
           /\ Unpopped(vec, tail) = a \o <<Slash>> \o tail
           /\ Tokens(a) = FlattenSeq([i \in 1..Len(vec) |-> Tokens(Piece(vec, tail, i))])
<1>1. PICK N \in Nat : N = Len(vec) /\ N # 0
  BY EmptySeq
<1>2. <<Slash>> \in Seq(Char) /\ <<>> \in Seq(Char)
  OBVIOUS
<1>3. \A i \in 1..N : vec[i] \in Seq(Char)
  BY <1>1, ElementOfSeq
<1>4. PICK words : words = [i \in 1..N |-> vec[i] \o <<Slash>> \o tail]
  OBVIOUS
<1>5. PICK texts : texts = [i \in 1..N |-> Tokens(Piece(vec, tail, i))]
  OBVIOUS
<1>6. words \in Seq(Seq(Char)) /\ Len(words) = N
  <2>1. ASSUME NEW i \in 1..N PROVE vec[i] \o <<Slash>> \o tail \in Seq(Char)
    <3>1. PICK b \in Seq(Char) : b = vec[i] \o <<Slash>>
      BY <1>2, <1>3, ConcatProperties
    <3>2. b \o tail \in Seq(Char)
      BY ConcatProperties
    <3> QED BY <3>1, <3>2
  <2>2. words \in [1..N -> Seq(Char)]
    BY <1>4, <2>1
  <2> QED BY <2>2
<1>7. \A i \in 1..N : Piece(vec, tail, i) \in Seq(Char)
  BY <1>3, ConcatProperties DEF Piece
<1>8. texts \in Seq(Seq(Seq(Char))) /\ Len(texts) = N
  <2>1. \A i \in 1..N : Tokens(Piece(vec, tail, i)) \in Seq(Seq(Char))
    BY <1>7, TokensType DEF TextsOver
  <2>2. texts \in [1..N -> Seq(Seq(Char))]
    BY <1>5, <2>1
  <2> QED BY <2>2
<1>9. PICK g \in [0..N -> Seq(Char)] :
        /\ g[0] = <<>>
        /\ \A n \in 1..N : g[n] = g[n - 1] \o words[n]
        /\ FlattenSeq(words) = g[N]
  BY <1>6, FlattenSteps
<1>10. PICK h \in [0..N -> Seq(Seq(Char))] :
         /\ h[0] = <<>>
         /\ \A n \in 1..N : h[n] = h[n - 1] \o texts[n]
         /\ FlattenSeq(texts) = h[N]
  <2>1. PICK T : T = Seq(Char)
    OBVIOUS
  <2>2. texts \in Seq(Seq(T))
    BY <1>8, <2>1
  <2>3. \E f \in [0..Len(texts) -> Seq(T)] :
          /\ f[0] = <<>>
          /\ \A n \in 1..Len(texts) : f[n] = f[n - 1] \o texts[n]
          /\ FlattenSeq(texts) = f[Len(texts)]
    BY <2>2, FlattenSteps
  <2> QED BY <1>8, <2>1, <2>3
<1> DEFINE Good(n) == \E a \in Seq(Char) : /\ g[n] = a \o <<Slash>> \o tail
                                           /\ Tokens(a) = h[n]
<1>12. Good(1)
  <2>1. 1 \in 1..N /\ 1 - 1 = 0
    BY <1>1
  <2>2. g[1] = <<>> \o words[1] /\ h[1] = <<>> \o texts[1]
    BY <1>9, <1>10, <2>1, Zenon
  <2>3. words[1] \in Seq(Char) /\ texts[1] \in Seq(Seq(Char))
    BY <1>6, <1>8, <2>1, ElementOfSeq
  <2>4. g[1] = words[1] /\ h[1] = texts[1]
    BY <2>2, <2>3, ConcatEmptySeq
  <2>5. words[1] = vec[1] \o <<Slash>> \o tail /\ texts[1] = Tokens(vec[1])
    BY <1>4, <1>5, <2>1 DEF Piece
  <2> QED BY <1>3, <2>1, <2>4, <2>5, Zenon
<1>13. ASSUME NEW n \in 1..N - 1, Good(n) PROVE Good(n + 1)
  <2>1. PICK a \in Seq(Char) : g[n] = a \o <<Slash>> \o tail /\ Tokens(a) = h[n]
    BY <1>13
  <2>2. n + 1 \in 1..N /\ (n + 1) - 1 = n /\ n + 1 # 1
    OBVIOUS
  <2>3. g[n + 1] = g[n] \o words[n + 1] /\ h[n + 1] = h[n] \o texts[n + 1]
    BY <1>9, <1>10, <2>2
  <2>4. PICK word \in Seq(Char) : word = vec[n + 1]
    BY <1>3, <2>2
  <2>5. words[n + 1] = word \o <<Slash>> \o tail
    BY <1>4, <2>2, <2>4
  <2>6. texts[n + 1] = Tokens(tail \o word)
    BY <1>5, <2>2, <2>4 DEF Piece
  <2>7. a \in Seq(Char) /\ tail \in Seq(Char)
    BY <2>1
  <2>8. PICK b \in Seq(Char) :
          /\ (a \o <<Slash>> \o tail) \o (word \o <<Slash>> \o tail) = b \o <<Slash>> \o tail
          /\ Tokens(b) = Tokens(a) \o Tokens(tail \o word)
    <3>1. JoinsOne(Char)
      BY JoinOne
    <3> QED BY <2>4, <2>7, <3>1, ZenonT(30) DEF JoinsOne
  <2>9. g[n + 1] = b \o <<Slash>> \o tail
    BY <2>1, <2>3, <2>5, <2>8, Zenon
  <2>10. h[n + 1] = Tokens(b)
    BY <2>1, <2>3, <2>6, <2>8, Zenon
  <2> QED BY <2>8, <2>9, <2>10
<1> HIDE DEF Good
<1> DEFINE S == {n \in Nat : n \in 1..N => Good(n)}
<1>11. 0 \in S
  OBVIOUS
<1>14. ASSUME NEW n \in Nat, n \in S PROVE n + 1 \in S
  <2> SUFFICES ASSUME n + 1 \in 1..N PROVE Good(n + 1)
    OBVIOUS
  <2>1. CASE n = 0
    BY <1>12, <2>1
  <2>2. CASE n # 0
    <3>1. n \in 1..N - 1 /\ n \in 1..N
      BY <2>2
    <3>2. Good(n)
      BY <1>14, <3>1
    <3> QED BY <1>13, <3>1, <3>2
  <2> QED BY <2>1, <2>2
<1> HIDE DEF S
<1>15. N \in S
  BY <1>11, <1>14, SetInduction
<1>16. Good(N)
  BY <1>1, <1>15 DEF S
<1>17. PICK a \in Seq(Char) : g[N] = a \o <<Slash>> \o tail /\ Tokens(a) = h[N]
  BY <1>16 DEF Good
<1> QED BY <1>1, <1>4, <1>5, <1>9, <1>10, <1>17, Zenon DEF Unpopped

\* No texts are joined to none.
LEMMA JoinNone == \A tail : JoinStrings(<<>>, tail) = <<>>
<1> SUFFICES ASSUME NEW tail PROVE JoinStrings(<<>>, tail) = <<>>
  OBVIOUS
<1>1. PICK none : none = [i \in 1..Len(<<>>) |-> (<<>>)[i] \o <<Slash>> \o tail]
  OBVIOUS
<1>2. none = <<>> /\ Len(none) = 0
  BY <1>1
<1>3. FlattenSeq(none) = <<>>
  BY <1>2 DEF FlattenSeq
<1> QED BY <1>1, <1>3, Zenon DEF JoinStrings

\* A text without a slash is one text.
LEMMA OneToken ==
  ASSUME NEW Char, Slash \in Char, NEW word \in Seq(Char), \A i \in 1..Len(word) : word[i] # Slash
  PROVE  Tokens(word) = <<word>>
<1>1. PICK N \in Nat : N = Len(word)
  BY LenProperties
<1>2. PICK u \in [0..N -> TextsOver(Char)] :
        /\ u[0] = << <<>> >>
        /\ \A n \in 1..N : u[n] = GoOn(u[n - 1], word[n])
        /\ Tokens(word) = u[N]
  BY <1>1, TokensSteps
<1>3. SubSeq(word, 1, 0) = <<>>
  BY SubSeqEmpty
<1>4. ASSUME NEW n \in 1..N, u[n - 1] = <<SubSeq(word, 1, n - 1)>>
      PROVE  u[n] = <<SubSeq(word, 1, n)>>
  <2>1. PICK s : s = SubSeq(word, 1, n - 1)
    OBVIOUS
  <2>2. s \in Seq(Char)
    <3>1. \A i \in 1..n - 1 : word[i] \in Char
      BY <1>1, ElementOfSeq
    <3> QED BY <2>1, <3>1, SubSeqProperties
  <2>3. word[n] \in Char /\ word[n] # Slash
    BY <1>1, ElementOfSeq
  <2>4. SubSeq(word, 1, n) = Append(s, word[n])
    <3>1. SubSeq(word, 1, n) = SubSeq(word, 1, n - 1) \o <<word[n]>>
      <4>1. 1 \in 1..Len(word) /\ n \in 1..Len(word)
        BY <1>1
      <4> QED BY <4>1, SubSeqRecursiveSecond
    <3>2. Append(s, word[n]) = s \o <<word[n]>>
      BY <2>2, <2>3, AppendIsConcat
    <3> QED BY <2>1, <3>1, <3>2, Zenon
  <2>5. u[n] = GoOn(<<s>>, word[n])
    BY <1>2, <1>4, <2>1
  <2>6. Front(<<s>>) = <<>> /\ Last(<<s>>) = s
    <3>1. SubSeq(<<s>>, 1, 0) = <<>>
      BY SubSeqEmpty
    <3> QED BY <3>1 DEF Front, Last
  <2>7. u[n] = Append(<<>>, Append(s, word[n]))
    BY <2>3, <2>5, <2>6, Zenon DEF GoOn
  <2>8. PICK e : e = Append(s, word[n])
    OBVIOUS
  <2>9. Append(<<>>, e) = <<e>>
    OBVIOUS
  <2> QED BY <2>4, <2>7, <2>8, <2>9, Zenon
<1> DEFINE S == {n \in Nat : n <= N => u[n] = <<SubSeq(word, 1, n)>>}
<1>5. 0 \in S
  BY <1>2, <1>3
<1>6. ASSUME NEW n \in Nat, n \in S PROVE n + 1 \in S
  <2> SUFFICES ASSUME n + 1 <= N PROVE u[n + 1] = <<SubSeq(word, 1, n + 1)>>
    OBVIOUS
  <2>1. n + 1 \in 1..N /\ (n + 1) - 1 = n /\ n <= N
    OBVIOUS
  <2>2. u[n] = <<SubSeq(word, 1, n)>>
    BY <1>6, <2>1
  <2> QED BY <1>4, <2>1, <2>2, Zenon
<1> HIDE DEF S
<1>7. N \in S
  BY <1>5, <1>6, SetInduction
<1>8. u[N] = <<SubSeq(word, 1, N)>>
  BY <1>7 DEF S
<1>9. SubSeq(word, 1, N) = word
  BY <1>1, SubSeqFull
<1>10. Tokens(word) = u[N]
  BY <1>2
<1> QED BY <1>8, <1>9, <1>10

-----------------------------------------------------------------------------
(* Texts, character by character *)

\* Induction over the texts: one character more at a time.
LEMMA TextInduction ==
  ASSUME NEW Char, NEW S, <<>> \in S,
         \A s \in Seq(Char) : \A char \in Char : s \in S => Append(s, char) \in S
  PROVE  \A s \in Seq(Char) : s \in S
<1> DEFINE T == {n \in Nat : \A s \in Seq(Char) : Len(s) = n => s \in S}
<1>1. 0 \in T
  BY EmptySeq
<1>2. ASSUME NEW n \in Nat, n \in T PROVE n + 1 \in T
  <2> SUFFICES ASSUME NEW s \in Seq(Char), Len(s) = n + 1 PROVE s \in S
    OBVIOUS
  <2>1. s # <<>> /\ n + 1 \in 1..Len(s)
    BY EmptySeq
  <2>2. PICK f \in Seq(Char) : f = Front(s)
    BY <2>1, FrontLast
  <2>3. Len(f) = n /\ \A i \in 1..n : f[i] = s[i]
    BY <2>1, <2>2, FrontLast
  <2>4. PICK x \in Char : x = s[n + 1]
    BY <2>1, ElementOfSeq
  <2>5. s = Append(f, x)
    <3>1. /\ Append(f, x) \in Seq(Char)
          /\ Len(Append(f, x)) = n + 1
          /\ \A i \in 1..n : Append(f, x)[i] = f[i]
          /\ Append(f, x)[n + 1] = x
      BY <2>3, AppendProperties
    <3>2. \A i \in 1..n + 1 : s[i] = Append(f, x)[i]
      BY <2>3, <2>4, <3>1
    <3> QED BY <3>1, <3>2, SeqEqual
  <2>6. f \in S
    BY <1>2, <2>3
  <2> QED BY <2>5, <2>6
<1> HIDE DEF T
<1>3. \A n \in Nat : n \in T
  BY <1>1, <1>2, SetInduction
<1>4. ASSUME NEW s \in Seq(Char) PROVE s \in S
  <2>1. Len(s) \in Nat
    BY LenProperties
  <2> QED BY <1>3, <2>1 DEF T
<1> QED BY <1>4

\* An empty text is one empty text.
LEMMA TokensOfNone == Tokens(<<>>) = << <<>> >>
<1>1. <<>> \in Seq({Slash}) /\ Len(<<>>) = 0
  BY EmptySeq
<1>2. PICK u \in [0..Len(<<>>) -> TextsOver({Slash})] :
        u[0] = << <<>> >> /\ Tokens(<<>>) = u[Len(<<>>)]
  BY <1>1, TokensSteps
<1> QED BY <1>1, <1>2

\* One more character goes on with the texts there are.
LEMMA TokensAppend ==
  ASSUME NEW Char, Slash \in Char, NEW s \in Seq(Char), NEW x \in Char
  PROVE  /\ Append(s, x) \in Seq(Char)
         /\ Tokens(Append(s, x)) = GoOn(Tokens(s), x)
<1>1. PICK n \in Nat : n = Len(s)
  BY LenProperties
<1>2. PICK t : t = Append(s, x)
  OBVIOUS
<1>3. /\ t \in Seq(Char) /\ Len(t) = n + 1
      /\ \A i \in 1..n : t[i] = s[i]
      /\ t[n + 1] = x
  BY <1>1, <1>2, AppendProperties
<1>4. PICK u \in [0..n -> TextsOver(Char)] :
        /\ u[0] = << <<>> >>
        /\ \A i \in 1..n : u[i] = GoOn(u[i - 1], s[i])
        /\ Tokens(s) = u[n]
  BY <1>1, TokensSteps
<1>5. PICK N \in Nat : N = n + 1
  OBVIOUS
<1>6. PICK v \in [0..N -> TextsOver(Char)] :
        /\ v[0] = << <<>> >>
        /\ \A i \in 1..N : v[i] = GoOn(v[i - 1], t[i])
        /\ Tokens(t) = v[N]
  <2>1. t \in Seq(Char) /\ Len(t) = N
    BY <1>3, <1>5
  <2> QED BY <2>1, TokensSteps
<1> DEFINE S == {i \in Nat : i <= n => v[i] = u[i]}
<1>7. 0 \in S
  BY <1>4, <1>6
<1>8. ASSUME NEW i \in Nat, i \in S PROVE i + 1 \in S
  <2> SUFFICES ASSUME i + 1 <= n PROVE v[i + 1] = u[i + 1]
    OBVIOUS
  <2>1. i + 1 \in 1..n /\ i + 1 \in 1..N /\ (i + 1) - 1 = i /\ i <= n
    BY <1>5
  <2>2. v[i] = u[i]
    BY <1>8, <2>1
  <2>3. v[i + 1] = GoOn(v[i], t[i + 1]) /\ u[i + 1] = GoOn(u[i], s[i + 1])
    BY <1>4, <1>6, <2>1
  <2>4. t[i + 1] = s[i + 1]
    BY <1>3, <2>1
  <2> QED BY <2>2, <2>3, <2>4, Zenon
<1> HIDE DEF S
<1>9. v[n] = u[n]
  <2>1. n \in S
    BY <1>7, <1>8, SetInduction
  <2> QED BY <2>1 DEF S
<1>10. v[N] = GoOn(v[n], x)
  <2>1. N \in 1..N /\ N - 1 = n
    BY <1>5
  <2>2. v[N] = GoOn(v[N - 1], t[N])
    BY <1>6, <2>1
  <2> QED BY <1>3, <1>5, <2>1, <2>2, Zenon
<1>11. Tokens(t) = GoOn(Tokens(s), x)
  BY <1>4, <1>6, <1>9, <1>10, Zenon
<1> QED BY <1>2, <1>3, <1>11

\* What one more character does to n texts, one by one.
Grown(texts, x, g, n) ==
  /\ x = Slash => /\ Len(g) = n + 1
                  /\ \A i \in 1..n : g[i] = texts[i]
                  /\ g[n + 1] = <<>>
  /\ x # Slash => /\ Len(g) = n
                  /\ \A i \in 1..n - 1 : g[i] = texts[i]
                  /\ g[n] = Append(texts[n], x)
LEMMA GoOnParts ==
  ASSUME NEW Char, Slash \in Char, NEW texts \in TextsOver(Char), NEW x \in Char
  PROVE  /\ Len(texts) \in Nat \ {0}
         /\ GoOn(texts, x) \in Seq(Seq(Char))
         /\ Grown(texts, x, GoOn(texts, x), Len(texts))
<1>1. texts \in Seq(Seq(Char)) /\ texts # <<>> /\ <<>> \in Seq(Char)
  BY EmptySeq DEF TextsOver
<1>2. PICK T : T = Seq(Char)
  OBVIOUS
<1>3. PICK n \in Nat \ {0} : n = Len(texts)
  BY <1>1, EmptySeq
<1>4. CASE x = Slash
  <2>1. GoOn(texts, x) = Append(texts, <<>>)
    BY <1>4 DEF GoOn
  <2>2. PICK e \in T : e = <<>>
    BY <1>1, <1>2
  <2>3. texts \in Seq(T)
    BY <1>1, <1>2
  <2>4. /\ Append(texts, e) \in Seq(T)
        /\ Len(Append(texts, e)) = n + 1
        /\ \A i \in 1..n : Append(texts, e)[i] = texts[i]
        /\ Append(texts, e)[n + 1] = e
    BY <1>3, <2>3, AppendProperties
  <2> QED BY <1>2, <1>3, <1>4, <2>1, <2>2, <2>4 DEF Grown
<1>5. CASE x # Slash
  <2>1. GoOn(texts, x) = Append(Front(texts), Append(Last(texts), x))
    BY <1>5 DEF GoOn
  <2>2. texts \in Seq(T)
    BY <1>1, <1>2
  <2>3. PICK f \in Seq(T) : f = Front(texts)
    BY <1>1, <2>2, FrontLast
  <2>4. Len(f) = n - 1 /\ \A i \in 1..n - 1 : f[i] = texts[i]
    BY <1>1, <1>3, <2>2, <2>3, FrontLast
  <2>5. Last(texts) = texts[n] /\ texts[n] \in T
    BY <1>1, <1>3, <2>2, FrontLast
  <2>6. PICK e : e = Append(texts[n], x)
    OBVIOUS
  <2>7. e \in T
    BY <1>2, <2>5, <2>6, AppendProperties
  <2>8. /\ Append(f, e) \in Seq(T)
        /\ Len(Append(f, e)) = (n - 1) + 1
        /\ \A i \in 1..n - 1 : Append(f, e)[i] = f[i]
        /\ Append(f, e)[(n - 1) + 1] = e
    BY <2>4, <2>7, AppendProperties
  <2>9. GoOn(texts, x) = Append(f, e)
    BY <2>1, <2>3, <2>5, <2>6, Zenon
  <2>10. (n - 1) + 1 = n
    OBVIOUS
  <2> QED BY <1>2, <1>3, <1>5, <2>4, <2>6, <2>8, <2>9, <2>10 DEF Grown
<1> QED BY <1>4, <1>5

\* No text has a delimiter in it.
LEMMA TokensApart ==
  ASSUME NEW Char, Slash \in Char, NEW text \in Seq(Char)
  PROVE  \A i \in 1..Len(Tokens(text)) :
           \A k \in 1..Len(Tokens(text)[i]) : Tokens(text)[i][k] # Slash
<1> DEFINE Apart(texts) == \A i \in 1..Len(texts) :
                             \A k \in 1..Len(texts[i]) : texts[i][k] # Slash
           S == {s \in Seq(Char) : Apart(Tokens(s))}
<1>1. <<>> \in S
  BY TokensOfNone, EmptySeq
<1>2. ASSUME NEW s \in Seq(Char), NEW x \in Char, s \in S PROVE Append(s, x) \in S
  <2>1. PICK t \in TextsOver(Char) : t = Tokens(s)
    BY TokensType
  <2>2. PICK g : g = GoOn(t, x)
    OBVIOUS
  <2>3. Append(s, x) \in Seq(Char) /\ Tokens(Append(s, x)) = g
    BY <2>1, <2>2, TokensAppend
  <2>4. Apart(t)
    BY <1>2, <2>1
  <2>5. PICK n \in Nat \ {0} : n = Len(t)
    BY GoOnParts
  <2>9. Grown(t, x, g, n)
    BY <2>2, <2>5, GoOnParts, Zenon
  <2>6. \A i \in 1..n : t[i] \in Seq(Char)
    BY <2>5, ElementOfSeq DEF TextsOver
  <2>7. CASE x = Slash
    <3>1. /\ Len(g) = n + 1
          /\ \A i \in 1..n : g[i] = t[i]
          /\ g[n + 1] = <<>>
      BY <2>7, <2>9 DEF Grown
    <3>2. ASSUME NEW i \in 1..n + 1, NEW k \in 1..Len(g[i]) PROVE g[i][k] # Slash
      <4>1. CASE i \in 1..n
        BY <2>4, <2>5, <3>1, <4>1
      <4>2. CASE i = n + 1
        BY <3>1, <4>2
      <4> QED BY <4>1, <4>2
    <3> QED BY <2>3, <3>1, <3>2
  <2>8. CASE x # Slash
    <3>1. /\ Len(g) = n
          /\ \A i \in 1..n - 1 : g[i] = t[i]
          /\ g[n] = Append(t[n], x)
      BY <2>8, <2>9 DEF Grown
    <3>2. ASSUME NEW i \in 1..n, NEW k \in 1..Len(g[i]) PROVE g[i][k] # Slash
      <4>1. CASE i \in 1..n - 1
        BY <2>4, <2>5, <3>1, <4>1
      <4>2. CASE i = n
        <5>1. PICK w \in Seq(Char) : w = t[n]
          BY <2>6
        <5>2. PICK m \in Nat : m = Len(w)
          BY LenProperties
        <5>3. /\ Len(Append(w, x)) = m + 1
              /\ \A j \in 1..m : Append(w, x)[j] = w[j]
              /\ Append(w, x)[m + 1] = x
          BY <5>2, AppendProperties
        <5>4. k \in 1..m + 1 /\ g[i] = Append(w, x)
          BY <3>1, <4>2, <5>1, <5>3
        <5>5. \A j \in 1..m : w[j] # Slash
          BY <2>4, <2>5, <5>1, <5>2
        <5> QED BY <2>8, <5>3, <5>4, <5>5
      <4> QED BY <4>1, <4>2
    <3> QED BY <2>3, <3>1, <3>2
  <2> QED BY <2>7, <2>8
<1> HIDE DEF S
<1>3. text \in S
  BY <1>1, <1>2, TextInduction
<1> QED BY <1>3 DEF S

\* The texts before a character, and the character, can be told from the texts behind it.
LEMMA GoOnInjective ==
  ASSUME NEW Char, Slash \in Char, NEW s \in TextsOver(Char), NEW t \in TextsOver(Char),
         NEW x \in Char, NEW y \in Char, GoOn(s, x) = GoOn(t, y)
  PROVE  s = t /\ x = y
<1>1. PICK g : g = GoOn(s, x) /\ g = GoOn(t, y)
  OBVIOUS
<1>2. PICK n \in Nat \ {0}, m \in Nat \ {0} : n = Len(s) /\ m = Len(t)
  BY GoOnParts
<1>3. /\ s \in Seq(Seq(Char)) /\ t \in Seq(Seq(Char))
      /\ \A i \in 1..n : s[i] \in Seq(Char)
      /\ \A i \in 1..m : t[i] \in Seq(Char)
  BY <1>2, ElementOfSeq DEF TextsOver
<1>4. /\ x = Slash => /\ Len(g) = n + 1
                      /\ \A i \in 1..n : g[i] = s[i]
                      /\ g[n + 1] = <<>>
      /\ x # Slash => /\ Len(g) = n
                      /\ \A i \in 1..n - 1 : g[i] = s[i]
                      /\ g[n] = Append(s[n], x)
  <2>1. Grown(s, x, g, n)
    BY <1>1, <1>2, GoOnParts, Zenon
  <2> QED BY <2>1 DEF Grown
<1>5. /\ y = Slash => /\ Len(g) = m + 1
                      /\ \A i \in 1..m : g[i] = t[i]
                      /\ g[m + 1] = <<>>
      /\ y # Slash => /\ Len(g) = m
                      /\ \A i \in 1..m - 1 : g[i] = t[i]
                      /\ g[m] = Append(t[m], y)
  <2>1. Grown(t, y, g, m)
    BY <1>1, <1>2, GoOnParts, Zenon
  <2> QED BY <2>1 DEF Grown
<1>6. \A w \in Seq(Char), z \in Char : Append(w, z) # <<>>
  BY AppendProperties
<1>7. CASE x = Slash /\ y = Slash
  <2>1. n = m /\ \A i \in 1..n : s[i] = t[i]
    BY <1>4, <1>5, <1>7
  <2>2. s = t
    BY <1>2, <1>3, <2>1, SeqEqual
  <2> QED BY <1>7, <2>2
<1>8. CASE x = Slash /\ y # Slash
  <2>1. m = n + 1 /\ g[m] = <<>> /\ g[m] = Append(t[m], y)
    BY <1>4, <1>5, <1>8
  <2>2. t[m] \in Seq(Char)
    BY <1>3
  <2> QED BY <1>6, <2>1, <2>2
<1>9. CASE x # Slash /\ y = Slash
  <2>1. n = m + 1 /\ g[n] = <<>> /\ g[n] = Append(s[n], x)
    BY <1>4, <1>5, <1>9
  <2>2. s[n] \in Seq(Char)
    BY <1>3
  <2> QED BY <1>6, <2>1, <2>2
<1>10. CASE x # Slash /\ y # Slash
  <2>1. /\ n = m
        /\ \A i \in 1..n - 1 : s[i] = t[i]
        /\ Append(s[n], x) = Append(t[n], y)
    BY <1>4, <1>5, <1>10
  <2>2. s[n] \in Seq(Char) /\ t[n] \in Seq(Char)
    BY <1>3, <2>1
  <2>3. s[n] = t[n] /\ x = y
    <3>1. PICK v \in Seq(Char), w \in Seq(Char) : v = s[n] /\ w = t[n]
      BY <2>2
    <3>2. Append(v, x) = Append(w, y) <=> v = w /\ x = y
      BY AppendInjective
    <3> QED BY <2>1, <3>1, <3>2, Zenon
  <2>4. \A i \in 1..n : s[i] = t[i]
    BY <2>1, <2>3
  <2>5. s = t
    BY <1>2, <1>3, <2>1, <2>4, SeqEqual
  <2> QED BY <2>3, <2>5
<1> QED BY <1>7, <1>8, <1>9, <1>10

\* Different texts are split into different texts: what was split is known from what came
\* out.
LEMMA TokensInjective ==
  ASSUME NEW Char, Slash \in Char, NEW a \in Seq(Char), NEW b \in Seq(Char),
         Tokens(a) = Tokens(b)
  PROVE  a = b
<1>1. ASSUME NEW s \in Seq(Char), NEW x \in Char PROVE Tokens(Append(s, x)) # << <<>> >>
  <2>1. PICK t \in TextsOver(Char) : t = Tokens(s)
    BY TokensType
  <2>2. PICK g : g = GoOn(t, x)
    OBVIOUS
  <2>3. Tokens(Append(s, x)) = g
    BY <2>1, <2>2, TokensAppend
  <2>4. PICK n \in Nat \ {0} : n = Len(t)
    BY GoOnParts
  <2>7. Grown(t, x, g, n)
    BY <2>2, <2>4, GoOnParts, Zenon
  <2>5. CASE x = Slash
    <3>1. Len(g) = n + 1
      BY <2>5, <2>7 DEF Grown
    <3>2. Len(g) # 1
      BY <3>1
    <3> QED BY <2>3, <3>2
  <2>6. CASE x # Slash
    <3>1. Len(g) = n /\ g[n] = Append(t[n], x)
      BY <2>6, <2>7 DEF Grown
    <3>2. t[n] \in Seq(Char)
      BY <2>4, ElementOfSeq DEF TextsOver
    <3>3. Append(t[n], x) # <<>>
      <4>1. PICK w \in Seq(Char) : w = t[n]
        BY <3>2
      <4>2. Append(w, x) # <<>>
        BY AppendProperties
      <4> QED BY <4>1, <4>2
    <3>4. g[n] # <<>>
      BY <3>1, <3>3, Zenon
    <3>5. g = << <<>> >> => n = 1 /\ g[1] = <<>>
      BY <3>1
    <3> QED BY <2>3, <3>4, <3>5, Zenon
  <2> QED BY <2>5, <2>6
<1> DEFINE S == {s \in Seq(Char) : \A t \in Seq(Char) : Tokens(s) = Tokens(t) => s = t}
<1>2. <<>> \in S
  <2> SUFFICES ASSUME NEW t \in Seq(Char), Tokens(<<>>) = Tokens(t), t # <<>> PROVE FALSE
    BY EmptySeq
  <2>1. PICK f \in Seq(Char), x \in Char : t = Append(f, x)
    BY SequenceEmptyOrAppend
  <2> QED BY <1>1, <2>1, TokensOfNone
<1>3. ASSUME NEW s \in Seq(Char), NEW x \in Char, s \in S PROVE Append(s, x) \in S
  <2>1. Append(s, x) \in Seq(Char)
    BY TokensAppend
  <2> SUFFICES ASSUME NEW t \in Seq(Char), Tokens(Append(s, x)) = Tokens(t)
               PROVE  Append(s, x) = t
    BY <2>1
  <2>2. t # <<>>
    BY <1>1, TokensOfNone
  <2>3. PICK f \in Seq(Char), y \in Char : t = Append(f, y)
    BY <2>2, SequenceEmptyOrAppend
  <2>4. PICK p \in TextsOver(Char), q \in TextsOver(Char) : p = Tokens(s) /\ q = Tokens(f)
    BY TokensType
  <2>5. GoOn(p, x) = GoOn(q, y)
    BY <2>3, <2>4, TokensAppend
  <2>6. p = q /\ x = y
    BY <2>5, GoOnInjective
  <2>7. s = f
    BY <1>3, <2>4, <2>6
  <2> QED BY <2>3, <2>6, <2>7
<1> HIDE DEF S
<1>4. a \in S
  BY <1>2, <1>3, TextInduction
<1> QED BY <1>4 DEF S

-----------------------------------------------------------------------------
(* Where a character is in a text *)

Occurs(x, text) == \E k \in 1..Len(text) : text[k] = x
Once(x, text) == \A k, l \in 1..Len(text) : text[k] = x /\ text[l] = x => k = l

\* In a text with one more character,
LEMMA AppendOccurs ==
  ASSUME NEW Char, NEW s \in Seq(Char), NEW y \in Char, NEW x
  PROVE  /\ Occurs(x, Append(s, y)) <=> Occurs(x, s) \/ y = x
         /\ Once(x, Append(s, y)) => Once(x, s) /\ (y = x => ~Occurs(x, s))
<1>1. PICK n \in Nat : n = Len(s)
  BY LenProperties
<1>2. PICK t : t = Append(s, y)
  OBVIOUS
<1>3. /\ Len(t) = n + 1
      /\ \A i \in 1..n : t[i] = s[i]
      /\ t[n + 1] = y
  BY <1>1, <1>2, AppendProperties
<1>4. \A i \in 1..n + 1 : i \in 1..n \/ i = n + 1
  OBVIOUS
<1>5. n + 1 \in 1..n + 1 /\ \A i \in 1..n : i \in 1..n + 1 /\ i # n + 1
  OBVIOUS
<1> QED BY <1>1, <1>2, <1>3, <1>4, <1>5 DEF Occurs, Once

\* in one text behind another,
LEMMA ConcatOccurs ==
  ASSUME NEW Char, NEW s \in Seq(Char), NEW t \in Seq(Char), NEW x
  PROVE  /\ Occurs(x, s \o t) => Occurs(x, s) \/ Occurs(x, t)
         /\ Once(x, s) /\ Once(x, t) /\ ~(Occurs(x, s) /\ Occurs(x, t)) => Once(x, s \o t)
<1>1. PICK m \in Nat, n \in Nat : m = Len(s) /\ n = Len(t)
  BY LenProperties
<1>2. PICK u : u = s \o t
  OBVIOUS
<1>3. /\ Len(u) = m + n
      /\ \A i \in 1..m : u[i] = s[i]
      /\ \A i \in 1..n : u[m + i] = t[i]
  <2>1. /\ Len(u) = Len(s) + Len(t)
        /\ \A i \in 1..Len(s) : u[i] = s[i]
        /\ \A i \in 1..Len(t) : u[Len(s) + i] = t[i]
    BY <1>2, ConcatHalves
  <2> QED BY <1>1, <2>1
<1>4. \A i \in 1..m + n : i \in 1..m \/ \E j \in 1..n : i = m + j
  <2> SUFFICES ASSUME NEW i \in 1..m + n, ~(i \in 1..m) PROVE \E j \in 1..n : i = m + j
    OBVIOUS
  <2>1. i - m \in 1..n /\ i = m + (i - m)
    OBVIOUS
  <2> QED BY <2>1
<1> HIDE DEF Occurs, Once
<1>5. Occurs(x, u) => Occurs(x, s) \/ Occurs(x, t)
  BY <1>1, <1>3, <1>4 DEF Occurs
<1>6. ASSUME Once(x, s), Once(x, t), ~(Occurs(x, s) /\ Occurs(x, t)) PROVE Once(x, u)
  <2> SUFFICES ASSUME NEW k \in 1..m + n, NEW l \in 1..m + n, u[k] = x, u[l] = x
               PROVE  k = l
    BY <1>3 DEF Once
  <2>1. CASE k \in 1..m /\ l \in 1..m
    BY <1>1, <1>3, <1>6, <2>1 DEF Once
  <2>2. ASSUME NEW i \in 1..n, NEW j \in 1..n, k = m + i, l = m + j PROVE k = l
    <3>1. t[i] = x /\ t[j] = x
      BY <1>3, <2>2
    <3> QED BY <1>1, <1>6, <2>2, <3>1 DEF Once
  <2>3. ASSUME NEW i \in 1..m, NEW j \in 1..n, u[i] = x, u[m + j] = x PROVE FALSE
    BY <1>1, <1>3, <1>6, <2>3 DEF Occurs
  <2> QED BY <1>4, <2>1, <2>2, <2>3
<1> QED BY <1>2, <1>5, <1>6

\* in a text without its last character,
LEMMA FrontOccurs ==
  ASSUME NEW Char, NEW s \in Seq(Char), s # <<>>, NEW x
  PROVE  /\ Occurs(x, Front(s)) => Occurs(x, s)
         /\ Once(x, s) => Once(x, Front(s))
<1>1. PICK n \in Nat : n = Len(s)
  BY LenProperties
<1>2. PICK f : f = Front(s)
  OBVIOUS
<1>3. Len(f) = n - 1 /\ \A i \in 1..n - 1 : f[i] = s[i]
  BY <1>1, <1>2, FrontLast
<1>4. \A i \in 1..n - 1 : i \in 1..n
  OBVIOUS
<1> QED BY <1>1, <1>2, <1>3, <1>4 DEF Occurs, Once

\* and in many texts put together: if it is in one of them at most, and there once.
OnceInAll(x, texts) ==
  /\ \A i \in 1..Len(texts) : Once(x, texts[i])
  /\ \A i, j \in 1..Len(texts) : Occurs(x, texts[i]) /\ Occurs(x, texts[j]) => i = j
LEMMA FlattenOccurs ==
  ASSUME NEW Char, NEW texts \in Seq(Seq(Char)), NEW x
  PROVE  /\ Occurs(x, FlattenSeq(texts)) => \E i \in 1..Len(texts) : Occurs(x, texts[i])
         /\ OnceInAll(x, texts) => Once(x, FlattenSeq(texts))
<1>1. PICK N \in Nat : N = Len(texts)
  BY LenProperties
<1>2. PICK g \in [0..N -> Seq(Char)] :
        /\ g[0] = <<>>
        /\ \A n \in 1..N : g[n] = g[n - 1] \o texts[n]
        /\ FlattenSeq(texts) = g[N]
  BY <1>1, FlattenSteps
<1>3. \A i \in 1..N : texts[i] \in Seq(Char)
  BY <1>1, ElementOfSeq
<1> DEFINE Good(n) == /\ Occurs(x, g[n]) => \E i \in 1..n : Occurs(x, texts[i])
                      /\ OnceInAll(x, texts) => Once(x, g[n])
           S == {n \in Nat : n <= N => Good(n)}
<1>4. 0 \in S
  <2>1. 1..Len(g[0]) = {}
    BY <1>2
  <2>2. ~Occurs(x, g[0]) /\ Once(x, g[0])
    BY <2>1 DEF Occurs, Once
  <2> QED BY <2>2
<1>5. ASSUME NEW n \in Nat, n \in S PROVE n + 1 \in S
  <2> SUFFICES ASSUME n + 1 <= N PROVE Good(n + 1)
    OBVIOUS
  <2>1. n + 1 \in 1..N /\ (n + 1) - 1 = n /\ n <= N /\ n \in 0..N
    OBVIOUS
  <2>2. Good(n)
    BY <1>5, <2>1
  <2>3. PICK a \in Seq(Char), b \in Seq(Char) : a = g[n] /\ b = texts[n + 1]
    BY <1>3, <2>1
  <2>4. g[n + 1] = a \o b
    BY <1>2, <2>1, <2>3
  <2>5. /\ Occurs(x, a \o b) => Occurs(x, a) \/ Occurs(x, b)
        /\ Once(x, a) /\ Once(x, b) /\ ~(Occurs(x, a) /\ Occurs(x, b)) => Once(x, a \o b)
    BY ConcatOccurs
  <2>6. Occurs(x, a) => \E i \in 1..n : Occurs(x, texts[i])
    BY <2>2, <2>3
  <2>7. \A i \in 1..n : i \in 1..n + 1 /\ i \in 1..N /\ i # n + 1
    BY <2>1
  <2>8. Occurs(x, a \o b) => \E i \in 1..n + 1 : Occurs(x, texts[i])
    BY <2>1, <2>3, <2>5, <2>6, <2>7
  <2>9. ASSUME OnceInAll(x, texts) PROVE Once(x, a \o b)
    <3>1. Once(x, a)
      BY <2>2, <2>3, <2>9
    <3>2. Once(x, b)
      BY <1>1, <2>1, <2>3, <2>9 DEF OnceInAll
    <3>3. ~(Occurs(x, a) /\ Occurs(x, b))
      BY <1>1, <2>1, <2>3, <2>6, <2>7, <2>9 DEF OnceInAll
    <3> QED BY <2>5, <3>1, <3>2, <3>3
  <2> QED BY <2>4, <2>8, <2>9
<1> HIDE DEF S
<1>6. N \in S
  BY <1>4, <1>5, SetInduction
<1> QED BY <1>1, <1>2, <1>6 DEF S

\* What split_string finds is in the text, and no character that is in the text once is
\* in two of the texts it finds.
Kept(x, text, texts) ==
  /\ \A i \in 1..Len(texts) : Occurs(x, texts[i]) => Occurs(x, text)
  /\ Once(x, text) =>
       \A i, j \in 1..Len(texts) : Occurs(x, texts[i]) /\ Occurs(x, texts[j]) => i = j
LEMMA TokensOccur ==
  ASSUME NEW Char, Slash \in Char, NEW x, x # Slash, NEW text \in Seq(Char)
  PROVE  Kept(x, text, Tokens(text))
<1> DEFINE S == {s \in Seq(Char) : Kept(x, s, Tokens(s))}
<1>1. <<>> \in S
  <2>1. PICK t : t = << <<>> >>
    OBVIOUS
  <2>2. Len(t) = 1 /\ t[1] = <<>> /\ 1..Len(<<>>) = {}
    BY <2>1
  <2>3. ~Occurs(x, t[1])
    BY <2>2 DEF Occurs
  <2>4. Kept(x, <<>>, t)
    BY <2>2, <2>3 DEF Kept
  <2> QED BY <2>1, <2>4, TokensOfNone, EmptySeq
<1>2. ASSUME NEW s \in Seq(Char), NEW y \in Char, s \in S PROVE Append(s, y) \in S
  <2>1. PICK t \in TextsOver(Char) : t = Tokens(s)
    BY TokensType
  <2>2. PICK g : g = GoOn(t, y)
    OBVIOUS
  <2>3. Append(s, y) \in Seq(Char) /\ Tokens(Append(s, y)) = g
    BY <2>1, <2>2, TokensAppend
  <2>4. Kept(x, s, t)
    BY <1>2, <2>1
  <2>5. PICK n \in Nat \ {0} : n = Len(t)
    BY GoOnParts
  <2>11. Grown(t, y, g, n)
    BY <2>2, <2>5, GoOnParts, Zenon
  <2>6. \A i \in 1..n : t[i] \in Seq(Char)
    BY <2>5, ElementOfSeq DEF TextsOver
  <2>7. PICK r : r = Append(s, y)
    OBVIOUS
  <2>8. /\ Occurs(x, r) <=> Occurs(x, s) \/ y = x
        /\ Once(x, r) => Once(x, s) /\ (y = x => ~Occurs(x, s))
    BY <2>7, AppendOccurs
  <2>9. CASE y = Slash
    <3>1. /\ Len(g) = n + 1
          /\ \A i \in 1..n : g[i] = t[i]
          /\ g[n + 1] = <<>>
      BY <2>9, <2>11 DEF Grown
    <3>2. ~Occurs(x, g[n + 1])
      <4>1. 1..Len(g[n + 1]) = {}
        BY <3>1
      <4> QED BY <4>1 DEF Occurs
    <3>3. \A i \in 1..n + 1 : Occurs(x, g[i]) => i \in 1..n /\ Occurs(x, t[i])
      <4>1. \A i \in 1..n + 1 : i \in 1..n \/ i = n + 1
        OBVIOUS
      <4> QED BY <3>1, <3>2, <4>1
    <3>4. Kept(x, r, g)
      BY <2>4, <2>5, <2>8, <3>1, <3>3 DEF Kept
    <3> QED BY <2>3, <2>7, <3>4
  <2>10. CASE y # Slash
    <3>1. /\ Len(g) = n
          /\ \A i \in 1..n - 1 : g[i] = t[i]
          /\ g[n] = Append(t[n], y)
      BY <2>10, <2>11 DEF Grown
    <3>2. Occurs(x, g[n]) <=> Occurs(x, t[n]) \/ y = x
      <4>1. PICK w \in Seq(Char) : w = t[n]
        BY <2>6
      <4>2. Occurs(x, Append(w, y)) <=> Occurs(x, w) \/ y = x
        BY AppendOccurs
      <4> QED BY <3>1, <4>1, <4>2
    <3>3. \A i \in 1..n : Occurs(x, g[i]) => Occurs(x, t[i]) \/ (y = x /\ i = n)
      <4>1. \A i \in 1..n : i \in 1..n - 1 \/ i = n
        OBVIOUS
      <4> QED BY <3>1, <3>2, <4>1
    <3>4. \A i \in 1..n : Occurs(x, t[i]) => Occurs(x, s)
      BY <2>4, <2>5 DEF Kept
    <3>5. ASSUME Once(x, r), NEW i \in 1..n, NEW j \in 1..n, Occurs(x, g[i]), Occurs(x, g[j])
          PROVE  i = j
      <4>1. CASE y = x
        BY <2>8, <3>3, <3>4, <3>5, <4>1
      <4>2. CASE y # x
        BY <2>4, <2>5, <2>8, <3>3, <3>5, <4>2 DEF Kept
      <4> QED BY <4>1, <4>2
    <3>6. Kept(x, r, g)
      BY <2>8, <3>1, <3>3, <3>4, <3>5 DEF Kept
    <3> QED BY <2>3, <2>7, <3>6
  <2> QED BY <2>9, <2>10
<1> HIDE DEF S
<1>3. text \in S
  BY <1>1, <1>2, TextInduction
<1> QED BY <1>3 DEF S

-----------------------------------------------------------------------------
(* What comes out of a payload of several texts *)

\* What is popped is the delimiter, if nothing follows it in memory, and else the last
\* character of that.
Popped(Char, a, tail, vec) ==
  /\ JoinStrings(vec, tail) = IF tail = <<>> THEN a ELSE Append(a, Slash) \o Front(tail)
  /\ JoinStrings(vec, tail) \in Seq(Char)
  /\ Len(Unpopped(vec, tail)) = Len(JoinStrings(vec, tail)) + 1
LEMMA JoinedFront ==
  ASSUME NEW Char, Slash \in Char, NEW a \in Seq(Char), NEW tail \in Seq(Char),
         NEW vec, Unpopped(vec, tail) = a \o <<Slash>> \o tail
  PROVE  Popped(Char, a, tail, vec)
<1>1. PICK d : d = <<Slash>>
  OBVIOUS
<1>2. d \in Seq(Char) /\ d # <<>> /\ Len(d) = 1
  BY <1>1
<1>3. PICK c : c = a \o d
  OBVIOUS
<1>4. c \in Seq(Char)
  BY <1>2, <1>3, ConcatTexts
<1>5. Front(c) = a
  <2>1. Front(d) = <<>>
    <3>1. SubSeq(d, 1, 0) = <<>>
      BY SubSeqEmpty
    <3> QED BY <1>2, <3>1 DEF Front
  <2>2. Front(c) = a \o Front(d)
    BY <1>2, <1>3, FrontBehind
  <2> QED BY <2>1, <2>2, ConcatEmptySeq
<1>6. PICK whole : whole = c \o tail
  OBVIOUS
<1>7. whole \in Seq(Char) /\ Unpopped(vec, tail) = whole
  <2>1. whole \in Seq(Char)
    BY <1>4, <1>6, ConcatTexts
  <2> QED BY <1>1, <1>3, <1>6, <2>1, Zenon
<1>8. whole # <<>>
  <2>1. c # <<>>
    BY <1>2, <1>3, ConcatEqualIffEmpty
  <2> QED BY <1>4, <1>6, <2>1, ConcatEqualIffEmpty
<1>9. JoinStrings(vec, tail) = Front(whole)
  BY <1>7, <1>8, Zenon DEF JoinStrings, Unpopped
<1>10. Front(whole) \in Seq(Char) /\ Len(whole) = Len(Front(whole)) + 1
  <2>1. Len(whole) \in Nat
    BY <1>7, LenProperties
  <2>2. Front(whole) \in Seq(Char) /\ Len(Front(whole)) = Len(whole) - 1
    BY <1>7, <1>8, FrontLast
  <2> QED BY <2>1, <2>2
<1>11. Append(a, Slash) = c
  BY <1>1, <1>3, AppendIsConcat
<1>12. CASE tail = <<>>
  <2>1. whole = c
    BY <1>4, <1>6, <1>12, ConcatEmptySeq
  <2> QED BY <1>5, <1>7, <1>9, <1>10, <1>12, <2>1 DEF Popped
<1>13. CASE tail # <<>>
  <2>1. Front(whole) = c \o Front(tail)
    BY <1>4, <1>6, <1>13, FrontBehind
  <2> QED BY <1>7, <1>9, <1>10, <1>11, <1>13, <2>1 DEF Popped
<1> QED BY <1>12, <1>13

\* Texts without slashes that are joined with a zero behind the delimiter are what they are
\* split into.
Slashless(vec) == \A i \in 1..Len(vec) : \A k \in 1..Len(vec[i]) : vec[i][k] # Slash
LEMMA SlashlessTexts ==
  ASSUME NEW Char, NEW vec \in Seq(Seq(Char)), Slashless(vec), Slash \in Char
  PROVE  FlattenSeq([i \in 1..Len(vec) |-> Tokens(Piece(vec, <<>>, i))]) = vec
<1>1. PICK N \in Nat : N = Len(vec)
  BY LenProperties
<1>2. \A i \in 1..N : vec[i] \in Seq(Char)
  BY <1>1, ElementOfSeq
<1>4. PICK texts : texts = [i \in 1..N |-> Tokens(Piece(vec, <<>>, i))]
  OBVIOUS
<1>5. ASSUME NEW i \in 1..N PROVE texts[i] = <<vec[i]>>
  <2>1. PICK w \in Seq(Char) : w = vec[i]
    BY <1>2
  <2>2. \A k \in 1..Len(w) : w[k] # Slash
    BY <1>1, <2>1 DEF Slashless
  <2>3. Tokens(w) = <<w>>
    BY <2>2, OneToken
  <2>4. <<>> \o w = w
    BY ConcatEmptySeq
  <2>5. Piece(vec, <<>>, i) = w
    BY <2>1, <2>4, Zenon DEF Piece
  <2> QED BY <1>4, <2>1, <2>3, <2>5
<1>6. texts \in Seq(Seq(Seq(Char))) /\ Len(texts) = N
  <2>1. texts = [i \in 1..N |-> <<vec[i]>>]
    BY <1>4, <1>5
  <2>2. \A i \in 1..N : <<vec[i]>> \in Seq(Seq(Char))
    BY <1>2
  <2>3. texts \in [1..N -> Seq(Seq(Char))]
    BY <2>1, <2>2
  <2> QED BY <2>3
<1>7. PICK h \in [0..N -> Seq(Seq(Char))] :
        /\ h[0] = <<>>
        /\ \A n \in 1..N : h[n] = h[n - 1] \o texts[n]
        /\ FlattenSeq(texts) = h[N]
  <2>1. PICK T : T = Seq(Char)
    OBVIOUS
  <2>2. texts \in Seq(Seq(T))
    BY <1>6, <2>1
  <2>3. \E f \in [0..Len(texts) -> Seq(T)] :
          /\ f[0] = <<>>
          /\ \A n \in 1..Len(texts) : f[n] = f[n - 1] \o texts[n]
          /\ FlattenSeq(texts) = f[Len(texts)]
    BY <2>2, FlattenSteps
  <2> QED BY <1>6, <2>1, <2>3
<1> DEFINE S == {n \in Nat : n <= N => h[n] = SubSeq(vec, 1, n)}
<1>8. 0 \in S
  BY <1>7, SubSeqEmpty
<1>9. ASSUME NEW n \in Nat, n \in S PROVE n + 1 \in S
  <2> SUFFICES ASSUME n + 1 <= N PROVE h[n + 1] = SubSeq(vec, 1, n + 1)
    OBVIOUS
  <2>1. n + 1 \in 1..N /\ (n + 1) - 1 = n /\ n <= N
    OBVIOUS
  <2>2. h[n] = SubSeq(vec, 1, n)
    BY <1>9, <2>1
  <2>3. h[n + 1] = h[n] \o <<vec[n + 1]>>
    BY <1>5, <1>7, <2>1
  <2>4. SubSeq(vec, 1, n + 1) = SubSeq(vec, 1, n) \o <<vec[n + 1]>>
    <3>1. 1 \in 1..Len(vec) /\ n + 1 \in 1..Len(vec)
      BY <1>1, <2>1
    <3>2. SubSeq(vec, 1, n + 1) = SubSeq(vec, 1, (n + 1) - 1) \o <<vec[n + 1]>>
      BY <3>1, SubSeqRecursiveSecond
    <3> QED BY <2>1, <3>2, Zenon
  <2> QED BY <2>2, <2>3, <2>4, Zenon
<1> HIDE DEF S
<1>10. h[N] = SubSeq(vec, 1, N)
  <2>1. N \in S
    BY <1>8, <1>9, SetInduction
  <2> QED BY <2>1 DEF S
<1>11. SubSeq(vec, 1, N) = vec
  BY <1>1, SubSeqFull
<1>12. FlattenSeq(texts) = vec
  BY <1>7, <1>10, <1>11
<1> QED BY <1>1, <1>4, <1>12

\* What follows the delimiter in memory is joined once for each text.
LEMMA JoinedLength ==
  ASSUME NEW Char, Slash \in Char, NEW vec \in Seq(Seq(Char)), NEW tail \in Seq(Char)
  PROVE  /\ Len(Unpopped(vec, <<>>)) \in Nat
         /\ Len(Unpopped(vec, tail)) = Len(Unpopped(vec, <<>>)) + Len(vec) * Len(tail)
<1>1. PICK N \in Nat, L \in Nat : N = Len(vec) /\ L = Len(tail)
  BY LenProperties
<1>2. <<Slash>> \in Seq(Char) /\ <<>> \in Seq(Char) /\ Len(<<Slash>>) = 1 /\ Len(<<>>) = 0
  OBVIOUS
<1>3. \A i \in 1..N : vec[i] \in Seq(Char)
  BY <1>1, ElementOfSeq
<1> DEFINE Words(t) == [i \in 1..N |-> vec[i] \o <<Slash>> \o t]
<1>4. ASSUME NEW t \in Seq(Char)
      PROVE  /\ Words(t) \in Seq(Seq(Char)) /\ Len(Words(t)) = N
             /\ \A i \in 1..N : Len(Words(t)[i]) = Len(vec[i]) + 1 + Len(t)
  <2>1. ASSUME NEW i \in 1..N
        PROVE  /\ vec[i] \o <<Slash>> \o t \in Seq(Char)
               /\ Len(vec[i] \o <<Slash>> \o t) = Len(vec[i]) + 1 + Len(t)
    <3>1. PICK b : b = vec[i] \o <<Slash>>
      OBVIOUS
    <3>2. b \in Seq(Char) /\ Len(b) = Len(vec[i]) + 1
      BY <1>2, <1>3, <3>1, ConcatProperties
    <3>3. b \o t \in Seq(Char) /\ Len(b \o t) = Len(b) + Len(t)
      BY <3>2, ConcatProperties
    <3> QED BY <3>1, <3>2, <3>3, Zenon
  <2>2. Words(t) \in [1..N -> Seq(Char)]
    BY <2>1
  <2> QED BY <2>1, <2>2
<1> HIDE DEF Words
<1>5. PICK w : w = Words(tail)
  OBVIOUS
<1>6. PICK v : v = Words(<<>>)
  OBVIOUS
<1>7. PICK g \in [0..N -> Seq(Char)] :
        /\ g[0] = <<>>
        /\ \A n \in 1..N : g[n] = g[n - 1] \o w[n]
        /\ FlattenSeq(w) = g[N]
  <2>1. w \in Seq(Seq(Char)) /\ Len(w) = N
    BY <1>4, <1>5
  <2> QED BY <2>1, FlattenSteps
<1>8. PICK h \in [0..N -> Seq(Char)] :
        /\ h[0] = <<>>
        /\ \A n \in 1..N : h[n] = h[n - 1] \o v[n]
        /\ FlattenSeq(v) = h[N]
  <2>1. v \in Seq(Seq(Char)) /\ Len(v) = N
    BY <1>2, <1>4, <1>6
  <2> QED BY <2>1, FlattenSteps
<1>9. PICK lg \in [0..N -> Nat], lh \in [0..N -> Nat] :
        \A n \in 0..N : lg[n] = Len(g[n]) /\ lh[n] = Len(h[n])
  <2>1. \A n \in 0..N : Len(g[n]) \in Nat /\ Len(h[n]) \in Nat
    BY LenProperties
  <2>2. PICK a : a = [n \in 0..N |-> Len(g[n])]
    OBVIOUS
  <2>3. PICK b : b = [n \in 0..N |-> Len(h[n])]
    OBVIOUS
  <2>4. a \in [0..N -> Nat] /\ b \in [0..N -> Nat]
    BY <2>1, <2>2, <2>3
  <2> QED BY <2>2, <2>3, <2>4
<1>10. ASSUME NEW n \in 1..N
       PROVE  \E k \in Nat : lg[n] = lg[n - 1] + k + L /\ lh[n] = lh[n - 1] + k
  <2>1. Len(w[n]) = Len(vec[n]) + 1 + L /\ w[n] \in Seq(Char)
    BY <1>1, <1>4, <1>5, ElementOfSeq
  <2>2. Len(v[n]) = Len(vec[n]) + 1 + 0 /\ v[n] \in Seq(Char)
    BY <1>2, <1>4, <1>6, ElementOfSeq
  <2>3. Len(vec[n]) \in Nat
    BY <1>3, LenProperties
  <2>4. PICK k \in Nat : k = Len(vec[n]) + 1
    BY <2>3
  <2>5. Len(w[n]) = k + L /\ Len(v[n]) = k
    BY <2>1, <2>2, <2>4
  <2>6. g[n - 1] \in Seq(Char) /\ h[n - 1] \in Seq(Char)
    OBVIOUS
  <2>7. \A s, t \in Seq(Char) : Len(s \o t) = Len(s) + Len(t)
    BY ConcatProperties
  <2>8. Len(g[n]) = Len(g[n - 1]) + Len(w[n]) /\ Len(h[n]) = Len(h[n - 1]) + Len(v[n])
    <3>1. g[n] = g[n - 1] \o w[n] /\ h[n] = h[n - 1] \o v[n]
      BY <1>7, <1>8
    <3>2. /\ Len(g[n - 1] \o w[n]) = Len(g[n - 1]) + Len(w[n])
          /\ Len(h[n - 1] \o v[n]) = Len(h[n - 1]) + Len(v[n])
      BY <2>1, <2>2, <2>6, <2>7
    <3> QED BY <3>1, <3>2, Zenon
  <2>9. n - 1 \in 0..N /\ n \in 0..N
    OBVIOUS
  <2>10. lg[n] = lg[n - 1] + Len(w[n]) /\ lh[n] = lh[n - 1] + Len(v[n])
    BY <1>9, <2>8, <2>9, Zenon
  <2>11. PICK x \in Nat, y \in Nat : x = lg[n - 1] /\ y = lh[n - 1]
    BY <2>9
  <2>12. lg[n] = x + k + L /\ lh[n] = y + k
    BY <2>5, <2>10, <2>11
  <2> QED BY <2>11, <2>12
<1>16. PICK times \in [Nat -> Nat] :
         times[0] = 0 /\ (\A n \in Nat : times[n + 1] = times[n] + L) /\ times[N] = N * L
  <2> DEFINE t == [n \in Nat |-> n * L]
  <2>1. t \in [Nat -> Nat]
    OBVIOUS
  <2>2. t[0] = 0 /\ t[N] = N * L
    OBVIOUS
  <2>3. \A n \in Nat : t[n + 1] = t[n] + L
    OBVIOUS
  <2> HIDE DEF t
  <2> QED BY <2>1, <2>2, <2>3
<1> DEFINE S == {n \in Nat : n <= N => lg[n] = lh[n] + times[n]}
<1>11. 0 \in S
  <2>1. lg[0] = Len(g[0]) /\ lh[0] = Len(h[0])
    BY <1>9
  <2>2. lg[0] = 0 /\ lh[0] = 0
    BY <1>2, <1>7, <1>8, <2>1, Zenon
  <2> QED BY <1>16, <2>2
<1>12. ASSUME NEW n \in Nat, n \in S PROVE n + 1 \in S
  <2> SUFFICES ASSUME n + 1 <= N PROVE lg[n + 1] = lh[n + 1] + times[n + 1]
    OBVIOUS
  <2>1. n + 1 \in 1..N /\ (n + 1) - 1 = n /\ n <= N /\ n \in 0..N
    OBVIOUS
  <2>2. lg[n] = lh[n] + times[n]
    BY <1>12, <2>1
  <2>3. PICK k \in Nat : lg[n + 1] = lg[n] + k + L /\ lh[n + 1] = lh[n] + k
    BY <1>10, <2>1
  <2>4. PICK p \in Nat, x \in Nat : p = times[n] /\ x = lh[n]
    BY <2>1
  <2>5. times[n + 1] = p + L
    BY <1>16, <2>4
  <2>6. lg[n + 1] = (x + p) + k + L /\ lh[n + 1] = x + k
    BY <2>2, <2>3, <2>4
  <2>7. lg[n + 1] = lh[n + 1] + (p + L)
    BY <2>6
  <2> QED BY <2>5, <2>7
<1> HIDE DEF S
<1>13. Len(g[N]) = Len(h[N]) + N * L
  <2>1. N \in S
    BY <1>11, <1>12, SetInduction
  <2>2. lg[N] = lh[N] + times[N] /\ N \in 0..N
    BY <2>1 DEF S
  <2> QED BY <1>9, <1>16, <2>2
<1>14. Unpopped(vec, tail) = g[N] /\ Unpopped(vec, <<>>) = h[N]
  BY <1>1, <1>5, <1>6, <1>7, <1>8, Zenon DEF Unpopped, Words
<1>15. Len(h[N]) \in Nat
  BY LenProperties
<1> QED BY <1>1, <1>13, <1>14, <1>15

\* The first character that follows the delimiter is the one that is popped: if there is
\* one text, nothing else is the matter.
OneSpare(vec, tail) == Len(vec) = 1 /\ Len(tail) = 1

\* What split_string makes of what join_strings made of some texts, none of them empty, is
\* these texts, if there is no slash in them and nothing follows the delimiter in memory (or
\* one character, behind the only text), and only then: a text that is cut in two, or one
\* that something is put in front of, is never made up for.
THEOREM SplitUndoesJoin ==
  ASSUME NEW Char, Slash \in Char,
         NEW vec \in Seq(Seq(Char) \ {<<>>}), vec # <<>>, NEW tail \in Seq(Char)
  PROVE  SplitString(JoinStrings(vec, tail)) = vec
           <=> Slashless(vec) /\ (tail = <<>> \/ OneSpare(vec, tail))
<1>1. vec \in Seq(Seq(Char)) /\ <<>> \in Seq(Char)
  <2>1. Seq(Char) \ {<<>>} \subseteq Seq(Char)
    OBVIOUS
  <2> QED BY <2>1, SeqMonotonic
<1>2. PICK N \in Nat \ {0}, L \in Nat : N = Len(vec) /\ L = Len(tail)
  BY EmptySeq, LenProperties
<1>3. \A i \in 1..N : vec[i] \in Seq(Char) \ {<<>>}
  BY <1>2, ElementOfSeq
<1>4. PICK J \in Seq(Char) : J = JoinStrings(vec, tail) /\ Len(Unpopped(vec, tail)) = Len(J) + 1
  <2>1. PICK a \in Seq(Char) : Unpopped(vec, tail) = a \o <<Slash>> \o tail
    BY <1>1, JoinedTexts
  <2>2. Popped(Char, a, tail, vec)
    BY <2>1, JoinedFront
  <2> QED BY <2>2 DEF Popped
<1>5. PICK J0 \in Seq(Char) :
        /\ Len(Unpopped(vec, <<>>)) = Len(J0) + 1
        /\ J0 = JoinStrings(vec, <<>>)
        /\ Tokens(J0) = FlattenSeq([i \in 1..Len(vec) |-> Tokens(Piece(vec, <<>>, i))])
  <2>1. PICK none \in Seq(Char) : none = <<>>
    BY <1>1
  <2>2. PICK a \in Seq(Char) :
          /\ Unpopped(vec, none) = a \o <<Slash>> \o none
          /\ Tokens(a) = FlattenSeq([i \in 1..Len(vec) |-> Tokens(Piece(vec, none, i))])
    BY <1>1, JoinedTexts
  <2>3. Popped(Char, a, none, vec)
    BY <2>2, JoinedFront
  <2>4. /\ JoinStrings(vec, none) = a
        /\ Len(Unpopped(vec, none)) = Len(JoinStrings(vec, none)) + 1
    BY <2>1, <2>3 DEF Popped
  <2> QED BY <2>1, <2>2, <2>4
<1>6. Len(J) = Len(J0) + N * L
  <2>1. Len(Unpopped(vec, tail)) = Len(Unpopped(vec, <<>>)) + Len(vec) * Len(tail)
    BY <1>1, JoinedLength
  <2>2. PICK p \in Nat : p = N * L
    OBVIOUS
  <2>3. Len(J) \in Nat /\ Len(J0) \in Nat
    BY LenProperties
  <2>4. Len(J) + 1 = (Len(J0) + 1) + p
    BY <1>2, <1>4, <1>5, <2>1, <2>2, Zenon
  <2> QED BY <2>2, <2>3, <2>4
<1>7. Slashless(vec) => Tokens(J0) = vec
  BY <1>1, <1>5, SlashlessTexts
<1>8. PICK T \in TextsOver(Char) : T = Tokens(J)
  BY TokensType
<1>9. SplitString(JoinStrings(vec, tail)) = IF Last(T) = <<>> THEN Front(T) ELSE T
  BY <1>4, <1>8 DEF SplitString, WithoutLastEmpty
<1>10. T \in Seq(Seq(Char)) /\ T # <<>>
  BY DEF TextsOver
<1>11. ASSUME SplitString(JoinStrings(vec, tail)) = vec
       PROVE  Slashless(vec) /\ (tail = <<>> \/ OneSpare(vec, tail))
  <2>1. \A i \in 1..N : i \in 1..Len(T) /\ vec[i] = T[i]
    <3>1. /\ Len(T) \in Nat /\ Len(Front(T)) = Len(T) - 1
          /\ \A i \in 1..Len(T) - 1 : Front(T)[i] = T[i]
      BY <1>10, FrontLast, LenProperties
    <3>2. vec = T \/ vec = Front(T)
      BY <1>9, <1>11
    <3>3. CASE vec = T
      BY <1>2, <3>3
    <3>4. CASE vec = Front(T)
      <4>1. N = Len(T) - 1
        BY <1>2, <3>1, <3>4
      <4> QED BY <3>1, <3>4, <4>1
    <3> QED BY <3>2, <3>3, <3>4
  <2>2. Slashless(vec)
    <3> SUFFICES ASSUME NEW i \in 1..N, NEW k \in 1..Len(vec[i]) PROVE vec[i][k] # Slash
      BY <1>2 DEF Slashless
    <3>1. \A j \in 1..Len(T) : \A m \in 1..Len(T[j]) : T[j][m] # Slash
      BY <1>8, TokensApart
    <3> QED BY <2>1, <3>1
  <2>3. Tokens(J0) = vec
    BY <1>7, <2>2
  <2>4. CASE vec = T
    <3>1. J = J0
      BY <1>8, <2>3, <2>4, TokensInjective
    <3>2. N * L = 0
      <4>1. Len(J0) \in Nat
        BY LenProperties
      <4>2. N * L \in Nat
        OBVIOUS
      <4> QED BY <1>6, <3>1, <4>1, <4>2
    <3>3. L = 0
      BY <3>2
    <3>4. tail = <<>>
      BY <1>2, <3>3, EmptySeq
    <3> QED BY <2>2, <3>4
  <2>5. CASE vec # T
    <3>1. Last(T) = <<>> /\ vec = Front(T)
      BY <1>9, <1>11, <2>5
    <3>2. T = Append(vec, <<>>)
      <4>1. PICK C : C = Seq(Char)
        OBVIOUS
      <4>2. PICK s \in Seq(C), e \in C : T = Append(s, e)
        BY <1>10, <4>1, SequenceEmptyOrAppend
      <4>3. Front(T) = s /\ Last(T) = e
        <5>1. PICK n \in Nat : n = Len(s)
          BY LenProperties
        <5>2. /\ Len(T) = n + 1
              /\ \A i \in 1..n : T[i] = s[i]
              /\ T[n + 1] = e
          BY <4>2, <5>1, AppendProperties
        <5>3. T \in Seq(C)
          BY <1>10, <4>1
        <5>4. /\ Front(T) \in Seq(C)
              /\ Len(Front(T)) = Len(T) - 1
              /\ \A i \in 1..Len(T) - 1 : Front(T)[i] = T[i]
              /\ Last(T) = T[Len(T)]
          BY <1>10, <5>3, FrontLast
        <5>5. Len(Front(T)) = n /\ \A i \in 1..n : Front(T)[i] = s[i]
          BY <5>2, <5>4
        <5>6. PICK f \in Seq(C) : f = Front(T)
          BY <5>4
        <5>7. f = s
          BY <5>1, <5>5, <5>6, SeqEqual
        <5> QED BY <5>2, <5>4, <5>6, <5>7
      <4> QED BY <3>1, <4>2, <4>3
    <3>3. T = GoOn(Tokens(J0), Slash)
      BY <2>3, <3>2 DEF GoOn
    <3>4. Append(J0, Slash) \in Seq(Char) /\ Tokens(Append(J0, Slash)) = T
      BY <3>3, TokensAppend
    <3>5. J = Append(J0, Slash)
      BY <1>8, <3>4, TokensInjective
    <3>6. N * L = 1
      <4>1. Len(J0) \in Nat
        BY LenProperties
      <4>2. N * L \in Nat
        OBVIOUS
      <4>3. Len(J) = Len(J0) + 1
        BY <3>5, AppendProperties
      <4> QED BY <1>6, <4>1, <4>2, <4>3
    <3>7. N = 1 /\ L = 1
      <4>1. ASSUME N > 1 PROVE L = 0 \/ N * L > 1
        <5>1. PICK k \in Nat : N = 2 + k
          <6>1. N - 2 \in Nat /\ N = 2 + (N - 2)
            BY <4>1
          <6> QED BY <6>1
        <5>2. k * L \in Nat /\ N * L = L + L + k * L
          BY <5>1
        <5>3. PICK p \in Nat, q \in Nat : p = k * L /\ q = N * L
          BY <5>2
        <5>4. q = L + L + p
          BY <5>2, <5>3
        <5>5. L = 0 \/ q > 1
          BY <5>4
        <5> QED BY <5>3, <5>5
      <4>2. L # 0
        BY <3>6
      <4>3. N = 1
        BY <3>6, <4>1, <4>2
      <4> QED BY <3>6, <4>3
    <3> QED BY <1>2, <2>2, <3>7 DEF OneSpare
  <2> QED BY <2>4, <2>5
<1>12. ASSUME Slashless(vec), tail = <<>> PROVE SplitString(JoinStrings(vec, tail)) = vec
  <2>1. J = J0
    BY <1>4, <1>5, <1>12
  <2>2. T = vec
    BY <1>7, <1>8, <1>12, <2>1
  <2>3. Last(T) = vec[N] /\ vec[N] # <<>>
    BY <1>2, <1>3, <2>2 DEF Last
  <2> QED BY <1>9, <2>2, <2>3
<1>13. ASSUME Slashless(vec), OneSpare(vec, tail)
       PROVE  SplitString(JoinStrings(vec, tail)) = vec
  <2>1. PICK a \in Seq(Char) :
          /\ Unpopped(vec, tail) = a \o <<Slash>> \o tail
          /\ Tokens(a) = FlattenSeq([i \in 1..Len(vec) |-> Tokens(Piece(vec, tail, i))])
    BY <1>1, JoinedTexts
  <2>2. Tokens(a) = vec
    <3>1. [i \in 1..Len(vec) |-> Tokens(Piece(vec, tail, i))] =
            [i \in 1..Len(vec) |-> Tokens(Piece(vec, <<>>, i))]
      <4>1. \A i \in 1..Len(vec) : i = 1
        BY <1>13 DEF OneSpare
      <4> QED BY <4>1 DEF Piece
    <3> QED BY <1>5, <1>7, <1>13, <2>1, <3>1
  <2>3. tail # <<>> /\ Front(tail) = <<>>
    <3>1. SubSeq(tail, 1, 0) = <<>>
      BY SubSeqEmpty
    <3> QED BY <1>13, <3>1 DEF OneSpare, Front
  <2>4. J = Append(a, Slash)
    <3>1. JoinStrings(vec, tail) = Append(a, Slash) \o Front(tail)
      <4>1. Popped(Char, a, tail, vec)
        BY <2>1, JoinedFront
      <4> QED BY <2>3, <4>1 DEF Popped
    <3>2. Append(a, Slash) \in Seq(Char)
      BY AppendProperties
    <3>3. Append(a, Slash) \o <<>> = Append(a, Slash)
      BY <3>2, ConcatEmptySeq
    <3> QED BY <1>4, <2>3, <3>1, <3>3
  <2>5. T = Append(vec, <<>>)
    <3>1. T = GoOn(Tokens(a), Slash)
      BY <1>8, <2>4, TokensAppend
    <3> QED BY <2>2, <3>1 DEF GoOn
  <2>6. Last(T) = <<>> /\ Front(T) = vec
    <3>1. PICK C : C = Seq(Char)
      OBVIOUS
    <3>2. PICK e \in C : e = <<>>
      BY <1>1, <3>1
    <3>3. /\ vec \in Seq(C) /\ T = Append(vec, e)
          /\ Len(T) = N + 1
          /\ \A i \in 1..N : T[i] = vec[i]
          /\ T[N + 1] = e
      BY <1>1, <1>2, <2>5, <3>1, <3>2, AppendProperties
    <3>4. T \in Seq(C)
      BY <1>10, <3>1
    <3>5. PICK f : f = Front(T)
      OBVIOUS
    <3>6. /\ f \in Seq(C) /\ Len(f) = N
          /\ \A i \in 1..N : f[i] = T[i]
          /\ Last(T) = T[Len(T)]
      <4>1. /\ f \in Seq(C) /\ Len(f) = Len(T) - 1
            /\ \A i \in 1..Len(T) - 1 : f[i] = T[i]
            /\ Last(T) = T[Len(T)]
        BY <1>10, <3>4, <3>5, FrontLast
      <4> QED BY <3>3, <4>1
    <3>7. f = vec
      BY <1>2, <3>3, <3>6, SeqEqual
    <3> QED BY <3>2, <3>3, <3>5, <3>6, <3>7
  <2> QED BY <1>9, <2>6
<1> QED BY <1>11, <1>12, <1>13
=============================================================================

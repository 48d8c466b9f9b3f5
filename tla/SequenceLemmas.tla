--------------------------- MODULE SequenceLemmas ---------------------------
(* What FlattenSeq computes.  The induction over the numbers that this takes *)
(* is by the least number for which a claim fails.                         *)
EXTENDS SequencesExt, Integers, TLAPS, SequenceTheorems, FiniteSetTheorems

\* A set of numbers has a least one: the intervals from 0 to them are finite sets,
\* on which strict inclusion is well founded.
LEMMA Smallest ==
  ASSUME NEW N, N \subseteq Nat, N # {}
  PROVE  \E n \in N : \A m \in N : n <= m
<1> DEFINE T == {0 .. n : n \in N}
<1>1. T \subseteq FiniteSubsetsOf(Nat) /\ T # {}
  <2>1. ASSUME NEW n \in Nat PROVE IsFiniteSet(0 .. n) /\ 0 .. n \subseteq Nat
    BY FS_Interval
  <2> QED BY <2>1 DEF FiniteSubsetsOf
<1>2. PICK x \in T : \A y \in T : <<y, x>> \notin StrictSubsetOrdering(Nat)
  <2> HIDE DEF T
  <2> QED BY <1>1, FS_StrictSubsetOrderingWellFounded, WFMin
<1>3. PICK n \in N : x = 0 .. n
  OBVIOUS
<1>4. ASSUME NEW m \in N PROVE n <= m
  <2> SUFFICES ASSUME m < n PROVE FALSE
    OBVIOUS
  <2>1. 0 .. m \in T /\ 0 .. m \subseteq 0 .. n /\ n \notin 0 .. m /\ n \in 0 .. n
    OBVIOUS
  <2>2. 0 .. m \in SUBSET Nat /\ 0 .. n \in SUBSET Nat
    OBVIOUS
  <2>3. <<0 .. m, 0 .. n>> \in StrictSubsetOrdering(Nat)
    BY <2>1, <2>2 DEF StrictSubsetOrdering
  <2> QED BY <1>2, <1>3, <2>1, <2>3
<1> QED BY <1>4

\* Induction from 1 to n: a set that has 1 and with every i the next one has them all.
LEMMA Climb ==
  ASSUME NEW n \in Nat, NEW P, 1 \in P,
         \A i \in 1 .. n : i \in P /\ i + 1 <= n => i + 1 \in P
  PROVE  \A i \in 1 .. n : i \in P
<1> DEFINE N == (1 .. n) \ P
<1> SUFFICES ASSUME N # {} PROVE FALSE
  OBVIOUS
<1>1. N \subseteq Nat
  OBVIOUS
<1>2. PICK m \in N : \A k \in N : m <= k
  <2> HIDE DEF N
  <2> QED BY <1>1, Smallest
<1>3. m \in 1 .. n /\ m \notin P
  OBVIOUS
<1>4. m # 1 /\ m - 1 \in 1 .. n
  BY <1>3
<1>5. m - 1 \in P
  BY <1>2, <1>4
<1>6. (m - 1) + 1 = m
  BY <1>3
<1> QED BY <1>3, <1>4, <1>5, <1>6

\* The partial results of FlattenSeq.
IsFlat(f, q, n) == f = [i \in 1 .. n |-> IF i = 1 THEN q[i] ELSE f[i - 1] \o q[i]]

\* There are such results, for one sequence after another.
LEMMA FlatExists ==
  ASSUME NEW S, NEW q \in Seq(Seq(S)), q # <<>>
  PROVE  \E f : IsFlat(f, q, Len(q))
<1> DEFINE P == {n \in 1 .. Len(q) : \E f : IsFlat(f, q, n)}
<1>1. Len(q) \in Nat /\ Len(q) >= 1
  BY LenProperties, EmptySeq
<1>2. 1 \in P
  <2> DEFINE f == [i \in 1 .. 1 |-> q[i]]
  <2>1. f = [i \in 1 .. 1 |-> IF i = 1 THEN q[i] ELSE f[i - 1] \o q[i]]
    OBVIOUS
  <2> HIDE DEF f
  <2>2. IsFlat(f, q, 1)
    BY <2>1 DEF IsFlat
  <2> QED BY <1>1, <2>2
<1>3. ASSUME NEW n \in 1 .. Len(q), n \in P, n + 1 <= Len(q)
      PROVE  n + 1 \in P
  <2>1. PICK f : IsFlat(f, q, n)
    BY <1>3
  <2> DEFINE g == [i \in 1 .. n + 1 |-> IF i <= n THEN f[i] ELSE f[n] \o q[n + 1]]
  <2>2. ASSUME NEW i \in 1 .. n + 1
        PROVE  g[i] = IF i = 1 THEN q[i] ELSE g[i - 1] \o q[i]
    <3>1. CASE i = 1
      <4>1. g[i] = f[1] /\ 1 \in 1 .. n
        BY <3>1
      <4> QED BY <2>1, <3>1, <4>1 DEF IsFlat
    <3>2. CASE i > 1 /\ i <= n
      <4>1. g[i] = f[i] /\ g[i - 1] = f[i - 1] /\ i \in 1 .. n /\ i # 1
        BY <3>2
      <4> QED BY <2>1, <4>1 DEF IsFlat
    <3>3. CASE i = n + 1
      BY <3>3
    <3> QED BY <3>1, <3>2, <3>3
  <2>3. IsFlat(g, q, n + 1)
    <3> DEFINE h == [i \in 1 .. n + 1 |-> IF i = 1 THEN q[i] ELSE g[i - 1] \o q[i]]
    <3>1. \A i \in 1 .. n + 1 : g[i] = h[i]
      BY <2>2
    <3>2. g = h
      BY <3>1
    <3> QED BY <3>2 DEF IsFlat
  <2>4. n + 1 \in 1 .. Len(q)
    BY <1>1, <1>3
  <2> HIDE DEF g
  <2> QED BY <2>3, <2>4
<1>4. Len(q) \in P
  <2>1. Len(q) \in 1 .. Len(q)
    BY <1>1
  <2> HIDE DEF P
  <2>2. \A n \in 1 .. Len(q) : n \in P
    BY <1>1, <1>2, <1>3, Climb
  <2> QED BY <2>1, <2>2
<1> QED BY <1>4

\* FlattenSeq is the last of them.
LEMMA FlattenIs ==
  ASSUME NEW S, NEW q \in Seq(Seq(S)), q # <<>>
  PROVE  \E f : IsFlat(f, q, Len(q)) /\ FlattenSeq(q) = f[Len(q)]
<1> DEFINE F == CHOOSE f : IsFlat(f, q, Len(q))
<1>1. IsFlat(F, q, Len(q))
  BY FlatExists
<1>2. Len(q) # 0
  BY EmptySeq
<1>3. FlattenSeq(q) = F[Len(q)]
  BY <1>2 DEF FlattenSeq, IsFlat
<1> HIDE DEF F
<1> QED BY <1>1, <1>3

\* They are sequences of the same elements.
LEMMA FlatType ==
  ASSUME NEW S, NEW q \in Seq(Seq(S)), q # <<>>, NEW f, IsFlat(f, q, Len(q))
  PROVE  \A i \in 1 .. Len(q) : f[i] \in Seq(S)
<1> DEFINE P == {i \in 1 .. Len(q) : f[i] \in Seq(S)}
<1>1. Len(q) \in Nat /\ Len(q) >= 1 /\ \A i \in 1 .. Len(q) : q[i] \in Seq(S)
  BY LenProperties, EmptySeq, ElementOfSeq
<1>2. 1 \in P
  BY <1>1 DEF IsFlat
<1>3. ASSUME NEW i \in 1 .. Len(q), i \in P, i + 1 <= Len(q)
      PROVE  i + 1 \in P
  <2>1. i + 1 \in 1 .. Len(q) /\ i + 1 # 1 /\ (i + 1) - 1 = i
    BY <1>1, <1>3
  <2>2. f[i + 1] = f[i] \o q[i + 1]
    BY <2>1 DEF IsFlat
  <2>3. f[i] \in Seq(S) /\ q[i + 1] \in Seq(S)
    BY <1>1, <1>3, <2>1
  <2> QED BY <2>1, <2>2, <2>3, ConcatProperties
<1>4. \A i \in 1 .. Len(q) : i \in P
  <2> HIDE DEF P
  <2> QED BY <1>1, <1>2, <1>3, Climb
<1> QED BY <1>4

\* So is what FlattenSeq returns.
LEMMA FlattenType ==
  ASSUME NEW S, NEW q \in Seq(Seq(S))
  PROVE  FlattenSeq(q) \in Seq(S)
<1>1. CASE q = <<>>
  BY <1>1 DEF FlattenSeq
<1>2. CASE q # <<>>
  <2>1. Len(q) \in 1 .. Len(q)
    BY <1>2, LenProperties, EmptySeq
  <2> QED BY <1>2, <2>1, FlattenIs, FlatType
<1> QED BY <1>1, <1>2

\* Of nothing it makes nothing.
LEMMA FlattenEmpty == FlattenSeq(<<>>) = <<>>
BY DEF FlattenSeq

\* One more at the end of the queue.
LEMMA FlattenAppend ==
  ASSUME NEW S, NEW q \in Seq(Seq(S)), NEW c \in Seq(S)
  PROVE  FlattenSeq(Append(q, c)) = FlattenSeq(q) \o c
<1> DEFINE r == Append(q, c)
           n == Len(q)
<1>1. /\ n \in Nat /\ r \in Seq(Seq(S)) /\ r # <<>> /\ Len(r) = n + 1
      /\ (\A i \in 1 .. n : r[i] = q[i]) /\ r[n + 1] = c
  BY LenProperties, AppendProperties
<1>2. PICK g : IsFlat(g, r, n + 1) /\ FlattenSeq(r) = g[n + 1]
  BY <1>1, FlattenIs
<1>3. CASE q = <<>>
  <2>1. n = 0 /\ FlattenSeq(q) = <<>>
    BY <1>3, FlattenEmpty
  <2>2. g[n + 1] = c
    BY <1>1, <1>2, <2>1 DEF IsFlat
  <2> QED BY <1>2, <2>1, <2>2, ConcatEmptySeq
<1>4. CASE q # <<>>
  <2>1. PICK f : IsFlat(f, q, n) /\ FlattenSeq(q) = f[n]
    BY <1>4, FlattenIs
  <2>2. n >= 1
    BY <1>1, <1>4, EmptySeq
  <2> DEFINE P == {i \in 1 .. n : g[i] = f[i]}
  <2> HIDE DEF r, n
  <2>3. 1 \in P
    BY <1>1, <1>2, <2>1, <2>2 DEF IsFlat
  <2>4. ASSUME NEW i \in 1 .. n, i \in P, i + 1 <= n
        PROVE  i + 1 \in P
    <3>1. /\ i + 1 \in 1 .. n /\ i + 1 \in 1 .. n + 1 /\ i + 1 # 1 /\ (i + 1) - 1 = i
      BY <1>1, <2>4
    <3>2. g[i + 1] = g[i] \o r[i + 1] /\ f[i + 1] = f[i] \o q[i + 1]
      BY <1>2, <2>1, <3>1 DEF IsFlat
    <3> QED BY <1>1, <2>4, <3>1, <3>2
  <2>5. \A i \in 1 .. n : i \in P
    <3> HIDE DEF P
    <3> QED BY <1>1, <2>3, <2>4, Climb
  <2>6. n \in 1 .. n /\ n + 1 \in 1 .. n + 1 /\ n + 1 # 1 /\ (n + 1) - 1 = n
    BY <1>1, <2>2
  <2>7. g[n + 1] = g[n] \o r[n + 1] /\ g[n] = f[n]
    BY <1>2, <2>5, <2>6 DEF IsFlat
  <2> QED BY <1>1, <1>2, <2>1, <2>7 DEF r
<1> QED BY <1>3, <1>4

\* One less at its head.
LEMMA FlattenHead ==
  ASSUME NEW S, NEW q \in Seq(Seq(S)), q # <<>>
  PROVE  FlattenSeq(q) = Head(q) \o FlattenSeq(Tail(q))
<1> DEFINE n == Len(q)
           t == Tail(q)
<1>1. /\ n \in Nat /\ n >= 1 /\ (\A i \in 1 .. n : q[i] \in Seq(S)) /\ Head(q) = q[1]
      /\ t \in Seq(Seq(S)) /\ Len(t) = n - 1 /\ (\A i \in 1 .. n - 1 : t[i] = q[i + 1])
  BY LenProperties, EmptySeq, ElementOfSeq, HeadTailProperties
<1>2. PICK f : IsFlat(f, q, n) /\ FlattenSeq(q) = f[n]
  BY FlattenIs
<1>3. f[1] = q[1]
  BY <1>1, <1>2 DEF IsFlat
<1>4. CASE t = <<>>
  <2>1. n = 1 /\ FlattenSeq(t) = <<>>
    <3>1. Len(t) = 0
      <4> HIDE DEF t
      <4> QED BY <1>4, EmptySeq
    <3>2. n = 1
      <4> HIDE DEF n, t
      <4> QED BY <1>1, <3>1
    <3> QED BY <3>2, <1>4, FlattenEmpty
  <2> QED BY <1>1, <1>2, <1>3, <2>1, ConcatEmptySeq
<1>5. CASE t # <<>>
  <2>1. PICK h : IsFlat(h, t, n - 1) /\ FlattenSeq(t) = h[n - 1]
    BY <1>1, <1>5, FlattenIs
  <2>2. n - 1 \in Nat /\ n - 1 >= 1
    BY <1>1, <1>5, EmptySeq
  <2>3. \A i \in 1 .. n - 1 : h[i] \in Seq(S)
    BY <1>1, <1>5, <2>1, FlatType
  <2> DEFINE P == {i \in 1 .. n - 1 : f[i + 1] = q[1] \o h[i]}
  <2> HIDE DEF t, n
  <2>4. 1 \in P
    <3>1. 2 \in 1 .. n /\ 1 \in 1 .. n - 1 /\ 2 - 1 = 1
      BY <1>1, <2>2
    <3>2. f[2] = f[1] \o q[2]
      <4>1. \A i \in 1 .. n : f[i] = IF i = 1 THEN q[i] ELSE f[i - 1] \o q[i]
        BY <1>2 DEF IsFlat
      <4>2. ASSUME NEW i \in 1 .. n, i = 2 PROVE f[i] = f[1] \o q[i]
        <5>1. i # 1 /\ i - 1 = 1
          BY <4>2
        <5> QED BY <4>1, <5>1
      <4> QED BY <3>1, <4>2
    <3>3. h[1] = t[1]
      BY <2>1, <3>1 DEF IsFlat
    <3>4. t[1] = q[1 + 1]
      BY <1>1, <3>1
    <3>5. f[1 + 1] = q[1] \o h[1]
      <4>1. 1 + 1 = 2
        OBVIOUS
      <4> QED BY <1>3, <3>2, <3>3, <3>4, <4>1
    <3> QED BY <3>1, <3>5 DEF P
  <2>5. ASSUME NEW i \in 1 .. n - 1, i \in P, i + 1 <= n - 1
        PROVE  i + 1 \in P
    <3>1. /\ i + 1 \in 1 .. n - 1 /\ i + 2 \in 1 .. n /\ i + 1 # 1 /\ i + 2 # 1
          /\ (i + 1) - 1 = i /\ (i + 2) - 1 = i + 1 /\ (i + 1) + 1 = i + 2
      BY <1>1, <2>5
    <3>2. f[i + 2] = f[i + 1] \o q[i + 2] /\ h[i + 1] = h[i] \o t[i + 1]
      BY <1>2, <2>1, <3>1 DEF IsFlat
    <3>3. t[i + 1] = q[i + 2] /\ f[i + 1] = q[1] \o h[i]
      BY <1>1, <2>5, <3>1
    <3>4. q[1] \in Seq(S) /\ h[i] \in Seq(S) /\ q[i + 2] \in Seq(S)
      <4>1. 1 \in 1 .. n
        BY <1>1
      <4> QED BY <1>1, <2>3, <3>1, <4>1
    <3>5. (q[1] \o h[i]) \o q[i + 2] = q[1] \o (h[i] \o q[i + 2])
      <4>1. \A x, y, z \in Seq(S) : (x \o y) \o z = x \o (y \o z)
        BY ConcatAssociative, SMTT(30)
      <4> QED BY <3>4, <4>1
    <3> QED BY <3>1, <3>2, <3>3, <3>5
  <2>6. \A i \in 1 .. n - 1 : i \in P
    <3> HIDE DEF P
    <3> QED BY <2>2, <2>4, <2>5, Climb
  <2>7. n - 1 \in 1 .. n - 1 /\ (n - 1) + 1 = n
    BY <1>1, <2>2
  <2>8. f[n] = q[1] \o h[n - 1]
    BY <2>6, <2>7
  <2> QED BY <1>1, <1>2, <2>1, <2>8 DEF t
<1> QED BY <1>4, <1>5
=============================================================================

-------------------------- MODULE LinkedListProofs --------------------------
(* Theorems about LinkedList: what a walk finds while a list is changed,   *)
(* and that the operations do what Lists says.                             *)
EXTENDS ListChains

-----------------------------------------------------------------------------
(* What Lists says, place by place.                                        *)

\* A chain of one list, and the elements on it.
IsChain(s) ==
  s \in Seq(Node) /\ Len(s) \in Nat /\ Len(s) >= 2 /\ \A i \in 2 .. Len(s) - 1 : s[i] \in Elem

Inside(s) == SubSeq(s, 2, Len(s) - 1)

\* The elements of a chain are one place further to the front.
LEMMA InsideIs ==
  ASSUME NEW s, IsChain(s)
  PROVE  /\ Inside(s) \in Seq(Elem) /\ Len(Inside(s)) = Len(s) - 2
         /\ \A i \in 1 .. Len(s) - 2 : Inside(s)[i] = s[i + 1] /\ i + 1 \in 2 .. Len(s) - 1
<1> DEFINE N == Len(s)
           f == SubSeq(s, 2, N - 1)
<1>1. N \in Nat /\ N >= 2 /\ \A i \in 2 .. N - 1 : s[i] \in Elem
  BY DEF IsChain
<1> HIDE DEF N
<1>2. /\ f \in Seq(Elem) /\ Len(f) = (IF 2 <= N - 1 THEN N - 1 - 2 + 1 ELSE 0)
      /\ \A i \in 1 .. N - 1 - 2 + 1 : f[i] = s[2 + i - 1]
  BY <1>1, SubSeqProperties
<1> HIDE DEF f
<1>3. Len(f) = N - 2
  BY <1>1, <1>2
<1>4. ASSUME NEW i \in 1 .. N - 2
      PROVE  f[i] = s[i + 1] /\ i + 1 \in 2 .. N - 1
  <2>1. i \in 1 .. N - 1 - 2 + 1 /\ 2 + i - 1 = i + 1 /\ i + 1 \in 2 .. N - 1
    BY <1>1
  <2> QED BY <1>2, <2>1
<1> QED BY <1>2, <1>3, <1>4 DEF Inside, N, f

\* Two sequences are the same if they are at every place.
LEMMA SameSeq ==
  ASSUME NEW S, NEW n \in Nat, NEW s \in Seq(S), Len(s) = n, NEW t \in Seq(S), Len(t) = n,
         \A i \in 1 .. n : s[i] = t[i]
  PROVE  s = t
BY SeqEqual

\* A part between the two pieces of a sequence.
LEMMA ThreeParts ==
  ASSUME NEW S, NEW s \in Seq(S), NEW k \in 1 .. Len(s) + 1, NEW p \in Seq(S)
  PROVE  LET t == SubSeq(s, 1, k - 1) \o p \o SubSeq(s, k, Len(s))
         IN  /\ t \in Seq(S) /\ Len(t) = Len(s) + Len(p)
             /\ \A n \in 1 .. Len(s) + Len(p) :
                  t[n] = IF n < k THEN s[n]
                         ELSE IF n < k + Len(p) THEN p[n - k + 1] ELSE s[n - Len(p)]
<1> DEFINE N == Len(s)
           M == Len(p)
           a == SubSeq(s, 1, k - 1)
           b == SubSeq(s, k, N)
           u == a \o p
           t == u \o b
<1>1. N \in Nat /\ M \in Nat /\ (\A i \in 1 .. N : s[i] \in S) /\ k \in Nat /\ k >= 1 /\ k <= N + 1
  BY ElementOfSeq
<1> HIDE DEF N, M
<1>2. a \in Seq(S) /\ Len(a) = k - 1 /\ \A i \in 1 .. k - 1 : a[i] = s[i]
  <2>1. \A i \in 1 .. k - 1 : s[i] \in S
    BY <1>1
  <2>2. /\ a \in Seq(S) /\ Len(a) = (IF 1 <= k - 1 THEN k - 1 - 1 + 1 ELSE 0)
        /\ \A i \in 1 .. k - 1 - 1 + 1 : a[i] = s[1 + i - 1]
    BY <1>1, <2>1, SubSeqProperties
  <2>3. k - 1 - 1 + 1 = k - 1 /\ \A i \in 1 .. k - 1 : 1 + i - 1 = i
    BY <1>1
  <2> HIDE DEF a
  <2>4. Len(a) = k - 1
    BY <1>1, <2>2
  <2> QED BY <2>2, <2>3, <2>4
<1>3. b \in Seq(S) /\ Len(b) = N - k + 1 /\ \A i \in 1 .. N - k + 1 : b[i] = s[k + i - 1]
  <2>1. \A i \in k .. N : s[i] \in S
    BY <1>1
  <2>2. /\ b \in Seq(S) /\ Len(b) = (IF k <= N THEN N - k + 1 ELSE 0)
        /\ \A i \in 1 .. N - k + 1 : b[i] = s[k + i - 1]
    BY <1>1, <2>1, SubSeqProperties
  <2> HIDE DEF b
  <2> QED BY <1>1, <2>2
<1> HIDE DEF a, b
<1>4. p \in Seq(S) /\ Len(p) = M
  BY DEF M
<1>5. /\ u \in Seq(S) /\ Len(u) = k - 1 + M
      /\ \A i \in 1 .. k - 1 + M : u[i] = IF i <= k - 1 THEN a[i] ELSE p[i - (k - 1)]
  <2>1. /\ u \in Seq(S) /\ Len(u) = Len(a) + Len(p)
        /\ \A i \in 1 .. Len(a) + Len(p) : u[i] = IF i <= Len(a) THEN a[i] ELSE p[i - Len(a)]
    BY <1>4, <1>2, ConcatProperties
  <2> HIDE DEF u
  <2> QED BY <1>4, <1>2, <2>1
<1> HIDE DEF u
<1>6. /\ t \in Seq(S) /\ Len(t) = (k - 1 + M) + (N - k + 1)
      /\ \A i \in 1 .. (k - 1 + M) + (N - k + 1) :
           t[i] = IF i <= k - 1 + M THEN u[i] ELSE b[i - (k - 1 + M)]
  <2>1. /\ t \in Seq(S) /\ Len(t) = Len(u) + Len(b)
        /\ \A i \in 1 .. Len(u) + Len(b) : t[i] = IF i <= Len(u) THEN u[i] ELSE b[i - Len(u)]
    BY <1>3, <1>5, ConcatProperties
  <2> HIDE DEF t
  <2> QED BY <1>3, <1>5, <2>1
<1> HIDE DEF t
<1>7. (k - 1 + M) + (N - k + 1) = N + M
  BY <1>1
<1>8. ASSUME NEW n \in 1 .. N + M
      PROVE  t[n] = IF n < k THEN s[n] ELSE IF n < k + M THEN p[n - k + 1] ELSE s[n - M]
  <2>1. CASE n < k
    <3>1. n \in 1 .. k - 1 /\ n <= k - 1 + M /\ n \in 1 .. k - 1 + M /\ n <= k - 1
      BY <1>1, <2>1
    <3> QED BY <1>2, <1>5, <1>6, <1>7, <2>1, <3>1
  <2>2. CASE n >= k /\ n < k + M
    <3>1. /\ n <= k - 1 + M /\ n \in 1 .. k - 1 + M /\ ~(n <= k - 1) /\ n - (k - 1) = n - k + 1
          /\ ~(n < k)
      BY <1>1, <2>2
    <3> QED BY <1>5, <1>6, <1>7, <2>2, <3>1
  <2>3. CASE n >= k + M
    <3>1. /\ ~(n <= k - 1 + M) /\ n - (k - 1 + M) \in 1 .. N - k + 1
          /\ k + (n - (k - 1 + M)) - 1 = n - M /\ ~(n < k) /\ ~(n < k + M)
      BY <1>1, <2>3
    <3>2. t[n] = b[n - (k - 1 + M)]
      BY <1>6, <1>7, <3>1
    <3>3. b[n - (k - 1 + M)] = s[k + (n - (k - 1 + M)) - 1]
      BY <1>3, <3>1
    <3> QED BY <3>1, <3>2, <3>3
  <2> QED BY <1>1, <2>1, <2>2, <2>3
<1> QED BY <1>6, <1>7, <1>8 DEF t, u, a, b, N, M

\* What is put into a chain is put among its elements.
LEMMA InsidePut ==
  ASSUME NEW s, IsChain(s), NEW k \in 2 .. Len(s), NEW p \in Seq(Elem)
  PROVE  LET f == Inside(s)
         IN  /\ IsChain(PutIn(s, k, p)) /\ k - 1 \in 1 .. Len(f) + 1
             /\ Inside(PutIn(s, k, p)) = SubSeq(f, 1, k - 2) \o p \o SubSeq(f, k - 1, Len(f))
<1> DEFINE N == Len(s)
           M == Len(p)
           f == Inside(s)
           d == PutIn(s, k, p)
           g == Inside(d)
           t == SubSeq(f, 1, (k - 1) - 1) \o p \o SubSeq(f, k - 1, Len(f))
<1>1. /\ s \in Seq(Node) /\ N \in Nat /\ N >= 2 /\ (\A i \in 2 .. N - 1 : s[i] \in Elem)
      /\ M \in Nat /\ (\A i \in 1 .. M : p[i] \in Elem)
      /\ k \in Nat /\ k >= 2 /\ k <= N /\ k - 1 \in Nat /\ (k - 1) - 1 = k - 2
  BY ElementOfSeq DEF IsChain
<1>2. /\ d \in Seq(Node) /\ Len(d) = N + M
      /\ \A n \in 1 .. N + M :
           \/ n < k /\ d[n] = s[n]
           \/ n >= k /\ n < k + M /\ d[n] = p[n - k + 1] /\ n - k + 1 \in 1 .. M
           \/ n >= k + M /\ d[n] = s[n - M]
  <2>1. \A n \in 1 .. Len(p) : p[n] \in Elem
    BY <1>1
  <2>2. k \in 2 .. Len(s) /\ s \in Seq(Node)
    BY <1>1
  <2> HIDE DEF d
  <2> QED BY <2>2, PutIs DEF d
<1>3. /\ f \in Seq(Elem) /\ Len(f) = N - 2 /\ \A i \in 1 .. N - 2 : f[i] = s[i + 1]
  BY InsideIs
<1> HIDE DEF N, M, d, f
<1>4. IsChain(d)
  <2>1. ASSUME NEW n \in 2 .. N + M - 1 PROVE d[n] \in Elem
    <3>1. n \in 1 .. N + M
      BY <1>1
    <3>2. CASE n < k /\ d[n] = s[n]
      <4>1. n \in 2 .. N - 1
        BY <1>1, <3>2
      <4> QED BY <1>1, <3>2, <4>1
    <3>3. CASE n >= k /\ n < k + M /\ d[n] = p[n - k + 1] /\ n - k + 1 \in 1 .. M
      BY <1>1, <3>3
    <3>4. CASE n >= k + M /\ d[n] = s[n - M]
      <4>1. n - M \in 2 .. N - 1
        BY <1>1, <3>4
      <4> QED BY <1>1, <3>4, <4>1
    <3> QED BY <1>2, <3>1, <3>2, <3>3, <3>4
  <2>2. Len(d) \in Nat /\ Len(d) >= 2 /\ \A n \in 2 .. Len(d) - 1 : d[n] \in Elem
    BY <1>1, <1>2, <2>1
  <2> QED BY <1>2, <2>2 DEF IsChain
<1>5. g \in Seq(Elem) /\ Len(g) = N + M - 2 /\ \A i \in 1 .. N + M - 2 : g[i] = d[i + 1]
  <2>1. /\ g \in Seq(Elem) /\ Len(g) = Len(d) - 2 /\ \A i \in 1 .. Len(d) - 2 : g[i] = d[i + 1]
    BY <1>4, InsideIs
  <2>2. Len(d) - 2 = N + M - 2
    BY <1>1, <1>2
  <2> HIDE DEF g
  <2> QED BY <2>1, <2>2
<1>6. /\ t \in Seq(Elem) /\ Len(t) = N - 2 + M
      /\ \A n \in 1 .. N - 2 + M :
           t[n] = IF n < k - 1 THEN f[n]
                  ELSE IF n < (k - 1) + M THEN p[n - (k - 1) + 1] ELSE f[n - M]
  <2>1. k - 1 \in 1 .. Len(f) + 1 /\ p \in Seq(Elem) /\ Len(p) = M
    BY <1>1, <1>3 DEF M
  <2> DEFINE j == k - 1
  <2>2. f \in Seq(Elem) /\ j \in 1 .. Len(f) + 1
    BY <1>3, <2>1
  <2>3. /\ t \in Seq(Elem) /\ Len(t) = Len(f) + Len(p)
        /\ \A n \in 1 .. Len(f) + Len(p) :
             t[n] = IF n < k - 1 THEN f[n]
                    ELSE IF n < (k - 1) + Len(p) THEN p[n - (k - 1) + 1] ELSE f[n - Len(p)]
    <3> HIDE DEF f, j
    <3>1. LET r == SubSeq(f, 1, j - 1) \o p \o SubSeq(f, j, Len(f))
          IN  /\ r \in Seq(Elem) /\ Len(r) = Len(f) + Len(p)
              /\ \A n \in 1 .. Len(f) + Len(p) :
                   r[n] = IF n < j THEN f[n]
                          ELSE IF n < j + Len(p) THEN p[n - j + 1] ELSE f[n - Len(p)]
      BY <2>2, ThreeParts
    <3> QED BY <3>1 DEF j
  <2> HIDE DEF t
  <2> QED BY <1>3, <2>1, <2>3
<1> HIDE DEF g, t
<1>7. ASSUME NEW n \in 1 .. N + M - 2 PROVE g[n] = t[n]
  <2>1. /\ g[n] = d[n + 1] /\ n + 1 \in 1 .. N + M /\ n \in 1 .. N - 2 + M
        /\ (n + 1) - k + 1 = n - (k - 1) + 1
    <3>1. /\ n + 1 \in 1 .. N + M /\ n \in 1 .. N - 2 + M
          /\ (n + 1) - k + 1 = n - (k - 1) + 1
      BY <1>1
    <3> QED BY <1>5, <3>1
  <2>2. CASE n < k - 1
    <3>1. n \in 1 .. N - 2 /\ n + 1 < k /\ ~(n + 1 >= k) /\ ~(n + 1 >= k + M)
      BY <1>1, <2>2
    <3>2. d[n + 1] = s[n + 1]
      BY <1>2, <2>1, <3>1
    <3> QED BY <1>3, <1>6, <2>1, <2>2, <3>1, <3>2
  <2>3. CASE n >= k - 1 /\ n < (k - 1) + M
    <3>1. ~(n + 1 < k) /\ ~(n + 1 >= k + M) /\ ~(n < k - 1)
      BY <1>1, <2>3
    <3>2. d[n + 1] = p[(n + 1) - k + 1]
      BY <1>2, <2>1, <3>1
    <3> QED BY <1>6, <2>1, <2>3, <3>1, <3>2
  <2>4. CASE n >= (k - 1) + M
    <3>1. /\ ~(n + 1 < k) /\ ~(n + 1 < k + M) /\ ~(n < k - 1) /\ ~(n < (k - 1) + M)
          /\ n - M \in 1 .. N - 2 /\ (n - M) + 1 = (n + 1) - M
      BY <1>1, <2>4
    <3>2. d[n + 1] = s[(n + 1) - M]
      BY <1>2, <2>1, <3>1
    <3> QED BY <1>3, <1>6, <2>1, <3>1, <3>2
  <2> QED BY <1>1, <2>2, <2>3, <2>4
<1>8. g = t
  <2>1. N + M - 2 \in Nat /\ N - 2 + M = N + M - 2
    BY <1>1
  <2> QED BY <1>5, <1>6, <1>7, <2>1, SameSeq
<1>9. k - 1 \in 1 .. Len(f) + 1
  BY <1>1, <1>3
<1> QED BY <1>1, <1>4, <1>8, <1>9 DEF g, t, d, f

\* What is cut out of a chain is cut out of its elements.
LEMMA InsideCut ==
  ASSUME NEW s, IsChain(s), NEW i \in 2 .. Len(s) - 1, NEW j \in i .. Len(s) - 1
  PROVE  LET f == Inside(s)
             g == Inside(CutOut(s, i, j))
             k == j - i + 1
         IN  /\ IsChain(CutOut(s, i, j))
             /\ g \in Seq(Elem) /\ Len(g) = Len(f) - k /\ Len(f) - k \in Nat
             /\ \A n \in 1 .. Len(f) - k : g[n] = IF n < i - 1 THEN f[n] ELSE f[n + k]
<1> DEFINE N == Len(s)
           k == j - i + 1
           f == Inside(s)
           d == CutOut(s, i, j)
           g == Inside(d)
<1>1. /\ s \in Seq(Node) /\ N \in Nat /\ N >= 2 /\ (\A n \in 2 .. N - 1 : s[n] \in Elem)
      /\ i \in Nat /\ j \in Nat /\ i >= 2 /\ i <= j /\ j <= N - 1
      /\ k \in Nat /\ k >= 1 /\ k + i = j + 1
  BY DEF IsChain
<1>2. /\ d \in Seq(Node) /\ Len(d) = N - k /\ Len(d) >= 2
      /\ \A n \in 1 .. N - k :
           \/ n < i /\ d[n] = s[n]
           \/ n >= i /\ d[n] = s[n + k]
  BY <1>1, CutIs
<1>3. f \in Seq(Elem) /\ Len(f) = N - 2 /\ \A n \in 1 .. N - 2 : f[n] = s[n + 1]
  BY InsideIs
<1> HIDE DEF N, k, d, f
<1>4. IsChain(d)
  <2>1. ASSUME NEW n \in 2 .. N - k - 1 PROVE d[n] \in Elem
    <3>1. n \in 1 .. N - k /\ n \in 2 .. N - 1 /\ n + k \in 2 .. N - 1
      BY <1>1
    <3> QED BY <1>1, <1>2, <3>1
  <2>2. Len(d) \in Nat
    BY <1>1, <1>2
  <2> QED BY <1>2, <2>1, <2>2 DEF IsChain
<1>5. g \in Seq(Elem) /\ Len(g) = N - k - 2 /\ \A n \in 1 .. N - k - 2 : g[n] = d[n + 1]
  BY <1>2, <1>4, InsideIs
<1> HIDE DEF g
<1>6. ASSUME NEW n \in 1 .. N - k - 2 PROVE g[n] = IF n < i - 1 THEN f[n] ELSE f[n + k]
  <2>1. g[n] = d[n + 1] /\ n + 1 \in 1 .. N - k
    BY <1>1, <1>5
  <2>2. CASE n < i - 1
    <3>1. n + 1 < i /\ ~(n + 1 >= i) /\ n \in 1 .. N - 2
      BY <1>1, <2>2
    <3>2. d[n + 1] = s[n + 1]
      BY <1>2, <2>1, <3>1
    <3> QED BY <1>3, <2>1, <2>2, <3>1, <3>2
  <2>3. CASE ~(n < i - 1)
    <3>1. ~(n + 1 < i) /\ n + k \in 1 .. N - 2 /\ (n + k) + 1 = (n + 1) + k
      BY <1>1, <2>3
    <3>2. d[n + 1] = s[(n + 1) + k]
      BY <1>2, <2>1, <3>1
    <3> QED BY <1>3, <2>1, <2>3, <3>1, <3>2
  <2> QED BY <2>2, <2>3
<1>7. Len(f) - k = N - k - 2 /\ N - k - 2 \in Nat
  BY <1>1, <1>2, <1>3
<1> QED BY <1>4, <1>5, <1>6, <1>7 DEF g, d, f, k, N

\* The instance counts and turns as its modules do.
LEMMA SameOperators ==
  /\ \A S : Abstract!Cardinality(S) = Cardinality(S)
  /\ \A s : Abstract!Reverse(s) = Reverse(s)
  /\ \A s : Abstract!Range(s) = Range(s)
BY DEF Abstract!Cardinality, Cardinality, Abstract!Reverse, Reverse, Abstract!Range, Range

\* m different numbers are m.
LEMMA CountIs ==
  ASSUME NEW m \in Nat, NEW f \in [1 .. m -> Int], NEW P, P = {f[n] : n \in 1 .. m},
         \A i, j \in 1 .. m : f[i] = f[j] => i = j
  PROVE  IsFiniteSet(P) /\ Cardinality(P) = m
<1>1. f \in Bijection(1 .. m, P)
  <2>1. f \in [1 .. m -> P]
    OBVIOUS
  <2>2. \A p \in P : \E n \in 1 .. m : f[n] = p
    OBVIOUS
  <2> QED BY <2>1, <2>2 DEF Bijection, Injection, Surjection, IsInjective
<1>2. IsFiniteSet(1 .. m) /\ Cardinality(1 .. m) = m
  <2>1. ASSUME NEW a \in Int, NEW b \in Int, a = 1, b = m
        PROVE  IsFiniteSet(a .. b) /\ Cardinality(a .. b) = m
    <3>1. (IF a > b THEN 0 ELSE b - a + 1) = m
      BY <2>1
    <3> QED BY <3>1, FS_Interval
  <2> QED BY <2>1
<1>3. ExistsBijection(1 .. m, P)
  BY <1>1 DEF ExistsBijection
<1> QED BY <1>2, <1>3, FS_Bijection

\* The numbers in P in their order.
Enumerates(f, m, P) ==
  /\ m \in Nat /\ f \in [1 .. m -> Int] /\ P = {f[n] : n \in 1 .. m}
  /\ \A i, j \in 1 .. m : i < j => f[i] < f[j]

\* An order of the numbers in P is the order in which Pick takes them.
LEMMA PickIs ==
  ASSUME NEW s, NEW f, NEW m, NEW P, Enumerates(f, m, P)
  PROVE  Abstract!Pick(s, P) = [n \in 1 .. m |-> s[f[n]]]
<1>1. /\ m \in Nat /\ f \in [1 .. m -> Int] /\ P = {f[n] : n \in 1 .. m}
      /\ \A i, j \in 1 .. m : i < j => f[i] < f[j]
  BY DEF Enumerates
<1>2. \A i, j \in 1 .. m : f[i] = f[j] => i = j
  <2> TAKE i, j \in 1 .. m
  <2>1. f[i] \in Int /\ f[j] \in Int /\ i \in Int /\ j \in Int
    BY <1>1
  <2>2. i < j \/ i = j \/ j < i
    BY <2>1
  <2> QED BY <1>1, <2>1, <2>2
<1>3. \A i, j \in 1 .. m : f[i] <= f[j] <=> i <= j
  <2> TAKE i, j \in 1 .. m
  <2>1. f[i] \in Int /\ f[j] \in Int /\ i \in Int /\ j \in Int
    BY <1>1
  <2>2. i < j \/ i = j \/ j < i
    BY <2>1
  <2> QED BY <1>1, <2>1, <2>2
<1>4. Cardinality(P) = m
  BY <1>1, <1>2, CountIs
<1>5. ASSUME NEW n \in 1 .. m
      PROVE  Cardinality({j \in P : j <= f[n]}) = n
  <2> DEFINE Q == {j \in P : j <= f[n]}
             g == [i \in 1 .. n |-> f[i]]
  <2>1. n \in Nat /\ \A i \in 1 .. n : i \in 1 .. m /\ i <= n
    BY <1>1
  <2>2. g \in [1 .. n -> Int]
    BY <1>1, <2>1
  <2>3. Q = {g[i] : i \in 1 .. n}
    <3>1. ASSUME NEW j \in Q PROVE \E i \in 1 .. n : j = g[i]
      <4>1. PICK i \in 1 .. m : j = f[i]
        BY <1>1
      <4>2. i <= n
        BY <1>3, <4>1
      <4>3. i \in 1 .. n
        BY <2>1, <4>2
      <4> QED BY <4>1, <4>3
    <3>2. ASSUME NEW i \in 1 .. n PROVE g[i] \in Q
      BY <1>1, <1>3, <2>1
    <3> QED BY <3>1, <3>2
  <2>4. \A i, j \in 1 .. n : g[i] = g[j] => i = j
    BY <1>2, <2>1
  <2> HIDE DEF g, Q
  <2>5. Cardinality(Q) = n
    BY <2>1, <2>2, <2>3, <2>4, CountIs
  <2> QED BY <2>5 DEF Q
<1>6. ASSUME NEW n \in 1 .. m
      PROVE  (CHOOSE i \in P : Cardinality({j \in P : j <= i}) = n) = f[n]
  <2>1. f[n] \in P
    BY <1>1
  <2>2. ASSUME NEW i \in P, Cardinality({j \in P : j <= i}) = n PROVE i = f[n]
    <3>1. PICK k \in 1 .. m : i = f[k]
      BY <1>1
    <3> QED BY <1>5, <2>2, <3>1
  <2> QED BY <1>5, <2>1, <2>2
<1>7. Abstract!Pick(s, P)
        = [n \in 1 .. Cardinality(P) |-> s[CHOOSE i \in P : Cardinality({j \in P : j <= i}) = n]]
  BY Zenon DEF Abstract!Pick, Abstract!Cardinality, Cardinality
<1> QED BY <1>4, <1>6, <1>7

\* g has the elements of f in the order of their keys, equal ones as they are in f: at
\* each place n the one from place p[n].
SortedBy(p, N, f, g) ==
  /\ N \in Nat /\ f \in Seq(Elem) /\ Len(f) = N /\ g \in Seq(Elem) /\ Len(g) = N
  /\ p \in [1 .. N -> 1 .. N] /\ \A n \in 1 .. N : g[n] = f[p[n]]
  /\ \A x \in 1 .. N : \E n \in 1 .. N : p[n] = x
  /\ \A m, n \in 1 .. N : m < n => \/ Key[g[m]] < Key[g[n]]
                                   \/ Key[g[m]] = Key[g[n]] /\ p[m] < p[n]

\* Then it is what Lists calls sorted.
LEMMA SortedIs ==
  ASSUME NEW N, NEW f, NEW g, NEW p, SortedBy(p, N, f, g)
  PROVE  g = Abstract!Sorted(f)
<1> DEFINE Before(i) == {j \in 1 .. N : \/ Key[f[j]] < Key[f[i]]
                                        \/ Key[f[j]] = Key[f[i]] /\ j < i}
           Less(m, n) == \/ Key[g[m]] < Key[g[n]]
                         \/ Key[g[m]] = Key[g[n]] /\ p[m] < p[n]
<1>1. /\ N \in Nat /\ f \in Seq(Elem) /\ Len(f) = N /\ g \in Seq(Elem) /\ Len(g) = N
      /\ DOMAIN f = 1 .. N /\ DOMAIN g = 1 .. N
      /\ p \in [1 .. N -> 1 .. N] /\ \A n \in 1 .. N : g[n] = f[p[n]]
  BY DEF SortedBy
<1>2. \A x \in 1 .. N : \E n \in 1 .. N : p[n] = x
  BY DEF SortedBy
<1>3. \A m, n \in 1 .. N : m < n => Less(m, n)
  BY DEF SortedBy
<1>4. /\ \A n \in 1 .. N : f[n] \in Elem /\ g[n] \in Elem /\ p[n] \in 1 .. N /\ p[n] \in Int
      /\ \A n \in 1 .. N : Key[f[n]] \in Int /\ Key[g[n]] \in Int
  <2>1. \A n \in 1 .. N : f[n] \in Elem /\ g[n] \in Elem
    BY <1>1, ElementOfSeq
  <2>2. \A n \in 1 .. N : p[n] \in 1 .. N /\ p[n] \in Int
    BY <1>1
  <2>3. \A e \in Elem : Key[e] \in Int
    BY KeyAssumption
  <2> QED BY <2>1, <2>2, <2>3
<1>5. ASSUME NEW a \in Int, NEW b \in Int, NEW x \in Int, NEW y \in Int
      PROVE  /\ a < b \/ (a = b /\ x < y) => ~(b < a \/ (b = a /\ y < x))
             /\ x = y => ~(a = b /\ x < y) /\ ~(a = b /\ y < x)
             /\ ~(a < a \/ (a = a /\ x < x))
  OBVIOUS
<1>6. \A m, n \in 1 .. N : m < n <=> Less(m, n)
  <2> TAKE m, n \in 1 .. N
  <2>1. m < n => Less(m, n)
    BY <1>3
  <2>2. ASSUME Less(m, n) PROVE m < n
    <3>1. n < m => Less(n, m)
      BY <1>3
    <3>2. ~Less(n, m) /\ m # n
      <4>1. Key[g[m]] \in Int /\ Key[g[n]] \in Int /\ p[m] \in Int /\ p[n] \in Int
        BY <1>4
      <4>2. Less(m, n) => ~Less(n, m)
        BY <1>5, <4>1
      <4>3. m = n => ~Less(m, n)
        BY <1>5, <4>1
      <4> QED BY <2>2, <4>2, <4>3
    <3>3. m \in Int /\ n \in Int
      OBVIOUS
    <3> HIDE DEF Less
    <3> QED BY <3>1, <3>2, <3>3
  <2> QED BY <2>1, <2>2
<1>7. \A m, n \in 1 .. N : p[m] = p[n] => m = n
  <2> TAKE m, n \in 1 .. N
  <2>1. m < n \/ m = n \/ n < m
    OBVIOUS
  <2>2. ASSUME p[m] = p[n] PROVE ~Less(m, n) /\ ~Less(n, m)
    <3>1. g[m] = g[n]
      BY <1>1, <2>2
    <3>2. Key[g[m]] \in Int /\ Key[g[n]] \in Int /\ p[m] \in Int /\ p[n] \in Int
      BY <1>4
    <3>3. Key[g[m]] = Key[g[n]]
      BY <3>1
    <3>4. ~(Key[g[m]] < Key[g[n]]) /\ ~(Key[g[n]] < Key[g[m]])
      BY <1>5, <3>2, <3>3
    <3>5. ~(p[m] < p[n]) /\ ~(p[n] < p[m])
      BY <1>5, <2>2, <3>2
    <3> QED BY <3>4, <3>5
  <2> HIDE DEF Less
  <2> QED BY <1>6, <2>1, <2>2
<1>8. ASSUME NEW n \in 1 .. N PROVE Cardinality(Before(p[n])) = n - 1
  <2> DEFINE q == [i \in 1 .. n - 1 |-> p[i]]
             B == Before(p[n])
  <2>1. n - 1 \in Nat /\ \A i \in 1 .. n - 1 : i \in 1 .. N /\ i < n
    BY <1>1
  <2>2. q \in [1 .. n - 1 -> Int] /\ \A i, j \in 1 .. n - 1 : q[i] = q[j] => i = j
    BY <1>4, <1>7, <2>1
  <2>3. B = {q[i] : i \in 1 .. n - 1}
    <3>1. ASSUME NEW j \in B PROVE \E i \in 1 .. n - 1 : j = q[i]
      <4>1. PICK i \in 1 .. N : p[i] = j
        BY <1>2
      <4>2. Less(i, n)
        BY <1>1, <1>4, <4>1
      <4>3. i < n
        BY <1>6, <4>2
      <4>4. i \in 1 .. n - 1
        BY <4>3
      <4> QED BY <4>1, <4>4
    <3>2. ASSUME NEW i \in 1 .. n - 1 PROVE q[i] \in B
      <4>1. Less(i, n)
        BY <1>6, <2>1
      <4> QED BY <1>1, <1>4, <2>1, <4>1
    <3> HIDE DEF q, B
    <3> QED BY <3>1, <3>2
  <2> HIDE DEF q, B
  <2>4. Cardinality(B) = n - 1
    BY <2>1, <2>2, <2>3, CountIs
  <2> QED BY <2>4 DEF B
<1>9. ASSUME NEW n \in 1 .. N
      PROVE  (CHOOSE i \in 1 .. N : Cardinality(Before(i)) = n - 1) = p[n]
  <2>1. p[n] \in 1 .. N /\ n \in Int
    BY <1>4
  <2>2. ASSUME NEW i \in 1 .. N, Cardinality(Before(i)) = n - 1 PROVE i = p[n]
    <3>1. PICK k \in 1 .. N : p[k] = i
      BY <1>2
    <3>2. Cardinality(Before(p[k])) = k - 1
      BY <1>8
    <3>3. k = n
      <4> HIDE DEF Before
      <4> QED BY <2>1, <2>2, <3>1, <3>2
    <3> QED BY <3>1, <3>3
  <2> HIDE DEF Before
  <2> QED BY <1>8, <2>1, <2>2
<1>10. Abstract!Sorted(f)
         = [n \in 1 .. N |-> f[CHOOSE i \in 1 .. N : Cardinality(Before(i)) = n - 1]]
  <2>1. Abstract!Sorted(f)
          = [n \in DOMAIN f |->
               f[CHOOSE i \in DOMAIN f :
                   Cardinality({j \in DOMAIN f :
                                  \/ Key[f[j]] < Key[f[i]]
                                  \/ Key[f[j]] = Key[f[i]] /\ j < i}) = n - 1]]
    BY Zenon DEF Abstract!Sorted, Abstract!Cardinality, Cardinality
  <2> QED BY <1>1, <2>1
<1>11. Abstract!Sorted(f) = [n \in 1 .. N |-> f[p[n]]]
  <2> HIDE DEF Before
  <2> QED BY <1>9, <1>10
<1>12. g = [n \in 1 .. N |-> g[n]]
  BY <1>1
<1> QED BY <1>1, <1>11, <1>12

-----------------------------------------------------------------------------
(* The operations that move elements are those of Lists.                   *)

\* What the lists hold.
Contents(c) == [l \in List |-> Inside(c[l])]

\* A walk over each list finds it.
LEMMA ViewIs ==
  ASSUME NEW h, NEW c, IsChains(c), Nexts(h, c)
  PROVE  [l \in List |-> Forward(h, l)] = Contents(c)
<1>1. \A l \in List : Forward(h, l) = Inside(c[l])
  BY WalkIs DEF Inside
<1> QED BY <1>1 DEF Contents

\* What one list holds, place by place.
LEMMA ContentsOf ==
  ASSUME NEW c, IsChains(c), NEW l \in List
  PROVE  /\ IsChain(c[l]) /\ Contents(c)[l] = Inside(c[l])
         /\ Inside(c[l]) \in Seq(Elem) /\ Len(Inside(c[l])) = Len(c[l]) - 2
         /\ \A i \in 1 .. Len(c[l]) - 2 : Inside(c[l])[i] = c[l][i + 1]
<1>1. IsChain(c[l])
  BY ChainOf DEF IsChain
<1> QED BY <1>1, InsideIs DEF Contents

\* When one chain changes, so does what its list holds.
LEMMA ContentsChange ==
  ASSUME NEW c, IsChains(c), NEW l \in List, NEW s
  PROVE  Contents([c EXCEPT ![l] = s]) = [Contents(c) EXCEPT ![l] = Inside(s)]
<1>1. c \in [List -> Seq(Node)]
  BY DEF IsChains
<1> DEFINE d == [c EXCEPT ![l] = s]
<1>2. \A m \in List : d[m] = IF m = l THEN s ELSE c[m]
  BY <1>1
<1> HIDE DEF d
<1>3. \A m \in List : Inside(d[m]) = IF m = l THEN Inside(s) ELSE Inside(c[m])
  BY <1>2
<1>4. Contents(d) = [Contents(c) EXCEPT ![l] = Inside(s)]
  BY <1>3 DEF Contents
<1> QED BY <1>4 DEF d

\* An element in no chain is in no list.
LEMMA FreeUnused ==
  ASSUME NEW c, IsChains(c), NEW e, Free(c, e)
  PROVE  e \notin Abstract!Used(Contents(c))
<1>1. ASSUME NEW l \in List, e \in Range(Contents(c)[l]) PROVE FALSE
  <2>1. PICK i \in DOMAIN Inside(c[l]) : e = Inside(c[l])[i]
    BY <1>1, ContentsOf DEF Range
  <2>2. i \in 1 .. Len(c[l]) - 2
    BY ContentsOf
  <2>3. e = c[l][i + 1]
    BY <2>1, <2>2, ContentsOf
  <2>4. i + 1 \in 1 .. Len(c[l])
    BY <2>2, ChainOf
  <2> QED BY <2>3, <2>4 DEF Free
<1> QED BY <1>1, SameOperators DEF Abstract!Used

\* An element put into a chain is inserted into its list.
LEMMA InsertStep ==
  ASSUME NEW c, IsChains(c), NEW l \in List, NEW k \in 2 .. Len(c[l]), NEW e \in Elem, Free(c, e)
  PROVE  LET d == [c EXCEPT ![l] = PutIn(@, k, <<e>>)]
         IN  /\ Abstract!Insert(Contents(c), Contents(d), l, k - 1, e)
             /\ k - 1 \in 1 .. Len(Contents(c)[l]) + 1
             /\ Abstract!Step(Contents(c), Contents(d))
<1> DEFINE s == c[l]
           f == Inside(s)
           d == [c EXCEPT ![l] = PutIn(@, k, <<e>>)]
<1>1. IsChain(s) /\ Contents(c)[l] = f
  BY ContentsOf
<1>2. <<e>> \in Seq(Elem) /\ (k - 1) - 1 = k - 2
  OBVIOUS
<1>3. /\ k - 1 \in 1 .. Len(f) + 1
      /\ Inside(PutIn(s, k, <<e>>)) = SubSeq(f, 1, k - 2) \o <<e>> \o SubSeq(f, k - 1, Len(f))
  BY <1>1, <1>2, InsidePut
<1>4. Contents(d) = [Contents(c) EXCEPT ![l] = Inside(PutIn(s, k, <<e>>))]
  BY ContentsChange
<1>5. Contents(d) = [Contents(c) EXCEPT ![l] = Abstract!InsertAt(@, k - 1, e)]
  BY <1>1, <1>2, <1>3, <1>4 DEF Abstract!InsertAt
<1>6. Abstract!Insert(Contents(c), Contents(d), l, k - 1, e)
  BY <1>5, FreeUnused DEF Abstract!Insert
<1>7. k - 1 \in 1 .. Len(Contents(c)[l]) + 1
  BY <1>1, <1>3
<1> HIDE DEF d
<1>8. Abstract!Step(Contents(c), Contents(d))
  BY <1>6, <1>7 DEF Abstract!Step
<1> QED BY <1>6, <1>7, <1>8 DEF d

\* The elements of a sequence but the one at k.
LEMMA RemovedIs ==
  ASSUME NEW S, NEW s \in Seq(S), NEW k \in 1 .. Len(s)
  PROVE  LET t == SubSeq(s, 1, k - 1) \o SubSeq(s, k + 1, Len(s))
         IN  /\ t \in Seq(S) /\ Len(t) = Len(s) - 1
             /\ \A n \in 1 .. Len(s) - 1 : t[n] = IF n < k THEN s[n] ELSE s[n + 1]
<1> DEFINE N == Len(s)
           a == SubSeq(s, 1, k - 1)
           b == SubSeq(s, k + 1, N)
           t == a \o b
<1>1. N \in Nat /\ (\A i \in 1 .. N : s[i] \in S) /\ k \in Nat /\ k >= 1 /\ k <= N
  BY ElementOfSeq
<1> HIDE DEF N
<1>2. a \in Seq(S) /\ Len(a) = k - 1 /\ \A i \in 1 .. k - 1 : a[i] = s[i]
  <2>1. \A i \in 1 .. k - 1 : s[i] \in S
    BY <1>1
  <2>2. /\ a \in Seq(S) /\ Len(a) = (IF 1 <= k - 1 THEN k - 1 - 1 + 1 ELSE 0)
        /\ \A i \in 1 .. k - 1 - 1 + 1 : a[i] = s[1 + i - 1]
    BY <1>1, <2>1, SubSeqProperties
  <2>3. k - 1 - 1 + 1 = k - 1 /\ \A i \in 1 .. k - 1 : 1 + i - 1 = i
    BY <1>1
  <2> HIDE DEF a
  <2>4. Len(a) = k - 1
    BY <1>1, <2>2
  <2> QED BY <2>2, <2>3, <2>4
<1>3. b \in Seq(S) /\ Len(b) = N - k /\ \A i \in 1 .. N - k : b[i] = s[k + i]
  <2>1. \A i \in k + 1 .. N : s[i] \in S
    BY <1>1
  <2>2. /\ b \in Seq(S) /\ Len(b) = (IF k + 1 <= N THEN N - (k + 1) + 1 ELSE 0)
        /\ \A i \in 1 .. N - (k + 1) + 1 : b[i] = s[k + 1 + i - 1]
    BY <1>1, <2>1, SubSeqProperties
  <2>3. N - (k + 1) + 1 = N - k /\ \A i \in 1 .. N - k : k + 1 + i - 1 = k + i
    BY <1>1
  <2> HIDE DEF b
  <2>4. Len(b) = N - k
    BY <1>1, <2>2
  <2> QED BY <2>2, <2>3, <2>4
<1> HIDE DEF a, b
<1>4. /\ t \in Seq(S) /\ Len(t) = Len(a) + Len(b)
      /\ \A i \in 1 .. Len(a) + Len(b) : t[i] = IF i <= Len(a) THEN a[i] ELSE b[i - Len(a)]
  BY <1>2, <1>3, ConcatProperties
<1> HIDE DEF t
<1>5. (k - 1) + (N - k) = N - 1
  BY <1>1
<1>6. ASSUME NEW n \in 1 .. N - 1
      PROVE  t[n] = IF n < k THEN s[n] ELSE s[n + 1]
  <2>1. t[n] = IF n <= k - 1 THEN a[n] ELSE b[n - (k - 1)]
    BY <1>2, <1>3, <1>4, <1>5
  <2>2. CASE n < k
    <3>1. n <= k - 1 /\ n \in 1 .. k - 1
      BY <1>1, <2>2
    <3> QED BY <1>2, <2>1, <2>2, <3>1
  <2>3. CASE ~(n < k)
    <3>1. ~(n <= k - 1) /\ n - (k - 1) \in 1 .. N - k /\ k + (n - (k - 1)) = n + 1
      BY <1>1, <2>3
    <3> QED BY <1>3, <2>1, <2>3, <3>1
  <2> QED BY <2>2, <2>3
<1>7. Len(t) = N - 1
  BY <1>2, <1>3, <1>4, <1>5
<1> QED BY <1>4, <1>6, <1>7 DEF t, a, b, N

\* An element cut out of a chain is deleted from its list.
LEMMA DeleteStep ==
  ASSUME NEW c, IsChains(c), NEW l \in List, NEW i \in 2 .. Len(c[l]) - 1
  PROVE  LET d == [c EXCEPT ![l] = CutOut(@, i, i)]
         IN  Abstract!Step(Contents(c), Contents(d))
<1> DEFINE s == c[l]
           f == Inside(s)
           g == Inside(CutOut(s, i, i))
           t == SubSeq(f, 1, i - 1 - 1) \o SubSeq(f, i - 1 + 1, Len(f))
           d == [c EXCEPT ![l] = CutOut(@, i, i)]
<1>1. /\ IsChain(s) /\ Contents(c)[l] = f /\ f \in Seq(Elem) /\ Len(f) = Len(s) - 2
      /\ Len(s) \in Nat /\ i \in Nat /\ i - 1 \in 1 .. Len(s) - 2
  BY ContentsOf, ChainOf
<1>2. i \in i .. Len(s) - 1 /\ i - i + 1 = 1
  BY <1>1
<1>3. /\ g \in Seq(Elem) /\ Len(g) = Len(f) - (i - i + 1)
      /\ \A n \in 1 .. Len(f) - (i - i + 1) : g[n] = IF n < i - 1 THEN f[n] ELSE f[n + (i - i + 1)]
  <2>1. IsChain(s) /\ i \in 2 .. Len(s) - 1 /\ i \in i .. Len(s) - 1
    BY <1>1, <1>2
  <2> HIDE DEF s
  <2> QED BY <2>1, InsideCut
<1>4. /\ t \in Seq(Elem) /\ Len(t) = Len(f) - 1
      /\ \A n \in 1 .. Len(f) - 1 : t[n] = IF n < i - 1 THEN f[n] ELSE f[n + 1]
  <2>1. i - 1 \in 1 .. Len(f)
    BY <1>1
  <2>2. f \in Seq(Elem)
    BY <1>1
  <2> HIDE DEF f
  <2> QED BY <2>1, <2>2, RemovedIs
<1> HIDE DEF s, f, g, t
<1>5. g = t
  <2>1. Len(f) - 1 \in Nat
    BY <1>1
  <2>2. /\ Len(g) = Len(f) - 1
        /\ \A n \in 1 .. Len(f) - 1 : g[n] = IF n < i - 1 THEN f[n] ELSE f[n + 1]
    BY <1>2, <1>3
  <2>3. \A n \in 1 .. Len(f) - 1 : g[n] = t[n]
    BY <1>4, <2>2
  <2> QED BY <1>3, <1>4, <2>1, <2>2, <2>3, SameSeq
<1>6. Contents(d) = [Contents(c) EXCEPT ![l] = g]
  BY ContentsChange DEF g, s
<1>7. t = Abstract!RemoveAt(f, i - 1)
  BY DEF t, Abstract!RemoveAt
<1>8. Contents(d) = [Contents(c) EXCEPT ![l] = Abstract!RemoveAt(@, i - 1)]
  BY <1>1, <1>5, <1>6, <1>7
<1>9. Abstract!Delete(Contents(c), Contents(d), l, i - 1)
  BY <1>8 DEF Abstract!Delete
<1>10. i - 1 \in DOMAIN Contents(c)[l]
  BY <1>1
<1> HIDE DEF d
<1>11. Abstract!Step(Contents(c), Contents(d))
  BY <1>9, <1>10 DEF Abstract!Step
<1> QED BY <1>11 DEF d

\* A chain turned around is a list reversed.
LEMMA ReverseStep ==
  ASSUME NEW c, IsChains(c), NEW l \in List, TurnAround(c[l]) \in Seq(Node),
         Len(TurnAround(c[l])) = Len(c[l])
  PROVE  LET d == [c EXCEPT ![l] = TurnAround(@)]
         IN  Abstract!Step(Contents(c), Contents(d))
<1> DEFINE s == c[l]
           N == Len(s)
           f == Inside(s)
           r == TurnAround(s)
           g == Inside(r)
           d == [c EXCEPT ![l] = TurnAround(@)]
<1>1. /\ IsChain(s) /\ Contents(c)[l] = f /\ f \in Seq(Elem) /\ Len(f) = N - 2
      /\ N \in Nat /\ N >= 2 /\ (\A n \in 1 .. N - 2 : f[n] = s[n + 1])
      /\ (\A n \in 2 .. N - 1 : s[n] \in Elem)
  BY ContentsOf, ChainOf
<1>2. ASSUME NEW n \in 2 .. N - 1 PROVE r[n] = s[N - n + 1] /\ N - n + 1 \in 2 .. N - 1
  <2>1. n \in 1 .. N /\ n # 1 /\ n # N /\ N - n + 1 \in 2 .. N - 1
    <3> HIDE DEF N
    <3> QED BY <1>1
  <2> HIDE DEF s
  <2> QED BY <2>1 DEF TurnAround
<1> HIDE DEF s, f, r
<1>3. IsChain(r)
  <2>1. r \in Seq(Node) /\ Len(r) = N
    BY DEF r, s
  <2> QED BY <1>1, <1>2, <2>1 DEF IsChain
<1>4. g \in Seq(Elem) /\ Len(g) = N - 2 /\ \A n \in 1 .. N - 2 : g[n] = r[n + 1]
  <2>1. Len(r) = N
    BY DEF r, s
  <2> QED BY <1>3, <2>1, InsideIs
<1> HIDE DEF g
<1>5. ASSUME NEW n \in 1 .. N - 2 PROVE g[n] = f[(N - 2) - n + 1]
  <2> HIDE DEF N
  <2>1. /\ n + 1 \in 2 .. N - 1 /\ N - (n + 1) + 1 = N - n /\ (N - 2) - n + 1 \in 1 .. N - 2
        /\ ((N - 2) - n + 1) + 1 = N - n
    BY <1>1
  <2> QED BY <1>1, <1>2, <1>4, <2>1
<1>6. g = Reverse(f)
  <2>1. Reverse(f) = [n \in 1 .. N - 2 |-> f[(N - 2) - n + 1]]
    BY <1>1 DEF Reverse
  <2>2. g = [n \in 1 .. N - 2 |-> g[n]]
    BY <1>4
  <2> QED BY <1>5, <2>1, <2>2
<1>7. Contents(d) = [Contents(c) EXCEPT ![l] = g]
  BY ContentsChange DEF g, r, s
<1>8. Contents(d) = [Contents(c) EXCEPT ![l] = Abstract!Reverse(@)]
  BY <1>1, <1>6, <1>7, SameOperators
<1> HIDE DEF d
<1>9. Abstract!Step(Contents(c), Contents(d))
  BY <1>8 DEF Abstract!Step, Abstract!Reversal
<1> QED BY <1>9 DEF d

\* What is cut out of a chain is what Lists picks away, and the part what it takes.
LEMMA CutPicks ==
  ASSUME NEW s, IsChain(s), NEW i \in 2 .. Len(s) - 1, NEW j \in i .. Len(s) - 1
  PROVE  LET f == Inside(s)
         IN  /\ Inside(CutOut(s, i, j)) = Abstract!Pick(f, DOMAIN f \ (i - 1 .. j - 1))
             /\ Part(s, i, j) = SubSeq(f, i - 1, j - 1) /\ Part(s, i, j) \in Seq(Elem)
<1> DEFINE N == Len(s)
           k == j - i + 1
           M == N - 2 - k
           f == Inside(s)
           g == Inside(CutOut(s, i, j))
           P == DOMAIN f \ (i - 1 .. j - 1)
           p == [n \in 1 .. M |-> IF n < i - 1 THEN n ELSE n + k]
           t == SubSeq(f, i - 1, j - 1)
           u == Part(s, i, j)
<1>1. /\ N \in Nat /\ i \in Nat /\ j \in Nat /\ i >= 2 /\ i <= j /\ j <= N - 1
      /\ k \in Nat /\ k >= 1
      /\ f \in Seq(Elem) /\ Len(f) = N - 2 /\ (\A n \in 1 .. N - 2 : f[n] = s[n + 1])
      /\ M \in Nat /\ k = j - i + 1 /\ M = N - 2 - k
  <2>1. N \in Nat /\ N >= 2
    BY DEF IsChain
  <2>2. /\ f \in Seq(Elem) /\ Len(f) = N - 2 /\ (\A n \in 1 .. N - 2 : f[n] = s[n + 1])
    BY InsideIs
  <2> HIDE DEF N, f
  <2> QED BY <2>1, <2>2 DEF N
<1>2. g \in Seq(Elem) /\ Len(g) = M /\ \A n \in 1 .. M : g[n] = IF n < i - 1 THEN f[n] ELSE f[n + k]
  <2>1. /\ g \in Seq(Elem) /\ Len(g) = Len(f) - k
        /\ \A n \in 1 .. Len(f) - k : g[n] = IF n < i - 1 THEN f[n] ELSE f[n + k]
    BY InsideCut
  <2> HIDE DEF g, f, k
  <2>2. Len(f) - k = M
    BY <1>1
  <2> QED BY <2>1, <2>2
<1>3. DOMAIN f = 1 .. N - 2
  BY <1>1
<1> HIDE DEF N, k, M, f, g
<1>4. Enumerates(p, M, P)
  <2>1. p \in [1 .. M -> Int]
    BY <1>1
  <2>2. \A n \in 1 .. M : p[n] = IF n < i - 1 THEN n ELSE n + k
    OBVIOUS
  <2> HIDE DEF p
  <2>3. ASSUME NEW x \in 1 .. M, NEW y \in 1 .. M, x < y PROVE p[x] < p[y]
    <3>1. \A a, b, e, z \in Int :
            e >= 1 /\ a < b => (IF a < z THEN a ELSE a + e) < (IF b < z THEN b ELSE b + e)
      OBVIOUS
    <3>2. x \in Int /\ y \in Int /\ k \in Int /\ k >= 1 /\ i - 1 \in Int
      BY <1>1
    <3> HIDE DEF p
    <3> QED BY <2>2, <2>3, <3>1, <3>2
  <2>4. P = {p[n] : n \in 1 .. M}
    <3>1. ASSUME NEW x \in P PROVE \E n \in 1 .. M : x = p[n]
      <4>1. x \in 1 .. N - 2 /\ (x < i - 1 \/ x > j - 1)
        BY <1>1, <1>3
      <4>2. CASE x < i - 1
        <5>1. x \in 1 .. M
          BY <1>1, <4>1, <4>2
        <5> QED BY <2>2, <4>2, <5>1
      <4>3. CASE x > j - 1
        <5>1. x - k \in 1 .. M /\ ~(x - k < i - 1) /\ (x - k) + k = x
          BY <1>1, <4>1, <4>3
        <5>2. p[x - k] = x
          BY <2>2, <5>1
        <5> QED BY <5>1, <5>2
      <4> QED BY <4>1, <4>2, <4>3
    <3>2. ASSUME NEW n \in 1 .. M PROVE p[n] \in P
      <4>1. p[n] \in 1 .. N - 2 /\ p[n] \notin i - 1 .. j - 1
        <5>1. p[n] = IF n < i - 1 THEN n ELSE n + k
          BY <2>2
        <5> QED BY <1>1, <5>1
      <4> QED BY <1>3, <4>1
    <3> HIDE DEF P
    <3> QED BY <3>1, <3>2
  <2> QED BY <1>1, <2>1, <2>3, <2>4 DEF Enumerates
<1>5. g = [n \in 1 .. M |-> f[p[n]]]
  <2>1. \A n \in 1 .. M : g[n] = f[p[n]]
    BY <1>2
  <2>2. g = [n \in 1 .. M |-> g[n]]
    BY <1>2
  <2> HIDE DEF p
  <2> QED BY <2>1, <2>2
<1>6. g = Abstract!Pick(f, P)
  <2> HIDE DEF p, P
  <2> QED BY <1>4, <1>5, PickIs
<1>7. t \in Seq(Elem) /\ Len(t) = k /\ \A n \in 1 .. k : t[n] = f[i - 1 + n - 1]
  <2>1. \A n \in i - 1 .. j - 1 : f[n] \in Elem
    <3>1. \A n \in i - 1 .. j - 1 : n \in 1 .. Len(f)
      BY <1>1
    <3> QED BY <1>1, <3>1, ElementOfSeq
  <2>2. /\ t \in Seq(Elem) /\ Len(t) = (IF i - 1 <= j - 1 THEN j - 1 - (i - 1) + 1 ELSE 0)
        /\ \A n \in 1 .. j - 1 - (i - 1) + 1 : t[n] = f[i - 1 + n - 1]
    <3>1. ASSUME NEW x \in Int, NEW y \in Int, \A n \in x .. y : f[n] \in Elem
          PROVE  /\ SubSeq(f, x, y) \in Seq(Elem)
                 /\ Len(SubSeq(f, x, y)) = (IF x <= y THEN y - x + 1 ELSE 0)
                 /\ \A n \in 1 .. y - x + 1 : SubSeq(f, x, y)[n] = f[x + n - 1]
      BY <3>1, SubSeqProperties
    <3>2. i - 1 \in Int /\ j - 1 \in Int
      BY <1>1
    <3> QED BY <2>1, <3>1, <3>2
  <2>3. j - 1 - (i - 1) + 1 = k /\ i - 1 <= j - 1
    BY <1>1
  <2> HIDE DEF t
  <2> QED BY <2>2, <2>3
<1>8. u = t
  <2>1. u = [n \in 1 .. k |-> s[n + i - 1]]
    BY DEF Part, k
  <2> HIDE DEF t, u
  <2>2. ASSUME NEW n \in 1 .. k PROVE t[n] = s[n + i - 1]
    <3>1. i - 1 + n - 1 \in 1 .. N - 2 /\ (i - 1 + n - 1) + 1 = n + i - 1
      BY <1>1
    <3> QED BY <1>1, <1>7, <3>1
  <2>3. t = [n \in 1 .. k |-> t[n]]
    BY <1>7
  <2> QED BY <2>1, <2>2, <2>3
<1> QED BY <1>6, <1>7, <1>8 DEF f, g

\* A part that goes from one chain into another, or to another place of its own, goes as
\* Lists says.
LEMMA SpliceStep ==
  ASSUME NEW c, IsChains(c), NEW l \in List, NEW m \in List,
         NEW i \in 2 .. Len(c[l]) - 1, NEW j \in i .. Len(c[l]) - 1, NEW k \in 2 .. Len(c[m]),
         ~(m = l /\ i <= k /\ k <= j)
  PROVE  LET d == [c EXCEPT ![l] = CutOut(@, i, j)]
             e == [d EXCEPT ![m] = PutIn(@, PlaceAfter(k, m = l, i, j), Part(c[l], i, j))]
         IN  Abstract!Step(Contents(c), Contents(e))
<1> DEFINE s == c[l]
           f == Inside(s)
           p == Part(s, i, j)
           cut == CutOut(s, i, j)
           d == [c EXCEPT ![l] = CutOut(@, i, j)]
           b == PlaceAfter(k, m = l, i, j)
           put == PutIn(d[m], b, p)
           e == [d EXCEPT ![m] = PutIn(@, b, p)]
           rest == Abstract!Pick(f, DOMAIN f \ (i - 1 .. j - 1))
           dest == IF l = m THEN rest ELSE Contents(c)[m]
           at == IF l = m /\ k - 1 > j - 1 THEN k - 1 - (j - 1 - (i - 1) + 1) ELSE k - 1
<1>1. /\ Len(s) \in Nat /\ Len(c[m]) \in Nat /\ i \in Nat /\ j \in Nat /\ k \in Nat
      /\ i >= 2 /\ i <= j /\ j <= Len(s) - 1 /\ k >= 2 /\ k <= Len(c[m])
  BY ChainOf
<1>2. /\ IsChain(s) /\ Contents(c)[l] = f /\ f \in Seq(Elem) /\ Len(f) = Len(s) - 2
      /\ c \in [List -> Seq(Node)]
  BY ContentsOf DEF IsChains
<1>3. Inside(cut) = rest /\ p = SubSeq(f, i - 1, j - 1) /\ p \in Seq(Elem)
  BY <1>2, CutPicks
<1>4. IsChains(d)
  BY CutChains
<1>5. Contents(d) = [Contents(c) EXCEPT ![l] = rest]
  <2>1. Contents([c EXCEPT ![l] = cut]) = [Contents(c) EXCEPT ![l] = Inside(cut)]
    BY ContentsChange
  <2> HIDE DEF rest
  <2> QED BY <1>3, <2>1
<1>6. d[m] = IF m = l THEN cut ELSE c[m]
  BY <1>2
<1>7. b \in 2 .. Len(d[m]) /\ b - 1 = at
  <2>1. CASE m = l
    <3>1. Len(cut) = Len(s) - (j - i + 1)
      BY <1>2, CutIs DEF IsChain
    <3>2. d[m] = cut
      BY <1>6, <2>1
    <3>3. k < i \/ k > j
      BY <1>1, <2>1
    <3>4. b = IF k > j THEN k - (j - i + 1) ELSE k
      BY <2>1 DEF PlaceAfter
    <3>5. at = IF k - 1 > j - 1 THEN k - 1 - (j - 1 - (i - 1) + 1) ELSE k - 1
      BY <2>1
    <3>6. Len(c[m]) = Len(s)
      BY <2>1
    <3> HIDE DEF d, cut, b, s, at
    <3> QED BY <1>1, <3>1, <3>2, <3>3, <3>4, <3>5, <3>6
  <2>2. CASE m # l
    <3>1. d[m] = c[m] /\ b = k /\ at = k - 1
      BY <1>6, <2>2 DEF PlaceAfter
    <3> QED BY <1>1, <3>1
  <2> QED BY <2>1, <2>2
<1>8. Inside(d[m]) = dest /\ IsChain(d[m])
  <2>1. IsChain(d[m]) /\ Contents(d)[m] = Inside(d[m])
    BY <1>4, ContentsOf
  <2>2. Contents(d)[m] = IF m = l THEN rest ELSE Contents(c)[m]
    <3> HIDE DEF d, rest
    <3> QED BY <1>5 DEF Contents
  <2> HIDE DEF d, rest
  <2> QED BY <2>1, <2>2
<1> HIDE DEF d, rest, b, dest, at, s, p
<1>9. Inside(put) = SubSeq(dest, 1, at - 1) \o p \o SubSeq(dest, at, Len(dest))
  <2>1. Inside(put) = SubSeq(dest, 1, b - 2) \o p \o SubSeq(dest, b - 1, Len(dest))
    BY <1>3, <1>7, <1>8, InsidePut
  <2>2. b - 2 = at - 1
    BY <1>7
  <2> QED BY <1>7, <2>1, <2>2
<1>10. Contents(e) = [Contents(d) EXCEPT ![m] = Inside(put)]
  BY <1>4, ContentsChange
<1>11. Contents(e) = [Contents(c) EXCEPT ![l] = rest,
                                         ![m] = SubSeq(dest, 1, at - 1) \o p
                                                   \o SubSeq(dest, at, Len(dest))]
  BY <1>5, <1>9, <1>10
<1>12. /\ i - 1 \in DOMAIN f /\ j - 1 \in DOMAIN f /\ i - 1 <= j - 1
       /\ k - 1 \in 1 .. Len(Contents(c)[m]) + 1
  <2>1. Len(Contents(c)[m]) = Len(c[m]) - 2
    BY ContentsOf
  <2>2. i - 1 \in 1 .. Len(f) /\ j - 1 \in 1 .. Len(f) /\ i - 1 <= j - 1
    <3> HIDE DEF f
    <3> QED BY <1>1, <1>2
  <2>3. k - 1 \in 1 .. Len(Contents(c)[m]) + 1
    BY <1>1, <2>1
  <2> HIDE DEF f
  <2> QED BY <1>2, <2>2, <2>3
<1>13. l = m => k - 1 \notin i - 1 .. j - 1
  BY <1>1
<1> HIDE DEF e, f
<1>14. Abstract!Splice(Contents(c), Contents(e), l, i - 1, j - 1, m, k - 1)
  BY <1>2, <1>3, <1>11, <1>13 DEF Abstract!Splice, rest, dest, at
<1>15. Abstract!Step(Contents(c), Contents(e))
  <2>1. i - 1 \in DOMAIN Contents(c)[l] /\ j - 1 \in DOMAIN Contents(c)[l]
    BY <1>2, <1>12
  <2> QED BY <1>12, <1>14, <2>1 DEF Abstract!Step
<1> QED BY <1>15 DEF e, d, b, p, s

-----------------------------------------------------------------------------
(* list_insert_ordered.                                                    *)

\* The elements at the places from a to b are in the order of their keys.
InOrder(s, a, b) == \A m, n \in a .. b : m <= n => Key[s[m]] <= Key[s[n]]

\* They are if each neighbours are.
LEMMA NeighboursInOrder ==
  ASSUME NEW s, NEW a \in Nat, NEW b \in Nat, \A n \in a .. b : s[n] \in Elem,
         \A n \in a + 1 .. b : ~less(s[n], s[n - 1])
  PROVE  InOrder(s, a, b)
<1>1. \A n \in a .. b : Key[s[n]] \in Int
  BY KeyAssumption
<1>2. \A n \in a + 1 .. b : Key[s[n - 1]] <= Key[s[n]]
  <2> TAKE n \in a + 1 .. b
  <2>1. n \in a .. b /\ n - 1 \in a .. b
    OBVIOUS
  <2>2. Key[s[n]] \in Int /\ Key[s[n - 1]] \in Int
    BY <1>1, <2>1
  <2>3. ~(Key[s[n]] < Key[s[n - 1]])
    BY DEF less
  <2>4. \A x, y \in Int : ~(x < y) => y <= x
    OBVIOUS
  <2> QED BY <2>2, <2>3, <2>4
<1>3. ASSUME NEW m \in a .. b, NEW n \in a .. b, m <= n PROVE Key[s[m]] <= Key[s[n]]
  <2> DEFINE k == n - m + 1
             P == {i \in 1 .. k : Key[s[m]] <= Key[s[m + i - 1]]}
  <2>1. k \in Nat /\ k \in 1 .. k /\ 1 \in 1 .. k /\ m + 1 - 1 = m /\ m + k - 1 = n
    BY <1>3
  <2>2. 1 \in P
    <3>1. Key[s[m]] \in Int
      BY <1>1
    <3>2. Key[s[m]] <= Key[s[m]]
      BY <3>1
    <3> QED BY <2>1, <3>2
  <2>3. ASSUME NEW i \in 1 .. k, i \in P, i + 1 <= k PROVE i + 1 \in P
    <3>1. /\ i + 1 \in 1 .. k /\ m + (i + 1) - 1 \in a + 1 .. b /\ m + (i + 1) - 1 \in a .. b
          /\ (m + (i + 1) - 1) - 1 = m + i - 1 /\ m + i - 1 \in a .. b
      BY <1>3, <2>3
    <3>2. Key[s[m]] <= Key[s[m + i - 1]]
      BY <2>3
    <3>3. Key[s[m + i - 1]] <= Key[s[m + (i + 1) - 1]]
      BY <1>2, <3>1
    <3>4. Key[s[m]] \in Int /\ Key[s[m + i - 1]] \in Int /\ Key[s[m + (i + 1) - 1]] \in Int
      BY <1>1, <3>1
    <3>5. Key[s[m]] <= Key[s[m + (i + 1) - 1]]
      <4>1. \A x, y, z \in Int : x <= y /\ y <= z => x <= z
        OBVIOUS
      <4> QED BY <3>2, <3>3, <3>4, <4>1
    <3> QED BY <3>1, <3>5
  <2> HIDE DEF k, P
  <2>4. \A i \in 1 .. k : i \in P
    BY <2>1, <2>2, <2>3, Climb
  <2>5. k \in P
    BY <2>1, <2>4
  <2> QED BY <2>1, <2>5 DEF P
<1> QED BY <1>3 DEF InOrder

\* A chain that never falls is sorted.
LEMMA SortedChain ==
  ASSUME NEW s, IsChain(s), Falls(s) = {}
  PROVE  InOrder(s, 2, Len(s) - 1) /\ Inside(s) = Abstract!Sorted(Inside(s))
<1> DEFINE N == Len(s)
           f == Inside(s)
           M == N - 2
           p == [n \in 1 .. M |-> n]
<1>1. N \in Nat /\ N >= 2 /\ \A n \in 2 .. N - 1 : s[n] \in Elem
  BY DEF IsChain
<1>2. f \in Seq(Elem) /\ Len(f) = M /\ \A i \in 1 .. M : f[i] = s[i + 1]
  BY InsideIs
<1>3. InOrder(s, 2, N - 1)
  <2>1. \A n \in 3 .. N - 1 : ~less(s[n], s[n - 1])
    BY DEF Falls
  <2> HIDE DEF N
  <2>2. ASSUME NEW b \in Nat, b = N - 1 PROVE InOrder(s, 2, b)
    <3>1. \A n \in 2 .. b : s[n] \in Elem
      BY <1>1, <2>2
    <3>2. \A n \in 2 + 1 .. b : ~less(s[n], s[n - 1])
      BY <2>1, <2>2
    <3> QED BY <3>1, <3>2, NeighboursInOrder
  <2>3. N - 1 \in Nat
    BY <1>1
  <2> QED BY <2>2, <2>3
<1>4. M \in Nat
  BY <1>1
<1> HIDE DEF f, M
<1>5. /\ p \in [1 .. M -> 1 .. M] /\ \A n \in 1 .. M : p[n] = n
  OBVIOUS
<1> HIDE DEF p
<1>6. ASSUME NEW m \in 1 .. M, NEW n \in 1 .. M, m < n
      PROVE  Key[f[m]] < Key[f[n]] \/ (Key[f[m]] = Key[f[n]] /\ p[m] < p[n])
  <2>1. m + 1 \in 2 .. N - 1 /\ n + 1 \in 2 .. N - 1 /\ m + 1 <= n + 1
    BY <1>1, <1>6 DEF M
  <2>2. Key[s[m + 1]] <= Key[s[n + 1]]
    BY <1>3, <2>1 DEF InOrder
  <2>3. s[m + 1] \in Elem /\ s[n + 1] \in Elem
    BY <1>1, <2>1
  <2>4. Key[f[m]] <= Key[f[n]] /\ Key[f[m]] \in Int /\ Key[f[n]] \in Int
    BY <1>2, <2>2, <2>3, KeyAssumption
  <2>5. Key[f[m]] < Key[f[n]] \/ Key[f[m]] = Key[f[n]]
    BY <2>4
  <2> QED BY <1>5, <1>6, <2>5
<1>7. SortedBy(p, M, f, f)
  <2>1. \A x \in 1 .. M : \E n \in 1 .. M : p[n] = x
    BY <1>5
  <2>2. \A n \in 1 .. M : f[n] = f[p[n]]
    BY <1>5
  <2> QED BY <1>2, <1>4, <1>5, <1>6, <2>1, <2>2 DEF SortedBy
<1> QED BY <1>3, <1>7, SortedIs DEF f, N

\* list_insert_ordered inserts behind all elements that are not greater.
LEMMA OrderedStep ==
  ASSUME NEW h, NEW c, Shape(h, c), NEW l \in List, NEW e \in Elem, Free(c, e), Falls(c[l]) = {}
  PROVE  \E d : Shape(list_insert_ordered(h, l, e), d) /\ Abstract!Step(Contents(c), Contents(d))
<1> DEFINE S == {list_end(l)} \cup {n \in Elem : less(e, n)}
           N == Len(c[l])
           f == Inside(c[l])
           Q == {i \in DOMAIN f : Key[f[i]] <= Key[e]}
<1>1. /\ N \in Nat /\ N >= 2 /\ c[l][1] = list_head(l) /\ c[l][N] = list_end(l)
      /\ \A n \in 2 .. N - 1 : c[l][n] \in Elem
  BY ChainOf DEF Shape
<1>2. 1 \in 1 .. N /\ 1 # N /\ 1 + 1 = 2 /\ 2 \in 1 .. N
  BY <1>1
<1>3. list_begin(h, l) = c[l][2]
  BY <1>1, <1>2, LinksAt DEF list_begin
<1>4. PICK j \in 2 .. N : /\ FirstIn(h, c[l][2], S) = c[l][j] /\ c[l][j] \in S
                          /\ \A n \in 2 .. j - 1 : c[l][n] \notin S
  <2>1. list_end(l) \in S
    OBVIOUS
  <2> HIDE DEF S
  <2> QED BY <1>2, <2>1, FirstFound
<1> DEFINE d == [c EXCEPT ![l] = PutIn(@, j, <<e>>)]
<1>5. Shape(Run(h, list_insert(h, c[l][j], e)), d)
  BY InsertKeeps DEF Free
<1>6. Abstract!Insert(Contents(c), Contents(d), l, j - 1, e)
  BY InsertStep DEF Shape
<1>7. /\ IsChain(c[l]) /\ f \in Seq(Elem) /\ Len(f) = N - 2
      /\ \A i \in 1 .. N - 2 : f[i] = c[l][i + 1]
      /\ Contents(c)[l] = f
  BY ContentsOf DEF Shape
<1>8. InOrder(c[l], 2, N - 1) /\ f = Abstract!Sorted(f)
  BY <1>7, SortedChain
<1>9. Q = 1 .. j - 2
  <2>1. DOMAIN f = 1 .. N - 2
    BY <1>7
  <2>2. ASSUME NEW i \in 1 .. N - 2 PROVE Key[f[i]] <= Key[e] <=> i <= j - 2
    <3>1. i + 1 \in 2 .. N - 1 /\ f[i] = c[l][i + 1] /\ c[l][i + 1] \in Elem
      <4>1. i + 1 \in 2 .. N - 1
        BY <1>1
      <4> QED BY <1>1, <1>7, <4>1
    <3>2. Key[f[i]] \in Int /\ Key[e] \in Int
      BY <3>1, KeyAssumption
    <3>3. CASE i <= j - 2
      <4>1. i + 1 \in 2 .. j - 1
        BY <3>3
      <4>2. ~less(e, c[l][i + 1])
        BY <1>4, <3>1, <4>1
      <4> QED BY <3>1, <3>2, <3>3, <4>2 DEF less
    <3>4. CASE ~(i <= j - 2)
      <4> HIDE DEF N
      <4>1. j \in 2 .. N - 1 /\ j <= i + 1
        BY <1>1, <3>1, <3>4
      <4>2. c[l][j] \in Elem /\ c[l][j] # list_end(l)
        BY <1>1, <4>1, NodesApart
      <4>3. less(e, c[l][j])
        BY <1>4, <4>2
      <4>4. Key[c[l][j]] <= Key[c[l][i + 1]]
        BY <1>8, <3>1, <4>1 DEF InOrder
      <4>5. Key[c[l][j]] \in Int /\ Key[e] < Key[c[l][j]]
        BY <4>2, <4>3, KeyAssumption DEF less
      <4>6. Key[c[l][j]] <= Key[f[i]]
        BY <3>1, <4>4
      <4>7. \A x, y, z \in Int : x < y /\ y <= z => ~(z <= x)
        OBVIOUS
      <4>8. ~(Key[f[i]] <= Key[e])
        BY <3>2, <4>5, <4>6, <4>7
      <4> QED BY <3>4, <4>8
    <3> QED BY <3>3, <3>4
  <2>3. Q = {i \in 1 .. N - 2 : i <= j - 2}
    BY <2>1, <2>2
  <2> HIDE DEF N, Q
  <2> QED BY <1>1, <2>3
<1>10. Cardinality(Q) + 1 = j - 1
  <2> DEFINE p == [i \in 1 .. j - 2 |-> i]
  <2>1. /\ j - 2 \in Nat /\ p \in [1 .. j - 2 -> Int]
        /\ \A x, y \in 1 .. j - 2 : p[x] = p[y] => x = y
    OBVIOUS
  <2>2. Q = {p[i] : i \in 1 .. j - 2}
    <3> HIDE DEF Q
    <3> QED BY <1>9
  <2> HIDE DEF p, Q
  <2>3. Cardinality(Q) = j - 2
    BY <2>1, <2>2, CountIs
  <2> QED BY <2>3
<1>11. Abstract!InsertOrdered(Contents(c), Contents(d), l, e)
  <2>1. Contents(c)[l] = Abstract!Sorted(Contents(c)[l])
    BY <1>7, <1>8
  <2>2. Cardinality({i \in DOMAIN Contents(c)[l] : Key[Contents(c)[l][i]] <= Key[e]}) + 1 = j - 1
    BY <1>7, <1>10
  <2>3. Abstract!Cardinality({i \in DOMAIN Contents(c)[l] : Key[Contents(c)[l][i]] <= Key[e]}) + 1
          = j - 1
    BY <2>2, Zenon DEF Abstract!Cardinality, Cardinality
  <2> HIDE DEF d
  <2> QED BY <1>6, <2>1, <2>3 DEF Abstract!InsertOrdered
<1>12. Shape(list_insert_ordered(h, l, e), d)
  BY <1>3, <1>4, <1>5 DEF list_insert_ordered
<1> HIDE DEF d
<1>13. Abstract!Step(Contents(c), Contents(d))
  BY <1>11 DEF Abstract!Step
<1> QED BY <1>12, <1>13

-----------------------------------------------------------------------------
(* list_unique.                                                            *)

\* Numbers that can be taken in their order.
Listable(P) == \E f, m : Enumerates(f, m, P)

\* None is picked of no places.
LEMMA PickNone ==
  ASSUME NEW s
  PROVE  Listable({}) /\ Abstract!Pick(s, {}) = <<>>
<1> DEFINE f == [n \in 1 .. 0 |-> 0]
<1>1. f \in [1 .. 0 -> Int] /\ {} = {f[n] : n \in 1 .. 0} /\ 0 \in Nat
      /\ \A i, j \in 1 .. 0 : i < j => f[i] < f[j]
  OBVIOUS
<1> HIDE DEF f
<1>2. Enumerates(f, 0, {})
  BY <1>1 DEF Enumerates
<1>3. Abstract!Pick(s, {}) = [n \in 1 .. 0 |-> s[f[n]]]
  BY <1>2, PickIs
<1> QED BY <1>2, <1>3 DEF Listable

\* A place behind all others is picked last.
LEMMA PickNext ==
  ASSUME NEW s, NEW P, Listable(P), NEW z \in Int,
         \A y \in P : y < z /\ s[y] \in Elem, s[z] \in Elem
  PROVE  /\ Listable(P \cup {z}) /\ Abstract!Pick(s, P) \in Seq(Elem)
         /\ Abstract!Pick(s, P \cup {z}) = Append(Abstract!Pick(s, P), s[z])
<1>1. PICK f, m : Enumerates(f, m, P)
  BY DEF Listable
<1>2. /\ m \in Nat /\ f \in [1 .. m -> Int] /\ P = {f[n] : n \in 1 .. m}
      /\ \A i, j \in 1 .. m : i < j => f[i] < f[j]
  BY <1>1 DEF Enumerates
<1> DEFINE g == [n \in 1 .. m + 1 |-> IF n <= m THEN f[n] ELSE z]
           R == P \cup {z}
<1>3. \A n \in 1 .. m + 1 : g[n] = IF n <= m THEN f[n] ELSE z
  OBVIOUS
<1>4. g \in [1 .. m + 1 -> Int]
  <2>1. \A n \in 1 .. m + 1 : (IF n <= m THEN f[n] ELSE z) \in Int
    BY <1>2
  <2> QED BY <2>1
<1> HIDE DEF g
<1>5. R = {g[n] : n \in 1 .. m + 1}
  <2>1. ASSUME NEW x \in R PROVE \E n \in 1 .. m + 1 : x = g[n]
    <3>1. CASE x \in P
      <4>1. PICK n \in 1 .. m : x = f[n]
        BY <1>2, <3>1
      <4>2. n \in 1 .. m + 1 /\ n <= m
        BY <1>2
      <4> QED BY <1>3, <4>1, <4>2
    <3>2. CASE x = z
      <4>1. m + 1 \in 1 .. m + 1 /\ ~(m + 1 <= m)
        BY <1>2
      <4> QED BY <1>3, <3>2, <4>1
    <3> QED BY <3>1, <3>2
  <2>2. ASSUME NEW n \in 1 .. m + 1 PROVE g[n] \in R
    <3>1. CASE n <= m
      <4>1. n \in 1 .. m
        BY <1>2, <3>1
      <4> QED BY <1>2, <1>3, <3>1, <4>1
    <3>2. CASE ~(n <= m)
      BY <1>3, <3>2
    <3> QED BY <3>1, <3>2
  <2> HIDE DEF R
  <2> QED BY <2>1, <2>2
<1>6. \A i, j \in 1 .. m + 1 : i < j => g[i] < g[j]
  <2> SUFFICES ASSUME NEW i \in 1 .. m + 1, NEW j \in 1 .. m + 1, i < j PROVE g[i] < g[j]
    OBVIOUS
  <2>1. i \in 1 .. m /\ i <= m
    BY <1>2
  <2>2. CASE j <= m
    <3>1. j \in 1 .. m
      BY <1>2, <2>2
    <3> QED BY <1>2, <1>3, <2>1, <2>2, <3>1
  <2>3. CASE ~(j <= m)
    <3>1. f[i] \in P
      BY <1>2, <2>1
    <3>2. f[i] < z
      BY <3>1
    <3> QED BY <1>3, <2>1, <2>3, <3>2
  <2> QED BY <2>2, <2>3
<1>7. Enumerates(g, m + 1, R)
  <2>1. m + 1 \in Nat
    BY <1>2
  <2> HIDE DEF R
  <2> QED BY <1>4, <1>5, <1>6, <2>1 DEF Enumerates
<1> DEFINE a == Abstract!Pick(s, P)
           b == Abstract!Pick(s, R)
<1>8. a = [n \in 1 .. m |-> s[f[n]]]
  BY <1>1, PickIs
<1>9. b = [n \in 1 .. m + 1 |-> s[g[n]]]
  <2> HIDE DEF R
  <2> QED BY <1>7, PickIs
<1>10. \A n \in 1 .. m : s[f[n]] \in Elem
  <2>1. \A n \in 1 .. m : f[n] \in P
    BY <1>2
  <2> QED BY <2>1
<1> HIDE DEF a, b
<1>11. a \in Seq(Elem) /\ Len(a) = m /\ \A n \in 1 .. m : a[n] = s[f[n]]
  BY <1>2, <1>8, <1>10
<1>12. b = Append(a, s[z])
  <2> DEFINE t == Append(a, s[z])
  <2>1. t \in Seq(Elem) /\ Len(t) = m + 1 /\ (\A n \in 1 .. m : t[n] = a[n]) /\ t[m + 1] = s[z]
    BY <1>11, AppendProperties
  <2> HIDE DEF t
  <2>2. ASSUME NEW n \in 1 .. m + 1 PROVE t[n] = s[g[n]]
    <3>1. CASE n <= m
      <4>1. n \in 1 .. m
        BY <1>2, <3>1
      <4> QED BY <1>3, <1>11, <2>1, <3>1, <4>1
    <3>2. CASE ~(n <= m)
      <4>1. n = m + 1
        BY <1>2, <3>2
      <4> QED BY <1>3, <2>1, <3>2, <4>1
    <3> QED BY <3>1, <3>2
  <2>3. t = [n \in 1 .. m + 1 |-> t[n]]
    BY <2>1
  <2>4. b = t
    BY <1>9, <2>2, <2>3
  <2> QED BY <2>4 DEF t
<1> QED BY <1>7, <1>11, <1>12 DEF Listable, a, b

\* An element put at the end of a chain is appended to its list.
LEMMA AppendInside ==
  ASSUME NEW s, IsChain(s), NEW e \in Elem
  PROVE  /\ IsChain(PutIn(s, Len(s), <<e>>))
         /\ Inside(PutIn(s, Len(s), <<e>>)) = Append(Inside(s), e)
<1> DEFINE f == Inside(s)
           N == Len(s)
<1>1. N \in Nat /\ N >= 2 /\ f \in Seq(Elem) /\ Len(f) = N - 2
  BY InsideIs DEF IsChain
<1>2. N \in 2 .. Len(s) /\ <<e>> \in Seq(Elem) /\ N - 1 = Len(f) + 1 /\ N - 2 = Len(f)
  BY <1>1
<1>3. /\ IsChain(PutIn(s, N, <<e>>))
      /\ Inside(PutIn(s, N, <<e>>)) = SubSeq(f, 1, N - 2) \o <<e>> \o SubSeq(f, N - 1, Len(f))
  BY <1>2, InsidePut
<1> HIDE DEF f, N
<1>4. SubSeq(f, 1, N - 2) = f
  <2>1. SubSeq(f, 1, Len(f)) = f
    BY <1>1, SubSeqFull
  <2> QED BY <1>2, <2>1
<1>5. SubSeq(f, N - 1, Len(f)) = <<>>
  BY <1>1, <1>2, SubSeqEmpty
<1>6. f \o <<e>> \o <<>> = Append(f, e)
  <2>1. f \o <<e>> \in Seq(Elem) /\ f \o <<e>> = Append(f, e)
    BY <1>1, <1>2, AppendIsConcat, ConcatProperties
  <2> QED BY <2>1, ConcatEmptySeq
<1> QED BY <1>3, <1>4, <1>5, <1>6 DEF f, N

\* The places of the elements whose left neighbours have equal keys, and what
\* list_unique has kept and taken away when it is at place x.
Same(s)    == {i \in DOMAIN s : i > 1 /\ Key[s[i]] = Key[s[i - 1]]}
Kept(s, x) == {y \in 1 .. x : y \notin Same(s)}
Gone(s, x) == {y \in 1 .. x : y \in Same(s)}

\* One place further.
LEMMA KeptNext ==
  ASSUME NEW s \in Seq(Elem), NEW x \in 1 .. Len(s), x + 1 <= Len(s)
  PROVE  /\ x + 1 \notin Same(s) => /\ Kept(s, x + 1) = Kept(s, x) \cup {x + 1}
                                    /\ Gone(s, x + 1) = Gone(s, x)
         /\ x + 1 \in Same(s) => /\ Gone(s, x + 1) = Gone(s, x) \cup {x + 1}
                                 /\ Kept(s, x + 1) = Kept(s, x)
         /\ \A y \in Kept(s, x) \cup Gone(s, x) : y < x + 1 /\ s[y] \in Elem
         /\ s[x + 1] \in Elem /\ x + 1 \in Int
         /\ x + 1 \in Same(s) <=> Key[s[x + 1]] = Key[s[x]]
<1>1. 1 .. x + 1 = (1 .. x) \cup {x + 1}
  OBVIOUS
<1>2. x + 1 \in 1 .. Len(s) /\ x + 1 > 1 /\ (x + 1) - 1 = x
  OBVIOUS
<1>3. \A y \in 1 .. x : y < x + 1 /\ s[y] \in Elem
  <2>1. \A y \in 1 .. x : y \in 1 .. Len(s) /\ y < x + 1
    OBVIOUS
  <2> QED BY <2>1, ElementOfSeq
<1>4. s[x + 1] \in Elem
  BY <1>2, ElementOfSeq
<1>5. x + 1 \in Same(s) <=> Key[s[x + 1]] = Key[s[x]]
  BY <1>2 DEF Same
<1> QED BY <1>1, <1>2, <1>3, <1>4, <1>5 DEF Kept, Gone

\* What is picked one place further.
LEMMA PicksNext ==
  ASSUME NEW s \in Seq(Elem), NEW x \in 1 .. Len(s), x + 1 <= Len(s),
         NEW P, Listable(P), P = Kept(s, x) \/ P = Gone(s, x)
  PROVE  /\ Listable(P \cup {x + 1}) /\ Abstract!Pick(s, P) \in Seq(Elem)
         /\ Abstract!Pick(s, P \cup {x + 1}) = Append(Abstract!Pick(s, P), s[x + 1])
<1> DEFINE z == x + 1
<1>1. z \in Int /\ (\A y \in P : y < z /\ s[y] \in Elem) /\ s[z] \in Elem
  BY KeptNext
<1> HIDE DEF z
<1>2. /\ Listable(P \cup {z}) /\ Abstract!Pick(s, P) \in Seq(Elem)
      /\ Abstract!Pick(s, P \cup {z}) = Append(Abstract!Pick(s, P), s[z])
  BY <1>1, PickNext
<1> QED BY <1>2 DEF z

\* The lists c have become d: list_unique is at place x of what list l was, the last
\* element it kept is at place a, and what it took away is at the end of list r.
Sifted(c, l, r, d, a, x) ==
  /\ c[l] \in Seq(Elem) /\ d[l] \in Seq(Elem) /\ x \in 1 .. Len(c[l]) /\ a \in 1 .. Len(d[l])
  /\ Len(d[l]) = a + Len(c[l]) - x
  /\ \A n \in 1 .. Len(c[l]) - x : d[l][a + n] = c[l][x + n]
  /\ Key[d[l][a]] = Key[c[l][x]]
  /\ Listable(Kept(c[l], x)) /\ Listable(Gone(c[l], x))
  /\ Abstract!Pick(c[l], Kept(c[l], x)) \in Seq(Elem)
  /\ Len(Abstract!Pick(c[l], Kept(c[l], x))) = a
  /\ \A n \in 1 .. a : d[l][n] = Abstract!Pick(c[l], Kept(c[l], x))[n]
  /\ \A m \in List \ {l} :
       d[m] = IF m = r /\ r # NULL THEN c[m] \o Abstract!Pick(c[l], Gone(c[l], x)) ELSE c[m]

\* At first nothing is taken away.
LEMMA SiftedFirst ==
  ASSUME NEW c \in [List -> Seq(Elem)], NEW l \in List, NEW r, c[l] # <<>>
  PROVE  Sifted(c, l, r, c, 1, 1)
<1> DEFINE s == c[l]
<1>1. s \in Seq(Elem) /\ Len(s) \in Nat /\ Len(s) >= 1 /\ 1 \in 1 .. Len(s)
  BY EmptySeq
<1> HIDE DEF s
<1>2. 1 \notin Same(s)
  BY DEF Same
<1>3. Kept(s, 1) = {} \cup {1} /\ Gone(s, 1) = {}
  <2>1. 1 .. 1 = {1}
    OBVIOUS
  <2> QED BY <1>2, <2>1 DEF Kept, Gone
<1>4. s[1] \in Elem
  BY <1>1, ElementOfSeq
<1>5. /\ Listable({} \cup {1})
      /\ Abstract!Pick(s, {} \cup {1}) = Append(Abstract!Pick(s, {}), s[1])
      /\ Listable({}) /\ Abstract!Pick(s, {}) = <<>>
  <2>1. Listable({}) /\ Abstract!Pick(s, {}) = <<>>
    BY PickNone
  <2>2. ASSUME NEW P, P = {}
        PROVE  /\ Listable(P \cup {1})
               /\ Abstract!Pick(s, P \cup {1}) = Append(Abstract!Pick(s, P), s[1])
    <3>1. Listable(P) /\ 1 \in Int /\ \A y \in P : y < 1 /\ s[y] \in Elem
      BY <2>1, <2>2
    <3> QED BY <1>4, <3>1, PickNext
  <2> QED BY <2>1, <2>2
<1> DEFINE p == Abstract!Pick(s, Kept(s, 1))
<1>6. p \in Seq(Elem) /\ Len(p) = 1 /\ p[1] = s[1]
  <2>1. p = Append(<<>>, s[1])
    BY <1>3, <1>5
  <2>2. <<>> \in Seq(Elem) /\ Len(<<>>) = 0
    OBVIOUS
  <2> HIDE DEF p
  <2> QED BY <1>4, <2>1, <2>2, AppendProperties
<1>7. \A m \in List : c[m] \o <<>> = c[m]
  BY ConcatEmptySeq
<1>8. Len(s) = 1 + Len(s) - 1 /\ \A n \in 1 .. Len(s) - 1 : s[1 + n] = s[1 + n]
  BY <1>1
<1>9. \A n \in 1 .. 1 : s[n] = p[n]
  <2> HIDE DEF p
  <2> QED BY <1>6
<1> HIDE DEF p
<1>10. \A m \in List \ {l} :
         c[m] = IF m = r /\ r # NULL THEN c[m] \o Abstract!Pick(s, Gone(s, 1)) ELSE c[m]
  BY <1>3, <1>5, <1>7
<1>11. Listable(Kept(s, 1)) /\ Listable(Gone(s, 1))
  BY <1>3, <1>5
<1> QED BY <1>1, <1>6, <1>8, <1>9, <1>10, <1>11 DEF Sifted, s, p

\* An element with another key stays.
LEMMA SiftedFurther ==
  ASSUME NEW c \in [List -> Seq(Elem)], NEW l \in List, NEW r, NEW d \in [List -> Seq(Elem)],
         NEW a, NEW x, Sifted(c, l, r, d, a, x), x # Len(c[l]), Key[d[l][a]] # Key[d[l][a + 1]]
  PROVE  Sifted(c, l, r, d, a + 1, x + 1)
<1> DEFINE s == c[l]
           t == d[l]
           M == Len(s)
           p == Abstract!Pick(s, Kept(s, x))
           q == Abstract!Pick(s, Kept(s, x + 1))
<1>1. /\ s \in Seq(Elem) /\ t \in Seq(Elem) /\ x \in 1 .. M /\ a \in 1 .. Len(t)
      /\ Len(t) = a + M - x /\ (\A n \in 1 .. M - x : t[a + n] = s[x + n])
      /\ Key[t[a]] = Key[s[x]] /\ Listable(Kept(s, x)) /\ Listable(Gone(s, x))
      /\ p \in Seq(Elem) /\ Len(p) = a /\ (\A n \in 1 .. a : t[n] = p[n])
  BY DEF Sifted
<1>2. \A m \in List \ {l} :
         d[m] = IF m = r /\ r # NULL THEN c[m] \o Abstract!Pick(s, Gone(s, x)) ELSE c[m]
  BY DEF Sifted
<1>3. M \in Nat /\ a \in Nat /\ x \in Nat /\ x + 1 \in 1 .. M /\ a + 1 \in 1 .. Len(t) /\ x + 1 <= M
  BY <1>1
<1>4. t[a + 1] = s[x + 1] /\ Key[s[x + 1]] # Key[s[x]]
  <2>1. 1 \in 1 .. M - x
    BY <1>3
  <2> QED BY <1>1, <2>1
<1>5. /\ Kept(s, x + 1) = Kept(s, x) \cup {x + 1} /\ Gone(s, x + 1) = Gone(s, x)
      /\ \A y \in Kept(s, x) : y < x + 1 /\ s[y] \in Elem
      /\ s[x + 1] \in Elem /\ x + 1 \in Int
  <2>1. s \in Seq(Elem) /\ x \in 1 .. Len(s) /\ x + 1 <= Len(s)
    BY <1>1, <1>3
  <2> HIDE DEF s
  <2>2. x + 1 \in Same(s) <=> Key[s[x + 1]] = Key[s[x]]
    BY <2>1, KeptNext
  <2> QED BY <1>4, <2>1, <2>2, KeptNext
<1> HIDE DEF s, t, M
<1>6. Listable(Kept(s, x + 1)) /\ q = Append(p, s[x + 1])
  <2> HIDE DEF s
  <2>1. /\ Listable(Kept(s, x) \cup {x + 1}) /\ Abstract!Pick(s, Kept(s, x)) \in Seq(Elem)
        /\ Abstract!Pick(s, Kept(s, x) \cup {x + 1})
             = Append(Abstract!Pick(s, Kept(s, x)), s[x + 1])
    <3>1. s \in Seq(Elem) /\ x \in 1 .. Len(s) /\ x + 1 <= Len(s)
      BY <1>1, <1>3 DEF M
    <3>2. ASSUME NEW P, Listable(P), P = Kept(s, x)
          PROVE  /\ Listable(P \cup {x + 1}) /\ Abstract!Pick(s, P) \in Seq(Elem)
                 /\ Abstract!Pick(s, P \cup {x + 1}) = Append(Abstract!Pick(s, P), s[x + 1])
      BY <3>1, <3>2, PicksNext
    <3> QED BY <1>1, <3>2
  <2> QED BY <1>5, <2>1
<1> HIDE DEF p, q
<1>7. q \in Seq(Elem) /\ Len(q) = a + 1 /\ (\A n \in 1 .. a : q[n] = p[n]) /\ q[a + 1] = s[x + 1]
  BY <1>1, <1>5, <1>6, AppendProperties
<1>8. \A n \in 1 .. a + 1 : t[n] = q[n]
  <2>1. \A n \in 1 .. a + 1 : n \in 1 .. a \/ n = a + 1
    BY <1>3
  <2> QED BY <1>1, <1>4, <1>7, <2>1
<1>9. Len(t) = (a + 1) + M - (x + 1)
  BY <1>1, <1>3
<1>10. ASSUME NEW n \in 1 .. M - (x + 1) PROVE t[(a + 1) + n] = s[(x + 1) + n]
  <2>1. n + 1 \in 1 .. M - x /\ a + (n + 1) = (a + 1) + n /\ x + (n + 1) = (x + 1) + n
    BY <1>3
  <2>2. t[a + (n + 1)] = s[x + (n + 1)]
    BY <1>1, <2>1
  <2> QED BY <2>1, <2>2
<1>11. \A m \in List \ {l} :
         d[m] = IF m = r /\ r # NULL THEN c[m] \o Abstract!Pick(s, Gone(s, x + 1)) ELSE c[m]
  BY <1>2, <1>5
<1>12. Listable(Gone(s, x + 1))
  BY <1>1, <1>5
<1>13. Key[t[a + 1]] = Key[s[x + 1]]
  BY <1>4
<1> QED BY <1>1, <1>3, <1>6, <1>7, <1>8, <1>9, <1>10, <1>11, <1>12, <1>13 DEF Sifted, s, t, M, q

\* An element behind two sequences is behind the second.
LEMMA AppendConcat ==
  \A v, w \in Seq(Elem) : \A z \in Elem : Append(v \o w, z) = v \o Append(w, z)
<1> SUFFICES ASSUME NEW v \in Seq(Elem), NEW w \in Seq(Elem), NEW z \in Elem
             PROVE  Append(v \o w, z) = v \o Append(w, z)
  OBVIOUS
<1>1. v \o w \in Seq(Elem) /\ <<z>> \in Seq(Elem)
  BY ConcatProperties
<1>2. Append(v \o w, z) = (v \o w) \o <<z>> /\ Append(w, z) = w \o <<z>>
  BY <1>1, AppendIsConcat
<1>3. (v \o w) \o <<z>> = v \o (w \o <<z>>)
  <2>1. \A i, j, y \in Seq(Elem) : (i \o j) \o y = i \o (j \o y)
    BY ConcatAssociative, SMTT(30)
  <2> QED BY <1>1, <2>1
<1> QED BY <1>2, <1>3

\* One with the same key goes.
LEMMA SiftedAway ==
  ASSUME NEW c \in [List -> Seq(Elem)], NEW l \in List, NEW r, NEW d \in [List -> Seq(Elem)],
         NEW a, NEW x, Sifted(c, l, r, d, a, x), x # Len(c[l]), Key[d[l][a]] = Key[d[l][a + 1]],
         NEW e \in [List -> Seq(Elem)], Len(e[l]) = Len(d[l]) - 1,
         \A n \in 1 .. Len(d[l]) - 1 : e[l][n] = IF n < a + 1 THEN d[l][n] ELSE d[l][n + 1],
         \A m \in List \ {l} : e[m] = IF m = r /\ r # NULL THEN Append(d[m], d[l][a + 1]) ELSE d[m]
  PROVE  Sifted(c, l, r, e, a, x + 1)
<1> DEFINE s == c[l]
           t == d[l]
           u == e[l]
           M == Len(s)
           p == Abstract!Pick(s, Kept(s, x))
           g == Abstract!Pick(s, Gone(s, x))
           k == Abstract!Pick(s, Gone(s, x + 1))
<1>1. /\ s \in Seq(Elem) /\ t \in Seq(Elem) /\ x \in 1 .. M /\ a \in 1 .. Len(t)
      /\ Len(t) = a + M - x /\ (\A n \in 1 .. M - x : t[a + n] = s[x + n])
      /\ Key[t[a]] = Key[s[x]] /\ Listable(Kept(s, x)) /\ Listable(Gone(s, x))
      /\ p \in Seq(Elem) /\ Len(p) = a /\ (\A n \in 1 .. a : t[n] = p[n])
  BY DEF Sifted
<1>2. \A m \in List \ {l} : d[m] = IF m = r /\ r # NULL THEN c[m] \o g ELSE c[m]
  BY DEF Sifted
<1>3. M \in Nat /\ a \in Nat /\ x \in Nat /\ x + 1 \in 1 .. M /\ a + 1 \in 1 .. Len(t) /\ x + 1 <= M
  BY <1>1
<1>4. t[a + 1] = s[x + 1] /\ Key[s[x + 1]] = Key[s[x]]
  <2>1. 1 \in 1 .. M - x
    BY <1>3
  <2> QED BY <1>1, <2>1
<1>5. /\ Gone(s, x + 1) = Gone(s, x) \cup {x + 1} /\ Kept(s, x + 1) = Kept(s, x)
      /\ \A y \in Gone(s, x) : y < x + 1 /\ s[y] \in Elem
      /\ s[x + 1] \in Elem /\ x + 1 \in Int
  <2>1. s \in Seq(Elem) /\ x \in 1 .. Len(s) /\ x + 1 <= Len(s)
    BY <1>1, <1>3
  <2> HIDE DEF s
  <2>2. x + 1 \in Same(s) <=> Key[s[x + 1]] = Key[s[x]]
    BY <2>1, KeptNext
  <2> QED BY <1>4, <2>1, <2>2, KeptNext
<1>6. /\ u \in Seq(Elem) /\ Len(u) = Len(t) - 1
      /\ \A n \in 1 .. Len(t) - 1 : u[n] = IF n < a + 1 THEN t[n] ELSE t[n + 1]
      /\ \A m \in List \ {l} : e[m] = IF m = r /\ r # NULL THEN Append(d[m], t[a + 1]) ELSE d[m]
  OBVIOUS
<1> HIDE DEF s, t, u, M
<1>7. Listable(Gone(s, x + 1)) /\ k = Append(g, s[x + 1]) /\ g \in Seq(Elem)
  <2> HIDE DEF s
  <2>1. /\ Listable(Gone(s, x) \cup {x + 1}) /\ Abstract!Pick(s, Gone(s, x)) \in Seq(Elem)
        /\ Abstract!Pick(s, Gone(s, x) \cup {x + 1})
             = Append(Abstract!Pick(s, Gone(s, x)), s[x + 1])
    <3>1. s \in Seq(Elem) /\ x \in 1 .. Len(s) /\ x + 1 <= Len(s)
      BY <1>1, <1>3 DEF M
    <3>2. ASSUME NEW P, Listable(P), P = Gone(s, x)
          PROVE  /\ Listable(P \cup {x + 1}) /\ Abstract!Pick(s, P) \in Seq(Elem)
                 /\ Abstract!Pick(s, P \cup {x + 1}) = Append(Abstract!Pick(s, P), s[x + 1])
      BY <3>1, <3>2, PicksNext
    <3> QED BY <1>1, <3>2
  <2> QED BY <1>5, <2>1
<1> HIDE DEF p, g, k
<1>8. ASSUME NEW m \in List \ {l} PROVE e[m] = IF m = r /\ r # NULL THEN c[m] \o k ELSE c[m]
  <2>1. CASE m = r /\ r # NULL
    <3>1. e[m] = Append(c[m] \o g, s[x + 1])
      BY <1>2, <1>4, <1>6, <2>1
    <3>2. c[m] \in Seq(Elem)
      OBVIOUS
    <3>3. Append(c[m] \o g, s[x + 1]) = c[m] \o Append(g, s[x + 1])
      <4>1. g \in Seq(Elem) /\ s[x + 1] \in Elem
        BY <1>5, <1>7
      <4> QED BY <3>2, <4>1, AppendConcat
    <3> QED BY <1>7, <2>1, <3>1, <3>3
  <2>2. CASE ~(m = r /\ r # NULL)
    BY <1>2, <1>6, <2>2
  <2> QED BY <2>1, <2>2
<1>9. Len(u) = a + M - (x + 1) /\ a \in 1 .. Len(u)
  BY <1>1, <1>3, <1>6
<1>10. ASSUME NEW n \in 1 .. M - (x + 1) PROVE u[a + n] = s[(x + 1) + n]
  <2>1. /\ n + 1 \in 1 .. M - x /\ a + (n + 1) = (a + n) + 1 /\ x + (n + 1) = (x + 1) + n
        /\ a + n \in 1 .. Len(t) - 1 /\ ~(a + n < a + 1)
    BY <1>1, <1>3
  <2>2. t[a + (n + 1)] = s[x + (n + 1)]
    BY <1>1, <2>1
  <2>3. u[a + n] = t[(a + n) + 1]
    BY <1>6, <2>1
  <2> QED BY <2>1, <2>2, <2>3
<1>11. ASSUME NEW n \in 1 .. a PROVE u[n] = t[n]
  <2>1. n \in 1 .. Len(t) - 1 /\ n < a + 1
    BY <1>1, <1>3
  <2> QED BY <1>6, <2>1
<1>12. a \in 1 .. a
  BY <1>1
<1>13. Key[u[a]] = Key[s[x + 1]]
  BY <1>1, <1>4, <1>11, <1>12
<1>14. \A n \in 1 .. a : u[n] = p[n]
  BY <1>1, <1>11
<1>15. /\ Listable(Kept(s, x + 1)) /\ p = Abstract!Pick(s, Kept(s, x + 1))
  BY <1>1, <1>5 DEF p
<1> QED BY <1>1, <1>3, <1>6, <1>7, <1>8, <1>9, <1>10, <1>13, <1>14, <1>15 DEF Sifted, s, u, M, k

\* At the last place the operation is done.
LEMMA SiftedLast ==
  ASSUME NEW c \in [List -> Seq(Elem)], NEW l \in List, NEW r \in List \cup {NULL}, r # l,
         NEW d \in [List -> Seq(Elem)], NEW a, NEW x, Sifted(c, l, r, d, a, x), x = Len(c[l])
  PROVE  Abstract!Unique(c, d, l)
<1> DEFINE s == c[l]
           t == d[l]
           M == Len(s)
           p == Abstract!Pick(s, Kept(s, M))
           g == Abstract!Pick(s, Gone(s, M))
           rest == [c EXCEPT ![l] = p]
<1>1. /\ s \in Seq(Elem) /\ t \in Seq(Elem) /\ a \in 1 .. Len(t) /\ x = M
      /\ Len(t) = a + M - x /\ p \in Seq(Elem) /\ Len(p) = a /\ (\A n \in 1 .. a : t[n] = p[n])
  BY DEF Sifted
<1>2. \A m \in List \ {l} : d[m] = IF m = r /\ r # NULL THEN c[m] \o g ELSE c[m]
  BY DEF Sifted
<1> HIDE DEF t
<1>3. t = p
  <2> HIDE DEF s, M, p
  <2>1. Len(t) = a /\ a \in Nat
    <3>1. M \in Nat
      BY <1>1 DEF M
    <3> QED BY <1>1, <3>1
  <2> QED BY <1>1, <2>1, SameSeq
<1>4. Kept(s, M) = DOMAIN s \ Same(s) /\ Gone(s, M) = Same(s)
  <2>1. DOMAIN s = 1 .. M
    OBVIOUS
  <2> HIDE DEF s, M
  <2> QED BY <2>1 DEF Kept, Gone, Same
<1>5. /\ rest = [c EXCEPT ![l] = Abstract!Pick(s, DOMAIN s \ Same(s))]
      /\ g = Abstract!Pick(s, Same(s))
  BY <1>4
<1> HIDE DEF p, g
<1>6. d = rest \/ \E m \in List \ {l} : d = [rest EXCEPT ![m] = @ \o g]
  <2>1. rest \in [List -> Seq(Elem)] /\ \A m \in List : rest[m] = IF m = l THEN p ELSE c[m]
    BY <1>1
  <2> HIDE DEF rest
  <2>2. CASE r \in List /\ r # NULL
    <3> DEFINE e == [rest EXCEPT ![r] = @ \o g]
    <3>1. \A m \in List : e[m] = IF m = r THEN rest[m] \o g ELSE rest[m]
      BY <2>1
    <3>2. e = [m \in List |-> e[m]]
      BY <2>1
    <3> HIDE DEF e
    <3>3. \A m \in List : d[m] = e[m]
      BY <1>2, <1>3, <2>1, <2>2, <3>1 DEF t
    <3>4. d = [m \in List |-> d[m]]
      OBVIOUS
    <3>5. d = e
      BY <3>2, <3>3, <3>4
    <3> QED BY <2>2, <3>5 DEF e
  <2>3. CASE r = NULL
    <3>1. \A m \in List : d[m] = rest[m]
      BY <1>2, <1>3, <2>1, <2>3 DEF t
    <3>2. d = [m \in List |-> d[m]] /\ rest = [m \in List |-> rest[m]]
      BY <2>1
    <3> QED BY <3>1, <3>2
  <2> QED BY <2>2, <2>3
<1> QED BY <1>5, <1>6 DEF Abstract!Unique, Same

\* What the lists hold are sequences of elements.
LEMMA ContentsType ==
  ASSUME NEW c, IsChains(c)
  PROVE  Contents(c) \in [List -> Seq(Elem)]
BY ContentsOf DEF Contents

\* list_unique has made the chains d of the chains c; it is at place a of list l.
UniqueAt(c, l, r, h, d, a, x) == Shape(h, d) /\ Sifted(Contents(c), l, r, Contents(d), a, x)

\* The element at work, and the one after it.
LEMMA UniqueNext ==
  ASSUME NEW c, IsChains(c), NEW l \in List, NEW r, NEW h, NEW d, NEW a, NEW x,
         UniqueAt(c, l, r, h, d, a, x)
  PROVE  LET e == Contents(d)[l][a]
             M == Len(Contents(c)[l])
         IN  /\ e = d[l][a + 1] /\ a + 1 \in 2 .. Len(d[l]) - 1 /\ e \in Elem
             /\ M \in Nat /\ x \in 1 .. M /\ a \in Nat
             /\ h.next[e] = list_end(l) <=> x = M
             /\ x # M => /\ h.next[e] = Contents(d)[l][a + 1] /\ h.next[e] \in Elem
<1> DEFINE t == Contents(d)[l]
           e == t[a]
           M == Len(Contents(c)[l])
           N == Len(d[l])
<1>1. /\ Shape(h, d) /\ IsChains(d) /\ t \in Seq(Elem) /\ a \in 1 .. Len(t) /\ x \in 1 .. M
      /\ Len(t) = a + M - x /\ Contents(c)[l] \in Seq(Elem)
  BY DEF UniqueAt, Sifted, Shape
<1>2. Len(t) = N - 2 /\ \A n \in 1 .. N - 2 : t[n] = d[l][n + 1]
  <2>1. /\ Contents(d)[l] = Inside(d[l]) /\ Len(Inside(d[l])) = Len(d[l]) - 2
        /\ \A i \in 1 .. Len(d[l]) - 2 : Inside(d[l])[i] = d[l][i + 1]
    BY <1>1, ContentsOf
  <2> QED BY <2>1
<1>3. M \in Nat /\ a \in Nat /\ N \in Nat /\ N >= 2 /\ d[l][N] = list_end(l)
  BY <1>1, ChainOf
<1>4. /\ \A n \in 2 .. N - 1 : d[l][n] \in Elem
      /\ \A m, n \in 1 .. N : d[l][m] = d[l][n] => m = n
  BY <1>1, ChainOf DEF Distinct
<1> HIDE DEF t, M, N
<1>5. /\ a \in 1 .. N - 2 /\ a + 1 \in 2 .. N - 1 /\ a + 1 \in 1 .. N /\ a + 1 # N
      /\ (a + 1) + 1 \in 1 .. N /\ N \in 1 .. N
      /\ (a + 1) + 1 = N <=> x = M
  BY <1>1, <1>2, <1>3
<1>6. e = d[l][a + 1]
  BY <1>2, <1>5
<1>7. h.next[e] = d[l][(a + 1) + 1]
  <2>1. a + 1 \in 1 .. Len(d[l]) /\ a + 1 # Len(d[l])
    BY <1>5 DEF N
  <2>2. h.next[d[l][a + 1]] = d[l][(a + 1) + 1]
    BY <1>1, <2>1, LinksAt
  <2> HIDE DEF e
  <2> QED BY <1>6, <2>2
<1>8. h.next[e] = list_end(l) <=> x = M
  BY <1>3, <1>4, <1>5, <1>7
<1>9. x # M => h.next[e] = t[a + 1] /\ h.next[e] \in Elem
  <2> SUFFICES ASSUME x # M PROVE h.next[e] = t[a + 1] /\ h.next[e] \in Elem
    OBVIOUS
  <2>1. (a + 1) + 1 # N
    BY <1>5
  <2>2. a + 1 \in 1 .. N - 2 /\ (a + 1) + 1 \in 2 .. N - 1
    <3>1. \A b, n \in Int : b \in 1 .. n - 2 /\ (b + 1) + 1 # n
                             => b + 1 \in 1 .. n - 2 /\ (b + 1) + 1 \in 2 .. n - 1
      OBVIOUS
    <3> QED BY <1>3, <1>5, <2>1, <3>1
  <2>3. t[a + 1] = d[l][(a + 1) + 1] /\ d[l][(a + 1) + 1] \in Elem
    BY <1>2, <1>4, <2>2
  <2> HIDE DEF e
  <2> QED BY <1>7, <2>3
<1>10. e \in Elem
  BY <1>4, <1>5, <1>6
<1> QED BY <1>1, <1>3, <1>5, <1>6, <1>8, <1>9, <1>10 DEF t, M, N

\* A duplicate is taken away.
LEMMA UniqueCuts ==
  ASSUME NEW c, IsChains(c), NEW l \in List, NEW r \in List \cup {NULL}, r # l, NEW h, NEW d,
         NEW a, NEW x, UniqueAt(c, l, r, h, d, a, x), x # Len(Contents(c)[l]),
         Key[Contents(d)[l][a]] = Key[Contents(d)[l][a + 1]]
  PROVE  LET next  == h.next[Contents(d)[l][a]]
             cut   == Run(h, list_remove(h, next))
             given == Run(cut, list_push_back(cut, r, next))
         IN  \E f : /\ UniqueAt(c, l, r, IF r = NULL THEN cut ELSE given, f, a, x + 1)
                    /\ Contents(f)[l][a] = Contents(d)[l][a]
<1> DEFINE C == Contents(c)
           D == Contents(d)
           t == D[l]
           e == t[a]
           next == h.next[e]
           cut == Run(h, list_remove(h, next))
           given == Run(cut, list_push_back(cut, r, next))
           u == CutOut(d[l], a + 2, a + 2)
           f == [d EXCEPT ![l] = CutOut(@, a + 2, a + 2)]
           g == [f EXCEPT ![r] = PutIn(@, Len(f[r]), <<next>>)]
<1>1. Shape(h, d) /\ IsChains(d) /\ Sifted(C, l, r, D, a, x)
  BY DEF UniqueAt, Shape
<1>2. /\ e = d[l][a + 1] /\ a + 1 \in 2 .. Len(d[l]) - 1 /\ e \in Elem /\ a \in Nat
      /\ next # list_end(l) /\ next = t[a + 1] /\ next \in Elem
  BY UniqueNext
<1>3. /\ C \in [List -> Seq(Elem)] /\ D \in [List -> Seq(Elem)] /\ d \in [List -> Seq(Node)]
  BY <1>1, ContentsType DEF IsChains
<1>4. (a + 1) + 1 = a + 2
  BY <1>2
<1>5. /\ Shape(cut, f) /\ Free(f, next) /\ a + 2 \in 2 .. Len(d[l]) - 1
  <2> HIDE DEF e, D, t
  <2>1. h.next[d[l][a + 1]] # list_end(l) /\ next = h.next[d[l][a + 1]]
    BY <1>2
  <2>2. /\ Shape(Run(h, list_remove(h, h.next[d[l][a + 1]])),
                 [d EXCEPT ![l] = CutOut(@, (a + 1) + 1, (a + 1) + 1)])
        /\ Free([d EXCEPT ![l] = CutOut(@, (a + 1) + 1, (a + 1) + 1)], h.next[d[l][a + 1]])
        /\ (a + 1) + 1 \in 2 .. Len(d[l]) - 1
    BY <1>1, <1>2, <2>1, NextRemoved
  <2> QED BY <1>4, <2>1, <2>2
<1>6. IsChains(f)
  BY <1>5 DEF Shape
<1>7. /\ Inside(u) \in Seq(Elem) /\ Len(Inside(u)) = Len(t) - 1
      /\ \A n \in 1 .. Len(t) - 1 : Inside(u)[n] = IF n < a + 1 THEN t[n] ELSE t[n + 1]
  <2>1. IsChain(d[l]) /\ t = Inside(d[l]) /\ Len(d[l]) \in Nat
    BY <1>1, ContentsOf, ChainOf
  <2>2. a + 2 \in a + 2 .. Len(d[l]) - 1 /\ (a + 2) - (a + 2) + 1 = 1 /\ (a + 2) - 1 = a + 1
    BY <1>2, <1>5, <2>1
  <2>3. LET k == (a + 2) - (a + 2) + 1
        IN  /\ Inside(u) \in Seq(Elem) /\ Len(Inside(u)) = Len(t) - k
            /\ \A n \in 1 .. Len(t) - k :
                 Inside(u)[n] = IF n < (a + 2) - 1 THEN t[n] ELSE t[n + k]
    <3> DEFINE i == a + 2
    <3>1. i \in 2 .. Len(d[l]) - 1 /\ i \in i .. Len(d[l]) - 1
      BY <1>5, <2>2
    <3> HIDE DEF D, t, i
    <3>2. LET k == i - i + 1
          IN  /\ Inside(CutOut(d[l], i, i)) \in Seq(Elem)
              /\ Len(Inside(CutOut(d[l], i, i))) = Len(Inside(d[l])) - k
              /\ \A n \in 1 .. Len(Inside(d[l])) - k :
                   Inside(CutOut(d[l], i, i))[n]
                     = IF n < i - 1 THEN Inside(d[l])[n] ELSE Inside(d[l])[n + k]
      BY <2>1, <3>1, InsideCut
    <3> QED BY <2>1, <3>2 DEF i
  <2> HIDE DEF D, t, u
  <2> QED BY <2>2, <2>3
<1>8. Contents(f) = [D EXCEPT ![l] = Inside(u)]
  BY <1>1, ContentsChange
<1> HIDE DEF u, f, D
<1>9. Contents(f)[l] = Inside(u) /\ \A m \in List \ {l} : Contents(f)[m] = D[m]
  BY <1>3, <1>8
<1>10. Inside(u)[a] = t[a]
  <2>1. a \in 1 .. Len(t) - 1 /\ a < a + 1
    <3>1. a \in 1 .. Len(t) /\ Len(t) \in Nat /\ a # Len(t)
      <4>1. /\ a \in 1 .. Len(t) /\ Len(t) = a + Len(C[l]) - x
            /\ C[l] \in Seq(Elem) /\ x \in 1 .. Len(C[l])
        BY <1>1 DEF Sifted
      <4>2. x # Len(C[l])
        OBVIOUS
      <4> HIDE DEF C, t
      <4> QED BY <4>1, <4>2
    <3> QED BY <1>2, <3>1
  <2> QED BY <1>7, <2>1
<1>11. ASSUME NEW k, Shape(k, f), r = NULL PROVE UniqueAt(c, l, r, k, f, a, x + 1)
  <2> DEFINE F == Contents(f)
  <2>1. F \in [List -> Seq(Elem)] /\ Len(F[l]) = Len(D[l]) - 1
        /\ \A n \in 1 .. Len(D[l]) - 1 : F[l][n] = IF n < a + 1 THEN D[l][n] ELSE D[l][n + 1]
    BY <1>6, <1>7, <1>9, ContentsType
  <2>2. \A m \in List \ {l} : F[m] = IF m = r /\ r # NULL THEN Append(D[m], D[l][a + 1]) ELSE D[m]
    BY <1>9, <1>11
  <2>3. x # Len(C[l]) /\ Key[D[l][a]] = Key[D[l][a + 1]]
    BY DEF D
  <2> HIDE DEF C, F
  <2>4. Sifted(C, l, r, F, a, x + 1)
    BY <1>1, <1>3, <2>1, <2>2, <2>3, SiftedAway
  <2> QED BY <1>11, <2>4 DEF UniqueAt, C, F
<1>12. CASE r = NULL
  <2>1. UniqueAt(c, l, r, cut, f, a, x + 1)
    BY <1>5, <1>11, <1>12
  <2> HIDE DEF cut, given
  <2> QED BY <1>9, <1>10, <1>12, <2>1 DEF D, cut, given
<1>13. CASE r # NULL
  <2>1. r \in List
    BY <1>13
  <2> DEFINE k == Len(f[r])
  <2>2. /\ k \in Nat /\ k >= 2 /\ k \in 2 .. Len(f[r]) /\ f[r][k] = list_end(r)
        /\ f \in [List -> Seq(Node)]
    BY <1>6, <2>1, ChainOf DEF IsChains
  <2>3. Shape(given, g)
    <3>1. Shape(Run(cut, list_insert(cut, f[r][k], next)), g)
      <4> HIDE DEF cut, next, f, k
      <4>1. /\ next \in Elem /\ Shape(cut, f)
            /\ \A m \in List : \A n \in 1 .. Len(f[m]) : next # f[m][n]
        BY <1>2, <1>5 DEF Free
      <4>2. Shape(Run(cut, list_insert(cut, f[r][k], next)),
                  [f EXCEPT ![r] = PutIn(@, k, <<next>>)])
        BY <2>1, <2>2, <4>1, InsertKeeps
      <4> QED BY <4>2 DEF k
    <3> QED BY <2>2, <3>1 DEF list_push_back
  <2> DEFINE w == PutIn(f[r], k, <<next>>)
  <2>4. Contents(g) = [Contents(f) EXCEPT ![r] = Inside(w)]
    BY <1>6, <2>1, ContentsChange
  <2>5. Inside(w) = Append(D[r], next)
    <3>1. IsChain(f[r]) /\ Contents(f)[r] = Inside(f[r]) /\ Contents(f)[r] = D[r]
      BY <1>6, <1>9, <2>1, ContentsOf
    <3> HIDE DEF next
    <3> QED BY <1>2, <3>1, AppendInside
  <2> HIDE DEF w
  <2> DEFINE G == Contents(g)
  <2>6. IsChains(g)
    BY <2>3 DEF Shape
  <2>7. /\ G[l] = Inside(u) /\ G[r] = Append(D[r], next)
        /\ \A m \in List : m # l /\ m # r => G[m] = D[m]
    <3>1. Contents(f) \in [List -> Seq(Elem)]
      BY <1>6, ContentsType
    <3> HIDE DEF g, next
    <3> QED BY <1>9, <2>1, <2>4, <2>5, <3>1
  <2>8. G \in [List -> Seq(Elem)] /\ Len(G[l]) = Len(D[l]) - 1
        /\ \A n \in 1 .. Len(D[l]) - 1 : G[l][n] = IF n < a + 1 THEN D[l][n] ELSE D[l][n + 1]
    <3>1. G \in [List -> Seq(Elem)]
      BY <2>6, ContentsType
    <3> HIDE DEF G
    <3> QED BY <1>7, <2>7, <3>1
  <2>9. \A m \in List \ {l} : G[m] = IF m = r /\ r # NULL THEN Append(D[m], D[l][a + 1]) ELSE D[m]
    <3> HIDE DEF G, next
    <3> QED BY <1>2, <1>13, <2>7
  <2>10. x # Len(C[l]) /\ Key[D[l][a]] = Key[D[l][a + 1]]
    BY DEF D
  <2> HIDE DEF C, G, g
  <2>11. Sifted(C, l, r, G, a, x + 1)
    BY <1>1, <1>3, <2>8, <2>9, <2>10, SiftedAway
  <2>12. UniqueAt(c, l, r, given, g, a, x + 1)
    BY <2>3, <2>11 DEF UniqueAt, C, G
  <2>13. Contents(g)[l][a] = t[a]
    BY <1>10, <2>7 DEF G
  <2> HIDE DEF cut, given
  <2> QED BY <1>13, <2>12, <2>13 DEF D, cut, given
<1> QED BY <1>12, <1>13

\* The heap after list_unique has taken the duplicate y away, and given it to r.
TakenAway(g, y) == Run(g, list_remove(g, y))
Sent(g, r, y) == IF r = NULL THEN TakenAway(g, y)
                 ELSE Run(TakenAway(g, y), list_push_back(TakenAway(g, y), r, y))

\* A duplicate is taken away (UniqueCuts).
LEMMA UniqueSends ==
  ASSUME NEW c, IsChains(c), NEW l \in List, NEW r \in List \cup {NULL}, r # l, NEW h, NEW d,
         NEW a, NEW x, UniqueAt(c, l, r, h, d, a, x), x # Len(Contents(c)[l]),
         Key[Contents(d)[l][a]] = Key[Contents(d)[l][a + 1]]
  PROVE  \E f : /\ UniqueAt(c, l, r, Sent(h, r, h.next[Contents(d)[l][a]]), f, a, x + 1)
                /\ Contents(f)[l][a] = Contents(d)[l][a]
BY UniqueCuts DEF Sent, TakenAway

\* list_unique keeps the first of neighbours with equal keys.
LEMMA UniqueStep ==
  ASSUME NEW h, NEW c, Shape(h, c), NEW l \in List, NEW r \in List \cup {NULL}, r # l
  PROVE  \E d : Shape(list_unique(h, l, r), d) /\ Abstract!Step(Contents(c), Contents(d))
<1> DEFINE C == Contents(c)
           M == Len(C[l])
           body == [s \in [heap : Heap, elem : Node] |->
                      LET next == s.heap.next[s.elem]
                          cut  == Run(s.heap, list_remove(s.heap, next))
                      IN  IF next = list_end(l) THEN s
                          ELSE IF less(s.elem, next) \/ less(next, s.elem)
                               THEN [s EXCEPT !.elem = next]
                          ELSE [s EXCEPT !.heap =
                                  IF r = NULL THEN cut
                                  ELSE Run(cut, list_push_back(cut, r, next))]]
           At(q, g, e) == \E d, a, x : /\ UniqueAt(c, l, r, g, d, a, x) /\ e = Contents(d)[l][a]
                                       /\ M - x = q
           W == [q \in Nat |-> {s \in [heap : Heap, elem : Node] : At(q, s.heap, s.elem)}]
           start == [heap |-> h, elem |-> list_begin(h, l)]
<1>1. IsChains(c) /\ C \in [List -> Seq(Elem)] /\ M \in Nat
  <2>1. IsChains(c)
    BY DEF Shape
  <2>2. C \in [List -> Seq(Elem)]
    BY <2>1, ContentsType
  <2> HIDE DEF C
  <2> QED BY <2>1, <2>2
<1>2. ASSUME NEW q \in Nat, NEW g, NEW e, At(q, g, e)
      PROVE  [heap |-> g, elem |-> e] \in W[q]
  <2>1. PICK d, a, x : UniqueAt(c, l, r, g, d, a, x) /\ e = Contents(d)[l][a]
    BY <1>2
  <2>2. e \in Elem
    BY <1>1, <2>1, UniqueNext
  <2>3. g \in Heap /\ e \in Node
    BY <2>1, <2>2, NodesApart DEF UniqueAt, Shape
  <2> DEFINE s == [heap |-> g, elem |-> e]
  <2>4. s \in [heap : Heap, elem : Node] /\ s.heap = g /\ s.elem = e
    BY <2>3
  <2> HIDE DEF s, At
  <2>5. s \in W[q]
    BY <1>2, <2>4
  <2> QED BY <2>5 DEF s
<1>3. ASSUME NEW q \in Nat, NEW s \in W[q]
      PROVE  (q = 0 /\ body[s] = s) \/ (q # 0 /\ body[s] \in W[q - 1])
  <2>1. s \in [heap : Heap, elem : Node] /\ At(q, s.heap, s.elem)
    OBVIOUS
  <2>2. PICK d, a, x : /\ UniqueAt(c, l, r, s.heap, d, a, x) /\ s.elem = Contents(d)[l][a]
                       /\ M - x = q
    BY <2>1
  <2> DEFINE e == Contents(d)[l][a]
             g == s.heap
             next == g.next[e]
             cut == Run(g, list_remove(g, next))
             given == Run(cut, list_push_back(cut, r, next))
             further == [heap |-> g, elem |-> next]
             less1 == [heap |-> cut, elem |-> e]
             moved == [heap |-> given, elem |-> e]
  <2>3. body[s] = IF next = list_end(l) THEN s
                  ELSE IF less(e, next) \/ less(next, e) THEN further
                  ELSE IF r = NULL THEN less1 ELSE moved
    BY <2>1, <2>2
  <2>4. /\ e \in Elem /\ x \in 1 .. M /\ a \in Nat
        /\ next = list_end(l) <=> x = M
        /\ x # M => next = Contents(d)[l][a + 1] /\ next \in Elem
    BY <1>1, <2>2, UniqueNext
  <2> HIDE DEF body, C, M, e, next, cut, given, further, less1, moved, W, At
  <2>5. CASE x = M
    <3>1. q = 0
      BY <1>1, <2>2, <2>5
    <3> QED BY <2>3, <2>4, <2>5, <3>1
  <2>6. CASE x # M
    <3>1. q # 0 /\ q - 1 \in Nat /\ M - (x + 1) = q - 1
      BY <1>1, <2>2, <2>4, <2>6
    <3>2. less(e, next) \/ less(next, e) <=> Key[e] # Key[next]
      <4>1. Key[e] \in Int /\ Key[next] \in Int
        BY <2>4, <2>6, KeyAssumption
      <4>2. \A y, z \in Int : y < z \/ z < y <=> y # z
        OBVIOUS
      <4> QED BY <4>1, <4>2 DEF less
    <3>3. CASE Key[e] # Key[next]
      <4>1. IsChains(d) /\ Sifted(C, l, r, Contents(d), a, x)
        BY <2>2 DEF UniqueAt, Shape, C
      <4>2. Contents(d) \in [List -> Seq(Elem)]
        BY <4>1, ContentsType
      <4>3. x # Len(C[l]) /\ Key[Contents(d)[l][a]] # Key[Contents(d)[l][a + 1]]
        BY <2>4, <2>6, <3>3 DEF e, M
      <4>4. Sifted(C, l, r, Contents(d), a + 1, x + 1)
        BY <1>1, <4>1, <4>2, <4>3, SiftedFurther
      <4>5. UniqueAt(c, l, r, g, d, a + 1, x + 1)
        BY <2>2, <4>4 DEF UniqueAt, C
      <4>6. At(q - 1, g, next)
        BY <2>4, <2>6, <3>1, <4>5 DEF At
      <4>7. further \in W[q - 1]
        BY <1>2, <3>1, <4>6 DEF further
      <4> QED BY <2>3, <2>4, <2>6, <3>1, <3>2, <3>3, <4>7
    <3>4. CASE Key[e] = Key[next]
      <4>1. \E f : /\ UniqueAt(c, l, r, IF r = NULL THEN cut ELSE given, f, a, x + 1)
                   /\ Contents(f)[l][a] = e
        <5>1. x # Len(Contents(c)[l]) /\ Key[Contents(d)[l][a]] = Key[Contents(d)[l][a + 1]]
          BY <2>4, <2>6, <3>4 DEF e, M, C
        <5>2. UniqueAt(c, l, r, g, d, a, x) /\ IsChains(c)
          BY <1>1, <2>2
        <5> HIDE DEF g
        <5>3. \E f : /\ UniqueAt(c, l, r, Sent(g, r, g.next[Contents(d)[l][a]]), f, a, x + 1)
                     /\ Contents(f)[l][a] = Contents(d)[l][a]
          BY <5>1, <5>2, UniqueSends
        <5> QED BY <5>3 DEF Sent, TakenAway, e, next, cut, given
      <4>2. At(q - 1, IF r = NULL THEN cut ELSE given, e)
        BY <3>1, <4>1 DEF At
      <4>3. [heap |-> IF r = NULL THEN cut ELSE given, elem |-> e] \in W[q - 1]
        BY <1>2, <3>1, <4>2
      <4>4. body[s] = [heap |-> IF r = NULL THEN cut ELSE given, elem |-> e]
        BY <2>3, <2>4, <2>6, <3>2, <3>4 DEF less1, moved
      <4> QED BY <3>1, <4>3, <4>4
    <3> QED BY <3>3, <3>4
  <2> QED BY <2>5, <2>6
<1>4. /\ Len(c[l]) \in Nat /\ Len(c[l]) >= 2 /\ c[l][1] = list_head(l)
      /\ c[l][Len(c[l])] = list_end(l) /\ c[l] \in Seq(Node) /\ Distinct(c[l])
      /\ \A m, n \in 1 .. Len(c[l]) : c[l][m] = c[l][n] => m = n
  BY <1>1, ChainOf DEF Distinct
<1>5. M = Len(c[l]) - 2
  BY <1>1, ContentsOf
<1>6. 1 \in 1 .. Len(c[l]) /\ 1 # Len(c[l]) /\ 1 + 1 = 2 /\ 2 \in 1 .. Len(c[l])
  BY <1>4
<1>7. list_begin(h, l) = c[l][2]
  BY <1>4, <1>6, LinksAt DEF list_begin
<1>8. CASE list_empty(h, l)
  <2>1. M = 0
    <3>1. Len(c[l]) \in 1 .. Len(c[l])
      BY <1>4
    <3>2. Len(c[l]) = 2
      BY <1>4, <1>6, <1>7, <1>8, <3>1 DEF list_empty
    <3> QED BY <1>5, <3>2
  <2>2. C[l] = <<>>
    <3>1. C[l] \in Seq(Elem) /\ Len(C[l]) = 0
      <4> HIDE DEF C
      <4> QED BY <1>1, <2>1 DEF M
    <3> HIDE DEF C
    <3> QED BY <3>1, EmptySeq
  <2> HIDE DEF C, M
  <2>3. Same(C[l]) = {} /\ DOMAIN C[l] \ Same(C[l]) = {}
    <3>1. DOMAIN C[l] = {}
      BY <2>2
    <3> QED BY <3>1 DEF Same
  <2>4. C = [C EXCEPT ![l] = Abstract!Pick(C[l], DOMAIN C[l] \ Same(C[l]))]
    <3>1. Abstract!Pick(C[l], DOMAIN C[l] \ Same(C[l])) = C[l]
      BY <2>2, <2>3, PickNone
    <3>2. [C EXCEPT ![l] = C[l]] = C
      BY <1>1
    <3> QED BY <3>1, <3>2
  <2>5. Abstract!Unique(C, C, l)
    BY <2>4 DEF Abstract!Unique, Same
  <2>6. Abstract!Step(C, C)
    BY <2>5 DEF Abstract!Step
  <2>7. list_unique(h, l, r) = h
    BY <1>8 DEF list_unique
  <2> QED BY <2>6, <2>7 DEF C
<1>9. CASE ~list_empty(h, l)
  <2>1. Len(c[l]) # 2
    BY <1>4, <1>7, <1>9 DEF list_empty
  <2>2. M >= 1 /\ M - 1 \in Nat /\ M - 1 < Rounds /\ C[l] # <<>>
    <3>1. Len(c[l]) <= Rounds /\ Rounds \in Nat
      BY <1>4, RoundsSuffice, NodesFinite
    <3>2. M >= 1 /\ M - 1 \in Nat /\ M - 1 < Rounds
      <4>1. \A n, m, w \in Nat : n >= 2 /\ n # 2 /\ n <= w /\ m = n - 2
                                   => m >= 1 /\ m - 1 \in Nat /\ m - 1 < w
        OBVIOUS
      <4> HIDE DEF M
      <4> QED BY <1>1, <1>4, <1>5, <2>1, <3>1, <4>1
    <3>3. C[l] # <<>>
      <4> HIDE DEF C
      <4> QED BY <3>2 DEF M
    <3> QED BY <3>2, <3>3
  <2>3. Sifted(C, l, r, C, 1, 1)
    <3> HIDE DEF C
    <3> QED BY <1>1, <2>2, SiftedFirst
  <2>4. UniqueAt(c, l, r, h, c, 1, 1)
    BY <2>3 DEF UniqueAt
  <2>5. C[l][1] = c[l][2]
    <3>1. 1 \in 1 .. Len(c[l]) - 2
      <4>1. \A n \in Nat : n >= 2 /\ n # 2 => 1 \in 1 .. n - 2
        OBVIOUS
      <4> QED BY <1>4, <2>1, <4>1
    <3> QED BY <1>1, <1>6, <3>1, ContentsOf
  <2>6. At(M - 1, h, list_begin(h, l))
    BY <1>7, <2>4, <2>5
  <2>7. start \in W[M - 1]
    <3> HIDE DEF At, W, C, M
    <3> QED BY <1>2, <2>2, <2>6
  <2>8. Iterate(body, start, Rounds) \in W[0]
    <3> HIDE DEF At, W, C, M, body, start
    <3>1. \A y \in W[0] : body[y] \in W[0]
      BY <1>3
    <3>2. \A q \in Nat : \A y \in W[q] :
            body[y] \in W[0] \/ \E p \in Nat : p < q /\ body[y] \in W[p]
      <4> SUFFICES ASSUME NEW q \in Nat, NEW y \in W[q]
                   PROVE  body[y] \in W[0] \/ \E p \in Nat : p < q /\ body[y] \in W[p]
        OBVIOUS
      <4>1. CASE q = 0
        BY <3>1, <4>1
      <4>2. CASE q # 0
        <5>1. q - 1 \in Nat /\ q - 1 < q /\ body[y] \in W[q - 1]
          BY <1>3, <4>2
        <5> QED BY <5>1
      <4> QED BY <4>1, <4>2
    <3> QED BY <2>2, <2>7, <3>1, <3>2, NodesFinite, LoopEnds
  <2> DEFINE g == Iterate(body, start, Rounds).heap
             e == Iterate(body, start, Rounds).elem
  <2>9. At(0, g, e)
    <3> HIDE DEF At, body, start
    <3> QED BY <2>8
  <2>10. PICK d, a, x : UniqueAt(c, l, r, g, d, a, x) /\ M - x = 0
    <3> HIDE DEF g, e, M
    <3> QED BY <2>9
  <2> HIDE DEF g
  <2>11. x \in 1 .. M /\ x = M
    <3>1. x \in 1 .. M
      BY <2>10 DEF UniqueAt, Sifted
    <3> HIDE DEF M
    <3> QED BY <1>1, <2>10, <3>1
  <2>12. Shape(g, d) /\ IsChains(d) /\ Sifted(C, l, r, Contents(d), a, x)
    BY <2>10 DEF UniqueAt, Shape
  <2>13. Contents(d) \in [List -> Seq(Elem)]
    BY <2>12, ContentsType
  <2>14. Abstract!Unique(C, Contents(d), l)
    <3> DEFINE D == Contents(d)
    <3>1. Sifted(C, l, r, D, a, x) /\ D \in [List -> Seq(Elem)] /\ x = Len(C[l])
      BY <2>11, <2>12, <2>13
    <3> HIDE DEF C, D
    <3>2. Abstract!Unique(C, D, l)
      BY <1>1, <3>1, SiftedLast
    <3> QED BY <3>2 DEF D
  <2>15. Abstract!Step(C, Contents(d))
    <3> HIDE DEF C
    <3> QED BY <2>14 DEF Abstract!Step
  <2>16. list_unique(h, l, r) = g
    BY <1>9 DEF list_unique, g
  <2> QED BY <2>12, <2>15, <2>16
<1> QED BY <1>8, <1>9

-----------------------------------------------------------------------------
(* list_sort.                                                              *)

\* The chain s has the elements of s0, at place n the one from place p[n]; those with
\* equal keys are in the order in which they are in s0.
Arranged(p, s0, s) ==
  LET P == 2 .. Len(s0) - 1
  IN  /\ Len(s) = Len(s0) /\ p \in [P -> P]
      /\ \A n \in P : s[n] = s0[p[n]]
      /\ \A x \in P : \E n \in P : p[n] = x
      /\ \A m, n \in P : m < n /\ Key[s[m]] = Key[s[n]] => p[m] < p[n]
Stable(s0, s) == \E p : Arranged(p, s0, s)

\* At first it is so.
LEMMA StableFirst ==
  ASSUME NEW s
  PROVE  Stable(s, s)
<1> DEFINE P == 2 .. Len(s) - 1
           p == [n \in P |-> n]
<1>1. p \in [P -> P] /\ \A n \in P : p[n] = n
  OBVIOUS
<1> HIDE DEF p
<1>2. Arranged(p, s, s)
  BY <1>1 DEF Arranged
<1> QED BY <1>2 DEF Stable

\* The element at j is moved to the place i before it, and those from i on make room.
Moved(s, t, i, j) ==
  /\ Len(t) = Len(s)
  /\ \A n \in 1 .. Len(s) : t[n] = IF n < i \/ n > j THEN s[n]
                                   ELSE IF n = i THEN s[j] ELSE s[n - 1]

\* This is stable if its key is less than theirs.
LEMMA MovedStable ==
  ASSUME NEW s0, IsChain(s0), NEW s, Stable(s0, s), NEW t, NEW i \in 2 .. Len(s0) - 1,
         NEW j \in i + 1 .. Len(s0) - 1, Moved(s, t, i, j),
         \A n \in i .. j - 1 : less(s[j], s[n])
  PROVE  Stable(s0, t)
<1> DEFINE N == Len(s0)
           P == 2 .. N - 1
           From(n) == IF n < i \/ n > j THEN n ELSE IF n = i THEN j ELSE n - 1
<1>1. PICK p : Arranged(p, s0, s)
  BY DEF Stable
<1> DEFINE q == [n \in P |-> p[From(n)]]
<1>2. N \in Nat /\ \A x \in P : s0[x] \in Elem
  BY DEF IsChain
<1>3. /\ Len(s) = N /\ Len(t) = N /\ p \in [P -> P] /\ \A n \in P : s[n] = s0[p[n]]
      /\ \A n \in 1 .. N : t[n] = IF n < i \/ n > j THEN s[n] ELSE IF n = i THEN s[j] ELSE s[n - 1]
  BY <1>1 DEF Arranged, Moved
<1>4. \A x \in P : \E n \in P : p[n] = x
  BY <1>1 DEF Arranged
<1>5. \A m, n \in P : m < n /\ Key[s[m]] = Key[s[n]] => p[m] < p[n]
  BY <1>1 DEF Arranged
<1>6. \A n \in P : From(n) \in P
  <2> HIDE DEF N
  <2> QED BY <1>2 DEF N
<1>7. \A n \in P : From(n) \in P /\ t[n] = s[From(n)]
  <2> SUFFICES ASSUME NEW n \in P PROVE From(n) \in P /\ t[n] = s[From(n)]
    OBVIOUS
  <2>1. n \in 1 .. N
    BY <1>2
  <2> QED BY <1>3, <1>6, <2>1
<1>8. ASSUME NEW x \in P PROVE \E n \in P : From(n) = x
  <2> HIDE DEF N
  <2>1. CASE x < i \/ x > j
    BY <2>1
  <2>2. CASE x = j
    <3>1. i \in P /\ From(i) = j
      BY DEF N
    <3> QED BY <2>2, <3>1
  <2>3. CASE x >= i /\ x < j
    <3>1. x + 1 \in P /\ ~(x + 1 < i \/ x + 1 > j) /\ x + 1 # i /\ (x + 1) - 1 = x
      BY <2>3 DEF N
    <3>2. From(x + 1) = x
      BY <3>1
    <3> QED BY <3>1, <3>2
  <2> QED BY <2>1, <2>2, <2>3
<1>9. ASSUME NEW m \in P, NEW n \in P, m < n
      PROVE  From(m) < From(n) \/ (From(m) = j /\ From(n) \in i .. j - 1)
  <2> HIDE DEF N
  <2> QED BY <1>9
<1> HIDE DEF N, From
<1>10. q \in [P -> P] /\ \A n \in P : q[n] = p[From(n)]
  BY <1>3, <1>6
<1> HIDE DEF q
<1>11. \A n \in P : t[n] = s0[q[n]]
  <2> TAKE n \in P
  <2>1. From(n) \in P /\ t[n] = s[From(n)]
    BY <1>7
  <2>2. s[From(n)] = s0[p[From(n)]]
    BY <1>3, <2>1
  <2> QED BY <1>10, <2>1, <2>2
<1>12. ASSUME NEW x \in P PROVE \E n \in P : q[n] = x
  <2>1. PICK k \in P : p[k] = x
    BY <1>4
  <2>2. PICK n \in P : From(n) = k
    BY <1>8
  <2> QED BY <1>10, <2>1, <2>2
<1>13. ASSUME NEW m \in P, NEW n \in P, m < n, Key[t[m]] = Key[t[n]]
       PROVE  q[m] < q[n]
  <2>1. Key[s[From(m)]] = Key[s[From(n)]] /\ From(m) \in P /\ From(n) \in P
    BY <1>7, <1>13
  <2>2. CASE From(m) < From(n)
    BY <1>5, <1>10, <2>1, <2>2
  <2>3. CASE From(m) = j /\ From(n) \in i .. j - 1
    <3>1. Key[s[j]] < Key[s[From(n)]]
      BY <2>3 DEF less
    <3>2. p[From(n)] \in P /\ s[From(n)] = s0[p[From(n)]]
      BY <1>3, <2>1
    <3>3. Key[s[From(n)]] \in Int
      BY <1>2, <3>2, KeyAssumption
    <3> QED BY <2>1, <2>3, <3>1, <3>3
  <2> QED BY <1>9, <1>13, <2>2, <2>3
<1>14. Arranged(q, s0, t)
  BY <1>3, <1>10, <1>11, <1>12, <1>13 DEF Arranged, N
<1> QED BY <1>14 DEF Stable

\* A chain in order with the elements of another is what Lists calls that one sorted.
LEMMA StableSorted ==
  ASSUME NEW s0, IsChain(s0), NEW s, IsChain(s), Stable(s0, s), Falls(s) = {}
  PROVE  Inside(s) = Abstract!Sorted(Inside(s0))
<1> DEFINE N == Len(s0)
           M == N - 2
           P == 2 .. N - 1
           f == Inside(s0)
           g == Inside(s)
<1>1. PICK p : Arranged(p, s0, s)
  BY DEF Stable
<1> DEFINE q == [n \in 1 .. M |-> p[n + 1] - 1]
<1>2. /\ N \in Nat /\ N >= 2 /\ \A x \in P : s0[x] \in Elem
  BY DEF IsChain
<1>3. /\ Len(s) = N /\ p \in [P -> P] /\ \A n \in P : s[n] = s0[p[n]]
  BY <1>1 DEF Arranged
<1>4. \A x \in P : \E n \in P : p[n] = x
  BY <1>1 DEF Arranged
<1>5. \A m, n \in P : m < n /\ Key[s[m]] = Key[s[n]] => p[m] < p[n]
  BY <1>1 DEF Arranged
<1>6. InOrder(s, 2, N - 1)
  BY <1>3, SortedChain
<1>7. /\ f \in Seq(Elem) /\ Len(f) = M /\ \A i \in 1 .. M : f[i] = s0[i + 1]
      /\ g \in Seq(Elem) /\ Len(g) = M /\ \A i \in 1 .. M : g[i] = s[i + 1]
  BY <1>3, InsideIs
<1> HIDE DEF f, g, N
<1>8. M \in Nat /\ \A n \in 1 .. M : n + 1 \in P
  BY <1>2
<1>9. \A y \in P : y - 1 \in 1 .. M /\ (y - 1) + 1 = y /\ y \in Int
  BY <1>2
<1>10. \A n \in 1 .. M : p[n + 1] \in P
  BY <1>3, <1>8
<1> HIDE DEF M, P
<1>11. q \in [1 .. M -> 1 .. M] /\ \A n \in 1 .. M : q[n] = p[n + 1] - 1
  BY <1>9, <1>10
<1> HIDE DEF q
<1>12. ASSUME NEW n \in 1 .. M PROVE g[n] = f[q[n]]
  <2>1. g[n] = s0[p[n + 1]]
    BY <1>3, <1>7, <1>8
  <2>2. f[q[n]] = s0[(p[n + 1] - 1) + 1]
    BY <1>7, <1>11
  <2>3. (p[n + 1] - 1) + 1 = p[n + 1]
    BY <1>9, <1>10
  <2> QED BY <2>1, <2>2, <2>3
<1>13. ASSUME NEW x \in 1 .. M PROVE \E n \in 1 .. M : q[n] = x
  <2>1. PICK y \in P : p[y] = x + 1
    BY <1>4, <1>8
  <2>2. y - 1 \in 1 .. M /\ (y - 1) + 1 = y
    BY <1>9
  <2>3. q[y - 1] = p[(y - 1) + 1] - 1
    BY <1>11, <2>2
  <2>4. (x + 1) - 1 = x
    OBVIOUS
  <2>5. q[y - 1] = x
    BY <2>1, <2>2, <2>3, <2>4
  <2> QED BY <2>2, <2>5
<1>14. ASSUME NEW m \in 1 .. M, NEW n \in 1 .. M, m < n
       PROVE  Key[g[m]] < Key[g[n]] \/ (Key[g[m]] = Key[g[n]] /\ q[m] < q[n])
  <2>1. m + 1 \in P /\ n + 1 \in P /\ m + 1 < n + 1 /\ m + 1 <= n + 1
    BY <1>8, <1>14
  <2>2. Key[s[m + 1]] <= Key[s[n + 1]]
    BY <1>6, <2>1 DEF InOrder, P
  <2>3. p[m + 1] \in P /\ p[n + 1] \in P
    BY <1>10
  <2>4. Key[s[m + 1]] \in Int /\ Key[s[n + 1]] \in Int
    <3>1. s[m + 1] \in Elem /\ s[n + 1] \in Elem
      BY <1>2, <1>3, <2>1, <2>3
    <3> QED BY <3>1, KeyAssumption
  <2>5. Key[s[m + 1]] < Key[s[n + 1]] \/ Key[s[m + 1]] = Key[s[n + 1]]
    BY <2>2, <2>4
  <2>6. g[m] = s[m + 1] /\ g[n] = s[n + 1]
    BY <1>7
  <2>7. p[m + 1] < p[n + 1] => q[m] < q[n]
    <3>1. \A x, y \in Int : x < y => x - 1 < y - 1
      OBVIOUS
    <3> QED BY <1>9, <1>11, <2>3, <3>1
  <2> QED BY <1>5, <2>1, <2>5, <2>6, <2>7
<1>15. SortedBy(q, M, f, g)
  BY <1>7, <1>8, <1>11, <1>12, <1>13, <1>14 DEF SortedBy
<1> QED BY <1>15, SortedIs DEF f, g

\* While the two runs from i to y - 1 and from y to k - 1 are merged: both are in order, and
\* what is before x does not come after anything in the second.
Merges(s, i, x, y, k) ==
  /\ x \in i .. y /\ y \in i .. k
  /\ InOrder(s, i, y - 1) /\ InOrder(s, y, k - 1)
  /\ \A m \in i .. x - 1, n \in y .. k - 1 : Key[s[m]] <= Key[s[n]]

\* An element of the first run that comes before the second stays.
LEMMA MergesFurther ==
  ASSUME NEW i \in Nat, NEW k \in Nat, NEW s, \A n \in i .. k - 1 : s[n] \in Elem,
         NEW x, NEW y, Merges(s, i, x, y, k), x # y, y # k, ~less(s[y], s[x])
  PROVE  Merges(s, i, x + 1, y, k)
<1>1. /\ x \in i .. y - 1 /\ y \in i .. k - 1 /\ x + 1 \in i .. y /\ y \in i .. k
      /\ x \in i .. k - 1 /\ y \in y .. k - 1
  BY DEF Merges
<1>2. \A n \in i .. k - 1 : Key[s[n]] \in Int
  BY KeyAssumption
<1>3. ASSUME NEW m \in i .. (x + 1) - 1, NEW n \in y .. k - 1 PROVE Key[s[m]] <= Key[s[n]]
  <2>1. n \in i .. k - 1 /\ y <= n
    BY <1>1
  <2>2. CASE m = x
    <3>1. Key[s[y]] <= Key[s[n]]
      BY <1>1, <2>1 DEF Merges, InOrder
    <3>2. ~(Key[s[y]] < Key[s[x]])
      BY DEF less
    <3>3. \A a, b, e \in Int : ~(a < b) /\ a <= e => b <= e
      OBVIOUS
    <3> QED BY <1>1, <1>2, <2>1, <2>2, <3>1, <3>2, <3>3
  <2>3. CASE m # x
    <3>1. m \in i .. x - 1
      BY <1>1, <2>3
    <3> QED BY <3>1 DEF Merges
  <2> QED BY <2>2, <2>3
<1> QED BY <1>1, <1>3 DEF Merges

\* The first of the second run is moved before all of the first that come after it.
LEMMA MergesMoved ==
  ASSUME NEW i \in Nat, NEW k \in Nat, NEW s, \A n \in i .. k - 1 : s[n] \in Elem,
         NEW x, NEW y, Merges(s, i, x, y, k), x # y, y # k, less(s[y], s[x]),
         i >= 1, k <= Len(s), NEW t, Moved(s, t, x, y), Len(s) \in Nat
  PROVE  /\ Merges(t, i, x + 1, y + 1, k)
         /\ \A n \in x .. y - 1 : less(s[y], s[n])
<1>1. /\ x \in i .. y - 1 /\ y \in i .. k - 1 /\ x + 1 \in i .. y + 1 /\ y + 1 \in i .. k
      /\ x \in i .. k - 1 /\ y \in y .. k - 1 /\ (y + 1) - 1 = y
  BY DEF Merges
<1>2. \A n \in i .. k - 1 : Key[s[n]] \in Int
  BY KeyAssumption
<1>3. ASSUME NEW n \in i .. k - 1
      PROVE  t[n] = IF n < x \/ n > y THEN s[n] ELSE IF n = x THEN s[y] ELSE s[n - 1]
  <2>1. n \in 1 .. Len(s)
    OBVIOUS
  <2> QED BY <2>1 DEF Moved
<1>4. t[x] = s[y]
  <2>1. x \in i .. k - 1 /\ x \in Int /\ ~(x < x) /\ ~(x > y)
    BY <1>1
  <2> QED BY <1>3, <2>1
<1>5. ASSUME NEW n \in x .. y - 1 PROVE Key[s[y]] < Key[s[n]]
  <2>1. n \in i .. y - 1 /\ n \in i .. k - 1 /\ x <= n
    BY <1>1
  <2>2. Key[s[x]] <= Key[s[n]]
    BY <1>1, <2>1 DEF Merges, InOrder
  <2>3. Key[s[y]] < Key[s[x]]
    BY DEF less
  <2>4. \A a, b, e \in Int : a < b /\ b <= e => a < e
    OBVIOUS
  <2> QED BY <1>1, <1>2, <2>1, <2>2, <2>3, <2>4
<1>6. ASSUME NEW m \in i .. x - 1, NEW n \in y .. k - 1 PROVE Key[s[m]] <= Key[s[n]]
  BY DEF Merges
<1>7. \A m, n \in i .. y - 1 : m <= n => Key[s[m]] <= Key[s[n]]
  BY DEF Merges, InOrder
<1>8. \A m, n \in y .. k - 1 : m <= n => Key[s[m]] <= Key[s[n]]
  BY DEF Merges, InOrder
<1>9. ASSUME NEW m \in i .. y, NEW n \in i .. y, m <= n PROVE Key[t[m]] <= Key[t[n]]
  <2>1. m \in i .. k - 1 /\ n \in i .. k - 1
    BY <1>1, <1>9
  <2>2. CASE n < x
    <3>1. t[m] = s[m] /\ t[n] = s[n] /\ m \in i .. y - 1 /\ n \in i .. y - 1
      BY <1>1, <1>3, <1>9, <2>1, <2>2
    <3> QED BY <1>7, <1>9, <3>1
  <2>3. CASE n = x
    <3>1. t[n] = s[y]
      BY <1>4, <2>3
    <3>2. CASE m < x
      <4>1. t[m] = s[m] /\ m \in i .. x - 1
        BY <1>1, <1>3, <2>1, <3>2
      <4> QED BY <1>1, <1>6, <3>1, <4>1
    <3>3. CASE m = x
      BY <1>1, <1>2, <2>3, <3>1, <3>3
    <3> QED BY <1>1, <1>9, <2>3, <3>2, <3>3
  <2>4. CASE n > x
    <3>1. t[n] = s[n - 1] /\ n - 1 \in i .. y - 1 /\ n - 1 \in x .. y - 1 /\ n - 1 \in i .. k - 1
      BY <1>1, <1>3, <2>1, <2>4
    <3>2. CASE m < x
      <4>1. t[m] = s[m] /\ m \in i .. y - 1 /\ m <= n - 1
        BY <1>1, <1>3, <2>1, <2>4, <3>2
      <4> QED BY <1>7, <3>1, <4>1
    <3>3. CASE m = x
      <4>1. t[m] = s[y]
        BY <1>4, <3>3
      <4>2. Key[s[y]] < Key[s[n - 1]]
        BY <1>5, <3>1
      <4>3. \A a, b \in Int : a < b => a <= b
        OBVIOUS
      <4> QED BY <1>1, <1>2, <3>1, <4>1, <4>2, <4>3
    <3>4. CASE m > x
      <4>1. t[m] = s[m - 1] /\ m - 1 \in i .. y - 1 /\ m - 1 <= n - 1
        BY <1>1, <1>3, <1>9, <2>1, <3>4
      <4> QED BY <1>7, <3>1, <4>1
    <3> QED BY <1>1, <1>9, <3>2, <3>3, <3>4
  <2> QED BY <1>1, <1>9, <2>2, <2>3, <2>4
<1>10. ASSUME NEW m \in y + 1 .. k - 1, NEW n \in y + 1 .. k - 1, m <= n
      PROVE  Key[t[m]] <= Key[t[n]]
  <2>1. /\ m \in i .. k - 1 /\ n \in i .. k - 1 /\ m > y /\ n > y
        /\ m \in y .. k - 1 /\ n \in y .. k - 1
    BY <1>1
  <2>2. t[m] = s[m] /\ t[n] = s[n]
    BY <1>1, <1>3, <2>1
  <2> QED BY <1>8, <1>10, <2>1, <2>2
<1>11. ASSUME NEW m \in i .. (x + 1) - 1, NEW n \in y + 1 .. k - 1 PROVE Key[t[m]] <= Key[t[n]]
  <2>1. n \in i .. k - 1 /\ n > y /\ n \in y .. k - 1 /\ m \in i .. k - 1 /\ y <= n
    BY <1>1
  <2>2. t[n] = s[n]
    BY <1>1, <1>3, <2>1
  <2>3. CASE m = x
    <3>1. t[m] = s[y]
      BY <1>4, <2>3
    <3> QED BY <1>1, <1>8, <2>1, <2>2, <3>1
  <2>4. CASE m # x
    <3>1. m \in i .. x - 1 /\ m < x
      BY <1>1, <2>4
    <3>2. t[m] = s[m]
      BY <1>3, <2>1, <3>1
    <3> QED BY <1>6, <2>1, <2>2, <3>1, <3>2
  <2> QED BY <2>3, <2>4
<1>12. InOrder(t, i, (y + 1) - 1)
  BY <1>1, <1>9 DEF InOrder
<1>13. InOrder(t, y + 1, k - 1)
  BY <1>10 DEF InOrder
<1> QED BY <1>1, <1>5, <1>11, <1>12, <1>13 DEF Merges, less

\* When one of the runs is used up, both are one.
LEMMA MergesEnd ==
  ASSUME NEW i \in Nat, NEW k \in Nat, NEW s, NEW x, NEW y, Merges(s, i, x, y, k),
         x = y \/ y = k
  PROVE  InOrder(s, i, k - 1)
<1>1. CASE y = k
  BY <1>1 DEF Merges
<1>2. CASE x = y
  <2> SUFFICES ASSUME NEW m \in i .. k - 1, NEW n \in i .. k - 1, m <= n
               PROVE  Key[s[m]] <= Key[s[n]]
    BY DEF InOrder
  <2>1. y \in Int
    BY DEF Merges
  <2>2. CASE n < y
    <3>1. m \in i .. y - 1 /\ n \in i .. y - 1
      BY <2>1, <2>2
    <3> QED BY <3>1 DEF Merges, InOrder
  <2>3. CASE m < y /\ n >= y
    <3>1. m \in i .. x - 1 /\ n \in y .. k - 1
      BY <1>2, <2>1, <2>3
    <3> QED BY <3>1 DEF Merges
  <2>4. CASE m >= y
    <3>1. m \in y .. k - 1 /\ n \in y .. k - 1
      BY <2>1, <2>4
    <3> QED BY <3>1 DEF Merges, InOrder
  <2> QED BY <2>1, <2>2, <2>3, <2>4
<1> QED BY <1>1, <1>2

\* The chains d differ from c between i and k - 1 of list l only, where they have the
\* elements that s0 has, in a stable order.
Within(c, d, l, i, k, s0) ==
  /\ \A m \in List \ {l} : d[m] = c[m]
  /\ Len(d[l]) = Len(c[l])
  /\ \A n \in 1 .. Len(c[l]) : n < i \/ n >= k => d[l][n] = c[l][n]
  /\ Stable(s0, d[l])

\* A round of inplace_merge has to move the element at y to the place x.
MoveDue(h, c, d, l, i, k, s0, x, y) ==
  /\ Shape(h, d) /\ i \in 2 .. Len(c[l]) /\ k \in 2 .. Len(c[l]) /\ IsChain(s0)
  /\ Within(c, d, l, i, k, s0) /\ Merges(d[l], i, x, y, k)
  /\ x # y /\ y # k /\ less(d[l][y], d[l][x])

\* Moving an element there leaves it so.
LEMMA WithinMoved ==
  ASSUME NEW h, NEW c, NEW d, NEW l \in List, NEW i, NEW k, NEW s0, NEW x, NEW y,
         MoveDue(h, c, d, l, i, k, s0, x, y)
  PROVE  LET n == h.next[d[l][y]]
         IN  \E f : /\ Shape(list_splice(h, d[l][x], h.prev[n], n), f)
                    /\ Within(c, f, l, i, k, s0) /\ Merges(f[l], i, x + 1, y + 1, k)
                    /\ f[l][x + 1] = d[l][x] /\ f[l][y + 1] = n
<1> USE DEF MoveDue
<1> DEFINE s == d[l]
           N == Len(s)
           n == h.next[s[y]]
           t == PutIn(CutOut(s, y, y), x, Part(s, y, y))
           cut == [d EXCEPT ![l] = CutOut(@, y, y)]
           f == [cut EXCEPT ![l] = PutIn(@, x, Part(s, y, y))]
           g == list_splice(h, s[x], s[y], n)
<1>1. /\ IsChains(d) /\ s \in Seq(Node) /\ N \in Nat /\ N >= 2
      /\ \A m \in 2 .. N - 1 : s[m] \in Elem
  BY ChainOf DEF Shape
<1>2. N = Len(c[l]) /\ Stable(s0, s) /\ Len(s0) = N
  BY DEF Within, Stable, Arranged
<1>3. x \in i .. y - 1 /\ y \in i .. k - 1
  BY DEF Merges
<1>4. /\ x \in 2 .. N - 1 /\ y \in x + 1 .. N - 1 /\ y \in 2 .. N - 1 /\ y \in 1 .. N /\ y # N
      /\ y \in y .. N - 1 /\ x \in 2 .. N /\ ~(y <= x /\ x <= y) /\ ~(x > y)
      /\ y + 1 \in 1 .. N /\ y + 1 # 1 /\ (y + 1) - 1 = y /\ x + 1 \in x + 1 .. y
      /\ x + 1 \in 1 .. N /\ ~(x + 1 < x \/ x + 1 > y) /\ x + 1 # x /\ (x + 1) - 1 = x
      /\ i \in Nat /\ k \in Nat /\ i >= 1 /\ k <= N /\ y + 1 > y
  <2> HIDE DEF N
  <2> QED BY <1>1, <1>2, <1>3
<1>5. n = s[y + 1] /\ h.prev[s[y + 1]] = s[y]
  BY <1>4, LinksAt
<1>6. Shape(list_splice(h, d[l][x], d[l][y], d[l][y + 1]),
            [cut EXCEPT ![l] = PutIn(@, PlaceAfter(x, l = l, y, y), Part(d[l], y, y))])
  BY <1>4, SpliceKeeps
<1>7. PlaceAfter(x, l = l, y, y) = x
  BY <1>4 DEF PlaceAfter
<1>8. Shape(g, f)
  <2> HIDE DEF cut, n
  <2> QED BY <1>5, <1>6, <1>7
<1>9. f[l] = t /\ \A m \in List \ {l} : f[m] = d[m]
  <2>1. d \in [List -> Seq(Node)]
    BY <1>1 DEF IsChains
  <2> HIDE DEF s
  <2> QED BY <2>1 DEF s
<1>10. Moved(s, t, x, y)
  <2>1. s[y] \in Elem
    BY <1>1, <1>4
  <2> HIDE DEF s
  <2> QED BY <1>1, <1>4, <2>1, MovedIs DEF Moved
<1>11. n = h.next[s[y]]
  OBVIOUS
<1> HIDE DEF t, f, cut, g, n
<1>12. Merges(t, i, x + 1, y + 1, k) /\ \A m \in x .. y - 1 : less(s[y], s[m])
  <2>1. \A m \in i .. k - 1 : s[m] \in Elem
    <3>1. \A m \in i .. k - 1 : m \in 2 .. N - 1
      BY <1>2, <1>4
    <3> QED BY <1>1, <3>1
  <2> HIDE DEF s
  <2> QED BY <1>1, <1>4, <1>10, <2>1, MergesMoved DEF s
<1>13. Stable(s0, t)
  <2> HIDE DEF s
  <2> QED BY <1>2, <1>4, <1>10, <1>12, MovedStable
<1>14. ASSUME NEW m \in 1 .. N, m < i \/ m >= k PROVE t[m] = s[m]
  <2>1. m < x \/ m > y
    BY <1>3, <1>4, <1>14
  <2> QED BY <2>1, <1>10 DEF Moved
<1>15. t[x + 1] = s[x] /\ t[y + 1] = s[y + 1] /\ Len(t) = N
  BY <1>4, <1>10 DEF Moved
<1>16. Within(c, f, l, i, k, s0)
  <2> HIDE DEF N
  <2>1. Len(f[l]) = Len(c[l])
    BY <1>2, <1>9, <1>15
  <2>2. \A m \in 1 .. Len(c[l]) : m < i \/ m >= k => f[l][m] = c[l][m]
    BY <1>2, <1>9, <1>14 DEF Within
  <2>3. \A m \in List \ {l} : f[m] = c[m]
    BY <1>9 DEF Within
  <2> QED BY <1>9, <1>13, <2>1, <2>2, <2>3 DEF Within
<1>17. g = list_splice(h, s[x], h.prev[n], n)
  BY <1>5 DEF g
<1> HIDE DEF s
<1>18. Shape(list_splice(h, s[x], h.prev[n], n), f) /\ f[l][x + 1] = s[x] /\ f[l][y + 1] = n
  BY <1>5, <1>8, <1>9, <1>15, <1>17
<1> QED BY <1>9, <1>12, <1>16, <1>18 DEF n, s

\* inplace_merge makes one run of two.
LEMMA MergeSorts ==
  ASSUME NEW h, NEW c, Shape(h, c), NEW l \in List, NEW s0, IsChain(s0), Stable(s0, c[l]),
         NEW k \in 2 .. Len(c[l]), NEW j \in 2 .. k, NEW i \in 2 .. j,
         InOrder(c[l], i, j - 1), InOrder(c[l], j, k - 1)
  PROVE  \E d : /\ Shape(inplace_merge(h, c[l][i], c[l][j], c[l][k]), d)
                /\ Within(c, d, l, i, k, s0) /\ InOrder(d[l], i, k - 1)
<1> DEFINE b1 == c[l][k]
           body == [s \in [heap : Heap, a0 : Node, a1b0 : Node] |->
                      LET n == s.heap.next[s.a1b0]
                      IN  IF s.a0 = s.a1b0 \/ s.a1b0 = b1 THEN s
                          ELSE IF ~less(s.a1b0, s.a0) THEN [s EXCEPT !.a0 = s.heap.next[s.a0]]
                          ELSE [heap |-> list_splice(s.heap, s.a0, s.heap.prev[n], n),
                                a0 |-> s.a0, a1b0 |-> n]]
           start == [heap |-> h, a0 |-> c[l][i], a1b0 |-> c[l][j]]
           At(g, a, b, d, x, y) == /\ Shape(g, d) /\ Within(c, d, l, i, k, s0)
                                   /\ Merges(d[l], i, x, y, k) /\ a = d[l][x] /\ b = d[l][y]
           W == [q \in Nat |-> {s \in [heap : Heap, a0 : Node, a1b0 : Node] :
                                  \E d, x, y : At(s.heap, s.a0, s.a1b0, d, x, y) /\ k - x = q}]
           E == {s \in [heap : Heap, a0 : Node, a1b0 : Node] :
                   \E d, x, y : At(s.heap, s.a0, s.a1b0, d, x, y) /\ (x = y \/ y = k)}
<1>1. /\ i \in Nat /\ j \in Nat /\ k \in Nat /\ Len(c[l]) \in Nat
      /\ k \in 1 .. Len(c[l]) /\ i \in 2 .. Len(c[l])
  BY ChainOf DEF Shape
<1>2. ASSUME NEW g, NEW a, NEW b, NEW d, NEW x, NEW y, At(g, a, b, d, x, y),
             NEW q \in Nat, k - x = q
      PROVE  [heap |-> g, a0 |-> a, a1b0 |-> b] \in W[q]
  <2>1. /\ Shape(g, d) /\ a = d[l][x] /\ b = d[l][y] /\ Len(d[l]) = Len(c[l])
        /\ x \in 1 .. Len(c[l]) /\ y \in 1 .. Len(c[l])
    BY <1>1, <1>2 DEF Within, Merges
  <2>2. g \in Heap /\ a \in Node /\ b \in Node
    BY <2>1, LinksAt DEF Shape
  <2> DEFINE r == [heap |-> g, a0 |-> a, a1b0 |-> b]
  <2>3. r \in [heap : Heap, a0 : Node, a1b0 : Node] /\ r.heap = g /\ r.a0 = a /\ r.a1b0 = b
    BY <2>2
  <2> HIDE DEF r, At
  <2>4. r \in W[q]
    BY <1>2, <2>3
  <2> QED BY <2>4 DEF r
<1>3. ASSUME NEW g, NEW d, NEW x, NEW y, At(g, d[l][x], d[l][y], d, x, y)
      PROVE  /\ x = y <=> d[l][x] = d[l][y]
             /\ y = k <=> d[l][y] = b1
             /\ x \in Nat /\ y \in Nat /\ x <= y /\ y <= k /\ k <= Len(d[l]) /\ x >= 2
  <2>1. /\ Shape(g, d) /\ Len(d[l]) = Len(c[l]) /\ x \in i .. y /\ y \in i .. k
        /\ \A n \in 1 .. Len(c[l]) : n < i \/ n >= k => d[l][n] = c[l][n]
    BY <1>3 DEF Within, Merges
  <2>2. d[l][k] = b1
    BY <1>1, <2>1
  <2>3. \A m, n \in 1 .. Len(d[l]) : d[l][m] = d[l][n] => m = n
    BY <2>1, ChainOf DEF Shape, Distinct
  <2>4. x \in 1 .. Len(d[l]) /\ y \in 1 .. Len(d[l]) /\ k \in 1 .. Len(d[l])
    BY <1>1, <2>1
  <2>5. x \in Nat /\ y \in Nat /\ x <= y /\ y <= k /\ k <= Len(d[l]) /\ x >= 2
    BY <1>1, <2>1
  <2> HIDE DEF b1
  <2> QED BY <2>2, <2>3, <2>4, <2>5
<1>4. ASSUME NEW s \in E PROVE body[s] \in E
  <2>1. PICK d, x, y : At(s.heap, s.a0, s.a1b0, d, x, y) /\ (x = y \/ y = k)
    OBVIOUS
  <2>2. s.a0 = d[l][x] /\ s.a1b0 = d[l][y]
    BY <2>1
  <2>3. s.a0 = s.a1b0 \/ s.a1b0 = b1
    <3> HIDE DEF At, b1, body, start, W, E
    <3>1. At(s.heap, d[l][x], d[l][y], d, x, y)
      BY <2>1, <2>2
    <3>2. /\ x = y <=> d[l][x] = d[l][y]
          /\ y = k <=> d[l][y] = b1
          /\ x \in Nat /\ y \in Nat /\ x <= y /\ y <= k /\ k <= Len(d[l]) /\ x >= 2
      BY <1>3, <3>1
    <3> QED BY <2>1, <2>2, <3>2
  <2> HIDE DEF At, b1
  <2>4. body[s] = s
    BY <2>3
  <2> QED BY <2>4
<1>5. ASSUME NEW q \in Nat, NEW s \in W[q]
      PROVE  body[s] \in E \/ (q - 1 \in Nat /\ body[s] \in W[q - 1])
  <2>1. s \in [heap : Heap, a0 : Node, a1b0 : Node] /\ s.heap \in Heap
    OBVIOUS
  <2>2. PICK d, x, y : At(s.heap, s.a0, s.a1b0, d, x, y) /\ k - x = q
    OBVIOUS
  <2> DEFINE n == s.heap.next[s.a1b0]
             further == [heap |-> s.heap, a0 |-> s.heap.next[s.a0], a1b0 |-> s.a1b0]
             moved == [heap |-> list_splice(s.heap, s.a0, s.heap.prev[n], n), a0 |-> s.a0,
                       a1b0 |-> n]
  <2>3. body[s] = IF s.a0 = s.a1b0 \/ s.a1b0 = b1 THEN s
                  ELSE IF ~less(s.a1b0, s.a0) THEN further ELSE moved
    BY <2>1
  <2>4. /\ Shape(s.heap, d) /\ Within(c, d, l, i, k, s0) /\ Merges(d[l], i, x, y, k)
        /\ s.a0 = d[l][x] /\ s.a1b0 = d[l][y]
    BY <2>2
  <2>5. /\ x = y <=> d[l][x] = d[l][y]
        /\ y = k <=> d[l][y] = b1
        /\ x \in Nat /\ y \in Nat /\ x <= y /\ y <= k /\ k <= Len(d[l]) /\ x >= 2
    <3> HIDE DEF At, b1
    <3>1. At(s.heap, d[l][x], d[l][y], d, x, y)
      BY <2>2, <2>4
    <3> QED BY <1>3, <3>1
  <2>6. CASE x = y \/ y = k
    <3>1. s \in E
      BY <2>1, <2>2, <2>6
    <3> QED BY <1>4, <3>1
  <2>7. CASE ~(x = y \/ y = k)
    <3> HIDE DEF body, E
    <3>1. q - 1 \in Nat /\ k - (x + 1) = q - 1
      <4>1. \A a, b \in Nat : a < b => b - a - 1 \in Nat /\ b - (a + 1) = b - a - 1
        OBVIOUS
      <4>2. x < k /\ x \in Nat /\ k \in Nat
        <5> HIDE DEF At
        <5> QED BY <2>5, <2>7
      <4>3. k - x = q
        BY <2>2
      <4> HIDE DEF At
      <4> QED BY <4>1, <4>2, <4>3
    <3>2. IsChains(d) /\ Len(d[l]) \in Nat /\ Len(d[l]) = Len(c[l])
          /\ \A m \in 2 .. Len(d[l]) - 1 : d[l][m] \in Elem
      BY <2>4, ChainOf DEF Shape, Within
    <3>3. CASE ~less(s.a1b0, s.a0)
      <4>1. Merges(d[l], i, x + 1, y, k)
        <5>1. \A m \in i .. k - 1 : d[l][m] \in Elem
          <6>1. \A m \in i .. k - 1 : m \in 2 .. Len(d[l]) - 1
            BY <1>1, <3>2
          <6> QED BY <3>2, <6>1
        <5> QED BY <1>1, <2>4, <2>7, <3>3, <5>1, MergesFurther
      <4>2. s.heap.next[d[l][x]] = d[l][x + 1]
        <5>1. x \in 1 .. Len(d[l]) /\ x # Len(d[l])
          BY <1>1, <2>5, <2>7, <3>2
        <5> QED BY <2>4, <5>1, LinksAt
      <4>3. At(s.heap, d[l][x + 1], s.a1b0, d, x + 1, y)
        BY <2>4, <4>1
      <4>4. further \in W[q - 1]
        <5> HIDE DEF At, W
        <5> QED BY <1>2, <2>4, <3>1, <4>2, <4>3
      <4> HIDE DEF further, moved, W
      <4> QED BY <2>3, <2>4, <2>5, <2>7, <3>1, <3>3, <4>4
    <3>4. CASE less(s.a1b0, s.a0)
      <4>1. PICK f : /\ Shape(list_splice(s.heap, d[l][x], s.heap.prev[n], n), f)
                     /\ Within(c, f, l, i, k, s0) /\ Merges(f[l], i, x + 1, y + 1, k)
                     /\ f[l][x + 1] = d[l][x] /\ f[l][y + 1] = n
        <5> HIDE DEF At, W, E, body, moved, further, b1, n
        <5>1. ASSUME NEW g, Shape(g, d)
              PROVE  LET v == g.next[d[l][y]]
                     IN  \E f : /\ Shape(list_splice(g, d[l][x], g.prev[v], v), f)
                                /\ Within(c, f, l, i, k, s0) /\ Merges(f[l], i, x + 1, y + 1, k)
                                /\ f[l][x + 1] = d[l][x] /\ f[l][y + 1] = v
          <6>1. Within(c, d, l, i, k, s0) /\ Merges(d[l], i, x, y, k)
            BY <2>4
          <6>2. less(d[l][y], d[l][x]) /\ x # y /\ y # k
            BY <2>4, <2>7, <3>4
          <6>3. i \in 2 .. Len(c[l]) /\ k \in 2 .. Len(c[l])
            BY <1>1
          <6>4. MoveDue(g, c, d, l, i, k, s0, x, y)
            BY <5>1, <6>1, <6>2, <6>3 DEF MoveDue
          <6> QED BY <6>4, WithinMoved
        <5>2. n = s.heap.next[d[l][y]]
          BY <2>4 DEF n
        <5> QED BY <2>4, <5>1, <5>2
      <4>2. At(list_splice(s.heap, s.a0, s.heap.prev[n], n), s.a0, n, f, x + 1, y + 1)
        BY <2>4, <4>1
      <4>3. moved \in W[q - 1]
        <5> HIDE DEF At, W, n
        <5> QED BY <1>2, <3>1, <4>2
      <4> HIDE DEF further, moved, W
      <4> QED BY <2>3, <2>4, <2>5, <2>7, <3>1, <3>4, <4>3
    <3> QED BY <3>3, <3>4
  <2> QED BY <2>6, <2>7
<1>6. At(h, c[l][i], c[l][j], c, i, j)
  <2>1. Within(c, c, l, i, k, s0)
    BY DEF Within
  <2>2. Merges(c[l], i, i, j, k)
    <3>1. i \in i .. j /\ j \in i .. k /\ i .. i - 1 = {}
      BY <1>1
    <3> QED BY <3>1 DEF Merges
  <2> QED BY <2>1, <2>2
<1>7. k - i \in Nat /\ k - i < Rounds
  <2>1. Len(c[l]) <= Rounds /\ Rounds \in Nat
    BY ChainOf, RoundsSuffice, NodesFinite DEF Shape
  <2> QED BY <1>1, <2>1
<1>8. Iterate(body, start, Rounds) \in E
  <2>1. start \in W[k - i]
    <3> HIDE DEF At, W
    <3> QED BY <1>2, <1>6, <1>7
  <2> HIDE DEF At, W, E, body, start
  <2>2. \A q \in Nat : \A s \in W[q] :
          body[s] \in E \/ \E p \in Nat : p < q /\ body[s] \in W[p]
    <3> TAKE q \in Nat
    <3> TAKE s \in W[q]
    <3>1. q - 1 < q
      OBVIOUS
    <3> QED BY <1>5, <3>1
  <2> QED BY <1>4, <1>7, <2>1, <2>2, NodesFinite, LoopEnds
<1>9. inplace_merge(h, c[l][i], c[l][j], c[l][k]) = Iterate(body, start, Rounds).heap
  BY DEF inplace_merge
<1> DEFINE g == Iterate(body, start, Rounds)
<1>10. PICK d, x, y : At(g.heap, g.a0, g.a1b0, d, x, y) /\ (x = y \/ y = k)
  <2> HIDE DEF At, g
  <2>1. g \in E
    BY <1>8 DEF g
  <2> QED BY <2>1
<1>11. Shape(g.heap, d) /\ Within(c, d, l, i, k, s0) /\ Merges(d[l], i, x, y, k)
  <2> HIDE DEF g
  <2> QED BY <1>10
<1> HIDE DEF g, body, start
<1>12. InOrder(d[l], i, k - 1)
  BY <1>1, <1>10, <1>11, MergesEnd
<1> QED BY <1>9, <1>11, <1>12 DEF g

\* How many of the falls are before place b.
FallsBefore(s, b) == Cardinality(Falls(s) \cap (3 .. b - 1))

\* When a pass has come to place i in r rounds, it has left fewer falls than that.
Left(s, i, r) == \/ r = 0 /\ i = 2
                 \/ FallsBefore(s, i) < r

\* It has not taken more rounds than it found falls, unless it had one run only.
Found(s, i, r) == \/ r = 0 /\ i = 2
                  \/ r = 1 /\ i = Len(s)
                  \/ r <= FallsBefore(s, i) /\ i \in Falls(s) \cup {Len(s)}

\* The number of falls only grows.
LEMMA FallsGrow ==
  ASSUME NEW s, Len(s) \in Nat, NEW i \in Nat, NEW k \in Nat, i < k
  PROVE  /\ FallsBefore(s, i) \in Nat /\ FallsBefore(s, k) \in Nat
         /\ i \in Falls(s) => FallsBefore(s, i) + 1 <= FallsBefore(s, k)
<1> DEFINE A == Falls(s) \cap (3 .. i - 1)
           B == Falls(s) \cap (3 .. k - 1)
<1>1. IsFiniteSet(A) /\ IsFiniteSet(B)
  <2>1. IsFiniteSet(3 .. i - 1) /\ IsFiniteSet(3 .. k - 1)
    <3>1. i - 1 \in Int /\ k - 1 \in Int
      OBVIOUS
    <3> QED BY <3>1, FS_Interval
  <2>2. A \in SUBSET (3 .. i - 1) /\ B \in SUBSET (3 .. k - 1)
    OBVIOUS
  <2> QED BY <2>1, <2>2, FS_Subset
<1>2. Cardinality(A) \in Nat /\ Cardinality(B) \in Nat
  BY <1>1, FS_CardinalityType
<1>3. ASSUME i \in Falls(s) PROVE Cardinality(A) + 1 <= Cardinality(B)
  <2>1. i \notin A /\ A \cup {i} \in SUBSET B
    <3>1. i >= 3
      BY <1>3 DEF Falls
    <3> QED BY <1>3, <3>1
  <2> HIDE DEF A, B
  <2>2. Cardinality(A \cup {i}) = Cardinality(A) + 1
    BY <1>1, <2>1, FS_AddElement
  <2> QED BY <1>1, <2>1, <2>2, FS_Subset
<1> QED BY <1>2, <1>3 DEF FallsBefore

\* Each round of a pass finds one more.
LEMMA FoundNext ==
  ASSUME NEW s, Len(s) \in Nat, NEW i \in 2 .. Len(s) - 1, NEW r \in Nat, Found(s, i, r),
         NEW j \in i + 1 .. Len(s), j \in Falls(s) \/ j = Len(s)
  PROVE  /\ j = Len(s) => Found(s, j, r + 1)
         /\ \A k \in j + 1 .. Len(s) : k \in Falls(s) \/ k = Len(s) => Found(s, k, r + 1)
<1>1. \A k \in i + 1 .. Len(s) : /\ FallsBefore(s, i) \in Nat /\ FallsBefore(s, k) \in Nat
                                 /\ i \in Falls(s) => FallsBefore(s, i) + 1 <= FallsBefore(s, k)
  BY FallsGrow
<1>2. ASSUME NEW k \in j + 1 .. Len(s), j \in Falls(s) PROVE 1 <= FallsBefore(s, k)
  <2>1. FallsBefore(s, j) \in Nat /\ FallsBefore(s, k) \in Nat
        /\ FallsBefore(s, j) + 1 <= FallsBefore(s, k)
    BY <1>2, FallsGrow
  <2> QED BY <2>1
<1>3. i # Len(s) /\ (i \in Falls(s) \cup {Len(s)} => i \in Falls(s))
  OBVIOUS
<1>4. CASE r = 0 /\ i = 2
  <2>1. j = Len(s) => Found(s, j, r + 1)
    BY <1>4 DEF Found
  <2>2. ASSUME NEW k \in j + 1 .. Len(s), k \in Falls(s) \/ k = Len(s)
        PROVE  Found(s, k, r + 1)
    <3>1. j \in Falls(s) /\ r + 1 = 1
      BY <1>4
    <3>2. r + 1 <= FallsBefore(s, k)
      BY <1>2, <3>1
    <3> QED BY <2>2, <3>2 DEF Found
  <2> QED BY <2>1, <2>2
<1>5. CASE r <= FallsBefore(s, i) /\ i \in Falls(s)
  <2>1. ASSUME NEW k \in i + 1 .. Len(s), k \in Falls(s) \/ k = Len(s)
        PROVE  Found(s, k, r + 1)
    <3>1. r + 1 <= FallsBefore(s, k)
      <4>1. FallsBefore(s, i) \in Nat /\ FallsBefore(s, k) \in Nat
            /\ FallsBefore(s, i) + 1 <= FallsBefore(s, k)
        BY <1>1, <1>5
      <4>2. \A a, b \in Nat : r <= a /\ a + 1 <= b => r + 1 <= b
        OBVIOUS
      <4> QED BY <1>5, <4>1, <4>2
    <3> QED BY <2>1, <3>1 DEF Found
  <2>2. \A k \in j + 1 .. Len(s) : k \in i + 1 .. Len(s)
    OBVIOUS
  <2> QED BY <2>1, <2>2
<1>6. \/ r = 0 /\ i = 2
      \/ r <= FallsBefore(s, i) /\ i \in Falls(s)
  BY <1>3 DEF Found
<1> QED BY <1>4, <1>5, <1>6

\* And it leaves one more at most, where the run made of two begins.
LEMMA LeftNext ==
  ASSUME NEW s, NEW t, IsChain(t), Len(s) = Len(t), NEW i \in 2 .. Len(t) - 1,
         NEW k \in i + 1 .. Len(t), NEW r \in Nat, Left(s, i, r), InOrder(t, i, k - 1),
         \A n \in 1 .. Len(t) : n < i => t[n] = s[n]
  PROVE  Left(t, k, r + 1)
<1> DEFINE A == Falls(s) \cap (3 .. i - 1)
           B == Falls(t) \cap (3 .. k - 1)
           N == Len(t)
<1>1. N \in Nat /\ \A n \in 2 .. N - 1 : t[n] \in Elem
  BY DEF IsChain
<1>2. IsFiniteSet(A)
  <2>1. IsFiniteSet(3 .. i - 1)
    <3>1. i - 1 \in Int
      OBVIOUS
    <3> QED BY <3>1, FS_Interval
  <2>2. A \in SUBSET (3 .. i - 1)
    OBVIOUS
  <2> QED BY <2>1, <2>2, FS_Subset
<1>3. ASSUME NEW n \in B PROVE n \in A \/ (n = i /\ i # 2)
  <2>1. n \in 3 .. N - 1 /\ n \in 3 .. k - 1 /\ less(t[n], t[n - 1])
    BY DEF Falls
  <2>2. CASE n < i
    <3>1. /\ n \in 1 .. N /\ n - 1 \in 1 .. N /\ n - 1 < i /\ n \in 3 .. i - 1
      BY <2>1, <2>2
    <3>2. t[n] = s[n] /\ t[n - 1] = s[n - 1]
      BY <2>2, <3>1
    <3> QED BY <2>1, <3>1, <3>2 DEF Falls
  <2>3. CASE n = i
    BY <2>1, <2>3
  <2>4. CASE n > i
    <3>1. /\ n \in i .. k - 1 /\ n - 1 \in i .. k - 1 /\ n - 1 <= n
          /\ n \in 2 .. N - 1 /\ n - 1 \in 2 .. N - 1
      BY <1>1, <2>1, <2>4
    <3>2. Key[t[n - 1]] <= Key[t[n]]
      BY <3>1 DEF InOrder
    <3>3. Key[t[n - 1]] \in Int /\ Key[t[n]] \in Int
      BY <1>1, <3>1, KeyAssumption
    <3>4. ~(Key[t[n]] < Key[t[n - 1]])
      BY <3>2, <3>3
    <3> QED BY <2>1, <3>4 DEF less
  <2> QED BY <2>1, <2>2, <2>3, <2>4
<1>4. CASE i = 2
  <2>1. B = {}
    <3>1. A = {}
      BY <1>4
    <3> QED BY <1>3, <1>4, <3>1
  <2>2. FallsBefore(t, k) = 0
    BY <2>1, FS_EmptySet DEF FallsBefore
  <2> QED BY <2>2 DEF Left
<1>5. CASE i # 2
  <2>1. FallsBefore(s, i) < r
    BY <1>5 DEF Left
  <2>2. B \in SUBSET (A \cup {i})
    BY <1>3
  <2> HIDE DEF A, B
  <2>3. IsFiniteSet(A \cup {i}) /\ Cardinality(A \cup {i}) <= Cardinality(A) + 1
    <3>1. Cardinality(A) \in Nat
      BY <1>2, FS_CardinalityType
    <3>2. /\ IsFiniteSet(A \cup {i})
          /\ Cardinality(A \cup {i}) = IF i \in A THEN Cardinality(A) ELSE Cardinality(A) + 1
      BY <1>2, FS_AddElement
    <3> QED BY <3>1, <3>2
  <2>4. Cardinality(B) <= Cardinality(A \cup {i}) /\ IsFiniteSet(B)
    BY <2>2, <2>3, FS_Subset
  <2>5. Cardinality(A) \in Nat /\ Cardinality(B) \in Nat /\ Cardinality(A \cup {i}) \in Nat
    BY <1>2, <2>3, <2>4, FS_CardinalityType
  <2>6. Cardinality(A) < r
    BY <2>1 DEF A, FallsBefore
  <2>7. Cardinality(B) < r + 1
    BY <2>3, <2>4, <2>5, <2>6
  <2> QED BY <2>7 DEF Left, B, FallsBefore
<1> QED BY <1>4, <1>5

\* A run is in order.
LEMMA RunInOrder ==
  ASSUME NEW s, IsChain(s), NEW i \in 2 .. Len(s) - 1, NEW j \in i + 1 .. Len(s),
         \A n \in i + 1 .. j - 1 : n \notin Falls(s)
  PROVE  InOrder(s, i, j - 1)
<1>1. Len(s) \in Nat /\ \A n \in 2 .. Len(s) - 1 : s[n] \in Elem
  BY DEF IsChain
<1>2. ASSUME NEW b \in Nat, b = j - 1 PROVE InOrder(s, i, b)
  <2>1. \A n \in i .. b : n \in 2 .. Len(s) - 1
    BY <1>1, <1>2
  <2>2. \A n \in i + 1 .. b : n \in 3 .. Len(s) - 1 /\ n \notin Falls(s)
    BY <1>1, <1>2
  <2>3. \A n \in i + 1 .. b : ~less(s[n], s[n - 1])
    BY <2>2 DEF Falls
  <2>4. \A n \in i .. b : s[n] \in Elem
    BY <1>1, <2>1
  <2> QED BY <2>3, <2>4, NeighboursInOrder
<1>3. j - 1 \in Nat
  BY <1>1
<1> QED BY <1>2, <1>3

\* A pass over list l of the chains c, whose elements were those of s0 first, has come to
\* place i in r rounds.
PassAt(c, l, s0, g, d, i, r) ==
  /\ Shape(g, d) /\ Within(c, d, l, 2, i, s0) /\ i \in 2 .. Len(c[l]) /\ r \in Nat
  /\ Left(d[l], i, r) /\ Found(c[l], i, r)

\* From there to the end the list is as it was.
LEMMA PassAhead ==
  ASSUME NEW c, NEW l \in List, NEW s0, NEW g, NEW d, NEW i, NEW r,
         PassAt(c, l, s0, g, d, i, r), NEW n \in i + 1 .. Len(c[l])
  PROVE  n \in Falls(d[l]) <=> n \in Falls(c[l])
<1>1. /\ Len(d[l]) = Len(c[l]) /\ i \in 2 .. Len(c[l])
      /\ \A m \in 1 .. Len(c[l]) : m < 2 \/ m >= i => d[l][m] = c[l][m]
  BY DEF PassAt, Within
<1>2. n \in 1 .. Len(c[l]) /\ n - 1 \in 1 .. Len(c[l]) /\ n >= i /\ n - 1 >= i
  BY <1>1
<1>3. d[l][n] = c[l][n] /\ d[l][n - 1] = c[l][n - 1]
  BY <1>1, <1>2
<1> QED BY <1>1, <1>3 DEF Falls

\* The last run has no other to be merged with.
LEMMA PassLast ==
  ASSUME NEW c, NEW l \in List, NEW s0, NEW g, NEW d, NEW i, NEW r,
         PassAt(c, l, s0, g, d, i, r), i # Len(c[l]),
         find_end_of_run(g, d[l][i], list_end(l)) = list_end(l)
  PROVE  PassAt(c, l, s0, g, d, Len(c[l]), r + 1)
<1> DEFINE N == Len(c[l])
<1>1. /\ Shape(g, d) /\ Within(c, d, l, 2, i, s0) /\ i \in 2 .. N /\ r \in Nat
      /\ Left(d[l], i, r) /\ Found(c[l], i, r) /\ Len(d[l]) = N
  BY DEF PassAt, Within
<1>2. /\ IsChain(d[l]) /\ N \in Nat /\ N >= 2 /\ d[l][N] = list_end(l)
      /\ \A m, n \in 1 .. N : d[l][m] = d[l][n] => m = n
  BY <1>1, ContentsOf, ChainOf DEF Shape, Distinct
<1>3. i \in 2 .. N - 1 /\ N \in i + 1 .. N /\ N \in 1 .. N /\ N \in 2 .. N
  BY <1>1, <1>2
<1>4. \A n \in i + 1 .. N - 1 : n \notin Falls(d[l])
  <2>1. PICK j \in i + 1 .. N : /\ find_end_of_run(g, d[l][i], list_end(l)) = d[l][j]
                                /\ \A n \in i + 1 .. j - 1 : n \notin Falls(d[l])
    BY <1>1, <1>3, RunEnds
  <2>2. j \in 1 .. N
    BY <1>1
  <2>3. j = N
    BY <1>2, <1>3, <2>1, <2>2
  <2> QED BY <2>1, <2>3
<1>5. InOrder(d[l], i, N - 1)
  BY <1>1, <1>2, <1>3, <1>4, RunInOrder
<1>6. Left(d[l], N, r + 1)
  BY <1>1, <1>2, <1>3, <1>5, LeftNext
<1>7. Found(c[l], N, r + 1)
  BY <1>1, <1>2, <1>3, FoundNext
<1>8. Within(c, d, l, 2, N, s0)
  BY <1>1, <1>2 DEF Within
<1>9. r + 1 \in Nat
  BY <1>1
<1> QED BY <1>1, <1>3, <1>6, <1>7, <1>8, <1>9 DEF PassAt

\* Two runs are merged.
LEMMA PassMerges ==
  ASSUME NEW c, IsChains(c), NEW l \in List, NEW s0, IsChain(s0), NEW g, NEW d, NEW i, NEW r,
         PassAt(c, l, s0, g, d, i, r), i # Len(c[l]),
         NEW a1b0, a1b0 = find_end_of_run(g, d[l][i], list_end(l)), a1b0 # list_end(l)
  PROVE  LET b1 == find_end_of_run(g, a1b0, list_end(l))
         IN  \E f : \E k \in i + 1 .. Len(c[l]) :
               /\ PassAt(c, l, s0, inplace_merge(g, d[l][i], a1b0, b1), f, k, r + 1)
               /\ b1 = f[l][k]
<1> DEFINE N == Len(c[l])
           b1 == find_end_of_run(g, a1b0, list_end(l))
<1>1. /\ Shape(g, d) /\ Within(c, d, l, 2, i, s0) /\ i \in 2 .. N /\ r \in Nat
      /\ Left(d[l], i, r) /\ Found(c[l], i, r) /\ Len(d[l]) = N
  BY DEF PassAt, Within
<1>2. /\ IsChain(d[l]) /\ N \in Nat /\ N >= 2 /\ d[l][N] = list_end(l)
  BY <1>1, ContentsOf, ChainOf DEF Shape
<1>3. i \in 2 .. N - 1
  BY <1>1, <1>2
<1>4. PICK j \in i + 1 .. N : /\ a1b0 = d[l][j]
                              /\ j \in Falls(d[l]) \/ j = N
                              /\ \A n \in i + 1 .. j - 1 : n \notin Falls(d[l])
  BY <1>1, <1>3, RunEnds
<1>5. j \in 2 .. N - 1 /\ j # N
  BY <1>1, <1>2, <1>4
<1>6. PICK k \in j + 1 .. N : /\ b1 = d[l][k]
                              /\ k \in Falls(d[l]) \/ k = N
                              /\ \A n \in j + 1 .. k - 1 : n \notin Falls(d[l])
  <2> HIDE DEF N
  <2> QED BY <1>1, <1>4, <1>5, RunEnds
<1>7. /\ k \in 2 .. N /\ j \in 2 .. k /\ i \in 2 .. j /\ k \in i + 1 .. N /\ k \in 1 .. N
      /\ j \in i + 1 .. N
  BY <1>1, <1>2, <1>5
<1>8. InOrder(d[l], i, j - 1) /\ InOrder(d[l], j, k - 1)
  <2>1. InOrder(d[l], i, j - 1)
    BY <1>1, <1>2, <1>3, <1>4, RunInOrder
  <2>2. InOrder(d[l], j, k - 1)
    BY <1>1, <1>2, <1>5, <1>6, RunInOrder
  <2> QED BY <2>1, <2>2
<1>9. PICK f : /\ Shape(inplace_merge(g, d[l][i], d[l][j], d[l][k]), f)
               /\ Within(d, f, l, i, k, s0) /\ InOrder(f[l], i, k - 1)
  <2>1. Stable(s0, d[l])
    BY <1>1 DEF Within
  <2> QED BY <1>1, <1>7, <1>8, <2>1, MergeSorts
<1>10. /\ Len(f[l]) = N /\ IsChain(f[l])
       /\ \A n \in 1 .. N : n < i \/ n >= k => f[l][n] = d[l][n]
  BY <1>1, <1>9, ContentsOf DEF Shape, Within
<1>11. b1 = f[l][k]
  BY <1>6, <1>7, <1>10
<1>12. Within(c, f, l, 2, k, s0)
  <2>1. \A n \in 1 .. N : n < 2 \/ n >= k => /\ n < i \/ n >= k
                                             /\ n < 2 \/ n >= i
    BY <1>1, <1>7
  <2>2. \A n \in 1 .. N : n < 2 \/ n >= k => f[l][n] = c[l][n]
    BY <1>1, <1>10, <2>1 DEF Within
  <2>3. \A m \in List \ {l} : f[m] = c[m]
    BY <1>1, <1>9 DEF Within
  <2> QED BY <1>9, <1>10, <2>2, <2>3 DEF Within
<1>13. Left(f[l], k, r + 1)
  BY <1>1, <1>3, <1>7, <1>9, <1>10, LeftNext
<1>14. Found(c[l], k, r + 1)
  <2>1. j \in Falls(c[l]) /\ (k \in Falls(c[l]) \/ k = N)
    BY <1>4, <1>5, <1>6, <1>7, PassAhead
  <2> QED BY <1>1, <1>2, <1>3, <2>1, FoundNext
<1>15. r + 1 \in Nat
  BY <1>1
<1>16. PassAt(c, l, s0, inplace_merge(g, d[l][i], d[l][j], d[l][k]), f, k, r + 1)
  BY <1>7, <1>9, <1>12, <1>13, <1>14, <1>15 DEF PassAt
<1> QED BY <1>4, <1>6, <1>7, <1>11, <1>16

\* What a pass leaves: it has sorted the list if it found one run only, and otherwise fewer
\* runs than it found falls.
Passed(c, l, s0, p, d) ==
  /\ p \in Passes /\ Shape(p.heap, d)
  /\ \A m \in List \ {l} : d[m] = c[m]
  /\ Stable(s0, d[l])
  /\ Falls(d[l]) = {} \/ Cardinality(Falls(d[l])) < p.runs
  /\ p.runs <= 1 \/ p.runs <= Cardinality(Falls(c[l]))

\* A pass that has come to the end of the list.
LEMMA PassDone ==
  ASSUME NEW c, NEW l \in List, NEW s0, NEW g, NEW d, NEW r, IsChains(c),
         PassAt(c, l, s0, g, d, Len(c[l]), r)
  PROVE  /\ \A m \in List \ {l} : d[m] = c[m]
         /\ Stable(s0, d[l])
         /\ Falls(d[l]) = {} \/ Cardinality(Falls(d[l])) < r
         /\ r <= 1 \/ r <= Cardinality(Falls(c[l]))
<1> DEFINE N == Len(c[l])
<1>1. /\ Within(c, d, l, 2, N, s0) /\ Len(d[l]) = N /\ N \in Nat /\ r \in Nat
      /\ Left(d[l], N, r) /\ Found(c[l], N, r)
  BY ChainOf DEF PassAt, Within
<1>2. ASSUME NEW s, Len(s) = N PROVE FallsBefore(s, N) = Cardinality(Falls(s))
  <2>1. Falls(s) \cap (3 .. N - 1) = Falls(s)
    BY <1>2 DEF Falls
  <2> QED BY <2>1 DEF FallsBefore
<1>3. Falls(d[l]) = {} \/ Cardinality(Falls(d[l])) < r
  <2>1. CASE N = 2
    <3>1. Falls(d[l]) = {}
      BY <1>1, <2>1 DEF Falls
    <3> QED BY <3>1
  <2>2. CASE N # 2
    <3>1. FallsBefore(d[l], N) < r
      BY <1>1, <2>2 DEF Left
    <3> QED BY <1>1, <1>2, <3>1
  <2> QED BY <2>1, <2>2
<1>4. r <= 1 \/ r <= Cardinality(Falls(c[l]))
  <2>1. r = 0 \/ r = 1 \/ r <= FallsBefore(c[l], N)
    BY <1>1 DEF Found
  <2>2. FallsBefore(c[l], N) = Cardinality(Falls(c[l]))
    BY <1>2
  <2>3. r = 0 \/ r = 1 => r <= 1
    OBVIOUS
  <2> QED BY <2>1, <2>2, <2>3
<1> QED BY <1>1, <1>3, <1>4 DEF Within

\* A pass of list_sort.
LEMMA PassSorts ==
  ASSUME NEW h, NEW c, Shape(h, c), NEW l \in List, NEW s0, IsChain(s0), Stable(s0, c[l])
  PROVE  \E d : Passed(c, l, s0, Pass(h, l), d)
<1> DEFINE body == [s \in Passes |->
                      LET a1b0 == find_end_of_run(s.heap, s.a0, list_end(l))
                          b1   == find_end_of_run(s.heap, a1b0, list_end(l))
                      IN  IF s.a0 = list_end(l) THEN s
                          ELSE IF a1b0 = list_end(l)
                               THEN [heap |-> s.heap, a0 |-> list_end(l), runs |-> s.runs + 1]
                          ELSE [heap |-> inplace_merge(s.heap, s.a0, a1b0, b1), a0 |-> b1,
                                runs |-> s.runs + 1]]
           N == Len(c[l])
           At(g, a, r, d, i) == PassAt(c, l, s0, g, d, i, r) /\ a = d[l][i]
           W == [q \in Nat |->
                   {s \in Passes : \E d, i : At(s.heap, s.a0, s.runs, d, i) /\ N - i = q}]
           E == {s \in Passes : \E d : At(s.heap, s.a0, s.runs, d, N)}
           start == [heap |-> h, a0 |-> list_begin(h, l), runs |-> 0]
<1>1. /\ N \in Nat /\ N >= 2 /\ IsChains(c) /\ c[l][N] = list_end(l) /\ c[l][1] = list_head(l)
      /\ N <= Rounds /\ Rounds \in Nat
  BY ChainOf, RoundsSuffice, NodesFinite DEF Shape
<1>2. ASSUME NEW g, NEW a, NEW r, NEW d, NEW i, At(g, a, r, d, i)
      PROVE  i \in 2 .. N /\ (a = list_end(l) <=> i = N)
  <2>1. /\ Shape(g, d) /\ Len(d[l]) = N /\ i \in 2 .. N /\ a = d[l][i]
    BY <1>2 DEF PassAt, Within
  <2>2. i \in 1 .. N /\ N \in 1 .. N
    BY <1>1, <2>1
  <2>3. d[l][N] = list_end(l) /\ \A m, n \in 1 .. N : d[l][m] = d[l][n] => m = n
    BY <2>1, ChainOf DEF Shape, Distinct
  <2> QED BY <2>1, <2>2, <2>3
<1>3. ASSUME NEW g, NEW a, NEW r, NEW d, NEW i, At(g, a, r, d, i)
      PROVE  /\ N - i \in Nat
             /\ i = N => [heap |-> g, a0 |-> a, runs |-> r] \in E
             /\ \A q \in Nat : q = N - i => [heap |-> g, a0 |-> a, runs |-> r] \in W[q]
  <2>1. /\ Shape(g, d) /\ Len(d[l]) = N /\ i \in 2 .. N /\ r \in Nat /\ a = d[l][i]
    BY <1>3 DEF PassAt, Within
  <2>2. i \in 1 .. N /\ N - i \in Nat
    BY <1>1, <2>1
  <2>3. g \in Heap /\ a \in Node
    BY <2>1, <2>2, LinksAt DEF Shape
  <2> DEFINE s == [heap |-> g, a0 |-> a, runs |-> r]
  <2>4. s \in Passes /\ s.heap = g /\ s.a0 = a /\ s.runs = r
    BY <2>1, <2>3 DEF Passes
  <2> HIDE DEF s, At
  <2>5. i = N => s \in E
    BY <1>3, <2>4
  <2>6. ASSUME NEW q \in Nat, q = N - i PROVE s \in W[q]
    <3>1. \E y, x : At(s.heap, s.a0, s.runs, y, x) /\ N - x = q
      BY <1>3, <2>4, <2>6
    <3> QED BY <2>4, <3>1
  <2> HIDE DEF W, E
  <2> QED BY <2>2, <2>5, <2>6 DEF s
<1>4. ASSUME NEW s \in Passes
      PROVE  LET a1b0 == find_end_of_run(s.heap, s.a0, list_end(l))
                 b1   == find_end_of_run(s.heap, a1b0, list_end(l))
             IN  body[s] = IF s.a0 = list_end(l) THEN s
                           ELSE IF a1b0 = list_end(l)
                                THEN [heap |-> s.heap, a0 |-> list_end(l), runs |-> s.runs + 1]
                           ELSE [heap |-> inplace_merge(s.heap, s.a0, a1b0, b1), a0 |-> b1,
                                 runs |-> s.runs + 1]
  OBVIOUS
<1>5. ASSUME NEW s \in E PROVE body[s] \in E
  <2>1. s \in Passes
    OBVIOUS
  <2>2. PICK d : At(s.heap, s.a0, s.runs, d, N)
    OBVIOUS
  <2> HIDE DEF At, E, body, W
  <2>3. s.a0 = list_end(l)
    BY <1>2, <2>2
  <2> QED BY <1>4, <2>1, <2>3
<1>6. ASSUME NEW q \in Nat, NEW s \in W[q]
      PROVE  body[s] \in E \/ \E p \in Nat : p < q /\ body[s] \in W[p]
  <2>1. s \in Passes
    OBVIOUS
  <2>2. PICK d, i : At(s.heap, s.a0, s.runs, d, i) /\ N - i = q
    OBVIOUS
  <2> DEFINE a1b0 == find_end_of_run(s.heap, s.a0, list_end(l))
             b1   == find_end_of_run(s.heap, a1b0, list_end(l))
             last == [heap |-> s.heap, a0 |-> list_end(l), runs |-> s.runs + 1]
             more == [heap |-> inplace_merge(s.heap, s.a0, a1b0, b1), a0 |-> b1,
                      runs |-> s.runs + 1]
  <2>3. body[s] = IF s.a0 = list_end(l) THEN s ELSE IF a1b0 = list_end(l) THEN last ELSE more
    BY <1>4, <2>1
  <2>4. /\ PassAt(c, l, s0, s.heap, d, i, s.runs) /\ s.a0 = d[l][i]
    BY <2>2
  <2>5. i \in 2 .. N /\ (s.a0 = list_end(l) <=> i = N)
    <3> HIDE DEF At, W, E, N, body, a1b0, b1, last, more
    <3> QED BY <1>2, <2>2
  <2>6. CASE i = N
    <3>1. s \in E
      <4> HIDE DEF N
      <4> QED BY <2>1, <2>2, <2>6
    <3> HIDE DEF E, body
    <3> QED BY <1>5, <3>1
  <2>7. CASE i # N /\ a1b0 = list_end(l)
    <3>1. find_end_of_run(s.heap, d[l][i], list_end(l)) = list_end(l)
      BY <2>4, <2>7
    <3>2. PassAt(c, l, s0, s.heap, d, N, s.runs + 1)
      <4> HIDE DEF W, E, body, a1b0
      <4> QED BY <2>4, <2>7, <3>1, PassLast
    <3>3. d[l][N] = list_end(l)
      BY <1>1, <3>2, ChainOf DEF PassAt, Shape, Within
    <3>4. At(s.heap, list_end(l), s.runs + 1, d, N)
      BY <3>2, <3>3
    <3>5. last \in E
      <4> HIDE DEF At, E, W, N
      <4> QED BY <1>3, <3>4
    <3> HIDE DEF E, W, body, a1b0, last, more
    <3> QED BY <2>3, <2>5, <2>7, <3>5
  <2>8. CASE i # N /\ a1b0 # list_end(l)
    <3>1. PICK f : \E k \in i + 1 .. N :
                     /\ PassAt(c, l, s0, inplace_merge(s.heap, d[l][i], a1b0, b1), f, k, s.runs + 1)
                     /\ b1 = f[l][k]
      <4>1. ASSUME NEW a, a = a1b0
            PROVE  LET b == find_end_of_run(s.heap, a, list_end(l))
                   IN  \E f : \E k \in i + 1 .. N :
                         /\ PassAt(c, l, s0, inplace_merge(s.heap, d[l][i], a, b), f, k, s.runs + 1)
                         /\ b = f[l][k]
        <5>1. a = find_end_of_run(s.heap, d[l][i], list_end(l)) /\ a # list_end(l) /\ i # Len(c[l])
          BY <2>4, <2>8, <4>1
        <5> HIDE DEF W, E, body, a1b0, At
        <5> QED BY <1>1, <2>4, <5>1, PassMerges
      <4> HIDE DEF W, E, body, At
      <4> QED BY <4>1
    <3>2. PICK k \in i + 1 .. N :
                 /\ PassAt(c, l, s0, inplace_merge(s.heap, d[l][i], a1b0, b1), f, k, s.runs + 1)
                 /\ b1 = f[l][k]
      BY <3>1
    <3>3. At(inplace_merge(s.heap, s.a0, a1b0, b1), b1, s.runs + 1, f, k)
      BY <2>4, <3>2
    <3> DEFINE p == N - k
    <3>4. p \in Nat /\ p < q
      BY <1>1, <2>2, <2>5
    <3>5. more \in W[p]
      <4> HIDE DEF At, E, W, a1b0, b1, body
      <4> QED BY <1>3, <3>3, <3>4
    <3> HIDE DEF E, W, body, a1b0, last, more, p
    <3> QED BY <2>3, <2>5, <2>8, <3>4, <3>5
  <2> QED BY <2>6, <2>7, <2>8
<1>7. At(h, list_begin(h, l), 0, c, 2)
  <2>1. 1 \in 1 .. N /\ 1 # N /\ 1 + 1 = 2 /\ 2 \in 2 .. N
    <3>1. \A n \in Nat : n >= 2 => 1 \in 1 .. n /\ 1 # n /\ 1 + 1 = 2 /\ 2 \in 2 .. n
      OBVIOUS
    <3> HIDE DEF N
    <3> QED BY <1>1, <3>1
  <2>2. list_begin(h, l) = c[l][2]
    BY <1>1, <2>1, LinksAt DEF list_begin
  <2>3. Within(c, c, l, 2, 2, s0)
    BY DEF Within
  <2> QED BY <2>1, <2>2, <2>3 DEF PassAt, Left, Found
<1>8. N - 2 \in Nat /\ N - 2 < Rounds
  BY <1>1
<1>9. Iterate(body, start, Rounds) \in E
  <2>1. start \in W[N - 2]
    <3> HIDE DEF At, W, E, N
    <3> QED BY <1>3, <1>7, <1>8
  <2> HIDE DEF At, W, E, body, start, N
  <2> QED BY <1>1, <1>5, <1>6, <1>8, <2>1, LoopEnds
<1>10. Pass(h, l) = Iterate(body, start, Rounds)
  BY DEF Pass
<1>11. PICK d : At(Pass(h, l).heap, Pass(h, l).a0, Pass(h, l).runs, d, N)
  <2> HIDE DEF At, body, start
  <2> QED BY <1>9, <1>10
<1>12. Pass(h, l) \in Passes
  <2> HIDE DEF body, start
  <2> QED BY <1>9, <1>10
<1> DEFINE p == Pass(h, l)
<1>13. PassAt(c, l, s0, p.heap, d, Len(c[l]), p.runs) /\ p \in Passes
  BY <1>11, <1>12
<1> HIDE DEF body, start, W, E, At, N, p
<1>14. Shape(p.heap, d)
  BY <1>13 DEF PassAt
<1>15. /\ \A m \in List \ {l} : d[m] = c[m]
       /\ Stable(s0, d[l])
       /\ Falls(d[l]) = {} \/ Cardinality(Falls(d[l])) < p.runs
       /\ p.runs <= 1 \/ p.runs <= Cardinality(Falls(c[l]))
  BY <1>1, <1>13, PassDone
<1>16. Passed(c, l, s0, p, d)
  BY <1>13, <1>14, <1>15 DEF Passed
<1> QED BY <1>16 DEF p

\* A chain has fewer falls than nodes.
LEMMA FallsCount ==
  ASSUME NEW s, IsChain(s)
  PROVE  /\ Cardinality(Falls(s)) \in Nat /\ Cardinality(Falls(s)) <= Len(s) - 2
         /\ Falls(s) = {} <=> Cardinality(Falls(s)) = 0
<1>1. Len(s) \in Nat /\ Len(s) >= 2
  BY DEF IsChain
<1>2. ASSUME NEW b \in Int, b = Len(s) - 1
      PROVE  IsFiniteSet(2 .. b) /\ Cardinality(2 .. b) = Len(s) - 2
  <2>1. ASSUME NEW a \in Int, a = 2
        PROVE  IsFiniteSet(a .. b) /\ Cardinality(a .. b) = Len(s) - 2
    <3>1. (IF a > b THEN 0 ELSE b - a + 1) = Len(s) - 2
      BY <1>1, <1>2, <2>1
    <3> QED BY <3>1, FS_Interval
  <2> QED BY <2>1
<1>3. IsFiniteSet(2 .. Len(s) - 1) /\ Cardinality(2 .. Len(s) - 1) = Len(s) - 2
  <2>1. Len(s) - 1 \in Int
    BY <1>1
  <2> QED BY <1>2, <2>1
<1>4. Falls(s) \in SUBSET (2 .. Len(s) - 1)
  BY <1>1 DEF Falls
<1>5. IsFiniteSet(Falls(s)) /\ Cardinality(Falls(s)) <= Cardinality(2 .. Len(s) - 1)
  BY <1>3, <1>4, FS_Subset
<1> QED BY <1>3, <1>5, FS_CardinalityType, FS_EmptySet

\* list_sort sorts its list and keeps elements with equal keys in their order.
LEMMA SortStep ==
  ASSUME NEW h, NEW c, Shape(h, c), NEW l \in List
  PROVE  \E d : Shape(list_sort(h, l), d) /\ Abstract!Step(Contents(c), Contents(d))
<1> DEFINE body == [s \in Passes |-> IF s.runs > 1 THEN Pass(s.heap, l) ELSE s]
           s0 == c[l]
           At(s, d) == /\ Shape(s.heap, d) /\ (\A m \in List \ {l} : d[m] = c[m])
                       /\ Stable(s0, d[l])
                       /\ Falls(d[l]) = {} \/ Cardinality(Falls(d[l])) < s.runs
           W == [q \in Nat |-> {s \in Passes : (\E d : At(s, d)) /\ s.runs = q}]
           E == {s \in Passes : (\E d : At(s, d)) /\ s.runs <= 1}
<1>1. /\ IsChains(c) /\ IsChain(s0) /\ Len(s0) \in Nat /\ Len(s0) >= 2
      /\ Len(s0) <= Rounds /\ Rounds \in Nat
  BY ChainOf, ContentsOf, RoundsSuffice, NodesFinite DEF Shape
<1>2. ASSUME NEW g, NEW d, Shape(g, d) PROVE IsChain(d[l])
  BY <1>2, ContentsOf DEF Shape
<1>3. ASSUME NEW g, NEW d, Shape(g, d), Falls(d[l]) = {} \/ Cardinality(Falls(d[l])) < 1
      PROVE  Falls(d[l]) = {}
  <2>1. /\ Cardinality(Falls(d[l])) \in Nat
        /\ Falls(d[l]) = {} <=> Cardinality(Falls(d[l])) = 0
    BY <1>2, <1>3, FallsCount
  <2>2. CASE Cardinality(Falls(d[l])) < 1
    <3>1. Cardinality(Falls(d[l])) = 0
      BY <2>1, <2>2
    <3> QED BY <2>1, <3>1
  <2> QED BY <1>3, <2>2
<1>4. ASSUME NEW s \in E PROVE body[s] \in E
  <2>1. s \in Passes /\ s.runs \in Nat /\ s.runs <= 1
    BY DEF Passes
  <2>2. body[s] = s
    BY <2>1
  <2> HIDE DEF body, E
  <2> QED BY <2>2
<1>5. ASSUME NEW q \in Nat, NEW s \in W[q]
      PROVE  body[s] \in E \/ \E p \in Nat : p < q /\ body[s] \in W[p]
  <2>1. s \in Passes /\ s.runs = q
    OBVIOUS
  <2>2. PICK d : At(s, d)
    OBVIOUS
  <2>3. CASE s.runs > 1
    <3>1. PICK f : Passed(d, l, s0, Pass(s.heap, l), f)
      <4>1. Shape(s.heap, d) /\ Stable(s0, d[l])
        BY <2>2
      <4> HIDE DEF W, E, body, At, s0
      <4> QED BY <1>1, <4>1, PassSorts
    <3> DEFINE t == Pass(s.heap, l)
    <3>2. /\ t \in Passes /\ t.runs \in Nat /\ At(t, f)
          /\ (t.runs <= 1 \/ t.runs <= Cardinality(Falls(d[l])))
      BY <2>2, <3>1 DEF Passed, Passes
    <3>3. body[s] = t
      BY <2>1, <2>3
    <3>4. t.runs < q
      <4>1. CASE t.runs <= 1
        BY <2>1, <2>3, <3>2, <4>1
      <4>2. CASE t.runs <= Cardinality(Falls(d[l]))
        <5>1. Cardinality(Falls(d[l])) < q
          <6>1. Falls(d[l]) = {} \/ Cardinality(Falls(d[l])) < q
            BY <2>1, <2>2
          <6>2. CASE Falls(d[l]) = {}
            <7>1. Cardinality(Falls(d[l])) = 0
              BY <6>2, FS_EmptySet
            <7> QED BY <2>1, <2>3, <7>1
          <6> QED BY <6>1, <6>2
        <5>2. Cardinality(Falls(d[l])) \in Nat
          <6>1. IsChain(d[l])
            BY <1>2, <2>2
          <6> QED BY <6>1, FallsCount
        <5> HIDE DEF t
        <5> QED BY <3>2, <4>2, <5>1, <5>2
      <4> QED BY <3>2, <4>1, <4>2
    <3>5. t \in W[t.runs]
      <4> HIDE DEF t, At
      <4> QED BY <3>2
    <3> HIDE DEF W, E, body, At, t
    <3> QED BY <3>2, <3>3, <3>4, <3>5
  <2>4. CASE ~(s.runs > 1)
    <3>1. s \in E
      <4> HIDE DEF At
      <4> QED BY <2>1, <2>2, <2>4
    <3> HIDE DEF E, body
    <3> QED BY <1>4, <3>1
  <2> QED BY <2>3, <2>4
<1> DEFINE p == Pass(h, l)
<1>6. p \in Passes /\ p.runs \in Nat /\ p.runs < Rounds /\ p \in W[p.runs]
  <2>1. PICK d : Passed(c, l, s0, p, d)
    <3>1. Stable(s0, s0)
      BY StableFirst
    <3> HIDE DEF W, E, body, At
    <3> QED BY <1>1, <3>1, PassSorts
  <2>2. /\ p \in Passes /\ p.runs \in Nat /\ At(p, d)
        /\ (p.runs <= 1 \/ p.runs <= Cardinality(Falls(s0)))
    BY <2>1 DEF Passed, Passes
  <2>3. Cardinality(Falls(s0)) <= Len(s0) - 2 /\ Cardinality(Falls(s0)) \in Nat
    BY <1>1, FallsCount
  <2> HIDE DEF p, s0, At
  <2>4. p.runs < Rounds
    BY <1>1, <2>2, <2>3
  <2> QED BY <2>2, <2>4
<1>7. Iterate(body, p, Rounds) \in E
  <2> HIDE DEF W, E, body, p
  <2> QED BY <1>1, <1>4, <1>5, <1>6, LoopEnds
<1>8. list_sort(h, l) = Iterate(body, p, Rounds).heap
  BY DEF list_sort
<1> DEFINE r == Iterate(body, p, Rounds)
<1> HIDE DEF r
<1>9. PICK d : At(r, d) /\ r.runs <= 1 /\ r \in Passes
  <2> HIDE DEF At
  <2> QED BY <1>7 DEF r
<1>10. Falls(d[l]) = {}
  <2>1. Falls(d[l]) = {} \/ Cardinality(Falls(d[l])) < r.runs
    BY <1>9
  <2>2. Cardinality(Falls(d[l])) \in Nat /\ r.runs \in Nat
    <3>1. IsChain(d[l])
      BY <1>2, <1>9
    <3> QED BY <1>9, <3>1, FallsCount DEF Passes
  <2>3. Falls(d[l]) = {} \/ Cardinality(Falls(d[l])) < 1
    BY <1>9, <2>1, <2>2
  <2>4. Shape(r.heap, d)
    BY <1>9
  <2> HIDE DEF At
  <2> QED BY <1>3, <2>3, <2>4
<1>11. Shape(r.heap, d) /\ IsChain(d[l]) /\ IsChains(d) /\ Stable(s0, d[l])
  BY <1>9, ContentsOf DEF Shape
<1>12. Inside(d[l]) = Abstract!Sorted(Inside(c[l]))
  <2> HIDE DEF At, W, E, body, p
  <2> QED BY <1>1, <1>10, <1>11, StableSorted
<1>13. Contents(d) = [Contents(c) EXCEPT ![l] = Inside(d[l])]
  <2>1. d = [c EXCEPT ![l] = d[l]]
    <3>1. \A m \in List \ {l} : d[m] = c[m]
      BY <1>9
    <3> QED BY <1>1, <1>11, <3>1 DEF IsChains
  <2> DEFINE s == d[l]
  <2> HIDE DEF s
  <2>2. Contents([c EXCEPT ![l] = s]) = [Contents(c) EXCEPT ![l] = Inside(s)]
    BY <1>1, ContentsChange
  <2> QED BY <2>1, <2>2 DEF s
<1>14. Contents(c)[l] = Inside(c[l]) /\ Contents(c) \in [List -> Seq(Elem)]
  BY <1>1, ContentsOf, ContentsType
<1>15. Abstract!Sort(Contents(c), Contents(d), l)
  BY <1>12, <1>13, <1>14 DEF Abstract!Sort
<1>16. Abstract!Step(Contents(c), Contents(d))
  BY <1>15 DEF Abstract!Step
<1>17. list_sort(h, l) = r.heap
  BY <1>8 DEF r
<1> QED BY <1>11, <1>16, <1>17

-----------------------------------------------------------------------------
(* The inductive invariant and the theorems.                               *)

\* The stores s lead from the chains c to the chains d over heaps that can be walked; the
\* k-th of them makes the change, which is a step of Lists.
Interruptible(h, c, s, d, k) ==
  /\ s \in Seq(Node \X {"prev", "next"} \X Node) /\ Len(s) \in {2, 4} /\ k \in 1 .. Len(s)
  /\ \A n \in 0 .. Len(s) : Walkable(After(h, s, n), IF n < k THEN c ELSE d)
  /\ Shape(After(h, s, Len(s)), d)
  /\ Abstract!Step(Contents(c), Contents(d))

\* Without an operation at work the heap is lists; otherwise it is what its first stores made.
Consistent ==
  \/ todo = <<>> /\ \E c : Shape(heap, c)
  \/ \E h, c, s, d, k : /\ Interruptible(h, c, s, d, k)
                        /\ \E n \in 0 .. Len(s) - 1 : /\ heap = After(h, s, n)
                                                      /\ todo = SubSeq(s, n + 1, Len(s))

\* What the walks find, and what a step may do to it.
View == [l \in List |-> Forward(heap, l)]
Refines == UNCHANGED View \/ Abstract!Step(View, View')

\* What can be walked is safe to walk.
LEMMA WalkableIsSafe ==
  ASSUME NEW h, NEW c, Walkable(h, c), NEW l \in List
  PROVE  /\ Last(Walk(h, l)) = list_end(l)
         /\ \A e \in ToSet(Forward(h, l)) : e \in Elem /\ h.prev[e] # NULL /\ h.next[e] # NULL
         /\ h \in Heap /\ h.prev[list_head(l)] = NULL /\ h.next[list_end(l)] = NULL
<1> DEFINE s == c[l]
           N == Len(s)
           w == SubSeq(s, 2, N)
           f == SubSeq(s, 2, N - 1)
<1>1. /\ s \in Seq(Node) /\ N \in Nat /\ N >= 2 /\ s[N] = list_end(l)
      /\ (\A i \in 1 .. N : s[i] \in Node) /\ \A i \in 2 .. N - 1 : s[i] \in Elem
  BY ChainOf DEF Walkable
<1>2. Walk(h, l) = w /\ Forward(h, l) = f
  BY WalkIs DEF Walkable
<1>3. f \in Seq(Elem) /\ Len(f) = N - 2 /\ \A i \in 1 .. N - 2 : f[i] = s[i + 1]
  BY InsideOf DEF Walkable
<1>4. \A i \in 1 .. N - 1 : h.next[s[i]] = s[i + 1]
  BY DEF Walkable, Nexts
<1>5. \A i \in 2 .. N - 1 : h.prev[s[i]] # NULL
  BY DEF Walkable
<1>6. h \in Heap /\ h.prev[list_head(l)] = NULL /\ h.next[list_end(l)] = NULL
  BY DEF Walkable, Nexts
<1> HIDE DEF s, N, f
<1>7. Last(w) = list_end(l)
  <2>1. \A i \in 2 .. N : s[i] \in Node
    BY <1>1
  <2>2. /\ w \in Seq(Node) /\ Len(w) = (IF 2 <= N THEN N - 2 + 1 ELSE 0)
        /\ \A i \in 1 .. N - 2 + 1 : w[i] = s[2 + i - 1]
    BY <1>1, <2>1, SubSeqProperties
  <2>3. /\ Len(w) = N - 1 /\ N - 1 \in 1 .. N - 2 + 1 /\ 2 + (N - 1) - 1 = N
    BY <1>1, <2>2
  <2>4. w[N - 1] = s[2 + (N - 1) - 1]
    BY <2>2, <2>3
  <2> HIDE DEF w
  <2> QED BY <1>1, <2>3, <2>4 DEF Last
<1>8. ASSUME NEW e \in ToSet(f) PROVE e \in Elem /\ h.prev[e] # NULL /\ h.next[e] # NULL
  <2>1. PICK i \in 1 .. N - 2 : e = f[i]
    BY <1>1, <1>3 DEF ToSet
  <2>2. /\ i + 1 \in 2 .. N - 1 /\ i + 1 \in 1 .. N - 1 /\ (i + 1) + 1 \in 1 .. N
    BY <1>1
  <2>3. e = s[i + 1]
    BY <1>3, <2>1
  <2>4. h.next[e] = s[(i + 1) + 1]
    BY <1>4, <2>2, <2>3
  <2> QED BY <1>1, <1>5, <2>2, <2>3, <2>4, NodesApart
<1> QED BY <1>2, <1>6, <1>7, <1>8

\* Between its stores an operation at work has some left.
LEMMA NotEmpty ==
  ASSUME NEW h, NEW c, NEW s, NEW d, NEW k, Interruptible(h, c, s, d, k),
         NEW n \in 0 .. Len(s) - 1
  PROVE  SubSeq(s, n + 1, Len(s)) # <<>>
<1>1. s \in Seq(Node \X {"prev", "next"} \X Node) /\ Len(s) \in Nat /\ n + 1 \in 1 .. Len(s)
  BY DEF Interruptible
<1>2. Len(SubSeq(s, n + 1, Len(s))) > 0
  BY <1>1
<1>3. ASSUME NEW t, Len(t) > 0 PROVE t # <<>>
  BY <1>3
<1> QED BY <1>2, <1>3

\* The invariant implies what the runs check.
LEMMA ConsistentIsSafe ==
  ASSUME Consistent
  PROVE  TypeOK /\ WalkIsSafe
<1>1. \E d : Walkable(heap, d)
  <2>1. ASSUME NEW h, NEW c, NEW s, NEW e, NEW k, Interruptible(h, c, s, e, k),
               NEW n \in 0 .. Len(s) - 1
        PROVE  \E d : Walkable(After(h, s, n), d)
    <3>1. n \in 0 .. Len(s)
      BY <2>1 DEF Interruptible
    <3> QED BY <2>1, <3>1 DEF Interruptible
  <2> QED BY <2>1, ShapeWalkable DEF Consistent
<1>2. PICK d : Walkable(heap, d)
  BY <1>1
<1>3. heap \in Heap
  BY <1>2 DEF Walkable
<1>4. \A l \in List : heap.prev[list_head(l)] = NULL /\ heap.next[list_end(l)] = NULL
  BY <1>2, WalkableIsSafe
<1>5. todo \in Seq(Node \X {"prev", "next"} \X Node)
  <2>1. CASE todo = <<>>
    BY <2>1
  <2>2. ASSUME NEW s \in Seq(Node \X {"prev", "next"} \X Node), NEW n \in 0 .. Len(s) - 1
        PROVE  SubSeq(s, n + 1, Len(s)) \in Seq(Node \X {"prev", "next"} \X Node)
    <3> DEFINE T == Node \X {"prev", "next"} \X Node
    <3>1. /\ Len(s) \in Nat /\ n + 1 \in Int /\ Len(s) \in Int
          /\ \A i \in n + 1 .. Len(s) : i \in 1 .. Len(s)
      OBVIOUS
    <3>2. \A i \in n + 1 .. Len(s) : s[i] \in T
      <4> HIDE DEF T
      <4> QED BY <3>1, ElementOfSeq DEF T
    <3> HIDE DEF T
    <3> QED BY <3>1, <3>2, SubSeqProperties DEF T
  <2> QED BY <2>1, <2>2 DEF Consistent, Interruptible
<1>6. ASSUME NEW l \in List
      PROVE  /\ Last(Walk(heap, l)) = list_end(l)
             /\ \A e \in In(l) : e \in Elem /\ heap.prev[e] # NULL /\ heap.next[e] # NULL
  BY <1>2, WalkableIsSafe DEF In
<1>7. ASSUME NEW l \in List, todo = <<>> PROVE Backward(heap, l) = Reverse(Forward(heap, l))
  <2>1. \E c : Shape(heap, c)
    <3>1. ASSUME NEW h, NEW c, NEW s, NEW e, NEW k, Interruptible(h, c, s, e, k),
                 NEW n \in 0 .. Len(s) - 1, todo = SubSeq(s, n + 1, Len(s))
          PROVE  FALSE
      BY <1>7, <3>1, NotEmpty
    <3> QED BY <1>7, <3>1 DEF Consistent
  <2> QED BY <2>1, WalkBack DEF Shape
<1> QED BY <1>3, <1>4, <1>5, <1>6, <1>7 DEF TypeOK, WalkIsSafe

\* In the beginning every list is empty.
LEMMA InitConsistent == Init => Consistent /\ Abstract!Init
<1> SUFFICES ASSUME Init PROVE Consistent /\ Abstract!Init
  OBVIOUS
<1> DEFINE c == [l \in List |-> <<list_head(l), list_end(l)>>]
<1>1. heap = list_init /\ todo = <<>>
  BY DEF Init
<1>2. ASSUME NEW l \in List
      PROVE  /\ c[l] \in Seq(Node) /\ Len(c[l]) = 2
             /\ c[l][1] = list_head(l) /\ c[l][2] = list_end(l)
             /\ list_head(l)[1] = l /\ list_end(l)[1] = l
  <2>1. list_head(l) \in Node /\ list_end(l) \in Node
    BY NodesApart
  <2>2. list_head(l)[1] = l /\ list_end(l)[1] = l
    BY DEF list_head, list_end
  <2> QED BY <2>1, <2>2
<1>3. c \in [List -> Seq(Node)]
  BY <1>2
<1> HIDE DEF c
<1>4. IsChains(c)
  <2>1. ASSUME NEW l \in List, NEW m \in List, NEW i \in 1 .. Len(c[l]), NEW j \in 1 .. Len(c[m]),
               c[l][i] = c[m][j]
        PROVE  l = m /\ i = j
    <3>1. i \in {1, 2} /\ j \in {1, 2}
      <4>1. Len(c[l]) = 2 /\ Len(c[m]) = 2
        BY <1>2
      <4> QED BY <4>1
    <3> QED BY <1>2, <2>1, <3>1, NodesApart
  <2>2. ASSUME NEW l \in List PROVE ~ \E i \in 2 .. Len(c[l]) - 1 : TRUE
    <3>1. Len(c[l]) = 2
      BY <1>2
    <3> QED BY <3>1
  <2> QED BY <1>2, <1>3, <2>1, <2>2 DEF IsChains
<1>5. ASSUME NEW l \in List
      PROVE  /\ heap.next[list_end(l)] = NULL /\ heap.prev[list_head(l)] = NULL
             /\ heap.next[list_head(l)] = list_end(l) /\ heap.prev[list_end(l)] = list_head(l)
  <2>1. /\ list_head(l) \in Node /\ list_end(l) \in Node
        /\ ~ \E m \in List : list_end(l) = list_head(m)
        /\ ~ \E m \in List : list_head(l) = list_end(m)
    BY NodesApart
  <2>2. /\ heap.next[list_end(l)] = NULL /\ heap.prev[list_head(l)] = NULL
        /\ heap.next[list_head(l)] = <<list_head(l)[1], "tail">>
        /\ heap.prev[list_end(l)] = <<list_end(l)[1], "head">>
    BY <1>1, <2>1 DEF list_init
  <2> QED BY <1>2, <2>2 DEF list_head, list_end
<1>6. heap \in Heap
  <2>1. ASSUME NEW l \in List
        PROVE  /\ <<list_head(l)[1], "tail">> \in Node
               /\ <<list_end(l)[1], "head">> \in Node
    BY <1>2, NodesApart DEF list_head, list_end
  <2> DEFINE back == [n \in Node |-> IF \E l \in List : n = list_end(l)
                                     THEN <<n[1], "head">> ELSE NULL]
             forth == [n \in Node |-> IF \E l \in List : n = list_head(l)
                                      THEN <<n[1], "tail">> ELSE NULL]
  <2>2. back \in [Node -> Node \cup {NULL}] /\ forth \in [Node -> Node \cup {NULL}]
    BY <2>1
  <2>3. heap = [prev |-> back, next |-> forth]
    BY <1>1 DEF list_init
  <2> HIDE DEF back, forth
  <2> QED BY <2>2, <2>3 DEF Heap
<1>7. ASSUME NEW l \in List, NEW i \in 1 .. Len(c[l]) - 1
      PROVE  heap.next[c[l][i]] = c[l][i + 1] /\ heap.prev[c[l][i + 1]] = c[l][i]
  <2>1. i = 1 /\ i + 1 = 2
    <3>1. Len(c[l]) = 2
      BY <1>2
    <3> QED BY <3>1
  <2> QED BY <1>2, <1>5, <2>1
<1>8. Shape(heap, c)
  BY <1>4, <1>5, <1>6, <1>7 DEF Shape, Nexts, Prevs
<1>9. View = [l \in List |-> <<>>]
  <2>1. View = Contents(c)
    BY <1>8, ViewIs DEF Shape, View
  <2>2. ASSUME NEW l \in List PROVE Inside(c[l]) = <<>>
    <3>1. Inside(c[l]) \in Seq(Elem) /\ Len(Inside(c[l])) = Len(c[l]) - 2
      BY <1>4, ContentsOf
    <3>2. Len(Inside(c[l])) = 0
      BY <1>2, <3>1
    <3> QED BY <3>1, <3>2, EmptySeq
  <2> QED BY <2>1, <2>2 DEF Contents
<1> QED BY <1>1, <1>8, <1>9 DEF Consistent, View, Abstract!Init

\* Where the elements of a list are, and which of its ends are links.
LEMMA Places ==
  ASSUME NEW c, Shape(heap, c)
  PROVE  /\ \A l \in List : /\ list_begin(heap, l) = c[l][2] /\ 2 \in 2 .. Len(c[l])
                            /\ list_end(l) = c[l][Len(c[l])] /\ Len(c[l]) \in 2 .. Len(c[l])
                            /\ heap.prev[list_end(l)] = c[l][Len(c[l]) - 1]
                            /\ \A b \in In(l) : \E k \in 2 .. Len(c[l]) - 1 : b = c[l][k]
         /\ \A e \in Unused : Free(c, e)
<1>1. ASSUME NEW l \in List
      PROVE  /\ list_begin(heap, l) = c[l][2] /\ 2 \in 2 .. Len(c[l])
             /\ list_end(l) = c[l][Len(c[l])] /\ Len(c[l]) \in 2 .. Len(c[l])
             /\ heap.prev[list_end(l)] = c[l][Len(c[l]) - 1]
  <2>1. /\ Len(c[l]) \in Nat /\ Len(c[l]) >= 2 /\ c[l][1] = list_head(l)
        /\ c[l][Len(c[l])] = list_end(l)
    BY ChainOf DEF Shape
  <2>2. ASSUME NEW n \in Nat, n >= 2
        PROVE  1 \in 1 .. n /\ 1 # n /\ 1 + 1 = 2 /\ 2 \in 2 .. n /\ n \in 2 .. n /\ n \in 1 .. n
    BY <2>2
  <2>3. heap.next[c[l][1]] = c[l][2]
    BY <2>1, <2>2, LinksAt
  <2>4. heap.prev[c[l][Len(c[l])]] = c[l][Len(c[l]) - 1]
    BY <2>1, <2>2, LinksAt
  <2> QED BY <2>1, <2>2, <2>3, <2>4 DEF list_begin
<1>2. ASSUME NEW l \in List PROVE In(l) = {c[l][k] : k \in 2 .. Len(c[l]) - 1}
  BY InsideSet DEF Shape, In
<1>3. ASSUME NEW e \in Unused PROVE Free(c, e)
  <2>1. e \in Elem /\ \A l \in List : e \notin In(l)
    BY DEF Unused
  <2>2. ASSUME NEW l \in List, NEW n \in 1 .. Len(c[l]), e = c[l][n] PROVE FALSE
    <3>1. /\ Len(c[l]) \in Nat /\ Len(c[l]) >= 2 /\ c[l][1] = list_head(l)
          /\ c[l][Len(c[l])] = list_end(l)
      BY ChainOf DEF Shape
    <3>2. n # 1 /\ n # Len(c[l])
      BY <2>1, <2>2, <3>1, NodesApart
    <3>3. n \in 2 .. Len(c[l]) - 1
      BY <3>1, <3>2
    <3> QED BY <1>2, <2>1, <2>2, <3>3
  <2> QED BY <2>2 DEF Free
<1> QED BY <1>1, <1>2, <1>3

-----------------------------------------------------------------------------
(* Every step keeps the invariant.                                         *)

\* An insertion can be interrupted; its third store makes it.
LEMMA InsertInterruptible ==
  ASSUME NEW h, NEW c, Shape(h, c), NEW l \in List, NEW k \in 2 .. Len(c[l]), NEW e \in Elem,
         Free(c, e)
  PROVE  \E d : Interruptible(h, c, list_insert(h, c[l][k], e), d, 3)
<1> DEFINE s == list_insert(h, c[l][k], e)
           d == [c EXCEPT ![l] = PutIn(@, k, <<e>>)]
<1>1. Len(s) = 4
  BY DEF list_insert
<1>2. /\ s \in Seq(Node \X {"prev", "next"} \X Node)
      /\ \A n \in 0 .. 2 : Walkable(After(h, s, n), c)
      /\ Walkable(After(h, s, 3), d) /\ Shape(After(h, s, 4), d)
  BY InsertStores
<1>3. Abstract!Step(Contents(c), Contents(d))
  BY InsertStep DEF Shape
<1> HIDE DEF s, d
<1>4. ASSUME NEW n \in 0 .. 4 PROVE Walkable(After(h, s, n), IF n < 3 THEN c ELSE d)
  <2>1. CASE n \in 0 .. 2
    BY <1>2, <2>1
  <2>2. CASE n = 3
    BY <1>2, <2>2
  <2>3. CASE n = 4
    BY <1>2, <2>3, ShapeWalkable
  <2> QED BY <2>1, <2>2, <2>3
<1>5. Interruptible(h, c, s, d, 3)
  BY <1>1, <1>2, <1>3, <1>4 DEF Interruptible
<1> QED BY <1>5 DEF s

\* So can a removal; its first store makes it.
LEMMA RemoveInterruptible ==
  ASSUME NEW h, NEW c, Shape(h, c), NEW l \in List, NEW i \in 2 .. Len(c[l]) - 1
  PROVE  \E d : Interruptible(h, c, list_remove(h, c[l][i]), d, 1)
<1> DEFINE s == list_remove(h, c[l][i])
           d == [c EXCEPT ![l] = CutOut(@, i, i)]
<1>1. Len(s) = 2
  BY DEF list_remove
<1>2. /\ s \in Seq(Node \X {"prev", "next"} \X Node)
      /\ Walkable(After(h, s, 0), c)
      /\ Walkable(After(h, s, 1), d) /\ Shape(After(h, s, 2), d)
  BY RemoveStores
<1>3. Abstract!Step(Contents(c), Contents(d))
  BY DeleteStep DEF Shape
<1> HIDE DEF s, d
<1>4. ASSUME NEW n \in 0 .. 2 PROVE Walkable(After(h, s, n), IF n < 1 THEN c ELSE d)
  <2>1. CASE n = 0
    BY <1>2, <2>1
  <2>2. CASE n = 1
    BY <1>2, <2>2
  <2>3. CASE n = 2
    BY <1>2, <2>3, ShapeWalkable
  <2> QED BY <2>1, <2>2, <2>3
<1>5. Interruptible(h, c, s, d, 1)
  BY <1>1, <1>2, <1>3, <1>4 DEF Interruptible
<1> QED BY <1>5 DEF s

\* A started operation is at its first store, and nothing has changed yet.
LEMMA StartKeeps ==
  ASSUME NEW c, NEW s, NEW d, NEW k, Interruptible(heap, c, s, d, k), Start(s)
  PROVE  Consistent' /\ Refines
<1>1. s \in Seq(Node \X {"prev", "next"} \X Node) /\ Len(s) \in {2, 4}
  BY DEF Interruptible
<1>2. 0 \in 0 .. Len(s) - 1 /\ 0 + 1 = 1
  <2>1. \A n \in {2, 4} : 0 \in 0 .. n - 1
    OBVIOUS
  <2>2. 0 \in 0 .. Len(s) - 1
    BY <1>1, <2>1, Zenon
  <2> QED BY <2>2
<1>3. SubSeq(s, 1, Len(s)) = s
  BY <1>1, SubSeqFull
<1>4. heap' = heap /\ heap' = After(heap, s, 0) /\ todo' = SubSeq(s, 0 + 1, Len(s))
  BY <1>2, <1>3 DEF Start, After
<1>5. Consistent'
  <2>1. ASSUME NEW h, h = heap PROVE Consistent'
    <3>1. Interruptible(h, c, s, d, k) /\ heap' = After(h, s, 0)
      BY <1>4, <2>1
    <3> QED BY <1>2, <1>4, <3>1 DEF Consistent
  <2> QED BY <2>1
<1>6. Refines
  BY <1>4 DEF Refines, View
<1> QED BY <1>5, <1>6

\* Each store leads on, and the one that makes the change makes it in the view.
LEMMA StoreKeeps ==
  ASSUME Consistent, Store
  PROVE  Consistent' /\ Refines
<1>1. PICK h, c, s, d, k :
             /\ Interruptible(h, c, s, d, k)
             /\ \E n \in 0 .. Len(s) - 1 : heap = After(h, s, n) /\ todo = SubSeq(s, n + 1, Len(s))
  BY DEF Consistent, Store
<1>2. PICK n \in 0 .. Len(s) - 1 : heap = After(h, s, n) /\ todo = SubSeq(s, n + 1, Len(s))
  BY <1>1
<1> DEFINE T == Node \X {"prev", "next"} \X Node
<1>3. s \in Seq(T) /\ Len(s) \in {2, 4} /\ k \in 1 .. Len(s)
  BY <1>1 DEF Interruptible
<1> HIDE DEF T
<1>4. /\ Len(s) \in Nat /\ n + 1 \in 1 .. Len(s) /\ n \in {0, 1, 2, 3} /\ n \in 0 .. Len(s)
      /\ n + 1 \in 0 .. Len(s) /\ (n + 1 # Len(s) => n + 1 \in 0 .. Len(s) - 1)
  <2>1. ASSUME NEW m \in {2, 4}, NEW i \in 0 .. m - 1
        PROVE  /\ m \in Nat /\ i + 1 \in 1 .. m /\ i \in {0, 1, 2, 3} /\ i \in 0 .. m
               /\ i + 1 \in 0 .. m /\ (i + 1 # m => i + 1 \in 0 .. m - 1)
    OBVIOUS
  <2> QED BY <1>3, <2>1
<1>5. Head(todo) = s[n + 1] /\ Tail(todo) = SubSeq(s, (n + 1) + 1, Len(s))
  BY <1>2, <1>3, <1>4
<1>6. heap' = After(h, s, n + 1)
  <2>1. heap' = Apply(After(h, s, n), s[n + 1])
    BY <1>2, <1>5 DEF Store
  <2>2. Apply(After(h, s, n), s[n + 1]) = After(h, s, n + 1)
    BY <1>4 DEF After
  <2> QED BY <2>1, <2>2
<1>7. todo' = SubSeq(s, (n + 1) + 1, Len(s))
  BY <1>5 DEF Store
<1>8. Consistent'
  <2>1. CASE n + 1 = Len(s)
    <3>1. todo' = <<>>
      BY <1>3, <1>4, <1>7, <2>1
    <3>2. \E e : Shape(heap', e)
      BY <1>1, <1>6, <2>1 DEF Interruptible
    <3> QED BY <3>1, <3>2 DEF Consistent, Shape, Nexts, Prevs
  <2>2. CASE n + 1 # Len(s)
    BY <1>1, <1>4, <1>6, <1>7, <2>2 DEF Consistent
  <2> QED BY <2>1, <2>2
<1>9. \A m \in 0 .. Len(s) : Walkable(After(h, s, m), IF m < k THEN c ELSE d)
  BY <1>1 DEF Interruptible
<1>10. ASSUME NEW g, NEW e, Walkable(g, e) PROVE [l \in List |-> Forward(g, l)] = Contents(e)
  BY <1>10, ViewIs DEF Walkable
<1>11. View = Contents(IF n < k THEN c ELSE d)
  <2>1. Walkable(heap, IF n < k THEN c ELSE d)
    BY <1>2, <1>4, <1>9
  <2> QED BY <1>10, <2>1 DEF View
<1>12. View' = Contents(IF n + 1 < k THEN c ELSE d)
  <2>1. Walkable(After(h, s, n + 1), IF n + 1 < k THEN c ELSE d)
    BY <1>4, <1>9
  <2>2. View' = [l \in List |-> Forward(After(h, s, n + 1), l)]
    BY <1>6 DEF View
  <2> QED BY <1>10, <2>1, <2>2
<1>13. n < k /\ ~(n + 1 < k) => Abstract!Step(View, View')
  BY <1>1, <1>11, <1>12 DEF Interruptible
<1>14. ~(n < k) => ~(n + 1 < k)
  BY <1>3, <1>4
<1>15. Refines
  BY <1>11, <1>12, <1>13, <1>14 DEF Refines
<1> QED BY <1>8, <1>15

\* An operation of one step leaves lists.
LEMMA DoKeeps ==
  ASSUME NEW h, NEW c, NEW d, Shape(heap, c), Shape(h, d), todo = <<>>, Do(h),
         Abstract!Step(Contents(c), Contents(d))
  PROVE  Consistent' /\ Refines
<1>1. heap' = h /\ todo' = <<>>
  BY DEF Do
<1>2. Consistent'
  BY <1>1 DEF Consistent, Shape, Nexts, Prevs
<1>3. View = Contents(c) /\ View' = Contents(d)
  <2>1. View = Contents(c)
    BY ViewIs DEF View, Shape
  <2>2. View' = [l \in List |-> Forward(h, l)]
    BY <1>1 DEF View
  <2> QED BY <2>1, <2>2, ViewIs DEF Shape
<1> QED BY <1>2, <1>3 DEF Refines

\* list_splice, between any two lists.
LEMMA SpliceConsistent ==
  ASSUME NEW c, Shape(heap, c), todo = <<>>, Splice
  PROVE  Consistent' /\ Refines
<1>1. PICK l \in List, m \in List : \E i, j \in 1 .. Len(Forward(heap, l)) :
              \E before \in In(m) \cup {list_end(m)} :
                LET s == Forward(heap, l)
                IN  /\ i <= j /\ before \notin {s[n] : n \in i .. j}
                    /\ Do(list_splice(heap, before, s[i], heap.next[s[j]]))
  BY DEF Splice
<1> DEFINE s == Forward(heap, l)
           N == Len(c[l])
<1>2. PICK i \in 1 .. Len(s), j \in 1 .. Len(s) : \E before \in In(m) \cup {list_end(m)} :
             /\ i <= j /\ before \notin {s[n] : n \in i .. j}
             /\ Do(list_splice(heap, before, s[i], heap.next[s[j]]))
  BY <1>1
<1>3. PICK before \in In(m) \cup {list_end(m)} :
             /\ i <= j /\ before \notin {s[n] : n \in i .. j}
             /\ Do(list_splice(heap, before, s[i], heap.next[s[j]]))
  BY <1>2
<1>4. Len(s) = N - 2 /\ N \in Nat /\ \A n \in 1 .. N - 2 : s[n] = c[l][n + 1]
  BY WalkIs, InsideOf, ChainOf DEF Shape
<1>5. PICK k \in 2 .. Len(c[m]) : before = c[m][k]
  <2>1. CASE before \in In(m)
    <3>1. PICK k \in 2 .. Len(c[m]) - 1 : before = c[m][k]
      BY <2>1, Places
    <3>2. k \in 2 .. Len(c[m])
      BY ChainOf DEF Shape
    <3> QED BY <3>1, <3>2
  <2>2. CASE before = list_end(m)
    BY <2>2, Places
  <2> QED BY <2>1, <2>2
<1> HIDE DEF s
<1>6. /\ i \in 1 .. N - 2 /\ j \in 1 .. N - 2 /\ i + 1 \in 2 .. N - 1 /\ j + 1 \in i + 1 .. N - 1
      /\ j + 1 \in 1 .. N /\ j + 1 # N /\ i \in Nat /\ j \in Nat
  <2> HIDE DEF N
  <2> QED BY <1>3, <1>4
<1>7. s[i] = c[l][i + 1] /\ s[j] = c[l][j + 1]
  BY <1>4, <1>6
<1>8. heap.next[s[j]] = c[l][(j + 1) + 1]
  BY <1>6, <1>7, LinksAt
<1>9. ~(m = l /\ i + 1 <= k /\ k <= j + 1)
  <2> SUFFICES ASSUME m = l, i + 1 <= k, k <= j + 1 PROVE FALSE
    OBVIOUS
  <2>1. k \in Nat
    BY ChainOf DEF Shape
  <2>2. k - 1 \in i .. j /\ k - 1 \in 1 .. N - 2 /\ (k - 1) + 1 = k
    <3> HIDE DEF N
    <3> QED BY <1>4, <1>6, <2>1
  <2>3. s[k - 1] = before
    BY <1>4, <1>5, <2>2
  <2> QED BY <1>3, <2>2, <2>3
<1>10. \E d : /\ Shape(list_splice(heap, c[m][k], c[l][i + 1], c[l][(j + 1) + 1]), d)
              /\ Abstract!Step(Contents(c), Contents(d))
  <2>1. ASSUME NEW x \in 2 .. Len(c[l]) - 1, NEW y \in x .. Len(c[l]) - 1,
               ~(m = l /\ x <= k /\ k <= y)
        PROVE  \E d : /\ Shape(list_splice(heap, c[m][k], c[l][x], c[l][y + 1]), d)
                      /\ Abstract!Step(Contents(c), Contents(d))
    <3> DEFINE d == [c EXCEPT ![l] = CutOut(@, x, y)]
               e == [d EXCEPT ![m] = PutIn(@, PlaceAfter(k, m = l, x, y), Part(c[l], x, y))]
    <3>1. Shape(list_splice(heap, c[m][k], c[l][x], c[l][y + 1]), e)
      BY <2>1, SpliceKeeps
    <3>2. Abstract!Step(Contents(c), Contents(e))
      BY <2>1, SpliceStep DEF Shape
    <3> HIDE DEF d, e
    <3> QED BY <3>1, <3>2
  <2> QED BY <1>6, <1>9, <2>1
<1>11. Do(list_splice(heap, c[m][k], c[l][i + 1], c[l][(j + 1) + 1]))
  BY <1>3, <1>5, <1>7, <1>8
<1> QED BY <1>10, <1>11, DoKeeps

\* The operations that a handler can interrupt begin with lists.
LEMMA InsertionStarts ==
  ASSUME NEW c, Shape(heap, c), Insertion
  PROVE  Consistent' /\ Refines
<1>1. PICK l \in List, e \in Unused :
             \E before \in In(l) \cup {list_end(l)} : Start(list_insert(heap, before, e))
  BY DEF Insertion
<1>2. PICK before \in In(l) \cup {list_end(l)} : Start(list_insert(heap, before, e))
  BY <1>1
<1>3. e \in Elem /\ Free(c, e)
  BY Places DEF Unused
<1>4. PICK k \in 2 .. Len(c[l]) : before = c[l][k]
  <2>1. CASE before \in In(l)
    <3>1. PICK k \in 2 .. Len(c[l]) - 1 : before = c[l][k]
      BY <2>1, Places
    <3>2. k \in 2 .. Len(c[l])
      BY ChainOf DEF Shape
    <3> QED BY <3>1, <3>2
  <2>2. CASE before = list_end(l)
    BY <2>2, Places
  <2> QED BY <2>1, <2>2
<1>5. \E d : Interruptible(heap, c, list_insert(heap, c[l][k], e), d, 3)
  BY <1>3, InsertInterruptible
<1> QED BY <1>2, <1>4, <1>5, StartKeeps

\* An insertion at one of the ends.
LEMMA PushStarts ==
  ASSUME NEW c, Shape(heap, c), Push
  PROVE  Consistent' /\ Refines
<1>1. PICK l \in List, e \in Unused : \/ Start(list_push_front(heap, l, e))
                                      \/ Start(list_push_back(heap, l, e))
  BY DEF Push
<1>2. e \in Elem /\ Free(c, e)
  BY Places DEF Unused
<1>3. /\ list_push_front(heap, l, e) = list_insert(heap, c[l][2], e) /\ 2 \in 2 .. Len(c[l])
      /\ list_push_back(heap, l, e) = list_insert(heap, c[l][Len(c[l])], e)
      /\ Len(c[l]) \in 2 .. Len(c[l])
  BY Places DEF list_push_front, list_push_back
<1>4. /\ \E d : Interruptible(heap, c, list_push_front(heap, l, e), d, 3)
      /\ \E d : Interruptible(heap, c, list_push_back(heap, l, e), d, 3)
  BY <1>2, <1>3, InsertInterruptible
<1> QED BY <1>1, <1>4, StartKeeps

\* Any element of a list can be removed.
LEMMA RemovalStarts ==
  ASSUME NEW c, Shape(heap, c), Removal
  PROVE  Consistent' /\ Refines
<1>1. PICK l \in List : \E e \in In(l) : Start(list_remove(heap, e))
  BY DEF Removal
<1>2. PICK e \in In(l) : Start(list_remove(heap, e))
  BY <1>1
<1>3. PICK k \in 2 .. Len(c[l]) - 1 : e = c[l][k]
  BY Places
<1>4. \E d : Interruptible(heap, c, list_remove(heap, c[l][k]), d, 1)
  BY RemoveInterruptible
<1> QED BY <1>2, <1>3, <1>4, StartKeeps

\* The first and the last can, where there is one.
LEMMA PopStarts ==
  ASSUME NEW c, Shape(heap, c), Pop
  PROVE  Consistent' /\ Refines
<1>1. PICK l \in List : /\ ~list_empty(heap, l)
                        /\ Start(list_pop_front(heap, l)) \/ Start(list_pop_back(heap, l))
  BY DEF Pop
<1>2. /\ list_begin(heap, l) = c[l][2] /\ list_end(l) = c[l][Len(c[l])]
      /\ heap.prev[list_end(l)] = c[l][Len(c[l]) - 1] /\ Len(c[l]) \in Nat /\ Len(c[l]) >= 2
  BY Places, ChainOf DEF Shape
<1>3. Len(c[l]) # 2
  BY <1>1, <1>2 DEF list_empty
<1>4. 2 \in 2 .. Len(c[l]) - 1 /\ Len(c[l]) - 1 \in 2 .. Len(c[l]) - 1
  <2>1. ASSUME NEW n \in Nat, n >= 2, n # 2 PROVE 2 \in 2 .. n - 1 /\ n - 1 \in 2 .. n - 1
    BY <2>1
  <2> QED BY <1>2, <1>3, <2>1
<1>5. /\ list_pop_front(heap, l) = list_remove(heap, c[l][2])
      /\ list_pop_back(heap, l) = list_remove(heap, c[l][Len(c[l]) - 1])
  BY <1>2 DEF list_pop_front, list_pop_back
<1>6. /\ \E d : Interruptible(heap, c, list_pop_front(heap, l), d, 1)
      /\ \E d : Interruptible(heap, c, list_pop_back(heap, l), d, 1)
  BY <1>4, <1>5, RemoveInterruptible
<1> QED BY <1>1, <1>6, StartKeeps

\* list_reverse.
LEMMA ReversalConsistent ==
  ASSUME NEW c, Shape(heap, c), todo = <<>>, Reversal
  PROVE  Consistent' /\ Refines
<1>1. PICK l \in List : Do(list_reverse(heap, l))
  BY DEF Reversal
<1> DEFINE d == [c EXCEPT ![l] = TurnAround(@)]
<1>2. Shape(list_reverse(heap, l), d)
  BY ReverseKeeps
<1>3. TurnAround(c[l]) \in Seq(Node) /\ Len(TurnAround(c[l])) = Len(c[l])
  BY ReverseKeeps
<1>4. Abstract!Step(Contents(c), Contents(d))
  BY <1>3, ReverseStep DEF Shape
<1> HIDE DEF d
<1> QED BY <1>1, <1>2, <1>4, DoKeeps

\* list_insert_ordered, whose guard says that no key falls.
LEMMA OrderedConsistent ==
  ASSUME NEW c, Shape(heap, c), todo = <<>>, InsertOrdered
  PROVE  Consistent' /\ Refines
<1>1. PICK l \in List, e \in Unused :
             /\ \A a \in In(l) : heap.next[a] # list_end(l) => ~less(heap.next[a], a)
             /\ Do(list_insert_ordered(heap, l, e))
  BY DEF InsertOrdered
<1> DEFINE N == Len(c[l])
<1>2. e \in Elem /\ Free(c, e)
  BY Places DEF Unused
<1>3. In(l) = {c[l][k] : k \in 2 .. N - 1}
  BY InsideSet DEF Shape, In
<1>4. N \in Nat /\ (\A k \in 2 .. N - 1 : c[l][k] \in Elem)
  BY ChainOf DEF Shape
<1>5. ASSUME NEW n \in Falls(c[l]) PROVE FALSE
  <2>1. n \in 3 .. N - 1 /\ less(c[l][n], c[l][n - 1])
    BY DEF Falls
  <2>2. /\ n - 1 \in 2 .. N - 1 /\ n - 1 \in 1 .. N /\ n - 1 # N /\ (n - 1) + 1 = n
        /\ n \in 2 .. N - 1
    BY <1>4, <2>1
  <2>3. heap.next[c[l][n - 1]] = c[l][n]
    BY <2>2, LinksAt
  <2>4. c[l][n] # list_end(l)
    BY <1>4, <2>2, NodesApart
  <2>5. c[l][n - 1] \in In(l)
    BY <1>3, <2>2
  <2> QED BY <1>1, <2>1, <2>3, <2>4, <2>5
<1>6. \E d : /\ Shape(list_insert_ordered(heap, l, e), d)
             /\ Abstract!Step(Contents(c), Contents(d))
  BY <1>2, <1>5, OrderedStep
<1> QED BY <1>1, <1>6, DoKeeps

\* list_sort.
LEMMA SortingConsistent ==
  ASSUME NEW c, Shape(heap, c), todo = <<>>, Sorting
  PROVE  Consistent' /\ Refines
<1>1. PICK l \in List : Do(list_sort(heap, l))
  BY DEF Sorting
<1>2. \E d : Shape(list_sort(heap, l), d) /\ Abstract!Step(Contents(c), Contents(d))
  BY SortStep
<1> QED BY <1>1, <1>2, DoKeeps

\* list_unique, with a list for the duplicates or without.
LEMMA UniqueConsistent ==
  ASSUME NEW c, Shape(heap, c), todo = <<>>, Unique
  PROVE  Consistent' /\ Refines
<1>1. PICK l \in List, r \in List \cup {NULL} : l # r /\ Do(list_unique(heap, l, r))
  BY DEF Unique
<1>2. \E d : Shape(list_unique(heap, l, r), d) /\ Abstract!Step(Contents(c), Contents(d))
  BY <1>1, UniqueStep
<1> QED BY <1>1, <1>2, DoKeeps

\* Every step keeps the invariant and is a step of Lists or none.
LEMMA NextConsistent == Consistent /\ [Next]_vars => Consistent' /\ Refines
<1> SUFFICES ASSUME Consistent, [Next]_vars PROVE Consistent' /\ Refines
  OBVIOUS
<1>1. CASE Store
  BY <1>1, StoreKeeps
<1>2. CASE UNCHANGED vars
  <2>1. Consistent'
    BY <1>2 DEF vars, Consistent, Shape, Nexts, Prevs
  <2>2. Refines
    BY <1>2 DEF vars, Refines, View
  <2> QED BY <2>1, <2>2
<1>3. ASSUME todo = <<>>, Insertion \/ Push \/ Removal \/ Pop \/ Splice \/ Reversal \/ Sorting
                          \/ InsertOrdered \/ Unique
      PROVE  Consistent' /\ Refines
  <2>1. PICK c : Shape(heap, c)
    <3>1. ASSUME NEW h, NEW c, NEW s, NEW e, NEW k, Interruptible(h, c, s, e, k),
                 NEW n \in 0 .. Len(s) - 1, todo = SubSeq(s, n + 1, Len(s))
          PROVE  FALSE
      BY <1>3, <3>1, NotEmpty
    <3> QED BY <1>3, <3>1 DEF Consistent
  <2>2. CASE Insertion
    BY <2>1, <2>2, InsertionStarts
  <2>3. CASE Push
    BY <2>1, <2>3, PushStarts
  <2>4. CASE Removal
    BY <2>1, <2>4, RemovalStarts
  <2>5. CASE Pop
    BY <2>1, <2>5, PopStarts
  <2>6. CASE Splice
    BY <1>3, <2>1, <2>6, SpliceConsistent
  <2>7. CASE Reversal
    BY <1>3, <2>1, <2>7, ReversalConsistent
  <2>8. CASE Sorting
    BY <1>3, <2>1, <2>8, SortingConsistent
  <2>9. CASE InsertOrdered
    BY <1>3, <2>1, <2>9, OrderedConsistent
  <2>10. CASE Unique
    BY <1>3, <2>1, <2>10, UniqueConsistent
  <2> QED BY <1>3, <2>2, <2>3, <2>4, <2>5, <2>6, <2>7, <2>8, <2>9, <2>10
<1> QED BY <1>1, <1>2, <1>3 DEF Next

\* The heap is lists, or what the stores of one insertion or removal left so far.
LEMMA AlwaysConsistent == Spec => []Consistent
<1>1. Init => Consistent
  BY InitConsistent
<1>2. Consistent /\ [Next]_vars => Consistent'
  BY NextConsistent
<1> QED BY <1>1, <1>2, PTL DEF Spec

\* The fields of the nodes and the stores to be done are what list.h declares, and the
\* outer links of the ends stay NULL, by which is_head and is_tail know them.
THEOREM ListTypes == Spec => []TypeOK
<1>1. Consistent => TypeOK
  BY ConsistentIsSafe
<1> QED BY <1>1, AlwaysConsistent, PTL

\* A handler that interrupts list_insert or list_remove between any two of their stores
\* walks to the end of the list it began with, and when no operation is at work the
\* way back meets the same elements: for every number of lists, elements and keys.
THEOREM WalksAreSafe == Spec => []WalkIsSafe
<1>1. Consistent => WalkIsSafe
  BY ConsistentIsSafe
<1> QED BY <1>1, AlwaysConsistent, PTL

\* LinkedList implements Lists: what a walk finds changes only as the operations on
\* sequences say, by the third store of an insertion, by the first of a removal, and at
\* once by the other operations; the merge sort is the stable sort.
THEOREM ListsImplemented == Spec => ImplementsLists
<1>1. Init => Abstract!Init
  BY InitConsistent
<1>2. Refines => [Abstract!Next]_View
  BY DEF Refines, Abstract!Next, View
<1>3. Consistent /\ [Next]_vars => [Abstract!Next]_View
  BY <1>2, NextConsistent
<1> QED BY <1>1, <1>3, AlwaysConsistent, PTL DEF Spec, ImplementsLists, Abstract!Spec, View
=============================================================================

----------------------------- MODULE ListChains -----------------------------
(* Lemmas about LinkedList: lists as chains of nodes, and what the stores  *)
(* of the operations do to them.                                           *)
EXTENDS LinkedListProperties, SequenceLemmas

-----------------------------------------------------------------------------
(* Loops and stores.                                                       *)

\* The states of a loop after each of its rounds.
AreRounds(a, body, s, n) == a = [k \in 0 .. n |-> IF k = 0 THEN s ELSE body[a[k - 1]]]

\* There are such states, for any number of rounds.
LEMMA RoundsExist ==
  ASSUME NEW body, NEW s, NEW n \in Nat
  PROVE  \E a : AreRounds(a, body, s, n)
<1> DEFINE P == {k \in 1 .. n + 1 : \E a : AreRounds(a, body, s, k - 1)}
<1>1. 1 \in P
  <2> DEFINE a == [k \in 0 .. 0 |-> s]
  <2>1. a = [k \in 0 .. 0 |-> IF k = 0 THEN s ELSE body[a[k - 1]]]
    OBVIOUS
  <2> HIDE DEF a
  <2>2. AreRounds(a, body, s, 1 - 1)
    BY <2>1 DEF AreRounds
  <2> QED BY <2>2
<1>2. ASSUME NEW k \in 1 .. n + 1, k \in P, k + 1 <= n + 1
      PROVE  k + 1 \in P
  <2>1. PICK a : AreRounds(a, body, s, k - 1)
    BY <1>2
  <2> DEFINE b == [i \in 0 .. k |-> IF i < k THEN a[i] ELSE body[a[k - 1]]]
             c == [i \in 0 .. k |-> IF i = 0 THEN s ELSE body[b[i - 1]]]
  <2>2. ASSUME NEW i \in 0 .. k
        PROVE  b[i] = c[i]
    <3>1. CASE i = 0
      <4>1. b[i] = a[0] /\ 0 \in 0 .. k - 1
        BY <3>1
      <4> QED BY <2>1, <3>1, <4>1 DEF AreRounds
    <3>2. CASE i # 0 /\ i < k
      <4>1. b[i] = a[i] /\ b[i - 1] = a[i - 1] /\ i \in 0 .. k - 1
        BY <3>2
      <4> QED BY <2>1, <3>2, <4>1 DEF AreRounds
    <3>3. CASE i = k
      <4>1. i # 0 /\ b[i] = body[a[k - 1]] /\ b[i - 1] = a[k - 1]
        BY <3>3
      <4> QED BY <4>1, <3>3
    <3> QED BY <3>1, <3>2, <3>3
  <2>3. b = c
    BY <2>2
  <2>4. (k + 1) - 1 = k
    OBVIOUS
  <2> HIDE DEF b
  <2>5. AreRounds(b, body, s, (k + 1) - 1)
    BY <2>3, <2>4 DEF AreRounds
  <2> QED BY <1>2, <2>5
<1>3. n + 1 \in P
  <2> HIDE DEF P
  <2>1. \A k \in 1 .. n + 1 : k \in P
    BY <1>1, <1>2, Climb
  <2> QED BY <2>1
<1>4. (n + 1) - 1 = n
  OBVIOUS
<1> QED BY <1>3, <1>4

\* Iterate is the last of them.
LEMMA IterateIs ==
  ASSUME NEW body, NEW s, NEW n \in Nat
  PROVE  \E a : AreRounds(a, body, s, n) /\ Iterate(body, s, n) = a[n]
<1> DEFINE F == CHOOSE a : AreRounds(a, body, s, n)
<1>1. AreRounds(F, body, s, n)
  BY RoundsExist
<1>2. Iterate(body, s, n) = F[n]
  BY DEF Iterate, AreRounds
<1> HIDE DEF F
<1> QED BY <1>1, <1>2

\* What every round keeps holds at the end.
LEMMA LoopKeeps ==
  ASSUME NEW body, NEW W, NEW s \in W, \A x \in W : body[x] \in W, NEW n \in Nat
  PROVE  Iterate(body, s, n) \in W
<1>1. PICK a : AreRounds(a, body, s, n) /\ Iterate(body, s, n) = a[n]
  BY IterateIs
<1> DEFINE P == {k \in 1 .. n + 1 : a[k - 1] \in W}
<1>2. 1 \in P
  BY <1>1 DEF AreRounds
<1>3. ASSUME NEW k \in 1 .. n + 1, k \in P, k + 1 <= n + 1
      PROVE  k + 1 \in P
  <2>1. k \in 0 .. n /\ k # 0 /\ (k + 1) - 1 = k
    BY <1>3
  <2>2. a[k] = body[a[k - 1]]
    BY <1>1, <2>1 DEF AreRounds
  <2> QED BY <1>3, <2>1, <2>2
<1>4. n + 1 \in P
  <2> HIDE DEF P
  <2>1. \A k \in 1 .. n + 1 : k \in P
    BY <1>2, <1>3, Climb
  <2> QED BY <2>1
<1>5. (n + 1) - 1 = n
  OBVIOUS
<1> QED BY <1>1, <1>4, <1>5

\* A loop of which each round has less to do, or ends, has ended after enough of them:
\* W[q] has the states with no more than q rounds to go but one, E those at its end.
LEMMA LoopEnds ==
  ASSUME NEW body, NEW W, NEW E, \A x \in E : body[x] \in E,
         \A q \in Nat : \A x \in W[q] :
           body[x] \in E \/ \E p \in Nat : p < q /\ body[x] \in W[p],
         NEW r \in Nat, NEW s \in W[r], NEW n \in Nat, r < n
  PROVE  Iterate(body, s, n) \in E
<1>1. PICK a : AreRounds(a, body, s, n) /\ Iterate(body, s, n) = a[n]
  BY IterateIs
<1> DEFINE P == {k \in 1 .. n + 1 : \/ a[k - 1] \in E
                                    \/ \E q \in Nat : q + (k - 1) <= r /\ a[k - 1] \in W[q]}
<1>2. a = [k \in 0 .. n |-> IF k = 0 THEN s ELSE body[a[k - 1]]]
  BY <1>1 DEF AreRounds
<1>3. 1 \in P
  <2>1. a[1 - 1] = s /\ r + (1 - 1) <= r /\ 1 \in 1 .. n + 1
    BY <1>2
  <2> QED BY <2>1
<1>4. ASSUME NEW k \in 1 .. n + 1, k \in P, k + 1 <= n + 1
      PROVE  k + 1 \in P
  <2>1. a[(k + 1) - 1] = body[a[k - 1]] /\ k + 1 \in 1 .. n + 1 /\ (k + 1) - 1 = k
    <3>1. k \in 0 .. n /\ k # 0 /\ (k + 1) - 1 = k /\ k + 1 \in 1 .. n + 1
      BY <1>4
    <3> QED BY <1>2, <3>1
  <2>2. CASE a[k - 1] \in E
    BY <2>1, <2>2
  <2>3. CASE \E q \in Nat : q + (k - 1) <= r /\ a[k - 1] \in W[q]
    <3>1. PICK q \in Nat : q + (k - 1) <= r /\ a[k - 1] \in W[q]
      BY <2>3
    <3>2. CASE body[a[k - 1]] \in E
      BY <2>1, <3>2
    <3>3. ASSUME NEW p \in Nat, p < q, body[a[k - 1]] \in W[p]
          PROVE  k + 1 \in P
      <4>1. p + ((k + 1) - 1) <= r
        BY <3>1, <3>3
      <4> QED BY <2>1, <3>3, <4>1
    <3> QED BY <3>1, <3>2, <3>3
  <2> QED BY <1>4, <2>2, <2>3
<1>5. n + 1 \in P
  <2> HIDE DEF P
  <2>1. \A k \in 1 .. n + 1 : k \in P
    BY <1>3, <1>4, Climb
  <2> QED BY <2>1
<1>6. (n + 1) - 1 = n /\ \A q \in Nat : ~(q + n <= r)
  OBVIOUS
<1> QED BY <1>1, <1>5, <1>6

\* A store changes one link.
Stored(h, g, n, f, v) ==
  /\ g \in Heap
  /\ \A m \in Node : /\ g.prev[m] = (IF f = "prev" /\ m = n THEN v ELSE h.prev[m])
                     /\ g.next[m] = (IF f = "next" /\ m = n THEN v ELSE h.next[m])

\* Apply is a store.
LEMMA ApplyIs ==
  ASSUME NEW h \in Heap, NEW n \in Node, NEW f \in {"prev", "next"},
         NEW v \in Node \cup {NULL}
  PROVE  Stored(h, Apply(h, <<n, f, v>>), n, f, v)
BY DEF Stored, Apply, Heap

\* Two stores are one after the other.
LEMMA RunTwo ==
  ASSUME NEW h, NEW s, NEW t
  PROVE  Run(h, <<s, t>>) = Apply(Apply(h, s), t)
<1> DEFINE is(a) == a = [n \in 0 .. 2 |-> IF n = 0 THEN h ELSE Apply(a[n - 1], <<s, t>>[n])]
           one == Apply(h, s)
           two == Apply(one, t)
           A == [n \in 0 .. 2 |-> IF n = 0 THEN h ELSE IF n = 1 THEN one ELSE two]
           B == [n \in 0 .. 2 |-> IF n = 0 THEN h ELSE Apply(A[n - 1], <<s, t>>[n])]
           F == CHOOSE a : is(a)
<1>1. ASSUME NEW n \in 0 .. 2 PROVE A[n] = B[n]
  <2>1. n \in {0, 1, 2}
    OBVIOUS
  <2> QED BY <2>1
<1>2. A = B
  BY <1>1
<1>3. is(A)
  BY <1>2
<1>4. Run(h, <<s, t>>) = F[2]
  BY DEF Run
<1>5. is(F)
  <2> HIDE DEF is, A
  <2> QED BY <1>3
<1>6. F[0] = h /\ F[1] = Apply(F[0], s) /\ F[2] = Apply(F[1], t)
  <2> HIDE DEF F
  <2> QED BY <1>5
<1> HIDE DEF F
<1> QED BY <1>4, <1>6

\* So are four.
LEMMA RunFour ==
  ASSUME NEW h, NEW s, NEW t, NEW u, NEW v
  PROVE  Run(h, <<s, t, u, v>>) = Apply(Apply(Apply(Apply(h, s), t), u), v)
<1> DEFINE is(a) == a = [n \in 0 .. 4 |-> IF n = 0 THEN h
                                          ELSE Apply(a[n - 1], <<s, t, u, v>>[n])]
           one == Apply(h, s)
           two == Apply(one, t)
           three == Apply(two, u)
           four == Apply(three, v)
           A == [n \in 0 .. 4 |-> IF n = 0 THEN h ELSE IF n = 1 THEN one
                                  ELSE IF n = 2 THEN two ELSE IF n = 3 THEN three ELSE four]
           B == [n \in 0 .. 4 |-> IF n = 0 THEN h ELSE Apply(A[n - 1], <<s, t, u, v>>[n])]
           F == CHOOSE a : is(a)
<1>1. ASSUME NEW n \in 0 .. 4 PROVE A[n] = B[n]
  <2>1. n \in {0, 1, 2, 3, 4}
    OBVIOUS
  <2> QED BY <2>1
<1>2. A = B
  BY <1>1
<1>3. is(A)
  BY <1>2
<1>4. Run(h, <<s, t, u, v>>) = F[4]
  BY DEF Run
<1>5. is(F)
  <2> HIDE DEF is, A
  <2> QED BY <1>3
<1>6. /\ F[0] = h /\ F[1] = Apply(F[0], s) /\ F[2] = Apply(F[1], t)
      /\ F[3] = Apply(F[2], u) /\ F[4] = Apply(F[3], v)
  <2> HIDE DEF F
  <2> QED BY <1>5
<1> HIDE DEF F
<1> QED BY <1>4, <1>6

-----------------------------------------------------------------------------
(* Walks.                                                                  *)

\* There are finitely many nodes.
LEMMA NodesFinite == IsFiniteSet(Node) /\ Rounds \in Nat
<1> DEFINE heads == {list_head(l) : l \in List}
           ends  == {list_end(l) : l \in List}
           head  == [l \in List |-> list_head(l)]
           tail  == [l \in List |-> list_end(l)]
<1>1. head \in Surjection(List, heads) /\ tail \in Surjection(List, ends)
  BY DEF Surjection
<1>2. IsFiniteSet(heads) /\ IsFiniteSet(ends)
  BY <1>1, FS_Surjection, FiniteAssumption
<1>3. IsFiniteSet(Elem \cup heads)
  BY <1>2, FS_Union, FiniteAssumption
<1>4. IsFiniteSet((Elem \cup heads) \cup ends)
  BY <1>2, <1>3, FS_Union
<1> QED BY <1>4, FS_CardinalityType DEF Node, Rounds

Distinct(s) == \A i, j \in 1 .. Len(s) : s[i] = s[j] => i = j

\* A sequence of different nodes is no longer than a loop can be.
LEMMA RoundsSuffice ==
  ASSUME NEW s \in Seq(Node), Distinct(s)
  PROVE  Len(s) <= Rounds
<1>1. Len(s) \in Nat /\ s \in [1 .. Len(s) -> Node]
  BY LenProperties
<1>2. s \in Injection(1 .. Len(s), Node)
  BY <1>1 DEF Distinct, Injection, IsInjective
<1>3. Cardinality(1 .. Len(s)) <= Cardinality(Node)
  BY <1>2, NodesFinite, FS_Injection
<1>4. Cardinality(1 .. Len(s)) = Len(s)
  BY <1>1, FS_Interval
<1> QED BY <1>3, <1>4 DEF Rounds

\* The links lead along s to `end'.
Follows(links, s, end) ==
  /\ s \in Seq(Node) /\ Len(s) >= 1 /\ Distinct(s) /\ s[Len(s)] = end
  /\ \A i \in 1 .. Len(s) - 1 : links[s[i]] = s[i + 1]

\* A walk meets what the links lead along.
LEMMA WalkFollows ==
  ASSUME NEW links, NEW s, NEW end, Follows(links, s, end)
  PROVE  WalkFrom(links, s[1], end) = s
<1> DEFINE body == [met \in Seq(Node \cup {NULL}) |->
                      IF Last(met) \in {NULL, end} THEN met
                      ELSE Append(met, links[Last(met)])]
           upto(k) == IF k < Len(s) THEN SubSeq(s, 1, k) ELSE s
<1>1. /\ s \in Seq(Node) /\ Len(s) \in Nat /\ Len(s) >= 1 /\ Len(s) <= Rounds /\ Rounds \in Nat
      /\ \A i \in 1 .. Len(s) : s[i] \in Node /\ s[i] # NULL
  BY LenProperties, ElementOfSeq, RoundsSuffice, NodesFinite, NodeAssumption DEF Follows
<1>2. ASSUME NEW k \in 1 .. Rounds PROVE body[upto(k)] = upto(k + 1)
  <2>1. CASE k < Len(s)
    <3>1. /\ upto(k) = SubSeq(s, 1, k) /\ k \in 1 .. Len(s) /\ k + 1 \in 1 .. Len(s)
          /\ k \in 1 .. Len(s) - 1
      BY <1>1, <2>1
    <3>2. upto(k + 1) = SubSeq(s, 1, k + 1)
      BY <1>1, <2>1, SubSeqFull
    <3>3. SubSeq(s, 1, k) \in Seq(Node) /\ Len(SubSeq(s, 1, k)) = k /\ SubSeq(s, 1, k)[k] = s[k]
      <4>1. \A i \in 1 .. k : s[i] \in Node
        BY <1>1, <3>1
      <4>2. /\ k \in Int /\ 1 \in Int /\ 1 <= k /\ k - 1 + 1 = k /\ 1 + k - 1 = k
            /\ k \in 1 .. k - 1 + 1
        OBVIOUS
      <4> QED BY <4>1, <4>2, SubSeqProperties
    <3>4. Last(SubSeq(s, 1, k)) = s[k]
      BY <3>3 DEF Last
    <3>5. s[k] # end
      <4>1. Len(s) \in 1 .. Len(s) /\ k # Len(s)
        BY <1>1, <2>1
      <4> QED BY <3>1, <4>1 DEF Follows, Distinct
    <3>6. SubSeq(s, 1, k) \in Seq(Node \cup {NULL})
      BY <3>3
    <3>7. body[SubSeq(s, 1, k)] = Append(SubSeq(s, 1, k), s[k + 1])
      BY <1>1, <3>1, <3>4, <3>5, <3>6 DEF Follows
    <3>8. Append(SubSeq(s, 1, k), s[k + 1]) = SubSeq(s, 1, k + 1)
      <4>1. SubSeq(s, 1, k + 1) = SubSeq(s, 1, (k + 1) - 1) \o <<s[k + 1]>>
        <5>1. 1 \in 1 .. Len(s) /\ k + 1 \in 1 .. Len(s)
          BY <1>1, <3>1
        <5> QED BY <1>1, <5>1, SubSeqRecursiveSecond
      <4>2. (k + 1) - 1 = k
        OBVIOUS
      <4> QED BY <1>1, <3>1, <3>3, <4>1, <4>2, AppendIsConcat
    <3> QED BY <3>1, <3>2, <3>7, <3>8
  <2>2. CASE ~(k < Len(s))
    <3>1. upto(k) = s /\ upto(k + 1) = s
      BY <1>1, <2>2
    <3>2. Last(s) = end /\ s \in Seq(Node \cup {NULL})
      BY <1>1 DEF Follows, Last
    <3> QED BY <3>1, <3>2
  <2> QED BY <2>1, <2>2
<1>3. upto(1) = <<s[1]>>
  <2>1. CASE Len(s) = 1
    <3>1. s = <<s[1]>>
      BY <1>1, <2>1
    <3> QED BY <2>1, <3>1
  <2>2. CASE Len(s) # 1
    <3>1. upto(1) = SubSeq(s, 1, 1)
      BY <1>1, <2>2
    <3>2. SubSeq(s, 1, 1) \in Seq(Node) /\ Len(SubSeq(s, 1, 1)) = 1 /\ SubSeq(s, 1, 1)[1] = s[1]
      <4>1. \A i \in 1 .. 1 : s[i] \in Node
        BY <1>1
      <4> QED BY <4>1, SubSeqProperties
    <3>3. ASSUME NEW t \in Seq(Node), Len(t) = 1 PROVE t = <<t[1]>>
      BY <3>3
    <3>4. SubSeq(s, 1, 1) = <<s[1]>>
      BY <3>2, <3>3
    <3> QED BY <3>1, <3>4
  <2> QED BY <2>1, <2>2
<1>4. PICK a : AreRounds(a, body, <<s[1]>>, Rounds)
               /\ Iterate(body, <<s[1]>>, Rounds) = a[Rounds]
  <2> HIDE DEF body
  <2> QED BY <1>1, IterateIs
<1> DEFINE P == {k \in 1 .. Rounds + 1 : a[k - 1] = upto(k)}
<1>5. 1 \in P
  <2> HIDE DEF upto, body
  <2> QED BY <1>1, <1>3, <1>4 DEF AreRounds
<1>6. ASSUME NEW k \in 1 .. Rounds + 1, k \in P, k + 1 <= Rounds + 1
      PROVE  k + 1 \in P
  <2> HIDE DEF upto, body
  <2>1. k \in 0 .. Rounds /\ k # 0 /\ (k + 1) - 1 = k /\ k \in 1 .. Rounds
    BY <1>1, <1>6
  <2>2. a[k] = body[a[k - 1]]
    BY <1>4, <2>1 DEF AreRounds
  <2> QED BY <1>2, <1>6, <2>1, <2>2
<1>7. Rounds + 1 \in P
  <2> HIDE DEF P
  <2>1. \A k \in 1 .. Rounds + 1 : k \in P
    <3>1. Rounds + 1 \in Nat
      BY <1>1
    <3> QED BY <3>1, <1>5, <1>6, Climb
  <2> QED BY <1>1, <2>1
<1>8. a[Rounds] = s
  <2>1. (Rounds + 1) - 1 = Rounds /\ ~(Rounds + 1 < Len(s))
    BY <1>1
  <2> QED BY <1>7, <2>1
<1> HIDE DEF upto
<1> QED BY <1>4, <1>8 DEF WalkFrom

-----------------------------------------------------------------------------
(* Lists as chains of nodes.                                               *)

\* The ends of the lists are nodes of their own.
LEMMA NodesApart ==
  /\ \A l \in List : /\ list_head(l) \in Node /\ list_end(l) \in Node
                     /\ list_head(l) \notin Elem /\ list_end(l) \notin Elem
  /\ \A l, m \in List : /\ list_head(l) # list_end(m)
                        /\ list_head(l) = list_head(m) => l = m
                        /\ list_end(l) = list_end(m) => l = m
  /\ Elem \subseteq Node /\ NULL \notin Node
BY NodeAssumption DEF Node, list_head, list_end

\* A list with its ends, for every list: no node is in two places.
IsChains(c) ==
  /\ c \in [List -> Seq(Node)]
  /\ \A l \in List : /\ Len(c[l]) >= 2 /\ c[l][1] = list_head(l) /\ c[l][Len(c[l])] = list_end(l)
                     /\ \A i \in 2 .. Len(c[l]) - 1 : c[l][i] \in Elem
  /\ \A l, m \in List : \A i \in 1 .. Len(c[l]), j \in 1 .. Len(c[m]) :
       c[l][i] = c[m][j] => l = m /\ i = j

\* The links of a heap lead along the chains, forward and backward.
Nexts(h, c) ==
  \A l \in List : /\ h.next[list_end(l)] = NULL
                  /\ \A i \in 1 .. Len(c[l]) - 1 : h.next[c[l][i]] = c[l][i + 1]
Prevs(h, c) ==
  \A l \in List : /\ h.prev[list_head(l)] = NULL
                  /\ \A i \in 1 .. Len(c[l]) - 1 : h.prev[c[l][i + 1]] = c[l][i]

Shape(h, c) == h \in Heap /\ IsChains(c) /\ Nexts(h, c) /\ Prevs(h, c)

\* What is needed of the chain of one list.
LEMMA ChainOf ==
  ASSUME NEW c, IsChains(c), NEW l \in List
  PROVE  /\ c[l] \in Seq(Node) /\ Len(c[l]) \in Nat /\ Len(c[l]) >= 2 /\ Distinct(c[l])
         /\ \A i \in 1 .. Len(c[l]) : c[l][i] \in Node
         /\ c[l][1] = list_head(l) /\ c[l][Len(c[l])] = list_end(l)
         /\ \A i \in 2 .. Len(c[l]) - 1 : c[l][i] \in Elem
<1>1. c[l] \in Seq(Node)
  BY DEF IsChains
<1>2. Len(c[l]) \in Nat /\ \A i \in 1 .. Len(c[l]) : c[l][i] \in Node
  BY <1>1, LenProperties, ElementOfSeq
<1> QED BY <1>1, <1>2 DEF IsChains, Distinct

\* A walk over a list finds its chain.
LEMMA WalkIs ==
  ASSUME NEW h, NEW c, IsChains(c), Nexts(h, c), NEW l \in List
  PROVE  /\ Walk(h, l) = SubSeq(c[l], 2, Len(c[l]))
         /\ Forward(h, l) = SubSeq(c[l], 2, Len(c[l]) - 1)
<1> DEFINE s == c[l]
           w == SubSeq(s, 2, Len(s))
<1>1. /\ s \in Seq(Node) /\ Len(s) \in Nat /\ Len(s) >= 2 /\ Distinct(s)
      /\ (\A i \in 1 .. Len(s) : s[i] \in Node)
      /\ s[1] = list_head(l) /\ s[Len(s)] = list_end(l)
  BY ChainOf
<1>2. \A i \in 1 .. Len(s) - 1 : h.next[s[i]] = s[i + 1]
  BY DEF Nexts
<1> HIDE DEF s
<1>3. w \in Seq(Node) /\ Len(w) = Len(s) - 1 /\ \A i \in 1 .. Len(s) - 1 : w[i] = s[i + 1]
  <2>1. \A i \in 2 .. Len(s) : s[i] \in Node
    BY <1>1
  <2>2. /\ w \in Seq(Node) /\ Len(w) = (IF 2 <= Len(s) THEN Len(s) - 2 + 1 ELSE 0)
        /\ \A i \in 1 .. Len(s) - 2 + 1 : w[i] = s[2 + i - 1]
    BY <1>1, <2>1, SubSeqProperties
  <2>3. Len(s) - 2 + 1 = Len(s) - 1 /\ \A i \in 1 .. Len(s) - 1 : 2 + i - 1 = i + 1
    BY <1>1
  <2> QED BY <1>1, <2>2, <2>3
<1> HIDE DEF w
<1>4. Follows(h.next, w, list_end(l))
  <2>1. Distinct(w)
    <3> SUFFICES ASSUME NEW i \in 1 .. Len(w), NEW j \in 1 .. Len(w), w[i] = w[j]
                 PROVE  i = j
      BY DEF Distinct
    <3>1. i + 1 \in 1 .. Len(s) /\ j + 1 \in 1 .. Len(s) /\ s[i + 1] = s[j + 1]
      BY <1>1, <1>3
    <3>2. i + 1 = j + 1
      BY <1>1, <3>1 DEF Distinct
    <3> QED BY <1>1, <1>3, <3>2
  <2>2. Len(w) >= 1 /\ w[Len(w)] = list_end(l)
    BY <1>1, <1>3
  <2>3. ASSUME NEW i \in 1 .. Len(w) - 1 PROVE h.next[w[i]] = w[i + 1]
    <3>1. i \in 1 .. Len(s) - 1 /\ i + 1 \in 1 .. Len(s) - 1
      BY <1>1, <1>3
    <3> QED BY <1>2, <1>3, <3>1
  <2> QED BY <1>3, <2>1, <2>2, <2>3 DEF Follows
<1>5. list_begin(h, l) = w[1]
  <2>1. 1 \in 1 .. Len(s) - 1 /\ 1 + 1 = 2
    BY <1>1
  <2> QED BY <1>1, <1>2, <1>3, <2>1 DEF list_begin
<1>6. Walk(h, l) = w
  BY <1>4, <1>5, WalkFollows DEF Walk
<1>7. Forward(h, l) = SubSeq(s, 2, Len(s) - 1)
  <2>1. Forward(h, l) = SubSeq(w, 1, Len(s) - 2)
    <3>1. Forward(h, l) = SubSeq(w, 1, Len(w) - 1)
      BY <1>6 DEF Forward, Front
    <3>2. Len(w) - 1 = Len(s) - 2
      BY <1>1, <1>3
    <3> QED BY <3>1, <3>2
  <2>2. CASE Len(s) = 2
    BY <1>1, <2>1, <2>2, SubSeqEmpty
  <2>3. CASE Len(s) # 2
    <3>1. 2 \in 1 .. Len(s) /\ Len(s) \in 1 .. Len(s) /\ 1 \in 1 .. Len(s) - 2 + 1
          /\ Len(s) - 2 \in 1 .. Len(s) - 2 + 1
          /\ 2 + 1 - 1 = 2 /\ 2 + (Len(s) - 2) - 1 = Len(s) - 1
      <4>1. ASSUME NEW n \in Nat, n >= 2, n # 2
            PROVE  /\ 2 \in 1 .. n /\ n \in 1 .. n /\ 1 \in 1 .. n - 2 + 1
                   /\ n - 2 \in 1 .. n - 2 + 1
                   /\ 2 + 1 - 1 = 2 /\ 2 + (n - 2) - 1 = n - 1
        BY <4>1
      <4> QED BY <1>1, <2>3, <4>1
    <3>2. SubSeq(SubSeq(s, 2, Len(s)), 1, Len(s) - 2)
            = SubSeq(s, 2 + 1 - 1, 2 + (Len(s) - 2) - 1)
      BY <1>1, <3>1, SubSeqOfSubSeq
    <3> QED BY <2>1, <3>1, <3>2 DEF w
  <2> QED BY <2>2, <2>3
<1> QED BY <1>6, <1>7 DEF w, s

\* The places of what is walked over.
LEMMA InsideOf ==
  ASSUME NEW c, IsChains(c), NEW l \in List
  PROVE  LET f == SubSeq(c[l], 2, Len(c[l]) - 1)
         IN  /\ f \in Seq(Elem) /\ Len(f) = Len(c[l]) - 2
             /\ \A i \in 1 .. Len(c[l]) - 2 : f[i] = c[l][i + 1]
<1> DEFINE s == c[l]
           f == SubSeq(s, 2, Len(s) - 1)
<1>1. Len(s) \in Nat /\ Len(s) >= 2 /\ \A i \in 2 .. Len(s) - 1 : s[i] \in Elem
  BY ChainOf
<1> HIDE DEF s
<1>2. /\ f \in Seq(Elem) /\ Len(f) = (IF 2 <= Len(s) - 1 THEN (Len(s) - 1) - 2 + 1 ELSE 0)
      /\ \A i \in 1 .. (Len(s) - 1) - 2 + 1 : f[i] = s[2 + i - 1]
  BY <1>1, SubSeqProperties
<1>3. /\ (Len(s) - 1) - 2 + 1 = Len(s) - 2
      /\ (IF 2 <= Len(s) - 1 THEN (Len(s) - 1) - 2 + 1 ELSE 0) = Len(s) - 2
      /\ \A i \in 1 .. Len(s) - 2 : 2 + i - 1 = i + 1
  <2>1. ASSUME NEW n \in Nat, n >= 2
        PROVE  /\ (n - 1) - 2 + 1 = n - 2
               /\ (IF 2 <= n - 1 THEN (n - 1) - 2 + 1 ELSE 0) = n - 2
               /\ \A i \in 1 .. n - 2 : 2 + i - 1 = i + 1
    <3>1. (n - 1) - 2 + 1 = n - 2 /\ \A i \in 1 .. n - 2 : 2 + i - 1 = i + 1
      BY <2>1
    <3>2. ~(2 <= n - 1) => n - 2 = 0
      BY <2>1
    <3> QED BY <3>1, <3>2
  <2> QED BY <1>1, <2>1
<1> HIDE DEF f
<1>4. f \in Seq(Elem) /\ Len(f) = Len(s) - 2 /\ \A i \in 1 .. Len(s) - 2 : f[i] = s[i + 1]
  BY <1>1, <1>2, <1>3
<1> QED BY <1>4 DEF f, s

\* The elements of a list are the inside of its chain.
LEMMA InsideSet ==
  ASSUME NEW h, NEW c, IsChains(c), Nexts(h, c), NEW l \in List
  PROVE  ToSet(Forward(h, l)) = {c[l][n] : n \in 2 .. Len(c[l]) - 1}
<1> DEFINE s == c[l]
           N == Len(s)
           inside == {s[n] : n \in 2 .. N - 1}
           f == SubSeq(s, 2, N - 1)
<1>1. N \in Nat
  BY ChainOf
<1>2. Forward(h, l) = f
  BY WalkIs
<1>3. f \in Seq(Elem) /\ Len(f) = N - 2 /\ \A n \in 1 .. N - 2 : f[n] = s[n + 1]
  BY InsideOf
<1> HIDE DEF f, s, N
<1>4. DOMAIN f = 1 .. N - 2
  BY <1>1, <1>3
<1>5. ASSUME NEW n \in 1 .. N - 2 PROVE f[n] \in inside
  <2>1. n + 1 \in 2 .. N - 1
    BY <1>1
  <2> QED BY <1>3, <2>1
<1>6. ASSUME NEW n \in 2 .. N - 1 PROVE \E x \in 1 .. N - 2 : f[x] = s[n]
  <2>1. n - 1 \in 1 .. N - 2 /\ (n - 1) + 1 = n
    BY <1>1
  <2>2. f[n - 1] = s[(n - 1) + 1]
    BY <1>3, <2>1
  <2> QED BY <2>1, <2>2
<1>7. ToSet(f) = {f[x] : x \in 1 .. N - 2}
  BY <1>4 DEF ToSet
<1>8. ToSet(f) \subseteq inside
  BY <1>5, <1>7
<1>9. inside \subseteq ToSet(f)
  <2> SUFFICES ASSUME NEW n \in 2 .. N - 1 PROVE s[n] \in ToSet(f)
    OBVIOUS
  <2> QED BY <1>6, <1>7
<1> HIDE DEF inside
<1> QED BY <1>2, <1>8, <1>9 DEF inside, s, N

\* The way back meets the same elements.
LEMMA WalkBack ==
  ASSUME NEW h, NEW c, IsChains(c), Nexts(h, c), Prevs(h, c), NEW l \in List
  PROVE  Backward(h, l) = Reverse(Forward(h, l))
<1> DEFINE s == c[l]
           r == [i \in 1 .. Len(s) - 1 |-> s[Len(s) - i]]
           f == SubSeq(s, 2, Len(s) - 1)
<1>1. /\ s \in Seq(Node) /\ Len(s) \in Nat /\ Len(s) >= 2 /\ Distinct(s)
      /\ (\A i \in 1 .. Len(s) : s[i] \in Node)
      /\ s[1] = list_head(l) /\ s[Len(s)] = list_end(l)
  BY ChainOf
<1>2. \A i \in 1 .. Len(s) - 1 : h.prev[s[i + 1]] = s[i]
  BY DEF Prevs
<1>3. f \in Seq(Elem) /\ Len(f) = Len(s) - 2 /\ \A i \in 1 .. Len(s) - 2 : f[i] = s[i + 1]
  BY InsideOf
<1>4. Forward(h, l) = f
  BY WalkIs
<1> HIDE DEF s, f
<1>5. r \in Seq(Node) /\ Len(r) = Len(s) - 1 /\ \A i \in 1 .. Len(s) - 1 : r[i] = s[Len(s) - i]
  <2>1. \A i \in 1 .. Len(s) - 1 : s[Len(s) - i] \in Node
    BY <1>1
  <2>2. Len(s) - 1 \in Nat
    BY <1>1
  <2> QED BY <2>1, <2>2
<1> HIDE DEF r
<1>6. Follows(h.prev, r, list_head(l))
  <2>1. Distinct(r)
    <3> SUFFICES ASSUME NEW i \in 1 .. Len(r), NEW j \in 1 .. Len(r), r[i] = r[j]
                 PROVE  i = j
      BY DEF Distinct
    <3>1. /\ Len(s) - i \in 1 .. Len(s) /\ Len(s) - j \in 1 .. Len(s)
          /\ s[Len(s) - i] = s[Len(s) - j]
      BY <1>1, <1>5
    <3>2. Len(s) - i = Len(s) - j
      BY <1>1, <3>1 DEF Distinct
    <3> QED BY <1>1, <1>5, <3>2
  <2>2. Len(r) >= 1 /\ r[Len(r)] = list_head(l)
    <3>1. Len(s) - 1 \in 1 .. Len(s) - 1 /\ Len(s) - (Len(s) - 1) = 1 /\ Len(s) - 1 >= 1
      BY <1>1
    <3> QED BY <1>1, <1>5, <3>1
  <2>3. ASSUME NEW i \in 1 .. Len(r) - 1 PROVE h.prev[r[i]] = r[i + 1]
    <3>1. /\ i \in 1 .. Len(s) - 1 /\ i + 1 \in 1 .. Len(s) - 1
          /\ Len(s) - (i + 1) \in 1 .. Len(s) - 1
          /\ (Len(s) - (i + 1)) + 1 = Len(s) - i
      BY <1>1, <1>5
    <3>2. h.prev[s[(Len(s) - (i + 1)) + 1]] = s[Len(s) - (i + 1)]
      BY <1>2, <3>1
    <3> QED BY <1>5, <3>1, <3>2
  <2> QED BY <1>5, <2>1, <2>2, <2>3 DEF Follows
<1>7. h.prev[list_end(l)] = r[1]
  <2>1. 1 \in 1 .. Len(s) - 1 /\ Len(s) - 1 \in 1 .. Len(s) - 1 /\ (Len(s) - 1) + 1 = Len(s)
    BY <1>1
  <2> QED BY <1>1, <1>2, <1>5, <2>1
<1>8. Backward(h, l) = SubSeq(r, 1, Len(s) - 2)
  <2>1. Backward(h, l) = SubSeq(r, 1, Len(r) - 1)
    BY <1>6, <1>7, WalkFollows DEF Backward, Front
  <2>2. Len(r) - 1 = Len(s) - 2
    BY <1>1, <1>5
  <2> QED BY <2>1, <2>2
<1> DEFINE b == SubSeq(r, 1, Len(s) - 2)
<1>9. b \in Seq(Node) /\ Len(b) = Len(s) - 2 /\ \A i \in 1 .. Len(s) - 2 : b[i] = r[i]
  <2> DEFINE n == Len(s) - 2
  <2>1. n \in Nat /\ n <= Len(r) /\ Len(r) \in Nat
    BY <1>1, <1>5
  <2> HIDE DEF n
  <2>2. \A i \in 1 .. n : r[i] \in Node
    <3>1. \A i \in 1 .. n : i \in 1 .. Len(r)
      BY <2>1
    <3> QED BY <1>5, <3>1, ElementOfSeq
  <2>3. /\ SubSeq(r, 1, n) \in Seq(Node)
        /\ Len(SubSeq(r, 1, n)) = IF 1 <= n THEN n - 1 + 1 ELSE 0
        /\ \A i \in 1 .. n - 1 + 1 : SubSeq(r, 1, n)[i] = r[1 + i - 1]
    BY <2>1, <2>2, SubSeqProperties
  <2>4. /\ n - 1 + 1 = n /\ \A i \in 1 .. n : 1 + i - 1 = i
    BY <2>1
  <2>5. ~(1 <= n) => n = 0
    BY <2>1
  <2> QED BY <2>3, <2>4, <2>5 DEF n
<1> DEFINE v == Reverse(f)
<1>10. v \in Seq(Node) /\ Len(v) = Len(s) - 2 /\ \A i \in 1 .. Len(s) - 2 : v[i] = r[i]
  <2>1. v = [i \in 1 .. Len(s) - 2 |-> f[((Len(s) - 2) - i) + 1]]
    BY <1>3 DEF Reverse
  <2>2. ASSUME NEW i \in 1 .. Len(s) - 2
        PROVE  f[((Len(s) - 2) - i) + 1] = r[i] /\ r[i] \in Node
    <3>1. /\ ((Len(s) - 2) - i) + 1 \in 1 .. Len(s) - 2
          /\ (((Len(s) - 2) - i) + 1) + 1 = Len(s) - i
          /\ i \in 1 .. Len(s) - 1 /\ Len(s) - i \in 1 .. Len(s)
      BY <1>1
    <3> QED BY <1>1, <1>3, <1>5, <3>1
  <2>3. Len(s) - 2 \in Nat
    BY <1>1
  <2> HIDE DEF v
  <2> QED BY <2>1, <2>2, <2>3
<1>11. b = v
  <2> HIDE DEF b, v
  <2> QED BY <1>9, <1>10, SeqEqual
<1> QED BY <1>4, <1>8, <1>11

-----------------------------------------------------------------------------
(* Taking a part out of a list, and putting one in.                        *)

CutOut(s, i, j) ==
  [n \in 1 .. Len(s) - (j - i + 1) |-> IF n < i THEN s[n] ELSE s[n + (j - i + 1)]]
Part(s, i, j) == [n \in 1 .. j - i + 1 |-> s[n + i - 1]]
PutIn(s, k, p) ==
  [n \in 1 .. Len(s) + Len(p) |-> IF n < k THEN s[n]
                                  ELSE IF n < k + Len(p) THEN p[n - k + 1]
                                  ELSE s[n - Len(p)]]

\* A part of a list that is in none of the chains, with its inner links.
Loose(h, c, p) ==
  /\ p \in Seq(Elem) /\ Len(p) >= 1 /\ Distinct(p)
  /\ \A n \in 1 .. Len(p), l \in List : \A i \in 1 .. Len(c[l]) : p[n] # c[l][i]
  /\ \A n \in 1 .. Len(p) - 1 : h.next[p[n]] = p[n + 1] /\ h.prev[p[n + 1]] = p[n]

\* What remains when the places i to j are cut out, and where it comes from.
LEMMA CutIs ==
  ASSUME NEW s \in Seq(Node), NEW i \in 2 .. Len(s) - 1, NEW j \in i .. Len(s) - 1
  PROVE  LET k == j - i + 1
             d == CutOut(s, i, j)
         IN  /\ d \in Seq(Node) /\ Len(d) = Len(s) - k /\ Len(d) >= 2 /\ k \in Nat /\ k >= 1
             /\ \A n \in 1 .. Len(d) :
                  \/ n < i /\ d[n] = s[n] /\ n \in 1 .. Len(s)
                  \/ n >= i /\ d[n] = s[n + k] /\ n + k \in 1 .. Len(s) /\ n + k > j
<1> DEFINE k == j - i + 1
           d == CutOut(s, i, j)
<1>1. Len(s) \in Nat /\ \A n \in 1 .. Len(s) : s[n] \in Node
  BY LenProperties, ElementOfSeq
<1>2. k \in Nat /\ k >= 1 /\ Len(s) - k \in Nat /\ Len(s) - k >= 2 /\ j = i + k - 1
  BY <1>1
<1>3. d = [n \in 1 .. Len(s) - k |-> IF n < i THEN s[n] ELSE s[n + k]]
  BY DEF CutOut
<1> HIDE DEF k, d
<1>4. ASSUME NEW n \in 1 .. Len(s) - k
      PROVE  /\ d[n] = IF n < i THEN s[n] ELSE s[n + k]
             /\ n < i => n \in 1 .. Len(s)
             /\ n >= i => n + k \in 1 .. Len(s) /\ n + k > j
  BY <1>1, <1>2, <1>3
<1>5. d \in Seq(Node) /\ Len(d) = Len(s) - k
  <2>1. \A n \in 1 .. Len(s) - k : (IF n < i THEN s[n] ELSE s[n + k]) \in Node
    BY <1>1, <1>2, <1>4
  <2> QED BY <1>2, <1>3, <2>1
<1>6. ASSUME NEW n \in 1 .. Len(d)
      PROVE  \/ n < i /\ d[n] = s[n] /\ n \in 1 .. Len(s)
             \/ n >= i /\ d[n] = s[n + k] /\ n + k \in 1 .. Len(s) /\ n + k > j
  BY <1>2, <1>4, <1>5
<1> QED BY <1>2, <1>5, <1>6 DEF d, k

\* The rest is chains.
LEMMA CutChains ==
  ASSUME NEW c, IsChains(c), NEW l \in List,
         NEW i \in 2 .. Len(c[l]) - 1, NEW j \in i .. Len(c[l]) - 1
  PROVE  IsChains([c EXCEPT ![l] = CutOut(@, i, j)])
<1> DEFINE k == j - i + 1
           s == c[l]
           t == CutOut(s, i, j)
           d == [c EXCEPT ![l] = CutOut(@, i, j)]
<1>1. /\ s \in Seq(Node) /\ Len(s) \in Nat /\ Len(s) >= 2 /\ Distinct(s)
      /\ s[1] = list_head(l) /\ s[Len(s)] = list_end(l)
      /\ \A n \in 2 .. Len(s) - 1 : s[n] \in Elem
  BY ChainOf
<1>2. c \in [List -> Seq(Node)]
  BY DEF IsChains
<1>3. d[l] = t /\ \A m \in List : m # l => d[m] = c[m]
  BY <1>2
<1>4. /\ t \in Seq(Node) /\ Len(t) = Len(s) - k /\ Len(t) >= 2 /\ k \in Nat /\ k >= 1
      /\ \A n \in 1 .. Len(t) :
           \/ n < i /\ t[n] = s[n] /\ n \in 1 .. Len(s)
           \/ n >= i /\ t[n] = s[n + k] /\ n + k \in 1 .. Len(s) /\ n + k > j
  <2> HIDE DEF s
  <2>1. s \in Seq(Node) /\ i \in 2 .. Len(s) - 1 /\ j \in i .. Len(s) - 1
    BY <1>1 DEF s
  <2> QED BY <2>1, CutIs
<1>5. d \in [List -> Seq(Node)]
  <2>1. d = [c EXCEPT ![l] = t]
    OBVIOUS
  <2> HIDE DEF t, d
  <2> QED BY <1>2, <1>4, <2>1
<1>6. i \in Nat /\ i >= 2 /\ i <= j /\ j <= Len(s) - 1 /\ j \in Nat
  BY <1>1
<1> HIDE DEF k, s, t, d
<1>7. t[1] = list_head(l) /\ t[Len(t)] = list_end(l)
  <2>1. 1 \in 1 .. Len(t) /\ Len(t) \in 1 .. Len(t) /\ ~(1 >= i)
    BY <1>1, <1>4, <1>6
  <2>2. t[1] = s[1]
    BY <1>4, <2>1
  <2>3. ~(Len(t) < i) /\ Len(t) + k = Len(s)
    BY <1>1, <1>4, <1>6 DEF k
  <2> QED BY <1>1, <1>4, <2>1, <2>2, <2>3
<1>8. ASSUME NEW n \in 2 .. Len(t) - 1 PROVE t[n] \in Elem
  <2>1. n \in 1 .. Len(t)
    BY <1>1, <1>4
  <2>2. CASE n < i
    <3>1. n \in 2 .. Len(s) - 1
      BY <1>1, <1>4, <2>2
    <3> QED BY <1>1, <1>4, <2>1, <2>2, <3>1
  <2>3. CASE ~(n < i)
    <3>1. n + k \in 2 .. Len(s) - 1
      BY <1>1, <1>4, <1>6, <2>3
    <3> QED BY <1>1, <1>4, <2>1, <2>3, <3>1
  <2> QED BY <2>2, <2>3
<1>9. ASSUME NEW m \in List, NEW n \in 1 .. Len(t), NEW q \in 1 .. Len(c[m]), m # l
      PROVE  t[n] # c[m][q]
  <2>1. PICK p \in 1 .. Len(s) : t[n] = s[p]
    BY <1>4
  <2> QED BY <1>9, <2>1 DEF IsChains, s
<1>10. ASSUME NEW n \in 1 .. Len(t), NEW q \in 1 .. Len(t), t[n] = t[q]
       PROVE  n = q
  <2>1. CASE n < i /\ q < i
    BY <1>1, <1>4, <1>6, <1>10, <2>1 DEF Distinct
  <2>2. CASE n >= i /\ q >= i
    <3>1. n + k = q + k
      BY <1>1, <1>4, <1>6, <1>10, <2>2 DEF Distinct
    <3> QED BY <1>4, <3>1
  <2>3. CASE n < i /\ q >= i
    <3>1. n = q + k /\ q + k > j
      BY <1>1, <1>4, <1>6, <1>10, <2>3 DEF Distinct
    <3> QED BY <1>4, <1>6, <2>3, <3>1
  <2>4. CASE n >= i /\ q < i
    <3>1. n + k = q /\ n + k > j
      BY <1>1, <1>4, <1>6, <1>10, <2>4 DEF Distinct
    <3> QED BY <1>4, <1>6, <2>4, <3>1
  <2> QED BY <1>4, <1>6, <2>1, <2>2, <2>3, <2>4
<1>11. ASSUME NEW a \in List, NEW b \in List, NEW n \in 1 .. Len(d[a]), NEW q \in 1 .. Len(d[b]),
              d[a][n] = d[b][q]
       PROVE  a = b /\ n = q
  <2>1. CASE a = l /\ b = l
    BY <1>3, <1>10, <1>11, <2>1
  <2>2. CASE a = l /\ b # l
    BY <1>3, <1>9, <1>11, <2>2
  <2>3. CASE a # l /\ b = l
    BY <1>3, <1>9, <1>11, <2>3
  <2>4. CASE a # l /\ b # l
    BY <1>3, <1>11, <2>4 DEF IsChains
  <2> QED BY <2>1, <2>2, <2>3, <2>4
<1>12. ASSUME NEW m \in List
       PROVE  /\ Len(d[m]) >= 2 /\ d[m][1] = list_head(m) /\ d[m][Len(d[m])] = list_end(m)
              /\ \A n \in 2 .. Len(d[m]) - 1 : d[m][n] \in Elem
  <2>1. CASE m = l
    BY <1>3, <1>4, <1>7, <1>8, <2>1
  <2>2. CASE m # l
    BY <1>3, <2>2 DEF IsChains
  <2> QED BY <2>1, <2>2
<1>13. IsChains(d)
  BY <1>5, <1>11, <1>12 DEF IsChains
<1> QED BY <1>13 DEF d

\* The links after the two stores that close the gap.
CutLinks(h, g, s, i, j) ==
  /\ g \in Heap
  /\ \A n \in Node : /\ g.next[n] = (IF n = s[i - 1] THEN s[j + 1] ELSE h.next[n])
                     /\ g.prev[n] = (IF n = s[j + 1] THEN s[i - 1] ELSE h.prev[n])

\* A part taken out leaves lists, and is whole itself.
LEMMA CutKeeps ==
  ASSUME NEW h, NEW g, NEW c, Shape(h, c), NEW l \in List,
         NEW i \in 2 .. Len(c[l]) - 1, NEW j \in i .. Len(c[l]) - 1, CutLinks(h, g, c[l], i, j)
  PROVE  LET d == [c EXCEPT ![l] = CutOut(@, i, j)]
         IN  Shape(g, d) /\ Loose(g, d, Part(c[l], i, j))
<1> DEFINE k == j - i + 1
           s == c[l]
           t == CutOut(s, i, j)
           p == Part(s, i, j)
           d == [c EXCEPT ![l] = CutOut(@, i, j)]
<1>1. /\ s \in Seq(Node) /\ Len(s) \in Nat /\ Len(s) >= 2 /\ Distinct(s)
      /\ s[1] = list_head(l) /\ s[Len(s)] = list_end(l)
      /\ (\A n \in 2 .. Len(s) - 1 : s[n] \in Elem)
      /\ \A n \in 1 .. Len(s) : s[n] \in Node
  BY ChainOf DEF Shape
<1>2. c \in [List -> Seq(Node)] /\ IsChains(c) /\ IsChains(d)
  BY CutChains DEF Shape, IsChains
<1>3. d[l] = t /\ \A m \in List : m # l => d[m] = c[m]
  BY <1>2
<1>4. /\ t \in Seq(Node) /\ Len(t) = Len(s) - k /\ Len(t) >= 2 /\ k \in Nat /\ k >= 1
      /\ \A n \in 1 .. Len(t) :
           \/ n < i /\ t[n] = s[n] /\ n \in 1 .. Len(s)
           \/ n >= i /\ t[n] = s[n + k] /\ n + k \in 1 .. Len(s) /\ n + k > j
  <2> HIDE DEF s
  <2>1. s \in Seq(Node) /\ i \in 2 .. Len(s) - 1 /\ j \in i .. Len(s) - 1
    BY <1>1 DEF s
  <2> QED BY <2>1, CutIs
<1>5. i \in Nat /\ i >= 2 /\ i <= j /\ j <= Len(s) - 1 /\ j \in Nat /\ j + 1 = i + k
  BY <1>1
<1>6. /\ g \in Heap
      /\ \A n \in Node : /\ g.next[n] = (IF n = s[i - 1] THEN s[j + 1] ELSE h.next[n])
                         /\ g.prev[n] = (IF n = s[j + 1] THEN s[i - 1] ELSE h.prev[n])
  BY DEF CutLinks
<1>7. \A m \in List : /\ h.next[list_end(m)] = NULL /\ h.prev[list_head(m)] = NULL
                      /\ \A n \in 1 .. Len(c[m]) - 1 : /\ h.next[c[m][n]] = c[m][n + 1]
                                                       /\ h.prev[c[m][n + 1]] = c[m][n]
  BY DEF Shape, Nexts, Prevs
<1>8. p \in Seq(Elem) /\ Len(p) = k /\ \A n \in 1 .. k : p[n] = s[n + i - 1]
  <2>1. p = [n \in 1 .. k |-> s[n + i - 1]]
    BY DEF Part
  <2>2. ASSUME NEW a \in Nat, NEW b \in Nat, NEW m \in Nat, NEW e \in Nat,
               a >= 2, b + 1 = a + m, b <= e - 1
        PROVE  \A n \in 1 .. m : n + a - 1 \in 2 .. e - 1
    BY <2>2
  <2> HIDE DEF p, s, k
  <2>3. \A n \in 1 .. k : n + i - 1 \in 2 .. Len(s) - 1
    <3>1. Len(s) \in Nat /\ k \in Nat
      BY <1>1, <1>4
    <3> QED BY <1>5, <2>2, <3>1
  <2>4. \A n \in 1 .. k : s[n + i - 1] \in Elem
    BY <1>1, <2>3
  <2> QED BY <1>4, <2>1, <2>4
<1> HIDE DEF k, s, t, d, p
<1>9. i - 1 \in 1 .. Len(s) /\ j + 1 \in 1 .. Len(s)
  BY <1>1, <1>5
<1>10. ASSUME NEW m \in List
       PROVE  /\ g.next[list_end(m)] = NULL /\ g.prev[list_head(m)] = NULL
              /\ \A n \in 1 .. Len(d[m]) - 1 : /\ g.next[d[m][n]] = d[m][n + 1]
                                               /\ g.prev[d[m][n + 1]] = d[m][n]
  <2>1. list_end(m) \in Node /\ list_head(m) \in Node
    BY NodesApart
  <2>2. list_end(m) # s[i - 1] /\ list_head(m) # s[j + 1]
    <3>1. i - 1 # Len(s) /\ j + 1 # 1
      BY <1>1, <1>5
    <3>2. /\ list_end(m) = c[m][Len(c[m])] /\ list_head(m) = c[m][1]
          /\ Len(c[m]) \in 1 .. Len(c[m]) /\ 1 \in 1 .. Len(c[m])
      <4>1. Len(c[m]) \in Nat /\ Len(c[m]) >= 2
        BY <1>2, ChainOf
      <4> QED BY <1>2, <4>1, ChainOf
    <3> QED BY <1>2, <1>9, <3>1, <3>2 DEF IsChains, s
  <2>3. ASSUME NEW n \in 1 .. Len(d[m]) - 1, m # l
        PROVE  g.next[d[m][n]] = d[m][n + 1] /\ g.prev[d[m][n + 1]] = d[m][n]
    <3>1. d[m] = c[m] /\ Len(c[m]) \in Nat
      BY <1>2, <1>3, <2>3, ChainOf
    <3>2. n \in 1 .. Len(c[m]) /\ n + 1 \in 1 .. Len(c[m]) /\ n \in 1 .. Len(c[m]) - 1
      BY <2>3, <3>1
    <3>3. c[m][n] # s[i - 1] /\ c[m][n + 1] # s[j + 1]
      BY <1>2, <1>9, <2>3, <3>2 DEF IsChains, s
    <3>4. c[m][n] \in Node /\ c[m][n + 1] \in Node
      BY <1>2, <3>2, ChainOf
    <3>5. h.next[c[m][n]] = c[m][n + 1] /\ h.prev[c[m][n + 1]] = c[m][n]
      BY <1>7, <3>2
    <3> QED BY <1>6, <3>1, <3>3, <3>4, <3>5
  <2>4. ASSUME NEW n \in 1 .. Len(t) - 1
        PROVE  g.next[t[n]] = t[n + 1] /\ g.prev[t[n + 1]] = t[n]
    <3>1. n \in 1 .. Len(t) /\ n + 1 \in 1 .. Len(t) /\ Len(t) \in Nat
      BY <1>1, <1>4
    <3>2. /\ \/ n < i /\ t[n] = s[n] /\ n \in 1 .. Len(s)
             \/ n >= i /\ t[n] = s[n + k] /\ n + k \in 1 .. Len(s) /\ n + k > j
          /\ \/ n + 1 < i /\ t[n + 1] = s[n + 1] /\ n + 1 \in 1 .. Len(s)
             \/ n + 1 >= i /\ t[n + 1] = s[(n + 1) + k] /\ (n + 1) + k \in 1 .. Len(s)
      BY <1>4, <3>1
    <3>3. (n + 1) + k = (n + k) + 1
      BY <1>4
    <3>4. CASE n + 1 < i
      <4>1. /\ t[n] = s[n] /\ t[n + 1] = s[n + 1] /\ n \in 1 .. Len(s) /\ n + 1 \in 1 .. Len(s)
            /\ n # i - 1 /\ n + 1 # j + 1 /\ n \in 1 .. Len(s) - 1
        BY <1>1, <1>5, <3>1, <3>2, <3>4
      <4>2. s[n] # s[i - 1] /\ s[n + 1] # s[j + 1] /\ s[n] \in Node /\ s[n + 1] \in Node
        BY <1>1, <1>9, <4>1 DEF Distinct
      <4>3. h.next[s[n]] = s[n + 1] /\ h.prev[s[n + 1]] = s[n]
        BY <1>7, <4>1 DEF s
      <4> QED BY <1>6, <4>1, <4>2, <4>3
    <3>5. CASE n + 1 = i
      <4>1. t[n] = s[i - 1] /\ t[n + 1] = s[j + 1] /\ s[i - 1] \in Node /\ s[j + 1] \in Node
        <5>1. n \in Nat /\ k \in Nat
          BY <1>4, <3>1
        <5>2. n = i - 1 /\ (n + 1) + k = j + 1 /\ ~(n >= i) /\ ~(n + 1 < i)
          BY <1>5, <3>5, <5>1
        <5> QED BY <1>1, <1>9, <3>2, <5>2
      <4> QED BY <1>6, <4>1
    <3>6. CASE n + 1 > i
      <4>1. /\ t[n] = s[n + k] /\ t[n + 1] = s[(n + k) + 1]
            /\ n + k \in 1 .. Len(s) /\ (n + k) + 1 \in 1 .. Len(s)
            /\ n + k # i - 1 /\ (n + k) + 1 # j + 1 /\ n + k \in 1 .. Len(s) - 1
        <5>1. ~(n < i) /\ ~(n + 1 < i)
          BY <1>5, <3>1, <3>6
        <5>2. /\ t[n] = s[n + k] /\ t[n + 1] = s[(n + k) + 1]
              /\ n + k \in 1 .. Len(s) /\ (n + k) + 1 \in 1 .. Len(s) /\ n + k > j
          BY <3>2, <3>3, <5>1
        <5> QED BY <1>1, <1>4, <1>5, <3>1, <5>2
      <4>2. /\ s[n + k] # s[i - 1] /\ s[(n + k) + 1] # s[j + 1]
            /\ s[n + k] \in Node /\ s[(n + k) + 1] \in Node
        BY <1>1, <1>9, <4>1 DEF Distinct
      <4>3. h.next[s[n + k]] = s[(n + k) + 1] /\ h.prev[s[(n + k) + 1]] = s[n + k]
        BY <1>7, <4>1 DEF s
      <4> QED BY <1>6, <4>1, <4>2, <4>3
    <3> QED BY <1>4, <1>5, <3>4, <3>5, <3>6
  <2>5. g.next[list_end(m)] = NULL /\ g.prev[list_head(m)] = NULL
    BY <1>6, <1>7, <2>1, <2>2
  <2>6. CASE m = l
    BY <1>3, <2>4, <2>5, <2>6
  <2>7. CASE m # l
    BY <2>3, <2>5, <2>7
  <2> QED BY <2>6, <2>7
<1>11. Shape(g, d)
  BY <1>2, <1>6, <1>10 DEF Shape, Nexts, Prevs
<1>12. Distinct(p)
  <2>1. ASSUME NEW n \in 1 .. k, NEW q \in 1 .. k, p[n] = p[q]
        PROVE  n = q
    <3>1. n + i - 1 \in 1 .. Len(s) /\ q + i - 1 \in 1 .. Len(s)
      BY <1>1, <1>4, <1>5
    <3>2. n + i - 1 = q + i - 1
      BY <1>1, <1>8, <2>1, <3>1 DEF Distinct
    <3> QED BY <1>4, <1>5, <3>2
  <2> QED BY <1>8, <2>1 DEF Distinct
<1>13. ASSUME NEW n \in 1 .. Len(p), NEW m \in List, NEW q \in 1 .. Len(d[m])
       PROVE  p[n] # d[m][q]
  <2>1. p[n] = s[n + i - 1] /\ n + i - 1 \in 1 .. Len(s) /\ n + i - 1 >= i /\ n + i - 1 <= j
    <3>1. n \in 1 .. k
      BY <1>8
    <3>2. n + i - 1 \in 1 .. Len(s) /\ n + i - 1 >= i /\ n + i - 1 <= j
      BY <1>1, <1>4, <1>5, <3>1
    <3> QED BY <1>8, <3>1, <3>2
  <2>2. CASE m # l
    BY <1>2, <1>3, <2>1, <2>2 DEF IsChains, s
  <2>3. CASE m = l
    <3>1. PICK x \in 1 .. Len(s) : t[q] = s[x] /\ (x < i \/ x > j)
      BY <1>3, <1>4, <1>5, <2>3
    <3>2. x # n + i - 1
      BY <1>4, <1>5, <2>1, <3>1
    <3> QED BY <1>1, <1>3, <2>1, <2>3, <3>1, <3>2 DEF Distinct
  <2> QED BY <2>2, <2>3
<1>14. ASSUME NEW n \in 1 .. Len(p) - 1
       PROVE  g.next[p[n]] = p[n + 1] /\ g.prev[p[n + 1]] = p[n]
  <2> DEFINE x == n + i - 1
  <2>1. /\ p[n] = s[x] /\ p[n + 1] = s[x + 1] /\ x \in 1 .. Len(s) - 1
        /\ x \in 1 .. Len(s) /\ x + 1 \in 1 .. Len(s) /\ x # i - 1 /\ x + 1 # j + 1
    <3>1. n \in 1 .. k /\ n + 1 \in 1 .. k /\ (n + 1) + i - 1 = x + 1
      BY <1>4, <1>5, <1>8
    <3>2. p[n] = s[x] /\ p[n + 1] = s[x + 1]
      BY <1>8, <3>1
    <3>3. ASSUME NEW a \in Nat, NEW b \in Nat, NEW e \in Nat, NEW q \in Nat,
                 a >= 2, q >= 1, b <= e - 1, q + a <= b
          PROVE  LET y == q + a - 1
                 IN  /\ y \in 1 .. e - 1 /\ y \in 1 .. e /\ y + 1 \in 1 .. e
                     /\ y # a - 1 /\ y + 1 # b + 1
      BY <3>3
    <3>4. Len(s) \in Nat /\ n \in Nat /\ n >= 1
      BY <1>1
    <3>5. n + i <= j
      BY <1>4, <1>5, <3>1
    <3>6. /\ x \in 1 .. Len(s) - 1 /\ x \in 1 .. Len(s) /\ x + 1 \in 1 .. Len(s)
          /\ x # i - 1 /\ x + 1 # j + 1
      <4>1. i \in Nat /\ i >= 2 /\ j \in Nat /\ j <= Len(s) - 1
        BY <1>5
      <4> HIDE DEF s
      <4> QED BY <3>3, <3>4, <3>5, <4>1
    <3> QED BY <3>2, <3>6
  <2> HIDE DEF x
  <2>2. s[x] # s[i - 1] /\ s[x + 1] # s[j + 1] /\ s[x] \in Node /\ s[x + 1] \in Node
    BY <1>1, <1>9, <2>1 DEF Distinct
  <2>3. h.next[s[x]] = s[x + 1] /\ h.prev[s[x + 1]] = s[x]
    BY <1>7, <2>1 DEF s
  <2> QED BY <1>6, <2>1, <2>2, <2>3
<1>15. Loose(g, d, p)
  BY <1>4, <1>8, <1>12, <1>13, <1>14 DEF Loose
<1> QED BY <1>11, <1>15 DEF d, p, s

\* Where the nodes of a list come from into which a part was put before place k.
LEMMA PutIs ==
  ASSUME NEW s \in Seq(Node), NEW k \in 2 .. Len(s), NEW p \in Seq(Elem)
  PROVE  LET d == PutIn(s, k, p)
         IN  /\ d \in Seq(Node) /\ Len(d) = Len(s) + Len(p)
             /\ \A n \in 1 .. Len(d) :
                  \/ n < k /\ d[n] = s[n] /\ n \in 1 .. Len(s)
                  \/ n >= k /\ n < k + Len(p) /\ d[n] = p[n - k + 1] /\ n - k + 1 \in 1 .. Len(p)
                  \/ /\ n >= k + Len(p) /\ d[n] = s[n - Len(p)]
                     /\ n - Len(p) \in 1 .. Len(s) /\ n - Len(p) >= k
<1> DEFINE d == PutIn(s, k, p)
           at(n) == IF n < k THEN s[n] ELSE IF n < k + Len(p) THEN p[n - k + 1] ELSE s[n - Len(p)]
<1>1. /\ Len(s) \in Nat /\ (\A n \in 1 .. Len(s) : s[n] \in Node)
      /\ Len(p) \in Nat /\ (\A n \in 1 .. Len(p) : p[n] \in Node)
  BY LenProperties, ElementOfSeq, NodesApart
<1>2. d = [n \in 1 .. Len(s) + Len(p) |-> at(n)]
  BY DEF PutIn
<1>3. k \in Nat /\ k >= 2 /\ k <= Len(s)
  BY <1>1
<1> HIDE DEF d
<1>4. ASSUME NEW n \in 1 .. Len(s) + Len(p)
      PROVE  /\ at(n) \in Node
             /\ \/ n < k /\ at(n) = s[n] /\ n \in 1 .. Len(s)
                \/ n >= k /\ n < k + Len(p) /\ at(n) = p[n - k + 1] /\ n - k + 1 \in 1 .. Len(p)
                \/ /\ n >= k + Len(p) /\ at(n) = s[n - Len(p)]
                   /\ n - Len(p) \in 1 .. Len(s) /\ n - Len(p) >= k
  <2>1. CASE n < k
    <3>1. n \in 1 .. Len(s)
      BY <1>1, <1>3, <2>1
    <3> QED BY <1>1, <2>1, <3>1
  <2>2. CASE ~(n < k) /\ n < k + Len(p)
    <3>1. n - k + 1 \in 1 .. Len(p) /\ n >= k
      BY <1>1, <1>3, <2>2
    <3> QED BY <1>1, <2>2, <3>1
  <2>3. CASE ~(n < k) /\ ~(n < k + Len(p))
    <3>1. n - Len(p) \in 1 .. Len(s) /\ n - Len(p) >= k /\ n >= k + Len(p)
      BY <1>1, <1>3, <2>3
    <3> QED BY <1>1, <2>3, <3>1
  <2> QED BY <2>1, <2>2, <2>3
<1>5. d \in Seq(Node) /\ Len(d) = Len(s) + Len(p) /\ \A n \in 1 .. Len(d) : d[n] = at(n)
  <2>1. Len(s) + Len(p) \in Nat
    BY <1>1
  <2>2. \A n \in 1 .. Len(s) + Len(p) : at(n) \in Node
    BY <1>4
  <2> HIDE DEF at
  <2> QED BY <1>2, <2>1, <2>2
<1> HIDE DEF at
<1>6. ASSUME NEW n \in 1 .. Len(d)
      PROVE  \/ n < k /\ d[n] = s[n] /\ n \in 1 .. Len(s)
             \/ n >= k /\ n < k + Len(p) /\ d[n] = p[n - k + 1] /\ n - k + 1 \in 1 .. Len(p)
             \/ /\ n >= k + Len(p) /\ d[n] = s[n - Len(p)]
                /\ n - Len(p) \in 1 .. Len(s) /\ n - Len(p) >= k
  <2>1. n \in 1 .. Len(s) + Len(p) /\ d[n] = at(n)
    BY <1>5
  <2> QED BY <1>4, <2>1
<1> QED BY <1>5, <1>6 DEF d

\* With a loose part put in they are chains.
LEMMA PutChains ==
  ASSUME NEW h, NEW c, IsChains(c), NEW p, Loose(h, c, p), NEW l \in List, NEW k \in 2 .. Len(c[l])
  PROVE  IsChains([c EXCEPT ![l] = PutIn(@, k, p)])
<1> DEFINE s == c[l]
           t == PutIn(s, k, p)
           d == [c EXCEPT ![l] = PutIn(@, k, p)]
           L == Len(p)
<1>1. /\ s \in Seq(Node) /\ Len(s) \in Nat /\ Len(s) >= 2 /\ Distinct(s)
      /\ s[1] = list_head(l) /\ s[Len(s)] = list_end(l)
      /\ \A n \in 2 .. Len(s) - 1 : s[n] \in Elem
  BY ChainOf
<1>2. c \in [List -> Seq(Node)]
  BY DEF IsChains
<1>3. d[l] = t /\ \A m \in List : m # l => d[m] = c[m]
  BY <1>2
<1>4. /\ p \in Seq(Elem) /\ L \in Nat /\ L >= 1 /\ Distinct(p)
      /\ (\A n \in 1 .. L : p[n] \in Elem)
      /\ \A n \in 1 .. L, m \in List : \A i \in 1 .. Len(c[m]) : p[n] # c[m][i]
  BY LenProperties, ElementOfSeq DEF Loose
<1>5. /\ t \in Seq(Node) /\ Len(t) = Len(s) + L
      /\ \A n \in 1 .. Len(t) :
           \/ n < k /\ t[n] = s[n] /\ n \in 1 .. Len(s)
           \/ n >= k /\ n < k + L /\ t[n] = p[n - k + 1] /\ n - k + 1 \in 1 .. L
           \/ n >= k + L /\ t[n] = s[n - L] /\ n - L \in 1 .. Len(s) /\ n - L >= k
  <2> HIDE DEF s
  <2>1. s \in Seq(Node) /\ k \in 2 .. Len(s)
    BY <1>1 DEF s
  <2> QED BY <1>4, <2>1, PutIs
<1>6. d \in [List -> Seq(Node)]
  <2>1. d = [c EXCEPT ![l] = t]
    OBVIOUS
  <2> HIDE DEF t, d
  <2> QED BY <1>2, <1>5, <2>1
<1>7. k \in Nat /\ k >= 2 /\ k <= Len(s)
  BY <1>1
<1> HIDE DEF s, t, d, L
<1>8. Len(t) \in Nat /\ Len(t) >= 2 /\ t[1] = list_head(l) /\ t[Len(t)] = list_end(l)
  <2>1. Len(t) \in Nat /\ Len(t) >= 2 /\ 1 \in 1 .. Len(t) /\ Len(t) \in 1 .. Len(t)
    BY <1>1, <1>4, <1>5
  <2>2. t[1] = s[1]
    <3>1. ~(1 >= k) /\ ~(1 >= k + L)
      BY <1>4, <1>7
    <3> QED BY <1>5, <2>1, <3>1
  <2>3. t[Len(t)] = s[Len(s)]
    <3>1. ~(Len(t) < k) /\ ~(Len(t) < k + L) /\ Len(t) - L = Len(s)
      BY <1>1, <1>4, <1>5, <1>7
    <3> QED BY <1>5, <2>1, <3>1
  <2> QED BY <1>1, <2>1, <2>2, <2>3
<1>9. ASSUME NEW n \in 2 .. Len(t) - 1 PROVE t[n] \in Elem
  <2>1. n \in 1 .. Len(t) /\ n \in Nat
    BY <1>8
  <2>2. CASE n < k /\ t[n] = s[n]
    <3>1. n \in 2 .. Len(s) - 1
      BY <1>1, <1>7, <2>1, <2>2
    <3> QED BY <1>1, <2>2, <3>1
  <2>3. CASE t[n] = p[n - k + 1] /\ n - k + 1 \in 1 .. L
    BY <1>4, <2>3
  <2>4. CASE n >= k + L /\ t[n] = s[n - L]
    <3>1. n - L \in 2 .. Len(s) - 1
      BY <1>1, <1>4, <1>5, <1>7, <2>1, <2>4
    <3> QED BY <1>1, <2>4, <3>1
  <2> QED BY <1>5, <2>1, <2>2, <2>3, <2>4
<1>10. ASSUME NEW m \in List, NEW n \in 1 .. Len(t), NEW q \in 1 .. Len(c[m]), m # l
       PROVE  t[n] # c[m][q]
  <2>1. CASE \E x \in 1 .. Len(s) : t[n] = s[x]
    BY <1>10, <2>1 DEF IsChains, s
  <2>2. CASE \E x \in 1 .. L : t[n] = p[x]
    BY <1>4, <1>10, <2>2
  <2> QED BY <1>5, <2>1, <2>2
<1>11. ASSUME NEW n \in 1 .. Len(t), NEW q \in 1 .. Len(t), t[n] = t[q]
       PROVE  n = q
  <2> DEFINE low(x)  == x < k /\ t[x] = s[x] /\ x \in 1 .. Len(s)
             mid(x)  == x >= k /\ x < k + L /\ t[x] = p[x - k + 1] /\ x - k + 1 \in 1 .. L
             high(x) == x >= k + L /\ t[x] = s[x - L] /\ x - L \in 1 .. Len(s) /\ x - L >= k
  <2>1. (low(n) \/ mid(n) \/ high(n)) /\ (low(q) \/ mid(q) \/ high(q))
    BY <1>5
  <2>2. n \in Nat /\ q \in Nat
    BY <1>8
  <2>3. ASSUME NEW x \in 1 .. Len(s), NEW y \in 1 .. Len(s), s[x] = s[y] PROVE x = y
    BY <1>1, <2>3 DEF Distinct
  <2>4. ASSUME NEW x \in 1 .. L, NEW y \in 1 .. L, p[x] = p[y] PROVE x = y
    BY <1>4, <2>4 DEF Distinct, L
  <2>5. ASSUME NEW x \in 1 .. L, NEW y \in 1 .. Len(s) PROVE p[x] # s[y]
    BY <1>4 DEF s
  <2>6. ~((low(n) \/ high(n)) /\ mid(q)) /\ ~(mid(n) /\ (low(q) \/ high(q)))
    BY <1>11, <2>5
  <2>7. low(n) /\ low(q) => n = q
    BY <1>11, <2>3
  <2>8. ~(low(n) /\ high(q)) /\ ~(high(n) /\ low(q))
    <3>1. ASSUME low(n), high(q) PROVE FALSE
      <4>1. n = q - L
        BY <1>11, <2>3, <3>1
      <4> QED BY <1>7, <2>2, <3>1, <4>1
    <3>2. ASSUME high(n), low(q) PROVE FALSE
      <4>1. n - L = q
        BY <1>11, <2>3, <3>2
      <4> QED BY <1>7, <2>2, <3>2, <4>1
    <3> QED BY <3>1, <3>2
  <2>9. high(n) /\ high(q) => n = q
    <3>1. ASSUME high(n), high(q) PROVE n - L = q - L
      BY <1>11, <2>3, <3>1
    <3> QED BY <1>4, <2>2, <3>1
  <2>10. mid(n) /\ mid(q) => n = q
    <3>1. ASSUME mid(n), mid(q) PROVE n - k + 1 = q - k + 1
      BY <1>11, <2>4, <3>1
    <3> QED BY <1>7, <2>2, <3>1
  <2> HIDE DEF low, mid, high
  <2> QED BY <2>1, <2>6, <2>7, <2>8, <2>9, <2>10
<1>12. ASSUME NEW a \in List, NEW b \in List, NEW n \in 1 .. Len(d[a]), NEW q \in 1 .. Len(d[b]),
              d[a][n] = d[b][q]
       PROVE  a = b /\ n = q
  <2>1. CASE a = l /\ b = l
    BY <1>3, <1>11, <1>12, <2>1
  <2>2. CASE a = l /\ b # l
    BY <1>3, <1>10, <1>12, <2>2
  <2>3. CASE a # l /\ b = l
    BY <1>3, <1>10, <1>12, <2>3
  <2>4. CASE a # l /\ b # l
    BY <1>3, <1>12, <2>4 DEF IsChains
  <2> QED BY <2>1, <2>2, <2>3, <2>4
<1>13. ASSUME NEW m \in List
       PROVE  /\ Len(d[m]) >= 2 /\ d[m][1] = list_head(m) /\ d[m][Len(d[m])] = list_end(m)
              /\ \A n \in 2 .. Len(d[m]) - 1 : d[m][n] \in Elem
  <2>1. CASE m = l
    BY <1>3, <1>8, <1>9, <2>1
  <2>2. CASE m # l
    BY <1>3, <2>2 DEF IsChains
  <2> QED BY <2>1, <2>2
<1>14. IsChains(d)
  BY <1>6, <1>12, <1>13 DEF IsChains
<1> QED BY <1>14 DEF d

\* The links after the four stores that put p before place k.
PutLinks(h, g, s, k, p) ==
  /\ g \in Heap
  /\ \A n \in Node : /\ g.next[n] = (IF n = s[k - 1] THEN p[1]
                                     ELSE IF n = p[Len(p)] THEN s[k] ELSE h.next[n])
                     /\ g.prev[n] = (IF n = s[k] THEN p[Len(p)]
                                     ELSE IF n = p[1] THEN s[k - 1] ELSE h.prev[n])

\* A loose part put into a list leaves lists.
LEMMA PutKeeps ==
  ASSUME NEW h, NEW g, NEW c, Shape(h, c), NEW p, Loose(h, c, p), NEW l \in List,
         NEW k \in 2 .. Len(c[l]), PutLinks(h, g, c[l], k, p)
  PROVE  Shape(g, [c EXCEPT ![l] = PutIn(@, k, p)])
<1> DEFINE s == c[l]
           t == PutIn(s, k, p)
           d == [c EXCEPT ![l] = PutIn(@, k, p)]
           L == Len(p)
<1>1. /\ s \in Seq(Node) /\ Len(s) \in Nat /\ Len(s) >= 2 /\ Distinct(s)
      /\ s[1] = list_head(l) /\ s[Len(s)] = list_end(l)
      /\ \A n \in 1 .. Len(s) : s[n] \in Node
  BY ChainOf DEF Shape
<1>2. c \in [List -> Seq(Node)] /\ IsChains(c) /\ IsChains(d)
  <2>1. IsChains(c) /\ c \in [List -> Seq(Node)]
    BY DEF Shape, IsChains
  <2>2. IsChains(d)
    BY <2>1, PutChains
  <2> QED BY <2>1, <2>2
<1>3. d[l] = t /\ \A m \in List : m # l => d[m] = c[m]
  BY <1>2
<1>4. /\ p \in Seq(Elem) /\ L \in Nat /\ L >= 1 /\ Distinct(p)
      /\ (\A n \in 1 .. L : p[n] \in Node)
      /\ (\A n \in 1 .. L, m \in List : \A i \in 1 .. Len(c[m]) : p[n] # c[m][i])
      /\ \A n \in 1 .. L - 1 : h.next[p[n]] = p[n + 1] /\ h.prev[p[n + 1]] = p[n]
  BY LenProperties, ElementOfSeq, NodesApart DEF Loose
<1>5. /\ t \in Seq(Node) /\ Len(t) = Len(s) + L
      /\ \A n \in 1 .. Len(t) :
           \/ n < k /\ t[n] = s[n] /\ n \in 1 .. Len(s)
           \/ n >= k /\ n < k + L /\ t[n] = p[n - k + 1] /\ n - k + 1 \in 1 .. L
           \/ n >= k + L /\ t[n] = s[n - L] /\ n - L \in 1 .. Len(s) /\ n - L >= k
  <2>1. s \in Seq(Node) /\ k \in 2 .. Len(s) /\ p \in Seq(Elem)
    BY <1>1, <1>4
  <2> HIDE DEF s, d
  <2> QED BY <2>1, PutIs
<1>6. /\ g \in Heap
      /\ \A n \in Node : /\ g.next[n] = (IF n = s[k - 1] THEN p[1]
                                         ELSE IF n = p[L] THEN s[k] ELSE h.next[n])
                         /\ g.prev[n] = (IF n = s[k] THEN p[L]
                                         ELSE IF n = p[1] THEN s[k - 1] ELSE h.prev[n])
  BY DEF PutLinks
<1>7. \A m \in List : /\ h.next[list_end(m)] = NULL /\ h.prev[list_head(m)] = NULL
                      /\ \A n \in 1 .. Len(c[m]) - 1 : /\ h.next[c[m][n]] = c[m][n + 1]
                                                       /\ h.prev[c[m][n + 1]] = c[m][n]
  BY DEF Shape, Nexts, Prevs
<1>8. k \in Nat /\ k >= 2 /\ k <= Len(s) /\ k - 1 \in 1 .. Len(s) /\ k \in 1 .. Len(s)
  BY <1>1
<1> HIDE DEF s, t, d, L
<1>9. 1 \in 1 .. L /\ L \in 1 .. L
  BY <1>4
\* Links of nodes that are neither at the gap nor at the ends of the part.
<1>10. ASSUME NEW m \in List, NEW x \in 1 .. Len(c[m]) - 1, ~(m = l /\ x = k - 1)
       PROVE  g.next[c[m][x]] = c[m][x + 1] /\ g.prev[c[m][x + 1]] = c[m][x]
  <2>1. Len(c[m]) \in Nat /\ \A n \in 1 .. Len(c[m]) : c[m][n] \in Node
    BY <1>2, ChainOf
  <2>2. x \in 1 .. Len(c[m]) /\ x + 1 \in 1 .. Len(c[m])
    BY <2>1
  <2>3. ~(m = l /\ x + 1 = k)
    BY <1>8, <1>10, <2>2
  <2>4. c[m][x] # s[k - 1] /\ c[m][x + 1] # s[k]
    BY <1>2, <1>8, <1>10, <2>2, <2>3 DEF IsChains, s
  <2>5. c[m][x] # p[L] /\ c[m][x + 1] # p[1]
    BY <1>4, <1>9, <2>2
  <2>6. h.next[c[m][x]] = c[m][x + 1] /\ h.prev[c[m][x + 1]] = c[m][x]
    BY <1>7
  <2> QED BY <1>6, <2>1, <2>2, <2>4, <2>5, <2>6
<1>11. ASSUME NEW n \in 1 .. Len(t) - 1
       PROVE  g.next[t[n]] = t[n + 1] /\ g.prev[t[n + 1]] = t[n]
  <2>1. n \in 1 .. Len(t) /\ n + 1 \in 1 .. Len(t) /\ n \in Nat
    BY <1>1, <1>4, <1>5
  <2>2. \/ n < k /\ t[n] = s[n] /\ n \in 1 .. Len(s)
        \/ n >= k /\ n < k + L /\ t[n] = p[n - k + 1] /\ n - k + 1 \in 1 .. L
        \/ n >= k + L /\ t[n] = s[n - L] /\ n - L \in 1 .. Len(s) /\ n - L >= k
    BY <1>5, <2>1
  <2>3. \/ n + 1 < k /\ t[n + 1] = s[n + 1] /\ n + 1 \in 1 .. Len(s)
        \/ /\ n + 1 >= k /\ n + 1 < k + L /\ t[n + 1] = p[(n + 1) - k + 1]
           /\ (n + 1) - k + 1 \in 1 .. L
        \/ n + 1 >= k + L /\ t[n + 1] = s[(n + 1) - L] /\ (n + 1) - L \in 1 .. Len(s)
    BY <1>5, <2>1
  <2>4. CASE n + 1 < k
    <3>1. t[n] = s[n] /\ t[n + 1] = s[n + 1] /\ n \in 1 .. Len(s) - 1 /\ n # k - 1
      <4>1. /\ ~(n >= k) /\ ~(n + 1 >= k) /\ n \in 1 .. Len(s) - 1 /\ n # k - 1
            /\ ~(n >= k + L) /\ ~(n + 1 >= k + L)
        BY <1>1, <1>4, <1>8, <2>1, <2>4
      <4>2. t[n] = s[n]
        BY <2>2, <4>1
      <4>3. t[n + 1] = s[n + 1]
        BY <2>3, <4>1
      <4> QED BY <4>1, <4>2, <4>3
    <3> QED BY <1>10, <3>1 DEF s
  <2>5. CASE n + 1 = k
    <3>1. ~(n >= k) /\ ~(n >= k + L) /\ ~(n + 1 < k) /\ ~(n + 1 >= k + L)
          /\ n = k - 1 /\ (n + 1) - k + 1 = 1
      BY <1>4, <1>8, <2>1, <2>5
    <3>2. t[n] = s[k - 1] /\ t[n + 1] = p[1]
      BY <2>2, <2>3, <3>1
    <3>3. s[k - 1] \in Node /\ p[1] \in Node /\ p[1] # s[k]
      BY <1>1, <1>4, <1>8, <1>9 DEF s
    <3> QED BY <1>6, <3>2, <3>3
  <2>6. CASE n >= k /\ n + 1 < k + L
    <3> DEFINE x == n - k + 1
    <3>1. /\ ~(n < k) /\ ~(n >= k + L) /\ ~(n + 1 < k) /\ ~(n + 1 >= k + L)
          /\ (n + 1) - k + 1 = x + 1
      BY <1>4, <1>8, <2>1, <2>6
    <3>2. t[n] = p[x] /\ t[n + 1] = p[x + 1] /\ x \in 1 .. L /\ x + 1 \in 1 .. L
      BY <2>2, <2>3, <3>1
    <3>3. x \in 1 .. L - 1 /\ x # L /\ x + 1 # 1
      <4>1. n \in Nat /\ k \in Nat /\ L \in Nat
        BY <1>4, <1>8, <2>1
      <4> QED BY <2>6, <4>1
    <3> HIDE DEF x
    <3>4. p[x] # p[L] /\ p[x + 1] # p[1]
      BY <1>4, <1>9, <3>2, <3>3 DEF Distinct, L
    <3>5. p[x] # s[k - 1] /\ p[x + 1] # s[k]
      BY <1>4, <1>8, <3>2 DEF s
    <3>6. p[x] \in Node /\ p[x + 1] \in Node
      BY <1>4, <3>2
    <3>7. h.next[p[x]] = p[x + 1] /\ h.prev[p[x + 1]] = p[x]
      BY <1>4, <3>3
    <3> QED BY <1>6, <3>2, <3>4, <3>5, <3>6, <3>7
  <2>7. CASE n + 1 = k + L
    <3>1. ~(n < k) /\ ~(n >= k + L) /\ ~(n + 1 < k) /\ ~(n + 1 < k + L)
          /\ n - k + 1 = L /\ (n + 1) - L = k
      BY <1>4, <1>8, <2>1, <2>7
    <3>2. t[n] = p[L] /\ t[n + 1] = s[k]
      BY <2>2, <2>3, <3>1
    <3>3. p[L] \in Node /\ s[k] \in Node /\ p[L] # s[k - 1]
      BY <1>1, <1>4, <1>8, <1>9 DEF s
    <3> QED BY <1>6, <3>2, <3>3
  <2>8. CASE n + 1 > k + L
    <3> DEFINE x == n - L
    <3>1. /\ ~(n < k) /\ ~(n < k + L) /\ ~(n + 1 < k) /\ ~(n + 1 < k + L)
          /\ (n + 1) - L = x + 1
      BY <1>4, <1>8, <2>1, <2>8
    <3>2. t[n] = s[x] /\ t[n + 1] = s[x + 1] /\ x \in 1 .. Len(s) /\ x + 1 \in 1 .. Len(s) /\ x >= k
      BY <2>2, <2>3, <3>1
    <3>3. x \in 1 .. Len(s) - 1 /\ x # k - 1
      BY <1>1, <1>8, <3>2
    <3> HIDE DEF x
    <3> QED BY <1>10, <3>2, <3>3 DEF s
  <2>9. n + 1 < k \/ n + 1 = k \/ (n >= k /\ n + 1 < k + L) \/ n + 1 = k + L \/ n + 1 > k + L
    BY <1>4, <1>8, <2>1
  <2> QED BY <2>4, <2>5, <2>6, <2>7, <2>8, <2>9
<1>12. ASSUME NEW m \in List
       PROVE  /\ g.next[list_end(m)] = NULL /\ g.prev[list_head(m)] = NULL
              /\ \A n \in 1 .. Len(d[m]) - 1 : /\ g.next[d[m][n]] = d[m][n + 1]
                                               /\ g.prev[d[m][n + 1]] = d[m][n]
  <2>1. list_end(m) \in Node /\ list_head(m) \in Node
    BY NodesApart
  <2>2. /\ list_end(m) = c[m][Len(c[m])] /\ list_head(m) = c[m][1]
        /\ Len(c[m]) \in 1 .. Len(c[m]) /\ 1 \in 1 .. Len(c[m])
    <3>1. Len(c[m]) \in Nat /\ Len(c[m]) >= 2
      BY <1>2, ChainOf
    <3> QED BY <1>2, <3>1, ChainOf
  <2>3. list_end(m) # s[k - 1] /\ list_head(m) # s[k]
    <3>1. k - 1 # Len(s) /\ k # 1
      BY <1>1, <1>8
    <3>2. ASSUME c[m][Len(c[m])] = s[k - 1] PROVE FALSE
      <4>1. m = l /\ Len(c[m]) = k - 1
        BY <1>2, <1>8, <2>2, <3>2 DEF IsChains, s
      <4> QED BY <3>1, <4>1 DEF s
    <3>3. ASSUME c[m][1] = s[k] PROVE FALSE
      BY <1>2, <1>8, <2>2, <3>1, <3>3 DEF IsChains, s
    <3> QED BY <2>2, <3>2, <3>3
  <2>4. list_end(m) # p[L] /\ list_head(m) # p[1]
    BY <1>4, <1>9, <2>2
  <2>5. CASE m = l
    BY <1>3, <1>6, <1>7, <1>11, <2>1, <2>3, <2>4, <2>5
  <2>6. CASE m # l
    BY <1>3, <1>6, <1>7, <1>10, <2>1, <2>3, <2>4, <2>6
  <2> QED BY <2>5, <2>6
<1>13. Shape(g, d)
  BY <1>2, <1>6, <1>12 DEF Shape, Nexts, Prevs
<1> QED BY <1>13 DEF d

\* The stores of list_remove, and the first two of list_splice.
LEMMA CutRun ==
  ASSUME NEW h \in Heap, NEW a \in Node, NEW b \in Node
  PROVE  LET g == Run(h, << <<a, "next", b>>, <<b, "prev", a>> >>)
         IN  /\ g \in Heap
             /\ \A n \in Node : /\ g.next[n] = (IF n = a THEN b ELSE h.next[n])
                                /\ g.prev[n] = (IF n = b THEN a ELSE h.prev[n])
<1> DEFINE h1 == Apply(h, <<a, "next", b>>)
           h2 == Apply(h1, <<b, "prev", a>>)
<1>1. Stored(h, h1, a, "next", b)
  BY ApplyIs
<1> HIDE DEF h1
<1>2. h1 \in Heap
  BY <1>1 DEF Stored
<1>3. Stored(h1, h2, b, "prev", a)
  BY <1>2, ApplyIs
<1> HIDE DEF h2
<1>4. Run(h, << <<a, "next", b>>, <<b, "prev", a>> >>) = h2
  BY RunTwo DEF h1, h2
<1> QED BY <1>1, <1>3, <1>4 DEF Stored

\* The stores of list_insert, and the last four of list_splice.
LEMMA PutRun ==
  ASSUME NEW h \in Heap, NEW a \in Node, NEW b \in Node, NEW first \in Node, NEW last \in Node,
         a # last, b # first
  PROVE  LET g == Run(h, << <<first, "prev", a>>, <<last, "next", b>>,
                            <<a, "next", first>>, <<b, "prev", last>> >>)
         IN  /\ g \in Heap
             /\ \A n \in Node : /\ g.next[n] = (IF n = a THEN first
                                                ELSE IF n = last THEN b ELSE h.next[n])
                                /\ g.prev[n] = (IF n = b THEN last
                                                ELSE IF n = first THEN a ELSE h.prev[n])
<1> DEFINE h1 == Apply(h, <<first, "prev", a>>)
           h2 == Apply(h1, <<last, "next", b>>)
           h3 == Apply(h2, <<a, "next", first>>)
           h4 == Apply(h3, <<b, "prev", last>>)
<1>1. Stored(h, h1, first, "prev", a)
  BY ApplyIs
<1> HIDE DEF h1
<1>2. h1 \in Heap
  BY <1>1 DEF Stored
<1>3. Stored(h1, h2, last, "next", b)
  BY <1>2, ApplyIs
<1> HIDE DEF h2
<1>4. h2 \in Heap
  BY <1>3 DEF Stored
<1>5. Stored(h2, h3, a, "next", first)
  BY <1>4, ApplyIs
<1> HIDE DEF h3
<1>6. h3 \in Heap
  BY <1>5 DEF Stored
<1>7. Stored(h3, h4, b, "prev", last)
  BY <1>6, ApplyIs
<1> HIDE DEF h4
<1>8. Run(h, << <<first, "prev", a>>, <<last, "next", b>>,
                <<a, "next", first>>, <<b, "prev", last>> >>) = h4
  BY RunFour DEF h1, h2, h3, h4
<1> QED BY <1>1, <1>3, <1>5, <1>7, <1>8 DEF Stored

\* The links of the node at a place that is not an end.
LEMMA LinksAt ==
  ASSUME NEW h, NEW c, Shape(h, c), NEW l \in List, NEW i \in 1 .. Len(c[l])
  PROVE  /\ i # 1 => h.prev[c[l][i]] = c[l][i - 1] /\ c[l][i - 1] \in Node
         /\ i # Len(c[l]) => h.next[c[l][i]] = c[l][i + 1] /\ c[l][i + 1] \in Node
         /\ c[l][i] \in Node
<1>1. /\ Len(c[l]) \in Nat /\ (\A n \in 1 .. Len(c[l]) : c[l][n] \in Node)
  BY ChainOf DEF Shape
<1>2. /\ \A n \in 1 .. Len(c[l]) - 1 : h.next[c[l][n]] = c[l][n + 1]
      /\ \A n \in 1 .. Len(c[l]) - 1 : h.prev[c[l][n + 1]] = c[l][n]
  BY DEF Shape, Nexts, Prevs
<1>3. ASSUME i # 1 PROVE h.prev[c[l][i]] = c[l][i - 1] /\ c[l][i - 1] \in Node
  <2>1. i - 1 \in 1 .. Len(c[l]) - 1 /\ (i - 1) + 1 = i /\ i - 1 \in 1 .. Len(c[l])
    BY <1>1, <1>3
  <2>2. h.prev[c[l][(i - 1) + 1]] = c[l][i - 1]
    BY <1>2, <2>1
  <2> QED BY <1>1, <2>1, <2>2
<1>4. ASSUME i # Len(c[l]) PROVE h.next[c[l][i]] = c[l][i + 1] /\ c[l][i + 1] \in Node
  <2>1. i \in 1 .. Len(c[l]) - 1 /\ i + 1 \in 1 .. Len(c[l])
    BY <1>1, <1>4
  <2> QED BY <1>1, <1>2, <2>1
<1> QED BY <1>1, <1>3, <1>4

\* The heap after the two stores that take the nodes from `first' to `last' out.
Taken(h, first, last) ==
  Run(h, << <<h.prev[first], "next", h.next[last]>>, <<h.next[last], "prev", h.prev[first]>> >>)

\* A part is taken out of a list.
LEMMA TakenKeeps ==
  ASSUME NEW h, NEW c, Shape(h, c), NEW l \in List,
         NEW i \in 2 .. Len(c[l]) - 1, NEW j \in i .. Len(c[l]) - 1
  PROVE  LET g == Taken(h, c[l][i], c[l][j])
             d == [c EXCEPT ![l] = CutOut(@, i, j)]
         IN  Shape(g, d) /\ Loose(g, d, Part(c[l], i, j))
<1>1. Len(c[l]) \in Nat
  BY ChainOf DEF Shape
<1>2. i \in 1 .. Len(c[l]) /\ j \in 1 .. Len(c[l]) /\ i # 1 /\ j # Len(c[l])
  BY <1>1
<1>3. /\ h.prev[c[l][i]] = c[l][i - 1] /\ h.next[c[l][j]] = c[l][j + 1]
      /\ c[l][i - 1] \in Node /\ c[l][j + 1] \in Node
  BY <1>2, LinksAt
<1>4. CutLinks(h, Taken(h, c[l][i], c[l][j]), c[l], i, j)
  BY <1>3, CutRun DEF CutLinks, Taken, Shape
<1> QED BY <1>4, CutKeeps

\* The heap after the four stores that put the nodes from `first' to `last' before `before'.
Given(h, before, first, last) ==
  Run(h, << <<first, "prev", h.prev[before]>>, <<last, "next", before>>,
            <<h.prev[before], "next", first>>, <<before, "prev", last>> >>)

\* A loose part is put into a list.
LEMMA GivenKeeps ==
  ASSUME NEW h, NEW c, Shape(h, c), NEW p, Loose(h, c, p), NEW l \in List, NEW k \in 2 .. Len(c[l])
  PROVE  Shape(Given(h, c[l][k], p[1], p[Len(p)]), [c EXCEPT ![l] = PutIn(@, k, p)])
<1>1. Len(c[l]) \in Nat
  BY ChainOf DEF Shape
<1>2. k \in 1 .. Len(c[l]) /\ k # 1 /\ k - 1 \in 1 .. Len(c[l])
  BY <1>1
<1>3. h.prev[c[l][k]] = c[l][k - 1] /\ c[l][k - 1] \in Node /\ c[l][k] \in Node
  BY <1>2, LinksAt
<1>4. /\ Len(p) \in Nat /\ 1 \in 1 .. Len(p) /\ Len(p) \in 1 .. Len(p)
      /\ p[1] \in Node /\ p[Len(p)] \in Node
  <2>1. Len(p) \in Nat /\ Len(p) >= 1 /\ \A n \in 1 .. Len(p) : p[n] \in Elem
    BY LenProperties, ElementOfSeq DEF Loose
  <2> QED BY <2>1, NodesApart
<1>5. c[l][k - 1] # p[Len(p)] /\ c[l][k] # p[1]
  BY <1>2, <1>4 DEF Loose
<1>6. PutLinks(h, Given(h, c[l][k], p[1], p[Len(p)]), c[l], k, p)
  BY <1>3, <1>4, <1>5, PutRun DEF PutLinks, Given, Shape
<1> QED BY <1>6, PutKeeps

\* Where place k is when the places i to j of list l are gone.
PlaceAfter(k, here, i, j) == IF here /\ k > j THEN k - (j - i + 1) ELSE k

\* list_splice does one after the other.
LEMMA SpliceKeeps ==
  ASSUME NEW h, NEW c, Shape(h, c), NEW l \in List, NEW m \in List,
         NEW i \in 2 .. Len(c[l]) - 1, NEW j \in i .. Len(c[l]) - 1, NEW k \in 2 .. Len(c[m]),
         ~(m = l /\ i <= k /\ k <= j)
  PROVE  LET d == [c EXCEPT ![l] = CutOut(@, i, j)]
         IN  Shape(list_splice(h, c[m][k], c[l][i], c[l][j + 1]),
                   [d EXCEPT ![m] = PutIn(@, PlaceAfter(k, m = l, i, j), Part(c[l], i, j))])
<1> DEFINE d == [c EXCEPT ![l] = CutOut(@, i, j)]
           p == Part(c[l], i, j)
           q == PlaceAfter(k, m = l, i, j)
           g == Taken(h, c[l][i], c[l][j])
<1>1. /\ c[l] \in Seq(Node) /\ Len(c[l]) \in Nat /\ Len(c[l]) >= 2 /\ Len(c[m]) \in Nat
      /\ Distinct(c[l]) /\ c \in [List -> Seq(Node)]
  BY ChainOf DEF Shape, IsChains
<1>2. Shape(g, d) /\ Loose(g, d, p)
  BY TakenKeeps
<1>3. p[1] = c[l][i] /\ p[Len(p)] = c[l][j]
  <2>1. /\ j - i + 1 \in Nat /\ 1 \in 1 .. j - i + 1 /\ j - i + 1 \in 1 .. j - i + 1
        /\ 1 + i - 1 = i /\ (j - i + 1) + i - 1 = j
    BY <1>1
  <2>2. p = [n \in 1 .. j - i + 1 |-> c[l][n + i - 1]]
    BY DEF Part
  <2>3. Len(p) = j - i + 1
    BY <2>1, <2>2
  <2> HIDE DEF p
  <2> QED BY <2>1, <2>2, <2>3
<1>4. q \in 2 .. Len(d[m]) /\ d[m][q] = c[m][k]
  <2>1. CASE m # l
    BY <1>1, <2>1 DEF PlaceAfter
  <2>2. CASE m = l
    <3> DEFINE s == c[l]
               t == CutOut(s, i, j)
               len == j - i + 1
    <3>1. d[m] = t
      BY <1>1, <2>2
    <3>2. /\ Len(t) = Len(s) - len /\ Len(t) >= 2 /\ len \in Nat /\ len >= 1
          /\ \A n \in 1 .. Len(t) :
               \/ n < i /\ t[n] = s[n] /\ n \in 1 .. Len(s)
               \/ n >= i /\ t[n] = s[n + len] /\ n + len \in 1 .. Len(s) /\ n + len > j
      <4>1. s \in Seq(Node) /\ i \in 2 .. Len(s) - 1 /\ j \in i .. Len(s) - 1
        BY <1>1
      <4> HIDE DEF s
      <4> QED BY <4>1, CutIs
    <3>3. /\ i \in Nat /\ j \in Nat /\ k \in Nat /\ i >= 2 /\ i <= j /\ j < Len(s)
          /\ k >= 2 /\ k <= Len(s) /\ Len(s) \in Nat /\ j = i + len - 1
      BY <1>1, <2>2
    <3> HIDE DEF t, s, d, len, g, p
    <3>4. CASE k > j
      <4>1. q = k - len
        BY <2>2, <3>4 DEF PlaceAfter, len
      <4>2. k - len \in 1 .. Len(t) /\ k - len >= i /\ (k - len) + len = k /\ k - len >= 2
        BY <3>2, <3>3, <3>4
      <4>3. t[k - len] = s[k]
        BY <3>2, <3>3, <4>2
      <4> QED BY <2>2, <3>1, <3>2, <4>1, <4>2, <4>3 DEF s
    <3>5. CASE k < i
      <4>1. q = k
        BY <2>2, <3>3, <3>5 DEF PlaceAfter
      <4>2. k \in 1 .. Len(t) /\ ~(k >= i)
        BY <3>2, <3>3, <3>5
      <4>3. \/ k < i /\ t[k] = s[k] /\ k \in 1 .. Len(s)
            \/ k >= i /\ t[k] = s[k + len] /\ k + len \in 1 .. Len(s) /\ k + len > j
        BY <3>2, <4>2
      <4>4. t[k] = s[k]
        BY <4>2, <4>3
      <4> QED BY <2>2, <3>1, <3>2, <3>3, <4>1, <4>2, <4>4 DEF s
    <3> QED BY <2>2, <3>3, <3>4, <3>5
  <2> QED BY <2>1, <2>2
<1>5. Shape(Given(g, d[m][q], p[1], p[Len(p)]), [d EXCEPT ![m] = PutIn(@, q, p)])
  <2> HIDE DEF d, p, q, g
  <2> QED BY <1>2, <1>4, GivenKeeps
<1>6. list_splice(h, c[m][k], c[l][i], c[l][j + 1]) = Given(g, c[m][k], c[l][i], c[l][j])
  <2>1. /\ i \in 1 .. Len(c[l]) /\ j + 1 \in 1 .. Len(c[l]) /\ j + 1 # 1 /\ i # j + 1
        /\ (j + 1) - 1 = j
    BY <1>1
  <2>2. c[l][i] # c[l][j + 1]
    BY <1>1, <2>1 DEF Distinct
  <2>3. h.prev[c[l][j + 1]] = c[l][j]
    BY <2>1, LinksAt
  <2> QED BY <2>2, <2>3 DEF list_splice, Taken, Given
<1> QED BY <1>3, <1>4, <1>5, <1>6

\* list_insert puts one element in.
LEMMA InsertKeeps ==
  ASSUME NEW h, NEW c, Shape(h, c), NEW l \in List, NEW k \in 2 .. Len(c[l]), NEW e \in Elem,
         \A m \in List : \A i \in 1 .. Len(c[m]) : e # c[m][i]
  PROVE  Shape(Run(h, list_insert(h, c[l][k], e)), [c EXCEPT ![l] = PutIn(@, k, <<e>>)])
<1>1. Loose(h, c, <<e>>)
  BY DEF Loose, Distinct
<1>2. <<e>>[1] = e /\ <<e>>[Len(<<e>>)] = e
  OBVIOUS
<1>3. Shape(Given(h, c[l][k], <<e>>[1], <<e>>[Len(<<e>>)]), [c EXCEPT ![l] = PutIn(@, k, <<e>>)])
  BY <1>1, GivenKeeps
<1> QED BY <1>2, <1>3 DEF Given, list_insert

\* list_remove takes one element out.
LEMMA RemoveKeeps ==
  ASSUME NEW h, NEW c, Shape(h, c), NEW l \in List, NEW i \in 2 .. Len(c[l]) - 1
  PROVE  LET d == [c EXCEPT ![l] = CutOut(@, i, i)]
         IN  /\ Shape(Run(h, list_remove(h, c[l][i])), d)
             /\ \A m \in List : \A n \in 1 .. Len(d[m]) : c[l][i] # d[m][n]
<1> DEFINE d == [c EXCEPT ![l] = CutOut(@, i, i)]
           p == Part(c[l], i, i)
           g == Taken(h, c[l][i], c[l][i])
<1>1. i \in i .. Len(c[l]) - 1 /\ i \in Int
  BY ChainOf DEF Shape
<1>2. Shape(g, d) /\ Loose(g, d, p)
  BY <1>1, TakenKeeps
<1>3. Len(p) = 1 /\ p[1] = c[l][i]
  <2>1. i - i + 1 = 1 /\ 1 + i - 1 = i
    BY <1>1
  <2>2. p = [n \in 1 .. 1 |-> c[l][n + i - 1]]
    BY <2>1 DEF Part
  <2> HIDE DEF p
  <2> QED BY <2>1, <2>2
<1>4. \A m \in List : \A n \in 1 .. Len(d[m]) : c[l][i] # d[m][n]
  <2>1. 1 \in 1 .. Len(p)
    BY <1>3
  <2> HIDE DEF p, d, g
  <2> QED BY <1>2, <1>3, <2>1 DEF Loose
<1>5. g = Run(h, list_remove(h, c[l][i]))
  BY DEF Taken, list_remove
<1> QED BY <1>2, <1>4, <1>5

TurnAround(s) ==
  [n \in 1 .. Len(s) |-> IF n = 1 \/ n = Len(s) THEN s[n] ELSE s[Len(s) - n + 1]]

\* The links after list_reverse.
LEMMA ReverseLinks ==
  ASSUME NEW h, NEW c, Shape(h, c), NEW l \in List, Len(c[l]) # 2
  PROVE  LET s == c[l]
             inside == {s[n] : n \in 2 .. Len(s) - 1}
             g == list_reverse(h, l)
         IN  /\ g \in Heap
             /\ \A n \in Node :
                  /\ g.next[n] = (IF n = s[2] THEN s[Len(s)] ELSE IF n = s[1] THEN s[Len(s) - 1]
                                  ELSE IF n \in inside THEN h.prev[n] ELSE h.next[n])
                  /\ g.prev[n] = (IF n = s[Len(s) - 1] THEN s[1] ELSE IF n = s[Len(s)] THEN s[2]
                                  ELSE IF n \in inside THEN h.next[n] ELSE h.prev[n])
<1> DEFINE s == c[l]
           N == Len(s)
           inside == {s[n] : n \in 2 .. N - 1}
           w == Swapped(h, inside)
           u1 == Apply(w, <<s[1], "next", s[N - 1]>>)
           turned == Apply(u1, <<s[N], "prev", s[2]>>)
           v1 == Apply(turned, <<s[N - 1], "prev", s[1]>>)
           g == Apply(v1, <<s[2], "next", s[N]>>)
<1>1. /\ s \in Seq(Node) /\ N \in Nat /\ N >= 2 /\ Distinct(s) /\ h \in Heap
      /\ (\A n \in 1 .. N : s[n] \in Node) /\ s[1] = list_head(l) /\ s[N] = list_end(l)
  BY ChainOf DEF Shape
<1>2. N >= 3
  <2>1. N \in Nat /\ N >= 2 /\ N # 2
    BY <1>1
  <2> HIDE DEF N
  <2> QED BY <2>1
<1>3. ToSet(Forward(h, l)) = inside
  BY InsideSet DEF Shape
<1>4. /\ h.next[s[1]] = s[2] /\ h.prev[s[N]] = s[N - 1]
      /\ h.prev[s[2]] = s[1] /\ h.next[s[N - 1]] = s[N]
  <2>1. /\ 1 \in 1 .. N /\ N \in 1 .. N /\ 2 \in 1 .. N /\ N - 1 \in 1 .. N
        /\ 1 # N /\ N # 1 /\ 2 # 1 /\ N - 1 # N /\ 1 + 1 = 2 /\ 2 - 1 = 1 /\ (N - 1) + 1 = N
    BY <1>1, <1>2
  <2> QED BY <2>1, LinksAt
<1> HIDE DEF s, N
<1>5. /\ s[1] \in Node /\ s[2] \in Node /\ s[N - 1] \in Node /\ s[N] \in Node
      /\ s[2] \in inside /\ s[N - 1] \in inside /\ s[1] \notin inside /\ s[N] \notin inside
      /\ s[1] # s[2] /\ s[1] # s[N] /\ s[1] # s[N - 1] /\ s[2] # s[N] /\ s[N - 1] # s[N]
  <2>1. /\ 1 \in 1 .. N /\ N \in 1 .. N /\ 2 \in 1 .. N /\ N - 1 \in 1 .. N /\ 2 \in 2 .. N - 1
        /\ N - 1 \in 2 .. N - 1 /\ 1 # 2 /\ 1 # N /\ 1 # N - 1 /\ 2 # N /\ N - 1 # N
    BY <1>1, <1>2
  <2>2. \A n \in 2 .. N - 1 : n \in 1 .. N /\ n # 1 /\ n # N
    BY <1>1, <1>2
  <2>3. \A i, j \in 1 .. N : s[i] = s[j] => i = j
    BY <1>1 DEF Distinct, N
  <2> QED BY <1>1, <2>1, <2>2, <2>3
<1>6. /\ w \in Heap
      /\ \A n \in Node : /\ w.next[n] = (IF n \in inside THEN h.prev[n] ELSE h.next[n])
                         /\ w.prev[n] = (IF n \in inside THEN h.next[n] ELSE h.prev[n])
  <2> HIDE DEF inside
  <2> QED BY <1>1 DEF Swapped, Heap
<1> HIDE DEF w, inside
<1>7. w.next[s[1]] = s[2] /\ w.prev[s[N]] = s[N - 1]
  BY <1>4, <1>5, <1>6
<1>8. Stored(w, u1, s[1], "next", s[N - 1])
  BY <1>5, <1>6, ApplyIs
<1> HIDE DEF u1
<1>9. u1 \in Heap
  BY <1>8 DEF Stored
<1>10. Stored(u1, turned, s[N], "prev", s[2])
  BY <1>5, <1>9, ApplyIs
<1>11. turned = Run(w, << <<s[1], "next", s[N - 1]>>, <<s[N], "prev", s[2]>> >>)
  BY RunTwo DEF u1
<1> HIDE DEF turned
<1>12. turned \in Heap /\ turned.next[s[2]] = s[1] /\ turned.prev[s[N - 1]] = s[N]
  BY <1>4, <1>5, <1>6, <1>8, <1>10 DEF Stored
<1>13. Stored(turned, v1, s[N - 1], "prev", s[1])
  BY <1>5, <1>12, ApplyIs
<1> HIDE DEF v1
<1>14. v1 \in Heap
  BY <1>13 DEF Stored
<1>15. Stored(v1, g, s[2], "next", s[N])
  BY <1>5, <1>14, ApplyIs
<1>16. g = Run(turned, << <<s[N - 1], "prev", s[1]>>, <<s[2], "next", s[N]>> >>)
  BY RunTwo DEF v1
<1> HIDE DEF g
<1>17. list_reverse(h, l) = g
  <2>1. ~list_empty(h, l)
    BY <1>1, <1>4, <1>5 DEF list_empty, list_begin
  <2>2. w = Swapped(h, ToSet(Forward(h, l)))
    BY <1>3 DEF w
  <2>3. w.next[list_head(l)] = s[2] /\ w.prev[list_end(l)] = s[N - 1]
    BY <1>1, <1>7
  <2>4. turned = Run(w, << <<list_head(l), "next", s[N - 1]>>, <<list_end(l), "prev", s[2]>> >>)
    BY <1>1, <1>11
  <2>5. g = Run(turned, << <<s[N - 1], "prev", turned.next[s[2]]>>,
                           <<s[2], "next", turned.prev[s[N - 1]]>> >>)
    BY <1>12, <1>16
  <2> QED BY <2>1, <2>2, <2>3, <2>4, <2>5 DEF list_reverse
<1>18. /\ g \in Heap
       /\ \A n \in Node :
            /\ g.next[n] = (IF n = s[2] THEN s[N] ELSE IF n = s[1] THEN s[N - 1]
                            ELSE IF n \in inside THEN h.prev[n] ELSE h.next[n])
            /\ g.prev[n] = (IF n = s[N - 1] THEN s[1] ELSE IF n = s[N] THEN s[2]
                            ELSE IF n \in inside THEN h.next[n] ELSE h.prev[n])
  BY <1>5, <1>6, <1>8, <1>10, <1>13, <1>15 DEF Stored
<1> QED BY <1>17, <1>18 DEF s, N, inside

\* list_reverse turns the inside of a chain around.
LEMMA ReverseKeeps ==
  ASSUME NEW h, NEW c, Shape(h, c), NEW l \in List
  PROVE  /\ Shape(list_reverse(h, l), [c EXCEPT ![l] = TurnAround(@)])
         /\ TurnAround(c[l]) \in Seq(Node) /\ Len(TurnAround(c[l])) = Len(c[l])
<1> DEFINE s == c[l]
           N == Len(s)
           inside == {s[n] : n \in 2 .. N - 1}
           g == list_reverse(h, l)
           t == TurnAround(s)
           d == [c EXCEPT ![l] = TurnAround(@)]
<1>1. /\ s \in Seq(Node) /\ N \in Nat /\ N >= 2 /\ Distinct(s) /\ h \in Heap
      /\ (\A n \in 1 .. N : s[n] \in Node) /\ s[1] = list_head(l) /\ s[N] = list_end(l)
      /\ \A n \in 2 .. N - 1 : s[n] \in Elem
  BY ChainOf DEF Shape
<1>2. IsChains(c) /\ c \in [List -> Seq(Node)]
  BY DEF Shape, IsChains
<1>3. CASE N = 2
  <2>1. 1 \in 1 .. N /\ 1 # N /\ 1 + 1 = N
    BY <1>1, <1>3
  <2>2. h.next[s[1]] = s[N]
    BY <2>1, LinksAt
  <2>3. g = h
    BY <1>1, <2>2 DEF list_reverse, list_empty, list_begin
  <2>4. t = s
    <3>1. t = [n \in 1 .. N |-> IF n = 1 \/ n = N THEN s[n] ELSE s[N - n + 1]]
      BY DEF TurnAround
    <3>2. \A n \in 1 .. N : n = 1 \/ n = N
      BY <1>3
    <3>3. s = [n \in 1 .. N |-> s[n]]
      BY <1>1
    <3> HIDE DEF t, s, N
    <3> QED BY <3>1, <3>2, <3>3
  <2>5. d = c
    BY <1>2, <2>4
  <2> HIDE DEF g, d, t
  <2>6. Shape(g, d) /\ t \in Seq(Node) /\ Len(t) = N
    BY <1>1, <2>3, <2>4, <2>5
  <2> QED BY <2>6 DEF g, d, t
<1>4. CASE N # 2
  <2>1. /\ g \in Heap
        /\ \A n \in Node :
             /\ g.next[n] = (IF n = s[2] THEN s[N] ELSE IF n = s[1] THEN s[N - 1]
                             ELSE IF n \in inside THEN h.prev[n] ELSE h.next[n])
             /\ g.prev[n] = (IF n = s[N - 1] THEN s[1] ELSE IF n = s[N] THEN s[2]
                             ELSE IF n \in inside THEN h.next[n] ELSE h.prev[n])
    BY <1>4, ReverseLinks
  <2>2. N >= 3
    <3>1. N \in Nat /\ N >= 2 /\ N # 2
      BY <1>1, <1>4
    <3> HIDE DEF N
    <3> QED BY <3>1
  <2>3. d[l] = t /\ \A m \in List : m # l => d[m] = c[m]
    BY <1>2
  <2>4. d = [c EXCEPT ![l] = t]
    OBVIOUS
  <2>5. \A m \in List : /\ h.next[list_end(m)] = NULL /\ h.prev[list_head(m)] = NULL
                        /\ \A n \in 1 .. Len(c[m]) - 1 : /\ h.next[c[m][n]] = c[m][n + 1]
                                                         /\ h.prev[c[m][n + 1]] = c[m][n]
    BY DEF Shape, Nexts, Prevs
  <2>6. t = [n \in 1 .. N |-> IF n = 1 \/ n = N THEN s[n] ELSE s[N - n + 1]]
    BY DEF TurnAround
  <2> HIDE DEF s, N, inside, g, t, d
  <2>7. /\ t \in Seq(Node) /\ Len(t) = N /\ t[1] = s[1] /\ t[N] = s[N]
        /\ \A n \in 2 .. N - 1 : t[n] = s[N - n + 1] /\ N - n + 1 \in 2 .. N - 1
    <3>1. \A n \in 1 .. N : (IF n = 1 \/ n = N THEN s[n] ELSE s[N - n + 1]) \in Node
      <4>1. \A n \in 1 .. N : N - n + 1 \in 1 .. N
        BY <1>1
      <4> QED BY <1>1, <4>1
    <3>2. 1 \in 1 .. N /\ N \in 1 .. N
      BY <1>1
    <3>3. ASSUME NEW n \in 2 .. N - 1
          PROVE  n \in 1 .. N /\ n # 1 /\ n # N /\ N - n + 1 \in 2 .. N - 1
      BY <1>1
    <3>4. t \in Seq(Node) /\ Len(t) = N
      BY <1>1, <2>6, <3>1
    <3> QED BY <2>6, <3>2, <3>3, <3>4
  <2>8. \A n \in 1 .. N : n = 1 \/ n = N \/ n \in 2 .. N - 1
    BY <1>1
  <2>9. ASSUME NEW i \in 1 .. N, NEW j \in 1 .. N, s[i] = s[j] PROVE i = j
    BY <1>1, <2>9 DEF Distinct, N
  <2>10. ASSUME NEW n \in 1 .. N
         PROVE  \E x \in 1 .. N : t[n] = s[x] /\ (n \in 2 .. N - 1 => x = N - n + 1)
                                             /\ (n = 1 \/ n = N => x = n)
    <3>1. CASE n \in 2 .. N - 1
      <4>1. N - n + 1 \in 1 .. N /\ n # 1 /\ n # N
        BY <1>1, <3>1
      <4> QED BY <2>7, <3>1, <4>1
    <3>2. CASE n = 1 \/ n = N
      <4>1. n \notin 2 .. N - 1
        BY <1>1, <3>2
      <4> QED BY <2>7, <3>2, <4>1
    <3> QED BY <2>8, <3>1, <3>2
  <2>11. IsChains(d)
    <3>1. d \in [List -> Seq(Node)]
      BY <1>2, <2>4, <2>7
    <3>2. ASSUME NEW m \in List
          PROVE  /\ Len(d[m]) >= 2 /\ d[m][1] = list_head(m) /\ d[m][Len(d[m])] = list_end(m)
                 /\ \A n \in 2 .. Len(d[m]) - 1 : d[m][n] \in Elem
      <4>1. CASE m = l
        BY <1>1, <2>3, <2>7, <4>1
      <4>2. CASE m # l
        BY <1>2, <2>3, <4>2 DEF IsChains
      <4> QED BY <4>1, <4>2
    <3>3. ASSUME NEW i \in 1 .. N, NEW j \in 1 .. N, t[i] = t[j] PROVE i = j
      <4>1. PICK x \in 1 .. N : t[i] = s[x] /\ (i \in 2 .. N - 1 => x = N - i + 1)
                                /\ (i = 1 \/ i = N => x = i)
        BY <2>10
      <4>2. PICK y \in 1 .. N : t[j] = s[y] /\ (j \in 2 .. N - 1 => y = N - j + 1)
                                /\ (j = 1 \/ j = N => y = j)
        BY <2>10
      <4>3. x = y
        BY <2>9, <3>3, <4>1, <4>2
      <4> QED BY <1>1, <2>2, <2>8, <4>1, <4>2, <4>3
    <3>4. ASSUME NEW m \in List, m # l, NEW i \in 1 .. N, NEW q \in 1 .. Len(c[m])
          PROVE  t[i] # c[m][q]
      BY <1>2, <2>10, <3>4 DEF IsChains, s, N
    <3>5. ASSUME NEW a \in List, NEW b \in List, NEW n \in 1 .. Len(d[a]), NEW q \in 1 .. Len(d[b]),
                 d[a][n] = d[b][q]
          PROVE  a = b /\ n = q
      <4>1. CASE a = l /\ b = l
        BY <2>3, <2>7, <3>3, <3>5, <4>1
      <4>2. CASE a = l /\ b # l
        <5>1. n \in 1 .. N /\ q \in 1 .. Len(c[b]) /\ t[n] = c[b][q]
          BY <2>3, <2>7, <3>5, <4>2
        <5> QED BY <3>4, <4>2, <5>1
      <4>3. CASE a # l /\ b = l
        <5>1. q \in 1 .. N /\ n \in 1 .. Len(c[a]) /\ t[q] = c[a][n]
          BY <2>3, <2>7, <3>5, <4>3
        <5> QED BY <3>4, <4>3, <5>1
      <4>4. CASE a # l /\ b # l
        BY <1>2, <2>3, <3>5, <4>4 DEF IsChains
      <4> QED BY <4>1, <4>2, <4>3, <4>4
    <3> QED BY <3>1, <3>2, <3>5 DEF IsChains
  <2>12. /\ s[1] # s[2] /\ s[N] # s[N - 1] /\ s[1] # s[N - 1] /\ s[N] # s[2]
         /\ 1 \in 1 .. N /\ 2 \in 1 .. N /\ N - 1 \in 1 .. N /\ N \in 1 .. N
         /\ s[1] \notin inside /\ s[N] \notin inside
    <3>1. /\ 1 \in 1 .. N /\ 2 \in 1 .. N /\ N - 1 \in 1 .. N /\ N \in 1 .. N
          /\ 1 # 2 /\ N # N - 1 /\ 1 # N - 1 /\ N # 2
      BY <1>1, <2>2
    <3>2. \A n \in 2 .. N - 1 : n \in 1 .. N /\ n # 1 /\ n # N
      BY <1>1
    <3> QED BY <2>9, <3>1, <3>2 DEF inside
  <2>13. ASSUME NEW n \in 1 .. N - 1
         PROVE  g.next[t[n]] = t[n + 1] /\ g.prev[t[n + 1]] = t[n]
    <3>1. CASE n = 1
      <4>1. 2 \in 2 .. N - 1 /\ N - 2 + 1 = N - 1 /\ n + 1 = 2
        BY <1>1, <2>2, <3>1
      <4>2. t[n] = s[1] /\ t[n + 1] = s[N - 1]
        BY <2>7, <3>1, <4>1
      <4> QED BY <1>1, <2>1, <2>12, <4>2
    <3>2. CASE n = N - 1
      <4>1. N - 1 \in 2 .. N - 1 /\ N - (N - 1) + 1 = 2 /\ n + 1 = N
        BY <1>1, <2>2, <3>2
      <4>2. t[n] = s[2] /\ t[n + 1] = s[N]
        BY <2>7, <3>2, <4>1
      <4> QED BY <1>1, <2>1, <2>12, <4>2
    <3>3. CASE n # 1 /\ n # N - 1
      <4> DEFINE x == N - n
      <4>1. /\ n \in 2 .. N - 1 /\ n + 1 \in 2 .. N - 1 /\ N - n + 1 = x + 1 /\ N - (n + 1) + 1 = x
            /\ x \in 2 .. N - 1 /\ x + 1 \in 2 .. N - 1 /\ x \in 1 .. N - 1
            /\ x \in 1 .. N /\ x + 1 \in 1 .. N /\ x # N - 1 /\ x + 1 # 2 /\ x # N /\ x + 1 # 1
            /\ x + 1 # N /\ x # 1
        BY <1>1, <2>2, <3>3
      <4> HIDE DEF x
      <4>2. t[n] = s[x + 1] /\ t[n + 1] = s[x]
        <5>1. t[n] = s[N - n + 1]
          BY <2>7, <4>1
        <5>2. t[n + 1] = s[N - (n + 1) + 1]
          BY <2>7, <4>1
        <5> QED BY <4>1, <5>1, <5>2
      <4>3. h.next[s[x]] = s[x + 1] /\ h.prev[s[x + 1]] = s[x]
        BY <2>5, <4>1 DEF s, N
      <4>4. /\ s[x] \in inside /\ s[x + 1] \in inside /\ s[x] \in Node /\ s[x + 1] \in Node
            /\ s[x] # s[N - 1] /\ s[x] # s[N] /\ s[x + 1] # s[2] /\ s[x + 1] # s[1]
        BY <1>1, <2>9, <2>12, <4>1 DEF inside
      <4> QED BY <2>1, <4>2, <4>3, <4>4
    <3> QED BY <3>1, <3>2, <3>3
  <2>14. ASSUME NEW m \in List, m # l, NEW n \in 1 .. Len(c[m])
         PROVE  g.next[c[m][n]] = h.next[c[m][n]] /\ g.prev[c[m][n]] = h.prev[c[m][n]]
    <3>1. \A x \in 1 .. N : c[m][n] # s[x]
      BY <1>2, <2>14 DEF IsChains, s, N
    <3>2. c[m][n] \notin inside
      <4>1. \A x \in 2 .. N - 1 : x \in 1 .. N
        BY <1>1
      <4> QED BY <3>1, <4>1 DEF inside
    <3>3. c[m][n] \in Node
      BY <1>2, ChainOf
    <3> QED BY <2>1, <2>12, <3>1, <3>2, <3>3
  <2>15. ASSUME NEW m \in List
         PROVE  /\ g.next[list_end(m)] = NULL /\ g.prev[list_head(m)] = NULL
                /\ \A n \in 1 .. Len(d[m]) - 1 : /\ g.next[d[m][n]] = d[m][n + 1]
                                                 /\ g.prev[d[m][n + 1]] = d[m][n]
    <3>1. CASE m = l
      <4>1. g.next[s[N]] = h.next[s[N]] /\ g.prev[s[1]] = h.prev[s[1]]
        <5>1. 1 # N
          BY <2>2
        <5>2. s[1] # s[N] /\ s[1] \in Node /\ s[N] \in Node
          BY <1>1, <2>9, <2>12, <5>1
        <5> QED BY <2>1, <2>12, <5>2
      <4> QED BY <1>1, <2>3, <2>5, <2>7, <2>13, <3>1, <4>1
    <3>2. CASE m # l
      <4>1. /\ Len(c[m]) \in Nat /\ Len(c[m]) >= 2
            /\ list_end(m) = c[m][Len(c[m])] /\ list_head(m) = c[m][1]
        BY <1>2, ChainOf
      <4>2. Len(c[m]) \in 1 .. Len(c[m]) /\ 1 \in 1 .. Len(c[m])
        BY <4>1
      <4>3. g.next[list_end(m)] = NULL /\ g.prev[list_head(m)] = NULL
        BY <2>5, <2>14, <3>2, <4>1, <4>2
      <4>4. ASSUME NEW n \in 1 .. Len(c[m]) - 1
            PROVE  g.next[c[m][n]] = c[m][n + 1] /\ g.prev[c[m][n + 1]] = c[m][n]
        <5>1. n \in 1 .. Len(c[m]) /\ n + 1 \in 1 .. Len(c[m])
          BY <4>1
        <5>2. h.next[c[m][n]] = c[m][n + 1] /\ h.prev[c[m][n + 1]] = c[m][n]
          BY <2>5
        <5> QED BY <2>14, <3>2, <5>1, <5>2
      <4> QED BY <2>3, <3>2, <4>3, <4>4
    <3> QED BY <3>1, <3>2
  <2>16. Shape(g, d)
    BY <2>1, <2>11, <2>15 DEF Shape, Nexts, Prevs
  <2> QED BY <2>7, <2>16 DEF g, d, t, s, N
<1> QED BY <1>3, <1>4

\* A loop to the first node of S finds it on the chain.
LEMMA FirstFound ==
  ASSUME NEW h, NEW c, Shape(h, c), NEW l \in List, NEW i \in 1 .. Len(c[l]), NEW S,
         list_end(l) \in S
  PROVE  \E j \in i .. Len(c[l]) : /\ FirstIn(h, c[l][i], S) = c[l][j] /\ c[l][j] \in S
                                   /\ \A n \in i .. j - 1 : c[l][n] \notin S
<1> DEFINE s == c[l]
           N == Len(s)
           body == [m \in Node |-> IF m \in S THEN m ELSE h.next[m]]
<1>1. /\ s \in Seq(Node) /\ N \in Nat /\ N >= 2 /\ Distinct(s) /\ s[N] = list_end(l)
      /\ (\A n \in 1 .. N : s[n] \in Node) /\ Rounds \in Nat /\ N <= Rounds
  BY ChainOf, NodesFinite, RoundsSuffice DEF Shape
<1>2. \A n \in 1 .. N - 1 : h.next[s[n]] = s[n + 1]
  BY DEF Shape, Nexts
<1>3. i \in 1 .. N /\ FirstIn(h, c[l][i], S) = Iterate(body, s[i], Rounds)
  BY DEF FirstIn
<1> HIDE DEF s, N
<1>4. PICK j \in {n \in i .. N : s[n] \in S} : \A n \in {n \in i .. N : s[n] \in S} : j <= n
  <2>1. N \in {n \in i .. N : s[n] \in S} /\ {n \in i .. N : s[n] \in S} \subseteq Nat
    BY <1>1, <1>3
  <2> QED BY <2>1, Smallest
<1>5. j \in i .. N /\ j \in Nat /\ i \in Nat /\ s[j] \in S /\ \A n \in i .. j - 1 : s[n] \notin S
  <2>1. \A n \in i .. j - 1 : n \in i .. N /\ ~(j <= n)
    BY <1>1, <1>3, <1>4
  <2> QED BY <1>1, <1>3, <1>4, <2>1
<1> DEFINE E == {s[j]}
           W == [q \in Nat |-> {s[n] : n \in {n \in i .. j : j - n <= q}}]
<1>6. \A n \in i .. j : body[s[n]] = IF n = j THEN s[n] ELSE s[n + 1]
  <2>1. ASSUME NEW n \in i .. j
        PROVE  s[n] \in Node /\ (n # j => n \in 1 .. N - 1 /\ n \in i .. j - 1)
    BY <1>1, <1>3, <1>5
  <2> QED BY <1>2, <1>5, <2>1
<1> HIDE DEF body
<1>7. \A x \in E : body[x] \in E
  <2>1. j \in i .. j
    BY <1>5
  <2> QED BY <1>6, <2>1
<1>8. ASSUME NEW q \in Nat, NEW x \in W[q]
      PROVE  body[x] \in E \/ \E p \in Nat : p < q /\ body[x] \in W[p]
  <2>1. PICK n \in i .. j : x = s[n] /\ j - n <= q
    OBVIOUS
  <2>2. CASE n = j \/ n + 1 = j
    <3>1. body[x] = s[j]
      BY <1>6, <2>1, <2>2
    <3> QED BY <3>1
  <2>3. CASE n # j /\ n + 1 # j
    <3>1. body[x] = s[n + 1]
      BY <1>6, <2>1, <2>3
    <3>2. n + 1 \in i .. j /\ j - (n + 1) <= q - 1 /\ q - 1 \in Nat /\ q - 1 < q
      BY <1>5, <2>1, <2>3
    <3>3. body[x] \in W[q - 1]
      BY <3>1, <3>2
    <3> HIDE DEF W
    <3> QED BY <3>2, <3>3
  <2> QED BY <2>2, <2>3
<1>9. s[i] \in W[j - i] /\ j - i \in Nat /\ j - i < Rounds
  BY <1>1, <1>3, <1>5
<1>10. Iterate(body, s[i], Rounds) \in E
  <2> HIDE DEF W, E
  <2> QED BY <1>1, <1>7, <1>8, <1>9, LoopEnds
<1>11. FirstIn(h, s[i], S) = s[j]
  BY <1>3, <1>10 DEF s
<1> QED BY <1>5, <1>11 DEF s, N

\* The element at n comes before those at its left in the order of the keys.
Falls(s) == {n \in 3 .. Len(s) - 1 : less(s[n], s[n - 1])}

\* A run that begins at an element of a list ends where the keys fall, or with the list.
LEMMA RunEnds ==
  ASSUME NEW h, NEW c, Shape(h, c), NEW l \in List, NEW i \in 2 .. Len(c[l]) - 1
  PROVE  \E j \in i + 1 .. Len(c[l]) : /\ find_end_of_run(h, c[l][i], list_end(l)) = c[l][j]
                                       /\ j \in Falls(c[l]) \/ j = Len(c[l])
                                       /\ \A n \in i + 1 .. j - 1 : n \notin Falls(c[l])
<1> DEFINE s == c[l]
           N == Len(s)
           S == {list_end(l)} \cup {n \in Elem : h.prev[n] \in Elem /\ less(n, h.prev[n])}
<1>1. /\ N \in Nat /\ s[N] = list_end(l) /\ Distinct(s) /\ list_end(l) \notin Elem
      /\ \A n \in 2 .. N - 1 : s[n] \in Elem
  BY ChainOf, NodesApart DEF Shape
<1>2. i \in 1 .. N /\ i # N /\ i + 1 \in 1 .. N /\ N \in i + 1 .. N /\ i \in Nat /\ i >= 2
  BY <1>1
<1>3. h.next[c[l][i]] = c[l][i + 1]
  BY <1>2, LinksAt
<1>4. \E j \in i + 1 .. N : /\ FirstIn(h, c[l][i + 1], S) = c[l][j] /\ c[l][j] \in S
                            /\ \A n \in i + 1 .. j - 1 : c[l][n] \notin S
  <2>1. ASSUME NEW x \in 1 .. N, list_end(l) \in S
        PROVE  \E j \in x .. N : /\ FirstIn(h, c[l][x], S) = c[l][j] /\ c[l][j] \in S
                                 /\ \A n \in x .. j - 1 : c[l][n] \notin S
    <3> HIDE DEF S
    <3> QED BY <2>1, FirstFound
  <2>2. list_end(l) \in S
    OBVIOUS
  <2> HIDE DEF S, N
  <2> QED BY <1>2, <2>1, <2>2
<1>5. PICK j \in i + 1 .. N : /\ FirstIn(h, c[l][i + 1], S) = s[j] /\ s[j] \in S
                              /\ \A n \in i + 1 .. j - 1 : s[n] \notin S
  BY <1>4
<1>6. ASSUME NEW n \in i + 1 .. N - 1 PROVE s[n] \in S <=> n \in Falls(s)
  <2>1. /\ n \in 2 .. N - 1 /\ n \in 3 .. N - 1 /\ n \in 1 .. N
        /\ n # 1 /\ n - 1 \in 2 .. N - 1 /\ n # N
    BY <1>1, <1>2
  <2>2. s[n] \in Elem /\ s[n - 1] \in Elem /\ s[n] # list_end(l)
    BY <1>1, <2>1
  <2>3. h.prev[s[n]] = s[n - 1]
    BY <2>1, LinksAt
  <2> QED BY <2>1, <2>2, <2>3 DEF Falls
<1>7. j \in Falls(s) \/ j = N
  <2>1. j # N => j \in i + 1 .. N - 1
    BY <1>1, <1>2
  <2> QED BY <1>5, <1>6, <2>1
<1>8. ASSUME NEW n \in i + 1 .. j - 1 PROVE n \notin Falls(s)
  <2>1. n \in i + 1 .. N - 1
    BY <1>1, <1>2
  <2> QED BY <1>5, <1>6, <2>1
<1>9. find_end_of_run(h, c[l][i], list_end(l)) = s[j]
  BY <1>3, <1>5 DEF find_end_of_run
<1> HIDE DEF S
<1> QED BY <1>7, <1>8, <1>9

\* The element at j is moved before the one at i.
LEMMA MovedIs ==
  ASSUME NEW s \in Seq(Node), NEW i \in 2 .. Len(s) - 1, NEW j \in i + 1 .. Len(s) - 1,
         s[j] \in Elem
  PROVE  LET t == PutIn(CutOut(s, j, j), i, Part(s, j, j))
         IN  /\ Len(t) = Len(s)
             /\ \A n \in 1 .. Len(s) : t[n] = IF n < i \/ n > j THEN s[n]
                                              ELSE IF n = i THEN s[j] ELSE s[n - 1]
<1> DEFINE N == Len(s)
           u == CutOut(s, j, j)
           p == Part(s, j, j)
           t == PutIn(u, i, p)
<1>1. N \in Nat
  OBVIOUS
<1>2. /\ i \in Nat /\ j \in Nat /\ 2 <= i /\ i < j /\ j < N /\ j - j + 1 = 1
      /\ j \in 2 .. N - 1 /\ j \in j .. N - 1
  BY <1>1
<1>3. /\ u \in Seq(Node) /\ Len(u) = N - 1
      /\ \A n \in 1 .. Len(u) :
           \/ n < j /\ u[n] = s[n] /\ n \in 1 .. N
           \/ n >= j /\ u[n] = s[n + 1] /\ n + 1 \in 1 .. N /\ n + 1 > j
  <2> HIDE DEF u
  <2> QED BY <1>2, CutIs DEF u
<1>4. p \in Seq(Elem) /\ Len(p) = 1 /\ p[1] = s[j]
  <2>1. p = [n \in 1 .. 1 |-> s[n + j - 1]]
    BY <1>2 DEF Part
  <2>2. 1 + j - 1 = j
    BY <1>2
  <2>3. \A n \in 1 .. 1 : s[n + j - 1] = s[j]
    BY <2>2
  <2>4. 1 \in 1 .. 1
    OBVIOUS
  <2> HIDE DEF p
  <2> QED BY <2>1, <2>3, <2>4
<1> HIDE DEF p, u
<1>5. i \in 2 .. Len(u)
  BY <1>1, <1>2, <1>3
<1>6. /\ t \in Seq(Node) /\ Len(t) = Len(u) + Len(p)
      /\ \A n \in 1 .. Len(t) :
           \/ n < i /\ t[n] = u[n] /\ n \in 1 .. Len(u)
           \/ n >= i /\ n < i + Len(p) /\ t[n] = p[n - i + 1] /\ n - i + 1 \in 1 .. Len(p)
           \/ /\ n >= i + Len(p) /\ t[n] = u[n - Len(p)]
              /\ n - Len(p) \in 1 .. Len(u) /\ n - Len(p) >= i
  BY <1>3, <1>4, <1>5, PutIs
<1> HIDE DEF t, N
<1>7. Len(t) = N
  BY <1>1, <1>3, <1>4, <1>6
<1>8. p[1] = s[j]
  BY <1>4
<1>9. ASSUME NEW n \in 1 .. N
      PROVE  t[n] = IF n < i \/ n > j THEN s[n] ELSE IF n = i THEN s[j] ELSE s[n - 1]
  <2>1. n \in 1 .. Len(t)
    BY <1>7
  <2>2. CASE n < i
    <3>1. ~(n >= i) /\ ~(n >= i + Len(p)) /\ n < j /\ ~(n >= j)
      BY <1>2, <1>4, <2>2
    <3>2. t[n] = u[n] /\ n \in 1 .. Len(u)
      BY <1>6, <2>1, <3>1
    <3>3. u[n] = s[n]
      BY <1>3, <3>1, <3>2
    <3> QED BY <2>2, <3>2, <3>3
  <2>3. CASE n = i
    <3>1. n - i + 1 = 1 /\ n < i + Len(p) /\ ~(n < i) /\ ~(n >= i + Len(p)) /\ ~(n > j)
      BY <1>2, <1>4, <2>3
    <3>2. t[n] = p[n - i + 1]
      BY <1>6, <2>1, <3>1
    <3> QED BY <1>8, <2>3, <3>1, <3>2
  <2>4. CASE n > i
    <3>1. t[n] = u[n - 1] /\ n - 1 \in 1 .. Len(u)
      BY <1>2, <1>4, <1>6, <2>1, <2>4
    <3>2. \/ n - 1 < j /\ u[n - 1] = s[n - 1]
          \/ n - 1 >= j /\ u[n - 1] = s[(n - 1) + 1]
      BY <1>3, <3>1
    <3>3. (n - 1) + 1 = n
      OBVIOUS
    <3> QED BY <1>2, <2>4, <3>1, <3>2, <3>3
  <2> QED BY <1>2, <2>2, <2>3, <2>4
<1> QED BY <1>7, <1>9 DEF t, u, p, N

\* No list has the element e.
Free(c, e) == \A m \in List : \A n \in 1 .. Len(c[m]) : e # c[m][n]

\* The element after the one at i is taken out of its list.
LEMMA NextRemoved ==
  ASSUME NEW h, NEW c, Shape(h, c), NEW l \in List, NEW i \in 2 .. Len(c[l]) - 1,
         h.next[c[l][i]] # list_end(l)
  PROVE  LET next == h.next[c[l][i]]
             d == [c EXCEPT ![l] = CutOut(@, i + 1, i + 1)]
         IN  /\ Shape(Run(h, list_remove(h, next)), d) /\ Free(d, next) /\ next \in Elem
             /\ i \in 2 .. Len(d[l]) - 1 /\ d[l][i] = c[l][i]
             /\ next = c[l][i + 1] /\ i + 1 \in 2 .. Len(c[l]) - 1
<1> DEFINE s == c[l]
           N == Len(s)
           next == h.next[s[i]]
           d == [c EXCEPT ![l] = CutOut(@, i + 1, i + 1)]
           t == CutOut(s, i + 1, i + 1)
<1>1. s \in Seq(Node) /\ N \in Nat /\ s[N] = list_end(l) /\ \A x \in 2 .. N - 1 : s[x] \in Elem
  BY ChainOf DEF Shape
<1>2. i \in 1 .. N /\ i # N /\ i \in Nat /\ i >= 2 /\ i <= N - 1
  BY <1>1
<1>3. next = s[i + 1]
  BY <1>2, LinksAt
<1>4. i + 1 # N
  BY <1>1, <1>3
<1>5. /\ i + 1 \in 2 .. N - 1 /\ i + 1 \in i + 1 .. N - 1 /\ (i + 1) - (i + 1) + 1 = 1
      /\ i <= N - 2
  <2> HIDE DEF N
  <2> QED BY <1>1, <1>2, <1>4
<1>6. Shape(Run(h, list_remove(h, s[i + 1])), d) /\ Free(d, s[i + 1])
  <2>1. ASSUME NEW x \in 2 .. Len(c[l]) - 1
        PROVE  /\ Shape(Run(h, list_remove(h, c[l][x])), [c EXCEPT ![l] = CutOut(@, x, x)])
               /\ Free([c EXCEPT ![l] = CutOut(@, x, x)], c[l][x])
    BY RemoveKeeps DEF Free
  <2>2. i + 1 \in 2 .. Len(c[l]) - 1
    BY <1>5
  <2> HIDE DEF Free
  <2> QED BY <2>1, <2>2
<1>7. d[l] = t
  BY DEF Shape, IsChains
<1>8. /\ Len(t) = N - 1
      /\ \A n \in 1 .. Len(t) :
           \/ n < i + 1 /\ t[n] = s[n] /\ n \in 1 .. N
           \/ n >= i + 1 /\ t[n] = s[n + 1] /\ n + 1 \in 1 .. N /\ n + 1 > i + 1
  <2>1. LET k == (i + 1) - (i + 1) + 1
        IN  /\ Len(t) = N - k
            /\ \A n \in 1 .. Len(t) :
                 \/ n < i + 1 /\ t[n] = s[n] /\ n \in 1 .. N
                 \/ n >= i + 1 /\ t[n] = s[n + k] /\ n + k \in 1 .. N /\ n + k > i + 1
    <3> HIDE DEF s
    <3> QED BY <1>1, <1>5, CutIs
  <2> HIDE DEF t, s, N
  <2> QED BY <1>5, <2>1
<1>9. i \in 2 .. Len(t) - 1 /\ t[i] = s[i]
  <2> HIDE DEF t, s, N
  <2>1. i \in 2 .. Len(t) - 1 /\ i \in 1 .. Len(t) /\ ~(i >= i + 1)
    BY <1>1, <1>2, <1>5, <1>8
  <2> QED BY <1>8, <2>1
<1> HIDE DEF next, t, s
<1> QED BY <1>1, <1>3, <1>5, <1>6, <1>7, <1>9 DEF s, next

-----------------------------------------------------------------------------
(* Operations whose stores a handler can see one by one.                   *)

\* What a walk relies on: the links forward, and a link back of every element.
Walkable(h, c) ==
  /\ h \in Heap /\ IsChains(c) /\ Nexts(h, c)
  /\ \A l \in List : /\ h.prev[list_head(l)] = NULL
                     /\ \A i \in 2 .. Len(c[l]) - 1 : h.prev[c[l][i]] # NULL

\* Lists can be walked.
LEMMA ShapeWalkable ==
  ASSUME NEW h, NEW c, Shape(h, c)
  PROVE  Walkable(h, c)
<1>1. ASSUME NEW l \in List, NEW i \in 2 .. Len(c[l]) - 1 PROVE h.prev[c[l][i]] # NULL
  <2>1. i \in 1 .. Len(c[l]) /\ i # 1
    <3>1. Len(c[l]) \in Nat
      BY ChainOf DEF Shape
    <3>2. \A m \in Nat : \A n \in 2 .. m - 1 : n \in 1 .. m /\ n # 1
      OBVIOUS
    <3> QED BY <3>1, <3>2
  <2>2. h.prev[c[l][i]] \in Node
    BY <2>1, LinksAt
  <2> QED BY <2>2, NodesApart
<1> QED BY <1>1 DEF Walkable, Shape, Prevs

\* So they can before the last store, to a link back, is done.
LEMMA LastStore ==
  ASSUME NEW h \in Heap, NEW g, NEW c, Shape(g, c), NEW n \in Node, NEW v,
         Stored(h, g, n, "prev", v), h.prev[n] # NULL, \A l \in List : n # list_head(l)
  PROVE  Walkable(h, c)
<1>1. Walkable(g, c) /\ IsChains(c)
  BY ShapeWalkable DEF Walkable
<1>2. \A m \in Node : h.next[m] = g.next[m] /\ (m # n => h.prev[m] = g.prev[m])
  BY DEF Stored
<1>3. ASSUME NEW l \in List
      PROVE  /\ h.next[list_end(l)] = NULL /\ h.prev[list_head(l)] = NULL
             /\ \A i \in 1 .. Len(c[l]) - 1 : h.next[c[l][i]] = c[l][i + 1]
             /\ \A i \in 2 .. Len(c[l]) - 1 : h.prev[c[l][i]] # NULL
  <2>1. /\ g.next[list_end(l)] = NULL /\ g.prev[list_head(l)] = NULL
        /\ \A i \in 1 .. Len(c[l]) - 1 : g.next[c[l][i]] = c[l][i + 1]
        /\ \A i \in 2 .. Len(c[l]) - 1 : g.prev[c[l][i]] # NULL
    BY <1>1 DEF Walkable, Nexts
  <2>2. Len(c[l]) \in Nat /\ \A i \in 1 .. Len(c[l]) : c[l][i] \in Node
    BY <1>1, ChainOf
  <2>3. ASSUME NEW i \in 1 .. Len(c[l]) - 1 PROVE h.next[c[l][i]] = c[l][i + 1]
    <3>1. i \in 1 .. Len(c[l])
      BY <2>2
    <3> QED BY <1>2, <2>1, <2>2, <3>1
  <2>4. ASSUME NEW i \in 2 .. Len(c[l]) - 1 PROVE h.prev[c[l][i]] # NULL
    <3>1. i \in 1 .. Len(c[l])
      BY <2>2
    <3> QED BY <1>2, <2>1, <2>2, <3>1
  <2> QED BY <1>2, <2>1, <2>3, <2>4, NodesApart
<1> QED BY <1>1, <1>3 DEF Walkable, Nexts

\* A store to an element that no list has changes no list.
LEMMA FreeStore ==
  ASSUME NEW h, NEW g, NEW c, Walkable(h, c), NEW e \in Elem, Free(c, e),
         NEW f, NEW v, Stored(h, g, e, f, v)
  PROVE  Walkable(g, c)
<1>1. IsChains(c) /\ g \in Heap
  BY DEF Walkable, Stored
<1>2. \A m \in Node : m # e => h.next[m] = g.next[m] /\ h.prev[m] = g.prev[m]
  BY DEF Stored
<1>3. ASSUME NEW l \in List
      PROVE  /\ g.next[list_end(l)] = NULL /\ g.prev[list_head(l)] = NULL
             /\ \A i \in 1 .. Len(c[l]) - 1 : g.next[c[l][i]] = c[l][i + 1]
             /\ \A i \in 2 .. Len(c[l]) - 1 : g.prev[c[l][i]] # NULL
  <2>1. /\ h.next[list_end(l)] = NULL /\ h.prev[list_head(l)] = NULL
        /\ \A i \in 1 .. Len(c[l]) - 1 : h.next[c[l][i]] = c[l][i + 1]
        /\ \A i \in 2 .. Len(c[l]) - 1 : h.prev[c[l][i]] # NULL
    BY DEF Walkable, Nexts
  <2>2. Len(c[l]) \in Nat /\ \A i \in 1 .. Len(c[l]) : c[l][i] \in Node /\ c[l][i] # e
    BY <1>1, ChainOf DEF Free
  <2>3. ASSUME NEW i \in 1 .. Len(c[l]) - 1 PROVE g.next[c[l][i]] = c[l][i + 1]
    <3>1. i \in 1 .. Len(c[l])
      BY <2>2
    <3> QED BY <1>2, <2>1, <2>2, <3>1
  <2>4. ASSUME NEW i \in 2 .. Len(c[l]) - 1 PROVE g.prev[c[l][i]] # NULL
    <3>1. i \in 1 .. Len(c[l])
      BY <2>2
    <3> QED BY <1>2, <2>1, <2>2, <3>1
  <2> QED BY <1>2, <2>1, <2>3, <2>4, NodesApart
<1> QED BY <1>1, <1>3 DEF Walkable, Nexts

\* The heap after the first n of the stores.
After(h, s, n) ==
  IF n = 0 THEN h
  ELSE IF n = 1 THEN Apply(h, s[1])
  ELSE IF n = 2 THEN Apply(Apply(h, s[1]), s[2])
  ELSE IF n = 3 THEN Apply(Apply(Apply(h, s[1]), s[2]), s[3])
  ELSE Apply(Apply(Apply(Apply(h, s[1]), s[2]), s[3]), s[4])

\* Between any two stores of list_insert the lists can be walked: the element is in its
\* list from the third on.
LEMMA InsertStores ==
  ASSUME NEW h, NEW c, Shape(h, c), NEW l \in List, NEW k \in 2 .. Len(c[l]), NEW e \in Elem,
         Free(c, e)
  PROVE  LET s == list_insert(h, c[l][k], e)
             d == [c EXCEPT ![l] = PutIn(@, k, <<e>>)]
         IN  /\ s \in Seq(Node \X {"prev", "next"} \X Node)
             /\ \A n \in 0 .. 2 : Walkable(After(h, s, n), c)
             /\ Walkable(After(h, s, 3), d) /\ Shape(After(h, s, 4), d)
<1> DEFINE b == c[l][k]
           p == h.prev[b]
           s1 == <<e, "prev", p>>
           s2 == <<e, "next", b>>
           s3 == <<p, "next", e>>
           s4 == <<b, "prev", e>>
           s == <<s1, s2, s3, s4>>
           g1 == Apply(h, s1)
           g2 == Apply(g1, s2)
           g3 == Apply(g2, s3)
           g4 == Apply(g3, s4)
           d == [c EXCEPT ![l] = PutIn(@, k, <<e>>)]
<1>1. s = list_insert(h, b, e)
  BY DEF list_insert
<1>2. k \in 1 .. Len(c[l]) /\ k # 1 /\ 1 \in 1 .. Len(c[l])
  BY ChainOf DEF Shape
<1>3. p = c[l][k - 1] /\ p \in Node /\ b \in Node /\ e \in Node /\ h \in Heap
  BY <1>2, LinksAt, NodesApart DEF Shape
<1>4. b # e /\ \A m \in List : b # list_head(m)
  <2>1. b # e
    BY <1>2 DEF Free
  <2>2. ASSUME NEW m \in List PROVE b # list_head(m)
    <3>1. 1 \in 1 .. Len(c[m]) /\ c[m][1] = list_head(m)
      BY ChainOf DEF Shape
    <3> QED BY <1>2, <3>1 DEF Shape, IsChains
  <2> QED BY <2>1, <2>2
<1>5. Shape(g4, d)
  <2>1. g4 = Run(h, s)
    BY RunFour
  <2>2. Shape(Run(h, list_insert(h, b, e)), d)
    BY InsertKeeps DEF Free
  <2> HIDE DEF s, g4, d, b
  <2> QED BY <1>1, <2>1, <2>2
<1> HIDE DEF b, p, d
<1>6. Stored(h, g1, e, "prev", p)
  BY <1>3, ApplyIs
<1>7. g1 \in Heap
  BY <1>6 DEF Stored
<1> HIDE DEF g1
<1>8. Stored(g1, g2, e, "next", b)
  BY <1>3, <1>7, ApplyIs
<1>9. g2 \in Heap
  BY <1>8 DEF Stored
<1> HIDE DEF g2
<1>10. Stored(g2, g3, p, "next", e)
  BY <1>3, <1>9, ApplyIs
<1>11. g3 \in Heap
  BY <1>10 DEF Stored
<1> HIDE DEF g3
<1>12. Stored(g3, g4, b, "prev", e)
  BY <1>3, <1>11, ApplyIs
<1> HIDE DEF g4
<1>13. Walkable(h, c) /\ Walkable(g1, c) /\ Walkable(g2, c)
  <2>1. Walkable(h, c)
    BY ShapeWalkable
  <2>2. Walkable(g1, c)
    BY <1>6, <2>1, FreeStore
  <2>3. Walkable(g2, c)
    BY <1>8, <2>2, FreeStore
  <2> QED BY <2>1, <2>2, <2>3
<1>14. Walkable(g3, d)
  <2>1. g3.prev[b] = p
    BY <1>3, <1>4, <1>6, <1>8, <1>10 DEF Stored, p
  <2>2. g3.prev[b] # NULL
    BY <1>3, <2>1, NodesApart
  <2> QED BY <1>3, <1>4, <1>5, <1>11, <1>12, <2>2, LastStore
<1>15. s \in Seq(Node \X {"prev", "next"} \X Node)
  <2>1. /\ s1 \in Node \X {"prev", "next"} \X Node /\ s2 \in Node \X {"prev", "next"} \X Node
        /\ s3 \in Node \X {"prev", "next"} \X Node /\ s4 \in Node \X {"prev", "next"} \X Node
    BY <1>3
  <2> HIDE DEF s1, s2, s3, s4
  <2> QED BY <2>1
<1>16. /\ After(h, s, 0) = h /\ After(h, s, 1) = g1 /\ After(h, s, 2) = g2 /\ After(h, s, 3) = g3
       /\ After(h, s, 4) = g4
  <2>1. s[1] = s1 /\ s[2] = s2 /\ s[3] = s3 /\ s[4] = s4
    OBVIOUS
  <2> HIDE DEF s
  <2> QED BY <2>1 DEF After, g1, g2, g3, g4
<1>17. ASSUME NEW n \in 0 .. 2 PROVE Walkable(After(h, s, n), c)
  <2>1. n \in {0, 1, 2}
    OBVIOUS
  <2> HIDE DEF s
  <2> QED BY <1>13, <1>16, <2>1
<1> HIDE DEF s
<1> QED BY <1>1, <1>5, <1>14, <1>15, <1>16, <1>17 DEF b, d

\* So they can between the two stores of list_remove, the first of which takes it out.
LEMMA RemoveStores ==
  ASSUME NEW h, NEW c, Shape(h, c), NEW l \in List, NEW i \in 2 .. Len(c[l]) - 1
  PROVE  LET s == list_remove(h, c[l][i])
             d == [c EXCEPT ![l] = CutOut(@, i, i)]
         IN  /\ s \in Seq(Node \X {"prev", "next"} \X Node)
             /\ Walkable(After(h, s, 0), c)
             /\ Walkable(After(h, s, 1), d) /\ Shape(After(h, s, 2), d)
<1> DEFINE e == c[l][i]
           p == h.prev[e]
           b == h.next[e]
           s1 == <<p, "next", b>>
           s2 == <<b, "prev", p>>
           s == <<s1, s2>>
           g1 == Apply(h, s1)
           g2 == Apply(g1, s2)
           d == [c EXCEPT ![l] = CutOut(@, i, i)]
<1>1. s = list_remove(h, e)
  BY DEF list_remove
<1>2. /\ i \in 1 .. Len(c[l]) /\ i # 1 /\ i # Len(c[l]) /\ i + 1 \in 1 .. Len(c[l]) /\ i + 1 # 1
      /\ (i + 1) - 1 = i
  BY ChainOf DEF Shape
<1>3. /\ p \in Node /\ b = c[l][i + 1] /\ b \in Node /\ e \in Node /\ h \in Heap
      /\ h.prev[b] = e
  BY <1>2, LinksAt DEF Shape
<1>4. \A m \in List : b # list_head(m)
  <2>1. ASSUME NEW m \in List PROVE b # list_head(m)
    <3>1. 1 \in 1 .. Len(c[m]) /\ c[m][1] = list_head(m)
      BY ChainOf DEF Shape
    <3> QED BY <1>2, <1>3, <3>1 DEF Shape, IsChains
  <2> QED BY <2>1
<1>5. Shape(g2, d)
  <2>1. g2 = Run(h, s)
    BY RunTwo
  <2>2. Shape(Run(h, list_remove(h, e)), d)
    BY RemoveKeeps
  <2> HIDE DEF s, g2, d, e
  <2> QED BY <1>1, <2>1, <2>2
<1> HIDE DEF e, b, p, d
<1>6. Stored(h, g1, p, "next", b)
  BY <1>3, ApplyIs
<1>7. g1 \in Heap
  BY <1>6 DEF Stored
<1> HIDE DEF g1
<1>8. Stored(g1, g2, b, "prev", p)
  BY <1>3, <1>7, ApplyIs
<1> HIDE DEF g2
<1>9. Walkable(h, c)
  BY ShapeWalkable
<1>10. Walkable(g1, d)
  <2>1. g1.prev[b] = e
    BY <1>3, <1>6 DEF Stored
  <2>2. g1.prev[b] # NULL
    BY <1>3, <2>1, NodesApart
  <2> QED BY <1>3, <1>4, <1>5, <1>7, <1>8, <2>2, LastStore
<1>11. s \in Seq(Node \X {"prev", "next"} \X Node)
  <2>1. s1 \in Node \X {"prev", "next"} \X Node /\ s2 \in Node \X {"prev", "next"} \X Node
    BY <1>3
  <2> HIDE DEF s1, s2
  <2> QED BY <2>1
<1>12. After(h, s, 0) = h /\ After(h, s, 1) = g1 /\ After(h, s, 2) = g2
  <2>1. s[1] = s1 /\ s[2] = s2
    OBVIOUS
  <2> HIDE DEF s
  <2> QED BY <2>1 DEF After, g1, g2
<1> HIDE DEF s
<1> QED BY <1>1, <1>5, <1>9, <1>10, <1>11, <1>12 DEF e, d

=============================================================================

------------------------------- MODULE Lists --------------------------------
(***************************************************************************)
(* What list.c promises: some lists of elements, each element in one of    *)
(* them at most, and the operations as functions on sequences.             *)
(* LinkedList implements it with pointers.                                 *)
(***************************************************************************)
EXTENDS Integers, SequencesExt

CONSTANTS List, Elem, Key

VARIABLE contents                \* contents[l]: the elements of list l

Init == contents = [l \in List |-> <<>>]

\* The elements of s at the positions P, in their order.
Pick(s, P) == [n \in 1 .. Cardinality(P) |->
                 s[CHOOSE i \in P : Cardinality({j \in P : j <= i}) = n]]

\* Sorted; elements with equal keys stay in the order in which they were.
Sorted(s) ==
  LET Before(i) == {j \in DOMAIN s : \/ Key[s[j]] < Key[s[i]]
                                     \/ Key[s[j]] = Key[s[i]] /\ j < i}
  IN  [n \in DOMAIN s |-> s[CHOOSE i \in DOMAIN s : Cardinality(Before(i)) = n - 1]]

Used(c) == UNION {Range(c[l]) : l \in List}

\* Each operation relates the contents c before it to the contents d after it.

Insert(c, d, l, i, e) == e \notin Used(c) /\ d = [c EXCEPT ![l] = InsertAt(@, i, e)]

Delete(c, d, l, i) == d = [c EXCEPT ![l] = RemoveAt(@, i)]

\* The elements from position i to j of list l go in front of position k of list m.
Splice(c, d, l, i, j, m, k) ==
  LET rest == Pick(c[l], DOMAIN c[l] \ (i .. j))
      dest == IF l = m THEN rest ELSE c[m]
      at   == IF l = m /\ k > j THEN k - (j - i + 1) ELSE k
  IN  /\ l = m => k \notin i .. j
      /\ d = [c EXCEPT ![l] = rest,
                       ![m] = SubSeq(dest, 1, at - 1) \o SubSeq(c[l], i, j)
                                \o SubSeq(dest, at, Len(dest))]

Reversal(c, d, l) == d = [c EXCEPT ![l] = Reverse(@)]

Sort(c, d, l) == d = [c EXCEPT ![l] = Sorted(@)]

\* Behind all elements that are not greater, where the list is in order.
InsertOrdered(c, d, l, e) ==
  /\ c[l] = Sorted(c[l])
  /\ Insert(c, d, l, Cardinality({i \in DOMAIN c[l] : Key[c[l][i]] <= Key[e]}) + 1, e)

\* Of neighbours with equal keys the first stays; the others go to the end of another
\* list, or away.
Unique(c, d, l) ==
  LET s    == c[l]
      same == {i \in DOMAIN s : i > 1 /\ Key[s[i]] = Key[s[i - 1]]}
      rest == [c EXCEPT ![l] = Pick(s, DOMAIN s \ same)]
  IN  \/ d = rest
      \/ \E m \in List \ {l} : d = [rest EXCEPT ![m] = @ \o Pick(s, same)]

Step(c, d) == \E l \in List :
  \/ \E e \in Elem : \/ \E i \in 1 .. Len(c[l]) + 1 : Insert(c, d, l, i, e)
                     \/ InsertOrdered(c, d, l, e)
  \/ \E i \in DOMAIN c[l] : Delete(c, d, l, i)
  \/ \E i, j \in DOMAIN c[l], m \in List :
       \E k \in 1 .. Len(c[m]) + 1 : i <= j /\ Splice(c, d, l, i, j, m, k)
  \/ Reversal(c, d, l)
  \/ Sort(c, d, l)
  \/ Unique(c, d, l)

Next == \E c \in {contents}, d \in {contents'} : Step(c, d)

Spec == Init /\ [][Next]_contents
=============================================================================

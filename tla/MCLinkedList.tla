---------------------------- MODULE MCLinkedList ----------------------------
EXTENDS LinkedListProperties

CONSTANTS l1, l2, e1, e2, e3, e4

\* Two elements with the same key, so that the order of equals can be told.
Keys == (e1 :> 1) @@ (e2 :> 1) @@ (e3 :> 2) @@ (e4 :> 0)

\* Sound: the lists are alike and so are the elements with the same key, and no
\* property needs fairness.
Symmetry == Permutations({l1, l2}) \cup Permutations({e1, e2})
=============================================================================

------------------------ MODULE LinkedListProperties ------------------------
(* What the users of list.c may rely on, see LinkedList.                   *)
EXTENDS LinkedList

\* Every variable has a value of its type; the outer links of the ends stay NULL, by
\* which is_head and is_tail know them.
TypeOK ==
  /\ heap \in Heap
  /\ \A l \in List : heap.prev[list_head(l)] = NULL /\ heap.next[list_end(l)] = NULL
  /\ todo \in Seq(Node \X {"prev", "next"} \X Node)

\* Whenever the handler interrupts, in the middle of an insertion or a removal too, its
\* walk ends at the end of the list it began with, and no list_next on its way fails
\* its assertion: every element it meets has both links.  When no operation is at
\* work the way back meets the same elements.
WalkIsSafe ==
  \A l \in List :
    /\ Last(Walk(heap, l)) = list_end(l)
    /\ \A e \in In(l) : e \in Elem /\ heap.prev[e] # NULL /\ heap.next[e] # NULL
    /\ todo = <<>> => Backward(heap, l) = Reverse(Forward(heap, l))

Abstract == INSTANCE Lists WITH contents <- [l \in List |-> Forward(heap, l)]

\* What a walk of the lists finds changes only as the operations on sequences say: the
\* insertion and the removal of an element take effect in one of their stores, for
\* a handler between any two of them; sorting is stable.
ImplementsLists == Abstract!Spec
=============================================================================

----------------------------- MODULE LinkedList -----------------------------
(***************************************************************************)
(* The doubly linked lists of src/src/list.c, on which cush keeps its jobs *)
(* and the parser its pipelines and commands.  An operation is the         *)
(* sequence of its stores to the links.  cush inserts and removes jobs     *)
(* with SIGCHLD not blocked, and the handler then walks the list           *)
(* (get_job_from_pid) between any two of these stores.  Nothing else is    *)
(* done to a list that a handler can see; the other operations are one     *)
(* step.                                                                   *)
(***************************************************************************)
EXTENDS Integers, SequencesExt

CONSTANTS
  List,          \* the lists
  Elem,          \* the elements, embedded in jobs, pipelines or commands
  Key,           \* what list_less_func compares
  NULL

ASSUME KeyAssumption == Key \in [Elem -> Int]

ASSUME FiniteAssumption == IsFiniteSet(List) /\ IsFiniteSet(Elem)

VARIABLES
  heap,          \* the fields prev and next of all elements and of the two ends
  todo           \* the stores that the operation at work has yet to do

vars == <<heap, todo>>

list_head(l) == <<l, "head">>
list_end(l)  == <<l, "tail">>

Node == Elem \cup {list_head(l) : l \in List} \cup {list_end(l) : l \in List}

\* No end is an element, nor does a null pointer point to a node.
ASSUME NodeAssumption == NULL \notin Node /\ Elem \cap (List \X {"head", "tail"}) = {}

Heap == [{"prev", "next"} -> [Node -> Node \cup {NULL}]]

less(a, b) == Key[a] < Key[b]

\* A store <<node, field, value>>.
Apply(h, s) == [h EXCEPT ![s[2]][s[1]] = s[3]]
Run(h, stores) ==
  LET after[n \in 0 .. Len(stores)] == IF n = 0 THEN h ELSE Apply(after[n - 1], stores[n])
  IN  after[Len(stores)]

\* The state s after n rounds of a loop with the function `body', which returns the
\* state as it is when the loop has ended.  No loop takes more than Rounds.
Iterate(body, s, n) ==
  LET after[k \in 0 .. n] == IF k = 0 THEN s ELSE body[after[k - 1]]
  IN  after[n]
Rounds == Cardinality(Node)

list_init ==
  [prev |-> [n \in Node |-> IF \E l \in List : n = list_end(l) THEN <<n[1], "head">> ELSE NULL],
   next |-> [n \in Node |-> IF \E l \in List : n = list_head(l) THEN <<n[1], "tail">> ELSE NULL]]

list_begin(h, l) == h.next[list_head(l)]
list_empty(h, l) == list_begin(h, l) = list_end(l)

\* What a loop from n along the links meets, up to `end' or, should the links be
\* broken, to a null pointer or the last round in a circle.
WalkFrom(links, n, end) ==
  LET body == [met \in Seq(Node \cup {NULL}) |->
                 IF Last(met) \in {NULL, end} THEN met ELSE Append(met, links[Last(met)])]
  IN  Iterate(body, <<n>>, Rounds)

\* By list_begin and list_next, and by list_rbegin and list_prev.
Walk(h, l) == WalkFrom(h.next, list_begin(h, l), list_end(l))
Forward(h, l)  == Front(Walk(h, l))
Backward(h, l) == Front(WalkFrom(h.prev, h.prev[list_end(l)], list_head(l)))

\* A loop from n along the list to the first node of S.
FirstIn(h, n, S) == Iterate([m \in Node |-> IF m \in S THEN m ELSE h.next[m]], n, Rounds)
-----------------------------------------------------------------------------
(* The operations that cush uses, as sequences of stores.                  *)

\* Bug: the element can be found before it is linked.
InsertPublishesFirst(h, before, elem) ==
  << <<h.prev[before], "next", elem>>, <<elem, "prev", h.prev[before]>>,
     <<elem, "next", before>>, <<before, "prev", elem>> >>

list_insert(h, before, elem) ==
  << <<elem, "prev", h.prev[before]>>, <<elem, "next", before>>,
     <<h.prev[before], "next", elem>>, <<before, "prev", elem>> >>

list_push_front(h, l, elem) == list_insert(h, list_begin(h, l), elem)
list_push_back(h, l, elem)  == list_insert(h, list_end(l), elem)

list_remove(h, elem) ==
  << <<h.prev[elem], "next", h.next[elem]>>, <<h.next[elem], "prev", h.prev[elem]>> >>

list_pop_front(h, l) == list_remove(h, list_begin(h, l))
list_pop_back(h, l)  == list_remove(h, h.prev[list_end(l)])
-----------------------------------------------------------------------------
(* The others, from heap to heap.                                          *)

list_splice(h, before, first, end) ==
  LET last == h.prev[end]
      cut  == Run(h, << <<h.prev[first], "next", h.next[last]>>,
                        <<h.next[last], "prev", h.prev[first]>> >>)
  IN  IF first = end THEN h
      ELSE Run(cut, << <<first, "prev", cut.prev[before]>>, <<last, "next", before>>,
                       <<cut.prev[before], "next", first>>, <<before, "prev", last>> >>)

\* The loop of list_reverse swaps the two links of every element.
Swapped(h, S) ==
  [prev |-> [n \in Node |-> IF n \in S THEN h.next[n] ELSE h.prev[n]],
   next |-> [n \in Node |-> IF n \in S THEN h.prev[n] ELSE h.next[n]]]

\* Bug: the elements at the ends still point to the other end.
ReverseInside(h, l) ==
  LET swapped == Swapped(h, ToSet(Forward(h, l)))
      first   == swapped.next[list_head(l)]
      last    == swapped.prev[list_end(l)]
  IN  IF list_empty(h, l) THEN h
      ELSE Run(swapped, << <<list_head(l), "next", last>>, <<list_end(l), "prev", first>> >>)

\* Every element's links are swapped, then those of the ends, then those to the ends.
list_reverse(h, l) ==
  LET swapped == Swapped(h, ToSet(Forward(h, l)))
      first   == swapped.next[list_head(l)]
      last    == swapped.prev[list_end(l)]
      turned  == Run(swapped, << <<list_head(l), "next", last>>,
                                 <<list_end(l), "prev", first>> >>)
  IN  IF list_empty(h, l) THEN h
      ELSE Run(turned, << <<last, "prev", turned.next[first]>>,
                          <<first, "next", turned.prev[last]>> >>)

find_end_of_run(h, a, b) ==
  FirstIn(h, h.next[a], {b} \cup {n \in Elem : h.prev[n] \in Elem /\ less(n, h.prev[n])})

inplace_merge(h, start, middle, b1) ==
  LET body == [s \in [heap : Heap, a0 : Node, a1b0 : Node] |->
                 LET n == s.heap.next[s.a1b0]
                 IN  IF s.a0 = s.a1b0 \/ s.a1b0 = b1 THEN s
                     ELSE IF ~less(s.a1b0, s.a0) THEN [s EXCEPT !.a0 = s.heap.next[s.a0]]
                     ELSE [heap |-> list_splice(s.heap, s.a0, s.heap.prev[n], n),
                           a0 |-> s.a0, a1b0 |-> n]]
  IN  Iterate(body, [heap |-> h, a0 |-> start, a1b0 |-> middle], Rounds).heap

Passes == [heap : Heap, a0 : Node, runs : Nat]

\* One pass of list_sort: each two runs are merged.  A loop left has a0 at the end.
Pass(h, l) ==
  LET body == [s \in Passes |->
                 LET a1b0 == find_end_of_run(s.heap, s.a0, list_end(l))
                     b1   == find_end_of_run(s.heap, a1b0, list_end(l))
                 IN  IF s.a0 = list_end(l) THEN s
                     ELSE IF a1b0 = list_end(l)
                          THEN [heap |-> s.heap, a0 |-> list_end(l), runs |-> s.runs + 1]
                     ELSE [heap |-> inplace_merge(s.heap, s.a0, a1b0, b1), a0 |-> b1,
                           runs |-> s.runs + 1]]
  IN  Iterate(body, [heap |-> h, a0 |-> list_begin(h, l), runs |-> 0], Rounds)

list_sort(h, l) ==
  Iterate([s \in Passes |-> IF s.runs > 1 THEN Pass(s.heap, l) ELSE s],
          Pass(h, l), Rounds).heap

list_insert_ordered(h, l, elem) ==
  LET before == FirstIn(h, list_begin(h, l), {list_end(l)} \cup {n \in Elem : less(elem, n)})
  IN  Run(h, list_insert(h, before, elem))

list_unique(h, l, duplicates) ==
  LET body == [s \in [heap : Heap, elem : Node] |->
                 LET next == s.heap.next[s.elem]
                     cut  == Run(s.heap, list_remove(s.heap, next))
                 IN  IF next = list_end(l) THEN s
                     ELSE IF less(s.elem, next) \/ less(next, s.elem)
                          THEN [s EXCEPT !.elem = next]
                     ELSE [s EXCEPT !.heap =
                             IF duplicates = NULL THEN cut
                             ELSE Run(cut, list_push_back(cut, duplicates, next))]]
  IN  IF list_empty(h, l) THEN h
      ELSE Iterate(body, [heap |-> h, elem |-> list_begin(h, l)], Rounds).heap
-----------------------------------------------------------------------------
Init == heap = list_init /\ todo = <<>>

In(l)  == ToSet(Forward(heap, l))
Unused == Elem \ UNION {In(l) : l \in List}

Start(stores) == /\ todo' = stores
                 /\ UNCHANGED heap

Insertion == \E l \in List, e \in Unused :
               \E before \in In(l) \cup {list_end(l)} : Start(list_insert(heap, before, e))

Push == \E l \in List, e \in Unused :
          \/ Start(list_push_front(heap, l, e))
          \/ Start(list_push_back(heap, l, e))

Removal == \E l \in List : \E e \in In(l) : Start(list_remove(heap, e))

\* Bug: list_front and list_back do without their assertion.
PopAnyway == \E l \in List : Start(list_pop_front(heap, l)) \/ Start(list_pop_back(heap, l))

Pop == \E l \in List :
         /\ ~list_empty(heap, l)
         /\ Start(list_pop_front(heap, l)) \/ Start(list_pop_back(heap, l))

Store == /\ todo # <<>>
         /\ heap' = Apply(heap, Head(todo))
         /\ todo' = Tail(todo)

Do(h) == /\ heap' = h
         /\ UNCHANGED todo

\* A part of one list goes to another place of it or to another list.
Splice == \E l, m \in List : \E i, j \in 1 .. Len(Forward(heap, l)) :
            \E before \in In(m) \cup {list_end(m)} :
              LET s == Forward(heap, l)
              IN  /\ i <= j /\ before \notin {s[n] : n \in i .. j}
                  /\ Do(list_splice(heap, before, s[i], heap.next[s[j]]))

Reversal == \E l \in List : Do(list_reverse(heap, l))
Sorting  == \E l \in List : Do(list_sort(heap, l))

\* The list must be in order already.
InsertOrdered ==
  \E l \in List, e \in Unused :
    /\ \A a \in In(l) : heap.next[a] # list_end(l) => ~less(heap.next[a], a)
    /\ Do(list_insert_ordered(heap, l, e))

Unique == \E l \in List, d \in List \cup {NULL} : l # d /\ Do(list_unique(heap, l, d))

Next == \/ Store
        \/ /\ todo = <<>>
           /\ \/ Insertion \/ Push \/ Removal \/ Pop \/ Splice \/ Reversal \/ Sorting
              \/ InsertOrdered \/ Unique

Spec == Init /\ [][Next]_vars
=============================================================================

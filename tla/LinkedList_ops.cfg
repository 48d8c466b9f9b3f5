SPECIFICATION Spec
CONSTANTS
  l1 = l1
  l2 = l2
  e1 = e1
  e2 = e2
  e3 = e3
  e4 = e4
  List = {l1, l2}
  Elem = {e1, e2, e3, e4}
  Key <- Keys
  NULL = NULL
INVARIANTS
  TypeOK
  WalkIsSafe
PROPERTIES
  ImplementsLists
SYMMETRY Symmetry

SPECIFICATION Spec
CONSTANTS
  Node = {n1, n2, n3, n4, n5, n6, n7}
  Key = {1, 2, 3, 4}
  NULL = NULL
SYMMETRY Symmetry
INVARIANT OrderedTree
PROPERTY ImplementsQueue

SPECIFICATION Spec
CONSTANTS
  Nodes = {n1, n2, n3, n4}
  None = None
SYMMETRY Symmetry
INVARIANTS OrderCorrect ChildrenFirst EdgesMirror VisitedOnce

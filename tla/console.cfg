\* A tab and other clients at a coordinator with one slot of each kind.
SPECIFICATION Spec
CONSTANTS
  Conns = {c1, c2, c3}
  MaxRequests = 1
  MaxStreams = 1
  Titles = {"x", "y"}
  MaxKeys = 3
  MaxAttempts = 2
INVARIANTS TypeOK SlotsBalanced NoLateFrame OneTaskPerTitle
CHECK_DEADLOCK FALSE
SYMMETRY Interchangeable

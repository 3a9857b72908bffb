SPECIFICATION Spec
CONSTANTS
  Families <- MCFamilies
  w1 = w1
  w2 = w2
  Webroots = {w1, w2}
  Runtimes <- MCRuntimes
  MaxAttempts = 2
  MaxOps = 4
  MaxFaults = 2
INVARIANTS
  CreatedIsComplete
  DeletedLeavesNothing
  UndisturbedSucceeds
SYMMETRY MCSymmetry
CHECK_DEADLOCK FALSE

SPECIFICATION Spec
CONSTANTS
  s1 = s1  s2 = s2  n1 = n1  n2 = n2  i1 = i1  i2 = i2  None = None
  Spaces = {s1, s2}
  Names = {n1, n2}
  UrefsMax = 3
  Deltas <- MCDeltas
  Counts = {1}
  MaxMake = 2
  MaxNaked = 1
  Slots = {i1, i2}
SYMMETRY MCSymmetry
INVARIANTS DeadNameOfDeadPort
\* The port and all spaces may be dead.
CHECK_DEADLOCK FALSE

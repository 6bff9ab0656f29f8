CONSTANTS
  Procs = {p1, p2, p3}
  NumberOfProc = 3
  Rows = 5
  Level <- LevelOfRow
  Highest = 6
SPECIFICATION Spec
SYMMETRY CoreSymmetry
INVARIANT RowsPartitioned SharesBalanced OutputIsSerial PhasesInLockstep
CHECK_DEADLOCK FALSE

CONSTANTS
  Procs = {p1, p2}
  NumberOfProc = 2
  Rows = 3
  Level <- LevelOfRow
  Highest = 6
SPECIFICATION FairSpec
INVARIANT TypeOK OutputIsSerial ExitAfterOutput
PROPERTY ImplementsBarriers Termination FailureStrandsTheOthers
CHECK_DEADLOCK FALSE

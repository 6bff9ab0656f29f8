CONSTANTS
  Procs = {c1, c2, c3}
  NumProcs = 3
  Headers <- SomeHeaders
  Image <- Pixels
  MaxBin = 4
  MaxH = 5
  MaxW = 2
  PowerOn = {0, 1}
SPECIFICATION FairSpec
INVARIANT RowsInOrder PrintedIsHistogram
PROPERTY ImplementsBarriers Termination RejectedHeaderBlocksAll PowerOnTakenBlocksAll
CHECK_DEADLOCK FALSE

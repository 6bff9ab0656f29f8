CONSTANTS
  Procs = {c1, c2}
  NumProcs = 2
  Headers <- TwoShapes
  Image <- Pixels
  MaxBin = 4
  MaxH = 5
  MaxW = 2
  PowerOn = {0}
SPECIFICATION Spec
INVARIANT SameAsSerial
CHECK_DEADLOCK FALSE

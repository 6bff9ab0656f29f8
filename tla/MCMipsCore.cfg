SPECIFICATION Spec
CONSTANTS
  ByteBits = 2
  MaxSteps = 10
  Host <- MCHost
  Programs <- MCPrograms
INVARIANTS
  ResultsExact
  UnalignedCopies
  DoublesCopied
  SlotsAndReturns
CHECK_DEADLOCK FALSE

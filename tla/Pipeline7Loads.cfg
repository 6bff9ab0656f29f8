CONSTANTS
  Builds = {"PIPE7"}
  r1 = r1
  r2 = r2
  r3 = r3
  hi = hi
  Registers = {r1, r2, r3, hi}
  HiLo = {hi}
  None = none
  Program <- MCProgram
  MaxDebt = 7
  MaxLead = 2
SPECIFICATION DualSpec
INVARIANT ReportedStalls
CHECK_DEADLOCK FALSE

CONSTANTS
  NumProcs = 2
  GuestProcs = 2
  MemSize = 64
  one = one
  two = two
  Values = {one, two}
  Garbage = garbage
  Calls <- SomeCalls
SPECIFICATION Spec
INVARIANT AcceleratorInv

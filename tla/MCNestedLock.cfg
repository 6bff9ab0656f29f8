CONSTANTS
  Procs = {p1, p2, p3}
  Locks = {l1, l3}
  Global = global
  NoLock = none
  PowerOn = {0}
SPECIFICATION FairLockSpec
INVARIANT NestedLockInv
PROPERTY SomebodyEnters ImplementsMutex

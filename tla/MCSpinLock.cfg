CONSTANTS
  Procs = {p1, p2, p3}
  Locks = {a, b}
  NoLock = none
  PowerOn = {0}
SPECIFICATION FairLockSpec
INVARIANT LockInv
PROPERTY SomebodyEnters ImplementsMutex

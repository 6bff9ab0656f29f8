CONSTANTS
  Mem = memory
  Nobody = nobody
  L1i = L1i
  L1d = L1d
  L1u = L1u
  L2 = L2
  WordSize = 2
  Addresses = {0,1,2,3,4,5,6,7,8,9,10,11,12,13,14,15}
  Configs <- MCConfigs
SPECIFICATION Spec
INVARIANTS TypeOK ValidFirst NewestHeld NothingStale CachedIsSeen FlushKeepsWrites
PROPERTIES PolicyKept RecursionEnds

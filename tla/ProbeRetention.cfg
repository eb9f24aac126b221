SPECIFICATION FairSpec
CONSTANTS
  p1 = p1
  p2 = p2
  Proc <- MCProc
  Key = {1, 2, 3}
  MaxBytes = 2
  MaxEntries = 2
  MaxAge = 0
  MaxTime = 1
  MaxLen = 3
  MaxTmp = 1
INVARIANTS FilesInUseAreKept BoundedDespiteFailures
PROPERTIES PublishedWithinLimits EvictionIsLeastRecent LockIsReleased

SPECIFICATION FairSpec
CONSTANTS
  SkipLimit = 2
  MaxPosts = 1
  DiskLocks = 2
INVARIANTS NoStaleKeys ConfigSettled DrawnInTime
PROPERTIES NobodyStuck
CHECK_DEADLOCK FALSE

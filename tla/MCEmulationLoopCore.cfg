SPECIFICATION FairSpec
CONSTANTS
  SkipLimit = 2
  MaxPosts = 1
  DiskLocks = 2
INVARIANTS CoreUsedByOne
CHECK_DEADLOCK FALSE

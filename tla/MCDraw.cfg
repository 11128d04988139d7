SPECIFICATION FairSpec
CONSTANTS
  Bands = {1, 2}
INVARIANTS RepaintKept
PROPERTIES Painted

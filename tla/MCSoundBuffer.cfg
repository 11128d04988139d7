SPECIFICATION FairSpec
CONSTANTS
  M = 1
  Sizes = {0, 5, 6}
  Ratios <- MCRatios
  MaxSamples = 2
  MixRate = 2
  Speeds = {3, 5}
  Thresholds = {1, 4}
  Bursts = {1, 4}
  MaxClock = 5
INVARIANTS SoundInOrder
PROPERTIES NothingDropped GetReturns

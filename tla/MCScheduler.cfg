SPECIFICATION FairSpec
CONSTANTS
  d1 = d1
  d2 = d2
  Devices <- MCDevices
  NoDevice = NoDevice
  MaxEvents = 3
  Delays = {2}
  Lengths = {2}
  CpuReadings <- MCReadings
  Overrun = 1
  TickNS = 1
  MaxTime = 3
INVARIANTS LiveBelowEvlast NoneOverdue OvershootBounded
PROPERTIES TimersSpec ProceedEnds

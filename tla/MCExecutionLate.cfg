SPECIFICATION XSpec
CONSTANTS
  d1 = d1
  Devices <- MCDevices
  NoDevice = NoDevice
  MaxEvents = 1
  Delays = {1, 4}
  Lengths = {7}
  CpuReadings <- MCReadings
  Overrun = 5
  TickNS = 1
  MaxTime = 14
  MaxInsn = 3
  ClockRates = {5}
  PerSecond = 5
  Modes <- Mode11
  MaxCalls = 2
  HalfInt = 64
PROPERTIES FiredOnTime

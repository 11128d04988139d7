SPECIFICATION Spec
CONSTANTS
  d1 = d1
  d2 = d2
  Devices <- MCDevices
  NoDevice = NoDevice
  MaxEvents = 1
  Delays = {2}
  Lengths = {2}
  CpuReadings = {0}
  Overrun = 0
  TickNS = 1
  MaxTime = 6
PROPERTIES PeriodKept

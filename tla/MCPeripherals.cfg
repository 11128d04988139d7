SPECIFICATION MCSpec
CONSTANTS
  d1 = d1
  Devices <- MCDevices
  NoDevice = NoDevice
  MaxEvents = 1
  Delays = {1}
  Lengths = {7}
  CpuReadings <- MCReadings
  Overrun = 19
  TickNS = 1
  MaxTime = 14
  MaxInsn = 2
  ClockRates = {1, 2}
  PerSecond = 5
  Modes <- AllModes
  MaxCalls = 2
  HalfInt = 5
  ShortSize = 2
  LongSize = 2
  ModeSize = 2
  ModeAt = 0
  SectorSize = 2048
  RawSize = 2340
  MostBytes = 1
  Retries = {1}
  Arguments = {0, 1}
  MaxOrders = 1
  LengthValues = 4
  MaxUnusual = 2
  Frames = 5
  Quarters = 2
  Callbacks = 2
  MaxGot = 9
  Blocks = 3
  MaxTaken = 4
  SoundRates = {1, 2, 3}
  OffRates = {1}
  MaxDrivers = 5
  MaxRecordings = 2
  RingEntries = 3
  Told = {1, 2}
  MuteRegs <- MCMuteRegs
  NoRegister = 0
INVARIANTS CpusInStep SomebodyActs
INVARIANTS HeardInOrder BlocksInOrder DriverAsTold
PROPERTIES HeardAsTold
CHECK_DEADLOCK FALSE

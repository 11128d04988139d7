SPECIFICATION Spec
CONSTANTS
 Program <- MCProgram
 Followers <- MCFollowers
 Ports <- MCPorts
 StartStates <- MCStart
 MemSize = 4
 MaxSteps = 2
 MemWrites <- MCMemWrites
 Switch31 = {{}, {6}}
 Modes88 = {{1}, {1, 4}, {0, 4, 5}, {0, 4, 5, 6}}
 EramBanks = {1, 2}
 Has = {"N80SR", "Jisyo", "CDBIOS"}
 ERoms = {1, 8}
 SetUps <- MCSetUps
 MaxOuts = 2
 Half = 4
 CountHigh = 4
 MemBegin = 4
 MemEnd = 16
 CrtcSetUps <- MCCrtcSetUps
 Programs <- MCPrograms
 Screens <- MCScreens
 Transfers <- MCTransfers
 ScreenLines = 4
 Columns = 2
 ResetHeight = 2
 CharLines = 16
 UnderlineFrom = 1
 BlinkUnit = 4
 VramSize = 12
 MaxInputs = 1
 HalfBlocks = 1
 Contents = {{0, 2}, {1}}
 Data30 = {{}, {1}}
 Data31 = {{}, {0, 3}, {4, 3}, {2, 3, 5}, {2, 4}}
 Data32 = {{}, {5}, {3, 4}}
 Data33 = {{}, {7}, {2, 3, 7}}
 Data53 = {{}, {0}, {1, 2}, {2, 4}}
 PaletteWrites <- MCPaletteWrites
 Configs <- MCConfigs
 MaxWrites = 4
 Tapes <- MCTapes
 Slots = {1, 2}
 TickLen = 2
 RemainMin = 1
 Masks = {{0, 1}}
 Levels = {3}
 MaxNow = 10
 MaxOps = 4
 PhysKeys = {"pad2", "down", "shift", "scroll"}
 ReadPorts = {0, 8}
 MaxMoves = 4
 Regs = {36, 38, 39, 40, 47, 180, 260}
 Writes <- MCWrites
 TopOf <- MCTopOf
 YmPeriod <- MCYmPeriod
 OpnTickLen = 4
 MaxTime = 14
 MaxCalls = 3
 Settings <- MCSettings
 Other <- MCOther
 Roms = {"n80"}
 DiskNumbers = {0, 1}
 MaxSteps88 = 3
 MaxSessions = 2
 Ten = 3
 Base = 4
 Width = 4
 HostYear = 8
 Times <- MCTimes
 PortBytes <- MCPortBytes
 MaxOut10 = 2
 HostFiles = {"a"}
 Block = 2
 Radix = 3
 Values = {0, 1}
 NameSizes = {0, 2}
 MaxDiskOrders = 3
 MaxSent = 2
 Devices = 3
 PageSize = 4
 Pages = 2
 Owners = {watch, board}
 NoOwner = NoOwner
 Pointers = {a}
 NullPointer = NullPointer
 Founder = ram
 Spans <- MCSpans
INVARIANTS Z80AsMeant
INVARIANTS MmCorrect BanksAsShown SnapshotKeepsBanks
INVARIANTS TapeRead LineIsRequest
INVARIANTS KeysAsHeld OpnInterrupts BusesAsWired BitsOfTheTime FilesWhole
PROPERTIES PictureShown SnapshotsRestore
CHECK_DEADLOCK FALSE

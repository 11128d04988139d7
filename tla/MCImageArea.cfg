SPECIFICATION Spec
CONSTANTS
  TrackCapacity = 700
  MarkedTracks = 3
  Blank = 0
  Drives = {0}
  DriveModes = {{}, {0}}
  Commands <- MCCommands
  Parameters <- MCParameters
  Data = {1}
  Disks <- MCDisks
  NoDisk = NoDisk
  Paused <- MCPaused
  Few = 2
  RModulus = 4
  MaxSeeks = 1
  MaxCommands = 2
  Files = {"two.d88", "new.d88"}
  Absent = Absent
  Images <- MCImages
  Locked = {}
  AskedReadOnly = {"new.d88"}
  NewData = {3}
  Formatted = 0
  Garbled = 9
  SavedDisks <- MCSavedDisks
  MaxChanges = 1
  MaxLost = 1
  Values = {0, 1}
  BitSets = {{}, {0, 5}}
  Bits = {1}
  Modes = {{"A", "CH"}, {"B", "CH"}}
  IdlePolls = 2
  MaxPolls = 4
  SavedSub <- MCSavedSub
INVARIANT AreasReserved
CHECK_DEADLOCK FALSE

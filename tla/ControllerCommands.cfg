SPECIFICATION ControllerSpec
CHECK_DEADLOCK FALSE
CONSTANTS
  Clients = {1, 2}
  Children = {"a", "b"}
  Mixes = {{"traffic"}}
  QuietScans = 1
  MaxCommands = 1
  MaxFaults = 0
  MaxPauses = 1
  MaxChanges = 0
INVARIANT
  SnapshotIsMappable

SPECIFICATION Spec
CONSTANTS
  Client = {a}
  Conn = {k1, k2}
  NoConn = NoConn
  Faults = {"drop", "postFails", "discard", "replayFails"}
  MaxEdits = 2
  MaxFaults = 2
  MaxSnapshots = 2
  SendBuffer = 2
  SnapshotThreshold = 1
INVARIANT CompactionLosesNothing
CHECK_DEADLOCK FALSE

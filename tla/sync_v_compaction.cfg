SPECIFICATION Spec
CONSTANTS
  Client = {a, b}
  Conn = {k1, k2}
  NoConn = NoConn
  Faults = {}
  MaxEdits = 1
  MaxFaults = 0
  MaxSnapshots = 1
  SendBuffer = 1
  SnapshotThreshold = 1
INVARIANT CompactionLosesNothing
CHECK_DEADLOCK FALSE

SPECIFICATION FairSpec
CONSTANTS
  Client = {a, b}
  Conn = {k1, k2}
  NoConn = NoConn
  Faults = {}
  MaxEdits = 2
  MaxFaults = 0
  MaxSnapshots = 0
  SendBuffer = 4
  SnapshotThreshold = 1
PROPERTY EveryEditReachesEveryTab
CHECK_DEADLOCK FALSE

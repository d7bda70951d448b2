SPECIFICATION Spec
CONSTANTS
  Client = {a, b}
  Conn = {k1, k2, k3}
  NoConn = NoConn
  Faults = {"drop", "refuse", "reject", "reload", "seedFails", "postFails"}
  MaxEdits = 2
  MaxFaults = 1
  MaxSnapshots = 1
  SendBuffer = 1
  SnapshotThreshold = 2
SYMMETRY Symmetry
CONSTRAINT OneConnSpared
INVARIANTS
  TypeOK
  DeliveryComplete
  EachEditStoredOnce
  DurableBeforeSeen
PROPERTY ImplementsSharedDocument
CHECK_DEADLOCK FALSE

SPECIFICATION Spec
CONSTANTS
  alice = alice
  bob = bob
  b1 = b1
  User = {alice, bob}
  Conn = {a1, a2, b1}
  UserOf <- Owners
  Room = {r1, r2, r3, r4}
  NoRoom = NoRoom
  MaxConnectionsPerUser = 2
  SendBuffer = 2
  History = 0
  MaxUpdates = 0
  MayRemove = {alice}
SYMMETRY Symmetry
INVARIANTS
  TypeOK
  SlotsPaired
  NoRoomAtRest
  
CHECK_DEADLOCK FALSE

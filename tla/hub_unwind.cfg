SPECIFICATION FairSpec
CONSTANTS
  alice = alice
  bob = bob
  b1 = b1
  User = {alice, bob}
  Conn = {a1, b1}
  UserOf <- Owners
  Room = {r1, r2, r3, r4}
  NoRoom = NoRoom
  MaxConnectionsPerUser = 1
  SendBuffer = 4
  History = 1
  MaxUpdates = 1
  MayRemove = {alice}
PROPERTIES
  GoneIsReleased
CHECK_DEADLOCK FALSE

SPECIFICATION Spec
CONSTANTS
  desk = desk
  Device = {desk}
  BrowserTab = {b1, b2}
  DeviceOf <- OneDesk
  Call = {c1, c2}
  Request = {x1, x2}
  MaxCalls = 2
  MaxToken = 2
  MayLose = TRUE
  Browser = {b1, b2}
  Flow = {x1, x2}
  MaxPassword = 2
  MaxIdentity = 2
  IdleTicks = 2
  Person = {p1, p2}
  Nobody = Nobody
  Fickle = {p1}
  Author = {p1}
  MaxKeys = 2
  MaxTasks = 1
  Doc = {x1, x2}
  NoDoc = NoDoc
  MaxEpoch = 2
  MaxVisits = 2
  MaxPending = 2
  MaxUpdates = 3
  MaxActions = 3
SYMMETRY Symmetry
INVARIANTS
  ClientTypeOK
  QuietCookieOpens
  HonestRefreshIsNoTheft
  NoCallIsStranded
  
  CachesAgree
  LocksUnlessDisturbed
  KeysUsedWereAccepted
  EditorFollowsRoute
  
  PageShowsItsDocument
  
  VaultConverges
PROPERTIES
  OneIdentity
CHECK_DEADLOCK FALSE

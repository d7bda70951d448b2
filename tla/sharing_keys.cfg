SPECIFICATION Spec
CONSTANTS
  olga = olga
  User = {olga, b, c}
  Owner = olga
  Tab = {olga, b, c}
  UserOf <- OneTabEach
  MaxEpoch = 2
  MaxAsked = 2
SYMMETRY Symmetry
INVARIANTS
  TypeOK
  OwnerHoldsEveryKey
  ArchiveNeverCollides
PROPERTIES
  NobodyLeftBehind
CHECK_DEADLOCK FALSE

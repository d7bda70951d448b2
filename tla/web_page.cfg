SPECIFICATION Spec
CONSTANTS
  Tab = {alice, bob}
  User = {alice, bob}
  UserOf <- Owner
  Conn = {k1, k2, k3}
  NoConn = NoConn
  SendBuffer = 2
  MaxEvents = 1
  Invite = {alice, bob}
  MaxRequests = 3
  MaxAnswers = 2
  MaxLosses = 1
  Letter = {alice, bob}
  MaxText = 4
  MaxQuery = 2
  Writer = {alice, bob}
  Glyph = {alice, bob}
  MaxLog = 3
  MaxGlyphs = 2
  MaxGap = 2
  Document = {notes, letter}
  TheDoc = notes
  Member = {carol, dave}
  Creator = carol
  NoSigner = NoSigner
  LastEpoch = 3
  MaxSealed = 2
  MaxFades = 2
SYMMETRY Symmetry
CONSTRAINT LeavesWithOneSpared
INVARIANTS
  PageTypeOK
  PresenceConverges
  ReappearsAtOnce
  NoProviderOutlivesMount
  
  FindTellsTheTruth
  DeltasTellTheStory
  RingOpensItsEpochs
  

  
CHECK_DEADLOCK FALSE

CONSTANTS
  MaxSyncs = 2
  MaxInputs = 2
SPECIFICATION FairSpec
INVARIANTS
  TypeOK
  FdIsExpected
PROPERTIES
  ImplementsShared
  HandshakeEnds
  BothAgree
  ClosedIsReleased
CHECK_DEADLOCK FALSE

CONSTANTS
  Conns = {c1, c2}
  Free = Free
  Own = Own
  MaxFd = 2
  MaxInbox = 1
  MaxBacklog = 2
  MaxSync = 1
  Others = 1
SPECIFICATION FairSpec
INVARIANTS
  OneOwner
  HandlersAgree
  QueuedRemovalsHitNobody
  BatchIsFresh
  SyncClientsAllocated
PROPERTIES
  FocusIsRedrawn
  LifeSpec
  HangupReleasesSocket
  BacklogIsServed
CONSTRAINT HealthyOrUnregistered

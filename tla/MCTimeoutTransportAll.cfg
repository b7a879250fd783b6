CONSTANTS
  c1 = c1
  c2 = c2
  c3 = c3
  Clients <- ThreeClients
  Kinds <- AllKinds
  None = none
  MaxQueueSize = 2
  MaxEvents = 3
  MayDestroy = TRUE
SPECIFICATION FairSpec
INVARIANT PendingOnce
PROPERTY ImplementsService
PROPERTY Served
PROPERTY DestructorReturns

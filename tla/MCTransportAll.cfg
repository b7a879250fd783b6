CONSTANTS
  c1 = c1
  c2 = c2
  Clients <- TwoClients
  Owner = c1
  Child = child
  None = none
  Kinds <- AllKinds
  Adverse <- AllAdversity
  MaxQueue = 2
SPECIFICATION FairSpec
INVARIANT TypeOK
INVARIANT Accounted
INVARIANT RanInOrder
INVARIANT LiveHasHat
PROPERTY ImplementsService
PROPERTY Served
PROPERTY DestructorReturns

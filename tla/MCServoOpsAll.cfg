CONSTANTS
  a = a
  b = b
  x = x
  Servos <- OneServo
  Present <- OneServo
  MaxLength = 2
  MaxGap = 1
  MaxTel = 1
  ChunkSize = 2
  EmptyLimit = 2
  FlushTicks = 5
  MaxLost = 1
  MaxLate = 1
  Programs <- Shapes
  Settings = 1
  SetSize = 3
  Rounds = 1
SPECIFICATION FairSpec
INVARIANT AnswersInStep
INVARIANT SuccessMeansApplied
INVARIANT WaitedForCommand
INVARIANT LeftStopped
PROPERTY Returns

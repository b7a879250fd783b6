CONSTANTS
  a = a
  b = b
  OK = ok
  Servos <- Both
  Adapters <- Kinds
  Batches <- Mixed
  MaxPipeline = 2
  MayHangUp = TRUE
  MaxCycles = 2
  MaxMishaps = 1
  MaxInput = 3
SPECIFICATION FairSpec
INVARIANT AllRepliesCollated
INVARIANT PipelineBounded
PROPERTY Returns

CONSTANTS
  a = a
  b = b
  c = c
  Servos <- AllServos
  Attached <- Wiring
  ServoMap <- Map
  EnableAux = TRUE
  Batches <- Steady
  Forced <- OneTwo
  MinRx = 5
  Window = 2
  Prompt = TRUE
  MaxCycles = 2
  MaxLost = 1
  MaxNoise = 1
  Slots <- TwoSlots
  Requests <- Asking
  RxCan = 1
  RxRf = 1
  MaxUpdates = 4
SPECIFICATION HatFairSpec
INVARIANT HatTypeOK
INVARIANT AllRepliesCollated
INVARIANT TxAlternates
INVARIANT FreshCounted
INVARIANT RfKept
INVARIANT AttitudeNew
PROPERTY Returns

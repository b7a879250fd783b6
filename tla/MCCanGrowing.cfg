CONSTANTS
  a = a
  b = b
  c = c
  Servos <- AllServos
  Attached <- Wiring
  ServoMap <- Map
  EnableAux = TRUE
  Batches <- Growing
  Forced <- NoBuses
  MinRx = 2
  Window = 3
  Prompt = TRUE
  MaxCycles = 2
  MaxLost = 0
  MaxNoise = 0
  Slots <- TwoSlots
  Requests <- Nothing
  RxCan = 1
  RxRf = 1
  MaxUpdates = 0
SPECIFICATION HatSpec
INVARIANT AllRepliesCollated

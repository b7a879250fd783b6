CONSTANTS
  a = a
  b = b
  OK = ok
  Servos <- Both
  Adapters <- Usb
  Batches <- One
  MaxPipeline <- NoLimit
  MayHangUp = TRUE
  MaxCycles = 1
  MaxMishaps = 1
  MaxInput = 3
SPECIFICATION FairSpec
PROPERTY Completes

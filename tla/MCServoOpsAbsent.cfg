CONSTANTS
  a = a
  b = b
  x = x
  Servos <- TwoServos
  Present <- OneServo
  MaxLength = 2
  MaxGap = 1
  MaxTel = 0
  ChunkSize = 2
  EmptyLimit = 2
  FlushTicks = 5
  MaxLost = 0
  MaxLate = 0
  Programs <- StopBoth
  Settings = 2
  SetSize = 3
  Rounds = 1
SPECIFICATION FairSpec
PROPERTY TimesOut

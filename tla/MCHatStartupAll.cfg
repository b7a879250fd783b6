CONSTANTS
  a1 = a1
  b1 = b1
  P = P
  Q = Q
  Instances <- TwoInstances
  Procs = {P, Q}
  ProcOf <- TwoOwner
  NoProc = NoProc
  Runs <- RunAs
  HatPresent = TRUE
  Versions <- Reported
  Modelled = {"jc1"}
  Mains <- Mainset
  Requests <- Requested
  Found <- FoundAs
  Extra = {50, 100}
  Achievable = {"default"}
  Registered <- AllFactories
  Numbers = {"3"}
  ServoMaps = {"1=1"}
  ArgLines <- Lines
  ToolLines <- ToolLineset
  ValueOf <- Converted
  FieldsOf <- Splits
  Rates = {"r7"}
  HexData = {"42"}
  Devices = {"fdcanusb", "socketcan"}
SPECIFICATION FairSpec
INVARIANT Excluded
INVARIANT ConfiguredAsAsked
INVARIANT OptionsTaken
PROPERTY Settles

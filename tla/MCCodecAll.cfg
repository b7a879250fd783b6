CONSTANTS
  Names <- CommandNames
  Formats <- Runs
  Defaults <- Standing
  Overrides <- Given
  Unsupported <- Old
  Held <- WrittenBefore
  Own <- OwnValues
  Inputs <- Doubled
  Rounded <- Floats
  FloatMax <- LargestFloat
  Short <- Shorts
  Outside <- OfThePi
  Maps <- Firmwares
SPECIFICATION Spec
INVARIANT ReplySized
INVARIANT ParsedTrue
INVARIANT ReportedTrue
PROPERTY CommandTaken
CHECK_DEADLOCK FALSE

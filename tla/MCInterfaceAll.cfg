CONSTANTS
  a = a
  b = b
  Servos <- Both
  Keys <- Both
  Commanded <- Both
  Values <- AllReplies
  Initial <- AllUnset
  Retries = 2
  Window = 1
  Stale = 2
  Throttle = 2
  MaxCycles = 3
SYMMETRY Swaps
SPECIFICATION ProgramSpec
INVARIANT SnapshotHeld
INVARIANT RepliesOfCycle
INVARIANT LossReported
INVARIANT DrivenByFeedback
PROPERTY NeverBackwards
PROPERTY StaysStopped

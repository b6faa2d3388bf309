SPECIFICATION ResetSpec
CONSTANTS
  Replica = {r1, r2, r3}
  Reads = {}
  Raises = {}
  Resets = {reset1, reset2, reset3}
  Node = {n1}
  NoEntry = NoEntry
  Replicas = 3
  Mark = {1}
  MaxU64 = 2
  MaxCrashes = 1
  ReplaceMidRound = FALSE
  ReplaceInBringUp = FALSE
  Timely = FALSE
SYMMETRY Symmetric
INVARIANT ResetsClimb
PROPERTY ImplementsSteps
CHECK_DEADLOCK FALSE

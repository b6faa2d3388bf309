SPECIFICATION Spec
CONSTANTS
  Replica = {r1, r2, r3}
  Reads = {get1}
  Raises = {raise1}
  Resets = {}
  Node = {n1}
  NoEntry = NoEntry
  Replicas = 3
  Mark = {1}
  MaxU64 = 2
  MaxCrashes = 1
  ReplaceMidRound = FALSE
  ReplaceInBringUp = FALSE
  Timely = FALSE
SYMMETRY Symmetric
INVARIANT ReadMeetsAckedWrites
INVARIANT IInv
PROPERTY Implements
PROPERTY OnlyGrows
PROPERTY SyncMeetsAckedWrites
CHECK_DEADLOCK FALSE

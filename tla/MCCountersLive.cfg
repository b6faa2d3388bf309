SPECIFICATION LiveSpec
CONSTANTS
  Replica = {r1, r2, r3}
  Reads = {}
  Raises = {raise1}
  Resets = {}
  Node = {n1}
  NoEntry = NoEntry
  Replicas = 3
  Mark = {1}
  MaxU64 = 2
  MaxCrashes = 1
  ReplaceMidRound = FALSE
  ReplaceInBringUp = FALSE
  Timely = TRUE
PROPERTY JoinersBecomeReady
PROPERTY CallsEnd
PROPERTY WritesAcked
CHECK_DEADLOCK FALSE

SPECIFICATION Spec
CONSTANTS
  p1 = p1
  p2 = p2
  Replica = {r1, r2, r3}
  Path <- TwoPaths
  Node = {n1, n2}
  Reads = {get1}
  Raises = {raise1, raise2}
  MaxClusters = 1
  MaxNodes = 1
  MaxCrashes = 1
SYMMETRY Symmetric
INVARIANT ReadMeetsAckedWrites
INVARIANT NoMajorityForgets
PROPERTY JoinerRefusedWhenFull
CHECK_DEADLOCK FALSE

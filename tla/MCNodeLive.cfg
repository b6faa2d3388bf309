SPECIFICATION FairSpec
CONSTANTS
  Setup <- Setups
  Disk <- AnyDisk
  Faults <- Nothing
  MaxRuns = 4
  MaxRoots = 1
INVARIANT SharesClusterIdentity
INVARIANT PortIsFree
PROPERTY StateComesBack
CHECK_DEADLOCK FALSE

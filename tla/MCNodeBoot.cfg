SPECIFICATION Spec
CONSTANTS
  Setup <- EverySetup
  Disk <- AnyDisk
  Faults <- Everything
  MaxRuns = 3
  MaxRoots = 2
INVARIANT IInv
INVARIANT Reopenable
INVARIANT LockedStateSealed
INVARIANT SecretsGone
INVARIANT InitialisedOnce
PROPERTY KeepsState
CHECK_DEADLOCK FALSE

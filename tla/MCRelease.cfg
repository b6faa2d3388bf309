CONSTANTS
  Unset = Unset
  Bad = Bad
  n1 = n1
  n2 = n2
  a1 = a1
  x1 = x1
  old = old
  A = A
  B = B
  Node = {7}
  NoEntry = NoEntry
  NotNamed = NotNamed
  None = None
  Cluster = {A, B}
  Session <- Sessions
  Image <- Images
  Quoted <- Quotes
  Peer <- Peers
  NodeId <- NodeIds
  Mode <- Modes
  Env <- Envs
  Called <- CalledEnvs
  Call = {q1, q2, q3}
  q1 = q1
  q2 = q2
  q3 = q3
  Mark = {1, 2}
  MaxBoots = 2
  MaxRollbacks = 2
SPECIFICATION Spec
SYMMETRY Symmetric
CHECK_DEADLOCK FALSE
INVARIANT OneRolePerQuote
INVARIANT KeysApart
INVARIANT AttestedACluster
INVARIANT OwnKeyReleased
INVARIANT SealedToItsImage
INVARIANT AcknowledgedMarksRead
INVARIANT OnlyResetsMoveEpochs

SPECIFICATION FairSpec
CONSTANTS
  a = a
  b = b
  c = c
  d = d
  Replica = {a, b, c, d}
  Bootstrap = {a, b, d}
  Peers <- AllPeers
  Image <- TwoImages
  Accepts <- NoDebug
  Lax = {}
  Nonce = {n1, n2, n3, n4}
  Copy = {c1}
  NoRoot = NoRoot
  NoNonce = NoNonce
  Ttl = 1
  MaxTime = 1
  MaxFaults = 1
PROPERTY JoinersGetRoot
CHECK_DEADLOCK FALSE

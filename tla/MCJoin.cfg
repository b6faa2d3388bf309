SPECIFICATION Spec
CONSTANTS
  a = a
  b = b
  c = c
  d = d
  Replica = {a, b, c, d}
  Bootstrap = {a, b, d}
  Peers <- AllPeers
  Image <- TwoImages
  Accepts <- NoDebug
  Lax = {a}
  Nonce = {n1, n2}
  Copy = {c1, c2}
  NoRoot = NoRoot
  NoNonce = NoNonce
  Ttl = 1
  MaxTime = 3
  MaxFaults = 2
SYMMETRY Symmetric
INVARIANT SealsOnceWhileFresh
 
CHECK_DEADLOCK FALSE

SPECIFICATION Spec
CONSTANTS
  c1 = c1
  c2 = c2
  m1 = m1
  m2 = m2
  Client = {c1, c2}
  Config = {m1, m2}
  NoConfig = NoConfig
  Wanted <- Wants
  Tokens <- Lists
  Slots = 1
  MaxStarts = 3
INVARIANT TrustedServesWanted
INVARIANT PromptsToWanted
INVARIANT HelpersBounded
PROPERTY AttestEnds
CHECK_DEADLOCK FALSE

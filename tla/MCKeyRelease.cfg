SPECIFICATION Spec
CONSTANTS
  Replica = {r1, r2}
  Call = {q1, q2, q3}
  CounterCalls = {q2}
  LowOrder = {q3}
  Random = {x1, x2}
  Ttl = 1
  Skew = 1
  Capacity = 1
  Drift = 1
  MaxTime = 3
  MaxLosses = 1
SYMMETRY Symmetric
INVARIANT IInv
INVARIANT IssuedNeverTooLate
INVARIANT OnlyVerifiedAreSpent
INVARIANT OnceWhileFresh
CHECK_DEADLOCK FALSE

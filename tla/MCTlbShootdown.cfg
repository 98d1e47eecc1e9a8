CONSTANTS
  c1 = c1
  c2 = c2
  c3 = c3
  p = p
  q = q
  a = a
  b = b
  NONE = NONE
  Cores = {c1, c2, c3}
  Pages = {p, q}
  Aspaces = {a, b}
  AspaceOf <- MCAspaceOf
  Setups <- MCSetups
  MaxGen = 2
  Retries = 2
SPECIFICATION FairSpec
INVARIANTS MessageAckMeansFlushed SuccessMeansGone
PROPERTIES CallsReturn
CHECK_DEADLOCK FALSE

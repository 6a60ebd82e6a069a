CONSTANTS
  Nodes = {n1, n2, n3}
  Signers = {s1, s2, s3}
  None = None
  s = s
  b = b
  c = c
  r = r
  a1 = a1
  a2 = a2
  v = v
  q = q
  Assets = {a1, a2}
  Amounts = {v}
  Recipients = {q}
  Sends = {s}
  Burns = {b}
  Takeovers = {c}
  Restores = {r}
  Orders <- MCOrders
  Decodings <- MCDecodings
  Estimates <- MCEstimates
  Setups <- MCSetups
  NoOrder = NoOrder
  NoDecoding = NoDecoding
  NoRequest = NoRequest
  BurnRequest = BurnRequest
SPECIFICATION CallsSpec
SYMMETRY HandleSymmetry
CHECK_DEADLOCK FALSE
INVARIANT HandlesReleasedOnce
INVARIANT SeedMatchesSigner
INVARIANT SentAsOrdered
INVARIANT ScopedRecovery
PROPERTY SentToLiveNode

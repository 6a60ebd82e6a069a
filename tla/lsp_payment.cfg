CONSTANTS
  Calls = {c1}
  Terms = {t1,t2}
  Keys = {lsp,other}
  Other = other
  BatchIds = {"batch"}
  Batches <- MCBatches
  Digests <- MCDigests
  Proofs <- MCProofs
  Networks = {n1,n2}
  Hashes = {h1,h2}
  Documents = {d1,d2}
  LspKey = lsp
  PeerNetworks = {n1,None}
  None = None
SYMMETRY DataSymmetry
SPECIFICATION Spec
CHECK_DEADLOCK FALSE
INVARIANTS
  PaidAsOrdered
  RecipientBound
PROPERTIES
  NoPayAfterAbort

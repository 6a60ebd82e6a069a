CONSTANTS
  Unlocks = {}
  Addresses = {a1}
  Mutations = {m1}
  Burns = {m1}
  Policies = {p1,p2}
  Manuals = {}
  Reads = {r1}
  Signs = {}
  Receives = {addr}
  AutoUnlock = FALSE
  MaxShutdowns = 0
  Checkpoint = Checkpoint
  None = None
SPECIFICATION Spec
CHECK_DEADLOCK FALSE
INVARIANTS
  PolicyExclusive
  ConfirmedChoice
  DirtyCovers
  OffMeansOff

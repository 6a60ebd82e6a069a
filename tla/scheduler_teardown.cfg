CONSTANTS
  Unlocks = {u1}
  Addresses = {a1}
  Mutations = {}
  Burns = {}
  Policies = {p1}
  Manuals = {}
  Reads = {}
  Signs = {}
  Receives = {addr}
  AutoUnlock = TRUE
  MaxShutdowns = 1
  Checkpoint = Checkpoint
  None = None
SPECIFICATION FairSpec
CHECK_DEADLOCK FALSE
INVARIANTS
  TeardownSafe
  SingleUnlock
PROPERTIES
  EveryCallSettles

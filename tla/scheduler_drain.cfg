CONSTANTS
  Unlocks = {u1}
  Addresses = {}
  Mutations = {}
  Burns = {}
  Policies = {p1}
  Manuals = {v1}
  Reads = {}
  Signs = {s1}
  Receives = {addr}
  AutoUnlock = TRUE
  MaxShutdowns = 2
  Checkpoint = Checkpoint
  None = None
SPECIFICATION FairSpec
CHECK_DEADLOCK FALSE
PROPERTIES
  ImplementsTeardown
  EveryCallSettles

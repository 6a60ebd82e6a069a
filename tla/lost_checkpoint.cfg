CONSTANTS
  Unlocks = {}
  Addresses = {}
  Mutations = {m1,m2}
  Burns = {}
  Policies = {}
  Manuals = {}
  Reads = {}
  Signs = {}
  Receives = {addr}
  AutoUnlock = FALSE
  MaxShutdowns = 0
  Checkpoint = Checkpoint
  None = None
SPECIFICATION Spec
CHECK_DEADLOCK FALSE
SYMMETRY MutationSymmetry
INVARIANT NoLostCheckpoint

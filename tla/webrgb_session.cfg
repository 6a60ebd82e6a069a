CONSTANTS
  Enables = {e1, e2}
  Reads = {r1, r2}
  Lists = {r2}
  Receives = {b1}
  MaxRevokes = 2
  None = None
SPECIFICATION Spec
SYMMETRY RequestSymmetry
CHECK_DEADLOCK FALSE
INVARIANTS
  SessionConsented
  NothingAfterRevoke
PROPERTY
  NoCallAfterRevoke

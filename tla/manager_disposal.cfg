CONSTANTS
  Bindings = {b1, b2, b3}
  WdkSigners = {w1, w2}
  Account = account
  None = None
SPECIFICATION Spec
SYMMETRY ManagerSymmetry
CHECK_DEADLOCK FALSE
INVARIANT OwnedUntilReleased
INVARIANT DisposalJoins

CONSTANTS
  FacadeReads = {f1}
  AccountReads = {a1}
  News = {n1}
  Rotates = {r1}
  MaxAddress = 3
  None = None
SPECIFICATION Spec
SYMMETRY CallSymmetry
CHECK_DEADLOCK FALSE
INVARIANTS
  OnlyRevealed
  FreshDistinct
  TeardownJoins

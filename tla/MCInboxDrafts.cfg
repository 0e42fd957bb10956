SPECIFICATION Spec
CONSTANTS
  Drafts = {d1}
  Calls = {k1, k2}
  Places = {koper, atlantis}
  Known = {koper}
  Days = {1, 2}
  Weights = {0, 2, 3}
  MaxWeight = 2
  Malformed = Malformed
  None = None
SYMMETRY CallSymmetry
INVARIANT VerdictSound
PROPERTIES ConfirmedNotDowngraded ConfirmedWhenValid
CHECK_DEADLOCK FALSE

SPECIFICATION Spec
CONSTANTS
  None = None
  Clients = {c1, c2}
  Drafts = {d1, d2, d3}
  Desks = {k1, k2}
  Keys = {p1}
  Rates = {3}
  Limits = {5}
  VatRates = {220}
  FallbackRate = 8
  CanFail = TRUE
SYMMETRY Symmetry
CHECK_DEADLOCK FALSE
INVARIANTS
  TypeOK
  NumbersGapless
  PostedOnce
  BalanceIsPosted

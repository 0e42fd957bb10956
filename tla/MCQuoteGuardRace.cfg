SPECIFICATION Spec
CONSTANTS
  None = None
  Pods = {p1, p2}
  Uploads = {u1, u2}
  Dispatchers = {k1}
  Desks = {a1}
  Clients = {c1}
  Shipments = {}
  Rates = {5}
  Limits = {5}
  VatRates = {220}
  FallbackRate = 8
  CanFail = FALSE
CHECK_DEADLOCK FALSE
PROPERTY
  MintWithinLimit

SPECIFICATION Spec
CONSTANTS
  None = None
  Pods = {p1, p2}
  Uploads = {u1, u2}
  Dispatchers = {k1}
  Clients = {c1}
  Shipments = {s1}
  Rates = {1}
  CanFail = TRUE
SYMMETRY Symmetry
CHECK_DEADLOCK FALSE
INVARIANTS
  TypeOK
  SingleUse
  ProofOnRecord
  ArrivedHasProof
PROPERTY
  DeliveredIsFinal

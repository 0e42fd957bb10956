SPECIFICATION FairSpec
CONSTANTS
  None = None
  Pods = {p1, p2}
  Uploads = {u1, u2}
  Dispatchers = {k1}
  Desks = {}
  Clients = {c1}
  Shipments = {s1}
  Rates = {}
  Limits = {5}
  VatRates = {220}
  FallbackRate = 8
  CanFail = FALSE
CHECK_DEADLOCK FALSE
PROPERTIES
  DeliveredIsBilledOrClashed
  DeliveryReachesShipment

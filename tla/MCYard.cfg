SPECIFICATION Spec
CONSTANTS
  Plates = {p1}
  Containers = {}
  Assets = {a1, a2}
  MaxZones = 2
  MaxSlots = 2
  NewKinds = {"truck_parking"}
  DemoKinds <- OneKind
  ZoneSize = 1
  Calls = {c1, c2}
  None = None
CHECK_DEADLOCK FALSE
SYMMETRY Symmetry
VIEW View
INVARIANTS ReferencesSound ParkingSound
PROPERTY CheckInKept

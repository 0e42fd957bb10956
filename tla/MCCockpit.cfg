SPECIFICATION Spec
CONSTANTS
  None = None
  Rows = {r1}
  Kinds = {"exceptions", "pods", "invoices", "drafts", "suggestions", "assets", "wagons", "messages"}
  BoardBreaks = 1
  BoardFails = 1
  Companies = {c1, c2}
  Ids = {f1, f2, f3}
  Items = {i1}
  Requests = {q1, q2}
  Root = Root
CHECK_DEADLOCK FALSE
INVARIANTS
  BoardCurrent
  FoldersSound
PROPERTIES
  BoardCatchesUp
  MoveEnds

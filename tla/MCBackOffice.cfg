SPECIFICATION Spec
SYMMETRY Symmetry
CONSTANTS
  Companies = {c1, c2}
  Requests = {q1, q2}
  Notes = {o1, o2}
  MaxAsks = 1
  MaxBreaks = 1
  Blocks = {b1, b2}
  Kanban = b2
  MaxEdits = 2
  MaxSaves = 2
  MaxVisits = 2
  PageIds = {p1, p2, p3}
  Top = Top
  UserLinks = {l1}
  Works = {w1, w2}
  Conns = {d1, d2}
  Procs = {a, b}
  Admins = {e1, e2}
  Files = {1, 2}
  MaxRuns = 3
  Users = {u1, u2}
  Emails = {m1, m2}
  Clients = {k1, k2, k3}
  Vats = {v1}
  NoVat = NoVat
  Bad = Bad
  Imports = {j1, j2}
  MaxRows = 2
  Kinds = {"page", "shipment", "project", "yard", "wagons"}
  Sessions = {s1, s2}
  Seeds = 2
  Calls = {n1, n2}
  MaxList = 2
  None = None
  Panel = {f1}
  Cards = {f2}
  MaxTypes = 2
  FieldSaves = 3
  Viewers = {g1, g2}
  Records = {r1}
  Columns = {h1, h2}
  Extra = {x1}
  First = h1
  FollowRaces = FALSE
  Screens = {s1, s2}
  Overridable = {rate, remark}
  Values = {x}
  LinkSaves = 4
  FileIds = {t1}
  StepIds = {t2}
  PluginIds = {t3, t4}
  Workbooks = {z1}
  Configs = {y1, y2}
  MaxBlocks = 2
  MaxActs = 2
  Initials = {A, B}
  MaxNumber = 3
  MaxDocs = 3
  MaxMoves = 2
  Texts = {x1, x2}
  Widgets = {w1}
  MaxTyped = 2
  MaxChanges = 3
  Codes = {SI, DE, FI, GR, CH, US, xEL}
  EU = {SI, DE, FI, GR}
  Named = {SI, DE, GR, CH}
  Home = SI
  Outside = XX
  Greece = GR
  EL = xEL
  Names = {v1, v2, v3}
  Headers = {{v1, v2}, {v1, v2, v3}, {v3}}
  MaxSteps = 2
  BuilderActs = 3
  Tabs = {q1, q2}
  Apps = {market, works}
  People = {i1, i2}
  Guest = Guest
  Views = {view1, view2, view3}
  Table = view1
  Board = view2
  ViewTypes = {"board", "table", "list"}
  Toolbar = {filters}
  Settings = {cards}
  ViewEdits = 2
  MaxProfileEdits = 2
  MaxGets = 1
  MaxPuts = 2
  RuleIds = {q1, q2}
  Members = {u1, u2, k1}
  Accounts = {k1}
  Projects = {p1}
  Strangers = {u3}
  MaxWrites = 2
CHECK_DEADLOCK FALSE
INVARIANTS
  ShownIsCurrent
  EditsAreSaved
  PagesInOrder
  LinksUsedWhole
  InstalledWhole
  CompanyKept
  ThereOnce
  OutcomeNoted
  WrittenBackWhole

SPECIFICATION FairSpec
CONSTANTS
  Partials = {p1, p2}
  Suggestions = {s1, s2}
  Scans = {k1, k2}
  Desks = {j1}
  DemoSize = 1
  None = None
CHECK_DEADLOCK FALSE
INVARIANTS SuggestionsSound MatchedHasRoute
PROPERTY DeletedIsReplaced

SPECIFICATION CommandsSpec
CONSTANTS
  p1 = p1
  p2 = p2
  Projects = {p1, p2}
  Worktrees = {w1, w2}
  ProjectOf <- MCProjectOf
  Requests <- MCRequests
  MaxTurns = 2
  both = both
  stem = stem
  long = long
  other = other
  u1 = u1
  u2 = u2
  URIs = {u1, u2}
  Contents <- MCContents
  EventTexts <- MCEventTexts
  Literal <- MCLiteral
  Stems <- MCStems
  Size <- MCSize
  ShortTokens = {"go"}
  Calls <- MCCalls
  MaxOps = 3
SYMMETRY AnyOrder
INVARIANTS CollectionDeletesNothing

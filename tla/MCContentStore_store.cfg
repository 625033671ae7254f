SPECIFICATION Spec
CONSTANTS
  Hashes = {h1}
  MediaTypes = {text, md}
  Uris = {u1}
  Registrars = {r1, r2}
  Purgers = {p1}
  Collectors = {c1}
  Expectations = {None, h1}
  MarkUsable = {TRUE}
  MaxHashes = 1
  MaxId = 2
  MaxTime = 1
  None = None
SYMMETRY Symmetry
INVARIANTS BlobLossOnlyInOpenWindows RowsAgree
PROPERTIES HookPurgeSparesOthers ContentIsAddressed
CHECK_DEADLOCK FALSE

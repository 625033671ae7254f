SPECIFICATION MCSpec
CONSTANTS
  Runs = {a}
  Workers = {w1, w2}
  Files = {f1, f2, f3}
  Denied = {f3}
  Contents = {c1, c2}
  Large = {c2}
  Binary = {}
  Torn = Torn
  None = None
  Changing = {f1}
  MaxWrites = 1
  MaxText = 6
  MaxLines = 4
  Target = 3
  Half = 2
  MaxGroups = 2
  MaxAppends = 3
  TailLength = 2
INVARIANTS NotStaleMeansCurrent ReportIsComplete TextCutsAreExact TextChunksCover SettingsAreSpared LogInventsNothing
PROPERTIES RunEnds

SPECIFICATION FairSpec
CONSTANTS
  Servers = {s1, s2}
  Purging = {s1}
  None = None
  Interval = 2
  Delay = 1
  MaxHashes = 1
  MaxExpired = 1
  MaxBack = 0
  MaxAge = 2
INVARIANTS NoUseAfterClose LogTellsTheTruth MergeNotOverdue
PROPERTIES ShutdownCompletes

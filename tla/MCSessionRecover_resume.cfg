SPECIFICATION FairSpec
CONSTANTS
  Rows = {e1, e2, e3}
  Servers = {s1}
  MaxBackups = 4
  MaxFaults = 4
  None = None
INVARIANTS NoReadableRowLost EvidenceKept MarkerKeepsServersOut NoForeignLog
PROPERTIES RecoveryFinishes
CHECK_DEADLOCK FALSE

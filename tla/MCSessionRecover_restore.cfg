SPECIFICATION Spec
CONSTANTS
  Rows = {e1, e2}
  Servers = {s1}
  None = None
  MaxBackups = 3
  MaxFaults = 4
INVARIANTS CutRestoreIsCompleted
CHECK_DEADLOCK FALSE

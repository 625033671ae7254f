SPECIFICATION Spec
CONSTANTS
    Procs = {p1, p2}
    Servers = {p1}
    Arts = {1}
    Null = Null
    MaxRows = 2
    MaxAge = 1
INVARIANT WatermarkSeparates
INVARIANT NumbersAddUp
PROPERTY ReadsBackTheOutcome

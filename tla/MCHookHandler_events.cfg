SPECIFICATION Spec
CONSTANTS
    h1 = h1
    h2 = h2
    Hooks = {h1, h2}
    Files = {f}
    None = None
    Scenarios <- MCScenarios
    MaxVersion = 2
CHECK_DEADLOCK FALSE
INVARIANT NothingVanishes
INVARIANT DenyMeansStored
INVARIANT RecordsAreTrue
INVARIANT OpenedMeansMigrated
PROPERTY HookEnds

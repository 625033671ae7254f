SPECIFICATION FairSpec
CONSTANTS
  Calls = {c1, c2}
  Executes = {c1}
  Transforms = {c1, c2}
  Slots = 1
  ExitCodes = {0, 1}
  Isolation = {TRUE, FALSE}
INVARIANTS ExitCodeIsTheTargets KilledGroupIsGone TargetHasItsScratch
PROPERTIES CallsAreAnswered
CHECK_DEADLOCK FALSE

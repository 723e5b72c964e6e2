CONSTANTS
  Work = {k1, k2}
  Rebuildable = {k1, k2}
  Worker = {w1}
  MaxRestart = 1
  Resubmits = TRUE
  Nothing = Nothing
SPECIFICATION Spec
INVARIANT UnfinishedRecorded
CHECK_DEADLOCK FALSE

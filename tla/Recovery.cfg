CONSTANTS
  Work = {k1, k2, k3}
  Rebuildable = {k1, k2}
  Worker = {w1, w2}
  MaxRestart = 2
  Resubmits = FALSE
  Nothing = Nothing
SPECIFICATION FairSpec
INVARIANTS UnfinishedRecorded 
PROPERTIES CountsInterruptedOnce RecoveredWorkSettles
CHECK_DEADLOCK FALSE

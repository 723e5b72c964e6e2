CONSTANTS
  Frames = 5
  SourceTicks = 3
  SizeOf <- Sizes
  Targets = {0, 4, 6}
  MaxRender = 2
  MaxFault = 1
  MaxCrash = 1
  Packets <- Movie
  Sync = {2, 5}
  Intervals = {4, 7}
  MaxJob = 2
SPECIFICATION Spec
INVARIANTS WholeFramesReadable KeepsTime  MissesOnlyTheLastHalf
CHECK_DEADLOCK FALSE

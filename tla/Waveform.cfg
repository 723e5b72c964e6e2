CONSTANTS
  Worker = {w1, w2}
  TotalFrames = 3
  Size = {1, 2}
  Rate = {8}
  MaxRun = 4
  MaxCrash = 2
  Zeros = Zeros
SPECIFICATION Spec
INVARIANTS TypeOK NeverShifted CountedIsWritten ReaderFindsPeaks RegisteredIsComplete
  ResumableUnlessTorn
PROPERTY ProgressKeptAlone
SYMMETRY WorkerSymmetry
CHECK_DEADLOCK FALSE

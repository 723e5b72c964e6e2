CONSTANTS
  peaks = peaks
  strip = strip
  small = small
  large = large
  Job = {peaks, strip, small, large}
  KindOf <- Kinds
  ProfileOf <- Profile12
  Parts = 2
  MaxRun = 3
  MaxCall = 1
  MaxFault = 1
  MaxCrash = 1
SPECIFICATION Spec
INVARIANTS TypeOK OutputIsWholeAlone RegisteredIsWhole InvalidationHeals
CHECK_DEADLOCK FALSE

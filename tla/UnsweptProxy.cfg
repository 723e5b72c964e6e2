CONSTANTS
  peaks = peaks
  strip = strip
  small = small
  large = large
  Job = {small}
  KindOf <- Kinds
  ProfileOf <- Profile12
  Parts = 1
  MaxRun = 1
  MaxCall = 1
  MaxFault = 1
  MaxCrash = 0
SPECIFICATION Spec
INVARIANT InvalidationSweepsAll
CHECK_DEADLOCK FALSE

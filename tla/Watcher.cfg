CONSTANTS
  root = root
  sub = sub
  p1 = p1
  p2 = p2
  Path = {p1, p2}
  Dir = {root, sub}
  Under <- Nested
  Backend = {"polling", "notify"}
  Changing <- OneOrBoth
  MaxChange = 3
  MaxCall = 2
  MaxFault = 1
SPECIFICATION FairSpec
INVARIANT StaleIsOnTheWay
PROPERTIES UnwatchedIsQuiet StaleIsDropped
CHECK_DEADLOCK FALSE

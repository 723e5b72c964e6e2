CONSTANTS
  root = root
  sub = sub
  p1 = p1
  p2 = p2
  Path = {p1, p2}
  Dir = {root}
  Under <- Nested
  Backend = {"notify"}
  Changing <- OneOrBoth
  MaxChange = 3
  MaxCall = 1
  MaxFault = 0
SPECIFICATION Spec
INVARIANT StaleIsFound
CHECK_DEADLOCK FALSE

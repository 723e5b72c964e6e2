CONSTANTS
  a = a
  alias = alias
  b = b
  NoPath = NoPath
  Path = {a, alias, b}
  Real <- Canon
  Hash <- Hashes
  TextOf <- Texts
  ImageNamed = {b}
  Media <- Kinds
  Prior <- Earlier
  MaxChange = 1
  MaxImport = 1
  MaxEvent = 1
  MaxFault = 1
SPECIFICATION FairSpec
INVARIANTS RowsReadBack CurrentIsTrue ListsWhatCompleted
PROPERTIES  ImportReturns
CHECK_DEADLOCK FALSE

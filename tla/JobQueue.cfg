CONSTANTS
  Job = {1, 2, 3, 4}
  Prio <- MixedPrio
  NoEntry = NoEntry
  MaxPush = 5
SPECIFICATION Spec
PROPERTY RefinesPriorityQueue

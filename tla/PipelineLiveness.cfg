CONSTANTS
  Job = {1, 2, 3}
  Prio <- Prio2
  Worker = {w1, w2}
  Client = {c1}
  Owner = c1
  DepChoices <- FixedChain
  DbAtStart = {"built"}
  NoJob = NoJob
  NoWorker = NoWorker
SPECIFICATION FairSpec
PROPERTIES AcceptedJobsSettle StopReturns

CONSTANTS
  Job = {1, 2}
  Prio <- Prio2
  Worker = {w1, w2}
  Client = {c1, c2}
  Owner = c1
  DepChoices <- AnyOther
  DbAtStart = {"none", "built"}
  NoJob = NoJob
  NoWorker = NoWorker
SPECIFICATION Spec
INVARIANTS TypeOK OneOwner DependenciesHonoured VerdictsAgree UnfinishedRecorded
  CancellationJustified TokenReachesItsJob StopLeavesJobsQueued
PROPERTIES RecordsMoveForward RefinesLifecycle
SYMMETRY WorkerSymmetry

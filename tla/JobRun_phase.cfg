CONSTANTS
  JobCount = 3
  WorkerCount = 2
  ReportMax = 1
  Verbose = TRUE
  Outcomes <- MCOutcomes
SPECIFICATION FairSpec
INVARIANTS JobsRunOnce MergeAfterJoin OutputIsOrdered
PROPERTIES ImplementsPhase Terminates

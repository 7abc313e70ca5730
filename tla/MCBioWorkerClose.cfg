SPECIFICATION FairSpec
CONSTANTS
  Type = 0
  Main = Main
  t1 = t1
  Threads <- MCThreads
  MaxJobs = 3
PROPERTIES EveryJobRuns
CHECK_DEADLOCK FALSE

SPECIFICATION FairSpec
CONSTANTS
  Type = 1
  Main = Main
  t1 = t1
  Threads <- MCThreads
  MaxJobs = 3
INVARIANTS TypeOK JobsAccounted SleepersWoken
PROPERTIES EveryJobRuns CallsReturn
CHECK_DEADLOCK FALSE

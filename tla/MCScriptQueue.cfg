SPECIFICATION FairSpec
CONSTANTS
  MAX_QUEUE = 3
  MAX_RUNNING = 2
  MAX_RETRY = 1
  RETRY_DELAY = 1
  MAX_RUNTIME = 0
  TimeMod = 4
  Pids <- MCPids
  Times <- MCTimes
  MaxJobs = 4
  MaxCount = 2
INVARIANTS TypeOK QueueCounted ChildrenTracked InOrderOfEvents
PROPERTIES EveryScriptTried
CHECK_DEADLOCK FALSE

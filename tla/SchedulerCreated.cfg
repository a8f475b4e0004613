SPECIFICATION FairSpec
CONSTANTS
  Tasks = {t1}
  Every = 2
  MaxConcurrentTasks = 1
  AgentTimes = {}
  MaxTime = 4
  MaxWrites = 1
  MaxFaults = 0
  MaxCrashes = 0
PROPERTY CreatedTasksRun
CHECK_DEADLOCK FALSE

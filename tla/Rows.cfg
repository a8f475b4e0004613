SPECIFICATION MCSpec
CONSTANTS
  Tasks = {t1, t2}
  Every = 2
  MaxConcurrentTasks = 1
  AgentTimes = {0}
  MaxTime = 1
  MaxWrites = 2
  MaxFaults = 2
  MaxCrashes = 1
  a = a
  o = o
  m1 = m1
  m2 = m2
  m3 = m3
  hidden = hidden
  Failed = Failed
  None = None
  Default = a
  Commands = {c1, c2}
  Static <- MCStatic
  Dynamic = o
  Answers <- MCAnswers
  Selectable <- MCSelectable
  Configs <- MCConfigs
  MaxAsks = 2
  MaxInbox = 2
INVARIANTS OnceClaimedOnce NoStrayPrompt
INVARIANTS ModelFits AgentCurrent
PROPERTIES DueTasksRun CacheConverges
CHECK_DEADLOCK FALSE

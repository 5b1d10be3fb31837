CONSTANTS
  Tasks = {t1, t2, t3, t4}
  Roots = {t1}
  Workers = {w1, w2}
  NoTask = NoTask
  NoClient = NoClient
  Orchestrator = Orchestrator
  MaxAgents = 2
  InputCap = 2
  CanIdleOut = FALSE
  MaxQueueSize = 3
  MaxCalls = 3
  MaxTurns = 12
  CanStop = TRUE
SPECIFICATION ObedientSpec
PROPERTIES EveryTaskCompletes AckedMessageIsRead StopReturns
CHECK_DEADLOCK FALSE

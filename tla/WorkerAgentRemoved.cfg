CONSTANTS
  Tasks = {t1, t2, t3}
  Roots = {t1}
  Workers = {w1, w2}
  NoTask = NoTask
  NoClient = NoClient
  Orchestrator = Orchestrator
  MaxAgents = 3
  InputCap = 2
  CanIdleOut = TRUE
  MaxQueueSize = 3
  MaxCalls = 3
  MaxTurns = 9
  CanStop = FALSE
SPECIFICATION ObedientSpec
PROPERTY AgentIsRemoved
CHECK_DEADLOCK FALSE

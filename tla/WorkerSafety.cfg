CONSTANTS
  Tasks = {t1, t2, t3}
  Roots = {t1}
  Workers = {w1, w2}
  NoTask = NoTask
  NoClient = NoClient
  Orchestrator = Orchestrator
  MaxAgents = 2
  InputCap = 1
  CanIdleOut = TRUE
  MaxQueueSize = 1
  MaxCalls = 2
  MaxTurns = 3
  CanStop = TRUE
SYMMETRY Symmetric
SPECIFICATION Spec
INVARIANTS TypeOK PoolIsExecutions LoopIsReachable AckedMessageIsKept StatusFollowsQueue ContainerIsAccountedFor
PROPERTY UsesLeases
CHECK_DEADLOCK FALSE

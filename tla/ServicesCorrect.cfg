CONSTANTS
  t1 = t1
  t2 = t2
  typeA = typeA
  typeB = typeB
  Tasks = {t1, t2, t3}
  Producers = {p1}
  Workers = {w1, w2}
  NoTask = NoTask
  NoClient = NoClient
  AnyType = AnyType
  Types = {typeA, typeB}
  Priority <- MCPriority
  AgentType <- MCAgentType
  MaxQueueSize = 2
  EnqueueCap = 1
  DequeueCap = 1
  AgeUnit = 1
  MaxClock = 0
  Executions = {e1, e2}
  NoExecution = NoExecution
  MaxCommands = 1
  MaxBoots = 1
  a1 = a1
  a2 = a2
  b = b
  nameA = nameA
  nameB = nameB
  NumFiles = 2
  Tools = {a1, a2, b}
  NameOf <- MCNameOf
  NoTool = NoTool
  Broken = Broken
  MaxEdits = 2
SPECIFICATION ServicesSpec
INVARIANTS ContainersAgree CommandRunsOnce
PROPERTIES WaitingTaskIsServed DequeueReturns ContainerCallsEnd ImplementsLeases OfferIsOneScan DirectoryIsOffered
CHECK_DEADLOCK FALSE

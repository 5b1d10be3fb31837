CONSTANTS
  t1 = t1
  t2 = t2
  typeA = typeA
  typeB = typeB
  Tasks = {t1, t2, t3}
  Producers = {p1}
  Workers = {w1, w2}
  NoTask = NoTask
  NoClient = NoClient
  AnyType = AnyType
  Types = {typeA, typeB}
  Priority <- MCPriority
  AgentType <- MCAgentType
  MaxQueueSize = 2
  EnqueueCap = 1
  DequeueCap = 1
  AgeUnit = 1
  MaxClock = 2
SPECIFICATION Spec
INVARIANTS TypeOK ExactlyOnePlace ReplyNeverBlocks QueueInOrder ClassInversionBounded
PROPERTY ImplementsLedger

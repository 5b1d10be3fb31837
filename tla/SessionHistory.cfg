CONSTANTS
  Messages = {m1, m2}
  NoMessage = NoMessage
  Objects = {o1, o2}
  NoObject = NoObject
  QueueCap = 2
  MaxConcurrent = 1
  MaxFailures = 0
  MaxRestarts = 1
SPECIFICATION Spec
INVARIANT StoredTurnIsKept
CHECK_DEADLOCK FALSE

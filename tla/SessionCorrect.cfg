CONSTANTS
  Messages = {m1, m2, m3}
  NoMessage = NoMessage
  Objects = {o1, o2}
  NoObject = NoObject
  QueueCap = 2
  MaxConcurrent = 2
  MaxFailures = 1
  MaxRestarts = 1
SPECIFICATION FairSpec
INVARIANTS CallsAreSound MessageIsReadOnce HistoryIsComplete
PROPERTY AcceptedMessageIsRead
CHECK_DEADLOCK FALSE

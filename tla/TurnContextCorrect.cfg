CONSTANTS
  Managers = {m1, m2}
  MaxTurns = 5
  MaxCalls = 2
  MaxFailures = 1
  MaxRestarts = 1
SPECIFICATION Spec
INVARIANTS MemoryIsSound MessagesArePaired TableIsMerged
CHECK_DEADLOCK FALSE

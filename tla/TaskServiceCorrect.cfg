CONSTANTS
  Tasks = {root, t1, t2, t3}
  Root = root
  NoTask = NoTask
  MaxTaskDepth = 2
  MaxFailures = 2
  MaxRestarts = 1
SPECIFICATION Spec
SYMMETRY Symmetric
INVARIANTS RowsFollowTasks DepthIsKept AnswerIsTrue
CHECK_DEADLOCK FALSE

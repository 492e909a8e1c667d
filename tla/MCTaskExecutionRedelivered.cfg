\* One task executed twice, at the same time or one after the other.
CONSTANTS
  TaskIds = {t1}
  Workers = {w1, w2}
  NoTask = NoTask
  Faults = {"node", "redis"}
  MaxRedeliveries = 1
  MaxIterations = 2
  MinFindings = 1
SPECIFICATION FairSpec
INVARIANTS
  RestingTasksAreSettled
PROPERTIES
  EveryTaskSettles
\* The executions end, and nothing is left to do.
CHECK_DEADLOCK FALSE

\* One task, one execution of it, one PATCH and one PUT at any time.
CONSTANTS
  TaskIds = {t1}
  Workers = {w1}
  NoTask = NoTask
  Faults = {"crash", "db", "refresh", "build", "node", "redis"}
  MaxRedeliveries = 0
  MaxIterations = 2
  MinFindings = 1
  Patches <- MCPatches
  MaxPatches = 1
  MaxPuts = 1
SPECIFICATION OperatorsSpec
PROPERTIES
  OutcomesAreRecorded
\* The execution and the requests end.
CHECK_DEADLOCK FALSE

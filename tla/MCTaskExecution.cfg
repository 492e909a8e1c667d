\* Two tasks, two workers, every fault, no redelivered message.
CONSTANTS
  TaskIds = {t1, t2}
  Workers = {w1, w2}
  NoTask = NoTask
  Faults = {"crash", "db", "refresh", "build", "node", "redis"}
  MaxRedeliveries = 0
  MaxIterations = 3
  MinFindings = 1
SPECIFICATION Spec
INVARIANTS
  TypeOK
  StageMatchesStatus
  ReportBacked
PROPERTIES
  OutcomesStand
  ProgressNeverReverts
  ImplementsLifecycle
\* The executions end, and nothing is left to do.
CHECK_DEADLOCK FALSE

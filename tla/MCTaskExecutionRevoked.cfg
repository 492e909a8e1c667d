\* One task, every fault, no redelivered message.
CONSTANTS
  TaskIds = {t1}
  Workers = {w1}
  NoTask = NoTask
  Faults = {"crash", "db", "refresh", "build", "node", "redis"}
  MaxRedeliveries = 0
  MaxIterations = 2
  MinFindings = 1
SPECIFICATION Spec
PROPERTIES
  TerminalIsFinal
\* The executions end, and nothing is left to do.
CHECK_DEADLOCK FALSE

\* Two requests with one key, every fault of every component.
CONSTANTS
  r1 = r1
  r2 = r2
  r3 = r3
  k1 = k1
  p1 = p1
  NoKey = NoKey
  TaskIds = {r1, r2}
  KeyOf <- MCKeyOf
  PayloadOf <- MCPayloadOf
  ValidPayloads <- MCValidPayloads
  Workers = {w1}
  NoTask = NoTask
  MaxRedeliveries = 0
  MaxIterations = 2
  MinFindings = 1
  Watchers = {r1, r2}
  ApiFaults = {"crash", "db", "redis"}
  WorkerFaults = {"crash", "db", "refresh", "build", "node", "redis"}
SPECIFICATION FairSpec
INVARIANTS
  OnlyCommittedTasksRun
PROPERTIES
  ImplementsLifecycle
  AnswersNeverRevert
  EveryRequestConcludes

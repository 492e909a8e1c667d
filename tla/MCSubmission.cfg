\* Concurrent submissions with every fault.
CONSTANTS
  r1 = r1
  r2 = r2
  r3 = r3
  r4 = r4
  r5 = r5
  k1 = k1
  p1 = p1
  p2 = p2
  bad = bad
  NoKey = NoKey
  TaskIds <- MCTaskIds
  KeyOf <- MCKeyOf
  PayloadOf <- MCPayloadOf
  ValidPayloads <- MCValidPayloads
  Faults = {"crash", "db", "redis"}
SPECIFICATION Spec
INVARIANTS
  TypeOK
  KeyNamesOneTask
  RefusalIsJustified
  EnqueuedOnce
  MessagesHaveRows
  OrphansComeFromFailures
\* Every request is handled once.
CHECK_DEADLOCK FALSE

\* Three papers in batches of two, three attempts for each call.
CONSTANTS
  NumPapers = 3
  d1 = d1
  u1 = u1
  u2 = u2
  NoId = NoId
  Refs <- MCRefs
  RefOf <- MCRefOf
  Relevances = {2, 3}
  MinRelevance = 3
  BatchSize = 2
  MaxRetries = 3
  BaseDelay = 1
  LimitDelay = 8
SPECIFICATION FairSpec
INVARIANTS
  TypeOK
  FindingsInOrder
  SleepAddsUp
  ReportIsBacked
PROPERTIES
  AnalysisEnds
\* The report ends the run.
CHECK_DEADLOCK FALSE

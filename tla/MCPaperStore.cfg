\* Two executions and two requests of operators.
CONSTANTS
  Executions = {e1, e2}
  d1 = d1
  a1 = a1
  NoId = NoId
  Results <- MCResults
  Patches <- MCPatches
  MaxEdits = 2
SPECIFICATION Spec
SYMMETRY ExecutionSymmetry
INVARIANTS
  TypeOK
  QueueStandsForFound
  PassedPapersWereStored
  TwinsComeFromRaces
\* The executions end, and the operators stop.
CHECK_DEADLOCK FALSE

\* The default of three iterations; too few supersteps for them, one for each
\* node, or one to spare.
CONSTANTS
  Papers = {p1, p2, p3}
  MaxIterations = 3
  MinFindings = 2
  RecursionLimits = {6, 8, 9}
SPECIFICATION Spec
INVARIANTS
  TypeOK
  ReportJustified
  FindingsAreCurrent
  NeverCutOff
PROPERTIES
  Termination
\* A run of the workflow ends.
CHECK_DEADLOCK FALSE

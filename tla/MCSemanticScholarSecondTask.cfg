\* The second task of a worker process.
CONSTANTS
  Searches = {s1, s2, s3}
  Slots = 2
  MinInterval = 1
  Timeout = 5
  MaxAttempts = 2
  Penalties = {0, 2}
  MaxLoops = 2
SPECIFICATION Spec
SYMMETRY SearchSymmetry
INVARIANTS
  SourcesAreCalled

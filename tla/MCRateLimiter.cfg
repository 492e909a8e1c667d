\* Two requests in two units of time, two clients.
CONSTANTS
  Clients = {c1, c2}
  Limit = 2
  Window = 2
  MaxTime = 5
SPECIFICATION Spec
SYMMETRY ClientSymmetry
INVARIANTS
  TypeOK
  SlidingWindow
  RefusalJustified

\* A second process started beside the first.
CONSTANTS
  Procs = {p1, p2}
  MaxStarts = 2
SPECIFICATION Spec
CHECK_DEADLOCK FALSE
INVARIANT ControlPathOwned

\* One CONNECT after the background task has timed out.
CONSTANTS
  Connects = {c1}
  Task = task
  NoOne = none
  Full = 3
  MaxOutages = 1
SPECIFICATION Spec
CHECK_DEADLOCK FALSE
PROPERTY FailsFastAfterTimeout

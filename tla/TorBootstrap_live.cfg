\* Two CONNECTs beside the background task, one outage after the start.
CONSTANTS
  Connects = {c1, c2}
  Task = task
  NoOne = none
  Full = 3
  MaxOutages = 1
SPECIFICATION FairSpec
CHECK_DEADLOCK FALSE
INVARIANT TypeOK
INVARIANT StatusNeverAhead
PROPERTY StatusCatchesUp
PROPERTY BootstrapTaskEnds
PROPERTY TimeoutStrandsNobody

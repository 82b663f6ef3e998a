\* Two processes, started after or beside each other, three starts in all.
CONSTANTS
  Procs = {p1, p2}
  MaxStarts = 3
SPECIFICATION FairSpec
CHECK_DEADLOCK FALSE
INVARIANT TypeOK
INVARIANT SoleDaemonReachable
INVARIANT StaleSocketNeverBlocks
PROPERTY ReloadNeverKills
PROPERTY SigtermEndsDaemon

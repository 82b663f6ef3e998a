\* One connection, its accept failing at first; no symmetry under liveness.
CONSTANTS
  u1 = u1
  u2 = u2
  h1 = h1
  NoUser = NoUser
  Garbled = Garbled
  Conns = {c1}
  Hosts = {h1}
  Users = {u1}
  Scripts <- ShortScripts
  BufCap = 1
  MaxDown = 2
  MaxAcceptErrors = 2
SPECIFICATION FairSpec
CHECK_DEADLOCK FALSE
PROPERTY BacklogIsServed
PROPERTY GoneClientIsReleased
PROPERTY DialIsAnswered

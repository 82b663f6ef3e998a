\* Two CONNECTs beside the background task.
CONSTANTS
  u1 = u1
  u2 = u2
  h1 = h1
  NoUser = NoUser
  Garbled = Garbled
  Conns = {c1, c2}
  Hosts = {h1}
  Users = {u1}
  Scripts <- BriefScripts
  BufCap = 1
  MaxDown = 0
  MaxAcceptErrors = 0
  Task = task
  NoOne = none
  Full = 1
  MaxOutages = 0
SPECIFICATION MCSpec
CHECK_DEADLOCK FALSE
INVARIANT ConnectHasItsHandler
INVARIANT RepliesFollowTor
PROPERTY ArtiAnswers
PROPERTY LeaverIsReleased

\* Two queries beside each other and a SOCKS client of little interest.
CONSTANTS
  u1 = u1
  u2 = u2
  h1 = h1
  NoUser = NoUser
  Garbled = Garbled
  Conns = {c1}
  Hosts = {h1}
  Users = {u1}
  Scripts <- IdleScripts
  BufCap = 1
  MaxDown = 0
  MaxAcceptErrors = 0
  Queries = {q1, q2}
  Commands = {"status", Garbled}
  LocalConns = {}
  MaxReadings = 1
SPECIFICATION MCFairSpec
CHECK_DEADLOCK FALSE
INVARIANT ControlTypeOK
INVARIANT RepliesAreCurrent
PROPERTY QueryIsAnswered

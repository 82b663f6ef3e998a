\* Two SOCKS connections and one query.
CONSTANTS
  u1 = u1
  u2 = u2
  h1 = h1
  NoUser = NoUser
  Garbled = Garbled
  Conns = {c1, c2}
  Hosts = {h1}
  Users = {u1}
  Scripts <- BriefScripts
  BufCap = 1
  MaxDown = 0
  MaxAcceptErrors = 0
  Queries = {q1}
  Commands = {"stats", "streams", "reload"}
  LocalConns = {c1, c2}
  MaxReadings = 0
SPECIFICATION MCSpec
SYMMETRY Symmetry
CHECK_DEADLOCK FALSE
INVARIANT StatsAddUp
INVARIANT RepliesAreCurrent
INVARIANT StreamsReplyIsWhole

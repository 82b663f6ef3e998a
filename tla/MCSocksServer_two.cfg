\* Two connections at once, in each isolation mode.
CONSTANTS
  u1 = u1
  u2 = u2
  h1 = h1
  NoUser = NoUser
  Garbled = Garbled
  Conns = {c1, c2}
  Hosts = {h1}
  Users = {u1, u2}
  Scripts <- UserScripts
  BufCap = 1
  MaxDown = 1
  MaxAcceptErrors = 0
SPECIFICATION Spec
SYMMETRY Symmetry
CHECK_DEADLOCK FALSE
INVARIANT TypeOK
INVARIANT RegistryIsLiveView
INVARIANT ConnectsAccounted
INVARIANT BytesAccounted
INVARIANT IsolationRespected

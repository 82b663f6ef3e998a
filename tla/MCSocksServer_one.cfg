\* One connection, every script, three chunks each way.
CONSTANTS
  u1 = u1
  u2 = u2
  h1 = h1
  NoUser = NoUser
  Garbled = Garbled
  Conns = {c1}
  Hosts = {h1}
  Users = {u1, u2}
  Scripts <- LongScripts
  BufCap = 2
  MaxDown = 3
  MaxAcceptErrors = 1
SPECIFICATION Spec
CHECK_DEADLOCK FALSE
 
INVARIANT NoPayloadLost
PROPERTY ContractHolds
PROPERTY RegistryUsedWell

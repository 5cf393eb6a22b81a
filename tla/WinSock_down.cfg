SPECIFICATION FairSpec
CONSTANTS
  Agent = {a1, a2, a3}
  Number = {1, 2, 3}
  AgentLimit = 3
  MaxSends = 2
  NULL = NULL
INVARIANTS
  SockTypeOK
  SocketsInUse
PROPERTIES
  DownEndsAll
CHECK_DEADLOCK FALSE

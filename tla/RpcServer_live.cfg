SPECIFICATION FairSpec
CONSTANTS
  Client = {c1, c2}
  Fd <- MCFewFd
  AgentLimit = 2
  Name <- MCName
  Registered <- MCRegistered
  Request <- MCBenignRequest
  Listener = Listener
  Refusal = Refusal
  NULL = NULL
PROPERTIES
  ReceivedIsReaped
  StoppedServerExits
  AcceptedIsReaped
\* The process ends, by exit or by abort.
CHECK_DEADLOCK FALSE

SPECIFICATION Spec
CONSTANTS
  Client = {c1, c2, c3}
  Fd <- MCFd
  AgentLimit = 2
  Name <- MCName
  Registered <- MCRegistered
  Request <- MCRequest
  Listener = Listener
  Refusal = Refusal
  NULL = NULL
SYMMETRY MCSymmetry
INVARIANTS
  TypeOK
  AgentOutlivesThread
  DescriptorOwnership
  ServingIsSafe
  AnswersMatchCalls
PROPERTIES
  OnlyOwnerCloses
  ImplementsService
\* The process ends, by exit or by abort.
CHECK_DEADLOCK FALSE

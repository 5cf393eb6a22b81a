SPECIFICATION ThreadSpec
CONSTANTS
  Agent = {a1, a2}
  Handle = {1, 2, 3}
  NULL = NULL
INVARIANTS
  ThreadTypeOK
  HandlesAreOwn
PROPERTIES
  ImplementsAgentLife
CHECK_DEADLOCK FALSE

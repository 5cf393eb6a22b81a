SPECIFICATION ThreadSpec
CONSTANTS
  Agent = {a1}
  Handle = {1, 2}
  NULL = NULL
INVARIANTS
  JoinsItsThread
CHECK_DEADLOCK FALSE

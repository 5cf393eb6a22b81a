SPECIFICATION Spec
CONSTANTS
  Agent = {a1, a2}
  Object = {o1, o2, o3, o4}
  NULL = NULL
SYMMETRY Alike
INVARIANTS
  TypeOK
  StateIsLive
  OneEach
PROPERTIES
  SettledForGood
CHECK_DEADLOCK FALSE

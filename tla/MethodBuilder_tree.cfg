SPECIFICATION Spec
CONSTANTS
  Tag <- MCTreeTag
  Text = {"huge", "word"}
  MaxNodes = 8
  MaxCalls = 2
  NULL = NULL
INVARIANTS
  TreeFollowsRules
  NodesDeletedOrLeft
PROPERTIES
  StuckForGood
\* The input ends anywhere, or a bound is reached.
CHECK_DEADLOCK FALSE

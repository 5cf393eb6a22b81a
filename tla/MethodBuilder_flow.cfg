SPECIFICATION Spec
CONSTANTS
  Tag <- MCFlowTag
  Text = {"number", "huge"}
  MaxNodes = 8
  MaxCalls = 2
  NULL = NULL
INVARIANTS
  TypeOK
  OneVectorOwner
  CallsAreTheirOwn
\* The input ends anywhere, or a bound is reached.
CHECK_DEADLOCK FALSE

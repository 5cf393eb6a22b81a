SPECIFICATION Spec
CONSTANTS
  Tag <- MCFlowTag
  Text = {"number"}
  MaxNodes = 2
  MaxCalls = 1
  NULL = NULL
INVARIANTS
  CheckAnswers
\* The input ends anywhere, or a bound is reached.
CHECK_DEADLOCK FALSE

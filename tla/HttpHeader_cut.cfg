SPECIFICATION Spec
CONSTANTS
  Line <- RequestLines
  MaxLines = 5
  IntMax = 20
INVARIANTS
  TypeOK
  HeaderIsLineByLine
  CutExecutesFirstCalls
CHECK_DEADLOCK FALSE

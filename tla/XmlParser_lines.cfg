SPECIFICATION Spec
CONSTANTS
  MaxHeader = 4
  MaxChars = 8
INVARIANTS
  TypeOK
  LinesAsInGrammar
  EventsAreTheText
  EventsAreClean
\* The stream ends, or the request is given up.
CHECK_DEADLOCK FALSE

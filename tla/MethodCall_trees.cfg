SPECIFICATION Spec
CONSTANTS
  Ints <- SmallInts
  Doubles = {1}
  Strings = {0, 1}
  IntMax = 10
  Junk = {0, 7}
  MaxObjects = 4
  MaxWidth = 3
  NULL = NULL
INVARIANTS
  TypeOK
  OneOwner
  DeletedOrLost
  NullIsNeverAnswered
  AnswerReadsBack
CHECK_DEADLOCK FALSE

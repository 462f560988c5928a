CONSTANTS
  Modulus = 256
  Call <- MCCall
SPECIFICATION IntegerSpec
INVARIANTS
  OverflowKnown
  AnswersNumber
  ReadsLongest
CHECK_DEADLOCK FALSE

\* Inputs of any shape up to 5 lexemes, documents up to 13.
CONSTANTS
  Strings = {"a", "b"}
  Capacity = 7
  MaxAny = 5
  MaxLen = 13
SPECIFICATION JsonSpec
INVARIANTS JsonTypeOK VerdictIsRight ReadsBack
CHECK_DEADLOCK FALSE

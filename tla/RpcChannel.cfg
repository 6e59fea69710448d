\* Four calls, a buffer of five bytes: frames of two to four.
CONSTANTS
  MaxCalls = 4
  Buf = 5
  CLOSED = CLOSED
SPECIFICATION Spec
INVARIANTS
  TypeOK
  AnswerComes
PROPERTIES
  ImplementsCall
\* The calls are bounded.
CHECK_DEADLOCK FALSE

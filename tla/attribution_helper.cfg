SPECIFICATION Spec
CONSTANTS
  ByteLimit = 3
  PipeSize = 2
  MaxOutput = 5
INVARIANTS
  NothingLeft
  AnswerWhole
PROPERTY CallEnds
CHECK_DEADLOCK FALSE

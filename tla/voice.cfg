SPECIFICATION Spec
CONSTANTS
  c1 = c1
  c2 = c2
  NoCall = NoCall
  Calls <- MCCalls
  PipeSize = 1
  MaxOutput = 1
  MaxWrites = 2
  Talks = {"out"}
  Chatty = FALSE
CHECK_DEADLOCK FALSE
INVARIANTS
  HandleIsOwn
  AnswerIsWhole
PROPERTIES
  KeepsContract
  ListeningEnds

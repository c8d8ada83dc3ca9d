SPECIFICATION Spec
CONSTANTS
  worker = worker
  compositor = compositor
  NoThread = NoThread
  Threads <- MCThreads
  MaxStack = 4
  CallsInHolds = FALSE
PROPERTIES
  UnwindIsClean
  HeldIsDelivered

SPECIFICATION Spec
CONSTANTS
  t1 = t1
  t2 = t2
  s1 = s1
  s2 = s2
  NoRun = NoRun
  Runs <- MCWorkers
  Threaded <- MCWorkers
  Macro <- MCWorkersMacro
  Reentrant = FALSE
  MaxRunning = 2
  MaxSteps = 1
  Commands <- MCNested
  MaxCrashes = 1
CHECK_DEADLOCK FALSE
INVARIANTS
  CallerWaits
PROPERTIES
  WaitEnds

SPECIFICATION Spec
CONSTANTS
  Lockers = {L1, L2}
  NoLocker = NoLocker
  Outputs = {o1}
  Framed = {}
  RespawnMax = 1
  RespawnWindow = 2
  MaxTime = 3
  SpawnResults <- MCSpawnAny
  ModuleActive = TRUE
  Grabbers <- MCAllGrabbers
  MaxAuth = 2
  MaxOverrides = 1
INVARIANTS
  TypeOK
  PromptAnswers
  AnnouncedState
PROPERTIES
  KeepsContract

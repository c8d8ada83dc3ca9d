SPECIFICATION Spec
CONSTANTS
  Lockers = {L1, L2}
  NoLocker = NoLocker
  Outputs = {o1, o2}
  Framed = {o1, o2}
  RespawnMax = 2
  RespawnWindow = 2
  MaxTime = 4
  SpawnResults <- MCSpawnAny
  ModuleActive = FALSE
  Grabbers <- MCLauncher
  MaxAuth = 0
  MaxOverrides = 1
SYMMETRY MCLockerSymmetry
INVARIANTS
  OneHolder
  NoGrabUnderLock
  NoKeysToDesktop
  RespawnBudget
  LockedIsCovered
PROPERTIES
  UnlockRestoresFocus

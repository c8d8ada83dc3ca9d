SPECIFICATION LogindSpec
CONSTANTS
  MaxPolls = 1
  MaxQueue = 2
  MaxStarts = 2
  InhibitSleep = TRUE
  OwnSession = TRUE
  ConnectResults <- MCConnectAny
  LockOutcomes <- MCLockAny
CHECK_DEADLOCK FALSE
INVARIANTS
  NoLostWakeup
  WakeFdIsOpen
  HintAgrees
  SleepIsArmed
PROPERTIES
  ReleasedWhenLocked
  SuspendProceeds
  JoinReturns

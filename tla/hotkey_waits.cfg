SPECIFICATION Spec
CONSTANTS
  Ids = {h1}
  Keys = {k1}
  Macros = {m1}
  Modes = {}
  NoId = NoId
  NoKey = NoKey
  NoMacro = NoMacro
  Default = Default
  MaxRunning = 3
  HK_MAX_RUNNERS = 3
  Acts = {"c", "macro", "macro-stop", "proc", "cancel", "reload"}
  HookActs = {"sleep", "cancel"}
  After <- MCAfter
  ListLen = 2
  HookLen = 1
  MaxStarts = 3
  MaxFires = 1
CHECK_DEADLOCK FALSE
PROPERTIES
  ListsEnd

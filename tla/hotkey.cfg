SPECIFICATION Spec
CONSTANTS
  Ids = {h1}
  Keys = {k1}
  Macros = {m1}
  Modes = {resize}
  NoId = NoId
  NoKey = NoKey
  NoMacro = NoMacro
  Default = Default
  MaxRunning = 2
  HK_MAX_RUNNERS = 2
  Acts = {"send", "input", "input-stop", "cancel", "mode", "c", "macro"}
  HookActs = {"sleep", "cancel"}
  After <- MCAfter
  ListLen = 2
  HookLen = 1
  MaxStarts = 3
  MaxFires = 1
CHECK_DEADLOCK FALSE
INVARIANTS
  WaiterHasAWaker
  EndedListsAreForgotten

SPECIFICATION Spec
CONSTANTS
  panel = panel
  left = left
  right = right
  None = None
  Away = Away
  Outputs <- MCOutputs
  Internal = {panel}
  Windows = {w1}
  ConfigOff = {right}
  Removable = {left, right}
  Managed = {panel, right}
  Flaky = {panel}
  IpcEnables = {FALSE}
  FirstPlugged <- MCFirst
INVARIANTS
  NeverBlind
PROPERTIES
  BlankingFollowsUse
  WindowsStayShown

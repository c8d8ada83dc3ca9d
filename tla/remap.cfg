SPECIFICATION Spec
CONSTANTS
  Super = Super  Esc = Esc  NoCode = NoCode  NoRule = NoRule
  pedal = pedal  kb = kb  mouse = mouse
  A = A  btn = btn  up = up  dn = dn  Ctrl = Ctrl  Key = Key
  p = p  p2 = p2  q = q  P = P  Q = Q
  Keyboards <- MCKeyboards  Pointers <- MCPointers  Inputs <- MCInputs
  Modifiers <- MCModifiers  Wheels <- MCWheels  ConfigLists <- MCConfigLists
  Addable <- MCAddable
  Rules <- MCRules  NameOf <- MCNameOf  Matches <- MCMatches  Map <- MCMap
  DropRules <- MCDropRules  Deltas <- MCDeltas  Notch = 2
  CommandsFrom <- MCCommandsFrom  SelfRemap = FALSE  MaxNested = 1
INVARIANTS NothingIsStuck ClaimsAgree
PROPERTY EscapeWorks

SPECIFICATION Spec
CONSTANTS
  s1 = s1
  s2 = s2
  w1 = w1
  w2 = w2
  k1 = k1
  NoSession = NoSession
  NoSurface = NoSurface
  LockSurface = LockSurface
  Launcher = Launcher
  Sessions <- MCSessions
  Windows <- MCWindows
  Keys = {k1}
  Layouts <- MCLayouts
  Blankable <- MCBlankable
  Requests <- MCRequests
SYMMETRY MCSymmetry
INVARIANTS
  KeyboardComesBack
  BarriersAreOuter

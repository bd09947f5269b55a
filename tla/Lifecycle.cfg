\* A start of the service and a restart in the same process, two sizes.
CONSTANTS
  Threads = {t1, t2}
  Sizes = {s1, s2}
  Main = Main
  None = None
SPECIFICATION Spec
SYMMETRY MCSymmetry
INVARIANTS
  TypeOK
  OneServer
  OwnGlobals
  ResourcesMatch
  RunningUntilRestart
PROPERTIES
  QuitNears
CHECK_DEADLOCK FALSE

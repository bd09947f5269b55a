\* A start of the service and a restart in the same process.
CONSTANTS
  Threads = {t1, t2}
  Sizes = {s1}
  Main = Main
  None = None
SPECIFICATION Spec
INVARIANTS
  RunningServes
CHECK_DEADLOCK FALSE

\* An event without clients.
CONSTANTS
  Clients = {c1}
  Binders = {b1}
  Cursors = {k1}
  NoCursor = NoCursor
SPECIFICATION FairSpec
PROPERTIES
  IdleLoopDrains
CHECK_DEADLOCK FALSE

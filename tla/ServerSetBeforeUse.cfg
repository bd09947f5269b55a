\* A client still in its handshake, and a cursor.
CONSTANTS
  Clients = {c1}
  Binders = {b1}
  Cursors = {k1}
  NoCursor = NoCursor
SPECIFICATION Spec
INVARIANTS
  ServerSetBeforeUse
CHECK_DEADLOCK FALSE

\* A cursor that another one may replace at any moment is delivered whole.
CONSTANTS
  Clients = {c1}
  Binders = {}
  Cursors = {k1, k2}
  NoCursor = NoCursor
SPECIFICATION FairSpec
PROPERTIES
  CursorDelivered
CHECK_DEADLOCK FALSE

\* No event is lost: one client, two binder threads, two cursors.
CONSTANTS
  Clients = {c1}
  Binders = {b1, b2}
  Cursors = {k1, k2}
  NoCursor = NoCursor
SPECIFICATION Spec
SYMMETRY MCSymmetry
INVARIANTS
  CursorNotLost
  FrameNotLost
  ClipNotLost
CHECK_DEADLOCK FALSE

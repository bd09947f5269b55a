\* The desktop is there for every ready client, and no event is put off for
\* ever: two clients.
CONSTANTS
  Clients = {c1, c2}
  Binders = {b1}
  Cursors = {k1}
  NoCursor = NoCursor
SPECIFICATION Spec
SYMMETRY MCSymmetry
INVARIANTS
  DesktopUsable
PROPERTIES
  CursorNears
  FrameNears
  ClipNears
CHECK_DEADLOCK FALSE

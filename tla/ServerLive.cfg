\* Frames and clipboard changes are delivered.
CONSTANTS
  Clients = {c1}
  Binders = {b1}
  Cursors = {k1}
  NoCursor = NoCursor
SPECIFICATION FairSpec
PROPERTIES
  FrameDelivered
  ClipDelivered
CHECK_DEADLOCK FALSE

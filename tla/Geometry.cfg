\* Turns, resizes and windows, with single precision.
CONSTANTS
  MaxLength = 15
  Modes <- MCModes
  Windows <- MCWindows
  Times <- FloatTimes
  Over <- FloatOver
SPECIFICATION Spec
INVARIANTS
  TypeOK
  FramesFit
  PictureInBuffer
  PictureFills
  PointerInRange
  ProjectionFollows
  BufferIsDisplay
PROPERTIES
  TurnKeepsWindow

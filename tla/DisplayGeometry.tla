--------------------------- MODULE DisplayGeometry ---------------------------
(***************************************************************************)
(* Sizes and rectangles: how the pixel buffer that the clients see, the    *)
(* virtual display that draws into it, the rectangle of the picture in it  *)
(* and the pointer device follow the display's size and rotation and the   *)
(* size of the client's window.                                            *)
(*                                                                         *)
(* Everything here runs on the server thread.  What it reads changes under *)
(* it: the internal display turns, or Java sets the size and rotation of   *)
(* its own display, field by field.  A reader may find half of such a      *)
(* write; that is one more value of "asked", for Modes may hold any sizes. *)
(*                                                                         *)
(* The code computes in floats and truncates.  Times(n, a, b) is           *)
(* n * (a / b) and Over(n, a, b) is n / (a / b), so computed.  The         *)
(* assumption bounds their error and is checked for the lengths of each    *)
(* instance against a definition of the float operations.                  *)
(***************************************************************************)
EXTENDS Integers

CONSTANTS
  MaxLength,     \* bound: no side of a display or a window is longer
  Modes,         \* sizes a display may have, in its natural orientation
  Windows,       \* sizes clients ask for
  Times(_, _, _),
  Over(_, _, _)

Lengths == 0..MaxLength
Sizes   == [w : Lengths, h : Lengths]

ASSUME LengthsAssumption ==
  /\ MaxLength \in Nat
  /\ Modes   \subseteq [w : 1..MaxLength, h : 1..MaxLength]
  /\ Windows \subseteq [w : 1..MaxLength, h : 1..MaxLength]

\* Truncation, and at most one more where the exact result is a whole number;
\* a factor of one is exact.
ASSUME FloatAssumption ==
  /\ \A n, a \in Lengths, b \in 1..MaxLength :
       LET t == Times(n, a, b) IN t \in Nat /\ n * a - b <= t * b /\ t * b <= n * a
  /\ \A n \in Lengths, a, b \in 1..MaxLength :
       LET t == Over(n, a, b) IN t \in Nat /\ n * b - a <= t * a /\ t * a <= n * b
  /\ \A n \in Lengths, a \in 1..MaxLength : Times(n, a, a) = n

Rotations == 0..3   \* quarter turns

VARIABLES
  mLayerId,          \* 0: the internal display is mirrored; -1: a display of Java's
  asked,             \* what updateDisplayInfo would read now
  mDisplayMode,
  mDisplayState,
  mPixels,           \* the pixel buffer
  shown,             \* the virtual display exists
  mVirtualDisplay,   \* its queue's size, its source and its projection
  mDisplayRect,
  device             \* the ranges of the pointer device

desktopVars == <<mDisplayMode, mDisplayState, mPixels>>
displayVars == <<shown, mVirtualDisplay, mDisplayRect, device>>
vars == <<mLayerId, asked, desktopVars, displayVars>>

Swap(s) == [w |-> s.h, h |-> s.w]
Empty   == [w |-> 0, h |-> 0]
One     == [num |-> 1, den |-> 1]

\* A constructed AndroidPixelBuffer.  Its client and source sizes are not
\* initialised; the forced setDisplayInfo that comes first does not use them.
Fresh == [rotated |-> FALSE, size |-> Empty, client |-> Empty, source |-> Empty,
          scaleX |-> One, scaleY |-> One]

Init ==
  /\ mLayerId \in {0, -1}
  /\ asked \in [mode : Modes, state : Rotations]
  /\ mDisplayMode = Empty /\ mDisplayState = 0 /\ mPixels = Fresh
  /\ shown = FALSE
  /\ mVirtualDisplay = [size |-> Empty, source |-> Empty, state |-> 0]
  /\ mDisplayRect = [left |-> 0, top |-> 0, right |-> 0, bottom |-> 0]
  /\ device = Empty

-----------------------------------------------------------------------------
(***************************************************************************)
(* AndroidPixelBuffer, as functions of its fields.                         *)
(***************************************************************************)

isDisplayRotated(state) == state \in {1, 3}

Oriented(mode, state) == IF isDisplayRotated(state) THEN Swap(mode) ELSE mode

\* Fault: the scale is not swapped.
setBufferRotationUnscaled(p, rotated) ==
  IF rotated = p.rotated THEN p
  ELSE [p EXCEPT !.rotated = rotated, !.size = Swap(p.size)]

\* The client's and the source's sizes stay as they are.
setBufferRotation(p, rotated) ==
  IF rotated = p.rotated THEN p
  ELSE [p EXCEPT !.rotated = rotated, !.size = Swap(p.size),
                 !.scaleX = p.scaleY, !.scaleY = p.scaleX]

Scaled(p) == [w |-> Times(p.source.w, p.scaleX.num, p.scaleX.den),
              h |-> Times(p.source.h, p.scaleY.num, p.scaleY.den)]

\* Fault: the scale is the other way round.
updateBufferSizeInverse(p, s) ==
  [p EXCEPT !.client = s, !.size = s,
            !.scaleX = [num |-> p.source.w, den |-> s.w],
            !.scaleY = [num |-> p.source.h, den |-> s.h]]

\* The buffer gets the size s, and the scale is what relates it to the source.
updateBufferSize(p, s) ==
  [p EXCEPT !.client = s, !.size = s,
            !.scaleX = [num |-> s.w, den |-> p.source.w],
            !.scaleY = [num |-> s.h, den |-> p.source.h]]

setWindowSize(p, s) == IF s = p.client THEN p ELSE updateBufferSize(p, s)

\* Fault: only the width is compared.
setDisplayInfoByWidth(p, mode, state, force) ==
  LET q == setBufferRotation(p, isDisplayRotated(state))
      r == [q EXCEPT !.source = Oriented(mode, state)]
  IN IF r.source.w # q.source.w \/ force THEN updateBufferSize(r, Scaled(r)) ELSE q

\* A changed source is scaled as the client's window had scaled the old one.
setDisplayInfo(p, mode, state, force) ==
  LET q == setBufferRotation(p, isDisplayRotated(state))
      r == [q EXCEPT !.source = Oriented(mode, state)]
  IN IF r.source # q.source \/ force THEN updateBufferSize(r, Scaled(r)) ELSE q

\* Whether the listener is told; of two calls only the last leaves a trace.
DimensionsChanged(p, q) == p.rotated # q.rotated \/ p.size # q.size

-----------------------------------------------------------------------------
(***************************************************************************)
(* VirtualDisplay and the listener.                                        *)
(***************************************************************************)

\* Fault: the side to keep is chosen the other way round.
ViewportOther(size, source) ==
  LET t == Times(size.h, source.w, source.h)
  IN IF size.w > t THEN [w |-> size.w, h |-> Over(size.w, source.w, source.h)]
                   ELSE [w |-> t, h |-> size.h]

\* Fault: the picture is stretched over the buffer.
ViewportStretched(size, source) == size

\* getDisplayRect: the source's aspect, limited by the width or by the height.
Viewport(size, source) ==
  LET t == Times(size.h, source.w, source.h)
  IN IF size.w <= t THEN [w |-> size.w, h |-> Over(size.w, source.w, source.h)]
                    ELSE [w |-> t, h |-> size.h]

\* The viewport is put into the middle.
getDisplayRect(size, source) ==
  LET out == Viewport(size, source)
      x == (size.w - out.w) \div 2
      y == (size.h - out.h) \div 2
  IN [left |-> x, top |-> y, right |-> x + out.w, bottom |-> y + out.h]

\* A queue of the buffer's size, and a projection of the display's oriented
\* picture with the rotation of now.
VirtualDisplay(size, mode, state) ==
  [size |-> size, source |-> Oriented(mode, state), state |-> state]

\* Fault: the pointer device is made for the buffer's size.
onBufferDimensionsChangedForBuffer(q) ==
  /\ shown' = TRUE
  /\ mVirtualDisplay' = VirtualDisplay(q.size, mDisplayMode', mDisplayState')
  /\ mDisplayRect' = getDisplayRect(q.size, mVirtualDisplay'.source)
  /\ device' = q.size

\* The virtual display is replaced, and the device made for the display's mode.
onBufferDimensionsChanged(q) ==
  /\ shown' = TRUE
  /\ mVirtualDisplay' = VirtualDisplay(q.size, mDisplayMode', mDisplayState')
  /\ mDisplayRect' = getDisplayRect(q.size, mVirtualDisplay'.source)
  /\ device' = mDisplayMode'

\* Fault: the listener is not told of a turn.
SetPixelsQuietly(q) ==
  /\ mPixels' = q
  /\ IF mPixels.rotated = q.rotated /\ mPixels.size # q.size
       THEN onBufferDimensionsChanged(q) ELSE UNCHANGED displayVars

\* A call into the pixel buffer has left it as q.
SetPixels(q) ==
  /\ mPixels' = q
  /\ IF DimensionsChanged(mPixels, q)
       THEN onBufferDimensionsChanged(q) ELSE UNCHANGED displayVars

-----------------------------------------------------------------------------
(***************************************************************************)
(* AndroidDesktop.                                                         *)
(***************************************************************************)

\* updateDisplayInfo, which has read what is asked.
Start ==
  /\ ~shown
  /\ mDisplayMode' = asked.mode /\ mDisplayState' = asked.state
  /\ mPixels' = setDisplayInfo(Fresh, asked.mode, asked.state, TRUE)
  /\ onBufferDimensionsChanged(mPixels')
  /\ UNCHANGED <<mLayerId, asked>>

\* The display cannot be queried: there is a pixel buffer and no display.
StartFails ==
  /\ ~shown
  /\ mPixels' = Fresh
  /\ UNCHANGED <<mLayerId, asked, mDisplayMode, mDisplayState, displayVars>>

Stop ==
  /\ shown /\ shown' = FALSE
  /\ UNCHANGED <<mLayerId, asked, desktopVars, mVirtualDisplay, mDisplayRect, device>>

\* processFrames: the display's size and rotation are read again.
ProcessFrames ==
  /\ shown
  /\ mDisplayMode' = asked.mode /\ mDisplayState' = asked.state
  /\ SetPixels(setDisplayInfo(mPixels, asked.mode, asked.state, FALSE))
  /\ UNCHANGED <<mLayerId, asked>>

RectSize == [w |-> mDisplayRect.right - mDisplayRect.left,
             h |-> mDisplayRect.bottom - mDisplayRect.top]

\* setScreenLayout of a mirrored display; a display of Java's is resized by
\* Java, and this call changes nothing.
SetScreenLayout(s) ==
  /\ shown /\ mLayerId = 0
  /\ s # RectSize
  /\ UNCHANGED <<mLayerId, asked, mDisplayMode, mDisplayState>>
  /\ SetPixels(setWindowSize(mPixels, s))

\* The internal display turns and keeps its mode; Java's display may be resized
\* and turned.
DisplayChanges(mode, state) ==
  /\ mLayerId = 0 => mode = asked.mode
  /\ asked' = [mode |-> mode, state |-> state]
  /\ UNCHANGED <<mLayerId, desktopVars, displayVars>>

Next ==
  \/ Start \/ StartFails \/ Stop \/ ProcessFrames
  \/ \E s \in Windows : SetScreenLayout(s)
  \/ \E mode \in Modes, state \in Rotations : DisplayChanges(mode, state)

Spec == Init /\ [][Next]_vars

-----------------------------------------------------------------------------
(***************************************************************************)
(* Pointer events.                                                         *)
(***************************************************************************)

Accepts(x, y) ==
  /\ mDisplayRect.left <= x /\ x <= mDisplayRect.right
  /\ mDisplayRect.top  <= y /\ y <= mDisplayRect.bottom

\* The quotient zero by zero, of an empty rectangle, becomes zero.
Translate(v, range, length) == IF length = 0 THEN 0 ELSE (v * range) \div length

PointerX(x) ==
  Translate(x - (mPixels.size.w - RectSize.w) \div 2, mDisplayMode.w, RectSize.w)
PointerY(y) ==
  Translate(y - (mPixels.size.h - RectSize.h) \div 2, mDisplayMode.h, RectSize.h)

-----------------------------------------------------------------------------
(***************************************************************************)
(* Properties.                                                             *)
(***************************************************************************)

Fractions == [num : Lengths, den : Nat \ {0}]

PixelTypes ==
  mPixels \in [rotated : BOOLEAN, size : Sizes, client : Sizes, source : Sizes,
               scaleX : Fractions, scaleY : Fractions]

\* The values the variables may take; no size is longer than MaxLength.
TypeOK ==
  /\ mLayerId \in {0, -1}
  /\ asked \in [mode : Modes, state : Rotations]
  /\ mDisplayMode \in Sizes /\ mDisplayState \in Rotations
  /\ PixelTypes
  /\ shown \in BOOLEAN
  /\ mVirtualDisplay \in [size : Sizes, source : Sizes, state : Rotations]
  /\ mDisplayRect \in [left : Int, top : Int, right : Int, bottom : Int]
  /\ device \in Sizes

\* A frame is copied into the pixel buffer from its corner: the queue's frames
\* have the buffer's size, after any order of turns, resizes and restarts.
FramesFit == shown => mVirtualDisplay.size = mPixels.size

\* The picture's rectangle lies in the buffer (the code's unsigned differences
\* never wrap), however the floats were rounded.
PictureInBuffer ==
  shown =>
    /\ 0 <= mDisplayRect.left /\ mDisplayRect.left <= mDisplayRect.right
    /\ mDisplayRect.right <= mPixels.size.w
    /\ 0 <= mDisplayRect.top /\ mDisplayRect.top <= mDisplayRect.bottom
    /\ mDisplayRect.bottom <= mPixels.size.h

\* The picture is as large as the buffer lets it be: it fills one side, and
\* keeps the aspect of the display to within a pixel on the other.
PictureFills ==
  shown =>
    LET s == mVirtualDisplay.source IN
    \/ /\ RectSize.w = mPixels.size.w
       /\ RectSize.w * s.h - s.w <= RectSize.h * s.w
       /\ RectSize.h * s.w <= RectSize.w * s.h
    \/ /\ RectSize.h = mPixels.size.h
       /\ RectSize.h * s.w - s.h <= RectSize.w * s.h
       /\ RectSize.w * s.h <= RectSize.h * s.w

\* Over a mirrored display, through turns and windows of any shape, a pointer
\* that is accepted lands in the device's ranges, and a picture that is not
\* empty is reached from edge to edge.
PointerInRange ==
  shown /\ mLayerId = 0 =>
    /\ \A x \in Lengths, y \in Lengths :
         Accepts(x, y) => PointerX(x) \in 0..device.w /\ PointerY(y) \in 0..device.h
    /\ RectSize.w > 0 => PointerX(mDisplayRect.left) = 0
                         /\ PointerX(mDisplayRect.right) = device.w
    /\ RectSize.h > 0 => PointerY(mDisplayRect.top) = 0
                         /\ PointerY(mDisplayRect.bottom) = device.h

\* The virtual display, which is only replaced when the buffer changes, projects
\* the display as it was last read: never sideways, and all of a mirrored one.
\* (It may be upside down, for a half turn changes nothing of the buffer, and a
\* display of Java's that was resized and turned at once may not be followed.)
ProjectionFollows ==
  shown =>
    /\ isDisplayRotated(mVirtualDisplay.state) = isDisplayRotated(mDisplayState)
    /\ mLayerId = 0 => mVirtualDisplay.source = Oriented(mDisplayMode, mDisplayState)

\* The buffer of Java's display, which no window scales, has the display's size
\* in one orientation or the other, whatever came together between two frames.
BufferIsDisplay ==
  shown /\ mLayerId = -1 => mPixels.size \in {mDisplayMode, Swap(mDisplayMode)}

\* "Orientation changed, swap width/height": a turn of the internal display
\* swaps the sides of the client's window, but for a pixel that the floats lose.
SwapsWindow ==
  shown /\ shown' /\ mLayerId = 0 /\ mPixels'.rotated # mPixels.rotated =>
    /\ mPixels'.size.w \in {mPixels.size.h - 1, mPixels.size.h}
    /\ mPixels'.size.h \in {mPixels.size.w - 1, mPixels.size.w}

TurnKeepsWindow == [][SwapsWindow]_vars
=============================================================================

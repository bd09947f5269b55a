------------------------ MODULE DisplayGeometryProofs ------------------------
(***************************************************************************)
(* Theorems about DisplayGeometry, for all modes, windows and float        *)
(* operations within FloatAssumption.                                      *)
(***************************************************************************)
EXTENDS DisplayGeometry, TLAPS

Visible == [w : 1..MaxLength, h : 1..MaxLength]

\* Multiplication by a natural number keeps an order.
LEMMA MulMono ==
  ASSUME NEW a \in Nat, NEW b \in Nat, NEW c \in Nat, a <= b
  PROVE  a * c <= b * c
BY Z3

\* A common positive factor may be cancelled.
LEMMA MulCancel ==
  ASSUME NEW a \in Nat, NEW b \in Nat, NEW c \in Nat \ {0}, a * c <= b * c
  PROVE  a <= b
<1>1. SUFFICES ASSUME b + 1 <= a PROVE FALSE
  OBVIOUS
<1>2. (b + 1) * c <= a * c
  BY <1>1, MulMono, b + 1 \in Nat
<1>3. (b + 1) * c = b * c + c
  BY Z3
<1>4. b * c \in Nat /\ a * c \in Nat
  BY Z3
<1> QED BY <1>2, <1>3, <1>4

\* A part of a length, scaled to a range, stays in the range.
LEMMA TranslateInRange ==
  ASSUME NEW v \in Nat, NEW range \in Nat, NEW length \in Nat, v <= length
  PROVE  /\ Translate(v, range, length) \in 0..range
         /\ Translate(0, range, length) = 0
         /\ length > 0 => Translate(length, range, length) = range
<1>1. CASE length = 0
  BY <1>1 DEF Translate
<1>2. CASE length # 0
  <2> DEFINE q == (v * range) \div length
  <2>1. v * range \in Nat /\ range * length \in Nat
    BY Z3
  <2>2. q \in Nat /\ q * length <= v * range
    BY <1>2, <2>1, Z3
  <2>3. v * range <= length * range /\ length * range = range * length
    BY MulMono, Z3
  <2>4. q * length <= range * length
    <3>1. q * length \in Nat
      BY <2>2, Z3
    <3> QED BY <2>1, <2>2, <2>3, <3>1
  <2>5. q <= range
    BY <1>2, <2>2, <2>4, MulCancel
  <2>6. (0 * range) \div length = 0
    BY <1>2, Z3
  <2>7. (length * range) \div length = range
    BY <1>2, Z3
  <2> QED BY <1>2, <2>2, <2>5, <2>6, <2>7 DEF Translate
<1> QED BY <1>1, <1>2

\* The sizes that stand for the two ways a viewport may fill the buffer.
FillsWidth(out, size, s) ==
  /\ out.w = size.w
  /\ out.w * s.h - s.w <= out.h * s.w
  /\ out.h * s.w <= out.w * s.h

FillsHeight(out, size, s) ==
  /\ out.h = size.h
  /\ out.h * s.w - s.h <= out.w * s.h
  /\ out.w * s.h <= out.h * s.w

\* The viewport is no larger than the buffer and fills it on one side.
LEMMA ViewportFits ==
  ASSUME NEW size \in Sizes, NEW s \in Visible
  PROVE  /\ Viewport(size, s) \in [w : 0..size.w, h : 0..size.h]
         /\ \/ FillsWidth(Viewport(size, s), size, s)
            \/ FillsHeight(Viewport(size, s), size, s)
<1> DEFINE t == Times(size.h, s.w, s.h)
           o == Over(size.w, s.w, s.h)
<1>0. /\ size.w \in Lengths /\ size.h \in Lengths
      /\ s.w \in 1..MaxLength /\ s.h \in 1..MaxLength /\ s.w \in Lengths
      /\ MaxLength \in Nat
  BY LengthsAssumption DEF Sizes, Visible, Lengths
<1>1. t \in Nat /\ size.h * s.w - s.h <= t * s.h /\ t * s.h <= size.h * s.w
  BY <1>0, FloatAssumption
<1>2. o \in Nat /\ size.w * s.h - s.w <= o * s.w /\ o * s.w <= size.w * s.h
  BY <1>0, FloatAssumption
<1>3. /\ size.w \in Nat /\ size.h \in Nat
      /\ s.w \in Nat \ {0} /\ s.h \in Nat \ {0} /\ s.w \in Nat /\ s.h \in Nat
  BY <1>0 DEF Lengths
<1> HIDE DEF t, o
<1>4. CASE size.w <= t
  <2>1. size.w * s.h <= t * s.h
    BY <1>1, <1>3, <1>4, MulMono
  <2>2. o * s.w \in Nat /\ size.w * s.h \in Nat /\ t * s.h \in Nat /\ size.h * s.w \in Nat
    BY <1>1, <1>2, <1>3, Z3
  <2>3. o * s.w <= size.h * s.w
    BY <1>1, <1>2, <2>1, <2>2
  <2>4. o <= size.h
    BY <1>2, <1>3, <2>3, MulCancel
  <2>5. Viewport(size, s) = [w |-> size.w, h |-> o]
    BY <1>4 DEF Viewport, t, o
  <2>6. FillsWidth([w |-> size.w, h |-> o], size, s)
    BY <1>2 DEF FillsWidth
  <2> QED BY <1>2, <1>3, <2>4, <2>5, <2>6
<1>5. CASE ~(size.w <= t)
  <2>1. Viewport(size, s) = [w |-> t, h |-> size.h]
    BY <1>5 DEF Viewport, t, o
  <2>2. FillsHeight([w |-> t, h |-> size.h], size, s)
    BY <1>1 DEF FillsHeight
  <2> QED BY <1>1, <1>3, <1>5, <2>1, <2>2
<1> QED BY <1>4, <1>5

\* The picture's rectangle: the viewport's size, inside the buffer.
LEMMA RectFits ==
  ASSUME NEW size \in Sizes, NEW s \in Visible
  PROVE  LET r == getDisplayRect(size, s)
             out == Viewport(size, s)
         IN /\ r \in [left : Nat, top : Nat, right : Nat, bottom : Nat]
            /\ r.right - r.left = out.w /\ r.bottom - r.top = out.h
            /\ r.left = (size.w - out.w) \div 2 /\ r.top = (size.h - out.h) \div 2
            /\ r.right <= size.w /\ r.bottom <= size.h
<1> DEFINE out == Viewport(size, s)
           x == (size.w - out.w) \div 2
           y == (size.h - out.h) \div 2
<1>1. size.w \in Nat /\ size.h \in Nat
  BY LengthsAssumption DEF Sizes, Lengths
<1>2. out.w \in 0..size.w /\ out.h \in 0..size.h
  BY ViewportFits
<1> HIDE DEF out
<1>3. x \in Nat /\ x + out.w <= size.w
  BY <1>1, <1>2, Z3
<1>4. y \in Nat /\ y + out.h <= size.h
  BY <1>1, <1>2, Z3
<1> HIDE DEF x, y
<1>5. getDisplayRect(size, s) =
        [left |-> x, top |-> y, right |-> x + out.w, bottom |-> y + out.h]
  BY DEF getDisplayRect, out, x, y
<1>6. out.w \in Nat /\ out.h \in Nat
  BY <1>1, <1>2
<1>7. [left |-> x, top |-> y, right |-> x + out.w, bottom |-> y + out.h]
        \in [left : Nat, top : Nat, right : Nat, bottom : Nat]
  BY <1>3, <1>4, <1>6
<1>8. (x + out.w) - x = out.w /\ (y + out.h) - y = out.h
  BY <1>3, <1>4, <1>6
<1> QED BY <1>3, <1>4, <1>5, <1>7, <1>8 DEF out, x, y

-----------------------------------------------------------------------------
(***************************************************************************)
(* The pixel buffer.                                                       *)
(***************************************************************************)

Pixels == [rotated : BOOLEAN, size : Sizes, client : Sizes, source : Sizes,
           scaleX : Fractions, scaleY : Fractions]

\* A mode, however oriented, is visible.
LEMMA OrientedVisible ==
  ASSUME NEW mode \in Modes, NEW state
  PROVE  Oriented(mode, state) \in Visible /\ Visible \subseteq Sizes
BY LengthsAssumption DEF Oriented, Swap, Visible, Sizes, Lengths

\* A size within bounds gives a well-formed buffer.
LEMMA UpdateTypes ==
  ASSUME NEW p \in Pixels, NEW s \in Sizes, p.source \in Visible
  PROVE  /\ updateBufferSize(p, s) \in Pixels
         /\ updateBufferSize(p, s).source = p.source
         /\ updateBufferSize(p, s).size = s
<1> DEFINE x == [num |-> s.w, den |-> p.source.w]
           y == [num |-> s.h, den |-> p.source.h]
<1>1. p.source.w \in Nat \ {0} /\ p.source.h \in Nat \ {0}
  BY LengthsAssumption DEF Visible
<1>2. s.w \in Lengths /\ s.h \in Lengths
  BY DEF Sizes
<1>3. x \in Fractions /\ y \in Fractions
  BY <1>1, <1>2 DEF Fractions
<1>4. updateBufferSize(p, s) =
        [p EXCEPT !.client = s, !.size = s, !.scaleX = x, !.scaleY = y]
  BY DEF updateBufferSize
<1> HIDE DEF x, y
<1> QED BY <1>3, <1>4 DEF Pixels

\* A turn swaps sides and scales and keeps the source.
LEMMA RotationTypes ==
  ASSUME NEW p \in Pixels, NEW rotated \in BOOLEAN
  PROVE  /\ setBufferRotation(p, rotated) \in Pixels
         /\ setBufferRotation(p, rotated).source = p.source
BY DEF setBufferRotation, Pixels, Swap, Sizes

\* setDisplayInfo keeps the types, and its result has a visible source.
LEMMA DisplayInfoTypes ==
  ASSUME NEW p \in Pixels, NEW mode \in Modes, NEW state \in Rotations,
         NEW force \in BOOLEAN, force \/ p.source \in Visible,
         setDisplayInfo(p, mode, state, force).size \in Sizes
  PROVE  /\ setDisplayInfo(p, mode, state, force) \in Pixels
         /\ setDisplayInfo(p, mode, state, force).source \in Visible
<1> DEFINE q == setBufferRotation(p, isDisplayRotated(state))
           r == [q EXCEPT !.source = Oriented(mode, state)]
<1>0. isDisplayRotated(state) \in BOOLEAN
  BY DEF isDisplayRotated
<1>1. q \in Pixels /\ q.source = p.source
  BY <1>0, RotationTypes
<1>2. Oriented(mode, state) \in Visible /\ Oriented(mode, state) \in Sizes
  BY OrientedVisible
<1> HIDE DEF q
<1>3. r \in Pixels /\ r.source = Oriented(mode, state)
  BY <1>1, <1>2 DEF Pixels
<1> HIDE DEF r
<1>4. CASE r.source # q.source \/ force
  <2>1. setDisplayInfo(p, mode, state, force) = updateBufferSize(r, Scaled(r))
    BY <1>4 DEF setDisplayInfo, q, r
  <2>2. updateBufferSize(r, Scaled(r)).size = Scaled(r)
    BY <1>3 DEF updateBufferSize, Pixels
  <2>3. Scaled(r) \in Sizes
    BY <2>1, <2>2
  <2> QED BY <1>2, <1>3, <2>1, <2>3, UpdateTypes
<1>5. CASE ~(r.source # q.source \/ force)
  <2>1. setDisplayInfo(p, mode, state, force) = q
    BY <1>5 DEF setDisplayInfo, q, r
  <2> QED BY <1>1, <1>5, <2>1
<1> QED BY <1>4, <1>5

\* A fresh buffer takes the size of the display.
LEMMA FreshTypes ==
  ASSUME NEW mode \in Modes, NEW state \in Rotations
  PROVE  /\ Fresh \in Pixels
         /\ setDisplayInfo(Fresh, mode, state, TRUE) \in Pixels
         /\ setDisplayInfo(Fresh, mode, state, TRUE).source \in Visible
<1>1. Oriented(mode, state) \in Visible /\ Oriented(mode, state) \in Sizes
  BY OrientedVisible
<1>2. MaxLength \in Nat \ {0}
  BY LengthsAssumption
<1>3. Fresh \in Pixels
  BY <1>2 DEF Fresh, Pixels, Empty, One, Fractions, Sizes, Lengths
<1> DEFINE q == setBufferRotation(Fresh, isDisplayRotated(state))
           r == [q EXCEPT !.source = Oriented(mode, state)]
<1>4. q \in Pixels /\ q.scaleX = One /\ q.scaleY = One
  <2>1. isDisplayRotated(state) \in BOOLEAN
    BY DEF isDisplayRotated
  <2>2. q \in Pixels
    BY <1>3, <2>1, RotationTypes
  <2>3. Fresh.scaleX = One /\ Fresh.scaleY = One
    BY DEF Fresh
  <2>4. \A p \in Pixels : p.scaleX = One /\ p.scaleY = One =>
          \A b : setBufferRotation(p, b).scaleX = One /\ setBufferRotation(p, b).scaleY = One
    BY DEF setBufferRotation, Pixels
  <2> QED BY <1>3, <2>2, <2>3, <2>4
<1> HIDE DEF q
<1>5. r \in Pixels /\ r.source = Oriented(mode, state) /\ r.scaleX = One /\ r.scaleY = One
  BY <1>1, <1>4 DEF Pixels
<1> HIDE DEF r
<1>6. Scaled(r) \in Sizes
  <2>1. r.source.w \in Lengths /\ r.source.h \in Lengths /\ 1 \in 1..MaxLength
    BY <1>1, <1>2, <1>5 DEF Sizes
  <2>2. Times(r.source.w, 1, 1) = r.source.w /\ Times(r.source.h, 1, 1) = r.source.h
    BY <2>1, FloatAssumption
  <2> QED BY <1>5, <2>1, <2>2 DEF Scaled, One, Sizes
<1>7. setDisplayInfo(Fresh, mode, state, TRUE) = updateBufferSize(r, Scaled(r))
  BY DEF setDisplayInfo, q, r
<1> QED BY <1>1, <1>3, <1>5, <1>6, <1>7, UpdateTypes

\* What a client's window does to the buffer.
LEMMA WindowTypes ==
  ASSUME NEW p \in Pixels, NEW s \in Windows, p.source \in Visible
  PROVE  /\ setWindowSize(p, s) \in Pixels
         /\ setWindowSize(p, s).source \in Visible
<1>1. s \in Sizes
  BY LengthsAssumption DEF Sizes, Lengths
<1> QED BY <1>1, UpdateTypes DEF setWindowSize

-----------------------------------------------------------------------------
(***************************************************************************)
(* The inductive invariant.                                                *)
(***************************************************************************)

\* The virtual display was made for the buffer as it is, the rectangle for the
\* virtual display, and over a mirrored display the device for its mode.
Matching ==
  shown =>
    /\ mDisplayMode \in Modes
    /\ mPixels.source \in Visible
    /\ mVirtualDisplay.size = mPixels.size
    /\ mVirtualDisplay.source \in Visible
    /\ mDisplayRect = getDisplayRect(mVirtualDisplay.size, mVirtualDisplay.source)
    /\ mLayerId = 0 => device = mDisplayMode /\ asked.mode = mDisplayMode

GeometryInv == TypeOK /\ Matching

\* The listener makes everything anew.
LEMMA Notified ==
  ASSUME NEW q \in Pixels, q.source \in Visible,
         mDisplayMode' \in Modes, mDisplayState' \in Rotations,
         mPixels' = q, onBufferDimensionsChanged(q)
  PROVE  /\ shown'
         /\ mVirtualDisplay' \in [size : Sizes, source : Sizes, state : Rotations]
         /\ mDisplayRect' \in [left : Int, top : Int, right : Int, bottom : Int]
         /\ device' \in Sizes /\ device' = mDisplayMode'
         /\ mVirtualDisplay'.size = mPixels'.size
         /\ mVirtualDisplay'.source \in Visible
         /\ mDisplayRect' = getDisplayRect(mVirtualDisplay'.size, mVirtualDisplay'.source)
<1> DEFINE source == Oriented(mDisplayMode', mDisplayState')
<1>1. source \in Visible /\ source \in Sizes
  BY OrientedVisible
<1>2. q.size \in Sizes
  BY DEF Pixels
<1>3. getDisplayRect(q.size, source) \in [left : Nat, top : Nat, right : Nat, bottom : Nat]
  BY <1>1, <1>2, RectFits
<1>4. getDisplayRect(q.size, source) \in [left : Int, top : Int, right : Int, bottom : Int]
  BY <1>3
<1>5. Modes \subseteq Sizes
  BY LengthsAssumption DEF Sizes, Lengths
<1>6. /\ shown' = TRUE
      /\ mVirtualDisplay' = [size |-> q.size, source |-> source, state |-> mDisplayState']
      /\ mDisplayRect' = getDisplayRect(q.size, source)
      /\ device' = mDisplayMode'
  BY DEF onBufferDimensionsChanged, VirtualDisplay
<1> HIDE DEF source
<1> QED BY <1>1, <1>2, <1>4, <1>5, <1>6

\* A call into the pixel buffer that leaves its source visible.
LEMMA PixelsSet ==
  ASSUME GeometryInv, shown, NEW q \in Pixels, q.source \in Visible,
         mDisplayMode' \in Modes, mDisplayState' \in Rotations,
         UNCHANGED <<mLayerId, asked>>, SetPixels(q),
         mLayerId = 0 => mDisplayMode' = mDisplayMode
  PROVE  GeometryInv'
<1> USE DEF GeometryInv, TypeOK, Matching, PixelTypes, Pixels
<1>1. Modes \subseteq Sizes
  BY LengthsAssumption DEF Sizes, Lengths
<1>2. mPixels' = q
  BY DEF SetPixels
<1>3. CASE DimensionsChanged(mPixels, q)
  <2>1. onBufferDimensionsChanged(q)
    BY <1>3 DEF SetPixels
  <2> QED BY <1>1, <1>2, <2>1, Notified
<1>4. CASE ~DimensionsChanged(mPixels, q)
  <2>1. UNCHANGED displayVars /\ q.size = mPixels.size
    BY <1>4 DEF SetPixels, DimensionsChanged
  <2> QED BY <1>1, <1>2, <2>1 DEF displayVars
<1> QED BY <1>3, <1>4

\* Types and matching hold at the start.
LEMMA GeometryInit ==
  ASSUME Init
  PROVE  GeometryInv
<1>1. MaxLength \in Nat
  BY LengthsAssumption
<1>2. Empty \in Sizes
  BY <1>1 DEF Empty, Sizes, Lengths
<1>3. mPixels \in Pixels
  <2>1. PICK a \in [mode : Modes, state : Rotations] : asked = a
    BY DEF Init
  <2>2. a.mode \in Modes /\ a.state \in Rotations
    OBVIOUS
  <2> QED BY <2>2, FreshTypes DEF Init
<1>4. /\ mVirtualDisplay \in [size : Sizes, source : Sizes, state : Rotations]
      /\ mDisplayRect \in [left : Int, top : Int, right : Int, bottom : Int]
      /\ mDisplayState \in Rotations
  BY <1>2 DEF Init, Rotations
<1>5. /\ mLayerId \in {0, -1} /\ asked \in [mode : Modes, state : Rotations]
      /\ mDisplayMode \in Sizes /\ shown = FALSE /\ device \in Sizes
  BY <1>2 DEF Init
<1> QED BY <1>3, <1>4, <1>5 DEF GeometryInv, TypeOK, Matching, PixelTypes, Pixels

\* Every step keeps them that leaves the buffer's size within bounds.
LEMMA GeometryStep ==
  ASSUME GeometryInv, [Next]_vars, mPixels'.size \in Sizes
  PROVE  GeometryInv'
<1>0. /\ asked.mode \in Modes /\ asked.state \in Rotations
      /\ mPixels \in Pixels /\ Modes \subseteq Sizes
  BY LengthsAssumption DEF GeometryInv, TypeOK, PixelTypes, Pixels, Sizes, Lengths
<1>1. CASE Start
  <2> DEFINE q == setDisplayInfo(Fresh, asked.mode, asked.state, TRUE)
  <2>1. q \in Pixels /\ q.source \in Visible
    BY <1>0, FreshTypes
  <2>2. /\ mPixels' = q /\ onBufferDimensionsChanged(q)
        /\ mDisplayMode' = asked.mode /\ mDisplayState' = asked.state
        /\ UNCHANGED <<mLayerId, asked>>
    BY <1>1 DEF Start
  <2> HIDE DEF q
  <2>3. /\ shown'
        /\ mVirtualDisplay' \in [size : Sizes, source : Sizes, state : Rotations]
        /\ mDisplayRect' \in [left : Int, top : Int, right : Int, bottom : Int]
        /\ device' \in Sizes /\ device' = mDisplayMode'
        /\ mVirtualDisplay'.size = mPixels'.size
        /\ mVirtualDisplay'.source \in Visible
        /\ mDisplayRect' = getDisplayRect(mVirtualDisplay'.size, mVirtualDisplay'.source)
    BY <1>0, <2>1, <2>2, Notified
  <2> QED BY <1>0, <2>1, <2>2, <2>3
        DEF GeometryInv, TypeOK, Matching, PixelTypes, Pixels
<1>2. CASE StartFails
  <2>1. Fresh \in Pixels
    BY <1>0, FreshTypes
  <2> QED BY <1>2, <2>1
        DEF StartFails, GeometryInv, TypeOK, Matching, PixelTypes, Pixels, displayVars
<1>3. CASE Stop
  BY <1>3 DEF Stop, GeometryInv, TypeOK, Matching, PixelTypes, desktopVars
<1>4. CASE ProcessFrames
  <2> DEFINE q == setDisplayInfo(mPixels, asked.mode, asked.state, FALSE)
  <2>1. /\ shown /\ SetPixels(q) /\ UNCHANGED <<mLayerId, asked>>
        /\ mDisplayMode' = asked.mode /\ mDisplayState' = asked.state
    BY <1>4 DEF ProcessFrames
  <2>2. q.size \in Sizes
    BY <2>1 DEF SetPixels
  <2>3. mPixels.source \in Visible /\ (mLayerId = 0 => asked.mode = mDisplayMode)
    BY <2>1 DEF GeometryInv, Matching
  <2>4. q \in Pixels /\ q.source \in Visible
    BY <1>0, <2>2, <2>3, DisplayInfoTypes
  <2> HIDE DEF q
  <2> QED BY <1>0, <2>1, <2>3, <2>4, PixelsSet
<1>5. ASSUME NEW s \in Windows, SetScreenLayout(s) PROVE GeometryInv'
  <2> DEFINE q == setWindowSize(mPixels, s)
  <2>1. /\ shown /\ SetPixels(q)
        /\ UNCHANGED <<mLayerId, asked, mDisplayMode, mDisplayState>>
    BY <1>5 DEF SetScreenLayout
  <2>2. mPixels.source \in Visible /\ mDisplayMode \in Modes /\ mDisplayState \in Rotations
    BY <2>1 DEF GeometryInv, Matching, TypeOK
  <2>3. q \in Pixels /\ q.source \in Visible
    BY <1>0, <2>2, WindowTypes
  <2> HIDE DEF q
  <2> QED BY <2>1, <2>2, <2>3, PixelsSet
<1>6. ASSUME NEW mode \in Modes, NEW state \in Rotations, DisplayChanges(mode, state)
      PROVE  GeometryInv'
  BY <1>6 DEF DisplayChanges, GeometryInv, TypeOK, Matching, PixelTypes,
              desktopVars, displayVars
<1>7. CASE UNCHANGED vars
  BY <1>7 DEF vars, GeometryInv, TypeOK, Matching, PixelTypes, desktopVars, displayVars
<1> QED BY <1>1, <1>2, <1>3, <1>4, <1>5, <1>6, <1>7 DEF Next

-----------------------------------------------------------------------------
(***************************************************************************)
(* Orientation: the projection, and the buffer of Java's display.          *)
(***************************************************************************)

\* A scale that changes nothing.
Unit == {f \in Fractions : f.num \in 1..MaxLength /\ f.num = f.den}

\* The buffer has the source's size, in one orientation or the other, unscaled.
Unscaled(p) ==
  /\ p.size \in {p.source, Swap(p.source)}
  /\ p.scaleX \in Unit /\ p.scaleY \in Unit

\* The buffer was turned as the display was last read, the projection with it.
Orientation ==
  shown =>
    /\ mPixels.rotated = isDisplayRotated(mDisplayState)
    /\ isDisplayRotated(mVirtualDisplay.state) = mPixels.rotated
    /\ mPixels.source = Oriented(mDisplayMode, mDisplayState)
    /\ mLayerId = 0 => mVirtualDisplay.source = Oriented(mDisplayMode, mDisplayState)
    /\ mLayerId = -1 => Unscaled(mPixels)

OrientationInv == GeometryInv /\ Orientation

\* The sides of a size may be swapped twice, and a mode is turned or it is not.
LEMMA SwapTwice ==
  ASSUME NEW s \in Sizes
  PROVE  Swap(s) \in Sizes /\ Swap(Swap(s)) = s
BY DEF Sizes, Swap

\* setDisplayInfo turns the buffer with the display and takes its source.
LEMMA DisplayInfoOrients ==
  ASSUME NEW p \in Pixels, NEW mode \in Modes, NEW state \in Rotations,
         NEW force \in BOOLEAN
  PROVE  LET q == setDisplayInfo(p, mode, state, force)
         IN q.rotated = isDisplayRotated(state) /\ q.source = Oriented(mode, state)
<1> DEFINE b == isDisplayRotated(state)
           o == Oriented(mode, state)
           q == setBufferRotation(p, b)
           r == [q EXCEPT !.source = o]
<1>0. b \in BOOLEAN
  BY DEF isDisplayRotated
<1>1. o \in Sizes
  BY OrientedVisible
<1> HIDE DEF b, o
<1>2. q \in Pixels
  BY <1>0, RotationTypes
<1>3. q.rotated = b
  BY <1>0 DEF setBufferRotation, Pixels
<1> HIDE DEF q
<1>4. r \in Pixels /\ r.rotated = b /\ r.source = o
  BY <1>1, <1>2, <1>3 DEF Pixels
<1> HIDE DEF r
<1>5. setDisplayInfo(p, mode, state, force) =
        IF r.source # q.source \/ force THEN updateBufferSize(r, Scaled(r)) ELSE q
  BY DEF setDisplayInfo, q, r, b, o
<1>6. /\ updateBufferSize(r, Scaled(r)).rotated = b
      /\ updateBufferSize(r, Scaled(r)).source = o
  BY <1>4 DEF updateBufferSize, Pixels
<1> QED BY <1>3, <1>4, <1>5, <1>6 DEF b, o

\* A unit scale leaves a source of a display's size as it is.
LEMMA ScaledByUnit ==
  ASSUME NEW r \in Pixels, r.source \in Visible, r.scaleX \in Unit, r.scaleY \in Unit
  PROVE  Scaled(r) = r.source /\ Unscaled(updateBufferSize(r, Scaled(r)))
<1>1. /\ r.source.w \in Lengths /\ r.source.h \in Lengths
      /\ r.source.w \in 1..MaxLength /\ r.source.h \in 1..MaxLength
      /\ r.source \in Sizes
  BY LengthsAssumption DEF Visible, Sizes, Lengths
<1>2. /\ r.scaleX.num = r.scaleX.den /\ r.scaleX.num \in 1..MaxLength
      /\ r.scaleY.num = r.scaleY.den /\ r.scaleY.num \in 1..MaxLength
  BY DEF Unit
<1>3. /\ Times(r.source.w, r.scaleX.num, r.scaleX.den) = r.source.w
      /\ Times(r.source.h, r.scaleY.num, r.scaleY.den) = r.source.h
  BY <1>1, <1>2, FloatAssumption
<1>4. Scaled(r) = r.source
  BY <1>1, <1>3 DEF Scaled, Sizes
<1> DEFINE u == updateBufferSize(r, r.source)
<1>5. /\ u.size = r.source /\ u.source = r.source
      /\ u.scaleX = [num |-> r.source.w, den |-> r.source.w]
      /\ u.scaleY = [num |-> r.source.h, den |-> r.source.h]
  BY DEF updateBufferSize, Pixels
<1>6. \A n \in 1..MaxLength : [num |-> n, den |-> n] \in Unit
  BY LengthsAssumption DEF Unit, Fractions, Lengths
<1>7. Unscaled(u)
  BY <1>1, <1>5, <1>6 DEF Unscaled
<1> QED BY <1>4, <1>7

\* An unscaled buffer stays unscaled, however the display is resized and turned.
LEMMA DisplayInfoUnscaled ==
  ASSUME NEW p \in Pixels, NEW mode \in Modes, NEW state \in Rotations,
         NEW force \in BOOLEAN, p.scaleX \in Unit, p.scaleY \in Unit,
         force \/ p.size \in {p.source, Swap(p.source)}
  PROVE  Unscaled(setDisplayInfo(p, mode, state, force))
<1> DEFINE b == isDisplayRotated(state)
           o == Oriented(mode, state)
           q == setBufferRotation(p, b)
           r == [q EXCEPT !.source = o]
<1>0. b \in BOOLEAN
  BY DEF isDisplayRotated
<1>1. o \in Visible /\ o \in Sizes
  BY OrientedVisible
<1> HIDE DEF b, o
<1>2. q \in Pixels /\ q.source = p.source
  BY <1>0, RotationTypes
<1>3. q.scaleX \in Unit /\ q.scaleY \in Unit /\ q.size \in {p.size, Swap(p.size)}
  BY <1>0 DEF setBufferRotation, Pixels
<1> HIDE DEF q
<1>4. r \in Pixels /\ r.source = o /\ r.scaleX = q.scaleX /\ r.scaleY = q.scaleY
  BY <1>1, <1>2 DEF Pixels
<1> HIDE DEF r
<1>5. setDisplayInfo(p, mode, state, force) =
        IF r.source # q.source \/ force THEN updateBufferSize(r, Scaled(r)) ELSE q
  BY DEF setDisplayInfo, q, r, b, o
<1>6. CASE r.source # q.source \/ force
  BY <1>1, <1>3, <1>4, <1>5, <1>6, ScaledByUnit
<1>7. CASE ~(r.source # q.source \/ force)
  <2>1. p.size \in {p.source, Swap(p.source)} /\ p.source \in Sizes
    BY <1>7 DEF Pixels
  <2>2. q.size \in {q.source, Swap(q.source)}
    BY <1>2, <1>3, <2>1, SwapTwice
  <2> QED BY <1>3, <1>5, <1>7, <2>2 DEF Unscaled
<1> QED BY <1>6, <1>7

\* A call into the pixel buffer keeps the projection in step with it.
LEMMA PixelsOrient ==
  ASSUME OrientationInv, shown, NEW q \in Pixels, SetPixels(q),
         UNCHANGED mLayerId, mLayerId = 0 => mDisplayMode' = mDisplayMode,
         q.rotated = isDisplayRotated(mDisplayState'),
         q.source = Oriented(mDisplayMode', mDisplayState'),
         mLayerId = -1 => Unscaled(q)
  PROVE  Orientation'
<1>1. mPixels' = q
  BY DEF SetPixels
<1>2. CASE DimensionsChanged(mPixels, q)
  <2>1. mVirtualDisplay' = VirtualDisplay(q.size, mDisplayMode', mDisplayState')
    BY <1>2 DEF SetPixels, onBufferDimensionsChanged
  <2>2. /\ mVirtualDisplay'.state = mDisplayState'
        /\ mVirtualDisplay'.source = Oriented(mDisplayMode', mDisplayState')
    BY <2>1 DEF VirtualDisplay
  <2> QED BY <1>1, <2>2 DEF Orientation
<1>3. CASE ~DimensionsChanged(mPixels, q)
  <2>1. UNCHANGED displayVars /\ q.rotated = mPixels.rotated
    BY <1>3 DEF SetPixels, DimensionsChanged
  <2>2. /\ mPixels.rotated = isDisplayRotated(mDisplayState)
        /\ isDisplayRotated(mVirtualDisplay.state) = mPixels.rotated
        /\ mLayerId = 0 => mVirtualDisplay.source = Oriented(mDisplayMode, mDisplayState)
    BY DEF OrientationInv, Orientation
  <2>3. mLayerId = 0 =>
          Oriented(mDisplayMode', mDisplayState') = Oriented(mDisplayMode, mDisplayState)
    BY <2>1, <2>2 DEF Oriented
  <2> QED BY <1>1, <2>1, <2>2, <2>3 DEF Orientation, displayVars
<1> QED BY <1>2, <1>3

\* The buffer's orientation is the display's, through every step.
LEMMA OrientationStep ==
  ASSUME OrientationInv, GeometryInv', [Next]_vars
  PROVE  Orientation'
<1>0. /\ asked.mode \in Modes /\ asked.state \in Rotations /\ mPixels \in Pixels
      /\ mLayerId \in {0, -1}
  BY DEF OrientationInv, GeometryInv, TypeOK, PixelTypes, Pixels
<1>1. CASE Start
  <2> DEFINE q == setDisplayInfo(Fresh, asked.mode, asked.state, TRUE)
  <2>1. q.rotated = isDisplayRotated(asked.state) /\ q.source = Oriented(asked.mode, asked.state)
    BY <1>0, FreshTypes, DisplayInfoOrients
  <2>2. One \in Unit /\ Fresh.scaleX = One /\ Fresh.scaleY = One
    BY <1>0, LengthsAssumption DEF One, Unit, Fractions, Lengths, Fresh
  <2>3. Unscaled(q)
    BY <1>0, <2>2, FreshTypes, DisplayInfoUnscaled
  <2>4. /\ mPixels' = q /\ mDisplayMode' = asked.mode /\ mDisplayState' = asked.state
        /\ mVirtualDisplay' = VirtualDisplay(q.size, mDisplayMode', mDisplayState')
    BY <1>1 DEF Start, onBufferDimensionsChanged
  <2>5. /\ mVirtualDisplay'.state = mDisplayState'
        /\ mVirtualDisplay'.source = Oriented(mDisplayMode', mDisplayState')
    BY <2>4 DEF VirtualDisplay
  <2> HIDE DEF q
  <2> QED BY <2>1, <2>3, <2>4, <2>5 DEF Orientation
<1>2. CASE StartFails
  BY <1>2 DEF StartFails, Orientation, displayVars
<1>3. CASE Stop
  BY <1>3 DEF Stop, Orientation
<1>4. CASE ProcessFrames
  <2> DEFINE q == setDisplayInfo(mPixels, asked.mode, asked.state, FALSE)
  <2>1. /\ shown /\ SetPixels(q) /\ UNCHANGED <<mLayerId, asked>>
        /\ mDisplayMode' = asked.mode /\ mDisplayState' = asked.state
    BY <1>4 DEF ProcessFrames
  <2>2. q.size \in Sizes
    BY <2>1 DEF SetPixels, GeometryInv, TypeOK, PixelTypes
  <2>3. mPixels.source \in Visible /\ (mLayerId = 0 => asked.mode = mDisplayMode)
    BY <2>1 DEF OrientationInv, GeometryInv, Matching
  <2>4. q \in Pixels
    BY <1>0, <2>2, <2>3, DisplayInfoTypes
  <2>5. q.rotated = isDisplayRotated(asked.state) /\ q.source = Oriented(asked.mode, asked.state)
    BY <1>0, DisplayInfoOrients
  <2>6. mLayerId = -1 => Unscaled(q)
    BY <1>0, <2>1, DisplayInfoUnscaled DEF OrientationInv, Orientation, Unscaled
  <2> HIDE DEF q
  <2> QED BY <2>1, <2>3, <2>4, <2>5, <2>6, PixelsOrient
<1>5. ASSUME NEW s \in Windows, SetScreenLayout(s) PROVE Orientation'
  <2> DEFINE q == setWindowSize(mPixels, s)
  <2>1. /\ shown /\ mLayerId = 0 /\ SetPixels(q)
        /\ UNCHANGED <<mLayerId, asked, mDisplayMode, mDisplayState>>
    BY <1>5 DEF SetScreenLayout
  <2>2. mPixels.source \in Visible
    BY <2>1 DEF OrientationInv, GeometryInv, Matching
  <2>3. q \in Pixels
    BY <1>0, <2>2, WindowTypes
  <2>4. q.rotated = mPixels.rotated /\ q.source = mPixels.source
    BY <1>0 DEF setWindowSize, updateBufferSize, Pixels
  <2> HIDE DEF q
  <2>5. /\ q.rotated = isDisplayRotated(mDisplayState')
        /\ q.source = Oriented(mDisplayMode', mDisplayState')
    BY <2>1, <2>4 DEF OrientationInv, Orientation
  <2>6. mLayerId # -1
    BY <2>1
  <2> QED BY <2>1, <2>3, <2>5, <2>6, PixelsOrient
<1>6. ASSUME NEW mode \in Modes, NEW state \in Rotations, DisplayChanges(mode, state)
      PROVE  Orientation'
  BY <1>6 DEF DisplayChanges, OrientationInv, Orientation, desktopVars, displayVars, Unscaled
<1>7. CASE UNCHANGED vars
  BY <1>7 DEF vars, OrientationInv, Orientation, desktopVars, displayVars, Unscaled
<1> QED BY <1>1, <1>2, <1>3, <1>4, <1>5, <1>6, <1>7 DEF Next

-----------------------------------------------------------------------------
(***************************************************************************)
(* The client's window through a turn of the internal display.             *)
(***************************************************************************)

\* The scale is what relates the buffer to the source.
Related(p) ==
  /\ p.scaleX = [num |-> p.size.w, den |-> p.source.w]
  /\ p.scaleY = [num |-> p.size.h, den |-> p.source.h]

Window == shown => (mLayerId = 0 => Related(mPixels))

WindowInv == OrientationInv /\ Window

\* updateBufferSize relates what it is given.
LEMMA UpdateRelates ==
  ASSUME NEW p \in Pixels, NEW s \in Sizes
  PROVE  Related(updateBufferSize(p, s)) /\ updateBufferSize(p, s).size = s
BY DEF Related, updateBufferSize, Pixels

\* The product with a quotient of the length it divides by.
LEMMA TimesBack ==
  ASSUME NEW a \in Lengths, NEW b \in 1..MaxLength
  PROVE  Times(b, a, b) \in {a - 1, a} /\ Times(b, a, b) \in Lengths
<1> DEFINE t == Times(b, a, b)
<1>1. b \in Lengths /\ a \in Nat /\ b \in Nat \ {0}
  BY LengthsAssumption DEF Lengths
<1>2. t \in Nat /\ b * a - b <= t * b /\ t * b <= b * a
  BY <1>1, FloatAssumption
<1> HIDE DEF t
<1>3. b * a = a * b /\ b * a \in Nat /\ t * b \in Nat
  BY <1>1, <1>2, Z3
<1>4. t <= a
  BY <1>1, <1>2, <1>3, MulCancel
<1>5. (t + 1) * b = t * b + b /\ t + 1 \in Nat
  BY <1>1, <1>2, Z3
<1>6. a * b <= (t + 1) * b
  BY <1>1, <1>2, <1>3, <1>5
<1>7. a <= t + 1
  BY <1>1, <1>5, <1>6, MulCancel
<1>8. t = a - 1 \/ t = a
  BY <1>1, <1>2, <1>4, <1>7
<1>9. t \in Lengths
  BY <1>2, <1>4, LengthsAssumption DEF Lengths
<1> QED BY <1>8, <1>9 DEF t

\* setDisplayInfo of a mode that only turns.
LEMMA TurnSwaps ==
  ASSUME NEW p \in Pixels, NEW mode \in Modes, NEW old \in Rotations, NEW state \in Rotations,
         p.rotated = isDisplayRotated(old), p.source = Oriented(mode, old), Related(p)
  PROVE  LET q == setDisplayInfo(p, mode, state, FALSE)
         IN /\ Related(q) /\ q.size \in Sizes
            /\ q.rotated # p.rotated =>
                 /\ q.size.w \in {p.size.h - 1, p.size.h}
                 /\ q.size.h \in {p.size.w - 1, p.size.w}
<1> DEFINE b == isDisplayRotated(state)
           o == Oriented(mode, state)
           t == setBufferRotation(p, b)
           r == [t EXCEPT !.source = o]
           q == setDisplayInfo(p, mode, state, FALSE)
<1>0. b \in BOOLEAN /\ o \in Visible /\ o \in Sizes /\ mode \in Sizes
  BY OrientedVisible, LengthsAssumption DEF isDisplayRotated, Sizes, Lengths
<1>1. b = p.rotated => o = p.source
  BY DEF Oriented, isDisplayRotated
<1>2. b # p.rotated => o = Swap(p.source)
  BY <1>0, SwapTwice DEF Oriented, isDisplayRotated
<1>3. q = IF r.source # t.source THEN updateBufferSize(r, Scaled(r)) ELSE t
  BY DEF setDisplayInfo
<1>4. t \in Pixels /\ t.source = p.source
  BY <1>0, RotationTypes
<1>5. r \in Pixels /\ r.source = o
  BY <1>0, <1>4 DEF Pixels
<1> HIDE DEF b, o, q
<1>6. CASE b = p.rotated
  <2>1. t = p
    BY <1>6 DEF setBufferRotation
  <2>2. q = p
    BY <1>1, <1>3, <1>4, <1>5, <1>6, <2>1
  <2> QED BY <2>2 DEF q, Pixels
<1>7. CASE b # p.rotated
  <2>1. /\ t.size = Swap(p.size) /\ t.rotated = b
        /\ t.scaleX = p.scaleY /\ t.scaleY = p.scaleX
    BY <1>7 DEF setBufferRotation, Pixels
  <2>2. o.w = p.source.h /\ o.h = p.source.w
    BY <1>2, <1>7 DEF Swap
  <2>3. /\ r.scaleX = [num |-> p.size.h, den |-> o.w]
        /\ r.scaleY = [num |-> p.size.w, den |-> o.h]
    BY <2>1, <2>2 DEF Related, Pixels
  <2>4. p.size.w \in Lengths /\ p.size.h \in Lengths /\ o.w \in 1..MaxLength /\ o.h \in 1..MaxLength
    BY <1>0 DEF Pixels, Sizes, Visible
  <2> HIDE DEF t, r
  <2>5. CASE r.source # t.source
    <3>1. q = updateBufferSize(r, Scaled(r)) /\ Scaled(r) = q.size
      BY <1>3, <1>5, <2>5 DEF updateBufferSize, Pixels
    <3>2. q.size = [w |-> Times(o.w, p.size.h, o.w), h |-> Times(o.h, p.size.w, o.h)]
      BY <1>5, <2>3, <3>1 DEF Scaled
    <3>3. /\ q.size.w \in {p.size.h - 1, p.size.h} /\ q.size.w \in Lengths
          /\ q.size.h \in {p.size.w - 1, p.size.w} /\ q.size.h \in Lengths
      BY <2>4, <3>2, TimesBack
    <3>4. q.size \in Sizes
      BY <3>2, <3>3 DEF Sizes
    <3>5. Related(q)
      BY <1>5, <3>1, <3>4, UpdateRelates
    <3> QED BY <3>3, <3>4, <3>5 DEF q
  <2>6. CASE r.source = t.source
    <3>1. q = t /\ t.source = o
      BY <1>3, <1>5, <2>6
    <3>2. Related(t)
      BY <2>1, <2>2, <3>1 DEF Related, Swap
    <3>3. t.size.w = p.size.h /\ t.size.h = p.size.w
      BY <2>1 DEF Swap
    <3>4. t.size \in Sizes
      BY <1>4, <3>1 DEF Pixels
    <3> QED BY <3>1, <3>2, <3>3, <3>4 DEF q
  <2> QED BY <2>5, <2>6
<1> QED BY <1>6, <1>7

\* A mirrored display's buffer is what the client's window and the turns make it.
LEMMA WindowStep ==
  ASSUME WindowInv, [Next]_vars
  PROVE  Window'
<1>0. /\ asked.mode \in Modes /\ asked.state \in Rotations /\ mPixels \in Pixels
      /\ mDisplayState \in Rotations
  BY DEF WindowInv, OrientationInv, GeometryInv, TypeOK, PixelTypes, Pixels
<1>1. CASE Start
  <2> DEFINE b == isDisplayRotated(asked.state)
             r == [setBufferRotation(Fresh, b) EXCEPT !.source = Oriented(asked.mode, asked.state)]
             q == setDisplayInfo(Fresh, asked.mode, asked.state, TRUE)
  <2>1. q = updateBufferSize(r, Scaled(r))
    BY DEF setDisplayInfo
  <2>2. r \in Pixels
    <3>1. b \in BOOLEAN
      BY DEF isDisplayRotated
    <3>2. setBufferRotation(Fresh, b) \in Pixels
      BY <1>0, <3>1, FreshTypes, RotationTypes
    <3>3. Oriented(asked.mode, asked.state) \in Sizes
      BY <1>0, OrientedVisible
    <3> QED BY <3>2, <3>3 DEF Pixels
  <2>3. q \in Pixels
    BY <1>0, FreshTypes
  <2> HIDE DEF r, q
  <2>4. q.size = Scaled(r)
    BY <2>1, <2>2 DEF updateBufferSize, Pixels
  <2>5. Scaled(r) \in Sizes
    BY <2>3, <2>4 DEF Pixels
  <2>6. Related(q)
    BY <2>1, <2>2, <2>5, UpdateRelates
  <2>7. mPixels' = q
    BY <1>1 DEF Start, q
  <2> QED BY <2>6, <2>7 DEF Window
<1>2. CASE StartFails
  BY <1>2 DEF StartFails, Window, displayVars
<1>3. CASE Stop
  BY <1>3 DEF Stop, Window
<1>4. CASE ProcessFrames
  <2>1. /\ shown /\ SetPixels(setDisplayInfo(mPixels, asked.mode, asked.state, FALSE))
        /\ UNCHANGED mLayerId
    BY <1>4 DEF ProcessFrames
  <2>2. mPixels' = setDisplayInfo(mPixels, asked.mode, asked.state, FALSE)
    BY <2>1 DEF SetPixels
  <2>3. ASSUME mLayerId = 0 PROVE Related(mPixels')
    <3>1. /\ mPixels.rotated = isDisplayRotated(mDisplayState)
          /\ mPixels.source = Oriented(asked.mode, mDisplayState)
          /\ Related(mPixels)
      BY <2>1, <2>3 DEF WindowInv, Window, OrientationInv, Orientation, GeometryInv, Matching
    <3> QED BY <1>0, <2>2, <3>1, TurnSwaps
  <2> QED BY <2>1, <2>3 DEF Window
<1>5. ASSUME NEW s \in Windows, SetScreenLayout(s) PROVE Window'
  <2>1. shown /\ mLayerId = 0 /\ mPixels' = setWindowSize(mPixels, s)
    BY <1>5 DEF SetScreenLayout, SetPixels
  <2>2. Related(mPixels)
    BY <2>1 DEF WindowInv, Window
  <2>3. s \in Sizes
    BY LengthsAssumption DEF Sizes, Lengths
  <2>4. Related(setWindowSize(mPixels, s))
    BY <1>0, <2>2, <2>3, UpdateRelates DEF setWindowSize
  <2> QED BY <2>1, <2>4 DEF Window
<1>6. ASSUME NEW mode \in Modes, NEW state \in Rotations, DisplayChanges(mode, state)
      PROVE  Window'
  BY <1>6 DEF DisplayChanges, WindowInv, Window, desktopVars, displayVars
<1>7. CASE UNCHANGED vars
  BY <1>7 DEF vars, WindowInv, Window, desktopVars, displayVars
<1> QED BY <1>1, <1>2, <1>3, <1>4, <1>5, <1>6, <1>7 DEF Next

\* No step makes a side of the buffer longer than the bound: Java's display is
\* not scaled, and a turn of a mirrored one takes the sides there are, or one less.
LEMMA SizeKept ==
  ASSUME WindowInv, [Next]_vars
  PROVE  mPixels'.size \in Sizes
<1>0. /\ asked.mode \in Modes /\ asked.state \in Rotations
      /\ mPixels \in Pixels /\ mPixels.size \in Sizes
      /\ mDisplayState \in Rotations /\ mLayerId \in {0, -1}
  BY DEF WindowInv, OrientationInv, GeometryInv, TypeOK, PixelTypes, Pixels
<1>1. CASE Start
  <2>1. mPixels' = setDisplayInfo(Fresh, asked.mode, asked.state, TRUE)
    BY <1>1 DEF Start
  <2>2. mPixels' \in Pixels
    BY <1>0, <2>1, FreshTypes
  <2> QED BY <2>2 DEF Pixels
<1>2. CASE StartFails
  <2>1. mPixels' \in Pixels
    BY <1>0, <1>2, FreshTypes DEF StartFails
  <2> QED BY <2>1 DEF Pixels
<1>3. CASE Stop
  BY <1>0, <1>3 DEF Stop, desktopVars
<1>4. CASE ProcessFrames
  <2> DEFINE q == setDisplayInfo(mPixels, asked.mode, asked.state, FALSE)
  <2>1. shown /\ mPixels' = q
    BY <1>4 DEF ProcessFrames, SetPixels
  <2>2. CASE mLayerId = 0
    <3>1. /\ mPixels.rotated = isDisplayRotated(mDisplayState)
          /\ mPixels.source = Oriented(asked.mode, mDisplayState)
          /\ Related(mPixels)
      BY <2>1, <2>2 DEF WindowInv, Window, OrientationInv, Orientation, GeometryInv, Matching
    <3>2. q.size \in Sizes
      BY <1>0, <3>1, TurnSwaps
    <3> QED BY <2>1, <3>2
  <2>3. CASE mLayerId = -1
    <3>1. Unscaled(mPixels)
      BY <2>1, <2>3 DEF WindowInv, OrientationInv, Orientation
    <3>2. Unscaled(q) /\ q.source = Oriented(asked.mode, asked.state)
      BY <1>0, <3>1, DisplayInfoUnscaled, DisplayInfoOrients DEF Unscaled
    <3>3. q.source \in Sizes
      BY <1>0, <3>2, OrientedVisible
    <3> HIDE DEF q
    <3> QED BY <2>1, <3>2, <3>3, SwapTwice DEF Unscaled
  <2> QED BY <1>0, <2>2, <2>3
<1>5. ASSUME NEW s \in Windows, SetScreenLayout(s) PROVE mPixels'.size \in Sizes
  <2>1. shown /\ mPixels' = setWindowSize(mPixels, s)
    BY <1>5 DEF SetScreenLayout, SetPixels
  <2>2. mPixels.source \in Visible
    BY <2>1 DEF WindowInv, OrientationInv, GeometryInv, Matching
  <2>3. mPixels' \in Pixels
    BY <1>0, <2>1, <2>2, WindowTypes
  <2> QED BY <2>3 DEF Pixels
<1>6. ASSUME NEW mode \in Modes, NEW state \in Rotations, DisplayChanges(mode, state)
      PROVE  mPixels'.size \in Sizes
  BY <1>0, <1>6 DEF DisplayChanges, desktopVars
<1>7. CASE UNCHANGED vars
  BY <1>0, <1>7 DEF vars, desktopVars
<1> QED BY <1>1, <1>2, <1>3, <1>4, <1>5, <1>6, <1>7 DEF Next

\* The three invariants need one another: that a size keeps within the bound
\* rests on the scales, and the scales on the sizes.
THEOREM WindowCorrect == Spec => []WindowInv
<1>1. Init => WindowInv
  BY GeometryInit DEF Init, WindowInv, Window, OrientationInv, Orientation
<1>2. WindowInv /\ [Next]_vars => WindowInv'
  <2> SUFFICES ASSUME WindowInv, [Next]_vars PROVE WindowInv'
    OBVIOUS
  <2>1. GeometryInv /\ OrientationInv
    BY DEF WindowInv, OrientationInv
  <2>2. GeometryInv'
    BY <2>1, SizeKept, GeometryStep
  <2>3. Orientation'
    BY <2>1, <2>2, OrientationStep
  <2>4. Window'
    BY WindowStep
  <2> QED BY <2>2, <2>3, <2>4 DEF WindowInv, OrientationInv
<1> QED BY <1>1, <1>2, PTL DEF Spec

\* Types and matching hold in every reachable state.
THEOREM GeometryCorrect == Spec => []GeometryInv
<1>1. WindowInv => GeometryInv
  BY DEF WindowInv, OrientationInv
<1> QED BY <1>1, WindowCorrect, PTL

\* The buffer and the projection are turned as the display is.
THEOREM OrientationCorrect == Spec => []OrientationInv
<1>1. WindowInv => OrientationInv
  BY DEF WindowInv
<1> QED BY <1>1, WindowCorrect, PTL

-----------------------------------------------------------------------------
(***************************************************************************)
(* What follows from them.                                                 *)
(***************************************************************************)

\* AndroidPixelBuffer and VirtualDisplay: whatever is scaled, truncated and
\* turned, no side becomes longer than the longest display or window.
THEOREM TypeCorrect == Spec => []TypeOK
BY GeometryCorrect, PTL DEF GeometryInv

\* processFrames copies frames of the queue's size into a buffer of that size.
THEOREM FramesFitCorrect == Spec => []FramesFit
<1>1. GeometryInv => FramesFit
  BY DEF GeometryInv, Matching, FramesFit
<1> QED BY <1>1, GeometryCorrect, PTL

\* What is known of the rectangle when there is a display.
LEMMA Picture ==
  ASSUME GeometryInv, shown
  PROVE  LET size == mPixels.size
             s    == mVirtualDisplay.source
             out  == Viewport(size, s)
         IN /\ size \in Sizes /\ s \in Visible
            /\ mDisplayRect \in [left : Nat, top : Nat, right : Nat, bottom : Nat]
            /\ RectSize = out
            /\ mDisplayRect.left = (size.w - out.w) \div 2
            /\ mDisplayRect.top  = (size.h - out.h) \div 2
            /\ mDisplayRect.right <= size.w /\ mDisplayRect.bottom <= size.h
<1> DEFINE size == mPixels.size
           s    == mVirtualDisplay.source
           out  == Viewport(size, s)
<1>1. size \in Sizes /\ s \in Visible
  BY DEF GeometryInv, TypeOK, PixelTypes, Matching
<1>2. mDisplayRect = getDisplayRect(size, s)
  BY DEF GeometryInv, Matching
<1>3. out \in [w : 0..size.w, h : 0..size.h]
  BY <1>1, ViewportFits
<1>4. /\ mDisplayRect \in [left : Nat, top : Nat, right : Nat, bottom : Nat]
      /\ mDisplayRect.right - mDisplayRect.left = out.w
      /\ mDisplayRect.bottom - mDisplayRect.top = out.h
      /\ mDisplayRect.left = (size.w - out.w) \div 2
      /\ mDisplayRect.top  = (size.h - out.h) \div 2
      /\ mDisplayRect.right <= size.w /\ mDisplayRect.bottom <= size.h
  BY <1>1, <1>2, RectFits
<1> HIDE DEF size, s, out
<1>5. RectSize = out
  BY <1>3, <1>4 DEF RectSize
<1> QED BY <1>1, <1>4, <1>5 DEF size, s, out

\* getDisplayRect stays in the buffer.
THEOREM PictureInBufferCorrect == Spec => []PictureInBuffer
<1>1. GeometryInv => PictureInBuffer
  <2> SUFFICES ASSUME GeometryInv, shown PROVE PictureInBuffer
    BY DEF PictureInBuffer
  <2>1. Viewport(mPixels.size, mVirtualDisplay.source) \in
          [w : 0..mPixels.size.w, h : 0..mPixels.size.h]
    BY Picture, ViewportFits
  <2>2. RectSize.w \in 0..mPixels.size.w /\ RectSize.h \in 0..mPixels.size.h
    BY <2>1, Picture
  <2>3. mDisplayRect \in [left : Nat, top : Nat, right : Nat, bottom : Nat]
        /\ mDisplayRect.right <= mPixels.size.w /\ mDisplayRect.bottom <= mPixels.size.h
    BY Picture
  <2>4. mDisplayRect.right - mDisplayRect.left >= 0
        /\ mDisplayRect.bottom - mDisplayRect.top >= 0
    BY <2>2 DEF RectSize
  <2> QED BY <2>3, <2>4 DEF PictureInBuffer
<1> QED BY <1>1, GeometryCorrect, PTL

\* getDisplayRect fills the buffer on one side and keeps the aspect on the other.
THEOREM PictureFillsCorrect == Spec => []PictureFills
<1>1. GeometryInv => PictureFills
  <2> SUFFICES ASSUME GeometryInv, shown PROVE PictureFills
    BY DEF PictureFills
  <2> DEFINE size == mPixels.size
             s    == mVirtualDisplay.source
  <2>1. size \in Sizes /\ s \in Visible /\ RectSize = Viewport(size, s)
    BY Picture
  <2>2. FillsWidth(RectSize, size, s) \/ FillsHeight(RectSize, size, s)
    BY <2>1, ViewportFits
  <2> QED BY <2>2 DEF PictureFills, FillsWidth, FillsHeight
<1> QED BY <1>1, GeometryCorrect, PTL

\* pointerEvent over a mirrored display.
THEOREM PointerInRangeCorrect == Spec => []PointerInRange
<1>1. GeometryInv => PointerInRange
  <2> SUFFICES ASSUME GeometryInv, shown, mLayerId = 0 PROVE PointerInRange
    BY DEF PointerInRange
  <2> DEFINE size == mPixels.size
             out  == Viewport(size, mVirtualDisplay.source)
  <2>1. device = mDisplayMode /\ mDisplayMode.w \in Nat /\ mDisplayMode.h \in Nat
    BY LengthsAssumption DEF GeometryInv, TypeOK, Matching, Sizes, Lengths
  <2>2. size.w \in Nat /\ size.h \in Nat
    BY Picture, LengthsAssumption DEF Sizes, Lengths
  <2>3. out.w \in 0..size.w /\ out.h \in 0..size.h
    BY Picture, ViewportFits
  <2>4. /\ RectSize = out
        /\ mDisplayRect.left \in Nat /\ mDisplayRect.top \in Nat
        /\ mDisplayRect.right \in Nat /\ mDisplayRect.bottom \in Nat
        /\ mDisplayRect.left = (size.w - RectSize.w) \div 2
        /\ mDisplayRect.top  = (size.h - RectSize.h) \div 2
    BY Picture
  <2> HIDE DEF size, out
  <2>5. /\ RectSize.w \in Nat /\ RectSize.h \in Nat
        /\ mDisplayRect.right - mDisplayRect.left = RectSize.w
        /\ mDisplayRect.bottom - mDisplayRect.top = RectSize.h
    BY <2>2, <2>3, <2>4 DEF RectSize
  <2>6. ASSUME NEW x \in Int
        PROVE  /\ PointerX(x) = Translate(x - mDisplayRect.left, device.w, RectSize.w)
               /\ PointerY(x) = Translate(x - mDisplayRect.top, device.h, RectSize.h)
    BY <2>1, <2>4 DEF PointerX, PointerY, size
  <2>7. ASSUME NEW x \in Lengths, NEW y \in Lengths, Accepts(x, y)
        PROVE  PointerX(x) \in 0..device.w /\ PointerY(y) \in 0..device.h
    <3>1. x \in Int /\ y \in Int
      BY <2>7, LengthsAssumption DEF Lengths
    <3>2. /\ x - mDisplayRect.left \in Nat /\ x - mDisplayRect.left <= RectSize.w
          /\ y - mDisplayRect.top \in Nat /\ y - mDisplayRect.top <= RectSize.h
      BY <2>4, <2>5, <2>7, <3>1 DEF Accepts
    <3>3. device.w \in Nat /\ device.h \in Nat
      BY <2>1
    <3>4. Translate(x - mDisplayRect.left, device.w, RectSize.w) \in 0..device.w
      BY <2>5, <3>2, <3>3, TranslateInRange
    <3>5. Translate(y - mDisplayRect.top, device.h, RectSize.h) \in 0..device.h
      BY <2>5, <3>2, <3>3, TranslateInRange
    <3> QED BY <2>6, <3>1, <3>4, <3>5
  <2>8. /\ mDisplayRect.left - mDisplayRect.left = 0
        /\ mDisplayRect.top - mDisplayRect.top = 0
    BY <2>4
  <2>9. /\ RectSize.w > 0 => PointerX(mDisplayRect.left) = 0
                             /\ PointerX(mDisplayRect.right) = device.w
        /\ RectSize.h > 0 => PointerY(mDisplayRect.top) = 0
                             /\ PointerY(mDisplayRect.bottom) = device.h
    <3>1. /\ PointerX(mDisplayRect.left) = Translate(0, device.w, RectSize.w)
          /\ PointerX(mDisplayRect.right) = Translate(RectSize.w, device.w, RectSize.w)
          /\ PointerY(mDisplayRect.top) = Translate(0, device.h, RectSize.h)
          /\ PointerY(mDisplayRect.bottom) = Translate(RectSize.h, device.h, RectSize.h)
      BY <2>4, <2>5, <2>6, <2>8
    <3>2. device.w \in Nat /\ device.h \in Nat
      BY <2>1
    <3>3. RectSize.w <= RectSize.w /\ RectSize.h <= RectSize.h
      BY <2>5
    <3>4. /\ Translate(0, device.w, RectSize.w) = 0
          /\ RectSize.w > 0 => Translate(RectSize.w, device.w, RectSize.w) = device.w
      BY <2>5, <3>2, <3>3, TranslateInRange
    <3>5. /\ Translate(0, device.h, RectSize.h) = 0
          /\ RectSize.h > 0 => Translate(RectSize.h, device.h, RectSize.h) = device.h
      BY <2>5, <3>2, <3>3, TranslateInRange
    <3> QED BY <3>1, <3>4, <3>5
  <2> QED BY <2>7, <2>9 DEF PointerInRange
<1> QED BY <1>1, GeometryCorrect, PTL

\* The virtual display's projection, which only a changed buffer replaces.
THEOREM ProjectionFollowsCorrect == Spec => []ProjectionFollows
<1>1. OrientationInv => ProjectionFollows
  BY DEF OrientationInv, Orientation, ProjectionFollows
<1> QED BY <1>1, OrientationCorrect, PTL

\* The buffer of Java's display.
THEOREM BufferIsDisplayCorrect == Spec => []BufferIsDisplay
<1>1. OrientationInv => BufferIsDisplay
  <2> SUFFICES ASSUME OrientationInv, shown, mLayerId = -1 PROVE BufferIsDisplay
    BY DEF BufferIsDisplay
  <2>1. /\ mPixels.source = Oriented(mDisplayMode, mDisplayState)
        /\ mPixels.size \in {mPixels.source, Swap(mPixels.source)}
    BY DEF OrientationInv, Orientation, Unscaled
  <2>2. mDisplayMode \in Sizes
    BY DEF OrientationInv, GeometryInv, TypeOK
  <2>3. Swap(Swap(mDisplayMode)) = mDisplayMode
    BY <2>2, SwapTwice
  <2> QED BY <2>1, <2>3 DEF BufferIsDisplay, Oriented
<1> QED BY <1>1, OrientationCorrect, PTL

\* A turn swaps the sides of the client's window to within a pixel.
THEOREM TurnKeepsWindowCorrect == Spec => TurnKeepsWindow
<1>1. WindowInv /\ [Next]_vars => [SwapsWindow]_vars
  <2> SUFFICES ASSUME WindowInv, Next, shown, shown', mLayerId = 0,
                      mPixels'.rotated # mPixels.rotated
               PROVE  /\ mPixels'.size.w \in {mPixels.size.h - 1, mPixels.size.h}
                      /\ mPixels'.size.h \in {mPixels.size.w - 1, mPixels.size.w}
    BY DEF SwapsWindow
  <2>0. /\ asked.mode \in Modes /\ asked.state \in Rotations /\ mPixels \in Pixels
        /\ mDisplayState \in Rotations
    BY DEF WindowInv, OrientationInv, GeometryInv, TypeOK, PixelTypes, Pixels
  <2>1. CASE ProcessFrames
    <3>1. mPixels' = setDisplayInfo(mPixels, asked.mode, asked.state, FALSE)
      BY <2>1 DEF ProcessFrames, SetPixels
    <3>2. /\ mPixels.rotated = isDisplayRotated(mDisplayState)
          /\ mPixels.source = Oriented(asked.mode, mDisplayState)
          /\ Related(mPixels)
      BY DEF WindowInv, Window, OrientationInv, Orientation, GeometryInv, Matching
    <3> QED BY <2>0, <3>1, <3>2, TurnSwaps
  <2>2. ASSUME NEW s \in Windows, SetScreenLayout(s) PROVE FALSE
    <3>1. mPixels' = setWindowSize(mPixels, s)
      BY <2>2 DEF SetScreenLayout, SetPixels
    <3>2. setWindowSize(mPixels, s).rotated = mPixels.rotated
      BY <2>0 DEF setWindowSize, updateBufferSize, Pixels
    <3> QED BY <3>1, <3>2
  <2>3. CASE Start \/ StartFails \/ Stop
    BY <2>3 DEF Start, StartFails, Stop, displayVars, desktopVars
  <2>4. ASSUME NEW mode \in Modes, NEW state \in Rotations, DisplayChanges(mode, state)
        PROVE  FALSE
    BY <2>4 DEF DisplayChanges, desktopVars
  <2> QED BY <2>1, <2>2, <2>3, <2>4 DEF Next
<1> QED BY <1>1, WindowCorrect, PTL DEF Spec, TurnKeepsWindow
=============================================================================

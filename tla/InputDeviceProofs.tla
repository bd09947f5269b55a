------------------------- MODULE InputDeviceProofs -------------------------
(***************************************************************************)
(* What holds of InputDevice for any tables and any display sizes.         *)
(***************************************************************************)
EXTENDS InputDevice, TLAPS

\* Whatever keysym is released, only codes of the keyboard are.
LEMMA KeyCodesType == \A k : KeyCodes(k) \subseteq KeyboardCodes
<1>1. Modifiers \subseteq KeyboardCodes
  BY TablesAssumption DEF KeyboardCodes, Modifiers, ButtonCodes
<1>2. \A k : BasicCodes(k) \subseteq KeyboardCodes
  BY <1>1, TablesAssumption DEF BasicCodes, Modifiers
<1> QED
  BY <1>2, TablesAssumption DEF KeyCodes, IsDead, IsSpecial, IsSymbol

\* A press adds no code that the release of the same keysym does not release.
LEMMA PressAddsReleased == \A k : AfterPress(k) \subseteq down \cup KeyCodes(k)
  BY DEF AfterPress, KeyCodes

\* A press leaves alone the codes that are not the keyboard's.
LEMMA PressKeepsButtons ==
  \A k, x : x \notin KeyboardCodes => (x \in AfterPress(k) <=> x \in down)
<1>1. Modifiers \subseteq KeyboardCodes
  BY TablesAssumption DEF KeyboardCodes, Modifiers, ButtonCodes
<1>2. \A k, x : x \in AfterPress(k) => x \in down \/ x \in KeyboardCodes
  BY PressAddsReleased, KeyCodesType
<1>3. \A k \in DOMAIN latin1ToDeadChars : latin1ToDeadChars[k].altChar \in KeyboardCodes
  BY TablesAssumption
<1>4. \A k, x : x \in down /\ x \notin KeyboardCodes => x \in AfterPress(k)
  BY <1>1, <1>3 DEF AfterPress, Modifiers, IsDead
<1> QED
  BY <1>2, <1>4

\* The codes of the buttons are the device's, and End is the keyboard's only one.
LEMMA ButtonCodeType ==
  \A b \in Buttons : /\ ButtonCode(b) \in ButtonCodes /\ ButtonCode(b) \in Codes
                     /\ PureButton(b) => ButtonCode(b) \notin KeyboardCodes
<1>1. \A b \in Buttons : ButtonCode(b) \in ButtonCodes
  BY DEF Buttons, ButtonCode, ButtonCodes
<1> QED
  BY <1>1, TablesAssumption DEF KeyboardCodes, PureButton

\* Different buttons have different codes.
LEMMA ButtonCodeInjective ==
  \A a, b \in Buttons : ButtonCode(a) = ButtonCode(b) => a = b
  BY DEF Buttons, ButtonCode

-----------------------------------------------------------------------------

(***************************************************************************)
(* Types, and the life of the device.                                      *)
(***************************************************************************)

\* Why no start comes in late: there is one start at most, the one the caller
\* waits for, and until it has run the device is closed and holds nothing.
Lifecycle ==
  /\ workers # {} => caller = "join" /\ workers = {asked}
  /\ caller # "idle" => asked # NoConfig
  /\ caller = "start" \/ workers # {} => ~mOpened /\ ~fd
  /\ ~fd => down = {} /\ axis = 0
  /\ asked # NoConfig /\ mOpened => fd /\ dev = asked /\ mode = ModeOf(asked)

\* Every step keeps the types.
LEMMA NextTypeOK == TypeOK /\ Lifecycle /\ [Next]_vars => TypeOK'
<1> SUFFICES ASSUME TypeOK, Lifecycle, [Next]_vars PROVE TypeOK'
  OBVIOUS
<1>0. 0 \in Int
  OBVIOUS
<1>1. CASE NewDevice \/ Stop
  BY <1>0, <1>1 DEF TypeOK, NewDevice, Stop, CloseDevice, threadVars
<1>2. CASE StartAsync
  <2>1. asked \in Configs
    BY <1>2 DEF TypeOK, Lifecycle, StartAsync
  <2> QED
    BY <1>2, <2>1 DEF TypeOK, StartAsync, deviceVars, keyVars, pointVars
<1>3. CASE StartDropped \/ Join
  BY <1>3 DEF TypeOK, StartDropped, Join, deviceVars, keyVars, pointVars
<1>4. ASSUME NEW c \in Configs, Reconfigure(c) PROVE TypeOK'
  BY <1>0, <1>4 DEF TypeOK, Reconfigure, CloseDevice
<1>5. ASSUME NEW c \in Configs, Start(c) PROVE TypeOK'
  <2>1. ModeOf(c) \in Modes
    BY DEF ModeOf, Modes, Configs
  <2> QED
    BY <1>5, <2>1, PositionsAssumption DEF TypeOK, Start, OpenDevice
<1>6. ASSUME NEW k \in Keysyms, KeyDown(k) PROVE TypeOK'
  <2>1. AfterPress(Ascii(k)) \subseteq Codes
    BY PressAddsReleased, KeyCodesType DEF KeyboardCodes, TypeOK
  <2> QED
    BY <1>6, <2>1 DEF TypeOK, KeyDown, threadVars, deviceVars, pointVars
<1>7. ASSUME NEW k \in Keysyms, KeyUp(k) PROVE TypeOK'
  BY <1>7 DEF TypeOK, KeyUp, threadVars, deviceVars, pointVars
<1>8. ASSUME NEW mask \in SUBSET Buttons, NEW p \in Positions, PointerEvent(mask, p)
      PROVE  TypeOK'
  <2>1. Moved(mask, p) \in Int
    BY PositionsAssumption DEF TypeOK, Moved
  <2> QED
    BY <1>8, <2>1, ButtonCodeType DEF TypeOK, PointerEvent, threadVars, deviceVars, pointVars
<1>9. CASE UNCHANGED vars
  BY <1>9 DEF TypeOK, vars, threadVars, deviceVars, keyVars, pointVars
<1> QED
  BY <1>1, <1>2, <1>3, <1>4, <1>5, <1>6, <1>7, <1>8, <1>9 DEF Next

\* Every step keeps the device to its life.
LEMMA NextLifecycle == TypeOK /\ Lifecycle /\ [Next]_vars => Lifecycle'
<1> SUFFICES ASSUME TypeOK, Lifecycle, [Next]_vars PROVE Lifecycle'
  OBVIOUS
<1>1. CASE NewDevice \/ Stop
  BY <1>1 DEF Lifecycle, NewDevice, Stop, CloseDevice, threadVars
<1>2. CASE StartAsync
  BY <1>2 DEF Lifecycle, StartAsync, deviceVars, keyVars, pointVars
<1>3. CASE StartDropped \/ Join
  BY <1>3 DEF Lifecycle, StartDropped, Join, deviceVars, keyVars, pointVars
<1>4. ASSUME NEW c \in Configs, Reconfigure(c) PROVE Lifecycle'
  BY <1>4, NoConfigAssumption DEF Lifecycle, Reconfigure, CloseDevice
<1>5. ASSUME NEW c \in Configs, Start(c) PROVE Lifecycle'
  <2>1. caller = "join" /\ workers = {asked} /\ c = asked /\ ~fd /\ ~mOpened
    BY <1>5 DEF Lifecycle, Start
  <2>2. workers' = {} /\ UNCHANGED <<caller, asked, down, axis>> /\ mode' = ModeOf(asked)
    BY <1>5, <2>1 DEF Start
  <2>3. OpenDevice(c)
    BY <1>5, <2>1 DEF Start
  <2> QED
    BY <2>1, <2>2, <2>3 DEF Lifecycle, OpenDevice
<1>6. ASSUME UNCHANGED <<threadVars, deviceVars>>, TakesEvents, mOpened
      PROVE  Lifecycle'
  BY <1>6 DEF Lifecycle, TakesEvents, threadVars, deviceVars
<1>7. ASSUME UNCHANGED <<threadVars, deviceVars, down, axis>> PROVE Lifecycle'
  BY <1>7 DEF Lifecycle, threadVars, deviceVars
<1>8. ASSUME NEW k \in Keysyms, KeyDown(k) \/ KeyUp(k) PROVE Lifecycle'
  BY <1>6, <1>7, <1>8 DEF KeyDown, KeyUp, pointVars
<1>9. ASSUME NEW mask \in SUBSET Buttons, NEW p \in Positions, PointerEvent(mask, p)
      PROVE  Lifecycle'
  BY <1>6, <1>7, <1>9 DEF PointerEvent, pointVars
<1>10. CASE UNCHANGED vars
  BY <1>7, <1>10 DEF vars, keyVars, pointVars
<1> QED
  BY <1>1, <1>2, <1>3, <1>4, <1>5, <1>8, <1>9, <1>10 DEF Next

\* No sequence of calls takes a variable out of its type: in particular a
\* keysym without a scan code never reaches the device.
THEOREM TypeCorrect == Spec => []TypeOK
<1>1. Init => TypeOK
  <2>1. [touch |-> FALSE, relative |-> FALSE] \in Modes
    BY DEF Modes
  <2>2. 0 \in Int
    OBVIOUS
  <2> QED
    BY <2>1, <2>2 DEF Init, TypeOK
<1>2. Init => Lifecycle
  BY DEF Init, Lifecycle
<1> QED
  BY <1>1, <1>2, NextTypeOK, NextLifecycle, PTL DEF Spec

\* One start at most is under way, and it is waited for.
THEOREM LifecycleCorrect == Spec => []Lifecycle
<1>1. Init => Lifecycle
  BY DEF Init, Lifecycle
<1> QED
  BY <1>1, TypeCorrect, NextLifecycle, PTL DEF Spec

\* However often and however differently the device is reconfigured, and
\* whichever starts fail, an open device is the one asked for last.
THEOREM ConfiguredAsAskedCorrect == Spec => []ConfiguredAsAsked
<1>1. Lifecycle => ConfiguredAsAsked
  BY DEF Lifecycle, ConfiguredAsAsked, TakesEvents
<1> QED
  BY <1>1, LifecycleCorrect, PTL

-----------------------------------------------------------------------------
(***************************************************************************)
(* What the device holds down.                                             *)
(***************************************************************************)

\* ButtonsMatch and NoStuckKeys also hold while the caller waits for start.
Matched ==
  asked # NoConfig /\ mOpened =>
    \A b \in Buttons : PureButton(b) => (b \in clicked <=> ButtonCode(b) \in down)

Accounted ==
  asked # NoConfig /\ mOpened =>
    \A x \in down : \/ \E k \in held : x \in KeyCodes(Ascii(k))
                    \/ \E b \in clicked : x = ButtonCode(b)

\* The device is opened with nothing down and nothing clicked.
LEMMA StartReleased ==
  ASSUME Lifecycle, NEW c \in Configs, Start(c)
  PROVE  clicked' = {} /\ down' = {}
  BY DEF Lifecycle, Start

\* Every step keeps the click flags in step with the device.
LEMMA NextMatched == TypeOK /\ Lifecycle /\ Matched /\ [Next]_vars => Matched'
<1> SUFFICES ASSUME TypeOK, Lifecycle, Matched, [Next]_vars PROVE Matched'
  OBVIOUS
<1>1. CASE NewDevice \/ Stop
  BY <1>1 DEF Matched, NewDevice, Stop
<1>2. CASE StartAsync \/ StartDropped \/ Join
  BY <1>2 DEF Matched, StartAsync, StartDropped, Join, deviceVars, keyVars,
              PureButton, ButtonCode
<1>3. ASSUME NEW c \in Configs, Reconfigure(c) PROVE Matched'
  BY <1>3 DEF Matched, Reconfigure
<1>4. ASSUME NEW c \in Configs, Start(c) PROVE Matched'
  BY <1>4, StartReleased DEF Matched
<1>5. ASSUME NEW k \in Keysyms, KeyDown(k) \/ KeyUp(k) PROVE Matched'
  <2>1. \A x : x \notin KeyboardCodes => (x \in down' <=> x \in down)
    BY <1>5, PressKeepsButtons, KeyCodesType DEF KeyDown, KeyUp
  <2>2. UNCHANGED <<asked, mOpened, mode, clicked>>
    BY <1>5 DEF KeyDown, KeyUp, threadVars, deviceVars
  <2>3. \A b \in Buttons : ButtonCode(b)' = ButtonCode(b)
    BY <2>2 DEF ButtonCode
  <2> QED
    BY <2>1, <2>2, <2>3, ButtonCodeType DEF Matched, PureButton
<1>6. ASSUME NEW mask \in SUBSET Buttons, NEW p \in Positions, PointerEvent(mask, p)
      PROVE  Matched'
  <2>1. UNCHANGED <<asked, mOpened, mode>>
    BY <1>6 DEF PointerEvent, threadVars, deviceVars
  <2>2. \A b \in Buttons : ButtonCode(b)' = ButtonCode(b)
    BY <2>1 DEF ButtonCode
  <2>3. ASSUME asked # NoConfig, mOpened, NEW b \in Buttons, PureButton(b)
        PROVE  b \in mask <=> ButtonCode(b) \in down'
    <3>1. b \in clicked <=> ButtonCode(b) \in down
      BY <2>3 DEF Matched
    <3>2. down' = (down \ {ButtonCode(a) : a \in clicked \ mask})
                    \cup {ButtonCode(a) : a \in mask \ clicked}
      BY <1>6, <2>3 DEF PointerEvent
    <3>3. ButtonCode(b) \in {ButtonCode(a) : a \in clicked \ mask} <=> b \in clicked \ mask
      BY ButtonCodeInjective DEF TypeOK
    <3>4. ButtonCode(b) \in {ButtonCode(a) : a \in mask \ clicked} <=> b \in mask \ clicked
      BY ButtonCodeInjective
    <3> QED
      BY <3>1, <3>2, <3>3, <3>4
  <2>4. mOpened => clicked' = mask
    BY <1>6 DEF PointerEvent
  <2> QED
    BY <2>1, <2>2, <2>3, <2>4 DEF Matched, PureButton
<1>7. CASE UNCHANGED vars
  <2>1. UNCHANGED <<asked, mOpened, clicked, down, mode>>
    BY <1>7 DEF vars, threadVars, deviceVars, keyVars, pointVars
  <2>2. \A b \in Buttons : ButtonCode(b)' = ButtonCode(b)
    BY <2>1 DEF ButtonCode
  <2> QED
    BY <2>1, <2>2 DEF Matched, PureButton
<1> QED
  BY <1>1, <1>2, <1>3, <1>4, <1>5, <1>6, <1>7 DEF Next

\* Every step keeps an account of what is down.
LEMMA NextAccounted == TypeOK /\ Lifecycle /\ Accounted /\ [Next]_vars => Accounted'
<1> SUFFICES ASSUME TypeOK, Lifecycle, Accounted, [Next]_vars PROVE Accounted'
  OBVIOUS
<1>1. CASE NewDevice \/ Stop
  BY <1>1 DEF Accounted, NewDevice, Stop
<1>2. CASE StartAsync \/ StartDropped \/ Join
  BY <1>2 DEF Accounted, StartAsync, StartDropped, Join, deviceVars, keyVars, ButtonCode
<1>3. ASSUME NEW c \in Configs, Reconfigure(c) PROVE Accounted'
  BY <1>3 DEF Accounted, Reconfigure
<1>4. ASSUME NEW c \in Configs, Start(c) PROVE Accounted'
  BY <1>4, StartReleased DEF Accounted
<1>5. ASSUME NEW k \in Keysyms, KeyDown(k) PROVE Accounted'
  <2>1. UNCHANGED <<asked, mOpened, mode, clicked>> /\ held' = held \cup {k}
    BY <1>5 DEF KeyDown, threadVars, deviceVars
  <2>2. mOpened => down' \subseteq down \cup KeyCodes(Ascii(k))
    BY <1>5, PressAddsReleased DEF KeyDown
  <2>3. \A b : ButtonCode(b)' = ButtonCode(b)
    BY <2>1 DEF ButtonCode
  <2> QED
    BY <2>1, <2>2, <2>3 DEF Accounted
<1>6. ASSUME NEW k \in Keysyms, KeyUp(k) PROVE Accounted'
  <2>1. UNCHANGED <<asked, mOpened, mode, clicked>> /\ held' = held \ {k}
    BY <1>6 DEF KeyUp, threadVars, deviceVars
  <2>2. mOpened => down' = down \ KeyCodes(Ascii(k))
    BY <1>6 DEF KeyUp
  <2>3. \A b : ButtonCode(b)' = ButtonCode(b)
    BY <2>1 DEF ButtonCode
  <2> QED
    BY <2>1, <2>2, <2>3 DEF Accounted
<1>7. ASSUME NEW mask \in SUBSET Buttons, NEW p \in Positions, PointerEvent(mask, p)
      PROVE  Accounted'
  <2>1. UNCHANGED <<asked, mOpened, mode, held>>
    BY <1>7 DEF PointerEvent, threadVars, deviceVars
  <2>2. \A b : ButtonCode(b)' = ButtonCode(b)
    BY <2>1 DEF ButtonCode
  <2>3. mOpened => /\ clicked' = mask
                   /\ down' = (down \ {ButtonCode(a) : a \in clicked \ mask})
                                \cup {ButtonCode(a) : a \in mask \ clicked}
    BY <1>7 DEF PointerEvent
  <2>4. ASSUME asked # NoConfig, mOpened, NEW x \in down'
        PROVE  \/ \E k \in held : x \in KeyCodes(Ascii(k))
               \/ \E b \in mask : x = ButtonCode(b)
    <3>1. CASE x \in {ButtonCode(a) : a \in mask \ clicked}
      BY <3>1
    <3>2. CASE x \in down /\ x \notin {ButtonCode(a) : a \in clicked \ mask}
      BY <2>4, <3>2 DEF Accounted
    <3> QED
      BY <2>3, <2>4, <3>1, <3>2
  <2> QED
    BY <2>1, <2>2, <2>3, <2>4 DEF Accounted
<1>8. CASE UNCHANGED vars
  BY <1>8 DEF Accounted, vars, threadVars, deviceVars, keyVars, ButtonCode
<1> QED
  BY <1>1, <1>2, <1>3, <1>4, <1>5, <1>6, <1>7, <1>8 DEF Next

\* For any tables in which no key stands for a button (but End), the click
\* flags say what the device holds down.
THEOREM ButtonsMatchCorrect == Spec => []ButtonsMatch
<1>1. Init => Matched
  BY DEF Init, Matched
<1>2. Matched => ButtonsMatch
  BY DEF Matched, ButtonsMatch, TakesEvents
<1> QED
  BY <1>1, <1>2, NextMatched, TypeCorrect, LifecycleCorrect, PTL DEF Spec

\* For any tables, in any order of presses, releases, clicks and
\* reconfigurations, no key is stuck.
THEOREM NoStuckKeysCorrect == Spec => []NoStuckKeys
<1>1. Init => Accounted
  BY DEF Init, Accounted
<1>2. Accounted => NoStuckKeys
  BY DEF Accounted, NoStuckKeys, TakesEvents
<1> QED
  BY <1>1, <1>2, NextAccounted, TypeCorrect, LifecycleCorrect, PTL DEF Spec

-----------------------------------------------------------------------------
(***************************************************************************)
(* Where the device points.                                                *)
(***************************************************************************)

\* PointerFollows also holds while the caller waits for start.
Pointed ==
  asked # NoConfig /\ mOpened /\ (~mode.touch \/ (~mode.relative /\ "left" \in clicked)) =>
    axis = last

\* Every step keeps the device's position in step with the client's.
LEMMA NextPointed == TypeOK /\ Lifecycle /\ Pointed /\ [Next]_vars => Pointed'
<1> SUFFICES ASSUME TypeOK, Lifecycle, Pointed, [Next]_vars PROVE Pointed'
  OBVIOUS
<1>1. CASE NewDevice \/ Stop
  BY <1>1 DEF Pointed, NewDevice, Stop
<1>2. ASSUME NEW c \in Configs, Reconfigure(c) PROVE Pointed'
  BY <1>2 DEF Pointed, Reconfigure
<1>3. ASSUME NEW c \in Configs, Start(c) PROVE Pointed'
  BY <1>3 DEF Pointed, Lifecycle, Start
<1>4. ASSUME UNCHANGED <<asked, mOpened, mode, clicked, pointVars>> PROVE Pointed'
  BY <1>4 DEF Pointed, pointVars
<1>5. CASE StartAsync \/ StartDropped \/ Join \/ UNCHANGED vars
  BY <1>4, <1>5 DEF StartAsync, StartDropped, Join, vars, threadVars, deviceVars, keyVars
<1>6. ASSUME NEW k \in Keysyms, KeyDown(k) \/ KeyUp(k) PROVE Pointed'
  BY <1>4, <1>6 DEF KeyDown, KeyUp, threadVars, deviceVars
<1>7. ASSUME NEW mask \in SUBSET Buttons, NEW p \in Positions, PointerEvent(mask, p)
      PROVE  Pointed'
  <2>1. UNCHANGED <<asked, mOpened, mode>> /\ asked # NoConfig
    BY <1>7 DEF PointerEvent, TakesEvents, threadVars, deviceVars
  <2>2. CASE ~mOpened
    BY <2>1, <2>2 DEF Pointed
  <2>3. CASE mOpened
    <3>1. clicked' = mask /\ last' = p /\ axis' = Moved(mask, p)
      BY <1>7, <2>3 DEF PointerEvent
    <3>2. CASE mode.touch
      <4>1. "left" \in mask => Touches(mask)
        BY DEF Touches
      <4> QED
        BY <2>1, <3>1, <3>2, <4>1 DEF Pointed, Moved
    <3>3. CASE ~mode.touch /\ mode.relative
      <4>1. axis = last /\ last \in Int /\ p \in Int
        BY <2>1, <2>3, <3>3, PositionsAssumption DEF Pointed, TypeOK
      <4>2. Moved(mask, p) = axis + (p - last)
        BY <3>3 DEF Moved
      <4>3. Moved(mask, p) = p
        BY <4>1, <4>2
      <4> QED
        BY <3>1, <4>3 DEF Pointed
    <3>4. CASE ~mode.touch /\ ~mode.relative
      BY <3>1, <3>4 DEF Pointed, Moved
    <3> QED
      BY <3>2, <3>3, <3>4
  <2> QED
    BY <2>2, <2>3
<1> QED
  BY <1>1, <1>2, <1>3, <1>5, <1>6, <1>7 DEF Next

\* For any positions and any order of motions, clicks and reconfigurations, the
\* device points where the client does.
THEOREM PointerFollowsCorrect == Spec => []PointerFollows
<1>1. Init => Pointed
  BY DEF Init, Pointed
<1>2. Pointed => PointerFollows
  BY DEF Pointed, PointerFollows, TakesEvents
<1> QED
  BY <1>1, <1>2, NextPointed, TypeCorrect, LifecycleCorrect, PTL DEF Spec
-----------------------------------------------------------------------------
(***************************************************************************)
(* What lets go of a key.                                                  *)
(***************************************************************************)

\* A press releases only what it borrowed.
LEMMA PressReleasesBorrowed == \A k : down \ AfterPress(k) \subseteq Borrowed(k)
  BY DEF AfterPress, Borrowed, IsSymbol, IsSpecial

\* For any tables: a key that goes up while the device stays open goes up with
\* a keysym or a button that stands for it, or was borrowed.
THEOREM KeysKeptCorrect == Spec => KeysKept
<1> DEFINE LetGo(x) == \/ ~fd'
                       \/ \E k \in Keysyms \ held' : x \in KeyCodes(Ascii(k))
                       \/ \E k \in held' : x \in Borrowed(Ascii(k))
                       \/ \E b \in clicked \ clicked' : x = ButtonCode(b)
<1>1. ASSUME [Next]_vars, NEW x \in down \ down' PROVE LetGo(x)
  <2>1. CASE NewDevice \/ Stop \/ \E c \in Configs : Reconfigure(c)
    BY <2>1 DEF NewDevice, Stop, Reconfigure, CloseDevice
  <2>2. CASE UNCHANGED down
    BY <1>1, <2>2
  <2>3. CASE StartAsync \/ StartDropped \/ Join \/ \E c \in Configs : Start(c)
    BY <2>2, <2>3 DEF StartAsync, StartDropped, Join, Start, keyVars
  <2>4. ASSUME NEW k \in Keysyms, KeyDown(k) PROVE LetGo(x)
    <3>1. k \in held' /\ x \in down \ AfterPress(Ascii(k))
      BY <1>1, <2>4 DEF KeyDown
    <3> QED
      BY <3>1, PressReleasesBorrowed
  <2>5. ASSUME NEW k \in Keysyms, KeyUp(k) PROVE LetGo(x)
    <3>1. k \notin held' /\ x \in KeyCodes(Ascii(k))
      BY <1>1, <2>5 DEF KeyUp
    <3> QED
      BY <3>1
  <2>6. ASSUME NEW mask \in SUBSET Buttons, NEW p \in Positions, PointerEvent(mask, p)
        PROVE  LetGo(x)
    BY <1>1, <2>6 DEF PointerEvent
  <2>7. CASE UNCHANGED vars
    BY <2>2, <2>7 DEF vars, keyVars
  <2> QED
    BY <1>1, <2>1, <2>3, <2>4, <2>5, <2>6, <2>7 DEF Next
<1> HIDE DEF LetGo
<1>2. [Next]_vars => [\A x \in down \ down' : LetGo(x)]_down
  BY <1>1
<1> QED
  BY <1>2, PTL DEF Spec, KeysKept, LetGo
=============================================================================

---------------------------- MODULE InputDevice ----------------------------
(***************************************************************************)
(* The virtual input device: a uinput device that AndroidDesktop           *)
(* reconfigures whenever the display changes, and into which it injects    *)
(* the clients' key and pointer events.                                    *)
(*                                                                         *)
(* The caller is the server thread, one call at a time.  start_async runs  *)
(* start in a thread of its own through std::async; the future is dropped  *)
(* at once, and its destructor waits for the thread.                       *)
(*                                                                         *)
(* The tables that turn a keysym into key codes are parameters.  One       *)
(* dimension stands for x and y, which are treated alike; the wheel leaves *)
(* nothing behind.                                                         *)
(***************************************************************************)
EXTENDS Integers, FiniteSets

CONSTANTS
  Keysyms,                    \* the keysyms clients send
  Codes,                      \* the key codes of the device
  Sizes,                      \* display sizes
  Positions,                  \* where clients point to
  keysymToAscii,              \* keysym |-> the keysym it is taken for
  latin1ToDeadChars,          \* keysym |-> [altChar, baseChar]
  spicialKeysymToDirectKey,   \* keysym |-> code
  symbolKeysymToDirectKey,    \* keysym |-> code (pressed under its own modifiers)
  qwerty,                     \* letters and digits: keysym |-> [code, needShift]
  NoConfig                    \* nothing was asked of this device yet

Buttons == {"left", "middle", "right"}
ButtonCodes == {"BTN_TOUCH", "BTN_LEFT", "BTN_RIGHT", "BTN_MIDDLE", "KEY_BACK", "KEY_END"}
Modifiers == {"KEY_LEFTSHIFT", "KEY_LEFTALT"}

\* What a keyboard's keys produce; of the buttons' codes only End is among it.
KeyboardCodes == Codes \ (ButtonCodes \ {"KEY_END"})

ASSUME TablesAssumption ==
  /\ ButtonCodes \cup Modifiers \subseteq Codes
  /\ \A k \in DOMAIN latin1ToDeadChars : latin1ToDeadChars[k].altChar \in KeyboardCodes
  /\ \A k \in DOMAIN spicialKeysymToDirectKey : spicialKeysymToDirectKey[k] \in KeyboardCodes
  /\ \A k \in DOMAIN symbolKeysymToDirectKey : symbolKeysymToDirectKey[k] \in KeyboardCodes
  /\ \A k \in DOMAIN qwerty : qwerty[k].code \in KeyboardCodes /\ qwerty[k].needShift \in BOOLEAN

Configs == [touch : BOOLEAN, relative : BOOLEAN, size : Sizes]
Modes   == [touch : BOOLEAN, relative : BOOLEAN]
ModeOf(c) == [touch |-> c.touch, relative |-> c.relative]

ASSUME PositionsAssumption == Positions \subseteq Nat /\ 0 \in Positions
ASSUME NoConfigAssumption == NoConfig \notin Configs

VARIABLES
  caller,    \* the server thread: idle, or inside reconfigure
  workers,   \* the starts that std::async has not finished
  asked,     \* history: what the last reconfigure asked for
  fd,        \* mFD >= 0: the kernel device exists
  mOpened,
  dev,       \* the configuration the kernel device was created with
  mode,      \* the globals touch and useRelativeInput
  clicked,   \* mLeftClicked, mMiddleClicked, mRightClicked
  down,      \* the codes the kernel device holds down
  held,      \* history: keysyms whose last event was a press
  last,      \* mLastX and mLastY
  axis       \* the kernel device's absolute axis, or the sum of its motions

threadVars == <<caller, workers, asked>>
deviceVars == <<fd, mOpened, dev, mode>>
keyVars    == <<clicked, down, held>>
pointVars  == <<last, axis>>
vars == <<threadVars, deviceVars, keyVars, pointVars>>

\* A constructed device: the constructor sets mFD and leaves mOpened, the
\* click flags and the last position as the allocator returned them.
Init ==
  /\ caller = "idle" /\ workers = {} /\ asked = NoConfig
  /\ fd = FALSE /\ mOpened \in BOOLEAN /\ dev = NoConfig
  /\ mode = [touch |-> FALSE, relative |-> FALSE]
  /\ clicked \in SUBSET Buttons /\ down = {} /\ held = {}
  /\ last \in Positions /\ axis = 0

-----------------------------------------------------------------------------
(***************************************************************************)
(* Opening, reconfiguring and closing the device.                          *)
(***************************************************************************)

\* stop: the kernel releases what a destroyed device held down; the axes of
\* the next device start at 0.
CloseDevice == fd' = FALSE /\ dev' = NoConfig /\ down' = {} /\ axis' = 0

\* AndroidDesktop::start makes a new device; the old one's destructor stops it.
NewDevice ==
  /\ caller = "idle"
  /\ CloseDevice
  /\ mOpened' \in BOOLEAN /\ clicked' \in SUBSET Buttons /\ last' \in Positions
  /\ asked' = NoConfig
  /\ UNCHANGED <<caller, workers, mode, held>>

Stop ==
  /\ caller = "idle"
  /\ CloseDevice /\ mOpened' = FALSE
  /\ UNCHANGED <<threadVars, mode, clicked, held, last>>

\* reconfigure: stop, and then start_async.
Reconfigure(c) ==
  /\ caller = "idle"
  /\ CloseDevice /\ mOpened' = FALSE
  /\ asked' = c /\ caller' = "start"
  /\ UNCHANGED <<workers, mode, clicked, held, last>>

\* Fault: the future is kept, so that reconfigure returns at once.
StartAsyncReturns ==
  /\ caller = "start"
  /\ workers' = workers \cup {asked}
  /\ caller' = "idle"
  /\ UNCHANGED <<asked, deviceVars, keyVars, pointVars>>

\* std::async makes the thread; the caller then waits in the future's destructor.
StartAsync ==
  /\ caller = "start"
  /\ workers' = workers \cup {asked}
  /\ caller' = "join"
  /\ UNCHANGED <<asked, deviceVars, keyVars, pointVars>>

\* No thread can be made: the start is deferred, and dropped with the future.
StartDropped ==
  /\ caller = "start"
  /\ caller' = "idle"
  /\ UNCHANGED <<workers, asked, deviceVars, keyVars, pointVars>>

Join ==
  /\ caller = "join" /\ workers = {}
  /\ caller' = "idle"
  /\ UNCHANGED <<workers, asked, deviceVars, keyVars, pointVars>>

\* Opening the device or creating it in the kernel works, or fails and leaves
\* it closed.
OpenDevice(c) ==
  \/ fd' = TRUE /\ mOpened' = TRUE /\ dev' = c
  \/ UNCHANGED <<fd, mOpened, dev>>

\* Fault: the click flags survive.
StartKeepsClicks(c) ==
  /\ c \in workers
  /\ workers' = workers \ {c}
  /\ mode' = ModeOf(c)
  /\ IF fd THEN UNCHANGED <<fd, mOpened, dev>> ELSE OpenDevice(c)
  /\ last' = 0
  /\ UNCHANGED <<caller, asked, clicked, down, held, axis>>

\* Fault: the last position survives.
StartKeepsLast(c) ==
  /\ c \in workers
  /\ workers' = workers \ {c}
  /\ clicked' = {} /\ mode' = ModeOf(c)
  /\ IF fd THEN UNCHANGED <<fd, mOpened, dev>> ELSE OpenDevice(c)
  /\ UNCHANGED <<caller, asked, down, held, pointVars>>

\* start: the click flags, the last position and the globals are set first; a
\* device that is open stays as it is.
Start(c) ==
  /\ c \in workers
  /\ workers' = workers \ {c}
  /\ clicked' = {} /\ last' = 0 /\ mode' = ModeOf(c)
  /\ IF fd THEN UNCHANGED <<fd, mOpened, dev>> ELSE OpenDevice(c)
  /\ UNCHANGED <<caller, asked, down, held, axis>>

-----------------------------------------------------------------------------
(***************************************************************************)
(* Key events.                                                             *)
(***************************************************************************)

Ascii(k) == IF k \in DOMAIN keysymToAscii THEN keysymToAscii[k] ELSE k

\* Fault: a keysym that has no scan code is injected as code 0.
BasicCodesUnchecked(k) ==
  IF k \notin DOMAIN qwerty THEN {"KEY_RESERVED"}
  ELSE {qwerty[k].code} \cup (IF qwerty[k].needShift THEN {"KEY_LEFTSHIFT"} ELSE {})

\* doBasicKeyEvent: capital letters bring their own shift; other keysyms have
\* no scan code and are dropped.
BasicCodes(k) ==
  IF k \notin DOMAIN qwerty THEN {}
  ELSE {qwerty[k].code} \cup (IF qwerty[k].needShift THEN {"KEY_LEFTSHIFT"} ELSE {})

\* The tables are searched in this order, for the keysym Ascii makes of it.
IsDead(k)    == k \in DOMAIN latin1ToDeadChars
IsSpecial(k) == ~IsDead(k) /\ k \in DOMAIN spicialKeysymToDirectKey
IsSymbol(k)  == ~IsDead(k) /\ ~IsSpecial(k) /\ k \in DOMAIN symbolKeysymToDirectKey

\* Fault: releasing a capital letter leaves its shift.
KeyCodesNoShift(k) ==
  CASE IsDead(k)    -> BasicCodes(latin1ToDeadChars[k].baseChar) \ {"KEY_LEFTSHIFT"}
    [] IsSpecial(k) -> {spicialKeysymToDirectKey[k]}
    [] IsSymbol(k)  -> {symbolKeysymToDirectKey[k]}
    [] OTHER        -> BasicCodes(k) \ {"KEY_LEFTSHIFT"}

\* The codes that the release of a keysym releases.
KeyCodes(k) ==
  CASE IsDead(k)    -> BasicCodes(latin1ToDeadChars[k].baseChar)
    [] IsSpecial(k) -> {spicialKeysymToDirectKey[k]}
    [] IsSymbol(k)  -> {symbolKeysymToDirectKey[k]}
    [] OTHER        -> BasicCodes(k)

\* What a press leaves down.  A dead character is typed before its base, with
\* the left Alt; a symbol brings its own Alt and Shift and releases them.
AfterPress(k) ==
  CASE IsDead(k) ->
         (down \ {"KEY_LEFTALT", latin1ToDeadChars[k].altChar})
           \cup BasicCodes(latin1ToDeadChars[k].baseChar)
    [] IsSpecial(k) -> down \cup {spicialKeysymToDirectKey[k]}
    [] IsSymbol(k)  -> (down \cup {symbolKeysymToDirectKey[k]}) \ Modifiers
    [] OTHER        -> down \cup BasicCodes(k)

\* A client's key and pointer events follow the first reconfigure.
TakesEvents == caller = "idle" /\ asked # NoConfig

KeyDown(k) ==
  /\ TakesEvents
  /\ held' = held \cup {k}
  /\ down' = IF mOpened THEN AfterPress(Ascii(k)) ELSE down
  /\ UNCHANGED <<threadVars, deviceVars, clicked, pointVars>>

KeyUp(k) ==
  /\ TakesEvents
  /\ held' = held \ {k}
  /\ down' = IF mOpened THEN down \ KeyCodes(Ascii(k)) ELSE down
  /\ UNCHANGED <<threadVars, deviceVars, clicked, pointVars>>

-----------------------------------------------------------------------------
(***************************************************************************)
(* Pointer events.                                                         *)
(***************************************************************************)

\* A touch screen has no buttons: right is Back and middle is End.
ButtonCode(b) ==
  CASE b = "left"   -> IF mode.touch THEN "BTN_TOUCH" ELSE "BTN_LEFT"
    [] b = "right"  -> IF mode.touch THEN "KEY_BACK" ELSE "BTN_RIGHT"
    [] b = "middle" -> IF mode.touch THEN "KEY_END" ELSE "BTN_MIDDLE"

\* A touch screen is told the position only with the left button, pressed,
\* held or released, and with another one that stays pressed.
Touches(mask) == "left" \in clicked \cup mask \/ clicked \cap mask # {}

\* Where an event at p leaves the kernel device.  A mouse always moves;
\* relative input moves a mouse by the difference and a touch screen never.
Moved(mask, p) ==
  IF mode.relative THEN IF mode.touch THEN axis ELSE axis + (p - last)
  ELSE IF mode.touch /\ ~Touches(mask) THEN axis ELSE p

\* Fault: whatever button is not pressed is released, changed or not.
PointerEventReleases(mask, p) ==
  /\ TakesEvents
  /\ IF mOpened
       THEN /\ clicked' = mask
            /\ last' = p /\ axis' = Moved(mask, p)
            /\ down' = (down \ {ButtonCode(b) : b \in Buttons \ mask})
                         \cup {ButtonCode(b) : b \in mask \ clicked}
       ELSE UNCHANGED <<clicked, down, pointVars>>
  /\ UNCHANGED <<threadVars, deviceVars, held>>

\* pointerEvent: the motion and the buttons that changed since the last event
\* are injected.
PointerEvent(mask, p) ==
  /\ TakesEvents
  /\ IF mOpened
       THEN /\ clicked' = mask
            /\ last' = p /\ axis' = Moved(mask, p)
            /\ down' = (down \ {ButtonCode(b) : b \in clicked \ mask})
                         \cup {ButtonCode(b) : b \in mask \ clicked}
       ELSE UNCHANGED <<clicked, down, pointVars>>
  /\ UNCHANGED <<threadVars, deviceVars, held>>

Next ==
  \/ NewDevice \/ Stop \/ StartAsync \/ StartDropped \/ Join
  \/ \E c \in Configs : Reconfigure(c) \/ Start(c)
  \/ \E k \in Keysyms : KeyDown(k) \/ KeyUp(k)
  \/ \E mask \in SUBSET Buttons, p \in Positions : PointerEvent(mask, p)

Spec == Init /\ [][Next]_vars

-----------------------------------------------------------------------------
(***************************************************************************)
(* Properties.                                                             *)
(***************************************************************************)

\* The values the variables may take; in particular only codes that the device
\* has are injected.
TypeOK ==
  /\ caller \in {"idle", "start", "join"}
  /\ workers \subseteq Configs /\ asked \in Configs \cup {NoConfig}
  /\ fd \in BOOLEAN /\ mOpened \in BOOLEAN
  /\ dev \in Configs \cup {NoConfig} /\ mode \in Modes
  /\ clicked \subseteq Buttons /\ down \subseteq Codes /\ held \subseteq Keysyms
  /\ last \in Positions /\ axis \in Int

\* Between calls an open device is the one asked for last: its size, whether it
\* is a touch screen, and the globals by which events are translated.  A start
\* of an earlier reconfigure never comes in late.
ConfiguredAsAsked ==
  TakesEvents /\ mOpened => fd /\ dev = asked /\ mode = ModeOf(asked)

\* Codes no key of a keyboard produces stand for a button alone.
PureButton(b) == ButtonCode(b) # "KEY_END"

\* However the device was reconfigured in the middle of a click, or of a drag,
\* the click flags say what the device holds down, so that the next event
\* presses or releases it.
ButtonsMatch ==
  TakesEvents /\ mOpened =>
    \A b \in Buttons : PureButton(b) => (b \in clicked <=> ButtonCode(b) \in down)

\* Whatever the device was before it was reconfigured, and however its motion
\* is reported, the mouse, and the finger while the left button is down, are
\* where the client pointed to last.  (Relative input is a mouse's: a touch
\* screen with it is never told a position.)
PointerFollows ==
  TakesEvents /\ mOpened /\ (~mode.touch \/ (~mode.relative /\ "left" \in clicked)) =>
    axis = last

\* No key is stuck: what is held down, some keysym a client still holds or a
\* button accounts for, whichever keysyms share codes and wherever modifiers
\* were pressed on the client's behalf.
NoStuckKeys ==
  TakesEvents /\ mOpened =>
    \A x \in down : \/ \E k \in held : x \in KeyCodes(Ascii(k))
                    \/ \E b \in clicked : x = ButtonCode(b)

\* What the press of a keysym releases on the way, having typed it or only
\* borrowed it: the dead character with its Alt, the modifiers of a symbol.
Borrowed(k) ==
  CASE IsDead(k)   -> {"KEY_LEFTALT", latin1ToDeadChars[k].altChar}
    [] IsSymbol(k) -> Modifiers
    [] OTHER       -> {}

\* No event lets go of a key that is another's: while the device stays open, a
\* code goes up only with a keysym or a button that stands for it, or because a
\* keysym that is now held borrowed it, as a symbol does with the Shift or Alt
\* of the client.  The typing of a client is not cut short by its clicks.
KeysKept ==
  [][\A x \in down \ down' :
       \/ ~fd'
       \/ \E k \in Keysyms \ held' : x \in KeyCodes(Ascii(k))
       \/ \E k \in held' : x \in Borrowed(Ascii(k))
       \/ \E b \in clicked \ clicked' : x = ButtonCode(b)]_down

\* "don't block the caller since this can take a few seconds": the caller does
\* not wait for a start that is not finished.
CallerNotBlocked == caller = "join" => workers = {}
=============================================================================

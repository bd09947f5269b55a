# VNCFlinger, modelled and proved

TLA+ models of VNCFlinger, the VNC server of an Android device: a native server
loop with the threads that feed it, the virtual input device, and an audio
streamer, under a Java service.  TLC checks the models on small instances; TLAPS
proves the safety properties for all values of the constants.

Paths below are relative to the repository; `vncflinger/` and `audiostreamer/`
are under `src/`.

## The system

| Component | State | Operations | Talks to |
|---|---|---|---|
| Server loop, `main.cpp` `startService` | `gCaughtSignal`, the clients' sockets, what `select` returned | one pass: remove, select, accept, serve, read the eventfd, process events | TigerVNC's `VNCServerST`, `AndroidDesktop`, the eventfd |
| `AndroidDesktop` | `mServer`, `mPixels`, `mVirtualDisplay`, `frameChanged`, `cursorChanged`, `clipboardChanged`, `cur_*`, `mDisplayRect`, `mDisplayMode` | `start`, `stop`, `processCursor/Frames/Clipboard`, `setCursor`, `notifyClipboardChanged`, `onFrameAvailable`, `setScreenLayout`, `keyEvent`, `pointerEvent` | called by VNCServerST (server thread), Java threads, binder threads |
| `InputDevice` | `mFD`, `mOpened`, click flags, `mLastX/Y`, globals `touch`, `useRelativeInput`; in the kernel the keys held down | `start`, `start_async`, `stop`, `reconfigure`, `keyEvent`, `pointerEvent` | uinput; a thread of `std::async` |
| `AndroidPixelBuffer` | source rectangle, window size, scale, rotation | `setDisplayInfo`, `setWindowSize`, `updateBufferSize` | tells the desktop when its size changed |
| `VirtualDisplay` | queue, display token, rectangles | construction, destruction | BufferQueue, SurfaceComposer |
| JNI entry points, `main.cpp` | `desktop`, `gEnv`, `gThiz` | `quit`, `setDisplayProps`, `getSurface`, `notifyServer*Changed`; callbacks into Java | Java service, desktop |
| Java service, `VncFlinger.java` | settings, `mIsRunning`, `mDisplay`, clipboard listener | `onStartCommand` (start, restart, resize), `cleanup`, `onError`, `onDestroy` | JNI |
| Audio streamer, `audiostreamer.cpp` | `gRunning`, socket options, `pAudioRecord` | `audio_main`, `audiostreamer_create_thread`, `audiostreamer_record_thread`, end | Java service, the sockets, AudioRecord |
| Audio sockets, `socketmanager.cpp` | none | `create*Socket`, `acceptSocket`, `sendDataSocket`, `closeSocket` | the kernel |
| Listeners, `AndroidSocket.cpp` | a listening socket | construction (takes the name), destruction | server loop |

`VNCService.h` declares a class nothing defines or includes.

**What is hard here.**  The notifiers (Java and binder threads) share plain fields with
the server thread and synchronise with it by nothing but an eventfd: `mLock` is only
ever taken on the server thread.  The desktop is started and stopped by the VNC server's
view of its clients, may fail half way, and is replaced in the middle of serving.  The
input device is closed and opened again, by another thread, in the middle of a click or
a key press, and types modifiers the client did not press.  The audio threads outlive
the service that started them, because `accept` does not see the flag that ends them.
Restarting the service in one process meets globals that were never reset, a name that
may still be taken, and an old server that has not ended, or one that fails and cleans
up on its own thread.  The geometry is recomputed from rotation, source, window and
scale, one after the other, in floats that truncate.

**What makes each component correct.**

* Server loop and desktop: no cursor, frame or clipboard change is forgotten; a
  cursor arrives whole; what a client's event dereferences exists; the loop sleeps
  when there is nothing to do.
* Input device: the open device is the one asked for; its keys and buttons are
  down exactly when some client's are; it points where the client does; the caller
  is not kept waiting.
* Audio streamer: one client at a time; recording only for a client; the stream
  is intact; it ends with the service; all its threads together look like one
  server that serves one stream after the other.
* Geometry: frames fit the buffer; the picture lies in it, fills it and keeps the
  display's aspect and rotation; pointers land on the device.
* Service life cycle: one server at a time; the system holds what the settings ask
  for; a failure is noticed; a restart serves again; quit ends.

## The modules

| Module | What it is |
|---|---|
| `ServerLoop` | the server thread, the desktop, the notifiers, the peers |
| `MCServerLoop` | symmetry for TLC |
| `ServerLoopProofs` | its theorems about states |
| `ServerProgressProofs` | its theorems about steps: no event is put off for ever |
| `InputDevice` | the virtual device with its caller and its workers |
| `MCInputDevice` | rows of the keysym tables that exercise every branch |
| `InputDeviceProofs` | its theorems |
| `AudioStreamer` | the audio threads over the service's starts |
| `AudioStreamerProofs` | its theorems |
| `StreamServer` | what an audio client may expect: the abstract specification |
| `AudioStreamerRefinement` | the refinement mapping from `AudioStreamer` to it |
| `MCAudioStreamer` | descriptors for TLC |
| `AudioStreamerRefinementProofs` | the proof of the refinement |
| `DisplayGeometry` | pixel buffer, virtual display, rectangle and pointer ranges |
| `Float32` | single precision on lengths |
| `Float32Proofs` | how far it is from the exact product and quotient |
| `MCDisplayGeometry` | modes and windows |
| `DisplayGeometryProofs` | its theorems |
| `ServiceLifecycle` | Java's main thread and the server threads of all starts |
| `MCServiceLifecycle` | symmetry for TLC |
| `ServiceLifecycleProofs` | its theorems |

The three state machines of the native code share no variables with one another and
are joined where they interact: `ServerLoop` has the desktop's events and abstracts
geometry and input to "the display was replaced"; `DisplayGeometry` has what a
replacement computes; `ServiceLifecycle` has the threads around `startService` and
abstracts the loop to its head and the callbacks it makes.

Definitions whose comment begins with "Fault:" are not part of the models.  Each
is the definition below it with one plausible mistake in it, and shows of one
property that the code, and not the shape of the model, makes it hold.

### ServerLoop

`pc` is where the server thread is; each access of it to a field another thread
also writes is a step of its own.  `top`, `select`, `accept`, `clients` are the
stages of one pass of the loop in `main.cpp:293-378`; `cursorCheck` ... `clipSend`
are the statements of `processCursor`, `processFrames` and `processClipboard`.
`rfds` is the result of `select` still to be handled.  A notifier's progress is
`cursorPc`, `clipPc` or `binder[b]`.  The `cur_*` fields are two, the size and
the pixels, since two show every tear; `got` is the one read first.  `goal` and
`clipDue` are history variables: what Java asked for last, and which ready
clients have not heard of the last change.

TigerVNC's server is not in the repository (`external/tigervnc`).  From the way
`startService` and `AndroidDesktop` use it the module assumes: the first client
to finish the handshake makes the server call `start`; a client whose `start` left
no pixel buffer in the server is closed; `stop` is called when a removed socket
leaves no authenticated client on a started desktop, and by the destructor of
the server; sockets that were closed are reported by `isShutdown` until removed;
timers may close a client.  Of Android it assumes: a queue in asynchronous mode
replaces a frame that waits and reports only the first; the consumer holds a
reference to its listener during the callback; `lockNextBuffer` fails only when
there is no frame.  `mServer` is uninitialised memory before `start`: zero or
garbage, a choice of `Init`; a call through either ends in `crashed`.

A `select` that fails and an exception of `accept` end `startService` (`SelectFails`,
`AcceptFails`).  Frames and the cursor do not depend on their pixels, and
`updateDisplayInfo` either finds the display as it was or replaces it.

### InputDevice

The keysym tables are constants, so that the proofs hold for any tables that
satisfy `TablesAssumption`; `down` is what the kernel holds down after the
events written so far and `held` the keysyms the clients hold.  One key event is
one action: it runs under `mLock` and nothing else writes the device while the
caller is in it.  `StartAsync` starts a worker, and `Join` is the destructor of
the future: what makes `reconfigure` synchronous although its comment says
otherwise.  `StartDropped` is libc++'s default launch policy when no thread can be
had: the start is deferred, and a deferred start whose future is dropped never
runs.  Writes to an open uinput device are taken to succeed.  x and y are treated
alike, so `last` and `axis` are numbers: `last` is `mLastX`, and `axis` the absolute
axis of the kernel device or the sum of its motions, which a new device starts at
0.  The wheel leaves nothing behind and is left out.  The device is used once it
has been configured, as `start` of the desktop does before a client is ready.

### AudioStreamer

Each start of the service with audio takes a member of `Threads`.  `owner` is the thread
whose socket has the name; it is never given up, as the listening socket is never
closed.  A start that finds the name taken closes its socket in `socketmanager.cpp:73`
and again in `:87`.  Between the two the descriptor may have been given to another file,
so `file` says what each descriptor is open on, `sock` and `nSock` are descriptors, and
the second close takes away whatever is there: a later thread's socket (which then fails
to bind, and is closed again in its turn), or the connection that `accept` has just
returned.  `Grants` is the kernel's choice among the free descriptors; the run takes the
lowest, as POSIX does, and the theorems any.  Of the reasons for which `bind` and
`listen` may fail only a taken name is kept, and a descriptor that is no longer the
thread's; abstract Unix names leave no others but a lack of memory.  What else the
process may lose to the second close is outside of the module.  Bytes recorded for a
client are numbered, so that `wire` shows whether any was lost, repeated or moved.
`Restart(h)` is the part of `onStartCommand` that restarts with a new audio setting: it
overwrites `mHasAudio` first, and its `cleanup` therefore ends the streamer only if
audio is wanted from now on.  `Open` covers the recorder that cannot be initialised and
stays.  An end before the new thread has run is overwritten by the thread's own
`gRunning = true`.  The TCP and Android sockets, and a send with a time limit, are never
asked for by the service.  Destroying the service ends the process.

`AudioStreamerRefinement` maps the thread that is past `accept` and not yet back in
the loop to the connection that `StreamServer` serves; `wire` is the same in both.
`Accept` is `Begin`, `Send` is `Deliver` with what `send` took, `CloseSocket` is
`Finish`, and everything else is a stutter.

### DisplayGeometry

One action is one call on the server thread: `start`, `stop`, the
`updateDisplayInfo` of `processFrames`, `setScreenLayout`.  `AndroidPixelBuffer` is a
record, and its methods functions from one record to the next, composed in the
order of the code: rotate and swap, compare the sources, scale.  The listener's call
is made once per action, when the size or the rotation changed: of two calls in one
`setDisplayInfo` the second overwrites what the first made.  `asked` is what
`updateDisplayInfo` would read now.  For the mirrored display (`mLayerId` = 0) that is
the active mode, fixed while the program runs ("doesn't really happen on most
Android hardware", `AndroidPixelBuffer.cpp:58`), and an orientation that turns at any
time; for Java's display `setDisplayProps` sets both, field by field, and a torn read
is one more member of `Modes`, which may hold any sizes.  `setDisplayProps` also writes
`mLayerId`, which never changes here: mirroring only changes with a restart, which makes
a new desktop.  The passes that the old server still makes on a desktop whose `mLayerId`
the restart or a callback has just changed are not covered.

A float ratio is a fraction, and the two expressions in which the code multiplies
or divides by one are the constants `Times` and `Over`.  `FloatAssumption` bounds them:
the exact result truncated, or, when rounding fell short of a whole number, one less.
`Float32` has the two expressions in single precision: a ratio is a significand of 24
bits and a power of two, computed by long division and rounded to nearest, ties to even,
and so is each further operation.  The runs take `Times` and `Over` from it, for the
lengths that TLC's 31 bits allow; `Float32Proofs` shows that it satisfies the assumption
for lengths of up to 2896.  The quotient zero by zero of
the pointer's translation is 0, as AArch64 converts it.

### ServiceLifecycle

`main` and `pc[t]` are where Java's main thread and the server threads are; a step
is what happens between two accesses to what they share.  The globals `desktop`,
`gEnv` and `gThiz` belong to whichever thread set them last (`gEnv` stands for the last
two, which are written one after the other with nothing between them).  `given[t]` is the
desktop that the thread's `VNCServerST` was made with; `props[t]` is what the desktop of
thread t was last given.  Each start takes a member of `Threads`.

`startService` is `Begin` (`main.cpp:170`), `MakeServer` (259), `Bind` or `BindFails`
(268), `GetEventFd` (281), the loop, `End` (the server's destructor), `Drop` (384),
`Forget` (386-387) and `Close` (389-395); another thread's steps may come between any two.
So a thread may take its environment at 170, lose it to 386 of the thread before it, and
then serve with `gEnv` NULL.  `ret` is what `startService` will return.  A failing
`select` or an exception of `accept` (`ServeFails`), like a name that is taken
(`BindFails`), makes it 3, and the thread resets the globals, closes what it has, and runs
`onError` on its own thread: `ReportQuits`, `ReportReleases`, `ReportStops` and, at last,
the exception of `ReportThrows` that ends the process.  Between these the main thread and
the other server go on.

`doSetDisplayProps` is two steps, the reading of Java's fields and the native call,
wherever it is called: by `vncThread`, by the callback from the desktop's
constructor, from a replaced display and from `stop`, and by a resize on either
side.  The display passes its size, or "mirror".  A settings change that restarts
(`RestartCommand`) first acts on the clipboard, then overwrites the settings, then
cleans up by the new ones.  An exception that Java does not catch, from `onError` or
from a null display, ends the process; so does a callback through the `JNIEnv` of
another thread or none, and a call on a desktop that is not there, for which anything may
happen.  The 100 ms of `Sleep` are no guarantee and are a step like any other.

`Cleanup` and `Launch`, each a stretch of the main thread, are one step: what they touch is
otherwise only touched by the `onError` of a process that is about to end, and by reads of
the callbacks.  `startAudioStreamer` returns 0 for the arguments Java gives it, so
that an audio thread never reaches its `onError`.

## The runs

| Run | Constants | Checks |
|---|---|---|
| `server_events` | 1 client, 2 binder threads, 2 cursors | `CursorNotLost`, `FrameNotLost`, `ClipNotLost` |
| `server_clients` | 2 clients, 1 binder thread, 1 cursor | `DesktopUsable`, `CursorNears`, `FrameNears`, `ClipNears` |
| `server_cursor` | 1 client, 2 cursors, fairness | `CursorDelivered` |
| `server_live` | 1 client, 1 binder thread, 1 cursor, fairness | `FrameDelivered`, `ClipDelivered` |
| `server_set_before_use` | 1 client, 1 binder thread, 1 cursor | `ServerSetBeforeUse`: violated |
| `server_idle` | the same, with fairness | `IdleLoopDrains`: violated |
| `input_keys` | 8 keysyms, 1 size, 2 positions | `TypeOK`, `ConfiguredAsAsked`, `ButtonsMatch`, `NoStuckKeys`, `PointerFollows`, `KeysKept` |
| `input_blocking` | 8 keysyms, 1 size, 1 position | `CallerNotBlocked`: violated |
| `audio_streams` | 2 starts, 2 connections, 4 descriptors, 2 bytes a read, 3 a client, fairness | `TypeOK`, `OneClient`, `ListenerStays`, `RecordsForClient`, `StreamIntact`, `RecordingNears`, `RecordingEnds`, `ServesStreams` (a refinement) |
| `geometry` | 5 modes, 5 windows, sides up to 15 | `TypeOK`, `FramesFit`, `PictureInBuffer`, `PictureFills`, `PointerInRange`, `ProjectionFollows`, `BufferIsDisplay`, `TurnKeepsWindow` |
| `lifecycle` | 2 starts, 2 sizes | `TypeOK`, `OneServer`, `OwnGlobals`, `ResourcesMatch`, `RunningUntilRestart`, `QuitNears` |
| `lifecycle_restart` | 2 starts, 1 size | `RunningServes`: violated |

**Why the bounds are enough.**  A tear needs two cursors: an old and a new one. Two
binder threads overlap in `onFrameAvailable`, and two clients make one leave, or stay
unauthenticated, while the other is ready; more of either add only repetitions, and the
proofs hold for any number.  `server_cursor` has two cursors, so that the one it waits
for may be torn by, or may tear, another, and nothing else but the client and the
clipboard; with frames and two cursors together liveness takes too long. `server_live`
has one of each: what could hold one event back is the others. The eight keysyms reach
every branch of `keyEvent`, two keysyms on one code, a code shared with a button of the
touch screen, and modifiers pressed by the client and on its behalf.  Configurations
differ in `touch` and `relative` even with one size, and two positions tell a motion,
its direction and a motion of nothing.  Two starts of the audio service are one that
serves and one that fails to bind while the first has the name, or after it ended; three
bytes in reads of two give a full, a short and a split buffer.  Four descriptors are two
sockets and two connections; the lowest free one is, after the first close of a start
that failed, the one that it closes again, and a connection accepted in between gets it.
`MaxBytes` is the one bound of the audio model that stands in a guard, and `Threads`
bounds how often the service starts with audio; the theorems are for any value of both.

A restart overlaps with one earlier server, and a third thread adds repetitions;
`lifecycle` has both threads at every pair of places, and the theorems are for any
number.  The modes of `geometry` are a display in either orientation,
two that share a side in one of their orientations, and a square; its windows are
wider, narrower, a pixel wide and such that a product is truncated below a whole
number (11 by 13/11).  `MaxLength` is the longest side among the modes and windows
and stands in no guard: that no buffer gets longer is part of `TypeOK`, and proved.

Deadlock is looked for in `input_keys` and `geometry`.  The other
systems may stop for good: a server that quit or crashed, a streamer that ended, a
process that died.

**Fairness.**  `FairSpec` of `ServerLoop` gives weak fairness to the server thread
and to each notifier that has begun, which is what a scheduler owes a runnable
thread; a `select` with nothing to read, a client, a producer, a copy or a quit is
owed nothing.  `FairSpec` of `AudioStreamer` does the same for every audio thread,
except for `send`, which may wait for ever for a peer that does not read, and for
a failing `accept`.

**Progress without fairness.**  `CursorNears`, `FrameNears`, `ClipNears`,
`RecordingNears` and `QuitNears` are what the liveness properties rest on when fairness
is taken away: from where a thread knows of an event each of its steps brings it nearer
to the end of it, in the number of statements left (`StepsTo`, `StepsToStop`,
`StepsLeft`) or, while the loop serves clients, in the number of those still to be
served; and no step of anybody else sets it back.  A loop that goes round without coming
there, because connections, timers or events of another kind keep it busy, violates
them; fairness could not help such a loop.

**What the violations show.**

* `server_set_before_use`: a client connects and does not finish its handshake;
  the desktop was therefore never started; a cursor change makes `processCursor`
  (`AndroidDesktop.cpp:117`) call through the uninitialised `mServer`.
  `processClipboard` tests the pointer, which is no help against garbage.
* `server_idle`: an event sets the eventfd while nobody is connected, or as the last
  client goes; `main.cpp:360` starts over without reading it, so that `select` returns at
  once, again and again, until somebody connects.
* `input_blocking`: the server thread waits in the destructor of the future
  (`InputDevice.cpp:346`).  The same wait is what makes `ConfiguredAsAsked` hold: its
  fault, a future that is kept, brings a late start in.
* `lifecycle_restart`: `gCaughtSignal` is set by the `quit` of the restart and never
  reset, so the new server ends at the head of its loop; `mIsRunning` stays true.

**What the properties leave open.**  The repository claims nothing of the following,
and no run does; the models show it.

* A half turn of the internal display changes neither `mRotated` nor the source's size.
  Nobody replaces the `VirtualDisplay`, whose projection keeps the rotation of before: the
  picture is upside down.  `ProjectionFollows` therefore speaks of sideways only.
* Java's display that is resized from w by h to h by w and turned between two frames
  leaves the buffer in the other orientation: `setBufferRotation` swaps the buffer and not
  `mSourceWidth` and `mSourceHeight`, which `setDisplayInfo` then finds unchanged.
  `BufferIsDisplay` allows either orientation for this reason.  A later resize that gives
  the buffer the size it happens to have tells nobody, so that the projection's source
  and the pointer device are those of the earlier mode; `ProjectionFollows` and
  `PointerInRange` are about the mirrored display in that part.
* After a turn the client's window is computed again as source times scale, truncated.
  Where the quotient was rounded down a side loses a pixel: with a source of 1920 a
  window of 125 comes out as 124.  `TurnKeepsWindow` allows that pixel and no more.
* A resize on Java's main thread and a callback on the server thread both read the size
  and call `setDisplayProps` without a lock; the one that read the old size may be last.

## What is proved

For any sets of clients, threads, cursors, keysyms, positions and connections, any
tables within `TablesAssumption`, any sizes and any float operations within
`FloatAssumption`:

* `ServerLoopProofs`.  `TypeCorrect`, which the rest needs, by one step per action.
  `DesktopUsable` is not inductive: nothing in it says that a started desktop has a
  server, nor that `frameUpdate` is only reached with a display.  `DesktopShape` adds
  the first (a display has its server and pixel buffer, and ready clients have a
  display) and `DisplayHeld` the second; `ShapeCorrect` proves them together.
  `CursorNotLost` needs `CursorWritten` (what a writer that is past the buffer has left
  in `cur`) and `OutdatedRead` (a server thread that read the size of an earlier cursor
  will be made to read again): a tear is always followed by a second look.
  `FrameNotLost` and `ClipNotLost` are inductive with the types.
* `ServerProgressProofs`.  The server thread's steps go forward in the pass (`Place`),
  and the one way back, from `accept` to `top` with nobody connected, is not taken while
  a frame or a client is waiting: a display has somebody connected (`DisplayServed`,
  inductive with `DisplayHeld`).  What is noticed (`CursorNoticed`, `FrameNoticed`,
  `ClipNoticed`: the flag is up and the eventfd set or this pass still to come by, or
  the thread is past the flag) stays noticed, since flag and eventfd are only cleared on
  the way to the place that handles the event.  A cursor replaced after its size was
  read costs one more pass (`StepsToCursor`); `CursorWritten` and `OutdatedRead` say
  that it costs no more.  Of `FrameDelivered`, `ClipDelivered` and `CursorDelivered`
  there remains that a notifier which has begun goes on and that the server thread runs.
* `InputDeviceProofs`.  `Lifecycle` says that a worker exists only while the
  caller waits for it and that an open device was asked for; `ConfiguredAsAsked`
  follows.  `Matched` and `Accounted` carry `ButtonsMatch` and `NoStuckKeys` through
  the reconfiguration, between whose steps neither holds for the caller.
  `AfterPress(k)` adds to `down` no more than `KeyCodes(k)`, which is what releasing
  `k` takes away; this holds table by table, whatever the tables share.  `Pointed`
  carries `PointerFollows` in the same way; that a closed device has its axis at 0 is
  part of `Lifecycle`.  `KeysKept` is a property of steps: a press takes from `down` only
  what it borrowed, for any tables, and every other event only the codes of what was let go.
* `AudioStreamerProofs`.  `Owned`: every thread that listens is the one that has
  the name.  It makes the serving thread unique (`OneClient`), which
  `RecordsForClient` and the account of the bytes (`Counted`, `Fresh`) rest on.
  `ListenerStays` needs `Unowned` and `Kept`: only a thread that has failed to bind closes
  a socket, none fails before the name is taken, and those still to close one got another
  descriptor than the owner's, which was never free again.  A connection has no such
  protection: `ServesOpen` says that it is open or was closed by a start that failed, and so
  does `RecordsForClient`, where the recorder runs on until the next `send` fails.
  `RecordingNears` needs `Unsent`: a thread in `send` has something to send.
* `AudioStreamerRefinementProofs`.  `Spec => Stream!Spec`.  The mapping's `CHOOSE` is
  settled by the uniqueness of the serving thread, and `Deliver` needs the account of
  the bytes: what `send` took continues what the connection already got.
* `DisplayGeometryProofs`.  `GeometryInv` adds to the types `Matching`: a display that
  is shown has the pixel buffer's size, a source without a zero side, and the
  rectangle computed from the two.  The rectangle's facts are arithmetic about
  `Viewport` under `FloatAssumption`: the side that is not kept is at most the buffer's,
  and within one of the exact quotient.  `PointerInRange` multiplies both sides of the
  acceptance test by the mode's length and divides again.  `Orientation` adds that the
  buffer, its source and the projection are turned as the display was last read; it
  carries `ProjectionFollows`, and with `Unscaled` (scales of one are kept by every call
  Java's display can cause) `BufferIsDisplay`.  `Related`, that the scales are those of the
  buffer to its source, makes `TurnKeepsWindow` arithmetic: b * (a / b), truncated, is a
  or a - 1.  The parts are proved together, as `WindowInv`, for they need one another: no
  guard keeps a scaled side within `MaxLength`.  That it stays there (`SizeKept`, the part
  of `TypeCorrect` that is not about types) is since the buffer of Java's display is not
  scaled at all, and that of the mirrored one is scaled by what relates it to the very
  source, so that a turn gives the sides there were or one less.
* `Float32Proofs`.  `FloatOperations`: for every `MaxLength` whose square is below 2^23
  the operations of `Float32` satisfy `FloatAssumption`.  The quotient is within half a
  unit of its 24 bits of the exact ratio, and the product or the second quotient within
  another half; a relative error below 2^-23 of a result below 2^23 is less than one
  over the divisor, which is the least distance of a quotient from the next whole
  number.  So the truncated result is the exact one, or one less where that was a whole
  number.  The bound is not just the proof's: 3179 * (3189 / 2423) truncates a unit too
  high.  Displays with a side longer than 2896 are outside of what
  `DisplayGeometryProofs` says of the code.
* `ServiceLifecycleProofs`.  `ServiceInv` adds to the types: `ResourceShape`, which says
  for each place of the main thread what the system holds (after `cleanup` nothing,
  whatever the settings were changed to); `NameShape`, that who listens has the name;
  `QuitShape`, that before the first quit a thread only ends with a failure to report; and
  `GlobalShape`: the globals refer to nobody who has reset them already, and a server loses
  its desktop only to a thread that has failed.  It makes `OwnGlobals` inductive, since
  each thread resets the globals before it gives up the name, and a new one makes its
  desktop before it takes it.  What `OwnGlobals` does not say is that the
  environment is the thread's own: that is false, since `main.cpp:386` of one thread may
  come between 170 and 268 of the next, which then serves with none.  `ResourcesMatch` and
  the counts of `TypeOK` leave out a process in which `onError` has released everything
  and whose main thread may be starting anew (`Released`); its exception comes next.
  `QuitNears` is a measure on the places (`StepsLeft`) and needs the types alone.

The assumptions are those named in the modules: `ConstantsAssumption`,
`TablesAssumption`, `PositionsAssumption`, `NoConfigAssumption`, `SizesAssumption`,
`GrantsAssumption`, `LengthsAssumption`, `FloatAssumption`, `DistinctAssumption`.

**Only model-checked.**  The liveness properties (`CursorDelivered`,
`FrameDelivered`, `ClipDelivered`, `RecordingEnds`): fairness and `ENABLED`
are out of the prover's reach.

## What is not modelled

* Pixels: the copy of a frame, and the drawing of the cursor.
* The clipboard's text, which is passed between Java and TigerVNC without state here,
  and `getSurface`.
* TigerVNC, BufferQueue, SurfaceComposer, AudioRecord, uinput: as assumed above.
* The Android control sockets and the TCP listeners, which the service's fixed
  arguments never ask for; `desktopSetup`'s options, the pid file, signals (they end
  the process), the notification, the intents, the comparison of cursor icons and
  resources.  `VNCService.h` has no definition.
* Undefined behaviour beyond its first effect: a call through a bad pointer, through
  another thread's `JNIEnv` or none, or on a freed desktop, ends the process or has no
  effect.
* Touch emulation together with relative input: modelled, and left out of
  `PointerFollows`, since such a device is never told a position.
* What a keysym above 65535 is truncated to: which code it stands for is part of the
  tables.
* A modifier that the client holds and a symbol releases is modelled (`AfterPress`), and
  `KeysKept` allows it, since the code does not say what should happen.

## Plan

`ServerLoop`, `InputDevice`, `AudioStreamer` with its refinement, `DisplayGeometry` and
`ServiceLifecycle` are done, with their proofs.  What could follow:

1. An event mailbox (set, notified, taken) as an abstract specification that
   `ServerLoop` implements for the frame and the clipboard, with the proof.
2. `mLayerId` as a variable of `DisplayGeometry`, for the last passes of a server whose
   service is being restarted.

-------------------------- MODULE ServiceLifecycle --------------------------
(***************************************************************************)
(* The life cycle of the service in one process: Java's main thread, which *)
(* runs onStartCommand and onDestroy, and the server thread that each      *)
(* start makes.  They share the fields of VncFlinger and the globals of    *)
(* main.cpp, none of which a restart resets, and no lock.                  *)
(*                                                                         *)
(* Of the server thread only what concerns the service is kept: it makes   *)
(* the desktop, takes the socket's name, serves until it sees the flag of  *)
(* quit or an exception ends it, calls back into Java, gives up what it    *)
(* has, and reports a failure from its own thread.  The audio threads have *)
(* a module of their own.                                                  *)
(*                                                                         *)
(* An uncaught exception of any Java thread ends the process.              *)
(***************************************************************************)
EXTENDS Naturals

CONSTANTS
  Threads,   \* the server threads; bound: each start and restart takes one
  Sizes,     \* sizes of Java's display
  Main,      \* Java's main thread
  None       \* no thread, no value

ASSUME DistinctAssumption ==
  /\ Main \notin Threads /\ None \notin Threads
  /\ "mirror" \notin Sizes /\ None \notin Sizes \cup {"mirror"}

VARIABLES
  alive,        \* the process runs
  main,         \* where the main thread is
  mIsRunning,
  set,          \* mMirrorInternal, mRemoteCursor, mSupportClipboard
  mSize,        \* mWidth and mHeight
  mDisplay,     \* null, live, or released
  displays,     \* virtual displays the system holds for the service
  listeners,    \* registrations of mClipListener with the system
  forceNull,    \* the system hides the cursor
  gCaughtSignal,
  desktop,      \* the global reference: the thread that made the desktop
  gEnv,         \* the thread whose JNI environment gEnv and gThiz belong to
  name,         \* the thread whose listener has the name "@vncflinger"
  pc,           \* where each server thread is
  given,        \* the desktop the thread's server object was made with
  ret,          \* what startService is going to return
  arg,          \* what a thread passes to setDisplayProps
  props         \* what each desktop was last given by setDisplayProps

javaVars     == <<mIsRunning, set, mSize>>
resourceVars == <<mDisplay, displays, listeners, forceNull>>
nativeVars   == <<gCaughtSignal, desktop, gEnv, name>>
propVars     == <<arg, props>>
serverVars   == <<given, ret>>
vars == <<alive, main, javaVars, resourceVars, nativeVars, pc, serverVars, propVars>>

Settings == [mirror : BOOLEAN, cursor : BOOLEAN, clip : BOOLEAN]

\* The steps in which a thread calls doSetDisplayProps, and what follows.
ReadsProps ==
  [newProps |-> "newSet", startProps |-> "startSet",
   surfaceProps |-> "surfaceSet", endProps |-> "endSet"]
SetsProps ==
  [newSet |-> "assign", startSet |-> "begin", surfaceSet |-> "serve", endSet |-> "drop"]

Starting == {"initialize", "newProps", "newSet", "assign", "startProps", "startSet",
             "begin", "server", "bind", "event"}
Serving == {"loop", "serve", "surfaceProps", "surfaceSet", "resize"}
Ending  == {"end", "endProps", "endSet", "drop", "forget", "close"}
Reporting == {"report", "release", "stop", "throw"}
Places  == {"none", "done"} \cup Starting \cup Serving \cup Ending \cup Reporting

Init ==
  /\ alive = TRUE /\ main = "idle" /\ mIsRunning = FALSE
  /\ set \in Settings /\ mSize \in Sizes
  /\ mDisplay = "null" /\ displays = 0 /\ listeners = 0 /\ forceNull = FALSE
  /\ gCaughtSignal = FALSE /\ desktop = None /\ gEnv = None /\ name = None
  /\ pc = [t \in Threads |-> "none"]
  /\ given = [t \in Threads |-> None] /\ ret = [t \in Threads |-> 0]
  /\ arg = [t \in Threads \cup {Main} |-> None] /\ props = [t \in Threads |-> None]

Started == {t \in Threads : pc[t] # "none"}

-----------------------------------------------------------------------------
(***************************************************************************)
(* The main thread.                                                        *)
(***************************************************************************)

MainGoto(from, to) == alive /\ main = from /\ main' = to

\* onStartCommand of a service that does not run takes the settings.
StartCommand(s, size) ==
  /\ ~mIsRunning
  /\ MainGoto("idle", "launch")
  /\ set' = s /\ mSize' = size
  /\ UNCHANGED <<alive, mIsRunning, resourceVars, nativeVars, pc, serverVars, propVars>>

\* To remove a listener that is not registered has no effect.
OneLess == IF listeners > 0 THEN listeners - 1 ELSE 0

\* A changed clipboard setting is acted on at once.
UpdateListener(clip) ==
  listeners' = IF clip = set.clip THEN listeners ELSE IF clip THEN listeners + 1 ELSE OneLess

\* Settings that a running server cannot change, the ones not kept here among
\* them: the new size is dropped.
RestartCommand(s) ==
  /\ mIsRunning
  /\ MainGoto("idle", "cleanup")
  /\ UpdateListener(s.clip)
  /\ set' = s
  /\ UNCHANGED <<alive, mIsRunning, mSize, mDisplay, displays, forceNull,
                 nativeVars, pc, serverVars, propVars>>

\* A new size, a new density, or nothing new but the clipboard.
ResizeCommand(s, size) ==
  /\ mIsRunning
  /\ s.mirror = set.mirror /\ s.cursor = set.cursor
  /\ UpdateListener(s.clip)
  /\ set' = s /\ mSize' = size
  /\ \E next \in IF size = mSize THEN {"idle", "density"} ELSE {"resize"} :
       MainGoto("idle", next)
  /\ UNCHANGED <<alive, mIsRunning, mDisplay, displays, forceNull, nativeVars, pc, serverVars, propVars>>

\* resizeResolution: a display that was never made cannot be resized.
ResizeDisplay ==
  /\ mDisplay # "null" /\ MainGoto("resize", "props")
  /\ UNCHANGED <<alive, javaVars, resourceVars, nativeVars, pc, serverVars, propVars>>

\* changeDPI: the server is not told.
ChangeDPI ==
  /\ mDisplay # "null" /\ MainGoto("density", "idle")
  /\ UNCHANGED <<alive, javaVars, resourceVars, nativeVars, pc, serverVars, propVars>>

\* The display is null, or has been released.
ResizeFails ==
  /\ mDisplay # "live" /\ main \in {"resize", "density"} /\ MainGoto(main, "idle")
  /\ alive' = FALSE
  /\ UNCHANGED <<javaVars, resourceVars, nativeVars, pc, serverVars, propVars>>

DisplayProps == IF set.mirror THEN "mirror" ELSE mSize

MainReadsProps ==
  /\ MainGoto("props", "set")
  /\ arg' = [arg EXCEPT ![Main] = DisplayProps]
  /\ UNCHANGED <<alive, javaVars, resourceVars, nativeVars, pc, serverVars, props>>

\* setDisplayProps: without a desktop the call has no effect.
GiveProps(w) ==
  /\ props' = IF desktop = None THEN props ELSE [props EXCEPT ![desktop] = arg[w]]
  /\ arg' = [arg EXCEPT ![w] = None]

MainSetsProps ==
  /\ MainGoto("set", "idle")
  /\ GiveProps(Main)
  /\ UNCHANGED <<alive, javaVars, resourceVars, nativeVars, pc, serverVars>>

\* Fault: the clipboard listener stays.
ReleaseAllButListener ==
  /\ forceNull' = (forceNull /\ ~set.cursor)
  /\ mDisplay' = IF mDisplay = "null" THEN "null" ELSE "released"
  /\ displays' = IF mDisplay = "live" THEN displays - 1 ELSE displays
  /\ UNCHANGED listeners

\* cleanup after quit: what is released goes by the settings as they are now.
ReleaseAll ==
  /\ forceNull' = (forceNull /\ ~set.cursor)
  /\ listeners' = IF set.clip THEN OneLess ELSE listeners
  /\ mDisplay' = IF mDisplay = "null" THEN "null" ELSE "released"
  /\ displays' = IF mDisplay = "live" THEN displays - 1 ELSE displays

Cleanup ==
  /\ MainGoto("cleanup", "sleep")
  /\ gCaughtSignal' = TRUE
  /\ ReleaseAll
  /\ mIsRunning' = FALSE
  /\ UNCHANGED <<alive, set, mSize, desktop, gEnv, name, pc, serverVars, propVars>>

Sleep ==
  /\ MainGoto("sleep", "launch")
  /\ UNCHANGED <<alive, javaVars, resourceVars, nativeVars, pc, serverVars, propVars>>

\* Fault: a cursor that need not be hidden is not looked at.
ShowCursorNot == forceNull' = (forceNull \/ set.cursor)

ShowCursor == forceNull' = set.cursor

\* The rest of onStartCommand: the display, the listener, the thread.
Launch ==
  /\ MainGoto("launch", "idle")
  /\ IF set.mirror THEN UNCHANGED <<mDisplay, displays>>
                   ELSE mDisplay' = "live" /\ displays' = displays + 1
  /\ listeners' = IF set.clip THEN listeners + 1 ELSE listeners
  /\ ShowCursor
  /\ \E t \in Threads \ Started : pc' = [pc EXCEPT ![t] = "initialize"]
  /\ mIsRunning' = TRUE
  /\ UNCHANGED <<alive, set, mSize, nativeVars, serverVars, propVars>>

\* onDestroy ends the process.
Destroy ==
  /\ MainGoto("idle", "idle")
  /\ alive' = FALSE
  /\ UNCHANGED <<javaVars, resourceVars, nativeVars, pc, serverVars, propVars>>

-----------------------------------------------------------------------------
(***************************************************************************)
(* The server threads.                                                     *)
(***************************************************************************)

Goto(t, from, to) == alive /\ pc[t] = from /\ pc' = [pc EXCEPT ![t] = to]

\* The exception that ends the process.
Dies(t, from) ==
  /\ alive /\ pc[t] = from
  /\ alive' = FALSE
  /\ UNCHANGED <<main, javaVars, resourceVars, nativeVars, pc, serverVars, propVars>>

\* initializeVncFlinger up to the desktop's constructor, which calls Java back
\* before the global refers to the new desktop.
Initialize(t) ==
  /\ Goto(t, "initialize", "newProps")
  /\ gEnv' = t
  /\ UNCHANGED <<alive, main, javaVars, resourceVars, gCaughtSignal, desktop, name, serverVars, propVars>>

\* The new desktop replaces whatever was there.
AssignDesktop(t) ==
  /\ Goto(t, "assign", "startProps")
  /\ desktop' = t
  /\ UNCHANGED <<alive, main, javaVars, resourceVars, gCaughtSignal, gEnv, name, serverVars, propVars>>

\* doSetDisplayProps: a display that Java has not made yet has no rotation.
\* Every call but vncThread's own comes from native code, by gEnv.
ReadProps(t) ==
  /\ pc[t] \in DOMAIN ReadsProps
  /\ pc[t] = "startProps" \/ gEnv # None
  /\ set.mirror \/ mDisplay # "null"
  /\ Goto(t, pc[t], ReadsProps[pc[t]])
  /\ arg' = [arg EXCEPT ![t] = DisplayProps]
  /\ UNCHANGED <<alive, main, javaVars, resourceVars, nativeVars, serverVars, props>>

ReadPropsFails(t) ==
  /\ pc[t] \in DOMAIN ReadsProps
  /\ ~set.mirror /\ mDisplay = "null"
  /\ Dies(t, pc[t])

SetProps(t) ==
  /\ pc[t] \in DOMAIN SetsProps
  /\ Goto(t, pc[t], SetsProps[pc[t]])
  /\ GiveProps(t)
  /\ UNCHANGED <<alive, main, javaVars, resourceVars, nativeVars, serverVars>>

\* startService first takes the globals of the environment.
Begin(t) ==
  /\ Goto(t, "begin", "server")
  /\ gEnv' = t
  /\ UNCHANGED <<alive, main, javaVars, resourceVars, gCaughtSignal, desktop, name,
                 serverVars, propVars>>

\* The server object is made with the desktop of the moment, if there is one.
MakeServer(t) ==
  /\ Goto(t, "server", "bind")
  /\ given' = [given EXCEPT ![t] = desktop]
  /\ UNCHANGED <<alive, main, javaVars, resourceVars, nativeVars, ret, propVars>>

\* Fault: the name is taken from whoever has it.
BindOver(t) ==
  /\ Goto(t, "bind", "event")
  /\ name' = t
  /\ UNCHANGED <<alive, main, javaVars, resourceVars, gCaughtSignal, desktop, gEnv,
                 serverVars, propVars>>

\* The listener takes the name, if no other has it.
Bind(t) ==
  /\ name = None
  /\ Goto(t, "bind", "event")
  /\ name' = t
  /\ UNCHANGED <<alive, main, javaVars, resourceVars, gCaughtSignal, desktop, gEnv,
                 serverVars, propVars>>

\* The name is taken, or there are no resources: the exception is caught behind the
\* server object, which nobody has used.
BindFails(t) ==
  /\ Goto(t, "bind", "drop")
  /\ ret' = [ret EXCEPT ![t] = 3] /\ given' = [given EXCEPT ![t] = None]
  /\ UNCHANGED <<alive, main, javaVars, resourceVars, nativeVars, propVars>>

\* The desktop's eventfd, if there is still a desktop.
GetEventFd(t) ==
  /\ desktop # None
  /\ Goto(t, "event", "loop")
  /\ UNCHANGED <<alive, main, javaVars, resourceVars, nativeVars, serverVars, propVars>>

NoEventFd(t) == desktop = None /\ Dies(t, "event")

\* Fault: the flag is not tested.
LoopOn(t) ==
  /\ Goto(t, "loop", "serve")
  /\ UNCHANGED <<alive, main, javaVars, resourceVars, nativeVars, serverVars, propVars>>

\* The head of the loop.
Loop(t) ==
  /\ Goto(t, "loop", IF gCaughtSignal THEN "end" ELSE "serve")
  /\ UNCHANGED <<alive, main, javaVars, resourceVars, nativeVars, serverVars, propVars>>

\* Something was readable, or timed out: the loop starts over.
Wake(t) ==
  /\ Goto(t, "serve", "loop")
  /\ UNCHANGED <<alive, main, javaVars, resourceVars, nativeVars, serverVars, propVars>>

\* Fault: the exception leaves the returned value at 0.
ServeFailsQuietly(t) ==
  /\ Goto(t, "serve", "end")
  /\ UNCHANGED <<alive, main, javaVars, resourceVars, nativeVars, serverVars, propVars>>

\* select fails, or an exception comes out of accept: the loop is left.
ServeFails(t) ==
  /\ Goto(t, "serve", "end")
  /\ ret' = [ret EXCEPT ![t] = 3]
  /\ UNCHANGED <<alive, main, javaVars, resourceVars, nativeVars, given, propVars>>

\* The server replaces its virtual display and calls onNewSurfaceAvailable.
NewSurface(t) ==
  /\ given[t] # None
  /\ Goto(t, "serve", "surfaceProps")
  /\ UNCHANGED <<alive, main, javaVars, resourceVars, nativeVars, serverVars, propVars>>

\* A client resizes Java's display, if its desktop has one.
Resizes(t) == given[t] # None /\ props[given[t]] \in Sizes

\* onResizeDisplay, on the server thread.
ClientResizes(t, size) ==
  /\ gEnv # None
  /\ Goto(t, "serve", "resize") /\ Resizes(t)
  /\ mSize' = size
  /\ UNCHANGED <<alive, main, mIsRunning, set, resourceVars, nativeVars, serverVars, propVars>>

ClientResized(t) ==
  /\ Goto(t, "resize", "surfaceProps")
  /\ UNCHANGED <<alive, main, javaVars, resourceVars, nativeVars, serverVars, propVars>>

\* Fault: the listener goes with the server object.
EndClosing(t) ==
  /\ \E next \in {"endProps", "drop"} : Goto(t, "end", next)
  /\ given' = [given EXCEPT ![t] = None] /\ name' = None
  /\ UNCHANGED <<alive, main, javaVars, resourceVars, gCaughtSignal, desktop, gEnv, ret, propVars>>

\* The server object goes; a desktop that was started calls back once more.
End(t) ==
  /\ \E next \in {"endProps", "drop"} : Goto(t, "end", next)
  /\ given' = [given EXCEPT ![t] = None]
  /\ UNCHANGED <<alive, main, javaVars, resourceVars, nativeVars, ret, propVars>>

\* The globals are reset one by one, whosever they are by now.
Drop(t) ==
  /\ Goto(t, "drop", "forget")
  /\ desktop' = None
  /\ UNCHANGED <<alive, main, javaVars, resourceVars, gCaughtSignal, gEnv, name,
                 serverVars, propVars>>

Forget(t) ==
  /\ Goto(t, "forget", "close")
  /\ gEnv' = None
  /\ UNCHANGED <<alive, main, javaVars, resourceVars, gCaughtSignal, desktop, name,
                 serverVars, propVars>>

\* The listener is closed, if there is one, and startService returns.
Close(t) ==
  /\ Goto(t, "close", IF ret[t] = 0 THEN "done" ELSE "report")
  /\ name' = IF name = t THEN None ELSE name
  /\ UNCHANGED <<alive, main, javaVars, resourceVars, gCaughtSignal, desktop, gEnv,
                 serverVars, propVars>>

\* onError: cleanup on the server thread, by the settings of the moment, while the
\* main thread goes on; then the exception.
ReportQuits(t) ==
  /\ Goto(t, "report", "release")
  /\ gCaughtSignal' = TRUE
  /\ UNCHANGED <<alive, main, javaVars, resourceVars, desktop, gEnv, name, serverVars, propVars>>

ReportReleases(t) ==
  /\ Goto(t, "release", "stop")
  /\ ReleaseAll
  /\ UNCHANGED <<alive, main, javaVars, nativeVars, serverVars, propVars>>

ReportStops(t) ==
  /\ Goto(t, "stop", "throw")
  /\ mIsRunning' = FALSE
  /\ UNCHANGED <<alive, main, set, mSize, resourceVars, nativeVars, serverVars, propVars>>

ReportThrows(t) == Dies(t, "throw")

\* A callback through the environment of another thread, or none.
CallsBackAstray(t) ==
  /\ pc[t] \in DOMAIN ReadsProps \ {"startProps"} /\ gEnv # t
  /\ Dies(t, pc[t])

ResizesAstray(t) == gEnv # t /\ Dies(t, "serve") /\ Resizes(t)

\* An event for a desktop that is not there: the server's own, or the global one.
ServesAstray(t) ==
  /\ given[t] = None \/ desktop = None
  /\ Dies(t, "serve")

StartStep(t) ==
  \/ Initialize(t) \/ AssignDesktop(t) \/ Begin(t) \/ MakeServer(t)
  \/ Bind(t) \/ BindFails(t) \/ GetEventFd(t) \/ NoEventFd(t)

ServeStep(t) ==
  \/ Loop(t) \/ Wake(t) \/ ServeFails(t) \/ NewSurface(t) \/ ClientResized(t)
  \/ ResizesAstray(t) \/ ServesAstray(t)
  \/ \E size \in Sizes : ClientResizes(t, size)

EndStep(t) ==
  \/ End(t) \/ Drop(t) \/ Forget(t) \/ Close(t)
  \/ ReportQuits(t) \/ ReportReleases(t) \/ ReportStops(t) \/ ReportThrows(t)

PropsStep(t) == ReadProps(t) \/ ReadPropsFails(t) \/ SetProps(t) \/ CallsBackAstray(t)

MainStep ==
  \/ ResizeDisplay \/ ChangeDPI \/ ResizeFails \/ MainReadsProps \/ MainSetsProps
  \/ Cleanup \/ Sleep \/ Launch

Command ==
  \/ \E s \in Settings, size \in Sizes : StartCommand(s, size)
  \/ \E s \in Settings : RestartCommand(s)
  \/ \E s \in Settings, size \in Sizes : ResizeCommand(s, size)
  \/ Destroy

Next ==
  \/ Command \/ MainStep
  \/ \E t \in Threads : StartStep(t) \/ ServeStep(t) \/ EndStep(t) \/ PropsStep(t)

Spec == Init /\ [][Next]_vars

-----------------------------------------------------------------------------
(***************************************************************************)
(* Properties.                                                             *)
(***************************************************************************)

JavaTypes ==
  /\ alive \in BOOLEAN
  /\ main \in {"idle", "launch", "cleanup", "sleep", "resize", "density", "props", "set"}
  /\ mIsRunning \in BOOLEAN /\ set \in Settings /\ mSize \in Sizes

\* onError has released what the service had, and the exception comes next.
Released == \E t \in Threads : pc[t] \in {"stop", "throw"}

ResourceTypes ==
  /\ mDisplay \in {"null", "live", "released"}
  /\ displays \in Nat /\ listeners \in Nat /\ forceNull \in BOOLEAN
  /\ displays <= 1 \/ Released
  /\ listeners <= 1 \/ Released

NativeTypes ==
  /\ gCaughtSignal \in BOOLEAN
  /\ desktop \in Threads \cup {None} /\ gEnv \in Threads \cup {None}
  /\ name \in Threads \cup {None}

ThreadTypes ==
  /\ pc \in [Threads -> Places]
  /\ given \in [Threads -> Threads \cup {None}] /\ ret \in [Threads -> {0, 3}]
  /\ arg \in [Threads \cup {Main} -> Sizes \cup {"mirror", None}]
  /\ props \in [Threads -> Sizes \cup {"mirror", None}]

\* The values the variables may take; never two displays or two listeners, except in
\* a process that the exception of onError is about to end.
TypeOK == JavaTypes /\ ResourceTypes /\ NativeTypes /\ ThreadTypes

\* The thread's listener is open, and has not come from a start that failed.
Listens(t) ==
  pc[t] \in {"event", "end", "endProps", "endSet"} \cup Serving
    \/ (pc[t] \in {"drop", "forget", "close"} /\ ret[t] = 0)

\* However often the service is restarted while an earlier server still runs, and
\* whether the servers end because they are told to or fail, only one thread at a
\* time has the socket and serves.
OneServer ==
  \A t, u \in Threads : Listens(t) /\ Listens(u) => t = u

\* The damage a restart does to the globals is a lost environment, and no worse: a
\* thread that serves while no other one is starting or failing has its own desktop,
\* and its callbacks never go through the environment of another thread, however many
\* servers came and went before it.
OwnGlobals ==
  \A t \in Threads :
    /\ pc[t] \in Serving \cup {"end", "endProps", "endSet"}
    /\ \A u \in Threads \ {t} : pc[u] \notin Starting \ {"initialize"} /\ ret[u] = 0
    => desktop = t /\ gEnv \in {t, None}

\* At rest the system holds for the service what its settings ask for, although
\* cleanup goes by the new settings and not by those of the start it undoes; and the
\* display whose rotation the callbacks read is there if they read it.
ResourcesMatch ==
  alive /\ mIsRunning /\ main # "cleanup" /\ ~Released =>
    /\ mDisplay = "live" <=> ~set.mirror
    /\ displays = (IF set.mirror THEN 0 ELSE 1)
    /\ listeners = (IF set.clip THEN 1 ELSE 0)
    /\ forceNull = set.cursor

\* Until it is first told to quit, a service that says it is running has a server,
\* or one that is about to be, or one that has failed and is on its way to report it:
\* a server never fails to start, or dies of an exception, without being noticed.
RunningUntilRestart ==
  alive /\ mIsRunning /\ ~gCaughtSignal =>
    \E t \in Threads : \/ pc[t] \in Starting \cup Serving
                       \/ ret[t] # 0 /\ pc[t] \in Ending \cup Reporting

\* How many steps a thread has left at most, from the head of its loop.
StepsLeft ==
  [loop |-> 11, end |-> 10, endProps |-> 9, endSet |-> 8, drop |-> 7, forget |-> 6,
   close |-> 5, report |-> 4, release |-> 3, stop |-> 2, throw |-> 1, done |-> 0]

\* A server that was told to quit never serves again once it is back at the head of
\* its loop: whatever restarts, callbacks and the ends of others do meanwhile, each of
\* its steps takes it nearer to its end, on the way to which it gives up the name.
QuitNears ==
  [][\A t \in Threads :
       gCaughtSignal /\ pc[t] \in DOMAIN StepsLeft /\ pc'[t] # pc[t] =>
         pc'[t] \in DOMAIN StepsLeft /\ StepsLeft[pc'[t]] < StepsLeft[pc[t]]]_vars

\* "VNCFlinger already running": what onStartCommand finds running has a server
\* thread that has not ended.
RunningServes ==
  alive /\ mIsRunning /\ main = "idle" =>
    \E t \in Threads : pc[t] \notin {"none", "done"}
=============================================================================

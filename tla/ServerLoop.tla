----------------------------- MODULE ServerLoop -----------------------------
(***************************************************************************)
(* The VNC server loop of VNCFlinger and the threads that feed it.         *)
(*                                                                         *)
(* One thread runs startService: it selects on an eventfd, the listening   *)
(* socket and the clients, serves the clients, and when the eventfd was    *)
(* readable runs processCursor, processFrames and processClipboard.  Java  *)
(* threads change the cursor and the clipboard and binder threads deliver  *)
(* frames; each of them writes a flag of AndroidDesktop and then the       *)
(* eventfd.  Nothing but the eventfd synchronises them with the server     *)
(* thread (mLock is only ever taken by the server thread), so every access *)
(* to a shared field is a step of its own here.                            *)
(*                                                                         *)
(* TigerVNC's VNCServerST is not part of the repository.  Of it the module *)
(* keeps what the repository relies on: the first client to complete the   *)
(* handshake starts the desktop and is closed if the desktop then has no   *)
(* pixel buffer, and the desktop is stopped once a removed client leaves   *)
(* none ready, or the server is destroyed.                                 *)
(***************************************************************************)
EXTENDS Integers, FiniteSets

CONSTANTS
  Clients,   \* VNC clients; one that left may connect again
  Binders,   \* binder threads that run onFrameAvailable
  Cursors,   \* the cursor shapes Java may set
  NoCursor   \* no cursor was set yet

ASSUME ConstantsAssumption ==
  /\ NoCursor \notin Cursors
  /\ IsFiniteSet(Clients)

VARIABLES
  pc,                \* where the server thread is
  gCaughtSignal,     \* set by quit
  sock,              \* the connection of each client
  input,             \* clients whose socket holds unread bytes
  rfds,              \* what select found readable and is not handled yet
  eventFd,           \* the eventfd's counter is not zero
  mServer,           \* AndroidDesktop's pointer to the server
  mPixels,           \* the pixel buffer exists
  mVirtualDisplay,   \* the virtual display exists
  queued,            \* a frame waits in the virtual display's queue
  frameChanged, cursorChanged, clipboardChanged,
  binder,            \* progress of each binder thread
  cursorPc,          \* progress of the Java thread inside setCursor
  clipPc,            \* progress of the Java thread inside notifyClipboardChanged
  cur,               \* the cur_* fields, which are not written at once
  got,               \* the part of cur the server thread read first
  goal,              \* history: the cursor Java asked for last
  sent,              \* the cursor the VNC server was given last
  clipDue            \* history: ready clients not told of a clipboard change

serverVars  == <<pc, gCaughtSignal, rfds, eventFd>>
clientVars  == <<sock, input>>
desktopVars == <<mServer, mPixels, mVirtualDisplay>>
frameVars   == <<queued, frameChanged, binder>>
cursorVars  == <<cursorChanged, cursorPc, cur, got, goal, sent>>
clipVars    == <<clipboardChanged, clipPc, clipDue>>
vars == <<serverVars, clientVars, desktopVars, frameVars, cursorVars, clipVars>>

Shapes == Cursors \cup {NoCursor}
Pair(k) == [size |-> k, buffer |-> k]

CursorPcs == {"cursorCheck", "cursorClear", "cursorRead", "cursorSend"}
FramePcs  == {"frameCheck", "frameClear", "frameUpdate", "frameLock"}
ClipPcs   == {"clipCheck", "clipClear", "clipSend"}
Pcs == {"top", "select", "accept", "clients", "exited", "crashed"}
         \cup CursorPcs \cup FramePcs \cup ClipPcs

Running == pc \notin {"exited", "crashed"}
Ready   == {c \in Clients : sock[c] = "ready"}
Open    == {c \in Clients : sock[c] \in {"handshake", "ready"}}
Sockets == {c \in Clients : sock[c] \in {"handshake", "ready", "shutdown"}}

\* desktopSetup has made the desktop (its constructor leaves mServer as the
\* allocator returned it) and startService is about to enter the loop.
Init ==
  /\ pc = "top" /\ gCaughtSignal = FALSE /\ rfds = {} /\ eventFd = FALSE
  /\ sock = [c \in Clients |-> "none"] /\ input = {}
  /\ mServer \in {"zero", "garbage"} /\ mPixels = FALSE /\ mVirtualDisplay = FALSE
  /\ queued = FALSE /\ frameChanged = FALSE /\ binder = [b \in Binders |-> "idle"]
  /\ cursorChanged = FALSE /\ cursorPc = "idle" /\ cur = Pair(NoCursor)
  /\ got = NoCursor /\ goal = NoCursor /\ sent = Pair(NoCursor)
  /\ clipboardChanged = FALSE /\ clipPc = "idle" /\ clipDue = {}

-----------------------------------------------------------------------------
(***************************************************************************)
(* AndroidDesktop: what the server thread does to it.                      *)
(***************************************************************************)

\* stop: the display and its queue, and the pixel buffer, are released;
\* mServer and the flags stay.
StopDesktop ==
  /\ mPixels' = FALSE /\ mVirtualDisplay' = FALSE /\ queued' = FALSE
  /\ UNCHANGED <<mServer, frameChanged, binder>>

\* onBufferDimensionsChanged: the display is replaced, with its queue.
RecreateDisplay ==
  /\ mVirtualDisplay' = TRUE /\ queued' = FALSE
  /\ UNCHANGED <<mServer, mPixels, frameChanged, binder>>

\* start: a new pixel buffer, and a display unless updateDisplayInfo fails.
StartDesktop(ok) ==
  /\ mServer' = "server" /\ mPixels' = TRUE
  /\ mVirtualDisplay' = ok /\ queued' = FALSE
  /\ UNCHANGED <<frameChanged, binder>>

-----------------------------------------------------------------------------
(***************************************************************************)
(* The server thread.                                                      *)
(***************************************************************************)

\* Fault: any departure stops the desktop.
ReapStopsAlways(gone) ==
  /\ sock'  = [c \in Clients |-> IF c \in gone THEN "none" ELSE sock[c]]
  /\ input' = input \ gone
  /\ IF gone # {} /\ mVirtualDisplay
       THEN StopDesktop
       ELSE UNCHANGED <<desktopVars, frameVars>>

\* removeSocket: the desktop is stopped when no authenticated client is left.
Reap(gone) ==
  /\ sock'  = [c \in Clients |-> IF c \in gone THEN "none" ELSE sock[c]]
  /\ input' = input \ gone
  /\ IF gone # {} /\ Ready = {} /\ mVirtualDisplay
       THEN StopDesktop
       ELSE UNCHANGED <<desktopVars, frameVars>>

\* The head of the loop: sockets that were shut down are removed.
Top ==
  /\ pc = "top" /\ ~gCaughtSignal
  /\ Reap({c \in Clients : sock[c] = "shutdown"})
  /\ pc' = "select"
  /\ UNCHANGED <<gCaughtSignal, rfds, eventFd, cursorVars, clipVars>>

\* The server object is destroyed with its clients, which stops the desktop,
\* and the global reference to the desktop is dropped.
Leave ==
  /\ pc' = "exited" /\ rfds' = {}
  /\ sock' = [c \in Clients |-> "none"] /\ input' = {} /\ clipDue' = {}
  /\ StopDesktop
  /\ UNCHANGED <<gCaughtSignal, eventFd, cursorVars, clipboardChanged, clipPc>>

Exit == pc = "top" /\ gCaughtSignal /\ Leave

Pending  == {c \in Clients : sock[c] = "pending"}
Readable == (input \cap Open) \cup (IF Pending = {} THEN {} ELSE {"listen"})

\* select returns as soon as the eventfd, the listener or a client is readable.
Select ==
  /\ pc = "select"
  /\ eventFd \/ Readable # {}
  /\ rfds' = Readable
  /\ pc' = "accept"
  /\ UNCHANGED <<gCaughtSignal, eventFd, clientVars, desktopVars, frameVars,
                 cursorVars, clipVars>>

\* With nothing readable select may still return: a signal (the loop starts
\* over) or a timer of the VNC library (it goes on with nothing to read).
SelectReturnsEarly ==
  /\ pc = "select"
  /\ ~eventFd /\ Readable = {}
  /\ pc' \in {"top", "accept"}
  /\ UNCHANGED <<gCaughtSignal, rfds, eventFd, clientVars, desktopVars, frameVars,
                 cursorVars, clipVars>>

\* select itself fails: startService throws, and ends.
SelectFails == pc = "select" /\ Leave

\* Clients whose connection is closed no longer wait for the clipboard.
Close(gone) == clipDue' = clipDue \ gone

\* Fault: with no client the loop reads the eventfd before it starts over, so
\* that select blocks, and forgets what the event was about.
AcceptDrains ==
  /\ pc = "accept"
  /\ \E new \in IF "listen" \in rfds THEN {{c} : c \in Pending} ELSE {{}},
        verdict \in {"handshake", "shutdown"} :
       /\ sock' = [c \in Clients |-> IF c \in new THEN verdict ELSE sock[c]]
       /\ pc' = IF Sockets \cup new = {} THEN "top" ELSE "clients"
       /\ eventFd' = (eventFd /\ Sockets \cup new # {})
  /\ rfds' = rfds \cap Clients
  /\ UNCHANGED <<gCaughtSignal, input, desktopVars, frameVars, cursorVars, clipVars>>

\* Fault: the loop starts over when it has accepted a connection.
AcceptStartsOver ==
  /\ pc = "accept"
  /\ \E new \in IF "listen" \in rfds THEN {{c} : c \in Pending} ELSE {{}},
        verdict \in {"handshake", "shutdown"} :
       /\ sock' = [c \in Clients |-> IF c \in new THEN verdict ELSE sock[c]]
       /\ rfds' = rfds \cap Clients
       /\ pc' = IF Sockets = {} \/ new # {} THEN "top" ELSE "clients"
  /\ UNCHANGED <<gCaughtSignal, eventFd, input, desktopVars, frameVars, cursorVars,
                 clipVars>>

\* One connection is accepted if the listener was readable (addSocket may
\* refuse it), timers may close an idle client, and the loop starts over if
\* there is no client.
Accept ==
  /\ pc = "accept"
  /\ \E new \in IF "listen" \in rfds THEN {{c} : c \in Pending} ELSE {{}},
        idle \in {{}} \cup {{c} : c \in Open},
        verdict \in {"handshake", "shutdown"} :
       /\ sock' = [c \in Clients |-> IF c \in new THEN verdict
                                     ELSE IF c \in idle THEN "shutdown" ELSE sock[c]]
       /\ rfds' = (rfds \cap Clients) \ idle
       /\ Close(idle)
       /\ pc' = IF Sockets \cup new = {} THEN "top" ELSE "clients"
  /\ UNCHANGED <<gCaughtSignal, eventFd, input, desktopVars, frameVars, cursorVars,
                 clipboardChanged, clipPc>>

\* accept itself fails: the listener throws and startService ends.
AcceptFails == pc = "accept" /\ "listen" \in rfds /\ Leave

\* What a readable client may have sent.
CompletesHandshake(c) ==
  /\ sock[c] = "handshake"
  /\ IF mVirtualDisplay
       THEN /\ sock' = [sock EXCEPT ![c] = "ready"]
            /\ UNCHANGED <<desktopVars, frameVars>>
       ELSE \E ok \in BOOLEAN :
              /\ StartDesktop(ok)
              /\ sock' = [sock EXCEPT ![c] = IF ok THEN "ready" ELSE "shutdown"]
  /\ UNCHANGED clipDue

Resizes(c) ==
  /\ sock[c] = "ready"
  /\ RecreateDisplay
  /\ UNCHANGED <<sock, clipDue>>

SendsMessage(c) ==
  /\ sock[c] \in {"handshake", "ready"}
  /\ UNCHANGED <<sock, desktopVars, frameVars, clipDue>>

Leaves(c) ==
  /\ sock' = [sock EXCEPT ![c] = "shutdown"]
  /\ Close({c})
  /\ UNCHANGED <<desktopVars, frameVars>>

\* processSocketReadEvent for one readable client.
ServeClient(c) ==
  /\ pc = "clients" /\ c \in rfds
  /\ rfds' = rfds \ {c} /\ input' = input \ {c}
  /\ CompletesHandshake(c) \/ Resizes(c) \/ SendsMessage(c) \/ Leaves(c)
  /\ UNCHANGED <<pc, gCaughtSignal, eventFd, cursorVars, clipboardChanged, clipPc>>

\* All readable clients are served: the eventfd is read, which resets it.
ReadEvent ==
  /\ pc = "clients" /\ rfds = {}
  /\ eventFd' = FALSE
  /\ pc' = IF eventFd THEN "cursorCheck" ELSE "top"
  /\ UNCHANGED <<gCaughtSignal, rfds, clientVars, desktopVars, frameVars,
                 cursorVars, clipVars>>

Goto(from, to) ==
  /\ pc = from /\ pc' = to
  /\ UNCHANGED <<gCaughtSignal, rfds, eventFd, clientVars, desktopVars>>

\* Fault: the rest of the pass is skipped when the cursor did not change.
CheckCursorOnly ==
  /\ Goto("cursorCheck", IF cursorChanged THEN "cursorClear" ELSE "top")
  /\ UNCHANGED <<frameVars, cursorVars, clipVars>>

\* processCursor: the flag is tested, cleared, and the fields are read; the
\* call goes through mServer whether or not start has set it.
CheckCursor ==
  /\ Goto("cursorCheck", IF cursorChanged THEN "cursorClear" ELSE "frameCheck")
  /\ UNCHANGED <<frameVars, cursorVars, clipVars>>

ClearCursor ==
  /\ Goto("cursorClear", "cursorRead")
  /\ cursorChanged' = FALSE
  /\ UNCHANGED <<frameVars, cursorPc, cur, got, goal, sent, clipVars>>

ReadCursor ==
  /\ Goto("cursorRead", IF mServer = "server" THEN "cursorSend" ELSE "crashed")
  /\ got' = cur.size
  /\ UNCHANGED <<frameVars, cursorChanged, cursorPc, cur, goal, sent, clipVars>>

\* Fault: the cursor is looked at until it no longer changes.
SendCursorAgain ==
  /\ Goto("cursorSend", "cursorCheck")
  /\ sent' = [size |-> got, buffer |-> cur.buffer]
  /\ UNCHANGED <<frameVars, cursorChanged, cursorPc, cur, got, goal, clipVars>>

\* Fault: the flag is cleared when the cursor has been sent.
SendCursorClears ==
  /\ Goto("cursorSend", "frameCheck")
  /\ sent' = [size |-> got, buffer |-> cur.buffer]
  /\ cursorChanged' = FALSE
  /\ UNCHANGED <<frameVars, cursorPc, cur, got, goal, clipVars>>

SendCursor ==
  /\ Goto("cursorSend", "frameCheck")
  /\ sent' = [size |-> got, buffer |-> cur.buffer]
  /\ UNCHANGED <<frameVars, cursorChanged, cursorPc, cur, got, goal, clipVars>>

\* Fault: the clipboard is not looked at when there is no frame.
CheckFrameOnly ==
  /\ Goto("frameCheck", IF mVirtualDisplay /\ mPixels /\ frameChanged
                          THEN "frameClear" ELSE "top")
  /\ UNCHANGED <<frameVars, cursorVars, clipVars>>

\* processFrames: nothing without a display and a pixel buffer.
CheckFrame ==
  /\ Goto("frameCheck", IF mVirtualDisplay /\ mPixels /\ frameChanged
                          THEN "frameClear" ELSE "clipCheck")
  /\ UNCHANGED <<frameVars, cursorVars, clipVars>>

ClearFrame ==
  /\ Goto("frameClear", "frameUpdate")
  /\ frameChanged' = FALSE
  /\ UNCHANGED <<queued, binder, cursorVars, clipVars>>

\* Fault: the pass ends when the display's state cannot be read.
UpdateDisplayReturns ==
  /\ pc = "frameUpdate" /\ pc' \in {"frameLock", "clipCheck"}
  /\ RecreateDisplay \/ UNCHANGED <<desktopVars, frameVars>>
  /\ UNCHANGED <<gCaughtSignal, rfds, eventFd, clientVars, cursorVars, clipVars>>

\* updateDisplayInfo: a changed display size or rotation replaces the display.
UpdateDisplay ==
  /\ pc = "frameUpdate" /\ pc' = "frameLock"
  /\ RecreateDisplay \/ UNCHANGED <<desktopVars, frameVars>>
  /\ UNCHANGED <<gCaughtSignal, rfds, eventFd, clientVars, cursorVars, clipVars>>

\* Fault: frames are taken as long as there are any.
LockFrameAgain ==
  /\ Goto("frameLock", "frameCheck")
  /\ queued' = FALSE
  /\ UNCHANGED <<frameChanged, binder, cursorVars, clipVars>>

\* lockNextBuffer takes the queued frame, if there is one, for the clients.
LockFrame ==
  /\ Goto("frameLock", "clipCheck")
  /\ queued' = FALSE
  /\ UNCHANGED <<frameChanged, binder, cursorVars, clipVars>>

\* processClipboard: here mServer is tested, but only against NULL.
CheckClip ==
  /\ Goto("clipCheck", IF clipboardChanged THEN "clipClear" ELSE "top")
  /\ UNCHANGED <<frameVars, cursorVars, clipVars>>

ClearClip ==
  /\ Goto("clipClear", "clipSend")
  /\ clipboardChanged' = FALSE
  /\ UNCHANGED <<frameVars, cursorVars, clipPc, clipDue>>

AnnounceClip ==
  /\ Goto("clipSend", IF mServer = "garbage" THEN "crashed" ELSE "top")
  /\ clipDue' = IF mServer = "server" THEN {} ELSE clipDue
  /\ UNCHANGED <<frameVars, cursorVars, clipboardChanged, clipPc>>

\* Every step of the server thread that the scheduler owes it.
ServerStep ==
  \/ Top \/ Exit \/ Select \/ Accept \/ AcceptFails
  \/ \E c \in Clients : ServeClient(c)
  \/ ReadEvent
  \/ CheckCursor \/ ClearCursor \/ ReadCursor \/ SendCursor
  \/ CheckFrame \/ ClearFrame \/ UpdateDisplay \/ LockFrame
  \/ CheckClip \/ ClearClip \/ AnnounceClip

-----------------------------------------------------------------------------
(***************************************************************************)
(* The other threads.  A Java thread tests the global desktop reference    *)
(* once, before it calls into the desktop.                                 *)
(***************************************************************************)

SetEvent == eventFd' = TRUE

\* setCursor writes the size, the buffer and the hot spot, the flag, the eventfd.
SetCursor(k) ==
  /\ Running /\ cursorPc = "idle"
  /\ goal' = k /\ cur' = [cur EXCEPT !.size = k]
  /\ cursorPc' = "buffer"
  /\ UNCHANGED <<serverVars, clientVars, desktopVars, frameVars, cursorChanged,
                 got, sent, clipVars>>

SetCursorBuffer ==
  /\ Running /\ cursorPc = "buffer"
  /\ cur' = [cur EXCEPT !.buffer = goal]
  /\ cursorPc' = "flag"
  /\ UNCHANGED <<serverVars, clientVars, desktopVars, frameVars, cursorChanged,
                 got, goal, sent, clipVars>>

SetCursorFlag ==
  /\ Running /\ cursorPc = "flag"
  /\ cursorChanged' = TRUE
  /\ cursorPc' = "notify"
  /\ UNCHANGED <<serverVars, clientVars, desktopVars, frameVars, cur, got, goal,
                 sent, clipVars>>

\* Fault: the eventfd is not written.
NotifyCursorNot ==
  /\ Running /\ cursorPc = "notify"
  /\ cursorPc' = "idle"
  /\ UNCHANGED <<serverVars, clientVars, desktopVars, frameVars, cursorChanged,
                 cur, got, goal, sent, clipVars>>

NotifyCursor ==
  /\ Running /\ cursorPc = "notify"
  /\ SetEvent
  /\ cursorPc' = "idle"
  /\ UNCHANGED <<pc, gCaughtSignal, rfds, clientVars, desktopVars, frameVars,
                 cursorChanged, cur, got, goal, sent, clipVars>>

\* notifyClipboardChanged: the flag, then the eventfd.
ChangeClip ==
  /\ Running /\ clipPc = "idle"
  /\ clipDue' = clipDue \cup Ready
  /\ clipPc' = "flag"
  /\ UNCHANGED <<serverVars, clientVars, desktopVars, frameVars, cursorVars,
                 clipboardChanged>>

SetClipFlag ==
  /\ Running /\ clipPc = "flag"
  /\ clipboardChanged' = TRUE
  /\ clipPc' = "notify"
  /\ UNCHANGED <<serverVars, clientVars, desktopVars, frameVars, cursorVars, clipDue>>

NotifyClip ==
  /\ Running /\ clipPc = "notify"
  /\ SetEvent
  /\ clipPc' = "idle"
  /\ UNCHANGED <<pc, gCaughtSignal, rfds, clientVars, desktopVars, frameVars,
                 cursorVars, clipboardChanged, clipDue>>

\* The server ended between the thread's test of the global desktop and its
\* use: the thread works on a freed object, and may bring the process down.
UseFreedDesktop ==
  /\ pc = "exited"
  /\ \/ cursorPc # "idle" /\ cursorPc' = "idle" /\ UNCHANGED clipPc
     \/ clipPc # "idle" /\ clipPc' = "idle" /\ UNCHANGED cursorPc
  /\ pc' \in {"exited", "crashed"}
  /\ UNCHANGED <<gCaughtSignal, rfds, eventFd, clientVars, desktopVars, frameVars,
                 cursorChanged, cur, got, goal, sent, clipboardChanged, clipDue>>

\* A frame is queued.  The producer runs in asynchronous mode: a frame that is
\* still waiting is replaced and only a first one is reported.
QueueFrame(b) ==
  /\ Running /\ mVirtualDisplay /\ ~queued
  /\ binder[b] = "idle"
  /\ queued' = TRUE
  /\ binder' = [binder EXCEPT ![b] = "avail"]
  /\ UNCHANGED <<serverVars, clientVars, desktopVars, frameChanged, cursorVars, clipVars>>

\* onFrameAvailable: the flag, then the eventfd.  The queue holds a reference
\* to the desktop for the length of the call, which may outlast the server.
SetFrameFlag(b) ==
  /\ pc # "crashed" /\ binder[b] = "avail"
  /\ frameChanged' = TRUE
  /\ binder' = [binder EXCEPT ![b] = "notify"]
  /\ UNCHANGED <<serverVars, clientVars, desktopVars, queued, cursorVars, clipVars>>

NotifyFrame(b) ==
  /\ pc # "crashed" /\ binder[b] = "notify"
  /\ SetEvent
  /\ binder' = [binder EXCEPT ![b] = "idle"]
  /\ UNCHANGED <<pc, gCaughtSignal, rfds, clientVars, desktopVars, queued,
                 frameChanged, cursorVars, clipVars>>

\* quit: a flag; nothing wakes select.
Quit ==
  /\ pc # "crashed"
  /\ gCaughtSignal' = TRUE
  /\ UNCHANGED <<pc, rfds, eventFd, clientVars, desktopVars, frameVars, cursorVars,
                 clipVars>>

\* The peers.  Closing the peer's end also makes the socket readable.
Connect(c) ==
  /\ Running /\ sock[c] = "none"
  /\ sock' = [sock EXCEPT ![c] = "pending"]
  /\ UNCHANGED <<serverVars, input, desktopVars, frameVars, cursorVars, clipVars>>

PeerSends(c) ==
  /\ Running /\ c \in Open
  /\ input' = input \cup {c}
  /\ UNCHANGED <<serverVars, sock, desktopVars, frameVars, cursorVars, clipVars>>

CursorStep == SetCursorBuffer \/ SetCursorFlag \/ NotifyCursor
ClipStep   == SetClipFlag \/ NotifyClip
BinderStep(b) == SetFrameFlag(b) \/ NotifyFrame(b)

Environment ==
  \/ SelectReturnsEarly \/ SelectFails \/ Quit \/ ChangeClip \/ UseFreedDesktop
  \/ \E k \in Cursors : SetCursor(k)
  \/ \E b \in Binders : QueueFrame(b)
  \/ \E c \in Clients : Connect(c) \/ PeerSends(c)

Next ==
  \/ ServerStep
  \/ CursorStep \/ ClipStep
  \/ \E b \in Binders : BinderStep(b)
  \/ Environment

Spec == Init /\ [][Next]_vars

\* The scheduler runs every thread that has begun something; nobody has to
\* connect, to send, to draw, to copy or to quit.
FairSpec ==
  /\ Spec
  /\ WF_vars(ServerStep) /\ WF_vars(CursorStep) /\ WF_vars(ClipStep)
  /\ \A b \in Binders : WF_vars(BinderStep(b))

-----------------------------------------------------------------------------
(***************************************************************************)
(* Properties.                                                             *)
(***************************************************************************)

ServerTypes ==
  /\ pc \in Pcs
  /\ gCaughtSignal \in BOOLEAN /\ eventFd \in BOOLEAN
  /\ rfds \subseteq Clients \cup {"listen"}

ClientTypes ==
  /\ sock \in [Clients -> {"none", "pending", "handshake", "ready", "shutdown"}]
  /\ input \subseteq Clients

DesktopTypes ==
  /\ mServer \in {"zero", "garbage", "server"}
  /\ mPixels \in BOOLEAN /\ mVirtualDisplay \in BOOLEAN

FrameTypes ==
  /\ queued \in BOOLEAN /\ frameChanged \in BOOLEAN
  /\ binder \in [Binders -> {"idle", "avail", "notify"}]

CursorTypes ==
  /\ cursorChanged \in BOOLEAN
  /\ cursorPc \in {"idle", "buffer", "flag", "notify"}
  /\ cur \in [size : Shapes, buffer : Shapes]
  /\ sent \in [size : Shapes, buffer : Shapes]
  /\ got \in Shapes /\ goal \in Shapes

ClipTypes ==
  /\ clipboardChanged \in BOOLEAN
  /\ clipPc \in {"idle", "flag", "notify"}
  /\ clipDue \subseteq Clients

\* The values the variables may take, whatever the threads do.
TypeOK ==
  /\ ServerTypes /\ ClientTypes /\ DesktopTypes
  /\ FrameTypes /\ CursorTypes /\ ClipTypes

\* While a client is ready the server thread finds what its key, pointer and
\* resize events dereference: the server, the pixel buffer, the display.
DesktopUsable ==
  Ready # {} => mServer = "server" /\ mPixels /\ mVirtualDisplay

BeforeFrames == CursorPcs \cup {"frameCheck"}
BeforeClip   == CursorPcs \cup FramePcs \cup {"clipCheck"}

\* The server thread knows of the cursor, the frame, the clipboard change: it is
\* about to read it, or the flag is up and the eventfd, or the rest of this
\* pass, will make the thread look at it.
CursorNoticed ==
  \/ pc \in {"cursorClear", "cursorRead"}
  \/ pc = "cursorSend" /\ got = goal
  \/ cursorChanged /\ (eventFd \/ pc = "cursorCheck")

FrameNoticed ==
  \/ pc \in {"frameClear", "frameUpdate", "frameLock"}
  \/ frameChanged /\ (eventFd \/ pc \in BeforeFrames)

ClipNoticed ==
  \/ pc \in {"clipClear", "clipSend"}
  \/ clipboardChanged /\ (eventFd \/ pc \in BeforeClip)

\* A cursor the VNC server was not given, or was given half of (the size of
\* one and the pixels of another), is never forgotten: a thread is still on
\* its way to say so, or the server thread knows.
CursorNotLost ==
  Running /\ sent # Pair(goal) =>
    \/ cursorPc \in {"buffer", "flag"}
    \/ cursorChanged /\ cursorPc = "notify"
    \/ CursorNoticed

\* The same of a frame that waits in the queue: were it forgotten no other
\* frame would ever be reported, as later ones only replace it.
FrameNotLost ==
  Running /\ queued =>
    \/ \E b \in Binders : binder[b] = "avail"
    \/ frameChanged /\ \E b \in Binders : binder[b] = "notify"
    \/ FrameNoticed

\* The same of a clipboard change made while a client was ready that is still
\* connected.
ClipNotLost ==
  Running /\ clipDue # {} =>
    \/ clipPc = "flag"
    \/ clipboardChanged /\ clipPc = "notify"
    \/ ClipNoticed

\* The places of the server thread in a pass of the loop, and how many of its
\* statements it has left until it is at one of them.
Place ==
  [top |-> 0, select |-> 1, accept |-> 2, clients |-> 3,
   cursorCheck |-> 4, cursorClear |-> 5, cursorRead |-> 6, cursorSend |-> 7,
   frameCheck |-> 8, frameClear |-> 9, frameUpdate |-> 10, frameLock |-> 11,
   clipCheck |-> 12, clipClear |-> 13, clipSend |-> 14]

StepsTo(to) ==
  IF Place[pc] <= Place[to] THEN Place[to] - Place[pc] ELSE (15 + Place[to]) - Place[pc]

\* From a cursor that changed under the server thread it is a pass to the next.
StepsToCursor ==
  StepsTo("cursorSend") + (IF pc = "cursorSend" /\ got # goal THEN 15 ELSE 0)

\* Each step of the server thread takes it nearer, from n statements to m or,
\* where it serves the clients, by one of a number that nobody adds to; no step
\* of another thread sets it back.
Nearer(n, m) ==
  IF ServerStep THEN m < n \/ (pc' = pc /\ rfds' \subseteq rfds /\ rfds' # rfds)
                ELSE UNCHANGED <<pc, rfds>>

\* The event that the server thread knows of is not put off for ever, whatever
\* the other threads and the clients do meanwhile, and whichever of the three
\* kinds of event, timers, departures or connections keep the loop busy.  A
\* cursor Java has written and not begun to replace, while somebody is
\* connected:
CursorNears ==
  [][sent # Pair(goal) /\ cursorPc \in {"notify", "idle"} /\ CursorNoticed =>
       \/ sent' = Pair(goal) \/ cursorPc' = "buffer" \/ Sockets' = {} \/ ~Running'
       \/ CursorNoticed' /\ Nearer(StepsToCursor, StepsToCursor')]_vars

\* A frame that waits in the queue:
FrameNears ==
  [][queued /\ FrameNoticed =>
       \/ ~queued' \/ ~Running'
       \/ FrameNoticed' /\ Nearer(StepsTo("frameLock"), StepsTo("frameLock")')]_vars

\* A clipboard change that a ready client waits for:
ClipNears ==
  [][clipDue # {} /\ ClipNoticed =>
       \/ clipDue' = {} \/ ~Running'
       \/ ClipNoticed' /\ Nearer(StepsTo("clipSend"), StepsTo("clipSend")')]_vars

\* A cursor Java has finished writing reaches the VNC server whole, unless
\* another one is begun, the clients leave or the server ends: one pass of the
\* loop is enough even if it interleaved with the writer.
CursorDelivered ==
  (sent # Pair(goal)) ~>
    (sent = Pair(goal) \/ cursorPc = "buffer" \/ Sockets = {} \/ ~Running)

\* A queued frame is taken for the clients or dropped with its display.
FrameDelivered == queued ~> (~queued \/ ~Running)

\* A ready client is told of a clipboard change, or leaves.
ClipDelivered ==
  \A c \in Clients : c \in clipDue ~> (c \notin clipDue \/ ~Running)

\* "Server instance": mServer is the server whenever the server thread
\* dereferences it.
ServerSetBeforeUse ==
  pc = "cursorRead" => mServer = "server"

\* "Nothing more to do if there are no client connections": the loop leaves
\* no event behind that would keep select from blocking.
IdleLoopDrains ==
  (eventFd /\ Sockets = {}) ~> (~eventFd \/ Sockets # {} \/ ~Running)
=============================================================================

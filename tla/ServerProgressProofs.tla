------------------------ MODULE ServerProgressProofs ------------------------
(***************************************************************************)
(* No event is put off for ever, for any clients, binder threads and       *)
(* cursors: what is left of the liveness of ServerLoop when the fairness   *)
(* of the scheduler is taken away.                                         *)
(***************************************************************************)
EXTENDS ServerLoopProofs

\* A display is only kept for somebody who is connected, or has just gone.
DisplayServed == mVirtualDisplay => Sockets # {}

\* Every step keeps it so.
LEMMA NextServed ==
  TypeOK /\ DisplayHeld /\ DisplayServed /\ [Next]_vars => DisplayServed'
<1> SUFFICES ASSUME TypeOK, DisplayHeld, DisplayServed, [Next]_vars PROVE DisplayServed'
  OBVIOUS
<1>1. ASSUME Sockets \subseteq Sockets', mVirtualDisplay' => mVirtualDisplay
      PROVE  DisplayServed'
  BY <1>1 DEF DisplayServed
<1>2. ASSUME UNCHANGED <<sock, mVirtualDisplay>> PROVE DisplayServed'
  BY <1>2 DEF DisplayServed, Sockets
<1>3. CASE Top
  <2> DEFINE gone == {c \in Clients : sock[c] = "shutdown"}
  <2>1. sock' = [c \in Clients |-> IF c \in gone THEN "none" ELSE sock[c]]
    BY <1>3 DEF Top, Reap
  <2>2. CASE gone # {} /\ Ready = {} /\ mVirtualDisplay
    BY <1>3, <2>2 DEF Top, Reap, StopDesktop, DisplayServed
  <2>3. CASE gone = {}
    <3>1. Sockets' = Sockets
      BY <2>1, <2>3 DEF Sockets
    <3> QED
      BY <1>1, <1>3, <2>3, <3>1 DEF Top, Reap, desktopVars
  <2>4. CASE Ready # {}
    <3>1. PICK c \in Clients : sock[c] = "ready"
      BY <2>4 DEF Ready
    <3>2. sock'[c] = "ready"
      BY <2>1, <3>1
    <3> QED
      BY <3>2 DEF DisplayServed, Sockets
  <2>5. CASE ~mVirtualDisplay
    BY <1>3, <2>5 DEF Top, Reap, DisplayServed, desktopVars
  <2> QED
    BY <2>2, <2>3, <2>4, <2>5
<1>4. CASE Exit \/ AcceptFails \/ SelectFails
  BY <1>4 DEF Exit, AcceptFails, SelectFails, Leave, StopDesktop, DisplayServed
<1>5. CASE Accept
  <2>1. PICK new \in IF "listen" \in rfds THEN {{c} : c \in Pending} ELSE {{}},
             idle \in {{}} \cup {{c} : c \in Open},
             verdict \in {"handshake", "shutdown"} :
          /\ sock' = [c \in Clients |-> IF c \in new THEN verdict
                                        ELSE IF c \in idle THEN "shutdown" ELSE sock[c]]
          /\ Close(idle)
    BY <1>5 DEF Accept
  <2>2. ASSUME NEW c \in Sockets PROVE c \in Sockets'
    <3>1. sock'[c] \in {"handshake", "shutdown", sock[c]}
      BY <2>1 DEF Sockets
    <3> QED
      BY <3>1 DEF Sockets
  <2> QED
    BY <1>1, <1>5, <2>2 DEF Accept, desktopVars
<1>6. ASSUME NEW c \in Clients, ServeClient(c) PROVE DisplayServed'
  <2>1. CASE CompletesHandshake(c) \/ Leaves(c)
    <3>1. sock'[c] \in {"ready", "shutdown"} \/ (sock'[c] = sock[c] /\ sock[c] = "handshake")
      BY <2>1 DEF CompletesHandshake, Leaves, TypeOK, ClientTypes
    <3> QED
      BY <3>1 DEF DisplayServed, Sockets
  <2>2. CASE Resizes(c)
    BY <2>2 DEF Resizes, DisplayServed, Sockets
  <2>3. CASE SendsMessage(c)
    BY <1>2, <2>3 DEF SendsMessage, desktopVars
  <2> QED
    BY <1>6, <2>1, <2>2, <2>3 DEF ServeClient
<1>7. CASE UpdateDisplay
  BY <1>7 DEF UpdateDisplay, DisplayHeld, DisplayServed, Sockets, clientVars
<1>8. ASSUME NEW c \in Clients, Connect(c) PROVE DisplayServed'
  <2>1. \A d \in Clients : sock[d] # "none" => sock'[d] = sock[d]
    BY <1>8 DEF Connect, TypeOK, ClientTypes
  <2>2. Sockets \subseteq Sockets'
    BY <2>1 DEF Sockets
  <2> QED
    BY <1>1, <1>8, <2>2 DEF Connect, desktopVars
<1>9. CASE \/ Select \/ SelectReturnsEarly \/ ReadEvent \/ Quit \/ UseFreedDesktop
           \/ CheckCursor \/ ClearCursor \/ ReadCursor \/ SendCursor
           \/ CheckFrame \/ ClearFrame \/ LockFrame
           \/ CheckClip \/ ClearClip \/ AnnounceClip
  BY <1>2, <1>9 DEF Select, SelectReturnsEarly, ReadEvent, Quit, UseFreedDesktop,
     CheckCursor, ClearCursor, ReadCursor, SendCursor, CheckFrame, ClearFrame,
     LockFrame, CheckClip, ClearClip, AnnounceClip, Goto, clientVars, desktopVars
<1>10. CASE CursorStep \/ ClipStep \/ ChangeClip
  BY <1>2, <1>10 DEF CursorStep, ClipStep, SetCursorBuffer, SetCursorFlag, NotifyCursor,
     SetClipFlag, NotifyClip, ChangeClip, clientVars, desktopVars
<1>11. ASSUME NEW b \in Binders, BinderStep(b) \/ QueueFrame(b) PROVE DisplayServed'
  BY <1>2, <1>11 DEF BinderStep, SetFrameFlag, NotifyFrame, QueueFrame, clientVars,
                     desktopVars
<1>12. ASSUME NEW k \in Cursors, SetCursor(k) PROVE DisplayServed'
  BY <1>2, <1>12 DEF SetCursor, clientVars, desktopVars
<1>13. ASSUME NEW c \in Clients, PeerSends(c) PROVE DisplayServed'
  BY <1>2, <1>13 DEF PeerSends, desktopVars
<1>14. CASE UNCHANGED vars
  BY <1>2, <1>14 DEF vars, clientVars, desktopVars
<1> QED
  BY <1>3, <1>4, <1>5, <1>6, <1>7, <1>8, <1>9, <1>10, <1>11, <1>12, <1>13, <1>14
     DEF Next, ServerStep, Environment

\* While there is a display the loop has somebody to serve, so that it reads
\* the eventfd and does not start over before.
THEOREM DisplayServedCorrect == Spec => []DisplayServed
<1>1. Init => DisplayServed
  BY DEF Init, DisplayServed
<1> QED
  BY <1>1, NextServed, TypeCorrect, ShapeCorrect, PTL DEF Spec
-----------------------------------------------------------------------------
(***************************************************************************)
(* The steps of the other threads.                                         *)
(***************************************************************************)

\* Another thread leaves the server thread where it is.  It may raise the
\* eventfd and the flags, and lowers none of them; select returns early only
\* without an event.
LEMMA OthersLeaveServer ==
  ASSUME TypeOK, [Next]_vars, ~ServerStep, Running'
  PROVE  \/ pc = "select" /\ ~eventFd
         \/ /\ UNCHANGED <<pc, rfds, got, sent>>
            /\ eventFd => eventFd'
            /\ frameChanged => frameChanged'
            /\ cursorChanged => cursorChanged'
            /\ clipboardChanged => clipboardChanged'
            /\ UNCHANGED goal \/ cursorPc' = "buffer"
<1>1. CASE SelectReturnsEarly \/ SelectFails
  BY <1>1 DEF SelectReturnsEarly, SelectFails, Leave, Running
<1>2. CASE UseFreedDesktop
  BY <1>2 DEF UseFreedDesktop, Running
<1>3. CASE Quit \/ ChangeClip \/ CursorStep \/ ClipStep
  BY <1>3 DEF Quit, ChangeClip, CursorStep, ClipStep, SetCursorBuffer, SetCursorFlag,
     NotifyCursor, SetClipFlag, NotifyClip, SetEvent, serverVars, frameVars, cursorVars,
     clipVars
<1>4. ASSUME NEW b \in Binders, BinderStep(b) \/ QueueFrame(b)
      PROVE  UNCHANGED <<pc, rfds, cursorVars, clipVars>> /\ (eventFd => eventFd')
             /\ (frameChanged => frameChanged')
  BY <1>4 DEF BinderStep, SetFrameFlag, NotifyFrame, QueueFrame, SetEvent, serverVars
<1>5. ASSUME NEW k \in Cursors, SetCursor(k)
      PROVE  UNCHANGED <<serverVars, frameVars, cursorChanged, got, sent, clipVars>>
             /\ cursorPc' = "buffer"
  BY <1>5 DEF SetCursor
<1>6. ASSUME NEW c \in Clients, Connect(c) \/ PeerSends(c)
      PROVE  UNCHANGED <<serverVars, frameVars, cursorVars, clipVars>>
  BY <1>6 DEF Connect, PeerSends
<1>7. CASE UNCHANGED vars
  BY <1>7 DEF vars, serverVars, frameVars, cursorVars, clipVars
<1> QED
  BY <1>1, <1>2, <1>3, <1>4, <1>5, <1>6, <1>7
     DEF Next, Environment, serverVars, frameVars, cursorVars, clipVars

-----------------------------------------------------------------------------
(***************************************************************************)
(* The steps of the server thread.  A pass goes forward through its        *)
(* places, and what it passes comes again only in the next.                *)
(***************************************************************************)

\* The places in order.
LEMMA Places ==
  /\ Place["top"] = 0 /\ Place["select"] = 1 /\ Place["accept"] = 2
  /\ Place["clients"] = 3 /\ Place["cursorCheck"] = 4 /\ Place["cursorClear"] = 5
  /\ Place["cursorRead"] = 6 /\ Place["cursorSend"] = 7 /\ Place["frameCheck"] = 8
  /\ Place["frameClear"] = 9 /\ Place["frameUpdate"] = 10 /\ Place["frameLock"] = 11
  /\ Place["clipCheck"] = 12 /\ Place["clipClear"] = 13 /\ Place["clipSend"] = 14
  BY DEF Place

\* A step forward that does not pass a place is a step nearer to it.
LEMMA ForwardIsNearer ==
  ASSUME NEW to \in DOMAIN Place, pc \in DOMAIN Place, pc' \in DOMAIN Place,
         \/ Place[pc] < Place[pc'] /\ (Place[pc'] <= Place[to] \/ Place[to] < Place[pc])
         \/ pc' = "top" /\ Place[to] < Place[pc]
  PROVE  StepsTo(to)' < StepsTo(to)
<1>1. \A p \in DOMAIN Place : Place[p] \in 0..14
  BY DEF Place
<1>2. Place["top"] = 0
  BY Places
<1> DEFINE n == Place[to]
           i == Place[pc]
           j == Place[pc']
<1>3. n \in 0..14 /\ i \in 0..14 /\ j \in 0..14
  BY <1>1
<1>4. (i < j /\ (j <= n \/ n < i)) \/ (j = 0 /\ n < i)
  BY <1>2
<1>5. /\ StepsTo(to) = (IF i <= n THEN n - i ELSE (15 + n) - i)
      /\ StepsTo(to)' = (IF j <= n THEN n - j ELSE (15 + n) - j)
  BY DEF StepsTo
<1> HIDE DEF n, i, j
<1> QED
  BY <1>3, <1>4, <1>5

\* With somebody connected and an event to read, the server thread serves one
\* more client or goes to a later place, or from the end of the pass to the top.
LEMMA PassGoesForward ==
  ASSUME TypeOK, ServerStep, Running', eventFd \/ pc # "clients", Sockets' # {}
  PROVE  /\ pc \in DOMAIN Place /\ pc' \in DOMAIN Place
         /\ \/ pc' = pc /\ pc = "clients" /\ rfds' \subseteq rfds /\ rfds' # rfds
            \/ Place[pc] < Place[pc']
            \/ pc' = "top" /\ 12 <= Place[pc]
<1>1. CASE Top \/ Select
  BY <1>1, Places DEF Top, Select, Place
<1>2. CASE Exit \/ AcceptFails \/ SelectFails
  BY <1>2 DEF Exit, AcceptFails, SelectFails, Leave, Running
<1>3. CASE Accept
  <2>1. PICK new \in IF "listen" \in rfds THEN {{c} : c \in Pending} ELSE {{}},
             idle \in {{}} \cup {{c} : c \in Open},
             verdict \in {"handshake", "shutdown"} :
          /\ sock' = [c \in Clients |-> IF c \in new THEN verdict
                                        ELSE IF c \in idle THEN "shutdown" ELSE sock[c]]
          /\ rfds' = (rfds \cap Clients) \ idle
          /\ Close(idle)
          /\ pc' = IF Sockets \cup new = {} THEN "top" ELSE "clients"
    BY <1>3 DEF Accept
  <2>2. PICK d \in Clients : sock'[d] \in {"handshake", "ready", "shutdown"}
    BY DEF Sockets
  <2>3. d \in new \/ d \in Sockets
    BY <2>1, <2>2 DEF Sockets, Open
  <2>4. pc' = "clients"
    BY <2>1, <2>3
  <2> QED
    BY <1>3, <2>4, Places DEF Accept, Place
<1>4. ASSUME NEW c \in Clients, ServeClient(c)
      PROVE  pc' = pc /\ pc = "clients" /\ rfds' \subseteq rfds /\ rfds' # rfds
  BY <1>4 DEF ServeClient
<1>5. CASE ReadEvent
  BY <1>5, Places DEF ReadEvent, Place
<1>6. CASE CheckCursor \/ ClearCursor \/ ReadCursor \/ SendCursor
  BY <1>6, Places DEF CheckCursor, ClearCursor, ReadCursor, SendCursor, Goto, Place, Running
<1>7. CASE CheckFrame \/ ClearFrame \/ UpdateDisplay \/ LockFrame
  BY <1>7, Places DEF CheckFrame, ClearFrame, UpdateDisplay, LockFrame, Goto, Place
<1>8. CASE CheckClip \/ ClearClip \/ AnnounceClip
  BY <1>8, Places DEF CheckClip, ClearClip, AnnounceClip, Goto, Place, Running
<1>9. "clients" \in DOMAIN Place
  BY DEF Place
<1> QED
  BY <1>1, <1>2, <1>3, <1>4, <1>5, <1>6, <1>7, <1>8, <1>9 DEF ServerStep

-----------------------------------------------------------------------------
(***************************************************************************)
(* Each kind of event in turn: the server thread goes on knowing of it,    *)
(* and does not pass the place where it handles it.                        *)
(***************************************************************************)

\* The server thread gets on to a frame.
LEMMA ServerNearsFrame ==
  ASSUME TypeOK, DesktopShape, DesktopShape', DisplayServed', ServerStep, Running',
         queued, queued', FrameNoticed
  PROVE  FrameNoticed' /\ Nearer(StepsTo("frameLock"), StepsTo("frameLock")')
<1>1. Sockets' # {}
  BY DEF DesktopShape, DisplayServed
<1>2. eventFd \/ pc # "clients"
  BY DEF FrameNoticed, BeforeFrames, CursorPcs
<1>3. FrameNoticed' /\ (Place[pc'] <= Place["frameLock"] \/ Place["frameLock"] < Place[pc])
  <2>1. CASE Top \/ Select \/ Accept
    BY <2>1, Places DEF Top, Reap, StopDesktop, Select, Accept, frameVars, FrameNoticed,
                        BeforeFrames, CursorPcs
  <2>2. CASE Exit \/ AcceptFails \/ SelectFails
    BY <2>2 DEF Exit, AcceptFails, SelectFails, Leave, Running
  <2>3. ASSUME NEW c \in Clients, ServeClient(c)
        PROVE  pc' = "clients" /\ pc = "clients" /\ UNCHANGED <<frameChanged, eventFd>>
    BY <2>3 DEF ServeClient, CompletesHandshake, StartDesktop, Resizes, RecreateDisplay,
                SendsMessage, Leaves, frameVars
  <2>4. CASE \E c \in Clients : ServeClient(c)
    BY <2>3, <2>4, Places DEF FrameNoticed, BeforeFrames, CursorPcs
  <2>5. CASE ReadEvent
    BY <2>5, Places DEF ReadEvent, frameVars, FrameNoticed, BeforeFrames, CursorPcs
  <2>6. CASE CheckCursor \/ ClearCursor \/ ReadCursor \/ SendCursor
    BY <2>6, Places DEF CheckCursor, ClearCursor, ReadCursor, SendCursor, Goto, frameVars,
                        Running, FrameNoticed, BeforeFrames, CursorPcs
  <2>7. CASE CheckFrame
    BY <2>7, Places DEF CheckFrame, Goto, DesktopShape, frameVars, FrameNoticed
  <2>8. CASE ClearFrame \/ UpdateDisplay
    BY <2>8, Places DEF ClearFrame, UpdateDisplay, Goto, FrameNoticed
  <2>9. CASE LockFrame
    BY <2>9 DEF LockFrame
  <2>10. CASE CheckClip \/ ClearClip \/ AnnounceClip
    BY <2>10, Places DEF CheckClip, ClearClip, AnnounceClip, Goto, frameVars, Running,
                         FrameNoticed, BeforeFrames, CursorPcs
  <2> QED
    BY <2>1, <2>2, <2>4, <2>5, <2>6, <2>7, <2>8, <2>9, <2>10 DEF ServerStep
<1>4. "frameLock" \in DOMAIN Place /\ Place["frameLock"] < 12
  BY Places DEF Place
<1>5. \A p \in DOMAIN Place : Place[p] \in Int
  BY DEF Place
<1> QED
  BY <1>1, <1>2, <1>3, <1>4, <1>5, PassGoesForward, ForwardIsNearer DEF Nearer

\* A frame that the server thread knows of is taken after at most so many of
\* the thread's own steps as a pass has, and the clients it serves in one:
\* cursors, copies, timers and comings and goings do not put it off.
THEOREM FrameNearsCorrect == Spec => FrameNears
<1> DEFINE Step ==
      queued /\ FrameNoticed =>
        \/ ~queued' \/ ~Running'
        \/ FrameNoticed' /\ Nearer(StepsTo("frameLock"), StepsTo("frameLock")')
<1>1. TypeOK /\ DesktopShape /\ DesktopShape' /\ DisplayServed' /\ [Next]_vars => Step
  <2> SUFFICES ASSUME TypeOK, DesktopShape, DesktopShape', DisplayServed', [Next]_vars,
                      queued, FrameNoticed, queued', Running'
               PROVE  FrameNoticed' /\ Nearer(StepsTo("frameLock"), StepsTo("frameLock")')
    OBVIOUS
  <2>1. CASE ServerStep
    BY <2>1, ServerNearsFrame
  <2>2. CASE ~ServerStep
    <3>1. eventFd \/ pc # "select"
      BY DEF FrameNoticed, BeforeFrames, CursorPcs
    <3> QED
      BY <2>2, <3>1, OthersLeaveServer DEF FrameNoticed, Nearer
  <2> QED
    BY <2>1, <2>2
<1> HIDE DEF Step
<1>2. TypeOK /\ DesktopShape /\ DesktopShape' /\ DisplayServed' /\ [Next]_vars => [Step]_vars
  BY <1>1
<1> QED
  BY <1>2, TypeCorrect, ShapeCorrect, DisplayServedCorrect, PTL DEF Spec, FrameNears, Step

\* The server thread gets on to the clipboard.
LEMMA ServerNearsClip ==
  ASSUME TypeOK, DesktopShape, DesktopShape', ServerStep, Running',
         clipDue # {}, clipDue' # {}, ClipNoticed
  PROVE  ClipNoticed' /\ Nearer(StepsTo("clipSend"), StepsTo("clipSend")')
<1>1. Sockets' # {}
  BY DEF DesktopShape, Ready, Sockets
<1>2. eventFd \/ pc # "clients"
  BY DEF ClipNoticed, BeforeClip, CursorPcs, FramePcs
<1>3. ClipNoticed' /\ ~(pc' = "top" /\ 12 <= Place[pc])
  <2>1. CASE Top \/ Select \/ Accept
    BY <2>1, Places DEF Top, Select, Accept, clipVars, ClipNoticed, BeforeClip,
                        CursorPcs, FramePcs
  <2>2. CASE Exit \/ AcceptFails \/ SelectFails
    BY <2>2 DEF Exit, AcceptFails, SelectFails, Leave, Running
  <2>3. CASE \E c \in Clients : ServeClient(c)
    BY <2>3, Places DEF ServeClient, ClipNoticed, BeforeClip, CursorPcs, FramePcs
  <2>4. CASE ReadEvent
    BY <2>4, Places DEF ReadEvent, clipVars, ClipNoticed, BeforeClip, CursorPcs, FramePcs
  <2>5. CASE CheckCursor \/ ClearCursor \/ ReadCursor \/ SendCursor
    BY <2>5, Places DEF CheckCursor, ClearCursor, ReadCursor, SendCursor, Goto, clipVars,
                        Running, ClipNoticed, BeforeClip, CursorPcs, FramePcs
  <2>6. CASE CheckFrame \/ ClearFrame \/ UpdateDisplay \/ LockFrame
    BY <2>6, Places DEF CheckFrame, ClearFrame, UpdateDisplay, LockFrame, Goto, clipVars,
                        ClipNoticed, BeforeClip, CursorPcs, FramePcs
  <2>7. CASE CheckClip \/ ClearClip
    BY <2>7 DEF CheckClip, ClearClip, Goto, ClipNoticed, BeforeClip
  <2>8. CASE AnnounceClip
    BY <2>8 DEF AnnounceClip, DesktopShape
  <2> QED
    BY <2>1, <2>2, <2>3, <2>4, <2>5, <2>6, <2>7, <2>8 DEF ServerStep
<1>4. \A p \in DOMAIN Place : Place[p] \in Int /\ Place[p] <= Place["clipSend"]
  BY DEF Place
<1>5. "clipSend" \in DOMAIN Place
  BY DEF Place
<1> QED
  BY <1>1, <1>2, <1>3, <1>4, <1>5, PassGoesForward, ForwardIsNearer DEF Nearer

\* The same of a clipboard change, which comes last in a pass: neither cursors
\* nor frames put it off.
THEOREM ClipNearsCorrect == Spec => ClipNears
<1> DEFINE Step ==
      clipDue # {} /\ ClipNoticed =>
        \/ clipDue' = {} \/ ~Running'
        \/ ClipNoticed' /\ Nearer(StepsTo("clipSend"), StepsTo("clipSend")')
<1>1. TypeOK /\ DesktopShape /\ DesktopShape' /\ [Next]_vars => Step
  <2> SUFFICES ASSUME TypeOK, DesktopShape, DesktopShape', [Next]_vars,
                      clipDue # {}, ClipNoticed, clipDue' # {}, Running'
               PROVE  ClipNoticed' /\ Nearer(StepsTo("clipSend"), StepsTo("clipSend")')
    OBVIOUS
  <2>1. CASE ServerStep
    BY <2>1, ServerNearsClip
  <2>2. CASE ~ServerStep
    <3>1. eventFd \/ pc # "select"
      BY DEF ClipNoticed, BeforeClip, CursorPcs, FramePcs
    <3> QED
      BY <2>2, <3>1, OthersLeaveServer DEF ClipNoticed, Nearer
  <2> QED
    BY <2>1, <2>2
<1> HIDE DEF Step
<1>2. TypeOK /\ DesktopShape /\ DesktopShape' /\ [Next]_vars => [Step]_vars
  BY <1>1
<1> QED
  BY <1>2, TypeCorrect, ShapeCorrect, PTL DEF Spec, ClipNears, Step

\* The server thread gets on to a cursor that is written, in this pass or, if
\* it read the one before, in the next.
LEMMA ServerNearsCursor ==
  ASSUME TypeOK, CursorWritten, ServerStep, Running', Sockets' # {}, CursorNoticed,
         cursorPc \in {"notify", "idle"}, sent' # Pair(goal')
  PROVE  CursorNoticed' /\ Nearer(StepsToCursor, StepsToCursor')
<1>1. eventFd \/ pc # "clients"
  BY DEF CursorNoticed
<1>2. CASE pc # "cursorSend"
  <2>1. /\ CursorNoticed'
        /\ Place[pc'] <= Place["cursorSend"] \/ Place["cursorSend"] < Place[pc]
        /\ pc' = "cursorSend" => got' = goal'
    <3>1. CASE Top \/ Select \/ Accept
      BY <3>1, Places DEF Top, Select, Accept, cursorVars, CursorNoticed
    <3>2. CASE Exit \/ AcceptFails \/ SelectFails
      BY <3>2 DEF Exit, AcceptFails, SelectFails, Leave, Running
    <3>3. CASE \E c \in Clients : ServeClient(c)
      BY <3>3, Places DEF ServeClient, cursorVars, CursorNoticed
    <3>4. CASE ReadEvent
      BY <3>4, Places DEF ReadEvent, cursorVars, CursorNoticed
    <3>5. CASE CheckCursor \/ ClearCursor
      BY <3>5, Places DEF CheckCursor, ClearCursor, Goto, cursorVars, CursorNoticed
    <3>6. CASE ReadCursor
      BY <3>6, Places DEF ReadCursor, Goto, Running, CursorWritten, CursorNoticed
    <3>7. CASE SendCursor
      BY <1>2, <3>7 DEF SendCursor, Goto
    <3>8. CASE CheckFrame \/ ClearFrame \/ UpdateDisplay \/ LockFrame
      BY <3>8, Places DEF CheckFrame, ClearFrame, UpdateDisplay, LockFrame, Goto,
                          cursorVars, CursorNoticed
    <3>9. CASE CheckClip \/ ClearClip \/ AnnounceClip
      BY <3>9, Places DEF CheckClip, ClearClip, AnnounceClip, Goto, Running, cursorVars,
                          CursorNoticed
    <3> QED
      BY <3>1, <3>2, <3>3, <3>4, <3>5, <3>6, <3>7, <3>8, <3>9 DEF ServerStep
  <2>2. "cursorSend" \in DOMAIN Place /\ Place["cursorSend"] < 12
    BY Places DEF Place
  <2>3. \A p \in DOMAIN Place : Place[p] \in Int
    BY DEF Place
  <2>4. \/ StepsTo("cursorSend")' < StepsTo("cursorSend")
        \/ pc' = pc /\ rfds' \subseteq rfds /\ rfds' # rfds
    BY <1>1, <2>1, <2>2, <2>3, PassGoesForward, ForwardIsNearer
  <2>5. StepsTo("cursorSend") \in Int /\ StepsTo("cursorSend")' \in Int
    BY <1>1, <2>2, <2>3, PassGoesForward DEF StepsTo
  <2>6. /\ StepsToCursor = StepsTo("cursorSend")
        /\ StepsToCursor' = StepsTo("cursorSend")'
    BY <1>2, <2>1, <2>5 DEF StepsToCursor
  <2> QED
    BY <2>1, <2>4, <2>6 DEF Nearer
<1>3. CASE pc = "cursorSend"
  <2>1. SendCursor
    BY <1>3 DEF ServerStep, Top, Exit, Select, Accept, AcceptFails, ServeClient, ReadEvent,
       CheckCursor, ClearCursor, ReadCursor, CheckFrame, ClearFrame, UpdateDisplay,
       LockFrame, CheckClip, ClearClip, AnnounceClip, Goto
  <2>2. pc' = "frameCheck" /\ UNCHANGED <<cursorChanged, eventFd, got, goal>>
        /\ sent' = [size |-> got, buffer |-> cur.buffer]
    BY <2>1 DEF SendCursor, Goto
  <2>3. got # goal
    BY <1>3, <2>2 DEF CursorWritten, Running, Pair
  <2>4. CursorNoticed'
    BY <1>3, <2>2, <2>3 DEF CursorNoticed
  <2>5. StepsToCursor = 15 /\ StepsToCursor' = 14
    BY <1>3, <2>2, <2>3, Places DEF StepsToCursor, StepsTo
  <2> QED
    BY <2>4, <2>5 DEF Nearer
<1> QED
  BY <1>2, <1>3

\* A cursor that Java has written reaches the VNC server after at most a pass
\* and the rest of the one before, unless another one is begun.
THEOREM CursorNearsCorrect == Spec => CursorNears
<1> DEFINE Step ==
      sent # Pair(goal) /\ cursorPc \in {"notify", "idle"} /\ CursorNoticed =>
        \/ sent' = Pair(goal) \/ cursorPc' = "buffer" \/ Sockets' = {} \/ ~Running'
        \/ CursorNoticed' /\ Nearer(StepsToCursor, StepsToCursor')
<1>1. TypeOK /\ CursorInv /\ [Next]_vars => Step
  <2> SUFFICES ASSUME TypeOK, CursorInv, [Next]_vars,
                      sent # Pair(goal), cursorPc \in {"notify", "idle"}, CursorNoticed,
                      sent' # Pair(goal), cursorPc' # "buffer", Sockets' # {}, Running'
               PROVE  CursorNoticed' /\ Nearer(StepsToCursor, StepsToCursor')
    OBVIOUS
  <2>1. CASE ServerStep
    <3>1. goal' = goal
      BY <2>1 DEF ServerStep, Top, Exit, Select, Accept, AcceptFails, Leave, ServeClient,
         ReadEvent, CheckCursor, ClearCursor, ReadCursor, SendCursor, CheckFrame, ClearFrame,
         UpdateDisplay, LockFrame, CheckClip, ClearClip, AnnounceClip, cursorVars
    <3>2. sent' # Pair(goal')
      BY <3>1
    <3> QED
      BY <2>1, <3>2, ServerNearsCursor DEF CursorInv
  <2>2. CASE ~ServerStep
    <3>1. eventFd \/ pc # "select"
      BY DEF CursorNoticed
    <3> QED
      BY <2>2, <3>1, OthersLeaveServer DEF CursorNoticed, Nearer
  <2> QED
    BY <2>1, <2>2
<1> HIDE DEF Step
<1>2. TypeOK /\ CursorInv /\ [Next]_vars => [Step]_vars
  BY <1>1
<1>3. Init => CursorInv
  BY DEF Init, CursorInv, CursorWritten, OutdatedRead, CursorNotLost, Pair
<1> QED
  BY <1>2, <1>3, NextCursor, TypeCorrect, PTL DEF Spec, CursorNears, Step

=============================================================================

-------------------------- MODULE ServerLoopProofs --------------------------
(***************************************************************************)
(* What holds of ServerLoop for any clients, binder threads and cursors.   *)
(***************************************************************************)
EXTENDS ServerLoop, TLAPS

\* A step that leaves a group of variables alone keeps their types.
LEMMA SameTypes ==
  /\ ServerTypes /\ UNCHANGED serverVars => ServerTypes'
  /\ ClientTypes /\ UNCHANGED clientVars => ClientTypes'
  /\ DesktopTypes /\ UNCHANGED desktopVars => DesktopTypes'
  /\ FrameTypes /\ UNCHANGED frameVars => FrameTypes'
  /\ CursorTypes /\ UNCHANGED cursorVars => CursorTypes'
  /\ ClipTypes /\ UNCHANGED clipVars => ClipTypes'
<1>1. ServerTypes /\ UNCHANGED serverVars => ServerTypes'
  BY DEF ServerTypes, serverVars
<1>2. ClientTypes /\ UNCHANGED clientVars => ClientTypes'
  BY DEF ClientTypes, clientVars
<1>3. DesktopTypes /\ UNCHANGED desktopVars => DesktopTypes'
  BY DEF DesktopTypes, desktopVars
<1>4. FrameTypes /\ UNCHANGED frameVars => FrameTypes'
  BY DEF FrameTypes, frameVars
<1>5. CursorTypes /\ UNCHANGED cursorVars => CursorTypes'
  BY DEF CursorTypes, cursorVars
<1>6. ClipTypes /\ UNCHANGED clipVars => ClipTypes'
  BY DEF ClipTypes, clipVars
<1> QED
  BY <1>1, <1>2, <1>3, <1>4, <1>5, <1>6

\* The initial state has the right types.
LEMMA InitTypeOK == Init => TypeOK
<1> SUFFICES ASSUME Init PROVE TypeOK
  OBVIOUS
<1>1. ServerTypes /\ ClientTypes
  BY DEF Init, ServerTypes, ClientTypes, Pcs
<1>2. DesktopTypes /\ FrameTypes
  BY DEF Init, DesktopTypes, FrameTypes
<1>3. CursorTypes
  BY DEF Init, CursorTypes, Shapes, Pair
<1>4. ClipTypes
  BY DEF Init, ClipTypes
<1> QED
  BY <1>1, <1>2, <1>3, <1>4 DEF TypeOK

\* Whatever ends startService leaves a well-typed state.
LEMMA LeaveTypeOK == TypeOK /\ Leave => TypeOK'
<1> SUFFICES ASSUME TypeOK, Leave PROVE TypeOK'
  OBVIOUS
<1>1. ServerTypes' /\ ClientTypes'
  BY DEF TypeOK, ServerTypes, ClientTypes, Leave, Pcs
<1>2. DesktopTypes' /\ FrameTypes'
  BY DEF TypeOK, DesktopTypes, FrameTypes, Leave, StopDesktop
<1>3. CursorTypes' /\ ClipTypes'
  BY SameTypes DEF TypeOK, ClipTypes, Leave
<1> QED
  BY <1>1, <1>2, <1>3 DEF TypeOK

\* Every step of the server thread keeps the types.
LEMMA ServerTypeOK == TypeOK /\ ServerStep => TypeOK'
<1> SUFFICES ASSUME TypeOK, ServerStep PROVE TypeOK'
  OBVIOUS
<1>1. CASE Top
  <2>1. ServerTypes' /\ ClientTypes'
    BY <1>1 DEF TypeOK, ServerTypes, ClientTypes, Top, Reap, Pcs
  <2>2. DesktopTypes' /\ FrameTypes'
    BY <1>1, SameTypes DEF TypeOK, DesktopTypes, FrameTypes, Top, Reap, StopDesktop
  <2> QED
    BY <1>1, <2>1, <2>2, SameTypes DEF TypeOK, Top
<1>2. CASE Exit
  BY <1>2, LeaveTypeOK DEF Exit
<1>3. CASE Select
  BY <1>3, SameTypes DEF TypeOK, ServerTypes, ClientTypes, Select, Readable, Pcs
<1>4. CASE Accept
  <2>1. ClientTypes'
    BY <1>4 DEF TypeOK, ClientTypes, Accept
  <2>2. ServerTypes' /\ ClipTypes'
    BY <1>4 DEF TypeOK, ServerTypes, ClipTypes, Accept, Close, Pcs
  <2> QED
    BY <1>4, <2>1, <2>2, SameTypes DEF TypeOK, Accept
<1>5. CASE AcceptFails
  BY <1>5, LeaveTypeOK DEF AcceptFails
<1>6. ASSUME NEW c \in Clients, ServeClient(c) PROVE TypeOK'
  <2>1. ServerTypes' /\ CursorTypes'
    BY <1>6, SameTypes DEF TypeOK, ServerTypes, ServeClient
  <2>2. ClientTypes' /\ ClipTypes'
    BY <1>6 DEF TypeOK, ClientTypes, ClipTypes, ServeClient, CompletesHandshake,
                Resizes, SendsMessage, Leaves, Close
  <2>3. DesktopTypes' /\ FrameTypes'
    BY <1>6, SameTypes DEF TypeOK, DesktopTypes, FrameTypes, ServeClient,
       CompletesHandshake, StartDesktop, Resizes, RecreateDisplay, SendsMessage, Leaves
  <2> QED
    BY <2>1, <2>2, <2>3 DEF TypeOK
<1>7. CASE ReadEvent
  BY <1>7, SameTypes DEF TypeOK, ServerTypes, ReadEvent, Pcs, CursorPcs
<1>8. CASE CheckCursor \/ ClearCursor \/ ReadCursor \/ SendCursor
  <2>1. ServerTypes'
    BY <1>8 DEF TypeOK, ServerTypes, CheckCursor, ClearCursor, ReadCursor, SendCursor,
                Goto, Pcs, CursorPcs, FramePcs
  <2>2. CursorTypes'
    <3>1. CASE CheckCursor
      BY <3>1, SameTypes DEF TypeOK, CheckCursor
    <3>2. CASE ClearCursor
      BY <3>2 DEF TypeOK, CursorTypes, ClearCursor
    <3>3. CASE ReadCursor
      BY <3>3 DEF TypeOK, CursorTypes, ReadCursor
    <3>4. CASE SendCursor
      BY <3>4 DEF TypeOK, CursorTypes, SendCursor
    <3> QED
      BY <1>8, <3>1, <3>2, <3>3, <3>4
  <2> QED
    BY <1>8, <2>1, <2>2, SameTypes DEF TypeOK, CheckCursor, ClearCursor, ReadCursor,
                                       SendCursor, Goto
<1>9. CASE CheckFrame \/ ClearFrame \/ UpdateDisplay \/ LockFrame
  <2>1. ServerTypes'
    BY <1>9 DEF TypeOK, ServerTypes, CheckFrame, ClearFrame, UpdateDisplay, LockFrame,
                Goto, Pcs, FramePcs, ClipPcs
  <2>2. DesktopTypes' /\ FrameTypes'
    BY <1>9, SameTypes DEF TypeOK, DesktopTypes, FrameTypes, CheckFrame, ClearFrame,
                           UpdateDisplay, LockFrame, RecreateDisplay, Goto
  <2> QED
    BY <1>9, <2>1, <2>2, SameTypes DEF TypeOK, CheckFrame, ClearFrame, UpdateDisplay,
                                       LockFrame, Goto
<1>10. CASE CheckClip \/ ClearClip \/ AnnounceClip
  <2>1. ServerTypes'
    BY <1>10 DEF TypeOK, ServerTypes, CheckClip, ClearClip, AnnounceClip, Goto, Pcs, ClipPcs
  <2>2. ClipTypes'
    BY <1>10, SameTypes DEF TypeOK, ClipTypes, CheckClip, ClearClip, AnnounceClip
  <2> QED
    BY <1>10, <2>1, <2>2, SameTypes DEF TypeOK, CheckClip, ClearClip, AnnounceClip, Goto
<1> QED
  BY <1>1, <1>2, <1>3, <1>4, <1>5, <1>6, <1>7, <1>8, <1>9, <1>10 DEF ServerStep

\* Every step of the other threads and of the peers keeps the types.
LEMMA OthersTypeOK ==
  TypeOK /\ (CursorStep \/ ClipStep \/ (\E b \in Binders : BinderStep(b)) \/ Environment)
    => TypeOK'
<1> SUFFICES ASSUME TypeOK,
                    \/ CursorStep \/ ClipStep
                    \/ (\E b \in Binders : BinderStep(b)) \/ Environment
             PROVE  TypeOK'
  OBVIOUS
<1>1. CASE CursorStep
  <2>1. ServerTypes' /\ CursorTypes'
    BY <1>1, SameTypes DEF TypeOK, ServerTypes, CursorTypes, CursorStep,
                           SetCursorBuffer, SetCursorFlag, NotifyCursor, SetEvent
  <2> QED
    BY <1>1, <2>1, SameTypes DEF TypeOK, CursorStep, SetCursorBuffer, SetCursorFlag,
                                 NotifyCursor
<1>2. CASE ClipStep
  BY <1>2, SameTypes DEF TypeOK, ServerTypes, ClipTypes, ClipStep, SetClipFlag,
                         NotifyClip, SetEvent
<1>3. ASSUME NEW b \in Binders, BinderStep(b) PROVE TypeOK'
  BY <1>3, SameTypes DEF TypeOK, ServerTypes, FrameTypes, BinderStep, SetFrameFlag,
                         NotifyFrame, SetEvent
<1>10. CASE SelectFails
  BY <1>10, LeaveTypeOK DEF SelectFails
<1>4. CASE SelectReturnsEarly \/ Quit
  BY <1>4, SameTypes DEF TypeOK, ServerTypes, SelectReturnsEarly, Quit, Pcs
<1>5. CASE ChangeClip
  BY <1>5, SameTypes DEF TypeOK, ClipTypes, ChangeClip, Ready
<1>6. CASE UseFreedDesktop
  BY <1>6, SameTypes DEF TypeOK, ServerTypes, CursorTypes, ClipTypes, UseFreedDesktop, Pcs
<1>7. ASSUME NEW k \in Cursors, SetCursor(k) PROVE TypeOK'
  BY <1>7, SameTypes DEF TypeOK, CursorTypes, SetCursor, Shapes
<1>8. ASSUME NEW b \in Binders, QueueFrame(b) PROVE TypeOK'
  BY <1>8, SameTypes DEF TypeOK, FrameTypes, QueueFrame
<1>9. ASSUME NEW c \in Clients, Connect(c) \/ PeerSends(c) PROVE TypeOK'
  BY <1>9, SameTypes DEF TypeOK, ClientTypes, Connect, PeerSends
<1> QED
  BY <1>1, <1>2, <1>3, <1>4, <1>5, <1>6, <1>7, <1>8, <1>9, <1>10 DEF Environment

\* No interleaving takes a variable out of its type.
THEOREM TypeCorrect == Spec => []TypeOK
<1>1. TypeOK /\ [Next]_vars => TypeOK'
  <2>1. TypeOK /\ Next => TypeOK'
    BY ServerTypeOK, OthersTypeOK DEF Next
  <2>2. TypeOK /\ UNCHANGED vars => TypeOK'
    BY SameTypes DEF TypeOK, vars
  <2> QED
    BY <2>1, <2>2
<1> QED
  BY InitTypeOK, <1>1, PTL DEF Spec

-----------------------------------------------------------------------------
(***************************************************************************)
(* The desktop and its clients.                                            *)
(***************************************************************************)

\* What start, stop and the clients' comings and goings keep between them: a
\* frame is in a display, a display comes with what start sets before it, it
\* is there for every ready client, and only ready clients wait to hear of the
\* clipboard.
DesktopShape ==
  /\ queued => mVirtualDisplay
  /\ mVirtualDisplay => mPixels /\ mServer = "server"
  /\ Ready # {} => mVirtualDisplay
  /\ clipDue \subseteq Ready

shapeVars == <<queued, desktopVars, sock, clipDue>>

\* Once processFrames has seen the display nothing takes it away: only this
\* thread stops the desktop, and not in the middle of processFrames.
DisplayHeld == pc \in {"frameClear", "frameUpdate", "frameLock"} => mVirtualDisplay

\* No step takes the display away under processFrames.
LEMMA NextHeld == DisplayHeld /\ [Next]_vars => DisplayHeld'
<1> SUFFICES ASSUME DisplayHeld, [Next]_vars PROVE DisplayHeld'
  OBVIOUS
<1>1. CASE \/ Top \/ Exit \/ AcceptFails \/ SelectFails \/ Select
           \/ SelectReturnsEarly \/ Accept
           \/ ReadEvent \/ UseFreedDesktop
  BY <1>1 DEF Top, Exit, AcceptFails, SelectFails, Leave, Select, SelectReturnsEarly, Accept,
              ReadEvent, UseFreedDesktop, DisplayHeld
<1>2. ASSUME NEW c \in Clients, ServeClient(c) PROVE DisplayHeld'
  BY <1>2 DEF ServeClient, DisplayHeld
<1>3. CASE \/ CheckCursor \/ ClearCursor \/ ReadCursor \/ SendCursor
           \/ CheckFrame \/ ClearFrame \/ LockFrame
           \/ CheckClip \/ ClearClip \/ AnnounceClip
  BY <1>3 DEF CheckCursor, ClearCursor, ReadCursor, SendCursor, CheckFrame, ClearFrame,
              LockFrame, CheckClip, ClearClip, AnnounceClip, Goto, DisplayHeld, desktopVars
<1>4. CASE UpdateDisplay
  BY <1>4 DEF UpdateDisplay, RecreateDisplay, DisplayHeld, desktopVars
<1>5. CASE UNCHANGED <<pc, mVirtualDisplay>>
  BY <1>5 DEF DisplayHeld
<1>6. CASE CursorStep \/ ClipStep \/ Quit \/ ChangeClip
  BY <1>5, <1>6 DEF CursorStep, ClipStep, SetCursorBuffer, SetCursorFlag, NotifyCursor,
     SetClipFlag, NotifyClip, Quit, ChangeClip, serverVars, desktopVars
<1>7. ASSUME NEW b \in Binders, BinderStep(b) \/ QueueFrame(b) PROVE DisplayHeld'
  BY <1>5, <1>7 DEF BinderStep, SetFrameFlag, NotifyFrame, QueueFrame, serverVars,
                    desktopVars
<1>8. ASSUME NEW k \in Cursors, SetCursor(k) PROVE DisplayHeld'
  BY <1>5, <1>8 DEF SetCursor, serverVars, desktopVars
<1>9. ASSUME NEW c \in Clients, Connect(c) \/ PeerSends(c) PROVE DisplayHeld'
  BY <1>5, <1>9 DEF Connect, PeerSends, serverVars, desktopVars
<1>10. CASE UNCHANGED vars
  BY <1>5, <1>10 DEF vars, serverVars, desktopVars
<1> QED
  BY <1>1, <1>2, <1>3, <1>4, <1>6, <1>7, <1>8, <1>9, <1>10
     DEF Next, ServerStep, Environment

\* Removing the sockets that were shut down stops the desktop in time.
LEMMA ReapShape ==
  ASSUME TypeOK, DesktopShape, Reap({c \in Clients : sock[c] = "shutdown"}),
         UNCHANGED clipVars
  PROVE  DesktopShape'
<1> DEFINE gone == {c \in Clients : sock[c] = "shutdown"}
<1>1. Ready' = Ready
  BY DEF Reap, Ready, TypeOK, ClientTypes
<1>2. CASE gone # {} /\ Ready = {} /\ mVirtualDisplay
  BY <1>1, <1>2 DEF Reap, StopDesktop, DesktopShape, clipVars
<1>3. CASE ~(gone # {} /\ Ready = {} /\ mVirtualDisplay)
  BY <1>1, <1>3 DEF Reap, DesktopShape, clipVars, desktopVars, frameVars
<1> QED
  BY <1>2, <1>3

\* A readable client is served.
LEMMA ServeShape ==
  ASSUME TypeOK, DesktopShape, NEW c \in Clients, ServeClient(c)
  PROVE  DesktopShape'
<1>1. CASE CompletesHandshake(c)
  <2>1. Ready \subseteq Ready' /\ Ready' \subseteq Ready \cup {c}
    BY <1>1 DEF CompletesHandshake, Ready, TypeOK, ClientTypes
  <2>2. CASE mVirtualDisplay
    BY <1>1, <2>1, <2>2 DEF CompletesHandshake, DesktopShape, desktopVars, frameVars
  <2>3. CASE ~mVirtualDisplay
    <3>1. PICK ok \in BOOLEAN :
            /\ StartDesktop(ok)
            /\ sock' = [sock EXCEPT ![c] = IF ok THEN "ready" ELSE "shutdown"]
      BY <1>1, <2>3 DEF CompletesHandshake
    <3>2. Ready' # {} => ok
      BY <2>3, <3>1 DEF Ready, DesktopShape, TypeOK, ClientTypes
    <3> QED
      BY <1>1, <2>1, <3>1, <3>2 DEF StartDesktop, DesktopShape, CompletesHandshake
  <2> QED
    BY <2>2, <2>3
<1>2. CASE Resizes(c)
  <2>1. Ready' = Ready /\ Ready # {}
    BY <1>2 DEF Resizes, Ready
  <2> QED
    BY <1>2, <2>1 DEF Resizes, RecreateDisplay, DesktopShape
<1>3. CASE SendsMessage(c)
  BY <1>3 DEF SendsMessage, DesktopShape, Ready, desktopVars, frameVars
<1>4. CASE Leaves(c)
  <2>1. Ready' = Ready \ {c}
    BY <1>4 DEF Leaves, Ready, TypeOK, ClientTypes
  <2> QED
    BY <1>4, <2>1 DEF Leaves, Close, DesktopShape, desktopVars, frameVars
<1> QED
  BY <1>1, <1>2, <1>3, <1>4 DEF ServeClient

\* Every step keeps the desktop and its clients in step.
LEMMA NextShape == TypeOK /\ DisplayHeld /\ DesktopShape /\ [Next]_vars => DesktopShape'
<1> SUFFICES ASSUME TypeOK, DisplayHeld, DesktopShape, [Next]_vars PROVE DesktopShape'
  OBVIOUS
<1>1. ASSUME UNCHANGED shapeVars PROVE DesktopShape'
  BY <1>1 DEF shapeVars, DesktopShape, Ready, desktopVars
<1>2. CASE Top
  BY <1>2, ReapShape DEF Top
<1>3. CASE Exit \/ AcceptFails \/ SelectFails
  BY <1>3 DEF Exit, AcceptFails, SelectFails, Leave, StopDesktop, DesktopShape, Ready
<1>4. CASE Accept
  <2>1. PICK new \in IF "listen" \in rfds THEN {{c} : c \in Pending} ELSE {{}},
             idle \in {{}} \cup {{c} : c \in Open},
             verdict \in {"handshake", "shutdown"} :
          /\ sock' = [c \in Clients |-> IF c \in new THEN verdict
                                        ELSE IF c \in idle THEN "shutdown" ELSE sock[c]]
          /\ Close(idle)
    BY <1>4 DEF Accept
  <2>2. \A c \in new : sock[c] = "pending"
    BY DEF Pending
  <2>3. Ready' = Ready \ idle
    BY <2>1, <2>2 DEF Ready
  <2> QED
    BY <1>4, <2>1, <2>3 DEF Accept, Close, DesktopShape, desktopVars, frameVars
<1>5. ASSUME NEW c \in Clients, ServeClient(c) PROVE DesktopShape'
  BY <1>5, ServeShape
<1>6. CASE UpdateDisplay
  BY <1>6 DEF UpdateDisplay, RecreateDisplay, DesktopShape, DisplayHeld, Ready,
              clientVars, clipVars, desktopVars, frameVars
<1>7. CASE LockFrame
  BY <1>7 DEF LockFrame, Goto, DesktopShape, Ready, clientVars, clipVars, desktopVars
<1>8. CASE AnnounceClip
  BY <1>8 DEF AnnounceClip, Goto, DesktopShape, Ready, clientVars, frameVars, desktopVars
<1>9. CASE ChangeClip
  BY <1>9 DEF ChangeClip, DesktopShape, Ready, clientVars, frameVars, desktopVars
<1>10. ASSUME NEW b \in Binders, QueueFrame(b) PROVE DesktopShape'
  BY <1>10 DEF QueueFrame, DesktopShape, Ready, clientVars, clipVars, desktopVars
<1>11. ASSUME NEW c \in Clients, Connect(c) PROVE DesktopShape'
  <2>1. Ready' = Ready
    BY <1>11 DEF Connect, Ready, TypeOK, ClientTypes
  <2> QED
    BY <1>11, <2>1 DEF Connect, DesktopShape, clipVars, frameVars, desktopVars
<1>12. CASE \/ Select \/ SelectReturnsEarly \/ ReadEvent \/ Quit \/ UseFreedDesktop
            \/ CheckCursor \/ ClearCursor \/ ReadCursor \/ SendCursor
            \/ CheckFrame \/ ClearFrame \/ CheckClip \/ ClearClip
  BY <1>1, <1>12 DEF Select, SelectReturnsEarly, ReadEvent, Quit, UseFreedDesktop,
     CheckCursor, ClearCursor, ReadCursor, SendCursor, CheckFrame, ClearFrame,
     CheckClip, ClearClip, Goto, shapeVars, clientVars, frameVars, clipVars
<1>13. CASE CursorStep \/ ClipStep
  BY <1>1, <1>13 DEF CursorStep, ClipStep, SetCursorBuffer, SetCursorFlag, NotifyCursor,
     SetClipFlag, NotifyClip, shapeVars, clientVars, frameVars, clipVars
<1>14. ASSUME NEW b \in Binders, BinderStep(b) PROVE DesktopShape'
  BY <1>1, <1>14 DEF BinderStep, SetFrameFlag, NotifyFrame, shapeVars, clientVars, clipVars
<1>15. ASSUME NEW k \in Cursors, SetCursor(k) PROVE DesktopShape'
  BY <1>1, <1>15 DEF SetCursor, shapeVars, clientVars, frameVars, clipVars
<1>16. ASSUME NEW c \in Clients, PeerSends(c) PROVE DesktopShape'
  BY <1>1, <1>16 DEF PeerSends, shapeVars, frameVars, clipVars
<1>17. CASE UNCHANGED vars
  BY <1>1, <1>17 DEF vars, shapeVars, clientVars, frameVars, clipVars
<1> QED
  BY <1>2, <1>3, <1>4, <1>5, <1>6, <1>7, <1>8, <1>9, <1>10, <1>11, <1>12, <1>13,
     <1>14, <1>15, <1>16, <1>17 DEF Next, ServerStep, Environment

\* The desktop and its clients are in step in every reachable state.
THEOREM ShapeCorrect == Spec => [](DesktopShape /\ DisplayHeld)
<1>1. Init => DesktopShape /\ DisplayHeld
  BY DEF Init, DesktopShape, DisplayHeld, Ready
<1> QED
  BY <1>1, NextShape, NextHeld, TypeCorrect, PTL DEF Spec

\* A ready client's events never reach a desktop that was stopped or never
\* started, whichever clients come and go and however often start fails.
THEOREM DesktopUsableCorrect == Spec => []DesktopUsable
<1>1. DesktopShape => DesktopUsable
  BY DEF DesktopShape, DesktopUsable
<1> QED
  BY <1>1, ShapeCorrect, PTL

-----------------------------------------------------------------------------
(***************************************************************************)
(* No event is lost.  Each of the three arguments has a first step for the *)
(* steps that do not concern the event: they leave its flag and its data   *)
(* alone, may only raise the eventfd, and do not move the server thread    *)
(* through the part of a pass that handles the event.                      *)
(***************************************************************************)

\* Java writes the cursor's size first and the rest before it raises the flag.
CursorWritten ==
  Running => cur.size = goal /\ (cursorPc # "buffer" => cur.buffer = goal)

\* If the cursor changes between the server thread's reads, even back to what
\* the VNC server has, another pass is due.
OutdatedRead ==
  Running /\ pc = "cursorSend" /\ got # goal =>
    \/ cursorPc \in {"buffer", "flag"}
    \/ cursorChanged /\ (cursorPc = "notify" \/ eventFd)

CursorInv == CursorWritten /\ OutdatedRead /\ CursorNotLost

\* The cursor is due to be sent after every step.
LEMMA NextCursor ==
  TypeOK /\ CursorInv /\ [Next]_vars => CursorInv'
<1> SUFFICES ASSUME TypeOK, CursorInv, [Next]_vars PROVE CursorInv'
  OBVIOUS
<1>1. ASSUME UNCHANGED cursorVars, eventFd => eventFd', Running' => Running,
             pc' = pc \/ (pc \notin CursorPcs /\ pc' \notin CursorPcs)
      PROVE  CursorInv'
  BY <1>1 DEF CursorInv, CursorWritten,
     OutdatedRead, CursorNotLost, CursorNoticed, CursorPcs, cursorVars, Pair
<1>2. CASE Top \/ Select \/ SelectReturnsEarly \/ Accept
  BY <1>1, <1>2 DEF Top, Select, SelectReturnsEarly, Accept, Running, CursorPcs
<1>3. CASE Exit \/ AcceptFails \/ SelectFails
  BY <1>1, <1>3 DEF Exit, AcceptFails, SelectFails, Leave, Running, CursorPcs
<1>4. ASSUME NEW c \in Clients, ServeClient(c) PROVE CursorInv'
  BY <1>1, <1>4 DEF ServeClient, Running
<1>5. CASE CheckFrame \/ ClearFrame \/ LockFrame \/ CheckClip \/ ClearClip \/ AnnounceClip
  BY <1>1, <1>5 DEF CheckFrame, ClearFrame, LockFrame, CheckClip, ClearClip,
                    AnnounceClip, Goto, Running, CursorPcs
<1>6. CASE UpdateDisplay
  BY <1>1, <1>6 DEF UpdateDisplay, Running, CursorPcs
<1>7. CASE ReadEvent
  BY <1>7 DEF ReadEvent, CursorInv, CursorWritten,
     OutdatedRead, CursorNotLost, CursorNoticed, Running, cursorVars, Pair,
              TypeOK, ServerTypes
<1>8. CASE CheckCursor
  BY <1>8 DEF CheckCursor, Goto, CursorInv, CursorWritten,
     OutdatedRead, CursorNotLost, CursorNoticed, Running, cursorVars, Pair
<1>9. CASE ClearCursor
  BY <1>9 DEF ClearCursor, Goto, CursorInv, CursorWritten,
     OutdatedRead, CursorNotLost, CursorNoticed, Running, Pair
<1>10. CASE ReadCursor
  BY <1>10 DEF ReadCursor, Goto, CursorInv, CursorWritten,
     OutdatedRead, CursorNotLost, CursorNoticed, Running, Pair
<1>11. CASE SendCursor
  <2>1. Running /\ Running' /\ UNCHANGED <<cursorPc, cur, goal, eventFd, cursorChanged>>
    BY <1>11 DEF SendCursor, Goto, Running
  <2>2. CursorWritten'
    BY <2>1 DEF CursorInv, CursorWritten
  <2>3. got = goal /\ cursorPc # "buffer" => sent' = Pair(goal)
    BY <1>11, <2>1 DEF SendCursor, CursorInv, CursorWritten, Pair
  <2>4. CursorNotLost' /\ OutdatedRead'
    BY <1>11, <2>1, <2>3 DEF SendCursor, Goto, CursorInv, CursorNotLost, CursorNoticed,
                             OutdatedRead, Pair
  <2> QED
    BY <2>2, <2>4 DEF CursorInv
<1>12. ASSUME NEW k \in Cursors, SetCursor(k) PROVE CursorInv'
  BY <1>12 DEF SetCursor, CursorInv, CursorWritten,
     OutdatedRead, CursorNotLost, CursorNoticed, TypeOK, CursorTypes
<1>13. CASE SetCursorBuffer
  BY <1>13 DEF SetCursorBuffer, CursorInv, CursorWritten,
     OutdatedRead, CursorNotLost, CursorNoticed, TypeOK, CursorTypes,
               Running, serverVars
<1>14. CASE SetCursorFlag
  BY <1>14 DEF SetCursorFlag, CursorInv, CursorWritten,
     OutdatedRead, CursorNotLost, CursorNoticed, Running, serverVars
<1>15. CASE NotifyCursor
  BY <1>15 DEF NotifyCursor, SetEvent, CursorInv, CursorWritten,
     OutdatedRead, CursorNotLost, CursorNoticed, Running, Pair
<1>16. CASE UseFreedDesktop
  BY <1>16 DEF UseFreedDesktop, CursorInv, CursorWritten,
     OutdatedRead, CursorNotLost, CursorNoticed, Running
<1>17. CASE ClipStep \/ Quit \/ ChangeClip
  BY <1>1, <1>17 DEF ClipStep, SetClipFlag, NotifyClip, SetEvent, Quit, ChangeClip,
                     Running, serverVars
<1>18. ASSUME NEW b \in Binders, BinderStep(b) \/ QueueFrame(b)
       PROVE  CursorInv'
  BY <1>1, <1>18 DEF BinderStep, SetFrameFlag, NotifyFrame, QueueFrame, SetEvent,
                     Running, serverVars
<1>19. ASSUME NEW c \in Clients, Connect(c) \/ PeerSends(c)
       PROVE  CursorInv'
  BY <1>1, <1>19 DEF Connect, PeerSends, Running, serverVars
<1>20. CASE UNCHANGED vars
  BY <1>1, <1>20 DEF vars, Running, serverVars
<1> QED
  BY <1>2, <1>3, <1>4, <1>5, <1>6, <1>7, <1>8, <1>9, <1>10, <1>11, <1>12, <1>13,
     <1>14, <1>15, <1>16, <1>17, <1>18, <1>19, <1>20
     DEF Next, ServerStep, Environment, CursorStep

\* However setCursor, which writes its fields one by one, interleaves with
\* processCursor, which reads them one by one, a cursor that was lost or torn
\* on the way is still due to be sent.
THEOREM CursorNotLostCorrect == Spec => []CursorNotLost
<1>1. Init => CursorInv
  BY DEF Init, CursorInv, CursorWritten, OutdatedRead, CursorNotLost, CursorNoticed, Pair
<1>2. CursorInv => CursorNotLost
  BY DEF CursorInv
<1> QED
  BY <1>1, <1>2, NextCursor, TypeCorrect, PTL DEF Spec

\* A frame that waits in the queue is due to be handled after every step.
LEMMA NextFrame ==
  TypeOK /\ DesktopShape /\ FrameNotLost /\ [Next]_vars => FrameNotLost'
<1> SUFFICES ASSUME TypeOK, DesktopShape, FrameNotLost, [Next]_vars
             PROVE  FrameNotLost'
  OBVIOUS
<1>1. ASSUME queued' => queued, UNCHANGED <<frameChanged, binder>>,
             eventFd => eventFd', Running' => Running,
             pc' = pc \/ pc \notin BeforeFrames \cup {"frameClear", "frameUpdate",
             "frameLock"}
      PROVE  FrameNotLost'
  BY <1>1 DEF FrameNotLost, FrameNoticed
<1>2. CASE Top \/ Select \/ SelectReturnsEarly \/ Accept
  BY <1>1, <1>2 DEF Top, Reap, StopDesktop, Select, SelectReturnsEarly, Accept, Running,
                    BeforeFrames, CursorPcs, frameVars
<1>3. CASE Exit \/ AcceptFails \/ SelectFails
  BY <1>3 DEF Exit, AcceptFails, SelectFails, Leave, FrameNotLost, FrameNoticed, Running
<1>4. ASSUME NEW c \in Clients, ServeClient(c) PROVE FrameNotLost'
  BY <1>1, <1>4 DEF ServeClient, CompletesHandshake, StartDesktop, Resizes,
                    RecreateDisplay, SendsMessage, Leaves, Running, frameVars
<1>5. CASE CheckClip \/ ClearClip \/ AnnounceClip
  BY <1>1, <1>5 DEF CheckClip, ClearClip, AnnounceClip, Goto, Running, BeforeFrames,
                    CursorPcs, frameVars
<1>6. CASE ReadEvent
  BY <1>6 DEF ReadEvent, FrameNotLost, FrameNoticed, Running, BeforeFrames, CursorPcs,
              frameVars
<1>7. CASE CheckCursor \/ ClearCursor \/ ReadCursor \/ SendCursor
  BY <1>7 DEF CheckCursor, ClearCursor, ReadCursor, SendCursor, Goto, FrameNotLost,
              FrameNoticed,
              Running, BeforeFrames, CursorPcs, frameVars
<1>8. CASE CheckFrame
  BY <1>8 DEF CheckFrame, Goto, FrameNotLost, FrameNoticed, DesktopShape, Running,
              BeforeFrames,
              CursorPcs, frameVars
<1>9. CASE ClearFrame \/ UpdateDisplay \/ LockFrame
  BY <1>9 DEF ClearFrame, UpdateDisplay, LockFrame, Goto, FrameNotLost, FrameNoticed
<1>10. ASSUME NEW b \in Binders, QueueFrame(b) PROVE FrameNotLost'
  BY <1>10 DEF QueueFrame, FrameNotLost, FrameNoticed, TypeOK, FrameTypes
<1>11. ASSUME NEW b \in Binders, SetFrameFlag(b) PROVE FrameNotLost'
  BY <1>11 DEF SetFrameFlag, FrameNotLost, FrameNoticed, TypeOK, FrameTypes
<1>12. ASSUME NEW b \in Binders, NotifyFrame(b) PROVE FrameNotLost'
  <2>1. \A d \in Binders : binder[d] = "avail" => binder'[d] = "avail"
    BY <1>12 DEF NotifyFrame, TypeOK, FrameTypes
  <2> QED
    BY <1>12, <2>1 DEF NotifyFrame, SetEvent, FrameNotLost, FrameNoticed, Running
<1>13. CASE CursorStep \/ ClipStep \/ Quit \/ ChangeClip
  BY <1>1, <1>13 DEF CursorStep, ClipStep, SetCursorBuffer, SetCursorFlag, NotifyCursor,
     SetClipFlag, NotifyClip, SetEvent, Quit, ChangeClip, Running, serverVars, frameVars
<1>14. CASE UseFreedDesktop
  BY <1>14 DEF UseFreedDesktop, FrameNotLost, FrameNoticed, Running
<1>15. ASSUME NEW k \in Cursors, SetCursor(k) PROVE FrameNotLost'
  BY <1>1, <1>15 DEF SetCursor, Running, serverVars, frameVars
<1>16. ASSUME NEW c \in Clients, Connect(c) \/ PeerSends(c) PROVE FrameNotLost'
  BY <1>1, <1>16 DEF Connect, PeerSends, Running, serverVars, frameVars
<1>17. CASE UNCHANGED vars
  BY <1>1, <1>17 DEF vars, Running, serverVars, frameVars
<1> QED
  BY <1>2, <1>3, <1>4, <1>5, <1>6, <1>7, <1>8, <1>9, <1>10, <1>11, <1>12, <1>13,
     <1>14, <1>15, <1>16, <1>17 DEF Next, ServerStep, Environment, BinderStep

\* A frame in the queue is never forgotten, however many binder threads report
\* frames and wherever the server thread is in its pass.
THEOREM FrameNotLostCorrect == Spec => []FrameNotLost
<1>1. Init => FrameNotLost
  BY DEF Init, FrameNotLost, FrameNoticed
<1> QED
  BY <1>1, NextFrame, TypeCorrect, ShapeCorrect, PTL DEF Spec

\* A clipboard change a ready client waits for is due to be announced.
LEMMA NextClip ==
  TypeOK /\ DesktopShape /\ ClipNotLost /\ [Next]_vars => ClipNotLost'
<1> SUFFICES ASSUME TypeOK, DesktopShape, ClipNotLost, [Next]_vars
             PROVE  ClipNotLost'
  OBVIOUS
<1>1. ASSUME clipDue' \subseteq clipDue, UNCHANGED <<clipboardChanged, clipPc>>,
             eventFd => eventFd', Running' => Running,
             pc' = pc \/ pc \notin BeforeClip \cup {"clipClear", "clipSend"}
      PROVE  ClipNotLost'
  BY <1>1 DEF ClipNotLost, ClipNoticed
<1>2. CASE Top \/ Select \/ SelectReturnsEarly \/ Accept
  BY <1>1, <1>2 DEF Top, Select, SelectReturnsEarly, Accept, Close, Running,
                    BeforeClip, CursorPcs, FramePcs, clipVars
<1>3. CASE Exit \/ AcceptFails \/ SelectFails
  BY <1>3 DEF Exit, AcceptFails, SelectFails, Leave, ClipNotLost, ClipNoticed, Running
<1>4. ASSUME NEW c \in Clients, ServeClient(c) PROVE ClipNotLost'
  BY <1>1, <1>4 DEF ServeClient, CompletesHandshake, Resizes, SendsMessage, Leaves,
                    Close, Running
<1>5. CASE ReadEvent
  BY <1>5 DEF ReadEvent, ClipNotLost, ClipNoticed, Running, BeforeClip, CursorPcs,
              FramePcs, clipVars
<1>6. CASE CheckCursor \/ ClearCursor \/ ReadCursor \/ SendCursor
  BY <1>6 DEF CheckCursor, ClearCursor, ReadCursor, SendCursor, Goto, ClipNotLost,
              ClipNoticed,
              Running, BeforeClip, CursorPcs, FramePcs, clipVars
<1>7. CASE CheckFrame \/ ClearFrame \/ UpdateDisplay \/ LockFrame
  BY <1>7 DEF CheckFrame, ClearFrame, UpdateDisplay, LockFrame, Goto, ClipNotLost,
              ClipNoticed,
              Running, BeforeClip, CursorPcs, FramePcs, clipVars
<1>8. CASE CheckClip \/ ClearClip
  BY <1>8 DEF CheckClip, ClearClip, Goto, ClipNotLost, ClipNoticed, Running,
              BeforeClip, CursorPcs,
              FramePcs, clipVars
<1>9. CASE AnnounceClip
  BY <1>9 DEF AnnounceClip, Goto, ClipNotLost, ClipNoticed, DesktopShape, Running
<1>10. CASE ChangeClip
  BY <1>10 DEF ChangeClip, ClipNotLost, ClipNoticed
<1>11. CASE SetClipFlag \/ NotifyClip
  BY <1>11 DEF SetClipFlag, NotifyClip, SetEvent, ClipNotLost, ClipNoticed, Running,
               serverVars
<1>12. CASE UseFreedDesktop
  BY <1>12 DEF UseFreedDesktop, ClipNotLost, ClipNoticed, Running
<1>13. CASE CursorStep \/ Quit
  BY <1>1, <1>13 DEF CursorStep, SetCursorBuffer, SetCursorFlag, NotifyCursor, SetEvent,
                     Quit, Running, serverVars, clipVars
<1>14. ASSUME NEW b \in Binders, BinderStep(b) \/ QueueFrame(b) PROVE ClipNotLost'
  BY <1>1, <1>14 DEF BinderStep, SetFrameFlag, NotifyFrame, QueueFrame, SetEvent,
                     Running, serverVars, clipVars
<1>15. ASSUME NEW k \in Cursors, SetCursor(k) PROVE ClipNotLost'
  BY <1>1, <1>15 DEF SetCursor, Running, serverVars, clipVars
<1>16. ASSUME NEW c \in Clients, Connect(c) \/ PeerSends(c) PROVE ClipNotLost'
  BY <1>1, <1>16 DEF Connect, PeerSends, Running, serverVars, clipVars
<1>17. CASE UNCHANGED vars
  BY <1>1, <1>17 DEF vars, Running, serverVars, clipVars
<1> QED
  BY <1>2, <1>3, <1>4, <1>5, <1>6, <1>7, <1>8, <1>9, <1>10, <1>11, <1>12, <1>13,
     <1>14, <1>15, <1>16, <1>17 DEF Next, ServerStep, Environment, ClipStep

\* A ready client that stays is never left waiting for a clipboard change that
\* no thread has in hand.
THEOREM ClipNotLostCorrect == Spec => []ClipNotLost
<1>1. Init => ClipNotLost
  BY DEF Init, ClipNotLost, ClipNoticed
<1> QED
  BY <1>1, NextClip, TypeCorrect, ShapeCorrect, PTL DEF Spec
=============================================================================

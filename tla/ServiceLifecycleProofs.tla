----------------------- MODULE ServiceLifecycleProofs -----------------------
(***************************************************************************)
(* Theorems about ServiceLifecycle, for any number of starts and any       *)
(* sizes.                                                                  *)
(***************************************************************************)
EXTENDS ServiceLifecycle, TLAPS

-----------------------------------------------------------------------------
(***************************************************************************)
(* The inductive invariant.                                                *)
(***************************************************************************)

\* What the system holds follows the settings, except between the change of the
\* settings and the end of cleanup; what cleanup leaves behind is nothing.
Matched ==
  /\ displays = (IF mDisplay = "live" THEN 1 ELSE 0)
  /\ main \in {"launch", "sleep"} => ~mIsRunning
  /\ main \notin {"idle", "launch", "sleep"} => mIsRunning
  /\ ~mIsRunning => mDisplay # "live" /\ listeners = 0
  /\ mIsRunning => listeners = (IF set.clip THEN 1 ELSE 0)
  /\ mIsRunning /\ main # "cleanup" =>
       (mDisplay = "live" <=> ~set.mirror) /\ forceNull = set.cursor

\* It does so until onError has released everything, in a process about to end.
ResourceShape ==
  /\ mDisplay = "live" => displays # 0
  /\ Matched \/ Released

\* A thread whose listener is open has the name of the socket.
NameShape == \A t \in Threads : Listens(t) => name = t

\* A server ends because it is told to, or to report a failure; and a running service
\* has started one.
QuitShape ==
  /\ \A t \in Threads :
       /\ pc[t] \in {"done"} \cup Ending /\ ret[t] = 0 => gCaughtSignal
       /\ pc[t] = "done" => ret[t] = 0
       /\ pc[t] \in Reporting => ret[t] # 0
  /\ mIsRunning => \E t \in Threads : pc[t] # "none"

\* The places of a thread in which it uses the globals, and those in which they may
\* refer to it: from where it sets them to where it resets them.
Uses       == Serving \cup {"end", "endProps", "endSet"}
HasDesktop == {"startProps", "startSet", "begin", "server", "bind", "event", "drop"} \cup Uses
HasEnv     == (Starting \ {"initialize"}) \cup Uses \cup {"drop", "forget"}

\* The globals refer to nobody who has reset them, and a server that listens loses its
\* desktop only to a thread that has failed.
GlobalShape ==
  /\ desktop \in Threads => pc[desktop] \in HasDesktop
  /\ gEnv \in Threads => pc[gEnv] \in HasEnv
  /\ \A t \in Threads :
       pc[t] \in Uses => desktop # None \/ \E u \in Threads \ {t} : ret[u] # 0

ServiceInv == TypeOK /\ ResourceShape /\ NameShape /\ QuitShape /\ GlobalShape

-----------------------------------------------------------------------------
(***************************************************************************)
(* The actions by what they leave alone.                                   *)
(***************************************************************************)

\* A command of Java's main thread, or a step of it, starts no more than one thread.
MainAction == Command \/ MainStep

\* The steps of onError, and all other steps of a server thread.
ReportAction(t) == ReportQuits(t) \/ ReportReleases(t) \/ ReportStops(t)

StillAction(t) ==
  ReadPropsFails(t) \/ CallsBackAstray(t) \/ ResizesAstray(t) \/ ServesAstray(t)
    \/ NoEventFd(t) \/ ReportThrows(t)

ServerAction(t) ==
  \/ Initialize(t) \/ AssignDesktop(t) \/ ReadProps(t) \/ SetProps(t)
  \/ Begin(t) \/ MakeServer(t) \/ Bind(t) \/ BindFails(t) \/ GetEventFd(t)
  \/ Loop(t) \/ Wake(t) \/ ServeFails(t) \/ NewSurface(t) \/ ClientResized(t)
  \/ \E size \in Sizes : ClientResizes(t, size)
  \/ End(t) \/ Drop(t) \/ Forget(t) \/ Close(t)

\* The next-state relation is the kinds of actions.
LEMMA NextSplit ==
  Next => \/ MainAction
          \/ \E t \in Threads : ReportAction(t) \/ StillAction(t) \/ ServerAction(t)
BY DEF Next, MainAction, ReportAction, StillAction, ServerAction, StartStep, ServeStep,
       EndStep, PropsStep

\* The end of the process changes nothing else.
LEMMA StillKeeps ==
  ASSUME NEW t \in Threads, StillAction(t)
  PROVE  /\ alive' = FALSE
         /\ UNCHANGED <<main, javaVars, resourceVars, nativeVars, pc, serverVars, propVars>>
BY DEF StillAction, ReadPropsFails, CallsBackAstray, ResizesAstray, ServesAstray,
       NoEventFd, ReportThrows, Dies

\* A server thread's step touches neither main nor what the system holds.
LEMMA ServerKeepsJava ==
  ASSUME NEW t \in Threads, ServerAction(t)
  PROVE  UNCHANGED <<main, mIsRunning, set, resourceVars, gCaughtSignal>>
BY DEF ServerAction, Initialize, AssignDesktop, ReadProps, SetProps, Begin, MakeServer,
       Bind, BindFails, GetEventFd, Loop, Wake, ServeFails, NewSurface, ClientResized,
       ClientResizes, End, Drop, Forget, Close,
       javaVars, resourceVars, nativeVars, propVars

\* A server thread's step moves its own program counter alone, along the code, and it
\* fails for good.
LEMMA ServerMoves ==
  ASSUME TypeOK, NEW t \in Threads, ServerAction(t)
  PROVE  /\ pc' \in [Threads -> Places] /\ ret' \in [Threads -> {0, 3}]
         /\ \A u \in Threads \ {t} : pc'[u] = pc[u] /\ ret'[u] = ret[u]
         /\ ret[t] # 0 => ret'[t] # 0
         /\ pc[t] \notin {"none", "done"} \cup Reporting
         /\ pc'[t] # "none"
         /\ pc'[t] \in Ending /\ ret'[t] = 0 => gCaughtSignal \/ pc[t] \in Ending
         /\ pc'[t] = "done" => pc[t] = "close" /\ ret'[t] = 0
         /\ pc'[t] \in Reporting => ret'[t] # 0
<1> USE DEF Places, Starting, Serving, Ending, Reporting, Goto, serverVars
<1> HIDE DEF TypeOK
<1>0. pc \in [Threads -> Places] /\ ret \in [Threads -> {0, 3}]
  BY DEF TypeOK, ThreadTypes
<1>1. CASE Initialize(t) \/ AssignDesktop(t) \/ Begin(t) \/ MakeServer(t)
  BY <1>0, <1>1 DEF Initialize, AssignDesktop, Begin, MakeServer
<1>2. CASE ReadProps(t)
  BY <1>0, <1>2 DEF ReadProps, ReadsProps
<1>3. CASE SetProps(t)
  BY <1>0, <1>3 DEF SetProps, SetsProps
<1>4. CASE Bind(t) \/ GetEventFd(t)
  BY <1>0, <1>4 DEF Bind, GetEventFd
<1>5. CASE BindFails(t)
  BY <1>0, <1>5 DEF BindFails
<1>6. CASE ServeFails(t)
  BY <1>0, <1>6 DEF ServeFails
<1>7. CASE Loop(t)
  BY <1>0, <1>7 DEF Loop
<1>8. CASE Wake(t) \/ NewSurface(t) \/ ClientResized(t)
           \/ \E size \in Sizes : ClientResizes(t, size)
  BY <1>0, <1>8 DEF Wake, NewSurface, ClientResized, ClientResizes
<1>9. CASE End(t)
  BY <1>0, <1>9 DEF End
<1>10. CASE Drop(t) \/ Forget(t)
  BY <1>0, <1>10 DEF Drop, Forget
<1>11. CASE Close(t)
  BY <1>0, <1>11 DEF Close
<1> QED BY <1>1, <1>2, <1>3, <1>4, <1>5, <1>6, <1>7, <1>8, <1>9, <1>10, <1>11
        DEF ServerAction

\* The steps of onError follow each other, and change no global but the flag.
LEMMA ReportMoves ==
  ASSUME TypeOK, NEW t \in Threads, ReportAction(t)
  PROVE  /\ pc' \in [Threads -> Places]
         /\ \A u \in Threads \ {t} : pc'[u] = pc[u]
         /\ pc[t] \in {"report", "release", "stop"}
         /\ pc'[t] \in {"release", "stop", "throw"}
         /\ pc[t] = "report" \/ Released'
         /\ UNCHANGED <<alive, main, set, mSize, desktop, gEnv, name, serverVars, propVars>>
         /\ gCaughtSignal' \in BOOLEAN /\ (gCaughtSignal => gCaughtSignal')
         /\ mIsRunning' \in BOOLEAN /\ (mIsRunning' => mIsRunning)
<1>0. /\ pc \in [Threads -> Places] /\ gCaughtSignal \in BOOLEAN /\ mIsRunning \in BOOLEAN
      /\ "release" \in Places /\ "stop" \in Places /\ "throw" \in Places
  BY DEF TypeOK, ThreadTypes, NativeTypes, JavaTypes, Places, Reporting
<1> USE DEF Goto, javaVars, nativeVars, resourceVars, Released
<1>1. CASE ReportQuits(t)
  BY <1>0, <1>1 DEF ReportQuits
<1>2. CASE ReportReleases(t)
  BY <1>0, <1>2 DEF ReportReleases
<1>3. CASE ReportStops(t)
  BY <1>0, <1>3 DEF ReportStops
<1> QED BY <1>1, <1>2, <1>3 DEF ReportAction

\* The main thread moves no program counter but that of a thread it starts.
LEMMA MainMoves ==
  ASSUME TypeOK, MainAction
  PROVE  /\ UNCHANGED serverVars
         /\ \/ UNCHANGED pc
            \/ /\ main = "launch"
               /\ \E t \in Threads : /\ pc[t] = "none"
                                     /\ pc' = [pc EXCEPT ![t] = "initialize"]
BY DEF MainAction, Command, MainStep, StartCommand, RestartCommand, ResizeCommand,
       Destroy, ResizeDisplay, ChangeDPI, ResizeFails, MainReadsProps, MainSetsProps,
       Cleanup, Sleep, Launch, Started, MainGoto

\* No thread leaves the last steps of onError.
LEMMA ReleasedStays ==
  ASSUME TypeOK, Next, Released
  PROVE  Released'
<1>1. PICK t \in Threads : pc[t] \in {"stop", "throw"}
  BY DEF Released
<1>2. pc \in [Threads -> Places]
  BY DEF TypeOK, ThreadTypes
<1>3. CASE MainAction
  BY <1>1, <1>2, <1>3, MainMoves DEF Released
<1>4. ASSUME NEW u \in Threads, ReportAction(u)
      PROVE  Released'
  <2>1. CASE u = t
    BY <1>1, <1>4, <2>1, ReportMoves
  <2>2. CASE u # t
    BY <1>1, <1>4, <2>2, ReportMoves DEF Released
  <2> QED BY <2>1, <2>2
<1>5. ASSUME NEW u \in Threads, StillAction(u)
      PROVE  Released'
  BY <1>1, <1>5, StillKeeps DEF Released
<1>6. ASSUME NEW u \in Threads, ServerAction(u)
      PROVE  Released'
  <2>1. u # t
    BY <1>1, <1>6, ServerMoves DEF Reporting
  <2> QED BY <1>1, <1>6, <2>1, ServerMoves DEF Released
<1> QED BY <1>3, <1>4, <1>5, <1>6, NextSplit

-----------------------------------------------------------------------------
(***************************************************************************)
(* Type correctness.                                                       *)
(***************************************************************************)

\* What a thread passes to setDisplayProps, and what a desktop gets.
LEMMA GiveTypes ==
  ASSUME TypeOK, NEW w \in Threads \cup {Main}, GiveProps(w)
  PROVE  /\ arg' \in [Threads \cup {Main} -> Sizes \cup {"mirror", None}]
         /\ props' \in [Threads -> Sizes \cup {"mirror", None}]
<1>1. /\ arg \in [Threads \cup {Main} -> Sizes \cup {"mirror", None}]
      /\ props \in [Threads -> Sizes \cup {"mirror", None}]
      /\ desktop \in Threads \cup {None}
  BY DEF TypeOK, ThreadTypes, NativeTypes
<1> QED BY <1>1 DEF GiveProps

LEMMA ReadTypes ==
  ASSUME TypeOK, NEW w \in Threads \cup {Main}, arg' = [arg EXCEPT ![w] = DisplayProps]
  PROVE  arg' \in [Threads \cup {Main} -> Sizes \cup {"mirror", None}]
<1>1. /\ arg \in [Threads \cup {Main} -> Sizes \cup {"mirror", None}]
      /\ mSize \in Sizes
  BY DEF TypeOK, ThreadTypes, JavaTypes
<1>2. DisplayProps \in Sizes \cup {"mirror", None}
  BY <1>1 DEF DisplayProps
<1> QED BY <1>1, <1>2

\* The types of the native globals and of what threads pass on.
LEMMA ServerTypesKept ==
  ASSUME TypeOK, ResourceTypes', NEW t \in Threads, ServerAction(t)
  PROVE  TypeOK'
<1>0. gCaughtSignal' \in BOOLEAN /\ UNCHANGED <<main, mIsRunning, set>>
  BY ServerKeepsJava DEF TypeOK, NativeTypes
<1>1. pc' \in [Threads -> Places] /\ ret' \in [Threads -> {0, 3}]
  BY ServerMoves
<1>2. /\ alive' \in BOOLEAN /\ mSize' \in Sizes
      /\ desktop' \in Threads \cup {None} /\ gEnv' \in Threads \cup {None}
      /\ name' \in Threads \cup {None}
      /\ given' \in [Threads -> Threads \cup {None}]
  BY DEF TypeOK, JavaTypes, NativeTypes, ThreadTypes, ServerAction, Initialize,
         AssignDesktop, ReadProps, SetProps, Begin, MakeServer, Bind, BindFails,
         GetEventFd, Loop, Wake, ServeFails, NewSurface, ClientResized, ClientResizes,
         End, Drop, Forget, Close, javaVars, nativeVars, serverVars
<1>3. \/ UNCHANGED <<arg, props>>
      \/ GiveProps(t)
      \/ arg' = [arg EXCEPT ![t] = DisplayProps] /\ UNCHANGED props
  BY DEF ServerAction, Initialize, AssignDesktop, ReadProps, SetProps, Begin, MakeServer,
         Bind, BindFails, GetEventFd, Loop, Wake, ServeFails, NewSurface, ClientResized,
         ClientResizes, End, Drop, Forget, Close, propVars
<1>4. /\ arg' \in [Threads \cup {Main} -> Sizes \cup {"mirror", None}]
      /\ props' \in [Threads -> Sizes \cup {"mirror", None}]
  BY <1>3, GiveTypes, ReadTypes DEF TypeOK, ThreadTypes
<1> QED BY <1>0, <1>1, <1>2, <1>4 DEF TypeOK, JavaTypes, NativeTypes, ThreadTypes

LEMMA ReportTypesKept ==
  ASSUME TypeOK, ResourceTypes', NEW t \in Threads, ReportAction(t)
  PROVE  TypeOK'
BY ReportMoves DEF TypeOK, JavaTypes, NativeTypes, ThreadTypes, serverVars, propVars

\* Releasing everything leaves nothing that went by the settings.
LEMMA ReleaseTypes ==
  ASSUME TypeOK, ResourceShape, ReleaseAll
  PROVE  /\ mDisplay' \in {"null", "released"} /\ forceNull' \in BOOLEAN
         /\ displays' \in Nat /\ listeners' \in Nat
         /\ Matched => displays' = 0 /\ listeners' = 0
<1>1. /\ displays \in Nat /\ listeners \in Nat /\ forceNull \in BOOLEAN
      /\ mDisplay \in {"null", "live", "released"}
      /\ set.clip \in BOOLEAN /\ set.cursor \in BOOLEAN
      /\ mDisplay = "live" => displays # 0
  BY DEF TypeOK, JavaTypes, ResourceTypes, ResourceShape, Settings
<1>2. mDisplay' \in {"null", "released"} /\ forceNull' \in BOOLEAN
  BY <1>1 DEF ReleaseAll
<1>3. displays' \in Nat /\ listeners' \in Nat
  BY <1>1 DEF ReleaseAll, OneLess
<1>4. Matched => displays' = 0 /\ listeners' = 0
  BY <1>1 DEF Matched, ReleaseAll, OneLess
<1> QED BY <1>2, <1>3, <1>4

\* The main thread keeps what the system holds in step with the settings.
LEMMA MainKeepsMatched ==
  ASSUME TypeOK, ResourceShape, Matched, MainAction
  PROVE  Matched' /\ displays' \in 0..1 /\ listeners' \in 0..1
<1> USE DEF MainGoto, Matched, javaVars, resourceVars
<1>0. /\ displays \in Nat /\ listeners \in Nat /\ forceNull \in BOOLEAN
      /\ mDisplay \in {"null", "live", "released"}
      /\ mIsRunning \in BOOLEAN /\ set \in Settings
      /\ \A s \in Settings : s.mirror \in BOOLEAN /\ s.cursor \in BOOLEAN /\ s.clip \in BOOLEAN
  BY DEF TypeOK, JavaTypes, ResourceTypes, Settings
<1>1. CASE \E s \in Settings, size \in Sizes : StartCommand(s, size)
  BY <1>0, <1>1 DEF StartCommand
<1>2. CASE \E s \in Settings : RestartCommand(s)
  BY <1>0, <1>2 DEF RestartCommand, UpdateListener, OneLess
<1>3. CASE \E s \in Settings, size \in Sizes : ResizeCommand(s, size)
  BY <1>0, <1>3 DEF ResizeCommand, UpdateListener, OneLess
<1>4. CASE Destroy
  BY <1>0, <1>4 DEF Destroy
<1>5. CASE ResizeDisplay \/ ChangeDPI \/ ResizeFails
  BY <1>0, <1>5 DEF ResizeDisplay, ChangeDPI, ResizeFails
<1>6. CASE MainReadsProps \/ MainSetsProps
  BY <1>0, <1>6 DEF MainReadsProps, MainSetsProps
<1>7. CASE Cleanup
  <2>1. /\ mDisplay' \in {"null", "released"} /\ displays' = 0 /\ listeners' = 0
    BY <1>0, <1>7, ReleaseTypes DEF Cleanup
  <2> QED BY <1>7, <2>1 DEF Cleanup
<1>8. CASE Sleep
  BY <1>0, <1>8 DEF Sleep
<1>9. CASE Launch
  BY <1>0, <1>9 DEF Launch, ShowCursor
<1> QED BY <1>1, <1>2, <1>3, <1>4, <1>5, <1>6, <1>7, <1>8, <1>9
        DEF MainAction, Command, MainStep

\* Whatever onError did meanwhile, the main thread only releases what is there.
LEMMA MainKeepsTypes ==
  ASSUME TypeOK, ResourceShape, MainAction
  PROVE  /\ mDisplay' \in {"null", "live", "released"} /\ forceNull' \in BOOLEAN
         /\ displays' \in Nat /\ listeners' \in Nat
         /\ mDisplay' = "live" => displays' # 0
         /\ main' \in {"idle", "launch", "cleanup", "sleep", "resize", "density",
                       "props", "set"}
         /\ alive' \in BOOLEAN /\ mIsRunning' \in BOOLEAN
         /\ set' \in Settings /\ mSize' \in Sizes
<1> USE DEF MainGoto, JavaTypes, javaVars, resourceVars
<1>0. /\ displays \in Nat /\ listeners \in Nat /\ forceNull \in BOOLEAN
      /\ mDisplay \in {"null", "live", "released"}
      /\ mDisplay = "live" => displays # 0
      /\ JavaTypes
      /\ \A s \in Settings : s.mirror \in BOOLEAN /\ s.cursor \in BOOLEAN /\ s.clip \in BOOLEAN
  BY DEF TypeOK, ResourceTypes, ResourceShape, Settings
<1>1. CASE \E s \in Settings, size \in Sizes : StartCommand(s, size)
  BY <1>0, <1>1 DEF StartCommand
<1>2. CASE \E s \in Settings : RestartCommand(s)
  BY <1>0, <1>2 DEF RestartCommand, UpdateListener, OneLess
<1>3. CASE \E s \in Settings, size \in Sizes : ResizeCommand(s, size)
  BY <1>0, <1>3 DEF ResizeCommand, UpdateListener, OneLess
<1>4. CASE Destroy
  BY <1>0, <1>4 DEF Destroy
<1>5. CASE ResizeDisplay \/ ChangeDPI \/ ResizeFails
  BY <1>0, <1>5 DEF ResizeDisplay, ChangeDPI, ResizeFails
<1>6. CASE MainReadsProps \/ MainSetsProps
  BY <1>0, <1>6 DEF MainReadsProps, MainSetsProps
<1>7. CASE Cleanup
  <2>1. /\ mDisplay' \in {"null", "released"} /\ forceNull' \in BOOLEAN
        /\ displays' \in Nat /\ listeners' \in Nat
    BY <1>7, ReleaseTypes DEF Cleanup
  <2>2. main' = "sleep" /\ mIsRunning' = FALSE /\ UNCHANGED <<alive, set, mSize>>
    BY <1>7 DEF Cleanup
  <2> QED BY <1>0, <2>1, <2>2
<1>8. CASE Sleep
  BY <1>0, <1>8 DEF Sleep
<1>9. CASE Launch
  BY <1>0, <1>9 DEF Launch, ShowCursor
<1> QED BY <1>1, <1>2, <1>3, <1>4, <1>5, <1>6, <1>7, <1>8, <1>9
        DEF MainAction, Command, MainStep

\* Every step keeps the shape of the resources, and their types with it.
LEMMA ResourcesKept ==
  ASSUME TypeOK, ResourceShape, Next
  PROVE  ResourceShape' /\ ResourceTypes'
<1>1. CASE MainAction
  <2>1. Matched => Matched' /\ displays' \in 0..1 /\ listeners' \in 0..1
    BY <1>1, MainKeepsMatched
  <2>2. Released => Released'
    BY ReleasedStays
  <2>3. \/ Matched' /\ displays' <= 1 /\ listeners' <= 1
        \/ Released'
    BY <2>1, <2>2 DEF ResourceShape
  <2> QED BY <1>1, <2>3, MainKeepsTypes DEF ResourceShape, ResourceTypes
<1>2. ASSUME UNCHANGED <<main, mIsRunning, set, resourceVars>>
      PROVE  ResourceShape' /\ ResourceTypes'
  <2>1. Matched => Matched'
    BY <1>2 DEF Matched, resourceVars
  <2>2. Released => Released'
    BY ReleasedStays
  <2> QED BY <1>2, <2>1, <2>2
          DEF ResourceShape, ResourceTypes, resourceVars, TypeOK
<1>3. ASSUME NEW t \in Threads, ReportAction(t)
      PROVE  ResourceShape' /\ ResourceTypes'
  <2>1. CASE ReportQuits(t)
    BY <1>2, <2>1 DEF ReportQuits, javaVars
  <2>2. CASE ReportReleases(t)
    <3>1. Released'
      <4>1. pc \in [Threads -> Places]
        BY DEF TypeOK, ThreadTypes
      <4> QED BY <2>2, <4>1 DEF ReportReleases, Goto, Released
    <3>2. ReleaseAll
      BY <2>2 DEF ReportReleases
    <3> QED BY <3>1, <3>2, ReleaseTypes DEF ResourceShape, ResourceTypes
  <2>3. CASE ReportStops(t)
    <3>1. Released'
      BY <1>3, <2>3, ReportMoves DEF ReportStops, Goto
    <3> QED BY <2>3, <3>1 DEF ReportStops, ResourceShape, ResourceTypes, resourceVars, TypeOK
  <2> QED BY <1>3, <2>1, <2>2, <2>3 DEF ReportAction
<1>4. ASSUME NEW t \in Threads, StillAction(t)
      PROVE  ResourceShape' /\ ResourceTypes'
  BY <1>2, <1>4, StillKeeps DEF javaVars
<1>5. ASSUME NEW t \in Threads, ServerAction(t)
      PROVE  ResourceShape' /\ ResourceTypes'
  BY <1>2, <1>5, ServerKeepsJava
<1> QED BY <1>1, <1>3, <1>4, <1>5, NextSplit

\* Of the native globals the main thread sets only the flag of quit.
LEMMA MainKeepsNative ==
  ASSUME TypeOK, MainAction
  PROVE  /\ UNCHANGED <<desktop, gEnv, name>>
         /\ gCaughtSignal' \in BOOLEAN /\ (gCaughtSignal => gCaughtSignal')
         /\ ~mIsRunning /\ mIsRunning' => main = "launch" /\ main' = "idle"
         /\ \/ UNCHANGED <<arg, props>>
            \/ GiveProps(Main)
            \/ arg' = [arg EXCEPT ![Main] = DisplayProps] /\ UNCHANGED props
<1>1. gCaughtSignal \in BOOLEAN /\ mIsRunning \in BOOLEAN
  BY DEF TypeOK, NativeTypes, JavaTypes
<1> USE DEF MainGoto, javaVars, nativeVars, propVars
<1>2. CASE Command
  <2>1. UNCHANGED <<nativeVars, propVars, mIsRunning>>
    BY <1>2 DEF Command, StartCommand, RestartCommand, ResizeCommand, Destroy
  <2> QED BY <1>1, <2>1
<1>3. CASE ResizeDisplay \/ ChangeDPI \/ ResizeFails \/ Sleep
  BY <1>1, <1>3 DEF ResizeDisplay, ChangeDPI, ResizeFails, Sleep
<1>4. CASE MainReadsProps \/ MainSetsProps
  BY <1>1, <1>4 DEF MainReadsProps, MainSetsProps
<1>5. CASE Cleanup
  BY <1>1, <1>5 DEF Cleanup
<1>6. CASE Launch
  BY <1>1, <1>6 DEF Launch
<1> QED BY <1>2, <1>3, <1>4, <1>5, <1>6 DEF MainAction, MainStep

LEMMA MainTypesKept ==
  ASSUME TypeOK, ResourceShape, ResourceTypes', MainAction
  PROVE  TypeOK'
<1>1. pc' \in [Threads -> Places]
  BY MainMoves DEF TypeOK, ThreadTypes, Places, Starting
<1>2. given' \in [Threads -> Threads \cup {None}] /\ ret' \in [Threads -> {0, 3}]
  BY MainMoves DEF TypeOK, ThreadTypes, serverVars
<1>3. /\ arg' \in [Threads \cup {Main} -> Sizes \cup {"mirror", None}]
      /\ props' \in [Threads -> Sizes \cup {"mirror", None}]
  BY MainKeepsNative, GiveTypes, ReadTypes DEF TypeOK, ThreadTypes
<1> QED BY <1>1, <1>2, <1>3, MainKeepsTypes, MainKeepsNative
        DEF TypeOK, JavaTypes, NativeTypes, ThreadTypes

-----------------------------------------------------------------------------
(***************************************************************************)
(* The name and the flag.                                                  *)
(***************************************************************************)

\* Who listens has the name; only who has none takes it.
LEMMA NameKept ==
  ASSUME TypeOK, NameShape, NEW t \in Threads, ServerAction(t)
  PROVE  NameShape'
<1>0. /\ pc \in [Threads -> Places] /\ ret \in [Threads -> {0, 3}] /\ None \notin Threads
  BY DistinctAssumption DEF TypeOK, ThreadTypes
<1>1. \A u \in Threads \ {t} : Listens(u)' <=> Listens(u)
  BY ServerMoves DEF Listens
<1>2. CASE name' = name /\ (Listens(t)' => Listens(t))
  BY <1>1, <1>2 DEF NameShape
<1>3. CASE Bind(t)
  <2>1. name = None /\ name' = t
    BY <1>3 DEF Bind
  <2> QED BY <1>0, <1>1, <2>1 DEF NameShape
<1>4. CASE Close(t)
  <2>1. ~Listens(t)'
    BY <1>0, <1>4 DEF Close, Goto, Listens, Serving, serverVars
  <2>2. name = t \/ name' = name
    BY <1>4 DEF Close
  <2>3. ASSUME NEW u \in Threads, Listens(u)'
        PROVE  name' = u
    <3>1. u # t /\ Listens(u) /\ name = u
      BY <1>1, <2>1, <2>3 DEF NameShape
    <3> QED BY <2>2, <3>1
  <2> QED BY <2>3 DEF NameShape
<1> USE DEF Listens, Starting, Serving, Goto, nativeVars, serverVars
<1>5. CASE \/ Initialize(t) \/ AssignDesktop(t) \/ Begin(t) \/ MakeServer(t)
           \/ GetEventFd(t)
  BY <1>0, <1>2, <1>5 DEF Initialize, AssignDesktop, Begin, MakeServer, GetEventFd
<1>6. CASE ReadProps(t)
  BY <1>0, <1>2, <1>6 DEF ReadProps, ReadsProps
<1>7. CASE SetProps(t)
  BY <1>0, <1>2, <1>7 DEF SetProps, SetsProps
<1>8. CASE BindFails(t) \/ ServeFails(t)
  BY <1>0, <1>2, <1>8 DEF BindFails, ServeFails
<1>9. CASE Loop(t)
  BY <1>0, <1>2, <1>9 DEF Loop
<1>10. CASE \/ Wake(t) \/ NewSurface(t) \/ ClientResized(t)
            \/ \E size \in Sizes : ClientResizes(t, size)
  BY <1>0, <1>2, <1>10 DEF Wake, NewSurface, ClientResized, ClientResizes
<1>11. CASE End(t)
  BY <1>0, <1>2, <1>11 DEF End
<1>12. CASE Drop(t) \/ Forget(t)
  BY <1>0, <1>2, <1>12 DEF Drop, Forget
<1> QED BY <1>3, <1>4, <1>5, <1>6, <1>7, <1>8, <1>9, <1>10, <1>11, <1>12
        DEF ServerAction

\* A step of onError is of a thread that listens no more.
LEMMA ReportKeepsName ==
  ASSUME TypeOK, NameShape, NEW t \in Threads, ReportAction(t)
  PROVE  NameShape'
<1>1. /\ \A u \in Threads \ {t} : Listens(u)' <=> Listens(u)
      /\ name' = name
  BY ReportMoves DEF Listens, serverVars
<1>2. ~Listens(t)'
  BY ReportMoves DEF Listens, Serving
<1> QED BY <1>1, <1>2 DEF NameShape

\* A thread that the main thread starts does not listen yet.
LEMMA MainKeepsName ==
  ASSUME TypeOK, NameShape, MainAction
  PROVE  NameShape'
<1>1. pc \in [Threads -> Places] /\ name' = name /\ ret' = ret
  BY MainKeepsNative, MainMoves DEF TypeOK, ThreadTypes, serverVars
<1>2. CASE UNCHANGED pc
  BY <1>1, <1>2 DEF NameShape, Listens
<1>3. ASSUME NEW t \in Threads, pc' = [pc EXCEPT ![t] = "initialize"]
      PROVE  NameShape'
  BY <1>1, <1>3 DEF NameShape, Listens, Serving
<1> QED BY <1>2, <1>3, MainMoves

\* Threads end after quit, or with a failure to report.
LEMMA QuitKept ==
  ASSUME TypeOK, QuitShape, NEW t \in Threads, ServerAction(t)
  PROVE  QuitShape'
<1>1. gCaughtSignal' = gCaughtSignal /\ mIsRunning' = mIsRunning
  BY ServerKeepsJava
<1>2. ASSUME NEW u \in Threads
      PROVE  /\ pc'[u] \in {"done"} \cup Ending /\ ret'[u] = 0 => gCaughtSignal'
             /\ pc'[u] = "done" => ret'[u] = 0
             /\ pc'[u] \in Reporting => ret'[u] # 0
  <2>1. CASE u # t
    BY <1>1, <2>1, ServerMoves DEF QuitShape
  <2>2. CASE u = t
    <3>1. pc'[t] = "done" => pc[t] \in Ending
      BY ServerMoves DEF Ending
    <3>2. ret'[t] = 0 => ret[t] = 0
      BY ServerMoves
    <3> QED BY <1>1, <2>2, <3>1, <3>2, ServerMoves DEF QuitShape
  <2> QED BY <2>1, <2>2
<1>3. \A u \in Threads : pc[u] # "none" => pc'[u] # "none"
  BY ServerMoves
<1> QED BY <1>1, <1>2, <1>3 DEF QuitShape

LEMMA ReportKeepsQuit ==
  ASSUME TypeOK, QuitShape, NEW t \in Threads, ReportAction(t)
  PROVE  QuitShape'
<1>1. /\ gCaughtSignal => gCaughtSignal' 
      /\ mIsRunning' => mIsRunning
      /\ ret' = ret
  BY ReportMoves DEF serverVars
<1>2. ASSUME NEW u \in Threads
      PROVE  /\ pc'[u] \in {"done"} \cup Ending /\ ret'[u] = 0 => gCaughtSignal'
             /\ pc'[u] = "done" => ret'[u] = 0
             /\ pc'[u] \in Reporting => ret'[u] # 0
  <2>1. CASE u # t
    BY <1>1, <2>1, ReportMoves DEF QuitShape
  <2>2. CASE u = t
    BY <1>1, <2>2, ReportMoves DEF QuitShape, Ending, Reporting
  <2> QED BY <2>1, <2>2
<1>3. \A u \in Threads : pc[u] # "none" => pc'[u] # "none"
  BY ReportMoves
<1> QED BY <1>1, <1>2, <1>3 DEF QuitShape

\* Running begins with a thread.
LEMMA MainKeepsQuit ==
  ASSUME TypeOK, QuitShape, MainAction
  PROVE  QuitShape'
<1>1. /\ pc \in [Threads -> Places] /\ (gCaughtSignal => gCaughtSignal')
      /\ ~mIsRunning /\ mIsRunning' => main = "launch" /\ main' = "idle"
      /\ ret' = ret
  BY MainKeepsNative, MainMoves DEF TypeOK, ThreadTypes, serverVars
<1>2. ASSUME NEW t \in Threads, pc[t] = "none", pc' = [pc EXCEPT ![t] = "initialize"]
      PROVE  QuitShape'
  <2>1. pc'[t] = "initialize" /\ \A u \in Threads \ {t} : pc'[u] = pc[u]
    BY <1>1, <1>2
  <2> QED BY <1>1, <2>1 DEF QuitShape, Ending, Reporting
<1>3. CASE UNCHANGED pc
  <2>1. main = "launch" => main' # "idle"
    BY <1>1, <1>3
       DEF MainAction, Command, MainStep, StartCommand, RestartCommand, ResizeCommand,
           Destroy, ResizeDisplay, ChangeDPI, ResizeFails, MainReadsProps,
           MainSetsProps, Cleanup, Sleep, Launch, Started, MainGoto
  <2> QED BY <1>1, <1>3, <2>1 DEF QuitShape
<1> QED BY <1>2, <1>3, MainMoves

-----------------------------------------------------------------------------
(***************************************************************************)
(* The globals.                                                            *)
(***************************************************************************)

\* A step that leaves the globals alone, and its thread where they may refer to it,
\* does no harm.
LEMMA GlobalsLeftAlone ==
  ASSUME TypeOK, GlobalShape, NEW t \in Threads,
         UNCHANGED <<desktop, gEnv>>,
         \A u \in Threads \ {t} : pc'[u] = pc[u],
         \A u \in Threads : ret[u] # 0 => ret'[u] # 0,
         pc[t] \in HasDesktop => pc'[t] \in HasDesktop,
         pc[t] \in HasEnv => pc'[t] \in HasEnv,
         pc'[t] \in Uses => pc[t] \in Uses \/ desktop # None
  PROVE  GlobalShape'
<1>1. desktop' \in Threads => pc'[desktop'] \in HasDesktop
  BY DEF GlobalShape
<1>2. gEnv' \in Threads => pc'[gEnv'] \in HasEnv
  BY DEF GlobalShape
<1>3. ASSUME NEW u \in Threads, pc'[u] \in Uses, desktop' = None
      PROVE  \E v \in Threads \ {u} : ret'[v] # 0
  <2>1. pc[u] \in Uses
    BY <1>3
  <2> QED BY <1>3, <2>1 DEF GlobalShape
<1> QED BY <1>1, <1>2, <1>3 DEF GlobalShape, Uses

\* A thread sets the globals where they may refer to it from then on.
LEMMA GlobalsTaken ==
  ASSUME TypeOK, GlobalShape, NEW t \in Threads,
         Initialize(t) \/ AssignDesktop(t) \/ Begin(t)
  PROVE  GlobalShape'
<1>1. /\ pc \in [Threads -> Places] /\ None \notin Threads
  BY DistinctAssumption DEF TypeOK, ThreadTypes
<1>2. /\ \A u \in Threads \ {t} : pc'[u] = pc[u]
      /\ pc'[t] \in HasEnv /\ pc'[t] \notin Uses
      /\ pc[t] \in HasDesktop => pc'[t] \in HasDesktop
      /\ ret' = ret
  BY <1>1 DEF Initialize, AssignDesktop, Begin, Goto, HasEnv, HasDesktop, Uses, Starting,
              Serving, serverVars
<1>3. desktop' \in Threads => pc'[desktop'] \in HasDesktop
  <2>1. CASE AssignDesktop(t)
    BY <1>1, <2>1 DEF AssignDesktop, Goto, HasDesktop
  <2>2. CASE Initialize(t) \/ Begin(t)
    <3>1. desktop' = desktop
      BY <2>2 DEF Initialize, Begin
    <3> QED BY <1>2, <3>1 DEF GlobalShape
  <2> QED BY <2>1, <2>2
<1>4. gEnv' = t \/ gEnv' = gEnv
  BY DEF Initialize, AssignDesktop, Begin
<1>5. gEnv' \in Threads => pc'[gEnv'] \in HasEnv
  BY <1>2, <1>4 DEF GlobalShape
<1>6. desktop' = desktop \/ desktop' = t
  BY DEF Initialize, AssignDesktop, Begin
<1>7. ASSUME NEW u \in Threads, pc'[u] \in Uses, desktop' = None
      PROVE  \E v \in Threads \ {u} : ret'[v] # 0
  <2>1. pc[u] \in Uses /\ desktop = None
    BY <1>1, <1>2, <1>6, <1>7
  <2> QED BY <1>2, <2>1 DEF GlobalShape
<1> QED BY <1>3, <1>5, <1>7 DEF GlobalShape, Uses

\* The desktop is reset by the thread that has the name, or by one that has failed.
LEMMA GlobalsDropped ==
  ASSUME TypeOK, NameShape, GlobalShape, NEW t \in Threads, Drop(t)
  PROVE  GlobalShape'
<1>1. pc \in [Threads -> Places] /\ None \notin Threads
  BY DistinctAssumption DEF TypeOK, ThreadTypes
<1>2. /\ pc[t] = "drop" /\ pc'[t] = "forget"
      /\ \A u \in Threads \ {t} : pc'[u] = pc[u]
      /\ desktop' = None /\ gEnv' = gEnv /\ ret' = ret
  BY <1>1 DEF Drop, Goto, serverVars
<1>3. gEnv' \in Threads => pc'[gEnv'] \in HasEnv
  BY <1>2 DEF GlobalShape, HasEnv
<1>4. ASSUME NEW u \in Threads, pc'[u] \in Uses
      PROVE  \E v \in Threads \ {u} : ret'[v] # 0
  <2>1. u # t
    BY <1>2, <1>4 DEF Uses, Serving
  <2>2. Listens(u)
    BY <1>2, <1>4, <2>1 DEF Uses, Listens
  <2>3. ret[t] # 0
    BY <1>2, <2>1, <2>2 DEF NameShape, Listens
  <2> QED BY <1>2, <2>1, <2>3
<1> QED BY <1>1, <1>2, <1>3, <1>4 DEF GlobalShape, Uses

LEMMA GlobalsForgotten ==
  ASSUME TypeOK, GlobalShape, NEW t \in Threads, Forget(t)
  PROVE  GlobalShape'
<1>1. pc \in [Threads -> Places] /\ None \notin Threads
  BY DistinctAssumption DEF TypeOK, ThreadTypes
<1>2. /\ pc[t] = "forget" /\ pc'[t] = "close"
      /\ \A u \in Threads \ {t} : pc'[u] = pc[u]
      /\ desktop' = desktop /\ gEnv' = None /\ ret' = ret
  BY <1>1 DEF Forget, Goto, serverVars
<1>3. desktop' \in Threads => pc'[desktop'] \in HasDesktop
  BY <1>2 DEF GlobalShape, HasDesktop, Uses, Serving
<1>4. \A u \in Threads : pc'[u] \in Uses => pc[u] \in Uses
  BY <1>2 DEF Uses, Serving
<1> QED BY <1>1, <1>2, <1>3, <1>4 DEF GlobalShape, Uses

\* Every step of a server thread keeps the shape of the globals.
LEMMA GlobalsKept ==
  ASSUME TypeOK, NameShape, GlobalShape, NEW t \in Threads, ServerAction(t)
  PROVE  GlobalShape'
<1>1. pc \in [Threads -> Places]
  BY DEF TypeOK, ThreadTypes
<1>2. /\ \A u \in Threads \ {t} : pc'[u] = pc[u]
      /\ \A u \in Threads : ret[u] # 0 => ret'[u] # 0
  BY ServerMoves
<1>3. CASE Initialize(t) \/ AssignDesktop(t) \/ Begin(t)
  BY <1>3, GlobalsTaken
<1>4. CASE Drop(t)
  BY <1>4, GlobalsDropped
<1>5. CASE Forget(t)
  BY <1>5, GlobalsForgotten
<1> USE DEF HasEnv, HasDesktop, Uses, Starting, Serving, Goto, nativeVars
<1>6. CASE ReadProps(t)
  BY <1>1, <1>2, <1>6, GlobalsLeftAlone DEF ReadProps, ReadsProps
<1>7. CASE SetProps(t)
  BY <1>1, <1>2, <1>7, GlobalsLeftAlone DEF SetProps, SetsProps
<1>8. CASE MakeServer(t)
  BY <1>1, <1>2, <1>8, GlobalsLeftAlone DEF MakeServer
<1>9. CASE Bind(t)
  BY <1>1, <1>2, <1>9, GlobalsLeftAlone DEF Bind
<1>10. CASE BindFails(t)
  BY <1>1, <1>2, <1>10, GlobalsLeftAlone DEF BindFails
<1>11. CASE GetEventFd(t)
  BY <1>1, <1>2, <1>11, GlobalsLeftAlone DEF GetEventFd
<1>12. CASE Loop(t)
  BY <1>1, <1>2, <1>12, GlobalsLeftAlone DEF Loop
<1>13. CASE Wake(t) \/ ServeFails(t) \/ NewSurface(t) \/ ClientResized(t)
  BY <1>1, <1>2, <1>13, GlobalsLeftAlone DEF Wake, ServeFails, NewSurface, ClientResized
<1>14. CASE \E size \in Sizes : ClientResizes(t, size)
  BY <1>1, <1>2, <1>14, GlobalsLeftAlone DEF ClientResizes
<1>15. CASE End(t)
  BY <1>1, <1>2, <1>15, GlobalsLeftAlone DEF End
<1>16. CASE Close(t)
  BY <1>1, <1>2, <1>16, GlobalsLeftAlone DEF Close
<1> QED BY <1>3, <1>4, <1>5, <1>6, <1>7, <1>8, <1>9, <1>10, <1>11, <1>12, <1>13, <1>14,
           <1>15, <1>16 DEF ServerAction

\* The globals refer no more to a thread that reports.
LEMMA ReportKeepsGlobals ==
  ASSUME TypeOK, GlobalShape, NEW t \in Threads, ReportAction(t)
  PROVE  GlobalShape'
BY ReportMoves, GlobalsLeftAlone
   DEF serverVars, HasEnv, HasDesktop, Uses, Starting, Serving

\* A thread that the main thread starts has set none of the globals yet.
LEMMA MainKeepsGlobals ==
  ASSUME TypeOK, GlobalShape, MainAction
  PROVE  GlobalShape'
<1>1. pc \in [Threads -> Places] /\ UNCHANGED <<desktop, gEnv, ret>>
  BY MainKeepsNative, MainMoves DEF TypeOK, ThreadTypes, serverVars
<1>2. CASE UNCHANGED pc
  BY <1>1, <1>2 DEF GlobalShape
<1>3. ASSUME NEW t \in Threads, pc[t] = "none", pc' = [pc EXCEPT ![t] = "initialize"]
      PROVE  GlobalShape'
  BY <1>1, <1>3, GlobalsLeftAlone
     DEF HasEnv, HasDesktop, Uses, Starting, Serving
<1> QED BY <1>2, <1>3, MainMoves

-----------------------------------------------------------------------------
(***************************************************************************)
(* The theorems.                                                           *)
(***************************************************************************)

LEMMA InitInv == Init => ServiceInv
<1> SUFFICES ASSUME Init PROVE ServiceInv
  OBVIOUS
<1> USE DEF Init
<1>1. JavaTypes /\ ResourceTypes /\ NativeTypes
  <2>1. /\ alive \in BOOLEAN /\ mIsRunning \in BOOLEAN
        /\ forceNull \in BOOLEAN /\ gCaughtSignal \in BOOLEAN
    BY Zenon
  <2>2. main = "idle" /\ set \in Settings /\ mSize \in Sizes
    OBVIOUS
  <2>3. /\ mDisplay \in {"null", "live", "released"}
        /\ displays \in Nat /\ listeners \in Nat /\ displays <= 1 /\ listeners <= 1
    OBVIOUS
  <2> HIDE DEF Init
  <2>4. desktop = None /\ gEnv = None /\ name = None
    BY DEF Init
  <2> QED BY <2>1, <2>2, <2>3, <2>4 DEF JavaTypes, ResourceTypes, NativeTypes
<1>2. ThreadTypes
  BY DEF ThreadTypes, Places
<1>3. ResourceShape
  BY DEF ResourceShape, Matched
<1>4. NameShape /\ QuitShape
  BY DEF NameShape, QuitShape, Listens, Serving, Ending, Reporting
<1>5. GlobalShape
  BY DistinctAssumption DEF GlobalShape, Uses, Serving
<1> QED BY <1>1, <1>2, <1>3, <1>4, <1>5 DEF ServiceInv, TypeOK

LEMMA NextInv == ServiceInv /\ [Next]_vars => ServiceInv'
<1> SUFFICES ASSUME ServiceInv, [Next]_vars PROVE ServiceInv'
  OBVIOUS
<1>0. TypeOK /\ ResourceShape /\ NameShape /\ QuitShape /\ GlobalShape
  BY DEF ServiceInv
<1>1. ASSUME Next, MainAction
      PROVE  ServiceInv'
  BY <1>0, <1>1, ResourcesKept, MainTypesKept, MainKeepsName, MainKeepsQuit,
     MainKeepsGlobals DEF ServiceInv
<1>2. ASSUME Next, NEW t \in Threads, ServerAction(t)
      PROVE  ServiceInv'
  BY <1>0, <1>2, ResourcesKept, ServerTypesKept, NameKept, QuitKept, GlobalsKept
     DEF ServiceInv
<1>3. ASSUME Next, NEW t \in Threads, ReportAction(t)
      PROVE  ServiceInv'
  BY <1>0, <1>3, ResourcesKept, ReportTypesKept, ReportKeepsName, ReportKeepsQuit,
     ReportKeepsGlobals DEF ServiceInv
<1>4. ASSUME alive' \in BOOLEAN,
             UNCHANGED <<main, javaVars, resourceVars, nativeVars, pc, serverVars, propVars>>
      PROVE  ServiceInv'
  <2>1. TypeOK'
    BY <1>0, <1>4
       DEF javaVars, resourceVars, nativeVars, propVars, serverVars, TypeOK,
           JavaTypes, ResourceTypes, NativeTypes, ThreadTypes, Released
  <2>2. ResourceShape'
    BY <1>0, <1>4 DEF javaVars, resourceVars, ResourceShape, Matched, Released
  <2>3. NameShape' /\ QuitShape' /\ GlobalShape'
    BY <1>0, <1>4
       DEF javaVars, nativeVars, serverVars, NameShape, Listens, QuitShape, GlobalShape
  <2> QED BY <2>1, <2>2, <2>3 DEF ServiceInv
<1>5. CASE UNCHANGED vars
  BY <1>0, <1>4, <1>5 DEF vars, TypeOK, JavaTypes
<1> QED BY <1>1, <1>2, <1>3, <1>4, <1>5, StillKeeps, NextSplit

\* The life cycle's invariant: what the system holds follows the settings until a
\* failure is reported, who listens has the name, a server ends because it was told to
\* or with a failure to report, and the globals refer to no thread that has reset them.
THEOREM LifecycleCorrect == Spec => []ServiceInv
BY InitInv, NextInv, PTL DEF Spec

\* The variables keep to their types: there is never a second display or listener,
\* unless a failure has been reported.
THEOREM TypeCorrect == Spec => []TypeOK
<1>1. ServiceInv => TypeOK
  BY DEF ServiceInv
<1> QED BY <1>1, LifecycleCorrect, PTL

\* However many restarts overlap, and however servers end, one thread at a time serves.
THEOREM OneServerCorrect == Spec => []OneServer
<1>1. ServiceInv => OneServer
  BY DEF ServiceInv, NameShape, OneServer
<1> QED BY <1>1, LifecycleCorrect, PTL

\* Outside of starts and failures the server that has the name has its own desktop, and
\* no environment but its own.
THEOREM OwnGlobalsCorrect == Spec => []OwnGlobals
<1>1. ASSUME ServiceInv, NEW t \in Threads, pc[t] \in Uses,
             \A u \in Threads \ {t} : pc[u] \notin Starting \ {"initialize"} /\ ret[u] = 0
      PROVE  desktop = t /\ gEnv \in {t, None}
  <2>1. desktop \in Threads \cup {None} /\ gEnv \in Threads \cup {None}
    BY <1>1 DEF ServiceInv, TypeOK, NativeTypes
  <2>2. Listens(t) /\ name = t
    BY <1>1 DEF ServiceInv, NameShape, Listens, Uses
  <2>3. ASSUME NEW u \in Threads \ {t}
        PROVE  pc[u] \notin HasEnv /\ pc[u] \notin HasDesktop
    <3>1. ~Listens(u)
      BY <1>1, <2>2 DEF ServiceInv, NameShape
    <3>2. pc[u] \notin Uses \cup {"drop", "forget"}
      BY <1>1, <3>1 DEF Listens, Uses
    <3> QED BY <1>1, <3>2 DEF HasEnv, HasDesktop, Starting
  <2>4. gEnv \in {t, None}
    BY <1>1, <2>1, <2>3 DEF ServiceInv, GlobalShape
  <2>5. desktop # None
    BY <1>1 DEF ServiceInv, GlobalShape
  <2>6. desktop = t
    BY <1>1, <2>1, <2>3, <2>5 DEF ServiceInv, GlobalShape
  <2> QED BY <2>4, <2>6
<1>2. ServiceInv => OwnGlobals
  BY <1>1 DEF OwnGlobals, Uses
<1> QED BY <1>2, LifecycleCorrect, PTL

\* At rest the system holds what the settings ask for.
THEOREM ResourcesMatchCorrect == Spec => []ResourcesMatch
<1>1. ServiceInv => ResourcesMatch
  BY DEF ServiceInv, TypeOK, JavaTypes, ResourceTypes, Settings, ResourceShape, Matched,
         ResourcesMatch
<1> QED BY <1>1, LifecycleCorrect, PTL

\* A running service that was never told to quit has a server, or one that is about to
\* report its failure.
THEOREM RunningUntilRestartCorrect == Spec => []RunningUntilRestart
<1>1. ASSUME ServiceInv, mIsRunning, ~gCaughtSignal
      PROVE  \E t \in Threads : \/ pc[t] \in Starting \cup Serving
                                \/ ret[t] # 0 /\ pc[t] \in Ending \cup Reporting
  <2>1. PICK t \in Threads : pc[t] # "none"
    BY <1>1 DEF ServiceInv, QuitShape
  <2>2. pc[t] \in Places /\ pc[t] # "done"
    BY <1>1 DEF ServiceInv, QuitShape, TypeOK, ThreadTypes
  <2>3. pc[t] \in Ending \cup Reporting => ret[t] # 0
    BY <1>1 DEF ServiceInv, QuitShape
  <2> QED BY <2>1, <2>2, <2>3 DEF Places
<1>2. ServiceInv => RunningUntilRestart
  BY <1>1 DEF RunningUntilRestart
<1> QED BY <1>2, LifecycleCorrect, PTL

\* A thread that is at the head of its loop, or further, takes its own steps only.
LEMMA QuitSteps ==
  ASSUME TypeOK, gCaughtSignal, NEW t \in Threads, pc[t] \in DOMAIN StepsLeft,
         ReportAction(t) \/ ServerAction(t)
  PROVE  pc'[t] \in DOMAIN StepsLeft /\ StepsLeft[pc'[t]] < StepsLeft[pc[t]]
<1>0. pc \in [Threads -> Places]
  BY DEF TypeOK, ThreadTypes
<1> USE DEF StepsLeft, Goto
<1>1. CASE ReportAction(t)
  BY <1>0, <1>1 DEF ReportAction, ReportQuits, ReportReleases, ReportStops
<1>2. CASE Loop(t)
  BY <1>0, <1>2 DEF Loop
<1>3. CASE End(t)
  BY <1>0, <1>3 DEF End
<1>4. CASE ReadProps(t)
  BY <1>0, <1>4 DEF ReadProps, ReadsProps
<1>5. CASE SetProps(t)
  BY <1>0, <1>5 DEF SetProps, SetsProps
<1>6. CASE Drop(t)
  BY <1>0, <1>6 DEF Drop
<1>7. CASE Close(t)
  BY <1>0, <1>7 DEF Close
<1>10. CASE Forget(t)
  BY <1>0, <1>10 DEF Forget
<1>8. CASE \/ Initialize(t) \/ AssignDesktop(t) \/ Begin(t) \/ MakeServer(t)
           \/ Bind(t) \/ BindFails(t) \/ GetEventFd(t)
  BY <1>0, <1>8 DEF Initialize, AssignDesktop, Begin, MakeServer, Bind, BindFails, GetEventFd
<1>9. CASE \/ Wake(t) \/ ServeFails(t) \/ NewSurface(t) \/ ClientResized(t)
           \/ \E size \in Sizes : ClientResizes(t, size)
  BY <1>0, <1>9 DEF Wake, ServeFails, NewSurface, ClientResized, ClientResizes
<1> QED BY <1>1, <1>2, <1>3, <1>4, <1>5, <1>6, <1>7, <1>8, <1>9, <1>10
        DEF ServerAction

\* A server that was told to quit moves only towards its end.
THEOREM QuitNearsCorrect == Spec => QuitNears
<1> DEFINE Step ==
      \A t \in Threads :
        gCaughtSignal /\ pc[t] \in DOMAIN StepsLeft /\ pc'[t] # pc[t] =>
          pc'[t] \in DOMAIN StepsLeft /\ StepsLeft[pc'[t]] < StepsLeft[pc[t]]
<1>1. ServiceInv /\ [Next]_vars => Step
  <2> SUFFICES ASSUME ServiceInv, [Next]_vars, NEW t \in Threads, gCaughtSignal,
                      pc[t] \in DOMAIN StepsLeft, pc'[t] # pc[t]
               PROVE  pc'[t] \in DOMAIN StepsLeft /\ StepsLeft[pc'[t]] < StepsLeft[pc[t]]
    OBVIOUS
  <2>1. TypeOK /\ pc \in [Threads -> Places]
    BY DEF ServiceInv, TypeOK, ThreadTypes
  <2>2. Next
    BY DEF vars
  <2>3. ~MainAction
    <3>1. pc[t] # "none"
      BY DEF StepsLeft
    <3> QED BY <2>1, <3>1, MainMoves
  <2>4. ASSUME NEW u \in Threads, ReportAction(u) \/ StillAction(u) \/ ServerAction(u)
        PROVE  u = t /\ (ReportAction(t) \/ ServerAction(t))
    BY <2>1, <2>4, ReportMoves, StillKeeps, ServerMoves
  <2>5. ReportAction(t) \/ ServerAction(t)
    BY <2>2, <2>3, <2>4, NextSplit
  <2> QED BY <2>1, <2>5, QuitSteps
<1> HIDE DEF Step
<1>2. ServiceInv /\ [Next]_vars => [Step]_vars
  BY <1>1
<1>3. Spec => [][Step]_vars
  BY <1>2, LifecycleCorrect, PTL DEF Spec
<1> QED BY <1>3 DEF QuitNears, Step
=============================================================================

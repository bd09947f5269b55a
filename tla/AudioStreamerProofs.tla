------------------------- MODULE AudioStreamerProofs -------------------------
(***************************************************************************)
(* What holds of AudioStreamer for any number of starts, connections and   *)
(* descriptors, whichever of the free ones the kernel hands out, and any   *)
(* buffer size.                                                            *)
(*                                                                         *)
(* Owned and Kept are the heart of it: only a thread that made the socket  *)
(* which has the name is ever past bind, no other thread can have it       *)
(* later, and no start that fails afterwards has that socket's descriptor  *)
(* to close, since bind fails for nobody before the name is taken.  So     *)
(* there is one serving thread, which the recorder (RecordInv) and the     *)
(* account of the bytes (Counted, Fresh) rest on.  Unsent says that a      *)
(* thread never waits to send nothing, so that each of its steps counts    *)
(* for RecordingNears.                                                     *)
(***************************************************************************)
EXTENDS AudioStreamer, SequenceTheorems, TLAPS

Owned ==
  /\ \A t \in Threads : pc[t] \in Listens => owner = t
  /\ owner # None => pc[owner] \notin Binding \cup {"none", "main", "create"}

\* While nobody has the name every socket is its own thread's and no bind failed.
Unowned ==
  owner = None =>
    \A t \in Threads :
      pc[t] \notin {"unbound", "failed"} /\ (pc[t] = "bind" => file[sock[t]] = t)

\* Then its socket stays open, and nobody who will close one has its descriptor.
Kept ==
  owner # None =>
    /\ sock[owner] \in Fds /\ file[sock[owner]] = owner
    /\ \A u \in Threads \ {owner} : pc[u] \in Binding => sock[u] # sock[owner]

\* The connection that is served is open, or was closed by a failed start.
ServesOpen ==
  \A t \in Threads :
    pc[t] \in Serving =>
      /\ nSock[t] # sock[t]
      /\ file[nSock[t]] \in Conns \/ ClosedByFailed(nSock[t])

FilesAccepted == \A f \in Fds : file[f] \in Conns => conn[file[f]] = "accepted"

ForServing == recording => \E t \in Threads : pc[t] \in Streaming

RecordInv == Owned /\ Unowned /\ Kept /\ ServesOpen /\ FilesAccepted /\ ForServing

Fresh == \A c \in Conns : conn[c] \in {"none", "backlog"} => wire[c] = <<>>

\* As much was sent on a connection as was read before the buffer and is sent
\* of it; nothing is left of it when the next read is made.
Counted ==
  \A t \in Threads :
    /\ pc[t] \in Serving /\ file[nSock[t]] \in Conns =>
         Len(wire[file[nSock[t]]]) = buf[t].first + buf[t].ptr
    /\ pc[t] \in {"open", "test", "read"} => buf[t].ptr = buf[t].len

-----------------------------------------------------------------------------

LEMMA TypeInit == Init => TypeOK
<1> SUFFICES ASSUME Init PROVE TypeOK
  OBVIOUS
<1>1. JavaTypes /\ SocketTypes /\ RecordTypes
  BY DEF Init, JavaTypes, SocketTypes, RecordTypes
<1>2. <<>> \in Seq(Nat)
  OBVIOUS
<1>3. ThreadTypes
  BY <1>2 DEF Init, ThreadTypes, NoBuf
<1>4. \A t \in Threads : pc[t] \notin Binding \cup Listens
  BY DEF Init, Serving, Binding, Listens
<1> QED
  BY <1>1, <1>3, <1>4 DEF TypeOK, Listens

\* What send adds to a connection's bytes.
LEMMA BytesType ==
  ASSUME NEW from \in Nat, NEW n \in Nat
  PROVE  Bytes(from, n) \in Seq(Nat) /\ Len(Bytes(from, n)) = n
<1>1. Bytes(from, n) \in [1..n -> Nat]
  BY DEF Bytes
<1> QED
  BY <1>1 DEF Bytes

\* Whatever the kernel hands out was free.
LEMMA OpensFree ==
  ASSUME NEW f, NEW what, OpenFile(f, what)
  PROVE  f \in Fds /\ file[f] = None /\ file' = [file EXCEPT ![f] = what]
<1>1. Free \in SUBSET Fds
  BY DEF Free
<1> QED
  BY <1>1, GrantsAssumption DEF OpenFile, Free

LEMMA TypeNext == TypeOK /\ [Next]_vars => TypeOK'
<1> SUFFICES ASSUME TypeOK, [Next]_vars PROVE TypeOK'
  OBVIOUS
<1> USE DEF TypeOK, JavaTypes, SocketTypes, RecordTypes, ThreadTypes, Serving, Binding,
        Listens, Goto
<1>1. ASSUME NEW h \in BOOLEAN, StartService(h) \/ Restart(h) \/ Resume PROVE TypeOK'
  BY <1>1 DEF StartService, Restart, Resume, Launch, fileVars, socketVars, recordVars, sendVars
<1>2. ASSUME NEW t \in Threads,
             Main(t) \/ Loop(t) \/ AcceptFails(t) PROVE TypeOK'
  BY <1>2 DEF Main, Loop, AcceptFails, javaVars, fileVars, socketVars, recordVars, sendVars
<1>8. ASSUME NEW t \in Threads, Bind(t) PROVE TypeOK'
  BY <1>8 DEF Bind, javaVars, fileVars, recordVars, sendVars
<1>11. ASSUME NEW t \in Threads, Create(t) PROVE TypeOK'
  <2>1. CASE Goto(t, "create", "done") /\ UNCHANGED fileVars
    BY <1>11, <2>1 DEF Create, javaVars, fileVars, recordVars, sendVars
  <2>2. ASSUME NEW f \in Fds, OpenFile(f, t), sock' = [sock EXCEPT ![t] = f],
               Goto(t, "create", "bind")
        PROVE  TypeOK'
    <3>1. file' = [file EXCEPT ![f] = t]
      BY <2>2, OpensFree
    <3>2. file' \in [Fds -> Threads \cup Conns \cup {None}]
      BY <3>1
    <3> QED
      BY <1>11, <2>2, <3>2 DEF Create, javaVars, recordVars, sendVars
  <2> QED
    BY <1>11, <2>1, <2>2 DEF Create
<1>12. ASSUME NEW t \in Threads, CloseUnbound(t) \/ CloseAgain(t) \/ CloseSocket(t) PROVE TypeOK'
  BY <1>12 DEF CloseUnbound, CloseAgain, CloseSocket, CloseFile, javaVars, recordVars, sendVars
<1>3. ASSUME NEW t \in Threads, Accept(t) PROVE TypeOK'
  <2>1. /\ conn' \in [Conns -> {"none", "backlog", "accepted"}]
        /\ file' \in [Fds -> Threads \cup Conns \cup {None}]
        /\ nSock' \in [Threads -> Fds \cup {None}] /\ nSock'[t] \in Fds
        /\ \A u \in Threads : u # t => nSock'[u] = nSock[u] /\ pc'[u] = pc[u]
    <3>1. PICK c \in Conns, f \in Fds :
            /\ conn' = [conn EXCEPT ![c] = "accepted"]
            /\ OpenFile(f, c) /\ nSock' = [nSock EXCEPT ![t] = f]
      BY <1>3 DEF Accept
    <3>2. file' = [file EXCEPT ![f] = c]
      BY <3>1, OpensFree
    <3> QED
      BY <1>3, <3>1, <3>2 DEF Accept
  <2>2. buf' \in [Threads -> [first : Nat, len : Nat, ptr : Nat]]
    BY <1>3 DEF Accept, NoBuf
  <2> QED
    BY <1>3, <2>1, <2>2 DEF Accept, javaVars, recordVars
<1>4. ASSUME NEW t \in Threads, Open(t) \/ OpenFails(t) PROVE TypeOK'
  BY <1>4 DEF Open, OpenFails, MakeRecord, javaVars, fileVars, socketVars, sendVars
<1>5. ASSUME NEW t \in Threads, Test(t) \/ ReadFails(t) \/ SendFails(t) \/ Stop(t) PROVE TypeOK'
  BY <1>5 DEF Test, ReadFails, SendFails, Stop, javaVars, fileVars, socketVars, recordVars, sendVars
<1>6. ASSUME NEW t \in Threads, Read(t) PROVE TypeOK'
  <2>1. buf' \in [Threads -> [first : Nat, len : Nat, ptr : Nat]]
    BY <1>6, SizesAssumption DEF Read
  <2> QED
    BY <1>6, <2>1 DEF Read, javaVars, fileVars, socketVars, recordVars
<1>7. ASSUME NEW t \in Threads, Send(t) PROVE TypeOK'
  <2>1. PICK n \in 1..(buf[t].len - buf[t].ptr) :
          /\ wire' = [wire EXCEPT ![file[nSock[t]]] = @ \o Bytes(buf[t].first + buf[t].ptr, n)]
          /\ buf' = [buf EXCEPT ![t].ptr = @ + n]
          /\ Goto(t, "send", IF buf[t].ptr + n = buf[t].len THEN "test" ELSE "send")
    BY <1>7 DEF Send
  <2>2. n \in Nat /\ buf[t].first + buf[t].ptr \in Nat /\ file[nSock[t]] \in Conns
    BY <1>7 DEF Send
  <2>3. wire' \in [Conns -> Seq(Nat)]
    <3> DEFINE more == wire[file[nSock[t]]] \o Bytes(buf[t].first + buf[t].ptr, n)
    <3>1. more \in Seq(Nat)
      <4>1. wire[file[nSock[t]]] \in Seq(Nat)
        BY <2>2
      <4>2. Bytes(buf[t].first + buf[t].ptr, n) \in Seq(Nat)
        BY <2>2, BytesType
      <4> QED
        BY <4>1, <4>2, ConcatProperties
    <3>2. wire' = [wire EXCEPT ![file[nSock[t]]] = more]
      BY <2>1
    <3> QED
      BY <3>1, <3>2
  <2>4. buf' \in [Threads -> [first : Nat, len : Nat, ptr : Nat]]
    BY <2>1, <2>2
  <2> QED
    BY <1>7, <2>1, <2>3, <2>4 DEF Send, javaVars, fileVars, socketVars, recordVars
<1>9. ASSUME NEW c \in Conns, Connect(c) \/ PeerLeaves(c) PROVE TypeOK'
  BY <1>9 DEF Connect, PeerLeaves, javaVars, fileVars, recordVars, sendVars
<1>10. CASE UNCHANGED vars
  BY <1>10 DEF vars, javaVars, fileVars, socketVars, recordVars, sendVars
<1> QED
  BY <1>1, <1>2, <1>3, <1>4, <1>5, <1>6, <1>7, <1>8, <1>9, <1>10, <1>11, <1>12
     DEF Next, ThreadStep

\* Every variable keeps to its values, and a thread that serves has a client.
THEOREM TypeCorrect == Spec => []TypeOK
BY TypeInit, TypeNext, PTL DEF Spec
-----------------------------------------------------------------------------

LEMMA RecordInit == Init => RecordInv
BY DistinctAssumption DEF Init, RecordInv, Owned, Unowned, Kept, ServesOpen, FilesAccepted, ForServing,
       Serving, Listens, Binding

\* A descriptor that a failed start closed stays one that it closed.
LEMMA ClosedStays ==
  ASSUME TypeOK, [Next]_vars, NEW f, ClosedByFailed(f)
  PROVE  ClosedByFailed(f)'
<1>1. PICK u \in Threads : pc[u] \in {"failed", "done"} /\ sock[u] = f
  BY DEF ClosedByFailed
<1> SUFFICES pc'[u] \in {"failed", "done"} /\ sock'[u] = sock[u]
  BY <1>1 DEF ClosedByFailed
<1> USE <1>1 DEF TypeOK, SocketTypes, ThreadTypes, Serving, Goto, fileVars, socketVars
<1>2. ASSUME NEW h \in BOOLEAN, StartService(h) \/ Restart(h) \/ Resume
      PROVE pc'[u] \in {"failed", "done"} /\ sock'[u] = sock[u]
  BY <1>2 DEF StartService, Restart, Resume, Launch
<1>3. ASSUME NEW t \in Threads, ThreadStep(t) \/ AcceptFails(t) \/ Send(t)
      PROVE pc'[u] \in {"failed", "done"} /\ sock'[u] = sock[u]
  BY <1>3 DEF ThreadStep, Main, Create, Bind, CloseUnbound, CloseAgain, Loop, Accept,
              AcceptFails, Open, OpenFails, Test, Read, ReadFails, Send, SendFails, Stop, CloseSocket
<1>4. ASSUME NEW c \in Conns, Connect(c) \/ PeerLeaves(c)
      PROVE pc'[u] \in {"failed", "done"} /\ sock'[u] = sock[u]
  BY <1>4 DEF Connect, PeerLeaves
<1>5. CASE UNCHANGED vars
  BY <1>5 DEF vars
<1> QED
  BY <1>2, <1>3, <1>4, <1>5 DEF Next

\* A step that leaves the descriptors alone, and moves a thread within its part.
LEMMA RecordKept ==
  ASSUME TypeOK, RecordInv, [Next]_vars, UNCHANGED <<file, sock, owner, nSock>>,
         \A c \in Conns : conn[c] = "accepted" => conn'[c] = "accepted",
         \A u \in Threads :
           /\ pc'[u] \in Listens => pc[u] \in Listens
           /\ pc'[u] \in Binding => pc[u] = pc'[u]
           /\ pc'[u] \in {"none", "main", "create"} => pc[u] \in {"none", "main", "create"}
           /\ pc'[u] \in Serving => pc[u] \in Serving,
         ForServing'
  PROVE  RecordInv'
<1> USE DEF TypeOK, SocketTypes, ThreadTypes, RecordInv
<1>1. Owned'
  BY DEF Owned, Binding
<1>2. Unowned'
  BY DEF Unowned, Binding
<1>3. Kept'
  BY DEF Kept
<1>4. ServesOpen'
  BY ClosedStays DEF ServesOpen
<1>5. FilesAccepted'
  BY DEF FilesAccepted
<1> QED
  BY <1>1, <1>2, <1>3, <1>4, <1>5

\* Each step that starts, serves or closes is that of the one serving thread, and
\* what a failing start closes is not its socket.
LEMMA RecordNext == TypeOK /\ RecordInv /\ [Next]_vars => RecordInv'
<1> SUFFICES ASSUME TypeOK, RecordInv, [Next]_vars PROVE RecordInv'
  OBVIOUS
<1> USE DEF TypeOK, SocketTypes, RecordTypes, ThreadTypes
<1>1. ASSUME NEW h \in BOOLEAN, StartService(h) \/ Restart(h) \/ Resume PROVE RecordInv'
  <2>1. ForServing'
    BY <1>1 DEF StartService, Restart, Resume, Launch, Goto, recordVars, RecordInv, ForServing,
                Streaming, Serving
  <2> QED
    BY <1>1, <2>1, RecordKept
       DEF StartService, Restart, Resume, Launch, Goto, fileVars, socketVars, sendVars,
           Listens, Binding, Serving
<1>2. ASSUME NEW t \in Threads,
             Main(t) \/ Loop(t) \/ AcceptFails(t) \/ Open(t) \/ OpenFails(t) \/ Test(t)
               \/ Read(t) \/ ReadFails(t) \/ Send(t) \/ SendFails(t) \/ Stop(t)
      PROVE RecordInv'
  <2>1. ForServing'
    BY <1>2 DEF Main, Loop, AcceptFails, Open, OpenFails, Test, Read, ReadFails, Send,
                SendFails, Stop, Goto, recordVars, RecordInv, ForServing, Streaming, Serving,
                Owned, Listens
  <2>2. /\ UNCHANGED <<file, sock, owner, nSock, conn>>
        /\ \A u \in Threads : u # t => pc'[u] = pc[u]
        /\ pc'[t] \in Listens => pc[t] \in Listens
        /\ pc'[t] \in Serving => pc[t] \in Serving
        /\ pc'[t] \notin Binding
        /\ pc'[t] \in {"none", "main", "create"} => pc[t] \in {"none", "main", "create"}
    BY <1>2 DEF Main, Loop, AcceptFails, Open, OpenFails, Test, Read, ReadFails, Send,
                SendFails, Stop, Goto, fileVars, socketVars, sendVars, Listens, Binding, Serving
  <2> QED
    BY <2>1, <2>2, RecordKept
<1>3. ASSUME NEW t \in Threads, Create(t) PROVE RecordInv'
  <2>1. CASE Goto(t, "create", "done") /\ UNCHANGED fileVars
    <3>1. ForServing'
      BY <1>3 DEF Create, Goto, recordVars, RecordInv, ForServing, Streaming, Serving
    <3> QED
      BY <1>3, <2>1, <3>1, RecordKept
         DEF Create, Goto, fileVars, sendVars, Listens, Binding, Serving
  <2>2. ASSUME NEW f \in Fds, OpenFile(f, t), sock' = [sock EXCEPT ![t] = f],
               Goto(t, "create", "bind")
        PROVE  RecordInv'
    <3>1. file[f] = None /\ file' = [file EXCEPT ![f] = t]
      BY <2>2, OpensFree
    <3>2. /\ UNCHANGED <<owner, nSock, conn, recording>>
          /\ pc[t] = "create" /\ pc'[t] = "bind" /\ sock'[t] = f
          /\ \A u \in Threads : u # t => pc'[u] = pc[u] /\ sock'[u] = sock[u]
      BY <1>3, <2>2 DEF Create, Goto, recordVars, sendVars
    <3>3. t \notin Conns /\ None \notin Threads \cup Conns
      BY DistinctAssumption
    <3>4. Owned' /\ ForServing'
      BY <3>2, <3>3 DEF RecordInv, Owned, ForServing, Listens, Binding, Streaming, Serving
    <3>5. Unowned'
      BY <3>1, <3>2, <3>3 DEF RecordInv, Unowned, Binding
    <3>6. Kept'
      BY <3>1, <3>2, <3>3 DEF RecordInv, Kept, Owned, Binding
    <3>7. ServesOpen'
      BY <3>1, <3>2, <3>3, ClosedStays DEF RecordInv, ServesOpen, Serving
    <3>8. FilesAccepted'
      BY <3>1, <3>2, <3>3 DEF RecordInv, FilesAccepted
    <3> QED
      BY <3>4, <3>5, <3>6, <3>7, <3>8 DEF RecordInv
  <2> QED
    BY <1>3, <2>1, <2>2 DEF Create
<1>4. ASSUME NEW t \in Threads, Bind(t) PROVE RecordInv'
  <2>1. /\ UNCHANGED <<file, sock, nSock, conn, recording>> /\ pc[t] = "bind"
        /\ \A u \in Threads : u # t => pc'[u] = pc[u]
    BY <1>4 DEF Bind, Goto, fileVars, recordVars, sendVars
  <2>2. ServesOpen' /\ FilesAccepted' /\ ForServing'
    <3>1. pc'[t] \notin Serving
      BY <1>4 DEF Bind, Goto, Serving
    <3> QED
      BY <2>1, <3>1, ClosedStays
         DEF RecordInv, ServesOpen, FilesAccepted, ForServing, Streaming, Serving
  <2>3. CASE owner = None /\ file[sock[t]] = t
    <3>1. owner' = t /\ pc'[t] = "loop" /\ t # None
      BY <1>4, <2>3, DistinctAssumption DEF Bind, Goto
    <3>2. Owned' /\ Unowned'
      BY <2>1, <2>3, <3>1, DistinctAssumption
         DEF RecordInv, Owned, Unowned, Listens, Serving, Binding
    <3>3. Kept'
      BY <2>1, <2>3, <3>1 DEF RecordInv, Unowned, Kept, Binding
    <3> QED
      BY <2>2, <3>2, <3>3 DEF RecordInv
  <2>4. CASE ~(owner = None /\ file[sock[t]] = t)
    <3>1. owner' = owner /\ pc'[t] = "unbound" /\ owner # None
      BY <1>4, <2>1, <2>4 DEF Bind, Goto, RecordInv, Unowned
    <3>2. Owned' /\ Unowned' /\ Kept'
      BY <2>1, <3>1 DEF RecordInv, Owned, Unowned, Kept, Listens, Serving, Binding
    <3> QED
      BY <2>2, <3>2 DEF RecordInv
  <2> QED
    BY <2>3, <2>4
<1>5. ASSUME NEW t \in Threads, CloseUnbound(t) \/ CloseAgain(t) PROVE RecordInv'
  <2>1. /\ UNCHANGED <<sock, owner, nSock, conn, recording>>
        /\ file' = [file EXCEPT ![sock[t]] = None]
        /\ pc[t] \in {"unbound", "failed"} /\ pc'[t] \in {"failed", "done"}
        /\ \A u \in Threads : u # t => pc'[u] = pc[u]
    BY <1>5 DEF CloseUnbound, CloseAgain, CloseFile, Goto, recordVars, sendVars
  <2>2. owner # None /\ owner # t /\ sock[t] # sock[owner]
    BY <2>1 DEF RecordInv, Owned, Unowned, Kept, Binding
  <2>3. Owned' /\ Unowned' /\ Kept' /\ ForServing'
    BY <2>1, <2>2 DEF RecordInv, Owned, Unowned, Kept, ForServing, Listens, Binding,
                      Streaming, Serving
  <2>4. ClosedByFailed(sock[t])'
    BY <2>1 DEF ClosedByFailed
  <2>5. ServesOpen'
    BY <2>1, <2>4, ClosedStays DEF RecordInv, ServesOpen, Serving
  <2>6. FilesAccepted'
    BY <2>1, DistinctAssumption DEF RecordInv, FilesAccepted
  <2> QED
    BY <2>3, <2>5, <2>6 DEF RecordInv
<1>6. ASSUME NEW t \in Threads, Accept(t) PROVE RecordInv'
  <2>1. PICK c \in Conns, f \in Fds :
          /\ conn' = [conn EXCEPT ![c] = "accepted"]
          /\ OpenFile(f, c) /\ nSock' = [nSock EXCEPT ![t] = f]
    BY <1>6 DEF Accept
  <2>2. file[f] = None /\ file' = [file EXCEPT ![f] = c]
    BY <2>1, OpensFree
  <2>3. /\ UNCHANGED <<sock, owner, recording>> /\ file[sock[t]] = t
        /\ pc[t] = "accept" /\ pc'[t] = "open" /\ nSock'[t] = f
        /\ \A u \in Threads : u # t => pc'[u] = pc[u] /\ nSock'[u] = nSock[u]
    BY <1>6, <2>1 DEF Accept, Goto, recordVars
  <2>4. owner = t /\ t # None /\ f # sock[t]
    BY <2>2, <2>3, DistinctAssumption DEF RecordInv, Owned, Listens
  <2>5. Owned' /\ Unowned' /\ Kept'
    BY <2>2, <2>3, <2>4 DEF RecordInv, Owned, Unowned, Kept, Listens, Binding, Serving
  <2>6. ForServing'
    BY <2>3, <2>4 DEF RecordInv, Owned, ForServing, Streaming, Serving, Listens
  <2>7. ServesOpen'
    <3>1. \A u \in Threads : u # t => pc'[u] \notin Serving
      BY <2>3, <2>4 DEF RecordInv, Owned, Listens
    <3>2. file'[nSock'[t]] = c /\ nSock'[t] # sock'[t]
      BY <2>2, <2>3, <2>4
    <3> QED
      BY <3>1, <3>2 DEF ServesOpen
  <2>8. FilesAccepted'
    BY <2>1, <2>2 DEF RecordInv, FilesAccepted
  <2> QED
    BY <2>5, <2>6, <2>7, <2>8 DEF RecordInv
<1>7. ASSUME NEW t \in Threads, CloseSocket(t) PROVE RecordInv'
  <2>1. /\ UNCHANGED <<sock, owner, nSock, conn, recording>>
        /\ file' = [file EXCEPT ![nSock[t]] = None]
        /\ pc[t] = "close" /\ pc'[t] = "loop"
        /\ \A u \in Threads : u # t => pc'[u] = pc[u]
    BY <1>7 DEF CloseSocket, CloseFile, Goto, recordVars, sendVars
  <2>2. owner = t /\ nSock[t] # sock[t] /\ t # None
    BY <2>1, DistinctAssumption DEF RecordInv, Owned, ServesOpen, Listens, Serving
  <2>3. Owned' /\ Unowned' /\ Kept' /\ ForServing'
    BY <2>1, <2>2 DEF RecordInv, Owned, Unowned, Kept, ForServing, Listens, Binding,
                      Streaming, Serving
  <2>4. \A u \in Threads : pc'[u] \notin Serving
    BY <2>1, <2>2 DEF RecordInv, Owned, Listens, Serving
  <2>5. FilesAccepted'
    BY <2>1, DistinctAssumption DEF RecordInv, FilesAccepted
  <2> QED
    BY <2>3, <2>4, <2>5 DEF RecordInv, ServesOpen
<1>8. ASSUME NEW c \in Conns, Connect(c) \/ PeerLeaves(c) PROVE RecordInv'
  <2>1. ForServing'
    BY <1>8 DEF Connect, PeerLeaves, recordVars, RecordInv, ForServing
  <2> QED
    BY <1>8, <2>1, RecordKept DEF Connect, PeerLeaves, fileVars, sendVars
<1>9. CASE UNCHANGED vars
  <2>1. ForServing'
    BY <1>9 DEF vars, recordVars, RecordInv, ForServing
  <2> QED
    BY <1>9, <2>1, RecordKept DEF vars, fileVars, socketVars, sendVars
<1> QED
  BY <1>1, <1>2, <1>3, <1>4, <1>5, <1>6, <1>7, <1>8, <1>9 DEF Next, ThreadStep

LEMMA RecordCorrect == Spec => []RecordInv
BY RecordInit, RecordNext, TypeCorrect, PTL DEF Spec

\* One audio thread at most serves a client, however often the service starts.
THEOREM OneClientCorrect == Spec => []OneClient
<1>1. RecordInv => OneClient
  BY DEF RecordInv, Owned, OneClient, Listens
<1> QED
  BY <1>1, RecordCorrect, PTL

\* No failing start ever closes the socket that has the name.
THEOREM ListenerStaysCorrect == Spec => []ListenerStays
<1>1. RecordInv => ListenerStays
  BY DEF RecordInv, Kept, ListenerStays
<1> QED
  BY <1>1, RecordCorrect, PTL

\* Nothing is recorded but for a client whose connection is open, unless a start
\* that failed to bind closed it.
THEOREM RecordsForClientCorrect == Spec => []RecordsForClient
<1>1. RecordInv => RecordsForClient
  BY DEF RecordInv, ForServing, ServesOpen, RecordsForClient, Streaming, Serving
<1> QED
  BY <1>1, RecordCorrect, PTL

-----------------------------------------------------------------------------

StreamInv == Fresh /\ Counted /\ StreamIntact

LEMMA StreamInit == Init => StreamInv
BY DEF Init, StreamInv, Fresh, Counted, StreamIntact, Serving

\* Appending the bytes that follow the ones sent keeps them in order.
LEMMA AppendBytes ==
  ASSUME NEW s \in Seq(Nat), \A i \in DOMAIN s : s[i] = i,
         NEW n \in Nat, NEW r, r = s \o Bytes(Len(s), n)
  PROVE  Len(r) = Len(s) + n /\ \A i \in DOMAIN r : r[i] = i
<1> DEFINE b == Bytes(Len(s), n)
<1>0. Len(s) \in Nat
  BY LenProperties
<1>1. b \in Seq(Nat) /\ Len(b) = n /\ Len(s) \in Nat
  BY <1>0, BytesType
<1>2. \A i \in 1..n : b[i] = Len(s) + i
  BY DEF Bytes
<1>3. Len(r) = Len(s) + n /\ DOMAIN r = 1..(Len(s) + n)
  <2>1. r \in Seq(Nat) /\ Len(r) = Len(s) + Len(b)
    BY <1>1, ConcatProperties
  <2> QED
    BY <1>1, <2>1, LenProperties
<1>4. ASSUME NEW i \in DOMAIN r PROVE r[i] = i
  <2>1. CASE i <= Len(s)
    BY <1>1, <1>3, <2>1
  <2>2. CASE i > Len(s)
    <3> HIDE DEF b
    <3>1. i - Len(s) \in 1..n
      BY <1>3, <2>2
    <3>2. r[i] = b[i - Len(s)]
      BY <1>1, <1>3, <2>2, ConcatProperties DEF b
    <3> QED
      BY <1>2, <1>3, <3>1, <3>2
  <2> QED
    BY <1>3, <2>1, <2>2
<1> QED
  BY <1>3, <1>4

LEMMA StreamNext == TypeOK /\ RecordInv /\ StreamInv /\ [Next]_vars => StreamInv'
<1> SUFFICES ASSUME TypeOK, RecordInv, StreamInv, [Next]_vars PROVE StreamInv'
  OBVIOUS
<1> USE DEF TypeOK, SocketTypes, ThreadTypes, StreamInv, Fresh, Counted, StreamIntact,
        Serving, Goto, fileVars
<1>1. ASSUME NEW h \in BOOLEAN, StartService(h) \/ Restart(h) \/ Resume PROVE StreamInv'
  BY <1>1 DEF StartService, Restart, Resume, Launch, fileVars, socketVars, sendVars
<1>2. ASSUME NEW t \in Threads,
             Main(t) \/ Bind(t) \/ Loop(t) \/ AcceptFails(t) \/ Open(t) \/ OpenFails(t)
               \/ Test(t) \/ ReadFails(t) \/ SendFails(t) \/ Stop(t)
      PROVE StreamInv'
  <2>1. UNCHANGED <<conn, file, nSock, buf, wire>>
    BY <1>2 DEF Main, Bind, Loop, AcceptFails, Open, OpenFails, Test, ReadFails, SendFails,
                Stop, fileVars, socketVars, sendVars
  <2>2. \A u \in Threads : u # t => pc'[u] = pc[u]
    BY <1>2 DEF Main, Bind, Loop, AcceptFails, Open, OpenFails, Test, ReadFails, SendFails, Stop
  <2>3. /\ pc'[t] \in Serving => pc[t] \in Serving
        /\ pc'[t] \in {"open", "test", "read"} => pc[t] \in {"open", "test", "read"}
    BY <1>2 DEF Main, Bind, Loop, AcceptFails, Open, OpenFails, Test, ReadFails, SendFails, Stop
  <2> QED
    BY <2>1, <2>2, <2>3
<1>3. ASSUME NEW t \in Threads, Accept(t) PROVE StreamInv'
  <2>1. PICK c \in Conns, f \in Fds :
          /\ conn[c] = "backlog" /\ conn' = [conn EXCEPT ![c] = "accepted"]
          /\ OpenFile(f, c) /\ nSock' = [nSock EXCEPT ![t] = f]
    BY <1>3 DEF Accept
  <2>2. file' = [file EXCEPT ![f] = c]
    BY <2>1, OpensFree
  <2>3. /\ buf'[t] = NoBuf /\ nSock'[t] = f /\ file'[f] = c
        /\ wire[c] = <<>> /\ wire' = wire
    BY <1>3, <2>1, <2>2 DEF Accept
  <2>4. Fresh' /\ StreamIntact'
    BY <2>1, <2>3
  <2>5. \A u \in Threads : u # t => pc'[u] \notin Serving
    BY <1>3 DEF Accept, RecordInv, Owned, Listens
  <2>6. Counted'
    BY <2>3, <2>5 DEF NoBuf
  <2> QED
    BY <2>4, <2>6
<1>9. ASSUME NEW t \in Threads, Create(t) \/ CloseUnbound(t) \/ CloseAgain(t) PROVE StreamInv'
  <2>1. /\ UNCHANGED <<conn, nSock, buf, wire>>
        /\ \A u \in Threads : u # t => pc'[u] = pc[u]
        /\ pc'[t] \notin Serving
    BY <1>9 DEF Create, CloseUnbound, CloseAgain, sendVars
  <2>2. \A f \in Fds : file'[f] \in Conns => file'[f] = file[f]
    <3>1. CASE CloseUnbound(t) \/ CloseAgain(t)
      BY <3>1, DistinctAssumption DEF CloseUnbound, CloseAgain, CloseFile
    <3>2. ASSUME NEW f \in Fds, OpenFile(f, t)
          PROVE  \A g \in Fds : file'[g] \in Conns => file'[g] = file[g]
      BY <3>2, OpensFree, DistinctAssumption
    <3> QED
      BY <1>9, <3>1, <3>2 DEF Create
  <2>3. Counted'
    BY <2>1, <2>2
  <2> QED
    BY <2>1, <2>3
<1>4. ASSUME NEW t \in Threads, Read(t) PROVE StreamInv'
  <2>1. PICK n \in 1..kBufferOutputSize :
          buf' = [buf EXCEPT ![t] = [first |-> buf[t].first + buf[t].len, len |-> n, ptr |-> 0]]
    BY <1>4 DEF Read
  <2>2. wire' = wire /\ nSock' = nSock /\ conn' = conn /\ file' = file
    BY <1>4 DEF Read, fileVars, socketVars
  <2>3. file[nSock[t]] \in Conns => Len(wire[file[nSock[t]]]) = buf[t].first + buf[t].len
    BY <1>4 DEF Read
  <2>4. Counted'
    BY <1>4, <2>1, <2>2, <2>3 DEF Read
  <2> QED
    BY <2>2, <2>4
<1>5. ASSUME NEW t \in Threads, Send(t) PROVE StreamInv'
  <2> DEFINE c == file[nSock[t]]
  <2>1. PICK n \in 1..(buf[t].len - buf[t].ptr) :
          /\ wire' = [wire EXCEPT ![c] = @ \o Bytes(buf[t].first + buf[t].ptr, n)]
          /\ buf' = [buf EXCEPT ![t].ptr = @ + n]
          /\ Goto(t, "send", IF buf[t].ptr + n = buf[t].len THEN "test" ELSE "send")
    BY <1>5 DEF Send
  <2>2. /\ nSock' = nSock /\ conn' = conn /\ file' = file
        /\ c \in Conns /\ conn[c] = "accepted" /\ wire[c] \in Seq(Nat)
        /\ Len(wire[c]) = buf[t].first + buf[t].ptr
    BY <1>5 DEF Send, fileVars, socketVars, RecordInv, FilesAccepted
  <2>3. /\ Len(wire'[c]) = Len(wire[c]) + n
        /\ \A i \in DOMAIN wire'[c] : wire'[c][i] = i
    <3>1. n \in Nat
      OBVIOUS
    <3>2. wire'[c] = wire[c] \o Bytes(Len(wire[c]), n)
      BY <2>1, <2>2
    <3>3. \A i \in DOMAIN wire[c] : wire[c][i] = i
      BY <2>2
    <3> HIDE DEF c, StreamIntact, Counted, Fresh, TypeOK, StreamInv
    <3>4. wire[c] \in Seq(Nat)
      BY <2>2
    <3> QED
      BY <3>1, <3>2, <3>3, <3>4, AppendBytes
  <2>4. \A d \in Conns : d # c => wire'[d] = wire[d]
    BY <2>1
  <2>5. StreamIntact'
    <3>1. ASSUME NEW d \in Conns PROVE \A i \in DOMAIN wire'[d] : wire'[d][i] = i
      <4>1. CASE d = c
        BY <2>3, <4>1
      <4>2. CASE d # c
        BY <2>4, <4>2
      <4> QED
        BY <4>1, <4>2
    <3> QED
      BY <3>1
  <2>9. Fresh'
    BY <2>2, <2>4
  <2>6. \A u \in Threads : u # t => pc'[u] \notin Serving
    BY <2>1 DEF RecordInv, Owned, Listens
  <2>7. /\ buf'[t].first = buf[t].first /\ buf'[t].ptr = buf[t].ptr + n
        /\ buf'[t].len = buf[t].len
        /\ pc'[t] = IF buf[t].ptr + n = buf[t].len THEN "test" ELSE "send"
    BY <2>1
  <2>8. Counted'
    <3>1. Len(wire'[file'[nSock'[t]]]) = buf'[t].first + buf'[t].ptr
      BY <2>2, <2>3, <2>7
    <3>2. pc'[t] \in {"open", "test", "read"} => buf'[t].ptr = buf'[t].len
      BY <2>7
    <3> QED
      BY <2>6, <3>1, <3>2
  <2> QED
    BY <2>5, <2>8, <2>9
<1>6. ASSUME NEW t \in Threads, CloseSocket(t) PROVE StreamInv'
  <2>1. /\ UNCHANGED <<conn, nSock, buf, wire>> /\ pc'[t] = "loop"
        /\ \A u \in Threads : u # t => pc'[u] \notin Serving
    BY <1>6 DEF CloseSocket, sendVars, RecordInv, Owned, Listens
  <2> QED
    BY <2>1
<1>7. ASSUME NEW c \in Conns, Connect(c) \/ PeerLeaves(c) PROVE StreamInv'
  BY <1>7 DEF Connect, PeerLeaves, sendVars
<1>8. CASE UNCHANGED vars
  BY <1>8 DEF vars, fileVars, socketVars, sendVars
<1> QED
  BY <1>1, <1>2, <1>3, <1>4, <1>5, <1>6, <1>7, <1>8, <1>9 DEF Next, ThreadStep

\* A client gets what was recorded for it in order, nothing twice, nothing left out.
THEOREM StreamIntactCorrect == Spec => []StreamIntact
<1>1. StreamInv => StreamIntact
  BY DEF StreamInv
<1> QED
  BY <1>1, StreamInit, StreamNext, TypeCorrect, RecordCorrect, PTL DEF Spec

-----------------------------------------------------------------------------

\* What a thread sends is not all sent.
Unsent == \A t \in Threads : pc[t] = "send" => buf[t].ptr < buf[t].len

LEMMA UnsentInit == Init => Unsent
BY DEF Init, Unsent

\* A step of one thread leaves the place and the buffer of another.
LEMMA OthersStay ==
  ASSUME TypeOK, [Next]_vars, NEW t \in Threads, UNCHANGED <<pc[t], buf[t]>> => FALSE,
         pc[t] \in Streaming \/ pc'[t] = "send"
  PROVE  Test(t) \/ Read(t) \/ ReadFails(t) \/ Send(t) \/ SendFails(t) \/ Stop(t)
<1> USE DEF TypeOK, ThreadTypes, Streaming, Serving, Goto
<1>1. ASSUME NEW h \in BOOLEAN, StartService(h) \/ Restart(h) \/ Resume PROVE FALSE
  BY <1>1 DEF StartService, Restart, Resume, Launch, sendVars
<1>2. ASSUME NEW u \in Threads, u # t, ThreadStep(u) \/ AcceptFails(u) \/ Send(u) PROVE FALSE
  BY <1>2 DEF ThreadStep, Main, Create, Bind, CloseUnbound, CloseAgain, Loop, Accept, AcceptFails, Open, OpenFails, Test, Read,
              ReadFails, Send, SendFails, Stop, CloseSocket, sendVars
<1>3. ~(Main(t) \/ Create(t) \/ Bind(t) \/ CloseUnbound(t) \/ CloseAgain(t) \/ Loop(t)
          \/ Accept(t) \/ AcceptFails(t) \/ Open(t) \/ OpenFails(t) \/ CloseSocket(t))
  BY DEF Main, Create, Bind, CloseUnbound, CloseAgain, Loop, Accept, AcceptFails, Open, OpenFails, CloseSocket
<1>4. ASSUME NEW c \in Conns, Connect(c) \/ PeerLeaves(c) PROVE FALSE
  BY <1>4 DEF Connect, PeerLeaves, sendVars
<1>5. ~UNCHANGED vars
  BY DEF vars, sendVars
<1> QED
  BY <1>1, <1>2, <1>3, <1>4, <1>5 DEF Next, ThreadStep

\* What each step of a thread that streams does to its place and its buffer.
LEMMA StreamSteps ==
  ASSUME TypeOK, Unsent, NEW t \in Threads, pc'[t] \in Streaming,
         Test(t) \/ Read(t) \/ ReadFails(t) \/ Send(t) \/ SendFails(t) \/ Stop(t)
  PROVE  /\ pc'[t] = "send" => buf'[t].ptr < buf'[t].len
         /\ gRunning \/ StepsToStop(t)' < StepsToStop(t)
<1> USE DEF TypeOK, ThreadTypes, Streaming, Serving, Goto
<1>0. /\ kBufferOutputSize \in Nat /\ buf[t].len \in Nat /\ buf[t].ptr \in Nat
      /\ pc[t] = "send" => buf[t].ptr < buf[t].len
  BY SizesAssumption DEF Unsent
<1>1. CASE Test(t)
  BY <1>0, <1>1 DEF Test, StepsToStop
<1>2. CASE Read(t)
  <2>1. PICK n \in 1..kBufferOutputSize :
          buf' = [buf EXCEPT ![t] = [first |-> buf[t].first + buf[t].len, len |-> n, ptr |-> 0]]
    BY <1>2 DEF Read
  <2>2. pc[t] = "read" /\ pc'[t] = "send" /\ buf'[t].len = n /\ buf'[t].ptr = 0
    BY <1>2, <2>1 DEF Read
  <2>3. StepsToStop(t) = kBufferOutputSize + 2 /\ StepsToStop(t)' = n + 1
    BY <2>2 DEF StepsToStop
  <2> QED
    BY <1>0, <2>2, <2>3
<1>3. CASE ReadFails(t)
  BY <1>0, <1>3 DEF ReadFails, StepsToStop
<1>4. CASE Send(t)
  <2>1. PICK n \in 1..(buf[t].len - buf[t].ptr) :
          /\ buf' = [buf EXCEPT ![t].ptr = @ + n]
          /\ Goto(t, "send", IF buf[t].ptr + n = buf[t].len THEN "test" ELSE "send")
    BY <1>4 DEF Send
  <2>2. /\ pc[t] = "send" /\ buf'[t].len = buf[t].len /\ buf'[t].ptr = buf[t].ptr + n
        /\ pc'[t] = IF buf[t].ptr + n = buf[t].len THEN "test" ELSE "send"
    BY <2>1
  <2>3. StepsToStop(t) = buf[t].len - buf[t].ptr + 1
    BY <2>2 DEF StepsToStop
  <2>4. StepsToStop(t)' \in {1, buf[t].len - buf[t].ptr - n + 1}
    BY <1>0, <2>2 DEF StepsToStop
  <2>5. n \in Nat \ {0} /\ n <= buf[t].len - buf[t].ptr
    BY <1>0
  <2>6. pc'[t] = "send" => buf[t].ptr + n < buf[t].len
    <3>1. pc'[t] = "send" => buf[t].ptr + n # buf[t].len
      BY <2>2
    <3>2. buf[t].ptr + n <= buf[t].len
      BY <1>0, <2>5
    <3>3. \A i, j \in Nat : i + n <= j /\ i + n # j => i + n < j
      BY <2>5
    <3> QED
      BY <1>0, <3>1, <3>2, <3>3, Zenon
  <2>7. pc'[t] = "send" => buf'[t].ptr < buf'[t].len
    BY <2>2, <2>6, Zenon
  <2>8. StepsToStop(t)' < StepsToStop(t)
    BY <1>0, <2>3, <2>4, <2>5
  <2> QED
    BY <2>7, <2>8
<1>5. CASE SendFails(t)
  BY <1>0, <1>5 DEF SendFails, StepsToStop, sendVars
<1>6. CASE Stop(t)
  BY <1>6 DEF Stop
<1> QED
  BY <1>1, <1>2, <1>3, <1>4, <1>5, <1>6

LEMMA UnsentNext == TypeOK /\ Unsent /\ [Next]_vars => Unsent'
<1> SUFFICES ASSUME TypeOK, Unsent, [Next]_vars, NEW t \in Threads, pc'[t] = "send"
             PROVE  buf'[t].ptr < buf'[t].len
  BY DEF Unsent
<1>1. CASE UNCHANGED <<pc[t], buf[t]>>
  BY <1>1 DEF Unsent
<1>2. CASE ~UNCHANGED <<pc[t], buf[t]>>
  BY <1>2, OthersStay, StreamSteps DEF Streaming, Serving
<1> QED
  BY <1>1, <1>2

LEMMA UnsentCorrect == Spec => []Unsent
BY UnsentInit, UnsentNext, TypeCorrect, PTL DEF Spec

\* An ended streamer reads one buffer at most, sends what is left, and stops.
THEOREM RecordingNearsCorrect == Spec => RecordingNears
<1> DEFINE Step ==
      \A t \in Threads :
        ~gRunning /\ {pc[t], pc'[t]} \subseteq Streaming =>
          UNCHANGED <<pc[t], buf[t]>> \/ StepsToStop(t)' < StepsToStop(t)
<1>1. TypeOK /\ Unsent /\ [Next]_vars => Step
  BY OthersStay, StreamSteps
<1> HIDE DEF Step
<1>2. TypeOK /\ Unsent /\ [Next]_vars => [Step]_vars
  BY <1>1
<1>3. Spec => [][Step]_vars
  BY <1>2, TypeCorrect, UnsentCorrect, PTL DEF Spec
<1> QED
  BY <1>3 DEF RecordingNears, Step
=============================================================================

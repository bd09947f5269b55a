-------------------- MODULE AudioStreamerRefinementProofs --------------------
(***************************************************************************)
(* AudioStreamer implements StreamServer, for any number of starts of the  *)
(* service, any connections and any buffer size: a step of the streamer is *)
(* a Begin (Accept), a Deliver (Send), a Finish (CloseSocket, a recorder   *)
(* that cannot be opened, a failed start that closes the connection), or   *)
(* nothing to the clients.                                                 *)
(***************************************************************************)
EXTENDS AudioStreamerRefinement, AudioStreamerProofs

\* A read never returns more than was asked for.
BufSmall == \A t \in Threads : buf[t].len <= kBufferOutputSize

LEMMA BufInit == Init => BufSmall
<1> SUFFICES ASSUME Init, NEW t \in Threads PROVE buf[t].len <= kBufferOutputSize
  BY DEF BufSmall
<1>1. buf[t] = NoBuf
  BY DEF Init
<1>2. NoBuf.len = 0
  BY DEF NoBuf
<1> QED BY <1>1, <1>2, SizesAssumption

LEMMA BufNext == TypeOK /\ BufSmall /\ [Next]_vars => BufSmall'
<1> SUFFICES ASSUME TypeOK, BufSmall, [Next]_vars PROVE BufSmall'
  OBVIOUS
<1>0. buf \in [Threads -> [first : Nat, len : Nat, ptr : Nat]]
  BY DEF TypeOK, ThreadTypes
<1>1. CASE UNCHANGED buf
  BY <1>1 DEF BufSmall
<1>2. ASSUME NEW t \in Threads, Accept(t) PROVE BufSmall'
  <2>1. buf' = [buf EXCEPT ![t] = NoBuf] /\ NoBuf.len = 0
    BY <1>2 DEF Accept, NoBuf
  <2> QED BY <1>0, <2>1, SizesAssumption DEF BufSmall
<1>3. ASSUME NEW t \in Threads, Read(t) PROVE BufSmall'
  <2>1. PICK n \in 1..kBufferOutputSize :
          buf' = [buf EXCEPT ![t] = [first |-> buf[t].first + buf[t].len, len |-> n, ptr |-> 0]]
    BY <1>3 DEF Read
  <2> QED BY <1>0, <2>1, SizesAssumption DEF BufSmall
<1>4. ASSUME NEW t \in Threads, Send(t) PROVE BufSmall'
  <2>1. PICK n \in 1..(buf[t].len - buf[t].ptr) : buf' = [buf EXCEPT ![t].ptr = @ + n]
    BY <1>4 DEF Send
  <2>2. \A u \in Threads : buf'[u].len = buf[u].len
    BY <1>0, <2>1
  <2> QED BY <2>2 DEF BufSmall
<1> QED
  BY <1>1, <1>2, <1>3, <1>4
     DEF Next, StartService, Restart, Resume, Launch, ThreadStep, Main, Create, Bind,
         CloseUnbound, CloseAgain, Loop, Open, OpenFails, Test, ReadFails, SendFails, Stop, CloseSocket, AcceptFails,
         Connect, PeerLeaves, sendVars, vars

-----------------------------------------------------------------------------

\* There is one thread that serves to choose, or none.
LEMMA OneChoice ==
  ASSUME NEW S, NEW t \in S, \A u \in S : u = t
  PROVE  (CHOOSE u \in S : TRUE) = t
OBVIOUS

\* The threads whose connections the clients see served are one or none.
LEMMA OneServing ==
  ASSUME RecordInv, NEW t \in ServingThreads
  PROVE  (\A u \in ServingThreads : u = t) /\ ServingNow = file[nSock[t]]
<1>1. \A u \in ServingThreads : u = t
  BY DEF ServingThreads, RecordInv, Owned, Listens
<1> QED BY <1>1, OneChoice DEF ServingNow

\* A step that begins no turn and sends nothing ends a turn or is not seen.
LEMMA TurnMayEnd ==
  ASSUME TypeOK, RecordInv, RecordInv', nSock' = nSock, wire' = wire, Served' = Served,
         \A f \in Fds : file'[f] \in Conns => file'[f] = file[f],
         \A t \in Threads : pc'[t] \in Serving => pc[t] \in Serving
  PROVE  Stream!Next \/ UNCHANGED Stream!vars
<1>1. \A t \in ServingThreads' : t \in ServingThreads /\ file'[nSock'[t]] = file[nSock[t]]
  BY DEF ServingThreads, TypeOK
<1>2. CASE ServingThreads = {}
  BY <1>1, <1>2 DEF ServingNow, Stream!vars
<1>3. ASSUME NEW t \in ServingThreads PROVE Stream!Next \/ UNCHANGED Stream!vars
  <2>1. (\A u \in ServingThreads : u = t) /\ ServingNow = file[nSock[t]]
    BY OneServing
  <2>2. ServingNow # None
    BY <2>1, DistinctAssumption DEF ServingThreads
  <2>3. CASE ServingThreads' = {}
    BY <2>2, <2>3 DEF ServingNow, Stream!Next, Stream!Finish
  <2>4. CASE ServingThreads' # {}
    <3>1. ServingThreads' = {t}
      BY <1>1, <2>1, <2>4
    <3>2. (CHOOSE u \in ServingThreads' : TRUE) = t
      BY <3>1
    <3>3. ServingNow' = file'[nSock'[t]]
      BY <3>1, <3>2 DEF ServingNow
    <3>4. ServingNow' = ServingNow
      BY <1>1, <2>1, <3>1, <3>3
    <3> QED BY <3>4 DEF Stream!vars
  <2> QED BY <2>3, <2>4
<1> QED BY <1>2, <1>3

LEMMA AcceptBegins ==
  ASSUME TypeOK, RecordInv, RecordInv', NEW t \in Threads, Accept(t)
  PROVE  Stream!Next
<1> USE DEF TypeOK, SocketTypes, ThreadTypes, Goto
<1>1. PICK c \in Conns, f \in Fds :
        /\ conn[c] = "backlog" /\ conn' = [conn EXCEPT ![c] = "accepted"]
        /\ OpenFile(f, c) /\ nSock' = [nSock EXCEPT ![t] = f]
  BY DEF Accept
<1>2. pc[t] = "accept" /\ pc' = [pc EXCEPT ![t] = "open"] /\ wire' = wire
  BY DEF Accept
<1>3. \A u \in Threads : pc[u] \notin Serving
  BY <1>2 DEF RecordInv, Owned, Serving, Listens
<1>4. ServingNow = None
  BY <1>3 DEF ServingNow, ServingThreads
<1>5. nSock'[t] = f /\ file'[f] = c
  BY <1>1, OpensFree
<1>6. ServingThreads' = {t}
  BY <1>2, <1>3, <1>5 DEF ServingThreads, Serving
<1>7. ServingNow' = c
  <2>1. (CHOOSE u \in ServingThreads' : TRUE) = t
    BY <1>6
  <2> QED BY <1>5, <1>6, <2>1 DEF ServingNow
<1>8. c \notin Served /\ Served' = Served \cup {c}
  BY <1>1 DEF Served
<1> QED BY <1>2, <1>4, <1>7, <1>8 DEF Stream!Next, Stream!Begin

LEMMA SendDelivers ==
  ASSUME TypeOK, RecordInv, RecordInv', StreamInv, BufSmall, NEW t \in Threads, Send(t)
  PROVE  Stream!Next
<1> DEFINE c == file[nSock[t]]
<1>0. /\ pc[t] = "send" /\ c \in Conns /\ conn' = conn /\ nSock' = nSock /\ file' = file
      /\ buf \in [Threads -> [first : Nat, len : Nat, ptr : Nat]]
      /\ pc \in [Threads -> {"none", "main", "create", "done"} \cup Binding \cup Listens]
  BY DEF Send, Goto, TypeOK, ThreadTypes, Serving, fileVars, socketVars
<1>1. PICK n \in 1..(buf[t].len - buf[t].ptr) :
        /\ wire' = [wire EXCEPT ![c] = @ \o Bytes(buf[t].first + buf[t].ptr, n)]
        /\ Goto(t, "send", IF buf[t].ptr + n = buf[t].len THEN "test" ELSE "send")
  BY DEF Send
<1>2. pc'[t] \in {"test", "send"}
  BY <1>0, <1>1 DEF Goto
<1>3. t \in ServingThreads /\ t \in ServingThreads'
  BY <1>0, <1>2 DEF ServingThreads, Serving
<1>4. ServingNow = c
  BY <1>3, OneServing
<1>5. ServingNow' = c
  <2>1. \A u \in ServingThreads' : u = t
    BY <1>3 DEF ServingThreads, RecordInv, Owned, Listens
  <2>2. (CHOOSE u \in ServingThreads' : TRUE) = t
    BY <1>3, <2>1
  <2> QED BY <1>0, <1>3, <2>2 DEF ServingNow
<1>6. Served' = Served
  BY <1>0 DEF Served
<1>7. Len(wire[c]) = buf[t].first + buf[t].ptr
  BY <1>0 DEF StreamInv, Counted, Serving
<1>8. wire' = [wire EXCEPT ![c] = Stream!Continue(wire[c], n)]
  <2>1. wire' = [wire EXCEPT ![c] = wire[c] \o Bytes(Len(wire[c]), n)]
    BY <1>1, <1>7
  <2>2. Bytes(Len(wire[c]), n) = [i \in 1..n |-> Len(wire[c]) + i]
    BY DEF Bytes
  <2> QED BY <2>1, <2>2 DEF Stream!Continue
<1>9. n \in 1..kBufferOutputSize
  <2>1. buf[t].len <= kBufferOutputSize /\ buf[t].len \in Nat /\ buf[t].ptr \in Nat
    BY <1>0 DEF BufSmall
  <2> QED BY <2>1, SizesAssumption
<1>10. ServingNow # None
  BY <1>0, <1>4, DistinctAssumption
<1> HIDE DEF c
<1>11. Stream!Deliver(n)
  BY <1>4, <1>5, <1>6, <1>8, <1>10 DEF Stream!Deliver
<1> QED BY <1>9, <1>11 DEF Stream!Next

-----------------------------------------------------------------------------

LEMMA StreamServerInit == Init => Stream!Init
<1> SUFFICES ASSUME Init PROVE Stream!Init
  OBVIOUS
<1>1. ServingThreads = {} /\ Served = {}
  BY DEF Init, ServingThreads, Served, Serving
<1> QED BY <1>1 DEF Init, Stream!Init, ServingNow

LEMMA StreamServerNext ==
  TypeOK /\ RecordInv /\ RecordInv' /\ StreamInv /\ BufSmall /\ [Next]_vars
    => [Stream!Next]_(Stream!vars)
<1> SUFFICES ASSUME TypeOK, RecordInv, RecordInv', StreamInv, BufSmall, [Next]_vars
             PROVE  Stream!Next \/ UNCHANGED Stream!vars
  OBVIOUS
<1>0. /\ pc \in [Threads -> {"none", "main", "create", "done"} \cup Binding \cup Listens]
      /\ conn \in [Conns -> {"none", "backlog", "accepted"}]
      /\ file \in [Fds -> Threads \cup Conns \cup {None}]
  BY DEF TypeOK, ThreadTypes, SocketTypes
<1>1. CASE ~\E t \in Threads : Accept(t) \/ Send(t)
  <2>1. nSock' = nSock /\ wire' = wire
    BY <1>1 DEF Next, ThreadStep, StartService, Restart, Resume, Launch, Main, Create, Bind,
         CloseUnbound, CloseAgain, Loop, AcceptFails, Open, OpenFails, Test, Read, ReadFails,
         SendFails, Stop, CloseSocket, Connect, PeerLeaves, sendVars, vars
  <2>2. Served' = Served
    <3>1. CASE UNCHANGED conn
      BY <3>1 DEF Served
    <3>2. ASSUME NEW c \in Conns, Connect(c) PROVE Served' = Served
      BY <1>0, <3>2 DEF Connect, Served
    <3> QED
      BY <1>1, <3>1, <3>2 DEF Next, ThreadStep, StartService, Restart, Resume, Launch, Main,
         Create, Bind, CloseUnbound, CloseAgain, Loop, AcceptFails, Open, OpenFails, Test, Read,
         ReadFails, SendFails, Stop, CloseSocket, PeerLeaves, socketVars, vars
  <2>3. \A f \in Fds : file'[f] \in Conns => file'[f] = file[f]
    <3>1. CASE UNCHANGED file
      BY <3>1
    <3>2. ASSUME NEW g \in Fds \cup {None}, CloseFile(g)
          PROVE  \A f \in Fds : file'[f] \in Conns => file'[f] = file[f]
      BY <1>0, <3>2, DistinctAssumption DEF CloseFile
    <3>3. ASSUME NEW t \in Threads, NEW g \in Fds, OpenFile(g, t)
          PROVE  \A f \in Fds : file'[f] \in Conns => file'[f] = file[f]
      BY <1>0, <3>3, OpensFree, DistinctAssumption
    <3>4. ASSUME NEW t \in Threads, CloseUnbound(t) \/ CloseAgain(t) \/ CloseSocket(t)
          PROVE  \A f \in Fds : file'[f] \in Conns => file'[f] = file[f]
      <4>1. sock[t] \in Fds \cup {None} /\ nSock[t] \in Fds \cup {None}
        BY DEF TypeOK, SocketTypes, ThreadTypes
      <4> QED BY <3>2, <3>4, <4>1 DEF CloseUnbound, CloseAgain, CloseSocket
    <3>5. ASSUME NEW t \in Threads, Create(t)
          PROVE  \A f \in Fds : file'[f] \in Conns => file'[f] = file[f]
      BY <3>1, <3>3, <3>5 DEF Create, fileVars
    <3> QED
      BY <1>1, <3>1, <3>4, <3>5 DEF Next, ThreadStep, StartService, Restart, Resume, Launch,
         Main, Bind, Loop, AcceptFails, Open, OpenFails, Test, Read, ReadFails, SendFails, Stop,
         Connect, PeerLeaves, fileVars, socketVars, vars
  <2>4. \A t \in Threads : pc'[t] \in Serving => pc[t] \in Serving
    <3>1. ASSUME NEW h \in BOOLEAN, StartService(h) \/ Restart(h) \/ Resume
          PROVE  \A t \in Threads : pc'[t] \in Serving => pc[t] \in Serving
      BY <1>0, <3>1 DEF StartService, Restart, Resume, Launch, Goto, Serving
    <3>2. ASSUME NEW u \in Threads, Main(u) \/ Create(u) \/ Bind(u) \/ CloseUnbound(u)
                   \/ CloseAgain(u) \/ Loop(u) \/ AcceptFails(u)
          PROVE  \A t \in Threads : pc'[t] \in Serving => pc[t] \in Serving
      BY <1>0, <3>2 DEF Main, Create, Bind, CloseUnbound, CloseAgain, Loop, AcceptFails, Goto,
                        Serving
    <3>3. ASSUME NEW u \in Threads, Open(u) \/ OpenFails(u) \/ Test(u) \/ Read(u)
                   \/ ReadFails(u) \/ SendFails(u) \/ Stop(u) \/ CloseSocket(u)
          PROVE  \A t \in Threads : pc'[t] \in Serving => pc[t] \in Serving
      BY <1>0, <3>3 DEF Open, OpenFails, Test, Read, ReadFails, SendFails, Stop, CloseSocket,
                        Goto, Serving
    <3>4. CASE UNCHANGED pc
      BY <3>4
    <3> QED
      BY <1>1, <3>1, <3>2, <3>3, <3>4 DEF Next, ThreadStep, Connect, PeerLeaves, vars
  <2> QED BY <2>1, <2>2, <2>3, <2>4, TurnMayEnd
<1>2. ASSUME NEW t \in Threads, Accept(t) \/ Send(t) PROVE Stream!Next
  BY <1>2, AcceptBegins, SendDelivers
<1> QED BY <1>1, <1>2

\* The clients of however many audio threads see one server that serves them one
\* after the other, each with a stream of its own, in order and without gaps.
THEOREM ServesStreamsCorrect == Spec => ServesStreams
<1>1. Spec => []BufSmall
  BY BufInit, BufNext, TypeCorrect, PTL DEF Spec
<1>2. Spec => []StreamInv
  BY StreamInit, StreamNext, TypeCorrect, RecordCorrect, PTL DEF Spec
<1> QED
  BY <1>1, <1>2, StreamServerInit, StreamServerNext, TypeCorrect, RecordCorrect, PTL
     DEF Spec, Stream!Spec, ServesStreams
=============================================================================

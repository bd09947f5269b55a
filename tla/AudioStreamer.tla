---------------------------- MODULE AudioStreamer ----------------------------
(***************************************************************************)
(* The audio streamer: a thread that Java starts with the service, which   *)
(* accepts one client after the other on a Unix socket and sends it what   *)
(* the system plays.                                                       *)
(*                                                                         *)
(* Java only ever clears a flag to end it.  A thread that waits in accept  *)
(* does not see the flag, and the listening socket is never closed, so     *)
(* that a restarted service may find an earlier thread, or only its        *)
(* socket, still there.  The kernel lets one socket have the name; Java    *)
(* always asks for the same one ("-u", "@audiostreamer").  Of the reasons  *)
(* for which bind and listen may fail only a taken name is kept.           *)
(*                                                                         *)
(* A start that cannot bind closes its socket twice.  By the second time   *)
(* the descriptor may be somebody else's, so descriptors are modelled:     *)
(* the process's table says what each is open on, and a free one may be    *)
(* given to whoever asks next.                                             *)
(*                                                                         *)
(* The bytes recorded for a client are numbered from 1.                    *)
(***************************************************************************)
EXTENDS Integers, Sequences

CONSTANTS
  Threads,            \* the audio threads; bound: a start of the service takes one
  Conns,              \* connections; each is made once
  Fds,                \* file descriptors; bound: the process may have no more
  Grants,             \* of a set of free descriptors, those a new file may get
  kBufferOutputSize,  \* bytes asked of one read
  MaxBytes,           \* bound: bytes recorded for one client
  None                \* no thread, no connection, no descriptor

ASSUME SizesAssumption ==
  /\ kBufferOutputSize \in Nat \ {0} /\ MaxBytes \in Nat

ASSUME DistinctAssumption ==
  /\ None \notin Threads \cup Conns \cup Fds
  /\ Threads \cap Conns = {}

\* By POSIX it is the lowest; but the rest of the process opens and closes too.
ASSUME GrantsAssumption ==
  Grants \in [SUBSET Fds -> SUBSET Fds] /\ \A free \in SUBSET Fds : Grants[free] \subseteq free

VARIABLES
  java,       \* the service: stopped, running, restarting
  mHasAudio,
  gRunning,
  pc,         \* where each audio thread is
  file,       \* what each descriptor is open on: a connection, or a thread's socket
  sock,       \* the descriptor each thread got for its socket
  owner,      \* the thread that made the socket which has the name
  conn,       \* the connections: not made, in the backlog, or accepted
  left,       \* connections whose peer has closed its end
  pAudioRecord,
  recording,  \* the recorder is started
  nSock,      \* the descriptor each thread serves
  buf,        \* what each thread has read: bytes first + 1 .. first + len, ptr of them sent
  wire        \* the bytes sent on each connection

javaVars   == <<java, mHasAudio>>
fileVars   == <<file, sock>>
socketVars == <<fileVars, owner, conn, left>>
recordVars == <<pAudioRecord, recording>>
sendVars   == <<nSock, buf, wire>>
vars == <<javaVars, gRunning, pc, socketVars, recordVars, sendVars>>

Serving   == {"open", "test", "read", "send", "stop", "close"}
Streaming == Serving \ {"open", "close"}
Binding   == {"bind", "unbound", "failed"}
Listens   == {"loop", "accept"} \cup Serving
NoBuf == [first |-> 0, len |-> 0, ptr |-> 0]

Init ==
  /\ java = "stopped" /\ mHasAudio = TRUE /\ gRunning = FALSE
  /\ pc = [t \in Threads |-> "none"]
  /\ file = [f \in Fds |-> None] /\ sock = [t \in Threads |-> None]
  /\ owner = None /\ conn = [c \in Conns |-> "none"] /\ left = {}
  /\ pAudioRecord = "NULL" /\ recording = FALSE
  /\ nSock = [t \in Threads |-> None] /\ buf = [t \in Threads |-> NoBuf]
  /\ wire = [c \in Conns |-> <<>>]

Goto(t, from, to) == pc[t] = from /\ pc' = [pc EXCEPT ![t] = to]

\* A new file gets a free descriptor, a closed descriptor is free.
Free == {f \in Fds : file[f] = None}
OpenFile(f, what) == f \in Grants[Free] /\ file' = [file EXCEPT ![f] = what]
CloseFile(f) == file' = [file EXCEPT ![f] = None]

-----------------------------------------------------------------------------
(***************************************************************************)
(* The Java service.                                                       *)
(***************************************************************************)

\* The end of onStartCommand: with audio there is a new thread.
Launch(h) ==
  /\ java' = "running" /\ mHasAudio' = h
  /\ IF h THEN \E t \in Threads : Goto(t, "none", "main") ELSE UNCHANGED pc
  /\ UNCHANGED <<gRunning, socketVars, recordVars, sendVars>>

StartService(h) == java = "stopped" /\ Launch(h)

\* A changed setting: cleanup ends the streamer if audio is wanted from now on.
Restart(h) ==
  /\ java = "running" /\ java' = "restarting"
  /\ mHasAudio' = h
  /\ gRunning' = (gRunning /\ ~h)
  /\ UNCHANGED <<pc, socketVars, recordVars, sendVars>>

\* After a sleep of 100 ms the service starts again.
Resume == java = "restarting" /\ Launch(mHasAudio)

-----------------------------------------------------------------------------
(***************************************************************************)
(* The audio threads.                                                      *)
(***************************************************************************)

\* audio_main: the flag is set here, by the new thread.
Main(t) ==
  /\ Goto(t, "main", "create")
  /\ gRunning' = TRUE
  /\ UNCHANGED <<javaVars, socketVars, recordVars, sendVars>>

\* createUnixSocket: socket(), which fails for want of descriptors or memory; the
\* thread is then over, and Java is told of no error.
Create(t) ==
  /\ \/ /\ \E f \in Fds : OpenFile(f, t) /\ sock' = [sock EXCEPT ![t] = f]
        /\ Goto(t, "create", "bind")
     \/ Goto(t, "create", "done") /\ UNCHANGED fileVars
  /\ UNCHANGED <<javaVars, gRunning, owner, conn, left, recordVars, sendVars>>

\* Fault: the name is given to whoever asks.
BindOver(t) ==
  /\ Goto(t, "bind", "loop")
  /\ owner' = t
  /\ UNCHANGED <<javaVars, gRunning, fileVars, conn, left, recordVars, sendVars>>

\* Fault: the address is made up wrongly, and bind fails though the name is free.
BindFailing(t) ==
  /\ \/ /\ Goto(t, "bind", "loop")
        /\ owner = None /\ file[sock[t]] = t /\ owner' = t
     \/ Goto(t, "bind", "unbound") /\ UNCHANGED owner
  /\ UNCHANGED <<javaVars, gRunning, fileVars, conn, left, recordVars, sendVars>>

\* bind and listen.  Whoever is first has the name for good: no thread closes
\* the socket it accepts from.
Bind(t) ==
  /\ \/ /\ Goto(t, "bind", "loop")
        /\ owner = None /\ file[sock[t]] = t /\ owner' = t
     \/ /\ Goto(t, "bind", "unbound")
        /\ ~(owner = None /\ file[sock[t]] = t) /\ UNCHANGED owner
  /\ UNCHANGED <<javaVars, gRunning, fileVars, conn, left, recordVars, sendVars>>

\* The failed bind's own close,
CloseUnbound(t) ==
  /\ Goto(t, "unbound", "failed")
  /\ CloseFile(sock[t])
  /\ UNCHANGED <<javaVars, gRunning, sock, owner, conn, left, recordVars, sendVars>>

\* and the one that all failures share: it closes what has the descriptor by now.
CloseAgain(t) ==
  /\ Goto(t, "failed", "done")
  /\ CloseFile(sock[t])
  /\ UNCHANGED <<javaVars, gRunning, sock, owner, conn, left, recordVars, sendVars>>

\* The flag is tested between clients; the socket stays open.
Loop(t) ==
  /\ Goto(t, "loop", IF gRunning THEN "accept" ELSE "done")
  /\ UNCHANGED <<javaVars, gRunning, socketVars, recordVars, sendVars>>

\* Fault: a new client gets what was recorded for the one before.
AcceptKeepsBuf(t) ==
  /\ pc[t] = "accept" /\ file[sock[t]] = t
  /\ \E c \in Conns, f \in Fds :
       /\ conn[c] = "backlog" /\ conn' = [conn EXCEPT ![c] = "accepted"]
       /\ OpenFile(f, c) /\ nSock' = [nSock EXCEPT ![t] = f]
  /\ Goto(t, "accept", "open")
  /\ UNCHANGED <<javaVars, gRunning, sock, owner, left, recordVars, buf, wire>>

Accept(t) ==
  /\ pc[t] = "accept" /\ file[sock[t]] = t
  /\ \E c \in Conns, f \in Fds :
       /\ conn[c] = "backlog" /\ conn' = [conn EXCEPT ![c] = "accepted"]
       /\ OpenFile(f, c) /\ nSock' = [nSock EXCEPT ![t] = f]
  /\ Goto(t, "accept", "open")
  /\ buf' = [buf EXCEPT ![t] = NoBuf]
  /\ UNCHANGED <<javaVars, gRunning, sock, owner, left, recordVars, wire>>

\* Fault: the result of accept is not looked at.
AcceptUnchecked(t) ==
  /\ Goto(t, "accept", "open")
  /\ nSock' = [nSock EXCEPT ![t] = None]
  /\ UNCHANGED <<javaVars, gRunning, socketVars, recordVars, buf, wire>>

\* The connection was given up, or there is no free descriptor.
AcceptFails(t) ==
  /\ Goto(t, "accept", "loop")
  /\ UNCHANGED <<javaVars, gRunning, socketVars, recordVars, sendVars>>

\* audiostreamer_init: a recorder is made, which may not be usable.
MakeRecord ==
  IF pAudioRecord = "NULL" THEN pAudioRecord' \in {"good", "bad"}
                           ELSE UNCHANGED pAudioRecord

\* The recorder is made for the first client, and started, whose result is not
\* looked at.
Open(t) ==
  /\ Goto(t, "open", "test")
  /\ MakeRecord
  /\ pAudioRecord = "NULL" => pAudioRecord' = "good"
  /\ recording' \in {FALSE, pAudioRecord' = "good"}
  /\ UNCHANGED <<javaVars, gRunning, socketVars, sendVars>>

\* A recorder that could not be initialised stays for the next client; this
\* one is left connected.  So it is if there is no memory for the buffer.
OpenFails(t) ==
  /\ Goto(t, "open", "loop")
  /\ MakeRecord
  /\ UNCHANGED <<javaVars, gRunning, socketVars, recording, sendVars>>

\* Fault: a client is served as long as it likes.
TestNot(t) ==
  /\ Goto(t, "test", "read")
  /\ UNCHANGED <<javaVars, gRunning, socketVars, recordVars, sendVars>>

Test(t) ==
  /\ Goto(t, "test", IF gRunning THEN "read" ELSE "stop")
  /\ UNCHANGED <<javaVars, gRunning, socketVars, recordVars, sendVars>>

\* A read returns some bytes.
Read(t) ==
  /\ Goto(t, "read", "send")
  /\ recording
  /\ \E n \in 1..kBufferOutputSize :
       LET first == buf[t].first + buf[t].len IN
       /\ first + n <= MaxBytes
       /\ buf' = [buf EXCEPT ![t] = [first |-> first, len |-> n, ptr |-> 0]]
  /\ UNCHANGED <<javaVars, gRunning, socketVars, recordVars, nSock, wire>>

\* A read that fails is tried again.
ReadFails(t) ==
  /\ Goto(t, "read", "test")
  /\ UNCHANGED <<javaVars, gRunning, socketVars, recordVars, sendVars>>

\* Bytes from + 1 .. from + n.
Bytes(from, n) == [i \in 1..n |-> from + i]

\* Fault: after a partial send the buffer is sent from its beginning.
SendAgain(t) ==
  /\ pc[t] = "send" /\ file[nSock[t]] \in Conns
  /\ \E n \in 1..(buf[t].len - buf[t].ptr) :
       /\ wire' = [wire EXCEPT ![file[nSock[t]]] = @ \o Bytes(buf[t].first, n)]
       /\ buf' = [buf EXCEPT ![t].ptr = @ + n]
       /\ Goto(t, "send", IF buf[t].ptr + n = buf[t].len THEN "test" ELSE "send")
  /\ UNCHANGED <<javaVars, gRunning, socketVars, recordVars, nSock>>

\* Fault: what is sent is followed by another read, without a test of the flag.
SendReads(t) ==
  /\ pc[t] = "send" /\ file[nSock[t]] \in Conns
  /\ \E n \in 1..(buf[t].len - buf[t].ptr) :
       /\ wire' = [wire EXCEPT ![file[nSock[t]]] = @ \o Bytes(buf[t].first + buf[t].ptr, n)]
       /\ buf' = [buf EXCEPT ![t].ptr = @ + n]
       /\ Goto(t, "send", IF buf[t].ptr + n = buf[t].len THEN "read" ELSE "send")
  /\ UNCHANGED <<javaVars, gRunning, socketVars, recordVars, nSock>>

\* sendDataSocket: send takes some of the bytes that are left, until all are.
Send(t) ==
  /\ pc[t] = "send" /\ file[nSock[t]] \in Conns
  /\ \E n \in 1..(buf[t].len - buf[t].ptr) :
       /\ wire' = [wire EXCEPT ![file[nSock[t]]] = @ \o Bytes(buf[t].first + buf[t].ptr, n)]
       /\ buf' = [buf EXCEPT ![t].ptr = @ + n]
       /\ Goto(t, "send", IF buf[t].ptr + n = buf[t].len THEN "test" ELSE "send")
  /\ UNCHANGED <<javaVars, gRunning, socketVars, recordVars, nSock>>

\* The peer has left, or the descriptor is no connection any more.
SendFails(t) ==
  /\ Goto(t, "send", "stop")
  /\ file[nSock[t]] \notin Conns \ left
  /\ UNCHANGED <<javaVars, gRunning, socketVars, recordVars, sendVars>>

\* Fault: the recorder runs on.
StopNot(t) ==
  /\ Goto(t, "stop", "close")
  /\ UNCHANGED <<javaVars, gRunning, socketVars, recordVars, sendVars>>

Stop(t) ==
  /\ Goto(t, "stop", "close")
  /\ recording' = FALSE
  /\ UNCHANGED <<javaVars, gRunning, socketVars, pAudioRecord, sendVars>>

\* closeSocket: it, too, closes what has the descriptor by now.
CloseSocket(t) ==
  /\ Goto(t, "close", "loop")
  /\ CloseFile(nSock[t])
  /\ UNCHANGED <<javaVars, gRunning, sock, owner, conn, left, recordVars, sendVars>>

\* What the scheduler owes a thread: everything but a send, which may wait for
\* a peer that does not read.
ThreadStep(t) ==
  \/ Main(t) \/ Create(t) \/ Bind(t) \/ CloseUnbound(t) \/ CloseAgain(t)
  \/ Loop(t) \/ Accept(t)
  \/ Open(t) \/ OpenFails(t) \/ Test(t) \/ Read(t) \/ ReadFails(t)
  \/ SendFails(t) \/ Stop(t) \/ CloseSocket(t)

-----------------------------------------------------------------------------
(***************************************************************************)
(* The peers.                                                              *)
(***************************************************************************)

Connect(c) ==
  /\ owner # None /\ conn[c] = "none"
  /\ conn' = [conn EXCEPT ![c] = "backlog"]
  /\ UNCHANGED <<javaVars, gRunning, pc, fileVars, owner, left, recordVars, sendVars>>

PeerLeaves(c) ==
  /\ conn[c] = "backlog" \/ \E f \in Fds : file[f] = c
  /\ left' = left \cup {c}
  /\ UNCHANGED <<javaVars, gRunning, pc, fileVars, owner, conn, recordVars, sendVars>>

Next ==
  \/ \E h \in BOOLEAN : StartService(h) \/ Restart(h)
  \/ Resume
  \/ \E t \in Threads : ThreadStep(t) \/ AcceptFails(t) \/ Send(t)
  \/ \E c \in Conns : Connect(c) \/ PeerLeaves(c)

Spec == Init /\ [][Next]_vars

\* Every audio thread runs.
FairSpec == Spec /\ \A t \in Threads : WF_vars(ThreadStep(t))

-----------------------------------------------------------------------------
(***************************************************************************)
(* Properties.                                                             *)
(***************************************************************************)

JavaTypes ==
  /\ java \in {"stopped", "running", "restarting"}
  /\ mHasAudio \in BOOLEAN /\ gRunning \in BOOLEAN

SocketTypes ==
  /\ file \in [Fds -> Threads \cup Conns \cup {None}]
  /\ sock \in [Threads -> Fds \cup {None}]
  /\ owner \in Threads \cup {None}
  /\ conn \in [Conns -> {"none", "backlog", "accepted"}]
  /\ left \subseteq Conns

RecordTypes == pAudioRecord \in {"NULL", "good", "bad"} /\ recording \in BOOLEAN

ThreadTypes ==
  /\ pc \in [Threads -> {"none", "main", "create", "done"} \cup Binding \cup Listens]
  /\ nSock \in [Threads -> Fds \cup {None}]
  /\ buf \in [Threads -> [first : Nat, len : Nat, ptr : Nat]]
  /\ wire \in [Conns -> Seq(Nat)]

\* The values the variables may take, and a thread that uses a descriptor was
\* given one.
TypeOK ==
  /\ JavaTypes /\ SocketTypes /\ RecordTypes /\ ThreadTypes
  /\ \A t \in Threads : pc[t] \in Binding \cup Listens => sock[t] \in Fds
  /\ \A t \in Threads : pc[t] \in Serving => nSock[t] \in Fds

\* "NO multitasking on PURPOSE": however the service was restarted, one thread
\* at most serves a client; the recorder and the flag have no other protection.
OneClient ==
  \A t, u \in Threads : pc[t] \in Serving /\ pc[u] \in Serving => t = u

\* However many starts fail to bind, and whatever descriptors their second closes
\* take from others, the socket that has the name is never among them.
ListenerStays == owner # None => file[sock[owner]] = owner

\* A thread whose bind failed closed the descriptor f that it had got.
ClosedByFailed(f) == \E u \in Threads : pc[u] \in {"failed", "done"} /\ sock[u] = f

\* The recorder never outlasts the client it was started for: while it runs a
\* thread streams to an open connection, and the only other way to lose that
\* than the thread's own close, after the stop, is a start that failed to bind
\* and closed the same descriptor twice.
RecordsForClient ==
  recording =>
    \E t \in Threads :
      /\ pc[t] \in Streaming
      /\ file[nSock[t]] \in Conns \/ ClosedByFailed(nSock[t])

\* A client gets the bytes recorded for it in order, none twice and none left
\* out, however the kernel split the sends.
StreamIntact ==
  \A c \in Conns : \A i \in DOMAIN wire[c] : wire[c][i] = i

\* The steps a thread that streams may take before it stops, once the flag is
\* cleared: a read, the sends of its bytes one by one, and the test.
StepsToStop(t) ==
  [read |-> kBufferOutputSize + 2,
   send |-> buf[t].len - buf[t].ptr + 1,
   test |-> 1,
   stop |-> 0][pc[t]]

\* Once Java has ended the streamer, each step of a thread that streams brings
\* it nearer to its stop: it reads one buffer at most and sends what is left.
RecordingNears ==
  [][\A t \in Threads :
       ~gRunning /\ {pc[t], pc'[t]} \subseteq Streaming =>
         UNCHANGED <<pc[t], buf[t]>> \/ StepsToStop(t)' < StepsToStop(t)]_vars

\* Once Java has ended the streamer the recording stops, unless Java starts it
\* again or the client keeps the thread waiting in send.
RecordingEnds ==
  (~gRunning /\ recording) ~>
    (gRunning \/ ~recording \/ \E t \in Threads : pc[t] = "send")
=============================================================================

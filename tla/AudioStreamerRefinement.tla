----------------------- MODULE AudioStreamerRefinement -----------------------
(***************************************************************************)
(* The audio streamer, with its threads and restarts, serves a stream as   *)
(* StreamServer promises.                                                  *)
(***************************************************************************)
EXTENDS AudioStreamer

\* Who is past accept and not yet back in the loop serves its connection, unless
\* that was closed under it.
ServingThreads == {t \in Threads : pc[t] \in Serving /\ file[nSock[t]] \in Conns}
ServingNow ==
  IF ServingThreads = {} THEN None ELSE file[nSock[CHOOSE t \in ServingThreads : TRUE]]

Served == {c \in Conns : conn[c] = "accepted"}

Stream == INSTANCE StreamServer
            WITH serving <- ServingNow, served <- Served, Chunk <- kBufferOutputSize

\* "NO multitasking on PURPOSE": what the clients see of the threads of all
\* starts of the service is one server that serves them one after the other.
ServesStreams == Stream!Spec
=============================================================================

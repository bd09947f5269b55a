---------------------------- MODULE StreamServer ----------------------------
(***************************************************************************)
(* What a client may expect of the audio streamer, without threads,        *)
(* sockets or a recorder: connections are served one after the other, each *)
(* once, and while one is served it gets the bytes 1, 2, ... of a stream   *)
(* of its own.  Nothing reaches a connection before or after that.         *)
(***************************************************************************)
EXTENDS Integers, Sequences

CONSTANTS
  Conns,   \* connections
  Chunk,   \* bytes that come together at most
  None     \* no connection

VARIABLES
  serving,   \* the connection that is served
  served,    \* connections that are or were served
  wire       \* what each connection got

vars == <<serving, served, wire>>

Init == serving = None /\ served = {} /\ wire = [c \in Conns |-> <<>>]

Begin(c) ==
  /\ serving = None /\ c \notin served
  /\ serving' = c /\ served' = served \cup {c}
  /\ UNCHANGED wire

\* The next n bytes of a stream of which s was delivered.
Continue(s, n) == s \o [i \in 1..n |-> Len(s) + i]

Deliver(n) ==
  /\ serving # None
  /\ wire' = [wire EXCEPT ![serving] = Continue(wire[serving], n)]
  /\ UNCHANGED <<serving, served>>

Finish ==
  /\ serving # None /\ serving' = None
  /\ UNCHANGED <<served, wire>>

Next == (\E c \in Conns : Begin(c)) \/ (\E n \in 1..Chunk : Deliver(n)) \/ Finish

Spec == Init /\ [][Next]_vars
=============================================================================

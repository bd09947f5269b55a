--------------------------- MODULE MCAudioStreamer ---------------------------
(***************************************************************************)
(* AudioStreamerRefinement for TLC, with the kernel's rule for descriptors *)
(* in a process that opens no other files meanwhile.                       *)
(***************************************************************************)
EXTENDS AudioStreamerRefinement

MCFds == 1..4

Lowest == [free \in SUBSET MCFds |-> {f \in free : \A g \in free : f <= g}]
=============================================================================

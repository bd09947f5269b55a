------------------------- MODULE MCServiceLifecycle -------------------------
(***************************************************************************)
(* ServiceLifecycle for TLC.  Threads and sizes are interchangeable.       *)
(***************************************************************************)
EXTENDS ServiceLifecycle, TLC

MCSymmetry == Permutations(Threads) \cup Permutations(Sizes)
=============================================================================

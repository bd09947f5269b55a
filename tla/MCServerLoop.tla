---------------------------- MODULE MCServerLoop ----------------------------
(***************************************************************************)
(* ServerLoop for TLC.  Clients, binder threads and cursor shapes are      *)
(* interchangeable.                                                        *)
(***************************************************************************)
EXTENDS ServerLoop, TLC

MCSymmetry == Permutations(Clients) \cup Permutations(Binders) \cup Permutations(Cursors)
=============================================================================

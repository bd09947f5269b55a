-------------------------- MODULE MCDisplayGeometry --------------------------
(***************************************************************************)
(* DisplayGeometry for TLC.  Modes and windows are small, and such that    *)
(* the float operations truncate whole results: 11 times 13/11 is 12.      *)
(***************************************************************************)
EXTENDS DisplayGeometry, Float32

Size(x, y) == [w |-> x, h |-> y]

\* A display in either orientation, two that share a side, a square.
MCModes == {Size(7, 11), Size(11, 7), Size(8, 3), Size(3, 5), Size(5, 5)}

\* Windows that are wider, narrower, a pixel wide, and scaled inexactly.
MCWindows == {Size(15, 13), Size(12, 12), Size(1, 9), Size(11, 7), Size(15, 5)}
=============================================================================

---------------------------- MODULE MCInputDevice ----------------------------
(***************************************************************************)
(* InputDevice with rows of its tables for TLC: each branch of keyEvent,   *)
(* keysyms that share a code with another keysym (e and E and Eacute) or   *)
(* with a button of the touch screen (End), and modifiers that are pressed *)
(* both by the client and on its behalf.                                   *)
(***************************************************************************)
EXTENDS InputDevice, TLC

MCKeysyms == {"KP_Equal", "Eacute", "Shift_L", "Alt_L", "End", "e", "E", "Print"}

MCCodes == ButtonCodes \cup Modifiers \cup {"KEY_E", "KEY_EQUAL"}

MCAscii   == ("KP_Equal" :> "equal")
MCDead    == ("Eacute" :> [altChar |-> "KEY_E", baseChar |-> "E"])
MCSpecial == ("Shift_L" :> "KEY_LEFTSHIFT") @@ ("Alt_L" :> "KEY_LEFTALT") @@
             ("End" :> "KEY_END")
MCSymbol  == ("equal" :> "KEY_EQUAL")
MCQwerty  == ("e" :> [code |-> "KEY_E", needShift |-> FALSE]) @@
             ("E" :> [code |-> "KEY_E", needShift |-> TRUE])
=============================================================================

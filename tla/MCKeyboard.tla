------------------------------ MODULE MCKeyboard ------------------------------
(* Instances of Keyboard for TLC: the prefix, an arrow and its release, two *)
(* letters, shift (no character) and a key beyond the table.               *)
EXTENDS Keyboard

MCScanCodes == {224, 72, 200, 30, 31, 42, 87}
=============================================================================

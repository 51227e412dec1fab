------------------------------- MODULE MCMenu -------------------------------
(* Menu for TLC.  The keys are UP, DOWN, ENTER, ESC, a dot, and one that   *)
(* no one uses; UP is the small letter w, DOWN the code of a capital P, so *)
(* that both can be typed into a file name.                                *)
EXTENDS Menu
=============================================================================

------------------------------ MODULE MCContext ------------------------------
(* Context for TLC: one task of each ring, and a third of ring 3.          *)
EXTENDS Context
=============================================================================

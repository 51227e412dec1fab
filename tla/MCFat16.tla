------------------------------- MODULE MCFat16 -------------------------------
(* Instances of Fat16 for TLC.                                             *)
EXTENDS Fat16

MCNames  == {"A", "B"}
(* Three clusters of two sectors, the last one half full.                  *)
MCCounts == {5}
=============================================================================

----------------------------- MODULE MCIdleYield -----------------------------
(* Instances of IdleYield for TLC.                                         *)
EXTENDS IdleYield

MCSleepMs == {15}
=============================================================================

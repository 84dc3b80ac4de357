---------------------------- MODULE MCLeapSecond ----------------------------
(* Instance of LeapSecond for TLC: short minutes and intervals, in the same  *)
(* order as the constants of the source (60, 60, 300 s).                     *)
EXTENDS LeapSecond
=============================================================================

--------------------------- MODULE MCClockThread ----------------------------
(* Instance of ClockThread for TLC: the constants are given in the .cfg.     *)
EXTENDS ClockThread

=============================================================================

------------------------------ MODULE MCDaemon ------------------------------
(* Instance of Daemon for TLC: two starts, more server lines than the pool    *)
(* has room for.                                                             *)
EXTENDS Daemon
=============================================================================

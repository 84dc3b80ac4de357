---------------------------- MODULE MCPeerThread ----------------------------
(* Instance of PeerThread for TLC: contexts 0 (with a thread) and the ones   *)
(* of further configured servers (without), one number for the peer socket.  *)
EXTENDS PeerThread
=============================================================================

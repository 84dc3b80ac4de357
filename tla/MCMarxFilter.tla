---------------------------- MODULE MCMarxFilter ----------------------------
(* Instance of MarxFilter for TLC: a short array, so that it fills up, and   *)
(* delays spread so that the MAD threshold separates some and not others.    *)
EXTENDS MarxFilter
=============================================================================

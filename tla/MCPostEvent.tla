---------------------------- MODULE MCPostEvent ----------------------------
(* PostEvent for TLC: the threads are model values of the .cfg files.      *)
EXTENDS PostEvent
=============================================================================

----------------------------- MODULE MCEchoConn -----------------------------
(* EchoConn on a small instance: see the cfg files for the bounds.         *)
EXTENDS EchoConn
=============================================================================

---------------------------- MODULE MCEchoServer ----------------------------
(* EchoServer with ports at the edges of the valid range.                  *)
EXTENDS EchoServer
=============================================================================

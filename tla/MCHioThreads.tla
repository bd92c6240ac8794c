---------------------------- MODULE MCHioThreads ----------------------------
(* HioThreads on a small instance: see the cfg files for the bounds.       *)
EXTENDS HioThreads
=============================================================================

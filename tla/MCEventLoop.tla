---------------------------- MODULE MCEventLoop ----------------------------
(* The event loop with a few timers, an idle and a descriptor.             *)
EXTENDS EventLoop
=============================================================================

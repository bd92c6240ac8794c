----------------------------- MODULE EchoServer -----------------------------
(***************************************************************************)
(* The life of TcpEchoServer(port): the R function, RC_tcp_echo_server and *)
(* the parts of hloop.c that start, stop and free its event loop, against  *)
(* a SIGINT that arrives at any moment.                                    *)
(*                                                                         *)
(* R runs in one thread, so the handler of SIGINT runs between two steps   *)
(* of the main thread and is one atomic action; a step here is what the    *)
(* code does between two accesses the handler can tell apart.  What the    *)
(* callbacks do to a connection is EchoConn's subject.  The two modules    *)
(* have no variable in common, and no name.                                *)
(***************************************************************************)
EXTENDS Integers

CONSTANTS
    Ports,      \* the values a caller passes as port
    MaxCalls,   \* how often the user calls TcpEchoServer (a bound)
    MaxSigs     \* how often the user presses Ctrl+C (a bound)

ASSUME EchoServerAssumption ==
    /\ Ports \subseteq Int
    /\ MaxCalls \in Nat /\ MaxSigs \in Nat

VARIABLES
    pc,         \* where the main thread is
    port,       \* the argument of the call
    g_loop,     \* the global pointer: "NULL", "loop" or "dangling"
    status,     \* loop->status
    listenfd,   \* the listening socket is open
    eventfd,    \* the loop's eventfd is open
    sigint,     \* the disposition of SIGINT: R's own or handle_sigint
    rpending,   \* R_interrupts_pending
    failed,     \* this call is on its way to Rf_error
    calls, sigs,
    asked,      \* Ctrl+C was pressed since "Press Ctrl+C ..." was printed
    stopped     \* hloop_stop has changed the status of the running loop

serverVars == <<pc, port, g_loop, status, listenfd, eventfd, sigint, rpending,
          failed, calls, sigs, asked, stopped>>

resources == <<g_loop, status, listenfd, eventfd>>
signals   == <<sigint, rpending, sigs, asked, stopped>>
call      == <<port, calls, failed>>

InLoop  == {"create_eventfds", "while", "poll", "polled", "process"}
InFree  == {"free", "cleanup", "dealloc", "clear"}
InC     == {"check", "new", "create_tcp_server", "signal", "run", "set_running",
            "leave_run", "gnull"} \cup InLoop \cup InFree
PCs     == {"prompt", "R"} \cup InC

ValidPort(p) == 1 <= p /\ p <= 65535

ServerInit ==
    /\ pc = "prompt" /\ port \in Ports
    /\ g_loop = "NULL" /\ status = "STOP" /\ listenfd = FALSE /\ eventfd = FALSE
    /\ sigint = "R" /\ rpending = FALSE
    /\ failed = FALSE /\ calls = 0 /\ sigs = 0
    /\ asked = FALSE /\ stopped = FALSE

-----------------------------------------------------------------------------
(* TcpEchoServer, in R.                                                    *)

\* The port is checked before anything is printed; stop() is back to the
\* prompt.  The messages promise that Ctrl+C stops the server.
TcpEchoServer ==
    /\ pc = "prompt" /\ ~rpending /\ calls < MaxCalls
    /\ \E p \in Ports :
          /\ port' = p
          /\ pc' = IF ValidPort(p) THEN "R" ELSE "prompt"
    /\ calls' = calls + 1
    /\ asked' = FALSE /\ stopped' = FALSE
    /\ UNCHANGED <<resources, sigint, rpending, sigs, failed>>

\* .Call(RC_tcp_echo_server, port)
DotCall ==
    /\ pc = "R" /\ ~rpending
    /\ pc' = "check"
    /\ UNCHANGED <<resources, signals, call>>

\* The interpreter looks at R_interrupts_pending, in R code and at the
\* prompt, and nowhere else: the C code never calls R_CheckUserInterrupt.
RCheckInterrupt ==
    /\ pc \in {"R", "prompt"} /\ rpending
    /\ pc' = "prompt" /\ rpending' = FALSE
    /\ UNCHANGED <<resources, sigint, sigs, asked, stopped, call>>

-----------------------------------------------------------------------------
(* RC_tcp_echo_server.                                                     *)

Step(from, to) == pc = from /\ pc' = to

CheckPort ==
    /\ pc = "check"
    /\ pc' = IF ValidPort(port) THEN "new" ELSE "prompt"
    /\ UNCHANGED <<resources, signals, call>>

\* g_loop = hloop_new(0): hloop_init leaves the status STOP.
hloop_new ==
    /\ Step("new", "create_tcp_server")
    /\ g_loop' = "loop" /\ status' = "STOP"
    /\ UNCHANGED <<listenfd, eventfd, signals, call>>

\* bind or listen may fail: the loop is freed before Rf_error.
hloop_create_tcp_server ==
    /\ pc = "create_tcp_server"
    /\ \E ok \in BOOLEAN :
          /\ pc' = IF ok THEN "signal" ELSE "free"
          /\ listenfd' = ok
          /\ failed' = ~ok
    /\ UNCHANGED <<g_loop, status, eventfd, signals, port, calls>>

InstallHandler ==
    /\ Step("signal", "run")
    /\ sigint' = "handle_sigint"
    /\ UNCHANGED <<resources, rpending, sigs, asked, stopped, call>>

\* hloop_run: two looks at status, then the assignment.
hloop_run ==
    /\ pc = "run"
    /\ pc' = IF status = "RUNNING" THEN "free" ELSE "set_running"
    /\ UNCHANGED <<resources, signals, call>>

SetRunningMissing ==
    /\ Step("set_running", "create_eventfds")
    /\ UNCHANGED <<resources, signals, call>>

SetRunning ==
    /\ Step("set_running", "create_eventfds")
    /\ status' = "RUNNING"
    /\ UNCHANGED <<g_loop, listenfd, eventfd, signals, call>>

\* eventfd() may fail; hloop_run does not look.
hloop_create_eventfds ==
    /\ Step("create_eventfds", "while")
    /\ eventfd' \in BOOLEAN
    /\ UNCHANGED <<g_loop, status, listenfd, signals, call>>

WhileKeepRunning ==
    /\ pc = "while"
    /\ pc' = "poll"
    /\ UNCHANGED <<resources, signals, call>>

While ==
    /\ pc = "while"
    /\ pc' = IF status # "STOP" THEN "poll" ELSE "leave_run"
    /\ UNCHANGED <<resources, signals, call>>

\* epoll_wait returns after HLOOP_MAX_BLOCK_TIME at the latest.
PollReturns ==
    /\ Step("poll", "polled")
    /\ UNCHANGED <<resources, signals, call>>

\* "wakeup by hloop_stop"
AfterPoll ==
    /\ pc = "polled"
    /\ pc' = IF status = "STOP" THEN "while" ELSE "process"
    /\ UNCHANGED <<resources, signals, call>>

ProcessPendings ==
    /\ Step("process", "while")
    /\ UNCHANGED <<resources, signals, call>>

LeaveRun ==
    /\ Step("leave_run", "free")
    /\ status' = "STOP"
    /\ UNCHANGED <<g_loop, listenfd, eventfd, signals, call>>

\* hloop_free(&g_loop)
hloop_free ==
    /\ Step("free", "cleanup")
    /\ g_loop = "loop" /\ status # "DESTROY"
    /\ status' = "DESTROY"
    /\ UNCHANGED <<g_loop, listenfd, eventfd, signals, call>>

hloop_cleanup_ios_only ==
    /\ Step("cleanup", "dealloc")
    /\ listenfd' = FALSE
    /\ UNCHANGED <<g_loop, status, eventfd, signals, call>>

\* hio_free of every io closes the sockets; hloop_destroy_eventfds.
hloop_cleanup ==
    /\ Step("cleanup", "dealloc")
    /\ listenfd' = FALSE /\ eventfd' = FALSE
    /\ UNCHANGED <<g_loop, status, signals, call>>

\* HV_FREE(loop): g_loop still points there.
Dealloc ==
    /\ Step("dealloc", "clear")
    /\ g_loop' = "dangling"
    /\ UNCHANGED <<status, listenfd, eventfd, signals, call>>

\* *pp = NULL, then Rf_error or the end of RC_tcp_echo_server.
ClearPointer ==
    /\ pc = "clear"
    /\ pc' = IF failed THEN "prompt" ELSE "gnull"
    /\ g_loop' = "NULL"
    /\ UNCHANGED <<status, listenfd, eventfd, signals, call>>

Return ==
    /\ Step("gnull", "prompt")
    /\ g_loop' = "NULL"
    /\ UNCHANGED <<status, listenfd, eventfd, signals, call>>

-----------------------------------------------------------------------------
(* SIGINT.                                                                 *)

\* hloop_stop in the loop's own thread: no wakeup, only the status.
hloop_stop ==
    /\ status' = "STOP"
    /\ stopped' = (stopped \/ (status # "STOP" /\ pc \in InLoop))

\* handle_sigint looks at g_loop only.  In the one step in which g_loop is
\* dangling it reads freed memory, and whatever it finds there it may write
\* or not: nothing of the program's own state depends on it.
handle_sigint ==
    IF g_loop = "loop" THEN hloop_stop ELSE UNCHANGED <<status, stopped>>

Sigint ==
    /\ sigs < MaxSigs
    /\ sigs' = sigs + 1
    /\ asked' = (asked \/ pc # "prompt")
    /\ \/ sigint = "R" /\ rpending' = TRUE /\ UNCHANGED <<status, stopped>>
       \/ sigint = "handle_sigint" /\ handle_sigint /\ UNCHANGED rpending
    /\ UNCHANGED <<pc, g_loop, listenfd, eventfd, sigint, call>>

Main ==
    \/ DotCall \/ RCheckInterrupt
    \/ CheckPort \/ hloop_new \/ hloop_create_tcp_server \/ InstallHandler
    \/ hloop_run \/ SetRunning \/ hloop_create_eventfds
    \/ While \/ PollReturns \/ AfterPoll \/ ProcessPendings \/ LeaveRun
    \/ hloop_free \/ hloop_cleanup \/ Dealloc \/ ClearPointer \/ Return

ServerNext == TcpEchoServer \/ Main \/ Sigint

\* The main thread goes on; the user need not call, and need not interrupt.
ServerSpec == ServerInit /\ [][ServerNext]_serverVars /\ WF_serverVars(Main)

-----------------------------------------------------------------------------
(* Properties.                                                             *)

\* The type invariant.
ServerTypeOK ==
    /\ pc \in PCs /\ port \in Int
    /\ g_loop \in {"NULL", "loop", "dangling"}
    /\ status \in {"STOP", "RUNNING", "DESTROY"}
    /\ listenfd \in BOOLEAN /\ eventfd \in BOOLEAN
    /\ sigint \in {"R", "handle_sigint"} /\ rpending \in BOOLEAN
    /\ failed \in BOOLEAN /\ asked \in BOOLEAN /\ stopped \in BOOLEAN
    /\ calls \in Nat /\ sigs \in Nat

\* However the call ends (an error in hloop_create_tcp_server, Ctrl+C), the
\* sockets are closed and the handler, which stays installed for the rest of
\* the R session, finds NULL and not a freed loop.
ReleasedAtPrompt ==
    pc \in {"prompt", "R"} => g_loop = "NULL" /\ ~listenfd /\ ~eventfd

\* The server runs until it is told to stop: hloop_run ends only after an
\* interrupt of this very run, never because of one that came while an
\* earlier call was cleaning up.
EndsOnlyWhenAsked == pc = "leave_run" => stopped

\* A stop that hloop_stop has accepted is not overwritten by anything the
\* loop does: the call returns.
AcceptedStopReturns == (stopped /\ pc \in InLoop) ~> (pc = "prompt")

\* "Press Ctrl+C to stop the server": whenever Ctrl+C is pressed after this
\* message, the call ends.
CtrlCStops == (asked /\ pc # "prompt") ~> (pc = "prompt")

=============================================================================

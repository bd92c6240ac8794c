----------------------------- MODULE TcpClient ------------------------------
(***************************************************************************)
(* hv::TcpClientEventLoopTmpl: a client that connects, and connects again  *)
(* when its connection is refused, times out or ends.  The loop thread     *)
(* runs startConnect, the socket's events, the timers and the posted       *)
(* functions; another thread calls start, send and closesocket.            *)
(*                                                                         *)
(* Ids are compared for equality only, so a new hio_t takes an id that     *)
(* nothing refers to; the model has no bound on the number of attempts.    *)
(***************************************************************************)
EXTENDS Integers, Sequences, FiniteSets

CONSTANTS
    Fds,          \* descriptors that socket() may return
    Settings,     \* reconn_setting_t values the user may give
    Uses,         \* sets of what the user and the machine may do, see below
    CountMod,     \* 2^32 in the code: cur_retry_cnt and cur_delay are uint32_t
    Steady,       \* a number of retries after which the delay is at its limit
    MaxStarts, MaxCloses, MaxSends,   \* calls of the user (bounds)
    MaxFaults     \* faults of the network and of the machine (a bound)

INFINITE == -1    \* (uint32_t)-1, which ++cur_retry_cnt never compares with
NULL     == [none |-> TRUE]

(***************************************************************************)
(* What may happen in a behaviour beyond the ordinary:                     *)
(*   "restart"       start() is called at any time;                        *)
(*   "unsent_close"  closesocket() is called while data is still queued;   *)
(*   "emfile"        socket() may fail.                                    *)
(* The code copes with each, but not with the first two together: then     *)
(* ContextAlive fails (MCTcpClientRestart.cfg), and what a destroyed       *)
(* channel does is undefined.  The properties that follow ContextAlive     *)
(* are claimed, checked and proved for behaviours in which the user does   *)
(* not do both.  Without "restart" the user starts again only a client     *)
(* that has come to rest.                                                  *)
(***************************************************************************)
ASSUME TcpClientAssumption ==
    /\ IsFiniteSet(Fds)
    /\ Settings \subseteq [min_delay : Nat, max_delay : Nat, delay_policy : Nat,
                           max_retry_cnt : Nat \cup {INFINITE}]
    /\ Uses \subseteq SUBSET {"restart", "unsent_close", "emfile"}
    /\ CountMod \in Nat \ {0} /\ Steady \in Nat
    /\ MaxStarts \in Nat /\ MaxCloses \in Nat /\ MaxSends \in Nat
    /\ MaxFaults \in Nat

VARIABLES
    io,        \* loop->ios: the hio_t of each descriptor
    sock,      \* the kernel's socket of each descriptor
    chan,      \* the client's channel: its descriptor, id_ and status
    reconn,    \* reconn_setting: NULL or its two counters
    timers,    \* how many timers of startReconnect are armed
    posted,    \* loop->custom_events
    server,    \* "up" or "down"
    setting,   \* the reconn_setting_t the user gives
    use,       \* the member of Uses this behaviour is in
    left,      \* what is left of the bounds
    user,      \* history: the user's last call, "start" or "close", once it
               \*   has been carried out
    late,      \* history: a timer was armed when closesocket was carried out
    armed      \* history: timers armed since the counters were last reset

envVars  == <<server, setting, use>>
loopVars == <<io, sock, chan, reconn, timers, posted>>
vars == <<loopVars, envVars, left, user, late, armed>>

CLOSED == "CLOSED"
Least(a, b)    == IF a <= b THEN a ELSE b
Greatest(a, b) == IF a >= b THEN a ELSE b

-----------------------------------------------------------------------------
(* reconn_setting_t.                                                       *)

Counters == [cur_retry_cnt : 0..CountMod - 1, cur_delay : 0..setting.max_delay]

reconn_setting_keep(r) == r

reconn_setting_reset(r) == [r EXCEPT !.cur_retry_cnt = 0, !.cur_delay = 0]

\* the copy of the user's setting, with its counters as reconn_setting_init left them
setReconnect == [cur_retry_cnt |-> 0, cur_delay |-> 0]

\* The counter is incremented whatever the answer.
Counted(r) == [r EXCEPT !.cur_retry_cnt = (@ + 1) % CountMod]

\* `<`: of max_retry_cnt attempts the first is not a retry.
reconn_setting_can_retry(r) ==
    \/ setting.max_retry_cnt = INFINITE
    \/ r.cur_retry_cnt < setting.max_retry_cnt

Unclamped(d) == CASE setting.delay_policy = 0 -> setting.min_delay
                  [] setting.delay_policy = 1 -> d + setting.min_delay
                  [] OTHER                    -> d * setting.delay_policy

reconn_setting_calc_delay(r) ==
    [r EXCEPT !.cur_delay = Least(Greatest(Unclamped(@) % CountMod, setting.min_delay),
                                  setting.max_delay)]

-----------------------------------------------------------------------------
(* hio_t and Channel.                                                      *)

UsedIds == {io[f].id : f \in Fds} \cup {chan.id}
               \cup {posted[k].id : k \in DOMAIN posted}
NextId  == CHOOSE n \in 1..(Cardinality(UsedIds) + 1) : n \notin UsedIds

\* hio_get of a descriptor whose hio_t is not ready, and Channel(io)
hio_ready(f) ==
    [id |-> NextId, ready |-> TRUE, connect |-> FALSE, connect_timer |-> FALSE,
     close |-> FALSE, close_timer |-> FALSE, error |-> FALSE, reading |-> FALSE,
     unsent |-> FALSE, ctx |-> NextId]

isOpened(c) == /\ c.status \notin {"DISCONNECTED", CLOSED}
               /\ c.id = io[c.fd].id /\ io[c.fd].ready

hio_done_timed(i) == [i EXCEPT !.ready = FALSE, !.reading = FALSE, !.unsent = FALSE,
                               !.connect = FALSE, !.close_timer = FALSE]

\* closed, hio_done, and the timers that __close_cb deletes
hio_done(i) == [i EXCEPT !.ready = FALSE, !.reading = FALSE, !.unsent = FALSE,
                         !.connect = FALSE, !.connect_timer = FALSE,
                         !.close_timer = FALSE]

CloseLater(i) == i.unsent /\ ~i.error /\ ~i.close

\* startReconnect, with the setting r
startReconnect(r) ==
    IF r = NULL THEN reconn' = r /\ UNCHANGED <<timers, armed>>
    ELSE LET n == Counted(r) IN
         IF reconn_setting_can_retry(n)
         THEN /\ reconn' = reconn_setting_calc_delay(n)
              /\ timers' = timers + 1
              /\ armed' = Least(armed + 1, Steady)
         ELSE reconn' = n /\ UNCHANGED <<timers, armed>>

oncloseConnected(r) ==
    IF chan.status = "CONNECTED" THEN startReconnect(r)
    ELSE reconn' = r /\ UNCHANGED <<timers, armed>>

\* onclose: whether there is a setting is read before the user's
\* onConnection, which may take it away.
onclose(r) ==
    \/ startReconnect(r)
    \/ /\ r # NULL                        \* setReconnect(NULL) in onConnection
       /\ startReconnect(NULL)

(* Channel::on_close of the channel the hio_t points to.  When that        *)
(* channel is no longer the client's it has been freed and its callback    *)
(* is undefined, and ContextAlive was false before: the model goes on      *)
(* without it.                                                             *)
on_close(i, c, r) ==
    IF i.ctx = c.id
    THEN chan' = [c EXCEPT !.status = CLOSED] /\ onclose(r)
    ELSE chan' = c /\ reconn' = r /\ UNCHANGED <<timers, armed>>

\* hio_close by the loop thread, which left the hio_t as i, the channel as c
\* and the setting as r
hio_close(f, i, c, r) ==
    IF ~i.ready
    THEN /\ io' = [io EXCEPT ![f] = i] /\ chan' = c /\ reconn' = r
         /\ UNCHANGED <<sock, timers, armed>>
    ELSE IF CloseLater(i)
    THEN /\ io' = [io EXCEPT ![f] = [i EXCEPT !.close = TRUE, !.close_timer = TRUE]]
         /\ chan' = c /\ reconn' = r
         /\ UNCHANGED <<sock, timers, armed>>
    ELSE /\ io' = [io EXCEPT ![f] = hio_done(i)]
         /\ sock' = [sock EXCEPT ![f] = "none"]
         /\ on_close(i, c, r)

closesocketKeep(i, c) ==
    IF isOpened(c)
    THEN hio_close(c.fd, i, [c EXCEPT !.status = CLOSED], reconn)
    ELSE /\ io' = [io EXCEPT ![c.fd] = i] /\ chan' = c
         /\ UNCHANGED <<sock, reconn, timers, armed>>

\* The function that closesocket runs in the loop: the setting goes first,
\* so that onclose does not find it; Channel::close marks the channel.
closesocketInLoop(i, c) ==
    IF isOpened(c)
    THEN hio_close(c.fd, i, [c EXCEPT !.status = CLOSED], NULL)
    ELSE /\ io' = [io EXCEPT ![c.fd] = i] /\ chan' = c /\ reconn' = NULL
         /\ UNCHANGED <<sock, timers, armed>>

-----------------------------------------------------------------------------
(* Connecting.                                                             *)

Event(kind, f, i) == [kind |-> kind, fd |-> f, id |-> i.id]
Call(kind)        == [kind |-> kind, fd |-> chan.fd, id |-> 0]

Down == server = "down"

\* connect() fails at once; the close is posted.
ConnectFails(f, i, q) ==
    /\ Down
    /\ sock' = [sock EXCEPT ![f] = "failed"]
    /\ io' = [io EXCEPT ![f] = [i EXCEPT !.error = TRUE]]
    /\ posted' = Append(q, Event("hio_close", f, i))

\* connect() succeeds at once; the rest is posted.
ConnectDone(f, i, q) ==
    /\ ~Down
    /\ sock' = [sock EXCEPT ![f] = "established"]
    /\ io' = [io EXCEPT ![f] = i]
    /\ posted' = Append(q, Event("nio_connect", f, i))

\* EINPROGRESS: a timer, and HV_WRITE
ConnectWaits(f, i, q) ==
    /\ sock' = [sock EXCEPT ![f] = "connecting"]
    /\ io' = [io EXCEPT ![f] = [i EXCEPT !.connect = TRUE, !.connect_timer = TRUE]]
    /\ posted' = q

hio_connect(f, i, q) ==
    \/ ConnectFails(f, i, q)
    \/ ConnectDone(f, i, q)
    \/ ConnectWaits(f, i, q)

NeedsSocket == ~isOpened(chan)

\* startConnect; q is what is posted once the caller has been taken out.
\* A socket() that fails ends the attempt, and nothing tries again.
startConnect(q) ==
    \/ /\ NeedsSocket
       /\ \E f \in {g \in Fds : sock[g] = "none"} :
            /\ chan' = [fd |-> f, id |-> NextId, status |-> "CONNECTING"]
            /\ hio_connect(f, hio_ready(f), q)
       /\ UNCHANGED left
    \/ /\ NeedsSocket /\ "emfile" \in use /\ left.faults > 0
       /\ left' = [left EXCEPT !.faults = @ - 1]
       /\ posted' = q
       /\ UNCHANGED <<io, sock, chan>>
    \/ /\ ~NeedsSocket /\ chan.status = "OPENED"
       /\ chan' = [chan EXCEPT !.status = "CONNECTING"]
       /\ hio_connect(chan.fd, io[chan.fd], q)
       /\ UNCHANGED left
    \/ /\ ~NeedsSocket /\ chan.status # "OPENED"     \* return -1
       /\ posted' = q
       /\ UNCHANGED <<io, sock, chan, left>>

\* __connect_cb, Channel::on_connect and onconnect.  onConnection may call
\* closesocket(), which the loop thread runs in place.
Connected(f, i) ==
    LET on == [i EXCEPT !.connect_timer = FALSE, !.reading = TRUE]
        up == [chan EXCEPT !.status = "CONNECTED"]
    IN  \/ /\ io' = [io EXCEPT ![f] = on]
           /\ chan' = up
           /\ reconn' = IF reconn = NULL THEN NULL ELSE reconn_setting_reset(reconn)
           /\ armed' = IF reconn = NULL THEN armed ELSE 0
           /\ UNCHANGED <<sock, timers, left, user, late>>
        \/ /\ left.closes > 0
           /\ left' = [left EXCEPT !.closes = @ - 1]
           /\ closesocketInLoop(on, up)
           /\ user' = "close" /\ late' = (timers > 0)

\* getpeername() tells whether the connection is there.
nio_connect(f, i) ==
    IF sock[f] \in {"established", "eof"}
    THEN Connected(f, i)
    ELSE /\ hio_close(f, [i EXCEPT !.error = TRUE], chan, reconn)
         /\ UNCHANGED <<left, user, late>>

-----------------------------------------------------------------------------
(* Steps of the loop thread.                                               *)

\* hio_handle_events: HV_WRITE of a socket that was connecting
HandleConnect(f) ==
    /\ io[f].ready /\ io[f].connect
    /\ sock[f] \in {"established", "failed", "eof", "reset"}
    /\ nio_connect(f, [io[f] EXCEPT !.connect = FALSE])
    /\ UNCHANGED <<posted, envVars>>

\* nio_read finds the end of the stream or an error
HandleRead(f) ==
    /\ io[f].ready /\ io[f].reading /\ sock[f] \in {"eof", "reset"}
    /\ hio_close(f, [io[f] EXCEPT !.error = @ \/ sock[f] = "reset"], chan, reconn)
    /\ UNCHANGED <<posted, envVars, left, user, late>>

\* nio_write empties the queue, and then closes if that was put off
HandleWrite(f) ==
    /\ io[f].ready /\ io[f].unsent /\ sock[f] \in {"established", "eof"}
    /\ LET i == [io[f] EXCEPT !.unsent = FALSE]
       IN  IF i.close THEN hio_close(f, i, chan, reconn)
           ELSE /\ io' = [io EXCEPT ![f] = i]
                /\ UNCHANGED <<sock, chan, reconn, timers, armed>>
    /\ UNCHANGED <<posted, envVars, left, user, late>>

\* While the server answers, a timeout before the answer is a fault.
connect_timeout_cb(f) ==
    /\ io[f].connect_timer
    /\ \/ Down /\ UNCHANGED left
       \/ /\ ~Down /\ left.faults > 0
          /\ left' = [left EXCEPT !.faults = @ - 1]
    /\ hio_close(f, [io[f] EXCEPT !.error = TRUE, !.connect_timer = FALSE], chan, reconn)
    /\ UNCHANGED <<posted, envVars, user, late>>

close_timeout_cb(f) ==
    /\ io[f].close_timer
    /\ hio_close(f, [io[f] EXCEPT !.error = TRUE, !.close_timer = FALSE], chan, reconn)
    /\ UNCHANGED <<posted, envVars, left, user, late>>

ReconnectTimer ==
    /\ timers > 0
    /\ timers' = timers - 1
    /\ startConnect(posted)
    /\ UNCHANGED <<reconn, armed, envVars, user, late>>

\* hloop_process_custom_events, one event at a time
Posted(kind) == posted # << >> /\ Head(posted).kind = kind

RunStart ==
    /\ Posted("start")
    /\ startConnect(Tail(posted))
    /\ user' = "start" /\ late' = FALSE
    /\ UNCHANGED <<reconn, timers, armed, envVars>>

RunClose ==
    /\ Posted("closesocket")
    /\ posted' = Tail(posted)
    /\ closesocketInLoop(io[chan.fd], chan)
    /\ user' = "close" /\ late' = (timers > 0)
    /\ UNCHANGED <<envVars, left>>

SameIdNot(e) == TRUE

\* the hio_t is still the one the event was posted for
SameId(e) == io[e.fd].id = e.id

nio_connect_event_cb ==
    /\ Posted("nio_connect")
    /\ posted' = Tail(posted)
    /\ LET e == Head(posted)
       IN  IF SameId(e) THEN nio_connect(e.fd, io[e.fd])
           ELSE UNCHANGED <<io, sock, chan, reconn, timers, left, user, late, armed>>
    /\ UNCHANGED envVars

hio_close_event_cb ==
    /\ Posted("hio_close")
    /\ posted' = Tail(posted)
    /\ LET e == Head(posted)
       IN  IF SameId(e) THEN hio_close(e.fd, io[e.fd], chan, reconn)
           ELSE UNCHANGED <<io, sock, chan, reconn, timers, armed>>
    /\ UNCHANGED <<envVars, left, user, late>>

LoopStep ==
    \/ \E f \in Fds : \/ HandleConnect(f) \/ HandleRead(f) \/ HandleWrite(f)
                      \/ connect_timeout_cb(f) \/ close_timeout_cb(f)
    \/ ReconnectTimer
    \/ RunStart \/ RunClose \/ nio_connect_event_cb \/ hio_close_event_cb

-----------------------------------------------------------------------------
(* The user's thread.                                                      *)

\* Nothing is connected or connecting, and nothing is about to.
AtRest == /\ posted = << >> /\ timers = 0
          /\ \A f \in Fds : io[f].ready => sock[f] = "fresh"

\* start(); at rest the user may have called setReconnect before it
start ==
    /\ left.starts > 0
    /\ "restart" \in use \/ AtRest
    /\ left' = [left EXCEPT !.starts = @ - 1]
    /\ posted' = Append(posted, Call("start"))
    /\ \/ UNCHANGED <<reconn, armed>>
       \/ AtRest /\ reconn' = setReconnect /\ armed' = 0
    /\ UNCHANGED <<io, sock, chan, timers, envVars, user, late>>

\* A channel that is CLOSED already is left alone, armed timers included.
closesocket ==
    /\ left.closes > 0
    /\ "unsent_close" \in use \/ ~io[chan.fd].unsent
    /\ left' = [left EXCEPT !.closes = @ - 1]
    /\ chan.status # CLOSED
    /\ posted' = Append(posted, Call("closesocket"))
    /\ UNCHANGED <<io, sock, chan, reconn, timers, envVars, user, late, armed>>

\* send(), when some of the data has to be queued
send ==
    /\ left.sends > 0
    /\ "unsent_close" \in use
           \/ \A k \in DOMAIN posted : posted[k].kind # "closesocket"
    /\ chan.status = "CONNECTED" /\ isOpened(chan)
    /\ left' = [left EXCEPT !.sends = @ - 1]
    /\ io' = [io EXCEPT ![chan.fd].unsent = TRUE]
    /\ UNCHANGED <<sock, chan, reconn, timers, posted, envVars, user, late, armed>>

User == start \/ closesocket \/ send

-----------------------------------------------------------------------------
(* The kernel and the peer.                                                *)

Answer(f) ==
    /\ sock[f] = "connecting"
    /\ sock' = [sock EXCEPT ![f] = IF Down THEN "failed" ELSE "established"]
    /\ UNCHANGED <<io, chan, reconn, timers, posted, envVars, left, user, late, armed>>

Fault == left.faults > 0 /\ left' = [left EXCEPT !.faults = @ - 1]

PeerEnds(f) ==
    /\ sock[f] = "established"
    /\ Fault
    /\ \E how \in {"eof", "reset"} : sock' = [sock EXCEPT ![f] = how]
    /\ UNCHANGED <<io, chan, reconn, timers, posted, envVars, user, late, armed>>

ServerTurns ==
    /\ Fault
    /\ server' = IF Down THEN "up" ELSE "down"
    /\ UNCHANGED <<loopVars, setting, use, user, late, armed>>

Network == ServerTurns \/ \E f \in Fds : Answer(f) \/ PeerEnds(f)

-----------------------------------------------------------------------------
NoIo == [id |-> 0, ready |-> FALSE, connect |-> FALSE, connect_timer |-> FALSE,
         close |-> FALSE, close_timer |-> FALSE, error |-> FALSE,
         reading |-> FALSE, unsent |-> FALSE, ctx |-> 0]

\* The user has called createsocket, and setReconnect or not.
Init ==
    \E f \in Fds :
      /\ io = [g \in Fds |-> IF g = f THEN [NoIo EXCEPT !.id = 1, !.ready = TRUE, !.ctx = 1]
                             ELSE NoIo]
      /\ sock = [g \in Fds |-> IF g = f THEN "fresh" ELSE "none"]
      /\ chan = [fd |-> f, id |-> 1, status |-> "OPENED"]
      /\ reconn \in {NULL, setReconnect}
      /\ timers = 0
      /\ posted = << >>
      /\ server \in {"up", "down"}
      /\ setting \in Settings
      /\ use \in Uses
      /\ left = [starts |-> MaxStarts, closes |-> MaxCloses, sends |-> MaxSends,
                 faults |-> MaxFaults]
      /\ user = "none" /\ late = FALSE /\ armed = 0

Next == LoopStep \/ User \/ Network

Spec == Init /\ [][Next]_vars

(***************************************************************************)
(* The loop runs what is posted, its timers and its ready sockets.  A      *)
(* server that is up answers.  Faults, and the user, owe nothing.          *)
(***************************************************************************)
FairSpec ==
    /\ Spec
    /\ WF_vars(RunStart \/ RunClose \/ nio_connect_event_cb \/ hio_close_event_cb)
    /\ WF_vars(ReconnectTimer)
    /\ \A f \in Fds :
         /\ WF_vars(HandleConnect(f)) /\ WF_vars(HandleRead(f))
         /\ WF_vars(connect_timeout_cb(f) /\ Down)
         /\ WF_vars(close_timeout_cb(f))
         /\ WF_vars(Answer(f) /\ ~Down)

-----------------------------------------------------------------------------
(* Properties.                                                             *)

Ios == [id : Nat, ready : BOOLEAN, connect : BOOLEAN, connect_timer : BOOLEAN,
        close : BOOLEAN, close_timer : BOOLEAN, error : BOOLEAN, reading : BOOLEAN,
        unsent : BOOLEAN, ctx : Nat]
Posts == [kind : {"start", "closesocket", "nio_connect", "hio_close"}, fd : Fds, id : Nat]

(* Types.  The delay of the next retry never leaves its configured bounds. *)
TypeOK ==
    /\ io \in [Fds -> Ios]
    /\ sock \in [Fds -> {"none", "fresh", "connecting", "established", "failed",
                         "eof", "reset"}]
    /\ chan \in [fd : Fds, id : Nat, status : {"OPENED", "CONNECTING", "CONNECTED", CLOSED}]
    /\ reconn = NULL \/ reconn \in Counters
    /\ timers \in Nat
    /\ posted \in Seq(Posts)
    /\ server \in {"up", "down"} /\ setting \in Settings /\ use \in Uses
    /\ left \in [starts : Nat, closes : Nat, sends : Nat, faults : Nat]
    /\ user \in {"none", "start", "close"} /\ late \in BOOLEAN /\ armed \in 0..Steady

(* The context of an open hio_t is the client's present channel: start     *)
(* and closesocket are both marked thread-safe, whatever their order.      *)
(* The previous channel is destroyed when startConnect assigns a new one,  *)
(* so an hio_t that is still open then calls back into freed memory.       *)
ContextAlive == \A f \in Fds : io[f].ready => io[f].ctx = chan.id

(* A connect timer belongs to an attempt that is still undecided, and      *)
(* every such attempt has one: no timer outlives its attempt to close the  *)
(* next connection of the descriptor, and no attempt can hang for ever.    *)
(* (For a user who does not both restart and close with unsent data, like  *)
(* the properties below.)                                                  *)
AttemptTimed ==
    \A f \in Fds :
      /\ io[f].connect_timer => io[f].ready /\ io[f].connect
      /\ sock[f] = "connecting" => io[f].connect_timer

\* base to the power k, for k in 0..Steady
Powers(base) ==
    LET power[k \in 0..Steady] == IF k = 0 THEN 1 ELSE base * power[k - 1] IN power

(* The n-th retry since the last success waits min_delay (policy 0), n     *)
(* times min_delay (1) or min_delay times policy^(n-1), up to max_delay.   *)
DelayOf(s, n) ==
    IF n = 0 THEN 0
    ELSE Least(s.max_delay,
               CASE s.delay_policy = 0 -> s.min_delay
                 [] s.delay_policy = 1 -> n * s.min_delay
                 [] OTHER -> s.min_delay * Powers(s.delay_policy)[n - 1])

(* Successive retries back off as reconn_setting_t says, start again from  *)
(* min_delay after a success, and stop before max_retry_cnt of them: the   *)
(* counters stay right however connections, refusals, timeouts and calls   *)
(* of start are mixed.                                                     *)
BackoffExact ==
    reconn # NULL =>
      /\ reconn.cur_delay = DelayOf(setting, armed)
      /\ setting.max_retry_cnt # INFINITE => armed <= Greatest(setting.max_retry_cnt - 1, 0)

(* When closesocket has been carried out and no retry timer was armed at   *)
(* that moment, the client has no connection and makes none until start    *)
(* is called again; only a close that was put off may still be open.  (A   *)
(* timer that is armed already is not killed and does connect: late.)      *)
StaysClosed ==
    user = "close" /\ ~late =>
      /\ timers = 0
      /\ \A f \in Fds : io[f].ready => io[f].close

(* The client itself ends a connection or an attempt that has not failed   *)
(* only because the user closed it or its own timer ran out: the events    *)
(* posted for an earlier connection on the same descriptor, and a second   *)
(* startConnect, do not.                                                   *)
NotCutShort ==
    [][\A f \in Fds :
         /\ sock[f] \in {"fresh", "connecting", "established"}
         /\ sock'[f] = "none"
         => user' = "close" \/ io[f].connect_timer \/ io[f].close_timer]_vars

Up == chan.status = "CONNECTED" /\ isOpened(chan) /\ sock[chan.fd] = "established"

(* A client that is to reconnect without limit, and is not closed, is      *)
(* connected in the end when the server stays up, whatever refusals,       *)
(* timeouts and disconnections came before; provided that socket() does    *)
(* not fail, after which the code never tries again.                       *)
Recovers ==
    <>[](/\ user = "start" /\ server = "up" /\ reconn # NULL
         /\ setting.max_retry_cnt = INFINITE /\ "emfile" \notin use)
      => <>[]Up

=============================================================================

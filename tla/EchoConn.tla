------------------------------ MODULE EchoConn ------------------------------
(***************************************************************************)
(* One connection of the TCP echo server: the life of one hio_t (and of    *)
(* the file descriptor it stands for) inside the event loop, under the     *)
(* callbacks of RC_libhv.c (on_accept, on_recv, on_close).                 *)
(*                                                                         *)
(* The client and the kernel's socket are the environment.  Bytes are the  *)
(* numbers 1, 2, 3, ... in the order in which the client sends them, so    *)
(* what the server sends back shows loss, duplication and reordering.      *)
(***************************************************************************)
EXTENDS Integers, Sequences, SequencesExt

CONSTANTS
    MaxBytes,         \* how many bytes a client sends (a bound of the model)
    MaxConns,         \* how many connections reuse this hio_t (a bound)
    ReadBufSize,      \* HLOOP_READ_BUFSIZE
    SndBuf,           \* the kernel's send buffer of the socket
    MaxWriteBufsize   \* MAX_WRITE_BUFSIZE

ASSUME EchoConnAssumption ==
    /\ MaxBytes \in Nat \ {0} /\ MaxConns \in Nat \ {0}
    /\ ReadBufSize \in Nat \ {0} /\ SndBuf \in Nat \ {0}
    /\ MaxWriteBufsize \in Nat

VARIABLES
    io,       \* the hio_t: see TypeOK
    pend,     \* the events that wait in loop->pendings
    phase,    \* where hio_handle_events stands ("loop": outside it)
    rbuf,     \* the bytes recv() has stored in readbuf for read_cb
    custom,   \* ids of the close events in loop->custom_events
    wrote,    \* the client has sent bytes 1..wrote
    fin, rst, \* the client's FIN / RST has arrived
    rcvd,     \* recv() has returned bytes 1..rcvd
    sent,     \* the bytes send() has accepted, in order
    got       \* how many of them the client has read

sockVars == <<wrote, fin, rst, rcvd, sent, got>>
vars == <<io, pend, phase, rbuf, custom, wrote, fin, rst, rcvd, sent, got>>

Bytes  == 1..MaxBytes
Events == {"READ", "WRITE"}
Errors == {"none", "ERR_OVER_LIMIT", "ETIMEDOUT", "ECONNRESET"}
Least(a, b) == IF a <= b THEN a ELSE b

\* What the kernel still has room for, and the bytes waiting in write_queue.
SndSpace  == SndBuf - (Len(sent) - got)
Queued(i) == FlattenSeq(i.write_queue)

-----------------------------------------------------------------------------
(* hio_t operations: each maps the hio_t before the call to the one after. *)

hio_add(i, events) == [i EXCEPT !.events = @ \cup events]

hio_del(i, events) == [i EXCEPT !.events = @ \ events]

\* hio_get -> hio_ready, with the next id
hio_ready(id) ==
    [id |-> id, closed |-> FALSE, close |-> FALSE, error |-> "none",
     events |-> {}, revents |-> {},
     write_queue |-> << >>, write_bufsize |-> 0, close_timer |-> FALSE]

\* The callbacks are set, then hio_read_start.
on_accept(i) == hio_add(i, {"READ"})

\* hio_done empties the queue and unregisters; __close_cb drops the timer.
hio_done(i) ==
    [hio_del(i, Events) EXCEPT
        !.closed = TRUE, !.write_queue = << >>, !.close_timer = FALSE]

CloseLater(i) == i.write_queue # << >> /\ i.error = "none" /\ ~i.close

hio_close_later_always(i) ==
    IF i.closed THEN i
    ELSE IF i.write_queue # << >> /\ i.error = "none"
         THEN [i EXCEPT !.close = TRUE, !.close_timer = TRUE]
         ELSE hio_done(i)

hio_close(i) ==
    IF i.closed THEN i
    ELSE IF CloseLater(i)
         THEN [i EXCEPT !.close = TRUE, !.close_timer = TRUE]
         ELSE hio_done(i)

(* send(): bytes taken from the front of a buffer of length len, or -1.    *)
(* 0 stands for EAGAIN; a stream socket never returns 0 for len > 0.       *)
SendResults(len) ==
    IF rst THEN {-1}
    ELSE IF SndSpace = 0 THEN {0} ELSE 1..Least(len, SndSpace)

-----------------------------------------------------------------------------
(* The client and the network.                                             *)

ClientSend ==
    /\ ~io.closed /\ ~fin /\ ~rst /\ wrote < MaxBytes
    /\ wrote' = wrote + 1
    /\ UNCHANGED <<io, pend, phase, rbuf, custom, fin, rst, rcvd, sent, got>>

ClientFin ==
    /\ ~io.closed /\ ~fin /\ ~rst
    /\ fin' = TRUE
    /\ UNCHANGED <<io, pend, phase, rbuf, custom, wrote, rst, rcvd, sent, got>>

ClientReset ==
    /\ ~io.closed /\ ~rst
    /\ rst' = TRUE
    /\ UNCHANGED <<io, pend, phase, rbuf, custom, wrote, fin, rcvd, sent, got>>

ClientRead ==
    /\ ~rst /\ got < Len(sent)
    /\ got' = got + 1
    /\ UNCHANGED <<io, pend, phase, rbuf, custom, wrote, fin, rst, rcvd, sent>>

-----------------------------------------------------------------------------
(* hloop_process_events: poll, mark the ready events pending, and run them *)
(* from the highest priority to the lowest.                                *)

Readable == rcvd < wrote \/ fin \/ rst

\* Level-triggered epoll: EPOLLERR and EPOLLHUP set both bits.
Revents ==
    IF io.events = {} THEN {}
    ELSE IF rst THEN Events
    ELSE {e \in io.events : IF e = "READ" THEN Readable ELSE SndSpace > 0}

\* The timer may have expired and a new client may be waiting, or not.
Poll ==
    /\ phase = "loop" /\ pend = {}
    /\ \E due \in SUBSET ( (IF io.close_timer THEN {"timer"} ELSE {})
                           \cup (IF io.id < MaxConns THEN {"listen"} ELSE {})) :
          pend' = due \cup (IF custom # {} THEN {"eventfd"} ELSE {})
                      \cup (IF Revents # {} THEN {"conn"} ELSE {})
    /\ io' = [io EXCEPT !.revents = @ \cup Revents]
    /\ UNCHANGED <<phase, rbuf, custom>> /\ UNCHANGED sockVars

Priority == [timer |-> 5, eventfd |-> 3, listen |-> 3, conn |-> 0]

RunnableAnyOrder(ev) == phase = "loop" /\ ev \in pend

Runnable(ev) ==
    /\ phase = "loop" /\ ev \in pend
    /\ \A other \in pend : Priority[other] <= Priority[ev]

\* The timer was armed by hio_close and dies in __close_cb.
CloseTimeout ==
    /\ Runnable("timer")
    /\ pend' = pend \ {"timer"}
    /\ io' = IF io.close_timer
             THEN hio_close([io EXCEPT !.error = "ETIMEDOUT"]) ELSE io
    /\ UNCHANGED <<phase, rbuf, custom>> /\ UNCHANGED sockVars

\* eventfd_read_cb runs every posted close event: the id tells whether the
\* hio_t still stands for the connection the event was posted for.  The
\* first that matches closes it, so the others find it closed.
hio_close_event_cb_any(i, ids) == IF ids # {} THEN hio_close(i) ELSE i

hio_close_event_cb(i, ids) == IF i.id \in ids THEN hio_close(i) ELSE i

EventfdRead ==
    /\ Runnable("eventfd")
    /\ pend' = pend \ {"eventfd"}
    /\ custom' = {}
    /\ io' = hio_close_event_cb(io, custom)
    /\ UNCHANGED <<phase, rbuf>> /\ UNCHANGED sockVars

\* accept() returns this descriptor only if it is free; otherwise the new
\* client gets another descriptor and another hio_t, outside this module.
Accept ==
    /\ Runnable("listen")
    /\ pend' = pend \ {"listen"}
    /\ \/ /\ io.closed
          /\ io' = on_accept(hio_ready(io.id + 1))
          /\ wrote' = 0 /\ fin' = FALSE /\ rst' = FALSE
          /\ rcvd' = 0 /\ sent' = << >> /\ got' = 0
       \/ UNCHANGED io /\ UNCHANGED sockVars
    /\ UNCHANGED <<phase, rbuf, custom>>

-----------------------------------------------------------------------------
(* hio_handle_events: nio_read, then the write part.                       *)

Enter(next) == phase' = next /\ pend' = pend \ {"conn"}

\* The event is skipped when it is no longer active, and does nothing when
\* the hio_t was handed to a new connection after the poll.
SkipConn ==
    /\ Runnable("conn")
    /\ io.revents \cap io.events = {}
    /\ Enter("loop")
    /\ UNCHANGED <<io, rbuf, custom>> /\ UNCHANGED sockVars

WriteOnly ==
    /\ Runnable("conn")
    /\ "READ" \notin io.revents /\ "WRITE" \in io.revents \cap io.events
    /\ Enter("write")
    /\ UNCHANGED <<io, rbuf, custom>> /\ UNCHANGED sockVars

ReadConn == Runnable("conn") /\ "READ" \in io.revents \cap io.events

\* nio_read, recv() > 0: the bytes are in readbuf, read_cb is next.
NioReadData ==
    /\ ReadConn /\ rcvd < wrote
    /\ LET n == Least(ReadBufSize, wrote - rcvd) IN
       /\ rbuf' = [k \in 1..n |-> rcvd + k]
       /\ rcvd' = rcvd + n
    /\ Enter("on_recv")
    /\ UNCHANGED <<io, custom, wrote, fin, rst, sent, got>>

\* nio_read, recv() = 0 (disconnect) or an error (read_error).
NioReadEnd ==
    /\ ReadConn
    /\ \/ rst /\ io' = hio_close([io EXCEPT !.error = "ECONNRESET"])
       \/ ~rst /\ fin /\ rcvd = wrote /\ io' = hio_close(io)
    /\ Enter("write")
    /\ UNCHANGED <<rbuf, custom>> /\ UNCHANGED sockVars

Enqueue(i, data) ==
    [i EXCEPT !.write_queue = Append(@, data), !.write_bufsize = @ + Len(data)]

OverLimit(i, data) == i.write_bufsize + Len(data) > MaxWriteBufsize

\* hio_write(io, buf) after send() returned n: the rest is queued, and with
\* an empty queue HV_WRITE is registered for it.  A failed send and a queue
\* over its limit only mark the error.
hio_write_no_watch(i, buf, n) ==
    LET rest == SubSeq(buf, n + 1, Len(buf)) IN
    IF n = -1 THEN [i EXCEPT !.error = "ECONNRESET"]
    ELSE IF rest = << >> THEN i
    ELSE IF OverLimit(i, rest) THEN [i EXCEPT !.error = "ERR_OVER_LIMIT"]
    ELSE Enqueue(i, rest)

hio_write(i, buf, n) ==
    LET rest == SubSeq(buf, n + 1, Len(buf))
        j    == IF i.write_queue = << >> THEN hio_add(i, {"WRITE"}) ELSE i
    IN IF n = -1 THEN [i EXCEPT !.error = "ECONNRESET"]
       ELSE IF rest = << >> THEN i
       ELSE IF OverLimit(j, rest) THEN [j EXCEPT !.error = "ERR_OVER_LIMIT"]
       ELSE Enqueue(j, rest)

\* ... and then hio_write posts hio_close_async(io).
WriteFails(i, buf, n) ==
    \/ n = -1
    \/ n < Len(buf) /\ OverLimit(i, SubSeq(buf, n + 1, Len(buf)))

\* on_recv echoes the bytes; only an empty queue lets hio_write try send().
OnRecv ==
    /\ phase = "on_recv"
    /\ \E n \in IF io.write_queue = << >> THEN SendResults(Len(rbuf)) ELSE {0} :
          /\ io' = hio_write(io, rbuf, n)
          /\ sent' = sent \o SubSeq(rbuf, 1, n)
          /\ custom' = IF WriteFails(io, rbuf, n) THEN custom \cup {io.id}
                       ELSE custom
    /\ rbuf' = << >>
    /\ phase' = "write"
    /\ UNCHANGED <<pend, wrote, fin, rst, rcvd, got>>

\* The second half of hio_handle_events; revents is cleared at its end.
HandleWriteAlwaysDel(i) == hio_del(i, {"WRITE"})

HandleWriteDel(i) ==
    IF i.write_queue = << >> THEN hio_del(i, {"WRITE"}) ELSE i

HandleWrite ==
    /\ phase = "write"
    /\ IF "WRITE" \in io.events \cap io.revents
       THEN phase' = "nio_write" /\ io' = HandleWriteDel(io)
       ELSE phase' = "loop" /\ io' = [io EXCEPT !.revents = {}]
    /\ UNCHANGED <<pend, rbuf, custom>> /\ UNCHANGED sockVars

Leave(i) == phase' = "loop" /\ io' = [i EXCEPT !.revents = {}]

\* nio_write finds the queue empty: a close that was put off happens now.
NioWriteEmpty ==
    /\ phase = "nio_write" /\ io.write_queue = << >>
    /\ Leave(IF io.close THEN hio_close([io EXCEPT !.close = FALSE]) ELSE io)
    /\ UNCHANGED <<pend, rbuf, custom>> /\ UNCHANGED sockVars

\* n bytes of the front buffer are out.
PopFrontAlways(i, n) ==
    [i EXCEPT !.write_queue = Tail(@), !.write_bufsize = @ - n]

PopFront(i, n) ==
    LET buf == Head(i.write_queue) IN
    [i EXCEPT !.write_bufsize = @ - n,
              !.write_queue = IF n = Len(buf) THEN Tail(@)
                              ELSE <<SubSeq(buf, n + 1, Len(buf))>> \o Tail(@)]

\* one turn of nio_write's loop; it goes on only when a buffer is finished.
NioWriteSend ==
    /\ phase = "nio_write" /\ io.write_queue # << >>
    /\ LET buf == Head(io.write_queue) IN
       \E n \in SendResults(Len(buf)) :
          \/ /\ n = -1
             /\ Leave(hio_close([io EXCEPT !.error = "ECONNRESET"]))
             /\ UNCHANGED sent
          \/ /\ n = 0
             /\ Leave(io)
             /\ UNCHANGED sent
          \/ /\ n > 0
             /\ sent' = sent \o SubSeq(buf, 1, n)
             /\ IF n = Len(buf)
                THEN io' = PopFront(io, n) /\ UNCHANGED phase
                ELSE Leave(PopFront(io, n))
    /\ UNCHANGED <<pend, rbuf, custom, wrote, fin, rst, rcvd, got>>

-----------------------------------------------------------------------------
Init ==
    /\ io = [hio_ready(0) EXCEPT !.closed = TRUE]
    /\ pend = {} /\ phase = "loop" /\ rbuf = << >> /\ custom = {}
    /\ wrote = 0 /\ fin = FALSE /\ rst = FALSE
    /\ rcvd = 0 /\ sent = << >> /\ got = 0

LoopNext ==
    \/ Poll \/ CloseTimeout \/ EventfdRead \/ Accept
    \/ SkipConn \/ WriteOnly \/ NioReadData \/ NioReadEnd
    \/ OnRecv \/ HandleWrite \/ NioWriteEmpty \/ NioWriteSend

ClientNext == ClientSend \/ ClientFin \/ ClientReset \/ ClientRead

Next == LoopNext \/ ClientNext

Spec == Init /\ [][Next]_vars

\* The loop thread never stops between callbacks.
FairSpec == Spec /\ WF_vars(LoopNext)

-----------------------------------------------------------------------------
(* Properties.                                                             *)

HioType ==
    [id : 0..MaxConns, closed : BOOLEAN, close : BOOLEAN, error : Errors,
     events : SUBSET Events, revents : SUBSET Events,
     write_queue : Seq(Seq(Nat)), write_bufsize : Int, close_timer : BOOLEAN]

\* The type invariant of the connection and of the loop's view of it.
TypeOK ==
    /\ io \in HioType
    /\ pend \subseteq {"timer", "eventfd", "listen", "conn"}
    /\ phase \in {"loop", "on_recv", "write", "nio_write"}
    /\ rbuf \in Seq(Nat)
    /\ custom \subseteq 1..MaxConns
    /\ wrote \in Nat /\ rcvd \in Nat /\ got \in Nat
    /\ fin \in BOOLEAN /\ rst \in BOOLEAN
    /\ sent \in Seq(Nat)

\* Everything recv() has returned on this connection.
Received == [k \in 1..rcvd |-> k]

\* "The server will echo back any data sent to it" while nothing has gone
\* wrong: every byte received is sent, queued or in on_recv's hands, once
\* and in order (nio_read, on_recv, hio_write, nio_write).  After a failed or
\* refused hio_write nothing received later overtakes the bytes it dropped:
\* the posted close runs before the next nio_read.
EchoComplete ==
    /\ IsPrefix(sent \o Queued(io), Received)
    /\ ~io.closed /\ io.error = "none" => sent \o Queued(io) \o rbuf = Received

\* Once hio_write has failed or refused data, read_cb never runs again on
\* this connection (on_recv would queue bytes behind the hole).
RefusedThenSilent ==
    ~io.closed /\ io.error # "none" => phase # "on_recv" /\ io.id \in custom

\* A queue that is not empty is watched for HV_WRITE: nobody else would ever
\* send its bytes (hio_write registers only when the queue was empty, and
\* hio_handle_events unregisters).
WriteWatched == io.write_queue # << >> => "WRITE" \in io.events

\* A close event posted for a connection that is gone never hits the next
\* one, which reuses the descriptor and the hio_t: a connection is closed
\* only for a reason of its own (hio_close_event_cb compares ids).
CloseHasCause ==
    io.closed /\ io.id > 0 => fin \/ rst \/ io.error # "none"

\* The connection whose client went away ends: the hio_t and the descriptor
\* are released even if the client never reads what is queued.
HalfCloseEnds ==
    \A c \in 1..MaxConns :
        (io.id = c /\ fin) ~> (io.closed \/ io.id # c)

\* A client that keeps reading gets every byte back, unless the connection
\* ends or hits the limit of the write queue.
EchoProgress ==
    WF_vars(ClientRead) =>
        \A c \in 1..MaxConns, n \in Bytes :
            (io.id = c /\ rcvd >= n)
                ~> (io.id # c \/ got >= n \/ fin \/ rst \/ io.error # "none")

\* hio_close logs "write_queue not empty, close later.": a connection that
\* ends without an error has had everything echoed.
GracefulCloseDelivers ==
    io.closed /\ io.error = "none" /\ ~rst => Len(sent) = rcvd

=============================================================================

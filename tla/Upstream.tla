------------------------------ MODULE Upstream ------------------------------
(***************************************************************************)
(* The proxy of hio_setup_tcp_upstream: an accepted connection and a       *)
(* connection to the backend, each the other's upstream_io.  What is read  *)
(* from one is written to the other; a side is not read while the other's  *)
(* queue is not empty; when one is closed so is the other.                 *)
(*                                                                         *)
(* Everything is done by the loop thread, one handler at a time.  The      *)
(* hio_t of a descriptor is reused by the next session.                    *)
(***************************************************************************)
EXTENDS Integers, Sequences

CONSTANTS
    Fds,          \* descriptors
    MaxSessions,  \* accepted connections (a bound)
    MaxBytes,     \* bytes each peer sends in each session (a bound)
    MaxFaults,    \* resets and connect timeouts (a bound)
    SndBuf,       \* the kernel's send buffer
    ReadBuf,      \* the loop's read buffer
    Reuses        \* the values of reuse

\* When reuse is TRUE, accept and socket may return a descriptor that a side
\* which is still open has as its upstream_io: see Conserved.

ASSUME UpstreamAssumption ==
    /\ Fds \subseteq Nat \ {0}
    /\ MaxSessions \in Nat /\ MaxBytes \in [1..MaxSessions -> Nat] /\ MaxFaults \in Nat
    /\ SndBuf \in Nat \ {0} /\ ReadBuf \in Nat \ {0} /\ Reuses \subseteq BOOLEAN

VARIABLES
    io,        \* the hio_t of each descriptor
    sock,      \* the kernel's socket of each descriptor
    posted,    \* loop->custom_events: <<kind, fd, id>>
    sessions,  \* connections accepted
    faults,    \* faults that may still happen
    reuse      \* whether descriptors are reused at once; constant

vars == <<io, sock, posted, sessions, faults, reuse>>

None  == 0
Sides == {"client", "backend"}
Other(side) == CHOOSE s \in Sides : s # side

\* The bytes that the peer at a side of session s has sent when it has sent n
Stream(s, side, n) == [i \in 1..n |-> <<s, side, i>>]

NoIo == [id |-> 0, side |-> "client", ready |-> FALSE, error |-> FALSE,
         close |-> FALSE, close_timer |-> FALSE, connect |-> FALSE,
         connect_timer |-> FALSE, reading |-> FALSE, upstream_io |-> None,
         write_queue |-> << >>, write_cb |-> FALSE]

\* out: bytes send() took; got: how many the peer has read; rx: bytes the
\* peer has sent and nobody has read; n: how many it has sent
NoSock == [state |-> "none", rx |-> << >>, n |-> 0, out |-> << >>, got |-> 0]

\* hio_get of a descriptor; every field of the last session is forgotten
hio_ready(f, s, side) == [NoIo EXCEPT !.id = s, !.side = side, !.ready = TRUE]

-----------------------------------------------------------------------------
(* Closing.  Operators on the state h = [io, sock].                        *)

CloseLater(i) == i.write_queue # << >> /\ ~i.error /\ ~i.close

ClosePutOff(i) == [i EXCEPT !.close = TRUE, !.close_timer = TRUE]

hio_done(i) == [i EXCEPT !.ready = FALSE, !.reading = FALSE, !.write_queue = << >>,
                         !.connect = FALSE, !.connect_timer = FALSE,
                         !.close_timer = FALSE]

\* hio_close of i closes it for good, and then calls close_cb
Falls(i) == i.ready /\ ~CloseLater(i)

hio_close_upstream_alone(h, S) == TRUE

(* close_cb: when hio_close of a member of S closes it for good, hio_close *)
(* of its upstream_io is called too.                                       *)
hio_close_upstream(h, S) ==
    \A g \in S : Falls(h.io[g]) /\ h.io[g].upstream_io # None
                  => h.io[g].upstream_io \in S

\* The hio_t's for which hio_close is called when it is called for f: the
\* least set that has f in it and follows close_cb.
Cascade(h, f) ==
    {g \in Fds : \A S \in SUBSET Fds : f \in S /\ hio_close_upstream(h, S) => g \in S}

(* hio_close, with the close_cb of each hio_t that it closes.  A second    *)
(* call for the same hio_t finds it closed.                                *)
hio_close(h, f) ==
    LET D == Cascade(h, f)
    IN  [io   |-> [g \in Fds |-> IF g \notin D \/ ~h.io[g].ready THEN h.io[g]
                                 ELSE IF CloseLater(h.io[g]) THEN ClosePutOff(h.io[g])
                                 ELSE hio_done(h.io[g])],
         sock |-> [g \in Fds |-> IF g \in D /\ Falls(h.io[g]) THEN NoSock ELSE h.sock[g]]]

-----------------------------------------------------------------------------
(* Writing.                                                                *)

\* A socket that is not connected yet takes nothing
Space(k) == IF k.state = "connecting" THEN 0 ELSE SndBuf - (Len(k.out) - k.got)

Failed(k) == k.state = "reset"

\* A send of bytes: what the socket then holds
Sent(k, bytes) == [k EXCEPT !.out = @ \o bytes]

hio_write_is_complete(i) == i.write_queue = << >>

on_write_complete_deaf(h, f) == [h EXCEPT !.io[f].write_cb = FALSE]

\* hio_read_upstream_on_write_complete of f; hio_read leaves a closed one alone
hio_read_upstream_on_write_complete(h, f) ==
    LET g == h.io[f].upstream_io
    IN  IF ~h.io[f].write_cb \/ g = None \/ ~hio_write_is_complete(h.io[f]) THEN h
        ELSE [h EXCEPT !.io[f].write_cb = FALSE,
                       !.io[g].reading = h.io[g].ready]

WriteToWhole(h, g, n, bytes) ==
    [h EXCEPT !.sock[g] = Sent(@, SubSeq(bytes, 1, n)),
              !.io[g].write_queue = IF n < Len(bytes) THEN @ \o bytes ELSE @]

\* hio_write by a read_cb: what was sent, what was queued
WriteTo(h, g, n, bytes) ==
    LET w == [h EXCEPT !.sock[g] = Sent(@, SubSeq(bytes, 1, n)),
                       !.io[g].write_queue = @ \o SubSeq(bytes, n + 1, Len(bytes))]
    IN  IF n > 0 THEN hio_read_upstream_on_write_complete(w, g) ELSE w

\* the other side is behind: f is not read until its queue has been sent
stop_reading(h, f, g) ==
    [h EXCEPT !.io[f].reading = FALSE, !.io[g].write_cb = TRUE]

\* only an empty queue lets hio_write try send() itself
TriesSend(i) == i.write_queue = << >>

-----------------------------------------------------------------------------
Becomes(h) == \E x \in {h} : io' = x.io /\ sock' = x.sock
Now == [io |-> io, sock |-> sock]

Fault == faults > 0 /\ faults' = faults - 1

\* hio_write_upstream(f, bytes) in the state h
hio_write_upstream(h, f, bytes) ==
    LET g == io[f].upstream_io IN
    IF g = None \/ ~io[g].ready THEN Becomes(h) /\ UNCHANGED posted
    ELSE IF TriesSend(io[g]) /\ Failed(sock[g])
    THEN /\ Becomes([h EXCEPT !.io[g].error = TRUE])
         /\ posted' = Append(posted, <<"hio_close", g, io[g].id>>)
    ELSE /\ UNCHANGED posted
         /\ LET room == IF TriesSend(io[g]) THEN Space(sock[g]) ELSE 0
                n    == IF room < Len(bytes) THEN room ELSE Len(bytes)
                w    == WriteTo(h, g, n, bytes)
            IN  Becomes(IF n < Len(bytes) THEN stop_reading(w, f, g) ELSE w)

-----------------------------------------------------------------------------
(* Sessions.                                                               *)

Free == {f \in Fds : /\ ~io[f].ready
                     /\ reuse \/ \A g \in Fds : io[g].ready => io[g].upstream_io # f}

\* accept and socket return the lowest descriptor that is free; without reuse
\* it is one that no open side points to.
Lowest(S) == CHOOSE f \in S : \A g \in S : f <= g

\* hio_connect of the backend side, in the state h
hio_connect(h, g, s) ==
    \/ /\ Becomes([h EXCEPT !.sock[g].state = "connecting",
                            !.io[g].connect = TRUE, !.io[g].connect_timer = TRUE])
       /\ UNCHANGED posted
    \/ /\ Becomes([h EXCEPT !.sock[g].state = "open"])
       /\ posted' = Append(posted, <<"nio_connect", g, s>>)
    \/ /\ Becomes([h EXCEPT !.sock[g].state = "reset", !.io[g].error = TRUE])
       /\ posted' = Append(posted, <<"hio_close", g, s>>)

\* accept, and on_accept's hio_setup_tcp_upstream.  When the socket for the
\* backend cannot be made the accepted connection is left as it is.
Accept ==
    /\ sessions < MaxSessions
    /\ sessions' = sessions + 1
    /\ Free # {}
    /\ LET f == Lowest(Free)
           a == [io   |-> [io EXCEPT ![f] = hio_ready(f, sessions', "client")],
                 sock |-> [sock EXCEPT ![f] = [NoSock EXCEPT !.state = "open"]]]
       IN  \/ /\ Becomes(a) /\ UNCHANGED posted
           \/ /\ Free # {f}
              /\ LET g == Lowest(Free \ {f})
                     i == [hio_ready(g, sessions', "backend") EXCEPT !.upstream_io = f]
                 IN  hio_connect([a EXCEPT !.io[f].upstream_io = g, !.io[g] = i],
                                 g, sessions')
    /\ UNCHANGED <<faults, reuse>>

\* nio_connect; connect_cb is hio_read_upstream, which reads both sides.
nio_connect(h, g) ==
    IF ~Failed(sock[g])
    THEN LET f == h.io[g].upstream_io IN
         Becomes(IF f = None THEN h
                 ELSE [h EXCEPT !.io[g].connect_timer = FALSE,
                                !.io[g].reading = h.io[g].ready,
                                !.io[f].reading = h.io[f].ready])
    ELSE Becomes(hio_close([h EXCEPT !.io[g].error = TRUE], g))

HandleConnect(g) ==
    /\ io[g].ready /\ io[g].connect /\ sock[g].state # "connecting"
    /\ nio_connect([Now EXCEPT !.io[g].connect = FALSE], g)
    /\ UNCHANGED <<posted, sessions, faults, reuse>>

\* the posted connect and close events, in order
RunPosted ==
    /\ posted # << >>
    /\ posted' = Tail(posted)
    /\ LET e == Head(posted)
       IN  IF io[e[2]].id # e[3] \/ ~io[e[2]].ready THEN UNCHANGED <<io, sock>>
           ELSE IF e[1] = "nio_connect" THEN nio_connect(Now, e[2])
           ELSE Becomes(hio_close(Now, e[2]))
    /\ UNCHANGED <<sessions, faults, reuse>>

\* nio_read: bytes go to read_cb; an error, or the end of the stream, closes.
HandleRead(f) ==
    /\ io[f].ready /\ io[f].reading
    /\ \/ /\ sock[f].state = "reset"
          /\ Becomes(hio_close([Now EXCEPT !.io[f].error = TRUE], f))
          /\ UNCHANGED posted
       \/ /\ sock[f].state # "reset" /\ sock[f].rx # << >>
          /\ LET rx == sock[f].rx
                 k  == IF Len(rx) < ReadBuf THEN Len(rx) ELSE ReadBuf
             IN  hio_write_upstream([Now EXCEPT !.sock[f].rx = SubSeq(rx, k + 1, Len(rx))],
                                    f, SubSeq(rx, 1, k))
       \/ /\ sock[f].state = "eof" /\ sock[f].rx = << >>
          /\ Becomes(hio_close(Now, f))
          /\ UNCHANGED posted
    /\ UNCHANGED <<sessions, faults, reuse>>

\* nio_write: as much of the queue as the kernel takes, write_cb, and the
\* close that was put off
HandleWrite(f) ==
    /\ io[f].ready /\ io[f].write_queue # << >> /\ ~io[f].connect
    /\ \/ /\ Failed(sock[f])
          /\ Becomes(hio_close([Now EXCEPT !.io[f].error = TRUE], f))
       \/ /\ ~Failed(sock[f]) /\ Space(sock[f]) > 0
          /\ \E n \in 1..Space(sock[f]) :
               /\ n <= Len(io[f].write_queue)
               /\ LET q == io[f].write_queue
                      w == hio_read_upstream_on_write_complete(
                             [Now EXCEPT !.sock[f] = Sent(@, SubSeq(q, 1, n)),
                                         !.io[f].write_queue = SubSeq(q, n + 1, Len(q))], f)
                  IN  Becomes(IF n = Len(q) /\ w.io[f].close
                              THEN hio_close([w EXCEPT !.io[f].close = FALSE], f) ELSE w)
    /\ UNCHANGED <<posted, sessions, faults, reuse>>

TimedOut(f) == hio_close([Now EXCEPT !.io[f].error = TRUE], f)

connect_timeout_cb(f) ==
    /\ io[f].connect_timer /\ Fault
    /\ Becomes(TimedOut(f))
    /\ UNCHANGED <<posted, sessions, reuse>>

close_timeout_cb(f) ==
    /\ io[f].close_timer
    /\ Becomes(TimedOut(f))
    /\ UNCHANGED <<posted, sessions, faults, reuse>>

-----------------------------------------------------------------------------
(* The peers and the kernel.                                               *)

PeerAnswers(f) ==
    /\ sock[f].state = "connecting"
    /\ sock' = [sock EXCEPT ![f].state = "open"]
    /\ UNCHANGED <<io, posted, sessions, faults, reuse>>

PeerSends(f) ==
    /\ sock[f].state = "open" /\ sock[f].n < MaxBytes[io[f].id]
    /\ sock' = [sock EXCEPT ![f].n = @ + 1,
                            ![f].rx = Append(@, <<io[f].id, io[f].side, sock[f].n + 1>>)]
    /\ UNCHANGED <<io, posted, sessions, faults, reuse>>

PeerReads(f) ==
    /\ sock[f].state \in {"open", "eof"} /\ sock[f].got < Len(sock[f].out)
    /\ sock' = [sock EXCEPT ![f].got = Len(sock[f].out)]
    /\ UNCHANGED <<io, posted, sessions, faults, reuse>>

PeerEnds(f) ==
    /\ sock[f].state = "open"
    /\ sock' = [sock EXCEPT ![f].state = "eof"]
    /\ UNCHANGED <<io, posted, sessions, faults, reuse>>

PeerResets(f) ==
    /\ sock[f].state \in {"connecting", "open", "eof"} /\ Fault
    /\ sock' = [sock EXCEPT ![f].state = "reset"]
    /\ UNCHANGED <<io, posted, sessions, reuse>>

Peer(f) == PeerAnswers(f) \/ PeerSends(f) \/ PeerReads(f) \/ PeerEnds(f) \/ PeerResets(f)

Loop(f) == \/ HandleConnect(f) \/ HandleRead(f) \/ HandleWrite(f)
           \/ connect_timeout_cb(f) \/ close_timeout_cb(f)

Init == /\ reuse \in Reuses
        /\ io = [f \in Fds |-> NoIo] /\ sock = [f \in Fds |-> NoSock]
        /\ posted = << >> /\ sessions = 0 /\ faults = MaxFaults

Next == Accept \/ RunPosted \/ \E f \in Fds : Loop(f) \/ Peer(f)

Spec == Init /\ [][Next]_vars

-----------------------------------------------------------------------------
(* Properties.                                                             *)

Bytes == (1..MaxSessions) \X Sides \X Nat

Ios == [id : 0..MaxSessions, side : Sides, ready : BOOLEAN, error : BOOLEAN,
        close : BOOLEAN, close_timer : BOOLEAN, connect : BOOLEAN,
        connect_timer : BOOLEAN, reading : BOOLEAN, upstream_io : Fds \cup {None},
        write_queue : Seq(Bytes), write_cb : BOOLEAN]

Socks == [state : {"none", "connecting", "open", "eof", "reset"},
          rx : Seq(Bytes), n : Nat, out : Seq(Bytes), got : Nat]

Posts == {"hio_close", "nio_connect"} \X Fds \X (1..MaxSessions)

(* Types.  An open hio_t has the id of a session, a closed one no socket,  *)
(* and the kernel never holds more than its buffer.                        *)
TypeOK ==
    /\ io \in [Fds -> Ios] /\ sock \in [Fds -> Socks] /\ posted \in Seq(Posts)
    /\ \A f \in Fds :
         /\ io[f].ready => io[f].id > 0 /\ sock[f].state # "none"
         /\ ~io[f].ready => sock[f] = NoSock
         /\ Len(sock[f].out) - sock[f].got \in 0..SndBuf
    /\ sessions \in 0..MaxSessions /\ faults \in 0..MaxFaults /\ reuse \in BOOLEAN

(* No byte is lost, doubled or reordered on its way through the proxy:     *)
(* what the one peer has sent is what went out on the other side, what is  *)
(* queued there and what has not been read yet, in this order; and a side  *)
(* that outlives the other still only carries that session's bytes.  With  *)
(* reuse this fails: the side that waits to close is still read, and what  *)
(* it reads goes to the next session.                                      *)
Conserved ==
    ~reuse => \A g \in Fds :
      io[g].ready /\ ~io[g].error =>
        LET f   == io[g].upstream_io
            got == sock[g].out \o io[g].write_queue
        IN  /\ got = Stream(io[g].id, Other(io[g].side), Len(got))
            /\ f # None /\ io[f].ready =>
                 got \o sock[f].rx = Stream(io[g].id, Other(io[g].side), sock[f].n)

\* e is among the posted events
Waits(e) == \E k \in DOMAIN posted : posted[k] = e

(* An open side that is not read will be: bytes are queued on the other    *)
(* side, whose write_cb reads this one when they are sent; or the backend  *)
(* is connecting, with its timer running or its connect_cb posted; or a    *)
(* failed send or connect has posted the close of the session.  (As long   *)
(* as ~reuse: no descriptor of the session was given to another hio_t      *)
(* while its peer still held the number.)                                  *)
NoStall ==
    ~reuse => \A f \in Fds : LET g == io[f].upstream_io IN
      io[f].ready /\ ~io[f].reading /\ g # None /\ io[g].ready
        => \/ io[g].write_queue # << >> /\ io[g].write_cb
           \/ \E b \in {f, g} : \/ io[b].connect /\ io[b].connect_timer
                                \/ Waits(<<"nio_connect", b, io[b].id>>)
                                \/ Waits(<<"hio_close", b, io[b].id>>)

(* The open sides of a session point to each other.  A side that outlives *)
(* the other one is waiting to close and has its close timer running, so   *)
(* that the session ends even if the peer never reads again.  (The other's *)
(* descriptor may then carry a later session.)                             *)
EndTogether ==
    \A f \in Fds : LET g == io[f].upstream_io IN
      io[f].ready /\ g # None
        => \/ io[g].ready /\ io[g].id = io[f].id /\ io[g].upstream_io = f
           \/ io[f].close /\ io[f].close_timer

=============================================================================

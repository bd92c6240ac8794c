----------------------------- MODULE HioThreads -----------------------------
(***************************************************************************)
(* One hio_t used by several threads: hio_write and hio_close are called   *)
(* by worker threads and by callbacks of the loop thread, while the loop   *)
(* thread sends the queue (nio_write), runs posted close events and the    *)
(* close timer, closes, and hands the descriptor to the next connection.   *)
(*                                                                         *)
(* A step is what a thread does between two points at which another thread *)
(* can see or change what it uses.  What happens under write_mutex and     *)
(* touches only what the mutex protects is one step.                       *)
(***************************************************************************)
EXTENDS ArrayQueue, SequencesExt, FiniteSets

CONSTANTS
    Workers,           \* the threads other than the loop thread
    Loop,              \* the loop thread
    Lens,              \* lengths of the buffers given to hio_write
    MaxCalls,          \* hio_write calls (a bound of the model)
    MaxCloses,         \* hio_close calls (a bound)
    MaxConns,          \* connections that reuse this hio_t (a bound)
    SndBuf,            \* the kernel's send buffer of the socket
    MaxWriteBufsize,   \* MAX_WRITE_BUFSIZE
    QueueInit          \* what write_queue_init is called with (4)

Threads == Workers \cup {Loop}
Free    == "free"      \* write_mutex has no owner

ASSUME HioThreadsAssumption ==
    /\ Loop \notin Workers /\ Free \notin Threads
    /\ Lens \subseteq Nat \ {0}
    /\ MaxCalls \in Nat /\ MaxCloses \in Nat /\ MaxConns \in Nat
    /\ SndBuf \in Nat \ {0} /\ MaxWriteBufsize \in Nat
    /\ QueueInit \in Nat \ {0}

VARIABLES
    io,       \* the hio_t's flags and counters: see TypeOK
    wq,       \* io->write_queue, an ArrayQueue of offset_buf_t
    mutex,    \* the owner of io->write_mutex
    pc,       \* where each thread is
    buf,      \* the bytes a thread's hio_write still has to place
    ret,      \* where the loop thread's hio_close returns to
    seen,     \* io->events as the loop thread's hio_add or hio_del read it
    custom,   \* ids of the close events in loop->custom_events
    conn, fd, \* number of the current connection; "open" or "closed"
    out, got, \* bytes send() has accepted; how many the peer has read
    rst,      \* the peer has reset the connection
    calls, closes,  \* how many hio_write and hio_close calls were made
    asked,    \* history: connections that somebody had a reason to close
    raced     \* history: the races that have done harm, see below

(***************************************************************************)
(* Three races are not ordered by write_mutex.  raced records those that   *)
(* have done harm, and the properties that do not survive one say so:      *)
(*   "stray"       hio_write found the hio_t open, the loop thread closed  *)
(*                 it, and the bytes still reached the descriptor that     *)
(*                 closes, or the next connection of the hio_t;            *)
(*   "interest"    a worker's hio_add(HV_WRITE) fell between the loop      *)
(*                 thread's read and write of io->events and is lost;      *)
(*   "close_in_cb" write_cb, called by nio_write, closed at once (there    *)
(*                 was an error, or a close put off before) and so freed   *)
(*                 the queue that nio_write goes on using.                 *)
(***************************************************************************)

sockVars  == <<conn, fd, out, got, rst>>
boundVars == <<calls, closes>>
vars == <<io, wq, mutex, pc, buf, ret, seen, custom, conn, fd, out, got, rst,
          calls, closes, asked, raced>>

Events == {"READ", "WRITE"}
Least(a, b) == IF a <= b THEN a ELSE b

\* The bytes of call c: see HioStream.
Bytes(k, c, len) == [i \in 1..len |-> <<k, c, i>>]

\* offset_buf_t: what HV_ALLOC and memcpy made, and how much of it is out
Remain(b)   == SubSeq(b.base, b.offset + 1, Len(b.base))
Queued(q)   == FlattenSeq([i \in 1..q.size |-> Remain(queue_elems(q)[i])])

SndSpace == SndBuf - (Len(out) - got)

(* send(): bytes taken from a buffer of length len, 0 for EAGAIN, -1 for   *)
(* an error; on a closed descriptor it is EBADF.                           *)
SendResults(len) ==
    IF fd = "closed" \/ rst THEN {-1}
    ELSE IF SndSpace = 0 THEN {0} ELSE 1..Least(len, SndSpace)

-----------------------------------------------------------------------------
(* Operations on the hio_t.                                                *)

\* A field hio_ready does not touch, destroy, is left out: nobody frees.
hio_ready(i) ==
    IF i.ready THEN i
    ELSE [id |-> i.id + 1, ready |-> TRUE, closed |-> FALSE, close |-> FALSE,
          error |-> FALSE, events |-> {}, write_bufsize |-> 0, close_timer |-> FALSE]

hio_add(i, events) == [hio_ready(i) EXCEPT !.events = @ \cup events]

hio_del(i, events) == [i EXCEPT !.events = @ \ events]

CloseLater(i, q) == ~queue_empty(q) /\ ~i.error /\ ~i.close

ClosePutOffUntimed(i) == [i EXCEPT !.close = TRUE]

\* hio_close finds bytes in the queue: it waits for them, but not for ever.
ClosePutOff(i) == [i EXCEPT !.close = TRUE, !.close_timer = TRUE]

OverLimitOff(i, len) == i.write_bufsize > MaxWriteBufsize

OverLimit(i, len) == i.write_bufsize + len > MaxWriteBufsize

\* HV_ALLOC, memcpy, write_queue_init at the first use, write_queue_push_back
write_queue_push(q, bytes) ==
    queue_push_back(IF q.maxsize = 0 THEN queue_init(QueueInit) ELSE q,
                    [base |-> bytes, offset |-> 0])

-----------------------------------------------------------------------------
Goto(t, l) == pc' = [pc EXCEPT ![t] = l]
Unlock     == mutex' = Free

RacedBy(harm, race) == IF harm THEN raced \cup {race} ELSE raced

(* hio_write, by any thread.                                               *)

\* The check of io->closed, without the lock: the loop thread may close
\* before the call goes on.  A call that fails it returns -1 and leaves
\* nothing behind.
hio_write(t) ==
    /\ pc[t] = "idle" /\ ~io.closed /\ calls < MaxCalls
    /\ \E len \in Lens : buf' = [buf EXCEPT ![t] = Bytes(conn, calls + 1, len)]
    /\ calls' = calls + 1
    /\ Goto(t, "wlock")
    /\ UNCHANGED <<io, wq, mutex, ret, seen, custom, closes, asked, sockVars, raced>>

WriteLockedTries(t) == Goto(t, "try")

\* Only an empty queue lets hio_write try send() itself.
WriteLocked(t) == Goto(t, IF queue_empty(wq) THEN "try" ELSE "push")

WriteLock(t) ==
    /\ pc[t] = "wlock" /\ mutex = Free
    /\ mutex' = t
    /\ WriteLocked(t)
    /\ UNCHANGED <<io, wq, buf, ret, seen, custom, asked, sockVars, boundVars, raced>>

\* write_error: the error is set, the mutex released, the close posted next.
WriteError(t) ==
    /\ io' = [io EXCEPT !.error = TRUE]
    /\ asked' = asked \cup {conn}
    /\ buf' = [buf EXCEPT ![t] = << >>]
    /\ Unlock /\ Goto(t, "aclose")

\* the connection that was open when the thread's hio_write looked
CallConn(t) == buf[t][1][1]

\* __nio_write; n is what send() has taken
TryWrite(t) ==
    /\ pc[t] = "try"
    /\ \E n \in SendResults(Len(buf[t])) :
          \/ n = -1 /\ WriteError(t) /\ UNCHANGED <<out, raced>>
          \/ /\ n >= 0
             /\ raced' = RacedBy(io.closed \/ CallConn(t) # conn, "stray")
             /\ out' = out \o SubSeq(buf[t], 1, n)
             /\ buf' = [buf EXCEPT ![t] = SubSeq(@, n + 1, Len(@))]
             /\ IF n = Len(buf[t]) THEN Unlock /\ Goto(t, "cb")
                                   ELSE UNCHANGED mutex /\ Goto(t, "add")
             /\ UNCHANGED <<io, asked>>
    /\ UNCHANGED <<wq, ret, seen, custom, conn, fd, got, rst, boundVars>>

\* hio_add(io, hio_handle_events, HV_WRITE)
WriteAddNone(t) == pc[t] = "add" /\ io' = io

WriteAdd(t) ==
    /\ pc[t] = "add"
    /\ io' = hio_add(io, {"WRITE"})

HioAddWrite(t) ==
    /\ WriteAdd(t)
    /\ Goto(t, "push")
    /\ UNCHANGED <<wq, mutex, buf, ret, seen, custom, asked, sockVars, boundVars, raced>>

\* The limit, then write_queue_push_back of what is left, under the mutex.
Push(t) ==
    /\ pc[t] = "push"
    /\ \/ OverLimit(io, Len(buf[t])) /\ WriteError(t) /\ UNCHANGED <<wq, raced>>
       \/ /\ ~OverLimit(io, Len(buf[t]))
          /\ raced' = RacedBy(CallConn(t) # conn, "stray")
          /\ wq' = write_queue_push(wq, buf[t])
          /\ io' = [io EXCEPT !.write_bufsize = @ + Len(buf[t])]
          /\ buf' = [buf EXCEPT ![t] = << >>]
          /\ Unlock /\ Goto(t, IF Head(buf[t])[3] > 1 THEN "cb" ELSE "idle")
          /\ UNCHANGED asked
    /\ UNCHANGED <<ret, seen, custom, sockVars, boundVars>>

\* hio_close: in another thread it becomes hio_close_async.
CallClose(t) ==
    /\ ~io.closed /\ closes < MaxCloses
    /\ closes' = closes + 1
    /\ asked' = asked \cup {conn}
    /\ Goto(t, IF t = Loop THEN "close" ELSE "aclose")

\* After the unlock write_cb runs in the thread that wrote (when send()
\* took something); it may do nothing or call hio_close.
WriteCb(t) ==
    /\ pc[t] = "cb"
    /\ \/ Goto(t, "idle") /\ UNCHANGED <<closes, asked>>
       \/ CallClose(t)
    /\ UNCHANGED <<io, wq, mutex, buf, ret, seen, custom, calls, sockVars, raced>>

hio_close(t) ==
    /\ pc[t] = "idle" /\ CallClose(t)
    /\ UNCHANGED <<io, wq, mutex, buf, ret, seen, custom, calls, sockVars, raced>>

\* hio_close_async: the event carries io->id
hio_close_async(t) ==
    /\ pc[t] = "aclose"
    /\ custom' = Append(custom, io.id)
    /\ Goto(t, "idle")
    /\ UNCHANGED <<io, wq, mutex, buf, ret, seen, asked, sockVars, boundVars, raced>>

-----------------------------------------------------------------------------
(* The loop thread closes.                                                 *)

\* The decision is taken under the (recursive) mutex; other threads may be
\* anywhere in hio_write and hio_close.
Close ==
    /\ pc[Loop] = "close" /\ mutex \in {Free, Loop}
    /\ \/ /\ io.closed
          /\ Goto(Loop, ret) /\ ret' = "idle" /\ UNCHANGED io
       \/ /\ ~io.closed /\ CloseLater(io, wq)
          /\ io' = ClosePutOff(io)
          /\ Goto(Loop, ret) /\ ret' = "idle"
       \/ /\ ~io.closed /\ ~CloseLater(io, wq)
          /\ io' = [io EXCEPT !.closed = TRUE]
          /\ Goto(Loop, "done") /\ UNCHANGED ret
    /\ UNCHANGED <<wq, mutex, buf, seen, custom, asked, sockVars, boundVars, raced>>

\* hio_done up to the queue, without the lock
HioDone ==
    /\ pc[Loop] = "done"
    /\ io' = [hio_del(io, Events) EXCEPT !.ready = FALSE]
    /\ Goto(Loop, "free")
    /\ UNCHANGED <<wq, mutex, buf, ret, seen, custom, asked, sockVars, boundVars, raced>>

\* every base is freed, then write_queue_cleanup
FreedQueue == queue_cleanup

HioDoneQueue ==
    /\ pc[Loop] = "free" /\ mutex \in {Free, Loop}
    /\ wq' = FreedQueue
    /\ Goto(Loop, "close_cb")
    /\ UNCHANGED <<io, mutex, buf, ret, seen, custom, asked, sockVars, boundVars, raced>>

\* __close_cb drops the timer and sets closed (again)
CloseCb ==
    /\ pc[Loop] = "close_cb"
    /\ io' = [io EXCEPT !.close_timer = FALSE, !.closed = TRUE]
    /\ Goto(Loop, "closesocket")
    /\ UNCHANGED <<wq, mutex, buf, ret, seen, custom, asked, sockVars, boundVars, raced>>

CloseSocket ==
    /\ pc[Loop] = "closesocket"
    /\ fd' = "closed"
    /\ Goto(Loop, ret) /\ ret' = "idle"
    /\ UNCHANGED <<io, wq, mutex, buf, seen, custom, conn, out, got, rst, asked, boundVars, raced>>

-----------------------------------------------------------------------------
(* The loop thread's events.                                               *)

\* hio_close_event_cb: is the event still for this connection?
close_event_cb(id) == io.id = id

CustomEvent ==
    /\ pc[Loop] = "idle" /\ custom # << >>
    /\ custom' = Tail(custom)
    /\ Goto(Loop, IF close_event_cb(Head(custom)) THEN "close" ELSE "idle")
    /\ UNCHANGED <<io, wq, mutex, buf, ret, seen, asked, sockVars, boundVars, raced>>

\* __close_timeout_cb
CloseTimeout ==
    /\ pc[Loop] = "idle" /\ io.close_timer
    /\ io' = [io EXCEPT !.error = TRUE]
    /\ Goto(Loop, "close")
    /\ UNCHANGED <<wq, mutex, buf, ret, seen, custom, asked, sockVars, boundVars, raced>>

\* hio_read_start / hio_read_stop in a callback: io->events is read ...
ReadInterest ==
    /\ pc[Loop] = "idle" /\ ~io.closed
    /\ seen' = io.events
    /\ Goto(Loop, "store")
    /\ UNCHANGED <<io, wq, mutex, buf, ret, custom, asked, sockVars, boundVars, raced>>

\* ... and written back with the other value of HV_READ.
StoreInterest ==
    /\ pc[Loop] = "store"
    /\ io' = [io EXCEPT !.events = IF "READ" \in seen THEN seen \ {"READ"}
                                   ELSE seen \cup {"READ"}]
    /\ raced' = RacedBy(io.events # seen, "interest")
    /\ seen' = {}
    /\ Goto(Loop, "idle")
    /\ UNCHANGED <<wq, mutex, buf, ret, custom, asked, sockVars, boundVars>>

HandleDel == IF queue_empty(wq) THEN hio_del(io, {"WRITE"}) ELSE io

\* hio_handle_events, the write part: the socket is writable (or broken).
HandleEvents ==
    /\ pc[Loop] = "idle" /\ mutex = Free
    /\ fd = "open" /\ "WRITE" \in io.events /\ (rst \/ SndSpace > 0)
    /\ io' = HandleDel
    /\ Goto(Loop, "nlock")
    /\ UNCHANGED <<wq, mutex, buf, ret, seen, custom, asked, sockVars, boundVars, raced>>

NioWriteLock ==
    /\ pc[Loop] = "nlock" /\ mutex = Free
    /\ mutex' = Loop
    /\ Goto(Loop, "nwrite")
    /\ UNCHANGED <<io, wq, buf, ret, seen, custom, asked, sockVars, boundVars, raced>>

\* The queue is empty: a close that was put off happens now.
NioWriteEmpty ==
    /\ pc[Loop] = "nwrite" /\ queue_empty(wq)
    /\ Unlock
    /\ io' = [io EXCEPT !.close = FALSE]
    /\ Goto(Loop, IF io.close THEN "close" ELSE "idle")
    /\ UNCHANGED <<wq, buf, ret, seen, custom, asked, sockVars, boundVars, raced>>

SentBy(b, n) == [b EXCEPT !.offset = b.offset + n]

FrontSentPopped(n) ==
    IF n = Len(Remain(queue_front(wq))) THEN queue_pop_front(wq)
    ELSE [wq EXCEPT !.ptr = [wq.ptr EXCEPT ![wq.offset] = SentBy(queue_front(wq), n)]]

\* n more bytes of the front buffer are out
FrontSent(n) ==
    [wq EXCEPT !.ptr = [wq.ptr EXCEPT ![wq.offset] = SentBy(queue_front(wq), n)]]

NioWriteSend ==
    /\ pc[Loop] = "nwrite" /\ ~queue_empty(wq)
    /\ LET rest == Remain(queue_front(wq)) IN
       \E n \in SendResults(Len(rest)) :
          \/ /\ n = -1
             /\ io' = [io EXCEPT !.error = TRUE]
             /\ asked' = asked \cup {conn}
             /\ Unlock /\ Goto(Loop, "close")
             /\ UNCHANGED <<wq, out>>
          \/ /\ n = 0
             /\ Unlock /\ Goto(Loop, "idle")
             /\ UNCHANGED <<io, wq, out, asked>>
          \/ /\ n > 0
             /\ out' = out \o SubSeq(rest, 1, n)
             /\ wq' = FrontSent(n)
             /\ io' = [io EXCEPT !.write_bufsize = @ - n]
             /\ Goto(Loop, "nwrite_cb")
             /\ UNCHANGED <<mutex, asked>>
    /\ UNCHANGED <<buf, ret, seen, custom, conn, fd, got, rst, boundVars, raced>>

\* write_cb inside nio_write, with the mutex held, does nothing, ...
NioWriteCb ==
    /\ pc[Loop] = "nwrite_cb"
    /\ Goto(Loop, "npop")
    /\ UNCHANGED <<io, wq, mutex, buf, ret, seen, custom, asked, sockVars, boundVars, raced>>

\* ... or calls hio_write, which queues behind the buffer just sent, ...
NioWriteCbWrite ==
    /\ pc[Loop] = "nwrite_cb" /\ ~io.closed /\ calls < MaxCalls
    /\ calls' = calls + 1
    /\ \E len \in Lens :
          \/ /\ OverLimit(io, len)
             /\ io' = [io EXCEPT !.error = TRUE]
             /\ asked' = asked \cup {conn}
             /\ custom' = Append(custom, io.id)
             /\ UNCHANGED wq
          \/ /\ ~OverLimit(io, len)
             /\ wq' = write_queue_push(wq, Bytes(conn, calls + 1, len))
             /\ io' = [io EXCEPT !.write_bufsize = @ + len]
             /\ UNCHANGED <<custom, asked>>
    /\ Goto(Loop, "npop")
    /\ UNCHANGED <<mutex, buf, ret, seen, closes, sockVars, raced>>

\* ... or calls hio_close.
NioWriteCbClose ==
    /\ pc[Loop] = "nwrite_cb"
    /\ CallClose(Loop)
    /\ raced' = RacedBy(~CloseLater(io, wq), "close_in_cb")
    /\ ret' = "npop"
    /\ UNCHANGED <<io, wq, mutex, buf, seen, custom, calls, sockVars>>

\* HV_FREE(base) and write_queue_pop_front, if the buffer is finished
NioWritePop ==
    /\ pc[Loop] = "npop" /\ ~queue_empty(wq)
    /\ IF Remain(queue_front(wq)) = << >>
       THEN wq' = queue_pop_front(wq) /\ UNCHANGED mutex /\ Goto(Loop, "nwrite")
       ELSE UNCHANGED wq /\ Unlock /\ Goto(Loop, "idle")
    /\ UNCHANGED <<io, buf, ret, seen, custom, asked, sockVars, boundVars, raced>>

\* write_cb has closed: if the buffer was finished it is freed again and
\* popped from an array that is gone, after which anything may happen.
NioWriteFreed ==
    /\ pc[Loop] = "npop" /\ queue_empty(wq)
    /\ \/ Unlock /\ Goto(Loop, "idle")
       \/ Goto(Loop, "undefined") /\ UNCHANGED mutex
    /\ UNCHANGED <<io, wq, buf, ret, seen, custom, asked, sockVars, boundVars, raced>>

\* accept() returns the free descriptor again; hio_get readies its hio_t,
\* and the user's accept_cb starts to read.
Accept ==
    /\ pc[Loop] = "idle" /\ fd = "closed" /\ conn < MaxConns
    /\ conn' = conn + 1 /\ fd' = "open" /\ out' = << >> /\ got' = 0 /\ rst' = FALSE
    /\ io' = LET i == hio_ready(io) IN IF i.closed THEN i ELSE hio_add(i, {"READ"})
    /\ UNCHANGED <<wq, mutex, pc, buf, ret, seen, custom, asked, boundVars, raced>>

-----------------------------------------------------------------------------
(* The peer.                                                               *)

PeerRead ==
    /\ fd = "open" /\ got < Len(out)
    /\ got' = got + 1
    /\ UNCHANGED <<io, wq, mutex, pc, buf, ret, seen, custom, conn, fd, out, rst,
                   calls, closes, asked, raced>>

PeerReset ==
    /\ fd = "open" /\ ~rst
    /\ rst' = TRUE
    /\ UNCHANGED <<io, wq, mutex, pc, buf, ret, seen, custom, conn, fd, out, got,
                   calls, closes, asked, raced>>

-----------------------------------------------------------------------------
Init ==
    /\ io = [hio_ready([ready |-> FALSE, id |-> -1]) EXCEPT !.ready = FALSE, !.closed = TRUE]
    /\ wq = queue_cleanup
    /\ mutex = Free /\ pc = [t \in Threads |-> "idle"]
    /\ buf = [t \in Threads |-> << >>]
    /\ ret = "idle" /\ seen = {} /\ custom = << >>
    /\ conn = 0 /\ fd = "closed" /\ out = << >> /\ got = 0 /\ rst = FALSE
    /\ calls = 0 /\ closes = 0 /\ asked = {} /\ raced = {}

\* The rest of a call that a thread is in.
WriteStep(t) ==
    WriteLock(t) \/ TryWrite(t) \/ HioAddWrite(t) \/ Push(t) \/ WriteCb(t) \/ hio_close_async(t)

LoopStep ==
    \/ Close \/ HioDone \/ HioDoneQueue \/ CloseCb \/ CloseSocket
    \/ StoreInterest \/ NioWriteLock \/ NioWriteEmpty \/ NioWriteSend
    \/ NioWriteCb \/ NioWriteCbWrite \/ NioWriteCbClose \/ NioWritePop
    \/ NioWriteFreed

Next ==
    \/ \E t \in Threads : hio_write(t) \/ hio_close(t) \/ WriteStep(t)
    \/ LoopStep \/ CustomEvent \/ CloseTimeout \/ ReadInterest \/ HandleEvents \/ Accept
    \/ PeerRead \/ PeerReset

Spec == Init /\ [][Next]_vars

\* A thread inside a call goes on.  Strong fairness for the loop's events:
\* each round serves every event that is ready, whatever else it serves.
FairSpec ==
    /\ Spec
    /\ \A t \in Threads : WF_vars(WriteStep(t))
    /\ WF_vars(LoopStep)
    /\ SF_vars(CustomEvent) /\ SF_vars(CloseTimeout) /\ SF_vars(HandleEvents)

-----------------------------------------------------------------------------
(* Properties.                                                             *)

Byte == Nat \X Nat \X Nat
Bufs == {b \in [base : Seq(Byte), offset : Nat] : b.offset <= Len(b.base)}
Hios == [id : Nat, ready : BOOLEAN, closed : BOOLEAN, close : BOOLEAN, error : BOOLEAN,
         events : SUBSET Events, write_bufsize : Int, close_timer : BOOLEAN]

\* The type invariant; write_queue's elements are inside its array.
TypeOK ==
    /\ io \in Hios
    /\ QueueOK(wq, Bufs)
    /\ mutex \in Threads \cup {Free}
    /\ pc \in [Threads -> {"idle", "wlock", "try", "add", "push", "cb", "aclose",
                           "close", "done", "free", "close_cb", "closesocket",
                           "store", "nlock", "nwrite", "nwrite_cb", "npop",
                           "undefined"}]
    /\ buf \in [Threads -> Seq(Byte)]
    /\ ret \in {"idle", "npop"} /\ seen \subseteq Events
    /\ custom \in Seq(Nat)
    /\ conn \in 0..MaxConns /\ fd \in {"open", "closed"}
    /\ out \in Seq(Byte) /\ got \in Nat /\ rst \in BOOLEAN
    /\ calls \in 0..MaxCalls /\ closes \in 0..MaxCloses
    /\ asked \subseteq 0..MaxConns
    /\ raced \subseteq {"stray", "interest", "close_in_cb"}

\* The bytes of the call that holds the mutex and has its place in the stream
\* of the connection it was made for.
Held == IF mutex \in Threads /\ pc[mutex] \in {"add", "push"} /\ CallConn(mutex) = conn
        THEN buf[mutex] ELSE << >>

\* The bytes that hio_write has taken and send() has not.
Pending == IF io.closed THEN << >> ELSE Queued(wq) \o Held

Stream == INSTANCE HioStream WITH open <- ~io.closed, pend <- Pending

\* "hio_write is thread-safe", whatever thread calls it and whenever the loop
\* thread closes: the bytes go to the connection that was open when hio_write
\* was called.  (A call that the loop's close overtakes writes into the next
\* connection of the descriptor.)
OwnStream == \A i \in DOMAIN out : out[i][1] = conn

Harmed == raced \cap {"stray", "close_in_cb"} # {}

\* Calls from several threads, from read_cb and from write_cb give one ordered
\* stream per connection (HioStream), whatever the queue, the partial sends
\* and the array's growth do, with closes at any moment, also those that a
\* peer's reset causes while calls are in flight; for as long as no overtaken
\* call gets its bytes out (OwnStream) and no write_cb frees the queue under
\* nio_write.  A call that is overtaken and fails, or whose bytes are freed
\* with the queue, does no harm.
StreamSpec == Stream!Init /\ [][Stream!Next \/ Harmed']_(Stream!vars)

\* write_bufsize, which hio_write checks against its limit and
\* hio_write_is_complete compares with 0, counts the bytes in the queue; with
\* the same proviso as StreamSpec.
BufExact ==
    mutex = Free /\ ~io.closed /\ ~Harmed =>
        /\ io.write_bufsize = Len(Queued(wq))
        /\ io.write_bufsize <= MaxWriteBufsize

\* nio_write frees and pops the front buffer after write_cb, whatever
\* write_cb does ("after write_cb, pbuf maybe invalid"): it is still there.
FrontStays == pc[Loop] \in {"nwrite_cb", "npop"} => ~queue_empty(wq)

\* What push_back and pop_front leave is always inside the array; and
\* FrontStays holds although write_cb may queue, move or grow the array, or
\* call a hio_close that is put off because of the queue.  (A hio_close in
\* write_cb that closes at once frees the front buffer: "close_in_cb".)
FrontAlive == QueueOK(wq, Bufs) /\ ("close_in_cb" \notin raced => FrontStays)

\* Whatever is queued leaves when the peer keeps reading, unless the
\* connection ends: hio_write called in another thread sends its data in the
\* end, also while the loop's callbacks start and stop reading.
FlushedAlways ==
    WF_vars(PeerRead) =>
        \A c \in 1..MaxConns :
            (conn = c /\ ~queue_empty(wq)) ~> (conn # c \/ queue_empty(wq) \/ rst \/ io.closed)

\* FlushedAlways, unless a race did harm: in particular unless the loop's
\* start or stop of reading wrote back io->events as it was before a worker
\* registered HV_WRITE.
Flushed ==
    WF_vars(PeerRead) =>
        \A c \in 1..MaxConns :
            (conn = c /\ ~queue_empty(wq))
                ~> (conn # c \/ queue_empty(wq) \/ rst \/ io.closed \/ raced # {})

\* hio_close called in another thread does close, in the end, even if the
\* peer never reads what is queued (hio_close_async, close_timer), and also
\* when HV_WRITE is lost; with the same proviso as StreamSpec.
CloseEnds ==
    \A c \in 1..MaxConns :
        (conn = c /\ c \in asked) ~> (conn # c \/ fd = "closed" \/ Harmed)

=============================================================================

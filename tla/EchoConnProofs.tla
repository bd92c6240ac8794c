--------------------------- MODULE EchoConnProofs ---------------------------
(***************************************************************************)
(* Proofs about EchoConn, for every value of its constants: the type       *)
(* invariant, that a queue with bytes is watched for HV_WRITE, that no     *)
(* close event hits the wrong connection, that no data is read after a     *)
(* write was refused, and that every byte is echoed once and in order.  At *)
(* the end, the theorems about EchoServer, the life of the server that     *)
(* owns the connection.                                                    *)
(***************************************************************************)
EXTENDS EchoConn, EchoServer, SequenceLaws

\* What the ids in custom_events mean: they are of this or of an earlier
\* connection, and of this one only after an error.
PostedIds ==
    /\ \A id \in custom : id <= io.id
    /\ ~io.closed /\ io.id \in custom => io.error # "none"

\* A close is put off only after the client's FIN.
PutOffAfterFin == ~io.closed /\ io.close => fin

\* While an error waits for its close event, the connection is pending only
\* together with the eventfd, which runs first.
ErrorRunsFirst ==
    /\ phase # "loop" => "conn" \notin pend
    /\ ~io.closed /\ io.error # "none" /\ "conn" \in pend => "eventfd" \in pend

\* A descriptor that was never used has id 0.
InUse ==
    /\ ~io.closed => io.id > 0
    /\ io.closed => io.events = {}
    /\ phase \in {"on_recv", "nio_write"} => ~io.closed
    /\ "listen" \in pend => io.id < MaxConns

\* The inductive invariant.
IInv ==
    /\ TypeOK
    /\ WriteWatched
    /\ CloseHasCause
    /\ RefusedThenSilent
    /\ PostedIds
    /\ PutOffAfterFin
    /\ ErrorRunsFirst
    /\ InUse

-----------------------------------------------------------------------------
(* What the hio_t operations return.                                       *)

LEMMA hioDoneType ==
  ASSUME NEW i \in HioType
  PROVE  /\ hio_done(i) \in HioType
         /\ hio_done(i).closed /\ hio_done(i).write_queue = << >>
         /\ hio_done(i).events = {}
         /\ hio_done(i).id = i.id /\ hio_done(i).error = i.error
<1>1. i.events \ Events \in SUBSET Events
  BY DEF HioType
<1>2. [i EXCEPT !.events = @ \ Events] \in HioType
  BY <1>1 DEF HioType
<1>3. PICK j \in HioType : j = [i EXCEPT !.events = @ \ Events]
  BY <1>2
<1>4. j.id = i.id /\ j.error = i.error /\ j.events = {}
  BY <1>3 DEF HioType
<1>5. hio_done(i) = [j EXCEPT !.closed = TRUE, !.write_queue = << >>, !.close_timer = FALSE]
  BY <1>3 DEF hio_done, hio_del
<1>6. hio_done(i) \in HioType
  <2>1. << >> \in Seq(Seq(Nat))
    OBVIOUS
  <2> QED
    BY <1>5, <2>1 DEF HioType
<1>7. /\ hio_done(i).closed = TRUE /\ hio_done(i).write_queue = << >>
      /\ hio_done(i).id = i.id /\ hio_done(i).error = i.error
      /\ hio_done(i).events = {}
  BY <1>4, <1>5 DEF HioType
<1> QED
  BY <1>6, <1>7

\* hio_close keeps the id and the error; it closes, or puts the close off
\* while there are bytes to send and no error.
LEMMA hioCloseEffect ==
  ASSUME NEW i \in HioType
  PROVE  /\ hio_close(i) \in HioType
         /\ hio_close(i).id = i.id /\ hio_close(i).error = i.error
         /\ i.closed => hio_close(i) = i
         /\ hio_close(i).closed /\ ~i.closed =>
               hio_close(i).write_queue = << >> /\ hio_close(i).events = {}
         /\ ~hio_close(i).closed =>
               /\ i.write_queue # << >> /\ i.error = "none"
               /\ hio_close(i).write_queue = i.write_queue
               /\ hio_close(i).events = i.events
<1>1. CASE i.closed
  BY <1>1 DEF hio_close
<1>2. CASE ~i.closed /\ CloseLater(i)
  <2>1. hio_close(i) = [i EXCEPT !.close = TRUE, !.close_timer = TRUE]
    BY <1>2 DEF hio_close
  <2> QED
    BY <1>2, <2>1 DEF CloseLater, HioType
<1>3. CASE ~i.closed /\ ~CloseLater(i)
  <2>1. hio_close(i) = hio_done(i)
    BY <1>3 DEF hio_close
  <2> QED
    BY <1>3, <2>1, hioDoneType
<1> QED
  BY <1>1, <1>2, <1>3

\* The bytes that send() left over.
LEMMA RestType ==
  ASSUME NEW buf \in Seq(Nat), NEW n \in Nat, n <= Len(buf)
  PROVE  /\ SubSeq(buf, n + 1, Len(buf)) \in Seq(Nat)
         /\ (n < Len(buf)) = (SubSeq(buf, n + 1, Len(buf)) # << >>)
         /\ SubSeq(buf, 1, n) \in Seq(Nat)
<1>1. Len(buf) \in Nat /\ n + 1 \in Nat
  OBVIOUS
<1>2. \A k \in (n + 1)..Len(buf) : buf[k] \in Nat
  OBVIOUS
<1>3. \A k \in 1..n : buf[k] \in Nat
  OBVIOUS
<1>4. SubSeq(buf, n + 1, Len(buf)) \in Seq(Nat)
  OBVIOUS
<1>5. SubSeq(buf, 1, n) \in Seq(Nat)
  OBVIOUS
<1>6. (n < Len(buf)) = (SubSeq(buf, n + 1, Len(buf)) # << >>)
  OBVIOUS
<1> QED
  BY <1>4, <1>5, <1>6

\* Enqueue and hio_add keep everything else.
LEMMA EnqueueEffect ==
  ASSUME NEW i \in HioType, NEW data \in Seq(Nat)
  PROVE  /\ Enqueue(i, data) \in HioType
         /\ Enqueue(i, data).id = i.id /\ Enqueue(i, data).error = i.error
         /\ Enqueue(i, data).closed = i.closed
         /\ Enqueue(i, data).close = i.close
         /\ Enqueue(i, data).events = i.events
<1>1. /\ Append(i.write_queue, data) \in Seq(Seq(Nat))
      /\ i.write_bufsize + Len(data) \in Int
  BY DEF HioType
<1> QED
  BY <1>1 DEF Enqueue, HioType

LEMMA hioAddEffect ==
  ASSUME NEW i \in HioType
  PROVE  LET j == hio_add(i, {"WRITE"}) IN
         /\ j \in HioType
         /\ j.id = i.id /\ j.error = i.error /\ j.closed = i.closed
         /\ j.close = i.close /\ j.write_bufsize = i.write_bufsize
         /\ j.write_queue = i.write_queue
         /\ "WRITE" \in j.events
<1>1. i.events \cup {"WRITE"} \in SUBSET Events
  BY DEF HioType, Events
<1> QED
  BY <1>1 DEF hio_add, HioType

\* hio_write marks an error exactly when it posts the close event, and
\* leaves no queue unwatched.
LEMMA hioWriteEffect ==
  ASSUME NEW i \in HioType, NEW buf \in Seq(Nat), NEW n \in Int,
         n = -1 \/ (n \in Nat /\ n <= Len(buf)),
         i.write_queue # << >> => "WRITE" \in i.events
  PROVE  LET w == hio_write(i, buf, n) IN
         /\ w \in HioType
         /\ w.id = i.id /\ w.closed = i.closed /\ w.close = i.close
         /\ WriteFails(i, buf, n) => w.error # "none"
         /\ ~WriteFails(i, buf, n) => w.error = i.error
         /\ w.write_queue # << >> => "WRITE" \in w.events
<1> DEFINE w == hio_write(i, buf, n)
           rest == SubSeq(buf, n + 1, Len(buf))
<1>1. CASE n = -1
  <2>1. w = [i EXCEPT !.error = "ECONNRESET"] /\ WriteFails(i, buf, n)
    BY <1>1 DEF hio_write, WriteFails
  <2> QED
    BY <2>1 DEF HioType, Errors
<1>2. CASE n # -1
  <2>1. n \in Nat /\ n <= Len(buf)
    BY <1>2
  <2>2. rest \in Seq(Nat) /\ (n < Len(buf)) = (rest # << >>)
    BY <2>1, RestType
  <2>3. CASE rest = << >>
    <3>1. w = i /\ ~WriteFails(i, buf, n)
      BY <1>2, <2>1, <2>2, <2>3 DEF hio_write, WriteFails
    <3> QED
      BY <3>1
  <2>4. CASE rest # << >>
    <3>1. PICK j : j = IF i.write_queue = << >> THEN hio_add(i, {"WRITE"}) ELSE i
      OBVIOUS
    <3>2. /\ j \in HioType
          /\ j.id = i.id /\ j.error = i.error /\ j.closed = i.closed
          /\ j.close = i.close /\ j.write_bufsize = i.write_bufsize
          /\ "WRITE" \in j.events
      BY <3>1, hioAddEffect
    <3>3. w = IF OverLimit(j, rest) THEN [j EXCEPT !.error = "ERR_OVER_LIMIT"]
              ELSE Enqueue(j, rest)
      BY <1>2, <2>4, <3>1 DEF hio_write
    <3>4. OverLimit(j, rest) <=> OverLimit(i, rest)
      BY <3>2 DEF OverLimit
    <3>5. WriteFails(i, buf, n) <=> OverLimit(i, rest)
      <4>1. n < Len(buf)
        BY <2>2, <2>4
      <4> QED
        BY <1>2, <4>1 DEF WriteFails
    <3>6. CASE OverLimit(j, rest)
      <4>1. w = [j EXCEPT !.error = "ERR_OVER_LIMIT"]
        BY <3>3, <3>6
      <4>2. /\ w \in HioType
            /\ w.id = j.id /\ w.closed = j.closed /\ w.close = j.close
            /\ w.error = "ERR_OVER_LIMIT" /\ w.events = j.events
        BY <3>2, <4>1 DEF HioType, Errors
      <4> QED
        BY <3>2, <3>4, <3>5, <3>6, <4>2
    <3>7. CASE ~OverLimit(j, rest)
      <4>1. w = Enqueue(j, rest)
        BY <3>3, <3>7
      <4> HIDE DEF w, rest
      <4>2. /\ w \in HioType
            /\ w.id = j.id /\ w.closed = j.closed /\ w.close = j.close
            /\ w.error = j.error /\ w.events = j.events
        BY <2>2, <3>2, <4>1, EnqueueEffect
      <4>3. ~WriteFails(i, buf, n)
        BY <3>4, <3>5, <3>7
      <4> QED
        BY <3>2, <4>2, <4>3 DEF w
    <3> QED
      BY <3>6, <3>7
  <2> QED
    BY <2>3, <2>4
<1> QED
  BY <1>1, <1>2

\* Taking n sent bytes off the queue leaves the rest of the hio_t alone.
LEMMA PopFrontEffect ==
  ASSUME NEW i \in HioType, i.write_queue # << >>,
         NEW n \in Nat, n <= Len(Head(i.write_queue))
  PROVE  LET p == PopFront(i, n) IN
         /\ p \in HioType
         /\ p.id = i.id /\ p.closed = i.closed /\ p.close = i.close
         /\ p.error = i.error /\ p.events = i.events
<1> DEFINE buf == Head(i.write_queue)
           q == IF n = Len(buf) THEN Tail(i.write_queue)
                ELSE <<SubSeq(buf, n + 1, Len(buf))>> \o Tail(i.write_queue)
<1>1. buf \in Seq(Nat) /\ Tail(i.write_queue) \in Seq(Seq(Nat))
  BY DEF HioType
<1>2. SubSeq(buf, n + 1, Len(buf)) \in Seq(Nat)
  BY <1>1, RestType
<1>3. q \in Seq(Seq(Nat))
  BY <1>1, <1>2
<1>4. i.write_bufsize - n \in Int
  BY DEF HioType
<1>5. PopFront(i, n) = [i EXCEPT !.write_bufsize = i.write_bufsize - n, !.write_queue = q]
  BY DEF PopFront, HioType
<1> HIDE DEF q
<1> QED
  BY <1>3, <1>4, <1>5 DEF HioType

-----------------------------------------------------------------------------
(* The inductive invariant holds.                                          *)

LEMMA InitIInv == Init => IInv
<1> SUFFICES ASSUME Init PROVE IInv
  OBVIOUS
<1>1. io = [id |-> 0, closed |-> TRUE, close |-> FALSE, error |-> "none",
            events |-> {}, revents |-> {}, write_queue |-> << >>,
            write_bufsize |-> 0, close_timer |-> FALSE]
  BY DEF Init, hio_ready
<1>2. io \in HioType
  BY <1>1, EchoConnAssumption DEF HioType, Events, Errors
<1>3. /\ pend \subseteq {"timer", "eventfd", "listen", "conn"}
      /\ custom \subseteq 1..MaxConns
      /\ phase \in {"loop", "on_recv", "write", "nio_write"}
  BY DEF Init
<1>4. fin \in BOOLEAN /\ rst \in BOOLEAN
  BY DEF Init
<1>5. /\ wrote \in Nat /\ rcvd \in Nat /\ got \in Nat
      /\ rbuf \in Seq(Nat) /\ sent \in Seq(Nat)
  BY DEF Init
<1>6. TypeOK
  BY <1>2, <1>3, <1>4, <1>5 DEF TypeOK
<1>7. /\ io.closed = TRUE /\ io.id = 0 /\ io.write_queue = << >>
      /\ io.events = {}
  BY <1>1
<1>8. pend = {} /\ phase = "loop" /\ custom = {}
  BY DEF Init
<1> QED
  BY <1>6, <1>7, <1>8 DEF IInv, WriteWatched, CloseHasCause, RefusedThenSilent,
     PostedIds, PutOffAfterFin, ErrorRunsFirst, InUse

LEMMA ClientStep == IInv /\ ClientNext => IInv'
<1> SUFFICES ASSUME IInv, ClientNext PROVE IInv'
  OBVIOUS
<1>1. /\ io' = io /\ pend' = pend /\ phase' = phase /\ rbuf' = rbuf
      /\ custom' = custom /\ rcvd' = rcvd /\ sent' = sent
      /\ wrote' \in Nat /\ got' \in Nat
  BY DEF IInv, TypeOK, ClientNext, ClientSend, ClientFin, ClientReset, ClientRead
<1>2. (fin' = TRUE \/ fin' = fin) /\ (rst' = TRUE \/ rst' = rst)
  BY DEF ClientNext, ClientSend, ClientFin, ClientReset, ClientRead
<1>3. TypeOK'
  BY <1>1, <1>2 DEF IInv, TypeOK
<1> QED
  BY <1>1, <1>2, <1>3 DEF IInv, WriteWatched, CloseHasCause, RefusedThenSilent,
     PostedIds, PutOffAfterFin, ErrorRunsFirst, InUse

LEMMA PollStep == IInv /\ Poll => IInv'
<1> SUFFICES ASSUME IInv, Poll PROVE IInv'
  OBVIOUS
<1>1. io \in HioType
  BY DEF IInv, TypeOK
<1>2. Revents \subseteq Events
  BY <1>1 DEF Revents, HioType
<1>3. io.revents \cup Revents \in SUBSET Events
  BY <1>1, <1>2 DEF HioType
<1>4. io' = [io EXCEPT !.revents = io.revents \cup Revents]
  BY <1>1 DEF Poll, HioType
<1>5. /\ io' \in HioType
      /\ io'.closed = io.closed /\ io'.id = io.id /\ io'.error = io.error
      /\ io'.close = io.close /\ io'.write_queue = io.write_queue
      /\ io'.events = io.events
  BY <1>1, <1>3, <1>4 DEF HioType
<1>6. /\ pend' \subseteq {"timer", "eventfd", "listen", "conn"}
      /\ "listen" \in pend' => io.id < MaxConns
      /\ custom # {} => "eventfd" \in pend'
  BY DEF Poll
<1>7. /\ phase = "loop" /\ phase' = phase /\ rbuf' = rbuf /\ custom' = custom
      /\ wrote' = wrote /\ fin' = fin /\ rst' = rst /\ rcvd' = rcvd
      /\ sent' = sent /\ got' = got
  BY DEF Poll, sockVars
<1>8. TypeOK'
  BY <1>5, <1>6, <1>7 DEF IInv, TypeOK
<1> QED
  BY <1>5, <1>6, <1>7, <1>8 DEF IInv, WriteWatched, CloseHasCause,
     RefusedThenSilent, PostedIds, PutOffAfterFin, ErrorRunsFirst, InUse

LEMMA CloseTimeoutStep == IInv /\ CloseTimeout => IInv'
<1> SUFFICES ASSUME IInv, CloseTimeout PROVE IInv'
  OBVIOUS
<1> DEFINE e == [io EXCEPT !.error = "ETIMEDOUT"]
<1>1. io \in HioType
  BY DEF IInv, TypeOK
<1>2. /\ e \in HioType
      /\ e.error = "ETIMEDOUT" /\ e.id = io.id /\ e.closed = io.closed
      /\ e.write_queue = io.write_queue /\ e.events = io.events
  BY <1>1 DEF HioType, Errors
<1>3. /\ phase = "loop" /\ phase' = phase /\ rbuf' = rbuf /\ custom' = custom
      /\ wrote' = wrote /\ fin' = fin /\ rst' = rst /\ rcvd' = rcvd
      /\ sent' = sent /\ got' = got /\ pend' = pend \ {"timer"}
  BY DEF CloseTimeout, Runnable, sockVars
<1>4. CASE io.close_timer
  <2>1. io' = hio_close(e)
    BY <1>4 DEF CloseTimeout
  <2> HIDE DEF e
  <2>2. /\ io' \in HioType /\ io'.id = io.id /\ io'.error = "ETIMEDOUT"
        /\ io'.closed
    BY <1>2, <2>1, hioCloseEffect
  <2>3. TypeOK'
    BY <1>3, <2>2 DEF IInv, TypeOK
  <2> QED
    BY <1>2, <1>3, <2>1, <2>2, <2>3, hioCloseEffect DEF IInv, WriteWatched,
       CloseHasCause, RefusedThenSilent, PostedIds, PutOffAfterFin,
       ErrorRunsFirst, InUse
<1>5. CASE ~io.close_timer
  <2>1. io' = io
    BY <1>5 DEF CloseTimeout
  <2>2. TypeOK'
    BY <1>3, <2>1 DEF IInv, TypeOK
  <2> QED
    BY <1>3, <2>1, <2>2 DEF IInv, WriteWatched,
       CloseHasCause, RefusedThenSilent, PostedIds, PutOffAfterFin,
       ErrorRunsFirst, InUse
<1> QED
  BY <1>4, <1>5

LEMMA EventfdReadStep == IInv /\ EventfdRead => IInv'
<1> SUFFICES ASSUME IInv, EventfdRead PROVE IInv'
  OBVIOUS
<1>1. io \in HioType
  BY DEF IInv, TypeOK
<1>2. /\ phase = "loop" /\ phase' = phase /\ rbuf' = rbuf /\ custom' = {}
      /\ wrote' = wrote /\ fin' = fin /\ rst' = rst /\ rcvd' = rcvd
      /\ sent' = sent /\ got' = got /\ pend' = pend \ {"eventfd"}
      /\ io' = IF io.id \in custom THEN hio_close(io) ELSE io
  BY DEF EventfdRead, Runnable, sockVars, hio_close_event_cb
<1>3. CASE ~io.closed /\ io.id \in custom
  <2>1. io.error # "none" /\ io' = hio_close(io)
    BY <1>2, <1>3 DEF IInv, PostedIds
  <2>2. /\ io' \in HioType /\ io'.id = io.id /\ io'.error = io.error
        /\ io'.closed /\ io'.write_queue = << >> /\ io'.events = {}
    BY <1>1, <1>3, <2>1, hioCloseEffect
  <2>3. TypeOK'
    BY <1>2, <2>2 DEF IInv, TypeOK
  <2> QED
    BY <1>2, <2>1, <2>2, <2>3 DEF IInv, WriteWatched, CloseHasCause,
       RefusedThenSilent, PostedIds, PutOffAfterFin, ErrorRunsFirst, InUse
<1>4. CASE io.closed \/ io.id \notin custom
  <2>1. io' = io
    BY <1>1, <1>2, <1>4, hioCloseEffect
  <2>2. TypeOK'
    BY <1>2, <2>1 DEF IInv, TypeOK
  <2> QED
    BY <1>2, <1>4, <2>1, <2>2 DEF IInv, WriteWatched, CloseHasCause,
       RefusedThenSilent, PostedIds, PutOffAfterFin, ErrorRunsFirst, InUse
<1> QED
  BY <1>3, <1>4

LEMMA AcceptStep == IInv /\ Accept => IInv'
<1> SUFFICES ASSUME IInv, Accept PROVE IInv'
  OBVIOUS
<1>1. io \in HioType /\ io.id \in 0..MaxConns /\ io.id < MaxConns
  BY DEF IInv, TypeOK, InUse, Accept, Runnable, HioType
<1>2. /\ phase = "loop" /\ phase' = phase /\ rbuf' = rbuf /\ custom' = custom
      /\ pend' = pend \ {"listen"}
  BY DEF Accept, Runnable
<1>3. CASE /\ io.closed
           /\ io' = on_accept(hio_ready(io.id + 1))
           /\ wrote' = 0 /\ fin' = FALSE /\ rst' = FALSE
           /\ rcvd' = 0 /\ sent' = << >> /\ got' = 0
  <2>1. io.id + 1 \in 0..MaxConns
    BY <1>1, EchoConnAssumption
  <2>2. << >> \in Seq(Nat) /\ << >> \in Seq(Seq(Nat))
    OBVIOUS
  <2>3a. io' = [hio_ready(io.id + 1) EXCEPT !.events = {"READ"}]
    BY <1>3 DEF on_accept, hio_add, hio_ready
  <2>3b. hio_ready(io.id + 1) \in HioType
    BY <2>1, <2>2 DEF hio_ready, HioType, Errors, Events
  <2>3. io' \in HioType
    BY <2>3a, <2>3b DEF HioType, Events
  <2>4. /\ io'.id = io.id + 1 /\ io'.closed = FALSE /\ io'.close = FALSE
        /\ io'.error = "none" /\ io'.write_queue = << >>
    BY <1>3 DEF on_accept, hio_add, hio_ready
  <2>5. TypeOK'
    BY <1>2, <1>3, <2>2, <2>3 DEF IInv, TypeOK
  <2>6. io.id + 1 \notin custom /\ io.id + 1 > 0
    BY <1>1 DEF IInv, PostedIds, TypeOK
  <2>7. \A id \in custom : id <= io.id + 1
    BY <1>1 DEF IInv, PostedIds, TypeOK
  <2> QED
    BY <1>2, <2>4, <2>5, <2>6, <2>7 DEF IInv, WriteWatched,
       CloseHasCause, RefusedThenSilent, PostedIds, PutOffAfterFin,
       ErrorRunsFirst, InUse
<1>4. CASE UNCHANGED io /\ UNCHANGED sockVars
  <2>1. TypeOK'
    BY <1>2, <1>4 DEF IInv, TypeOK, sockVars
  <2> QED
    BY <1>2, <1>4, <2>1 DEF sockVars, IInv, WriteWatched, CloseHasCause,
       RefusedThenSilent, PostedIds, PutOffAfterFin, ErrorRunsFirst, InUse
<1> QED
  BY <1>3, <1>4 DEF Accept

\* The steps into hio_handle_events that only move the phase.
LEMMA SkipOrWriteStep == IInv /\ (SkipConn \/ WriteOnly) => IInv'
<1> SUFFICES ASSUME IInv, SkipConn \/ WriteOnly PROVE IInv'
  OBVIOUS
<1>1. /\ phase' \in {"loop", "write"} /\ pend' = pend \ {"conn"} /\ io' = io
      /\ rbuf' = rbuf /\ custom' = custom
      /\ wrote' = wrote /\ fin' = fin /\ rst' = rst /\ rcvd' = rcvd
      /\ sent' = sent /\ got' = got
  BY DEF SkipConn, WriteOnly, Enter, sockVars
<1>2. TypeOK'
  BY <1>1 DEF IInv, TypeOK
<1> QED
  BY <1>1, <1>2 DEF IInv, WriteWatched, CloseHasCause, RefusedThenSilent,
     PostedIds, PutOffAfterFin, ErrorRunsFirst, InUse

\* When the connection runs, no close event of its own is still waiting.
LEMMA ConnRunsHealthy ==
  ASSUME IInv, ReadConn
  PROVE  ~io.closed => io.error = "none"
<1>1. "conn" \in pend /\ "eventfd" \notin pend
  BY DEF ReadConn, Runnable, Priority
<1> QED
  BY <1>1 DEF IInv, ErrorRunsFirst

LEMMA NioReadDataStep == IInv /\ NioReadData => IInv'
<1> SUFFICES ASSUME IInv, NioReadData PROVE IInv'
  OBVIOUS
<1>1. ReadConn /\ rcvd < wrote
  BY DEF NioReadData
<1>2. ~io.closed /\ io.error = "none"
  BY <1>1, ConnRunsHealthy DEF IInv, InUse, ReadConn
<1>3. /\ phase' = "on_recv" /\ pend' = pend \ {"conn"} /\ io' = io
      /\ custom' = custom /\ wrote' = wrote /\ fin' = fin /\ rst' = rst
      /\ sent' = sent /\ got' = got
  BY DEF NioReadData, Enter
<1>4. rbuf' \in Seq(Nat) /\ rcvd' \in Nat
  <2>1. PICK n : /\ n = Least(ReadBufSize, wrote - rcvd)
                 /\ rbuf' = [k \in 1..n |-> rcvd + k] /\ rcvd' = rcvd + n
    BY DEF NioReadData
  <2>2. n \in Nat
    BY <1>1, <2>1, EchoConnAssumption DEF IInv, TypeOK, Least
  <2>3. rcvd \in Nat
    BY DEF IInv, TypeOK
  <2>4. [k \in 1..n |-> rcvd + k] \in Seq(Nat)
    BY <2>2, <2>3
  <2> QED
    BY <2>1, <2>2, <2>3, <2>4
<1>5. TypeOK'
  BY <1>3, <1>4 DEF IInv, TypeOK
<1> QED
  BY <1>2, <1>3, <1>5 DEF IInv, WriteWatched, CloseHasCause,
     RefusedThenSilent, PostedIds, PutOffAfterFin, ErrorRunsFirst, InUse

LEMMA NioReadEndStep == IInv /\ NioReadEnd => IInv'
<1> SUFFICES ASSUME IInv, NioReadEnd PROVE IInv'
  OBVIOUS
<1>1. ReadConn
  BY DEF NioReadEnd
<1>2. io \in HioType /\ ~io.closed /\ io.error = "none"
  BY <1>1, ConnRunsHealthy DEF IInv, InUse, ReadConn, TypeOK
<1>3. /\ phase' = "write" /\ pend' = pend \ {"conn"}
      /\ custom' = custom /\ rbuf' = rbuf /\ wrote' = wrote /\ fin' = fin
      /\ rst' = rst /\ rcvd' = rcvd /\ sent' = sent /\ got' = got
  BY DEF NioReadEnd, Enter, sockVars
<1>4. CASE rst /\ io' = hio_close([io EXCEPT !.error = "ECONNRESET"])
  <2> DEFINE e == [io EXCEPT !.error = "ECONNRESET"]
  <2>1. /\ e \in HioType
        /\ e.error = "ECONNRESET" /\ e.id = io.id /\ e.closed = io.closed
    BY <1>2 DEF HioType, Errors
  <2>2. io' = hio_close(e)
    BY <1>4
  <2> HIDE DEF e
  <2>3. /\ io' \in HioType /\ io'.id = io.id /\ io'.closed
        /\ io'.write_queue = << >> /\ io'.events = {}
        /\ io'.error = "ECONNRESET"
    BY <1>2, <2>1, <2>2, hioCloseEffect
  <2>4. TypeOK'
    BY <1>3, <2>3 DEF IInv, TypeOK
  <2> QED
    BY <1>3, <2>3, <2>4 DEF IInv, WriteWatched, CloseHasCause,
       RefusedThenSilent, PostedIds, PutOffAfterFin, ErrorRunsFirst, InUse
<1>5. CASE fin /\ io' = hio_close(io)
  <2>1. /\ io' \in HioType /\ io'.id = io.id /\ io'.error = "none"
        /\ io'.closed => io'.write_queue = << >> /\ io'.events = {}
        /\ ~io'.closed => io'.write_queue = io.write_queue /\ io'.events = io.events
    BY <1>2, <1>5, hioCloseEffect
  <2>2. TypeOK'
    BY <1>3, <2>1 DEF IInv, TypeOK
  <2> QED
    BY <1>2, <1>3, <1>5, <2>1, <2>2 DEF IInv, WriteWatched, CloseHasCause,
       RefusedThenSilent, PostedIds, PutOffAfterFin, ErrorRunsFirst, InUse
<1> QED
  BY <1>4, <1>5 DEF NioReadEnd

\* send() takes no more than it is given.
LEMMA SendResultsBound ==
  ASSUME TypeOK, NEW len \in Nat, NEW n \in SendResults(len)
  PROVE  n \in Int /\ (n = -1 \/ (n \in Nat /\ n <= len))
  BY EchoConnAssumption DEF SendResults, SndSpace, Least, TypeOK

LEMMA OnRecvStep == IInv /\ OnRecv => IInv'
<1> SUFFICES ASSUME IInv, OnRecv PROVE IInv'
  OBVIOUS
<1>1. /\ io \in HioType /\ rbuf \in Seq(Nat) /\ sent \in Seq(Nat) /\ TypeOK
      /\ ~io.closed /\ io.id > 0 /\ io.error = "none"
  BY DEF IInv, TypeOK, OnRecv, InUse, RefusedThenSilent
<1>2. PICK n \in IF io.write_queue = << >> THEN SendResults(Len(rbuf)) ELSE {0} :
        /\ io' = hio_write(io, rbuf, n)
        /\ sent' = sent \o SubSeq(rbuf, 1, n)
        /\ custom' = IF WriteFails(io, rbuf, n) THEN custom \cup {io.id}
                     ELSE custom
  BY DEF OnRecv
<1>3. n \in Int /\ (n = -1 \/ (n \in Nat /\ n <= Len(rbuf)))
  <2>1. Len(rbuf) \in Nat
    BY <1>1
  <2> QED
    BY <1>1, <1>2, <2>1, SendResultsBound
<1>4. /\ io' \in HioType
      /\ io'.id = io.id /\ io'.closed = io.closed /\ io'.close = io.close
      /\ WriteFails(io, rbuf, n) => io'.error # "none"
      /\ ~WriteFails(io, rbuf, n) => io'.error = io.error
      /\ io'.write_queue # << >> => "WRITE" \in io'.events
  BY <1>1, <1>2, <1>3, hioWriteEffect DEF IInv, WriteWatched
<1>5. sent' \in Seq(Nat)
  <2>1. CASE n = -1
    <3>1. SubSeq(rbuf, 1, n) = << >>
      BY <2>1, SubSeqEmpty
    <3>2. sent \o << >> = sent
      BY <1>1
    <3> QED
      BY <1>1, <1>2, <3>1, <3>2
  <2>2. CASE n # -1
    <3>1. SubSeq(rbuf, 1, n) \in Seq(Nat)
      BY <1>1, <1>3, <2>2, RestType
    <3> QED
      BY <1>1, <1>2, <3>1
  <2> QED
    BY <2>1, <2>2
<1>6. /\ phase = "on_recv" /\ phase' = "write" /\ rbuf' = << >>
      /\ pend' = pend /\ wrote' = wrote
      /\ fin' = fin /\ rst' = rst /\ rcvd' = rcvd /\ got' = got
  BY DEF OnRecv
<1>7. custom' \subseteq 1..MaxConns
  <2>1. io.id \in 1..MaxConns
    BY <1>1 DEF HioType
  <2>2. custom \subseteq 1..MaxConns
    BY DEF IInv, TypeOK
  <2> QED
    BY <1>2, <2>1, <2>2
<1>8. TypeOK'
  <2>1. << >> \in Seq(Nat)
    OBVIOUS
  <2> QED
    BY <1>4, <1>5, <1>6, <1>7, <2>1 DEF IInv, TypeOK
<1>9. /\ \A id \in custom' : id <= io.id
      /\ io.id \in custom' => io'.error # "none"
      /\ io'.error # "none" => io.id \in custom'
  <2>1. io.id \in Int
    BY <1>1 DEF HioType
  <2> QED
    BY <1>1, <1>2, <1>4, <2>1 DEF IInv, PostedIds
<1> QED
  BY <1>1, <1>4, <1>6, <1>8, <1>9 DEF IInv, WriteWatched, CloseHasCause,
     RefusedThenSilent, PostedIds, PutOffAfterFin, ErrorRunsFirst, InUse

\* The end of hio_handle_events clears revents and nothing else.
LEMMA ClearRevents ==
  ASSUME NEW i \in HioType
  PROVE  LET r == [i EXCEPT !.revents = {}] IN
         /\ r \in HioType
         /\ r.id = i.id /\ r.closed = i.closed /\ r.close = i.close
         /\ r.error = i.error /\ r.events = i.events
         /\ r.write_queue = i.write_queue
<1>1. {} \in SUBSET Events
  OBVIOUS
<1> QED
  BY <1>1 DEF HioType

LEMMA HandleWriteStep == IInv /\ HandleWrite => IInv'
<1> SUFFICES ASSUME IInv, HandleWrite PROVE IInv'
  OBVIOUS
<1>1. io \in HioType
  BY DEF IInv, TypeOK
<1>2. /\ phase = "write" /\ pend' = pend /\ rbuf' = rbuf /\ custom' = custom
      /\ wrote' = wrote /\ fin' = fin /\ rst' = rst /\ rcvd' = rcvd
      /\ sent' = sent /\ got' = got
  BY DEF HandleWrite, sockVars
<1>3. /\ io' \in HioType
      /\ io'.id = io.id /\ io'.closed = io.closed /\ io'.close = io.close
      /\ io'.error = io.error
      /\ io'.write_queue # << >> => "WRITE" \in io'.events
      /\ io.closed => io'.events = {}
      /\ phase' \in {"loop", "nio_write"}
      /\ phase' = "nio_write" => ~io.closed
  <2>1. CASE "WRITE" \notin io.events \cap io.revents
    <3>1. io' = [io EXCEPT !.revents = {}] /\ phase' = "loop"
      BY <2>1 DEF HandleWrite
    <3> QED
      BY <1>1, <3>1, ClearRevents DEF IInv, WriteWatched, InUse
  <2>2. CASE "WRITE" \in io.events \cap io.revents
    <3>1. io' = HandleWriteDel(io) /\ phase' = "nio_write" /\ ~io.closed
      BY <2>2 DEF HandleWrite, IInv, InUse
    <3>2. CASE io.write_queue = << >>
      <4>1. io.events \ {"WRITE"} \in SUBSET Events
        BY <1>1 DEF HioType
      <4>2. io' = [io EXCEPT !.events = io.events \ {"WRITE"}]
        BY <1>1, <3>1, <3>2 DEF HandleWriteDel, hio_del, HioType
      <4>3. /\ io' \in HioType
            /\ io'.id = io.id /\ io'.closed = io.closed /\ io'.close = io.close
            /\ io'.error = io.error /\ io'.write_queue = << >>
        BY <1>1, <3>2, <4>1, <4>2 DEF HioType
      <4> QED
        BY <3>1, <4>3
    <3>3. CASE io.write_queue # << >>
      <4>1. io' = io
        BY <3>1, <3>3 DEF HandleWriteDel
      <4> QED
        BY <1>1, <3>1, <4>1 DEF IInv, WriteWatched
    <3> QED
      BY <3>2, <3>3
  <2> QED
    BY <2>1, <2>2
<1>4. TypeOK'
  BY <1>2, <1>3 DEF IInv, TypeOK
<1> QED
  BY <1>2, <1>3, <1>4 DEF IInv, WriteWatched, CloseHasCause,
     RefusedThenSilent, PostedIds, PutOffAfterFin, ErrorRunsFirst, InUse

LEMMA NioWriteEmptyStep == IInv /\ NioWriteEmpty => IInv'
<1> SUFFICES ASSUME IInv, NioWriteEmpty PROVE IInv'
  OBVIOUS
<1> DEFINE c == [io EXCEPT !.close = FALSE]
<1>1. io \in HioType /\ ~io.closed /\ io.write_queue = << >>
  BY DEF IInv, TypeOK, NioWriteEmpty, InUse
<1>2. /\ phase = "nio_write" /\ phase' = "loop" /\ pend' = pend
      /\ rbuf' = rbuf /\ custom' = custom
      /\ wrote' = wrote /\ fin' = fin /\ rst' = rst /\ rcvd' = rcvd
      /\ sent' = sent /\ got' = got
  BY DEF NioWriteEmpty, Leave, sockVars
<1>3. CASE io.close
  <2>1. /\ c \in HioType /\ c.id = io.id /\ ~c.closed /\ c.error = io.error
        /\ c.write_queue = << >>
    BY <1>1 DEF HioType
  <2>2. io' = [hio_close(c) EXCEPT !.revents = {}]
    BY <1>3 DEF NioWriteEmpty, Leave
  <2> HIDE DEF c
  <2>3. /\ hio_close(c) \in HioType /\ hio_close(c).id = io.id
        /\ hio_close(c).closed /\ hio_close(c).error = io.error
        /\ hio_close(c).write_queue = << >> /\ hio_close(c).events = {}
    BY <2>1, hioCloseEffect
  <2>4. /\ io' \in HioType /\ io'.id = io.id /\ io'.closed
        /\ io'.error = io.error
        /\ io'.write_queue = << >> /\ io'.events = {}
    BY <2>2, <2>3, ClearRevents
  <2>5. TypeOK'
    BY <1>2, <2>4 DEF IInv, TypeOK
  <2>6. fin
    BY <1>1, <1>3 DEF IInv, PutOffAfterFin
  <2> QED
    BY <1>2, <2>4, <2>5, <2>6 DEF IInv, WriteWatched, CloseHasCause,
       RefusedThenSilent, PostedIds, PutOffAfterFin, ErrorRunsFirst, InUse
<1>4. CASE ~io.close
  <2>1. io' = [io EXCEPT !.revents = {}]
    BY <1>4 DEF NioWriteEmpty, Leave
  <2>2. /\ io' \in HioType
        /\ io'.id = io.id /\ io'.closed = io.closed /\ io'.close = io.close
        /\ io'.error = io.error /\ io'.events = io.events
        /\ io'.write_queue = io.write_queue
    BY <1>1, <2>1, ClearRevents
  <2>3. TypeOK'
    BY <1>2, <2>2 DEF IInv, TypeOK
  <2> QED
    BY <1>2, <2>2, <2>3 DEF IInv, WriteWatched, CloseHasCause,
       RefusedThenSilent, PostedIds, PutOffAfterFin, ErrorRunsFirst, InUse
<1> QED
  BY <1>3, <1>4

LEMMA NioWriteSendStep == IInv /\ NioWriteSend => IInv'
<1> SUFFICES ASSUME IInv, NioWriteSend PROVE IInv'
  OBVIOUS
<1> DEFINE buf == Head(io.write_queue)
<1>1. /\ io \in HioType /\ ~io.closed /\ io.write_queue # << >>
      /\ sent \in Seq(Nat) /\ TypeOK /\ "WRITE" \in io.events
  BY DEF IInv, TypeOK, NioWriteSend, InUse, WriteWatched
<1>2. /\ phase = "nio_write" /\ pend' = pend /\ rbuf' = rbuf
      /\ custom' = custom /\ wrote' = wrote /\ fin' = fin /\ rst' = rst
      /\ rcvd' = rcvd /\ got' = got
  BY DEF NioWriteSend
<1>3. buf \in Seq(Nat)
  BY <1>1 DEF HioType
<1>4. PICK n \in SendResults(Len(buf)) :
          \/ /\ n = -1
             /\ Leave(hio_close([io EXCEPT !.error = "ECONNRESET"]))
             /\ UNCHANGED sent
          \/ /\ n = 0
             /\ Leave(io)
             /\ UNCHANGED sent
          \/ /\ n > 0
             /\ sent' = sent \o SubSeq(buf, 1, n)
             /\ IF n = Len(buf)
                THEN io' = PopFront(io, n) /\ UNCHANGED phase
                ELSE Leave(PopFront(io, n))
  BY DEF NioWriteSend
<1>5. CASE n = -1
  <2> DEFINE e == [io EXCEPT !.error = "ECONNRESET"]
  <2>1. /\ e \in HioType /\ e.id = io.id /\ ~e.closed
        /\ e.error = "ECONNRESET"
    BY <1>1 DEF HioType, Errors
  <2>2. io' = [hio_close(e) EXCEPT !.revents = {}] /\ phase' = "loop" /\ sent' = sent
    BY <1>4, <1>5 DEF Leave
  <2> HIDE DEF e
  <2>3. /\ hio_close(e) \in HioType /\ hio_close(e).id = io.id
        /\ hio_close(e).closed /\ hio_close(e).error = "ECONNRESET"
        /\ hio_close(e).write_queue = << >> /\ hio_close(e).events = {}
    BY <2>1, hioCloseEffect
  <2>4. /\ io' \in HioType /\ io'.id = io.id /\ io'.closed
        /\ io'.error = "ECONNRESET"
        /\ io'.write_queue = << >> /\ io'.events = {}
    BY <2>2, <2>3, ClearRevents
  <2>5. TypeOK'
    BY <1>2, <2>2, <2>4 DEF IInv, TypeOK
  <2> QED
    BY <1>2, <2>2, <2>4, <2>5 DEF IInv, WriteWatched, CloseHasCause,
       RefusedThenSilent, PostedIds, PutOffAfterFin, ErrorRunsFirst, InUse
<1>6. CASE n # -1
  <2>1. n \in Nat /\ n <= Len(buf)
    <3>1. Len(buf) \in Nat
      BY <1>3
    <3> QED
      BY <1>1, <1>6, <3>1, SendResultsBound
  <2>2. /\ io' \in HioType /\ sent' \in Seq(Nat)
        /\ io'.id = io.id /\ io'.closed = io.closed /\ io'.close = io.close
        /\ io'.error = io.error /\ io'.events = io.events
        /\ phase' \in {"loop", "nio_write"}
    <3>1. CASE n = 0
      <4>1. io' = [io EXCEPT !.revents = {}] /\ phase' = "loop" /\ sent' = sent
        BY <1>4, <3>1 DEF Leave
      <4> QED
        BY <1>1, <4>1, ClearRevents
    <3>2. CASE n > 0
      <4>1. SubSeq(buf, 1, n) \in Seq(Nat)
        BY <1>3, <2>1, RestType
      <4>2. sent' = sent \o SubSeq(buf, 1, n)
        <5>1. n # 0 /\ n # -1
          BY <3>2
        <5> QED
          BY <1>4, <5>1
      <4>3. sent' \in Seq(Nat)
        BY <1>1, <4>1, <4>2
      <4>4. PICK p : p = PopFront(io, n)
        OBVIOUS
      <4>5. /\ p \in HioType
            /\ p.id = io.id /\ p.closed = io.closed /\ p.close = io.close
            /\ p.error = io.error /\ p.events = io.events
        BY <1>1, <2>1, <4>4, PopFrontEffect
      <4>6. \/ io' = p /\ phase' = "nio_write"
            \/ io' = [p EXCEPT !.revents = {}] /\ phase' = "loop"
        BY <1>2, <1>4, <3>2, <4>4 DEF Leave
      <4>7. CASE io' = p /\ phase' = "nio_write"
        BY <4>3, <4>5, <4>7
      <4>8. CASE io' = [p EXCEPT !.revents = {}] /\ phase' = "loop"
        <5>1. /\ io' \in HioType
              /\ io'.id = p.id /\ io'.closed = p.closed /\ io'.close = p.close
              /\ io'.error = p.error /\ io'.events = p.events
          BY <4>5, <4>8, ClearRevents
        <5> QED
          BY <4>3, <4>5, <4>8, <5>1
      <4> QED
        BY <4>6, <4>7, <4>8
    <3> QED
      BY <2>1, <3>1, <3>2
  <2>3. TypeOK'
    BY <1>2, <2>2 DEF IInv, TypeOK
  <2> QED
    BY <1>1, <1>2, <2>2, <2>3 DEF IInv, WriteWatched, CloseHasCause,
       RefusedThenSilent, PostedIds, PutOffAfterFin, ErrorRunsFirst, InUse
<1> QED
  BY <1>5, <1>6

\* IInv is an invariant of the specification.
THEOREM IInvInvariant == Spec => []IInv
<1>1. IInv /\ [Next]_vars => IInv'
  <2> SUFFICES ASSUME IInv, [Next]_vars PROVE IInv'
    OBVIOUS
  <2>1. CASE LoopNext
    BY <2>1, PollStep, CloseTimeoutStep, EventfdReadStep, AcceptStep,
       SkipOrWriteStep, NioReadDataStep, NioReadEndStep, OnRecvStep,
       HandleWriteStep, NioWriteEmptyStep, NioWriteSendStep DEF LoopNext
  <2>2. CASE ClientNext
    BY <2>2, ClientStep
  <2>3. CASE UNCHANGED vars
    BY <2>3 DEF vars, IInv, TypeOK, WriteWatched, CloseHasCause,
       RefusedThenSilent, PostedIds, PutOffAfterFin, ErrorRunsFirst, InUse
  <2> QED
    BY <2>1, <2>2, <2>3 DEF Next
<1> QED
  BY InitIInv, <1>1, PTL DEF Spec

\* The type invariant, for every number of bytes and connections and every
\* size of the buffers.
THEOREM TypeCorrect == Spec => []TypeOK
<1>1. IInv => TypeOK
  BY DEF IInv
<1> QED
  BY <1>1, IInvInvariant, PTL

\* hio_write, hio_handle_events and hio_done together never leave bytes in
\* write_queue without HV_WRITE registered.
THEOREM QueueIsWatched == Spec => []WriteWatched
<1>1. IInv => WriteWatched
  BY DEF IInv
<1> QED
  BY <1>1, IInvInvariant, PTL

\* hio_close_event_cb's comparison of ids keeps a late close event from the
\* connection that reuses the hio_t: no connection is closed without a cause
\* of its own.
THEOREM NoStrayClose == Spec => []CloseHasCause
<1>1. IInv => CloseHasCause
  BY DEF IInv
<1> QED
  BY <1>1, IInvInvariant, PTL

\* The priority of the eventfd over connections keeps on_recv from running
\* between a refused hio_write and the close it posted.
THEOREM SilentAfterRefusal == Spec => []RefusedThenSilent
<1>1. IInv => RefusedThenSilent
  BY DEF IInv
<1> QED
  BY <1>1, IInvInvariant, PTL


-----------------------------------------------------------------------------
(* Every byte is echoed once and in order.                                 *)



\* readbuf holds bytes only between recv() and the read callback, and a
\* closed hio_t has none to send.
Echo ==
    /\ EchoComplete
    /\ phase # "on_recv" => rbuf = << >>
    /\ io.closed => io.write_queue = << >>

\* A sequence is a prefix of the bytes received, which are 1, 2, 3, ...,
\* when it counts up and is not longer.
CountsUp(x) == \A k \in 1..Len(x) : x[k] = k

Numbers(n) == [k \in 1..n |-> k]

LEMMA PrefixOfNumbers ==
  ASSUME NEW x \in Seq(Nat), NEW n \in Nat
  PROVE  /\ IsPrefix(x, Numbers(n)) <=> Len(x) <= n /\ CountsUp(x)
         /\ x = Numbers(n) <=> Len(x) = n /\ CountsUp(x)
<1>1. /\ Numbers(n) \in Seq(Nat) /\ Len(Numbers(n)) = n
      /\ \A k \in 1..n : Numbers(n)[k] = k
  BY DEF Numbers
<1>2. SubSeq(x, 1, Len(x)) = x
  BY SubSeqFull
<1>3. ASSUME Len(x) <= n
      PROVE  (x = SubSeq(Numbers(n), 1, Len(x))) <=> CountsUp(x)
  <2> DEFINE r == SubSeq(Numbers(n), 1, Len(x))
  <2>1. /\ r \in Seq(Nat) /\ Len(r) = Len(x)
        /\ \A k \in 1..Len(x) : r[k] = k
    BY <1>1, <1>3
  <2> HIDE DEF r
  <2>2. (x = r) <=> \A k \in 1..Len(x) : x[k] = r[k]
    BY <2>1
  <2> QED
    BY <2>1, <2>2 DEF r, CountsUp
<1>4. IsPrefix(x, Numbers(n)) <=> Len(x) <= n /\ CountsUp(x)
  BY <1>1, <1>2, <1>3 DEF IsPrefix
<1>5. x = Numbers(n) <=> Len(x) = n /\ CountsUp(x)
  BY <1>1 DEF CountsUp
<1> QED
  BY <1>4, <1>5

\* What is a prefix of a prefix is one.
LEMMA ShorterPrefix ==
  ASSUME NEW x \in Seq(Nat), NEW y \in Seq(Nat), rcvd \in Nat,
         IsPrefix(x \o y, Received)
  PROVE  IsPrefix(x, Received)
<1>1. /\ x \o y \in Seq(Nat) /\ Len(x \o y) = Len(x) + Len(y)
      /\ \A k \in 1..Len(x) : (x \o y)[k] = x[k]
  OBVIOUS
<1>2. Len(x \o y) <= rcvd /\ CountsUp(x \o y)
  BY <1>1, PrefixOfNumbers DEF Received, Numbers
<1>3. Len(x) <= rcvd /\ CountsUp(x)
  BY <1>1, <1>2 DEF CountsUp
<1> QED
  BY <1>3, PrefixOfNumbers DEF Received, Numbers

LEMMA QueuedType ==
  ASSUME NEW i \in HioType
  PROVE  /\ Queued(i) \in Seq(Nat)
         /\ i.write_queue = << >> => Queued(i) = << >>
<1>1. i.write_queue \in Seq(Seq(Nat))
  BY DEF HioType
<1> QED
  BY <1>1, FlattenType, FlattenEmpty DEF Queued

\* A step that leaves the bytes alone keeps Echo; so does one that closes.
LEMMA EchoKept ==
  ASSUME IInv, IInv', Echo,
         sent' = sent, rcvd' = rcvd, rbuf' = rbuf,
         phase' = phase \/ phase' # "on_recv",
         phase' # "on_recv" => rbuf = << >>,
         \/ /\ io'.write_queue = io.write_queue /\ io'.closed = io.closed
            /\ ~io.closed /\ io'.error = "none" => io.error = "none"
         \/ io'.closed /\ io'.write_queue = << >>
  PROVE  Echo'
<1>1. io \in HioType /\ io' \in HioType /\ sent \in Seq(Nat) /\ rcvd \in Nat
  BY DEF IInv, TypeOK
<1>2. Received' = Received
  BY DEF Received
<1>3. CASE /\ io'.write_queue = io.write_queue /\ io'.closed = io.closed
           /\ ~io.closed /\ io'.error = "none" => io.error = "none"
  <2>1. Queued(io)' = Queued(io)
    BY <1>3 DEF Queued
  <2> QED
    BY <1>2, <1>3, <2>1 DEF Echo, EchoComplete
<1>4. CASE io'.closed /\ io'.write_queue = << >>
  <2>1. Queued(io') = << >> /\ Queued(io) \in Seq(Nat)
    BY <1>1, <1>4, QueuedType
  <2>2. sent \o << >> = sent
    BY <1>1
  <2>3. IsPrefix(sent, Received)
    BY <1>1, <2>1, ShorterPrefix DEF Echo, EchoComplete
  <2>4. IsPrefix(sent' \o Queued(io'), Received')
    BY <1>2, <2>1, <2>2, <2>3
  <2> QED
    BY <1>4, <2>4 DEF Echo, EchoComplete
<1> QED
  BY <1>3, <1>4


\* hio_close leaves the queue alone, or empties it and closes.
LEMMA hioCloseQueue ==
  ASSUME NEW i \in HioType
  PROVE  \/ /\ hio_close(i).write_queue = i.write_queue
            /\ hio_close(i).closed = i.closed /\ hio_close(i).error = i.error
         \/ hio_close(i).closed /\ hio_close(i).write_queue = << >>
<1>1. CASE i.closed
  BY <1>1, hioCloseEffect
<1>2. CASE ~i.closed /\ hio_close(i).closed
  BY <1>2, hioCloseEffect
<1>3. CASE ~i.closed /\ ~hio_close(i).closed
  <2>1. hio_close(i).closed \in BOOLEAN /\ i.closed \in BOOLEAN
    BY hioCloseEffect DEF HioType
  <2> QED
    BY <1>3, <2>1, hioCloseEffect
<1> QED
  BY <1>1, <1>2, <1>3

\* The steps of the client and of the loop that touch no byte on its way.
LEMMA QuietEcho ==
  ASSUME IInv, IInv', Echo,
         ClientNext \/ Poll \/ SkipConn \/ WriteOnly
  PROVE  Echo'
<1>1. io \in HioType
  BY DEF IInv, TypeOK
<1>2. /\ sent' = sent /\ rcvd' = rcvd /\ rbuf' = rbuf
      /\ phase' = phase \/ (phase = "loop" /\ phase' # "on_recv")
  BY DEF ClientNext, ClientSend, ClientFin, ClientReset, ClientRead, Poll,
     SkipConn, WriteOnly, Enter, Runnable, sockVars
<1>3. /\ io'.write_queue = io.write_queue /\ io'.closed = io.closed
      /\ io'.error = io.error
  BY <1>1 DEF HioType, ClientNext, ClientSend, ClientFin, ClientReset,
     ClientRead, Poll, SkipConn, WriteOnly
<1>4. phase' # "on_recv" => rbuf = << >>
  BY <1>2 DEF Echo
<1> QED
  BY <1>2, <1>3, <1>4, EchoKept

\* The steps of the loop that may close the connection.
LEMMA CloseEcho ==
  ASSUME IInv, IInv', Echo, CloseTimeout \/ EventfdRead \/ NioReadEnd
  PROVE  Echo'
<1> DEFINE t == [io EXCEPT !.error = "ETIMEDOUT"]
           r == [io EXCEPT !.error = "ECONNRESET"]
<1>1. io \in HioType
  BY DEF IInv, TypeOK
<1>2. /\ t \in HioType /\ t.closed = io.closed /\ t.write_queue = io.write_queue
      /\ t.error # "none"
      /\ r \in HioType /\ r.closed = io.closed /\ r.write_queue = io.write_queue
      /\ r.error # "none"
  BY <1>1 DEF HioType, Errors
<1>3. /\ sent' = sent /\ rcvd' = rcvd /\ rbuf' = rbuf
      /\ phase = "loop" /\ phase' \in {"loop", "write"}
  BY DEF CloseTimeout, EventfdRead, NioReadEnd, ReadConn, Enter, Runnable, sockVars
<1>4. rbuf = << >>
  BY <1>3 DEF Echo
<1>5. \/ io' = io \/ io' = hio_close(io) \/ io' = hio_close(t) \/ io' = hio_close(r)
  BY DEF CloseTimeout, EventfdRead, NioReadEnd, hio_close_event_cb
<1> HIDE DEF t, r
<1>6. \/ /\ io'.write_queue = io.write_queue /\ io'.closed = io.closed
         /\ io'.error = "none" => io.error = "none"
      \/ io'.closed /\ io'.write_queue = << >>
  <2>1. CASE io' = io
    BY <2>1
  <2>2. CASE io' = hio_close(io)
    BY <1>1, <2>2, hioCloseQueue
  <2>3. CASE io' = hio_close(t)
    BY <1>2, <2>3, hioCloseQueue
  <2>4. CASE io' = hio_close(r)
    BY <1>2, <2>4, hioCloseQueue
  <2> QED
    BY <1>5, <2>1, <2>2, <2>3, <2>4
<1> QED
  BY <1>3, <1>4, <1>6, EchoKept

\* A new connection has received and sent nothing.
LEMMA AcceptEcho ==
  ASSUME IInv, IInv', Echo, Accept
  PROVE  Echo'
<1>1. phase = "loop" /\ phase' = "loop" /\ rbuf' = rbuf /\ rbuf = << >>
  BY DEF Accept, Runnable, Echo
<1>2. CASE UNCHANGED io /\ UNCHANGED sockVars
  BY <1>1, <1>2, EchoKept DEF sockVars
<1>3. CASE /\ io' = on_accept(hio_ready(io.id + 1))
           /\ rcvd' = 0 /\ sent' = << >>
  <2>1. io'.write_queue = << >>
    BY <1>3 DEF on_accept, hio_add, hio_ready
  <2>2. io' \in HioType
    BY DEF IInv, TypeOK
  <2>3. Queued(io') = << >>
    BY <2>1, <2>2, QueuedType
  <2>4. << >> \o << >> = << >> /\ << >> \in Seq(Nat) /\ Len(<< >>) = 0
    OBVIOUS
  <2>5. Received' = << >>
    BY <1>3 DEF Received
  <2>6. IsPrefix(<< >>, << >>)
    BY <2>4 DEF IsPrefix
  <2>7. sent' \o Queued(io') = << >>
    BY <1>3, <2>3, <2>4
  <2> QED
    BY <1>1, <2>1, <2>4, <2>5, <2>6, <2>7 DEF Echo, EchoComplete
<1> QED
  BY <1>2, <1>3 DEF Accept

\* The end of hio_handle_events, without a byte to send.
LEMMA LeaveEcho ==
  ASSUME IInv, IInv', Echo, HandleWrite \/ NioWriteEmpty
  PROVE  Echo'
<1> DEFINE c == [io EXCEPT !.close = FALSE]
           d == [io EXCEPT !.events = @ \ {"WRITE"}]
<1>1. io \in HioType
  BY DEF IInv, TypeOK
<1>2. /\ sent' = sent /\ rcvd' = rcvd /\ rbuf' = rbuf
      /\ phase # "on_recv" /\ phase' # "on_recv"
  BY DEF HandleWrite, NioWriteEmpty, Leave, sockVars
<1>3. rbuf = << >>
  BY <1>2 DEF Echo
<1>4. \/ /\ io'.write_queue = io.write_queue /\ io'.closed = io.closed
         /\ io'.error = "none" => io.error = "none"
      \/ io'.closed /\ io'.write_queue = << >>
  <2>1. CASE HandleWrite
    <3>1. io' \in {io, d, [io EXCEPT !.revents = {}]}
      BY <2>1 DEF HandleWrite, HandleWriteDel, hio_del
    <3>2. /\ d.write_queue = io.write_queue /\ d.closed = io.closed
          /\ d.error = io.error
      BY <1>1 DEF HioType
    <3> HIDE DEF d
    <3> QED
      BY <1>1, <3>1, <3>2, ClearRevents
  <2>2. CASE NioWriteEmpty
    <3>1. \/ io' = [hio_close(c) EXCEPT !.revents = {}]
          \/ io' = [io EXCEPT !.revents = {}]
      BY <2>2 DEF NioWriteEmpty, Leave
    <3>2. /\ c \in HioType /\ c.write_queue = io.write_queue
          /\ c.closed = io.closed /\ c.error = io.error
      BY <1>1 DEF HioType
    <3> HIDE DEF c
    <3>3. hio_close(c) \in HioType
      BY <3>2, hioCloseEffect
    <3>4. CASE io' = [hio_close(c) EXCEPT !.revents = {}]
      <4>1. /\ io'.write_queue = hio_close(c).write_queue
            /\ io'.closed = hio_close(c).closed /\ io'.error = hio_close(c).error
        BY <3>3, <3>4, ClearRevents
      <4> QED
        BY <3>2, <4>1, hioCloseQueue
    <3>5. CASE io' = [io EXCEPT !.revents = {}]
      BY <1>1, <3>5, ClearRevents
    <3> QED
      BY <3>1, <3>4, <3>5
  <2> QED
    BY <2>1, <2>2
<1> QED
  BY <1>2, <1>3, <1>4, EchoKept


\* recv() hands over the next bytes of the stream.
LEMMA NioReadDataEcho ==
  ASSUME IInv, IInv', Echo, NioReadData
  PROVE  Echo'
<1> DEFINE x == sent \o Queued(io)
<1>1. /\ io \in HioType /\ sent \in Seq(Nat) /\ rcvd \in Nat /\ wrote \in Nat
      /\ rcvd' \in Nat /\ rbuf' \in Seq(Nat)
  BY DEF IInv, TypeOK
<1>2. ~io.closed /\ io.error = "none" /\ rbuf = << >>
  <2>1. ReadConn /\ phase = "loop"
    BY DEF NioReadData, ReadConn, Runnable
  <2> QED
    BY <2>1, ConnRunsHealthy DEF IInv, InUse, ReadConn, Echo
<1>3. x \in Seq(Nat)
  BY <1>1, QueuedType
<1>4. x = Received
  <2>1. x \o << >> = x
    BY <1>3
  <2> QED
    BY <1>2, <2>1 DEF Echo, EchoComplete
<1>5. Len(x) = rcvd /\ CountsUp(x)
  BY <1>1, <1>3, <1>4, PrefixOfNumbers DEF Received, Numbers
<1>6. PICK n \in Nat : rbuf' = [k \in 1..n |-> rcvd + k] /\ rcvd' = rcvd + n
  <2>1. Least(ReadBufSize, wrote - rcvd) \in Nat
    BY <1>1, EchoConnAssumption DEF NioReadData, Least
  <2> QED
    BY <2>1 DEF NioReadData
<1>7. /\ io' = io /\ sent' = sent /\ phase' = "on_recv"
  BY DEF NioReadData, Enter
<1>8. sent' \o Queued(io') = x
  BY <1>7
<1> HIDE DEF x
<1>9. x \o rbuf' \in Seq(Nat) /\ Len(x \o rbuf') = rcvd' /\ CountsUp(x \o rbuf')
  <2>1. Len(rbuf') = n /\ \A k \in 1..n : rbuf'[k] = rcvd + k
    BY <1>1, <1>6
  <2>2. \A k \in 1..(rcvd + n) :
           (x \o rbuf')[k] = IF k <= rcvd THEN x[k] ELSE rbuf'[k - rcvd]
    BY <1>1, <1>3, <1>5, <1>6, <2>1
  <2>3. Len(x \o rbuf') = rcvd + n
    <3>1. Len(x \o rbuf') = Len(x) + Len(rbuf')
      BY <1>1, <1>3, ConcatProperties
    <3> QED
      BY <1>5, <2>1, <3>1
  <2>4. ASSUME NEW k \in 1..(rcvd + n) PROVE (x \o rbuf')[k] = k
    <3>1. CASE k <= rcvd
      BY <1>1, <1>5, <2>2, <3>1 DEF CountsUp
    <3>2. CASE ~(k <= rcvd)
      <4>1. k - rcvd \in 1..n /\ rcvd + (k - rcvd) = k
        BY <1>1, <3>2
      <4>2. rbuf'[k - rcvd] = k
        BY <2>1, <4>1
      <4> QED
        BY <1>1, <2>2, <3>2, <4>2
    <3> QED
      BY <3>1, <3>2
  <2> QED
    BY <1>1, <1>3, <1>6, <2>3, <2>4 DEF CountsUp
<1>10. x \o rbuf' = Received'
  BY <1>1, <1>9, PrefixOfNumbers DEF Received, Numbers
<1>11. IsPrefix(x, Received')
  <2>1. Len(x) <= rcvd'
    BY <1>1, <1>5, <1>6
  <2> QED
    BY <1>1, <1>3, <1>5, <2>1, PrefixOfNumbers DEF Received, Numbers
<1> QED
  BY <1>2, <1>7, <1>8, <1>10, <1>11 DEF Echo, EchoComplete

LEMMA BytesAssociative ==
  ASSUME NEW a \in Seq(Nat), NEW b \in Seq(Nat), NEW c \in Seq(Nat)
  PROVE  (a \o b) \o c = a \o (b \o c)
  BY SMTT(30), ConcatAssociative

\* Parts of a sequence put together again.
LEMMA SplitSeq ==
  ASSUME NEW buf \in Seq(Nat), NEW n \in Nat, n <= Len(buf)
  PROVE  /\ SubSeq(buf, 1, n) \o SubSeq(buf, n + 1, Len(buf)) = buf
         /\ n = 0 => SubSeq(buf, 1, n) = << >> /\ SubSeq(buf, n + 1, Len(buf)) = buf
         /\ n = Len(buf) => SubSeq(buf, 1, n) = buf
<1>1. SubSeq(buf, 1, Len(buf)) = buf
  BY SubSeqFull
<1>2. SubSeq(buf, 1, n) \o SubSeq(buf, n + 1, Len(buf)) = SubSeq(buf, 1, Len(buf))
  <2>1. /\ 1 \in 1..Len(buf) + 1 /\ n \in 0..Len(buf) /\ n \in 1 - 1..Len(buf)
        /\ Len(buf) \in n..Len(buf)
    OBVIOUS
  <2> QED
    BY <2>1, ConcatAdjacentSubSeq
<1>3. n = 0 => SubSeq(buf, 1, n) = << >> /\ SubSeq(buf, n + 1, Len(buf)) = buf
  BY <1>1
<1> QED
  BY <1>1, <1>2, <1>3

\* What hio_write leaves in the queue: the old bytes and, unless the write
\* failed, the rest of the new ones.
LEMMA hioWriteQueue ==
  ASSUME NEW i \in HioType, NEW buf \in Seq(Nat), NEW n \in Nat, n <= Len(buf)
  PROVE  LET w == hio_write(i, buf, n) IN
         /\ w \in HioType
         /\ \/ WriteFails(i, buf, n) /\ Queued(w) = Queued(i)
            \/ Queued(w) = Queued(i) \o SubSeq(buf, n + 1, Len(buf))
<1> DEFINE w == hio_write(i, buf, n)
           rest == SubSeq(buf, n + 1, Len(buf))
<1>1. rest \in Seq(Nat) /\ (n < Len(buf)) = (rest # << >>) /\ n # -1
  BY RestType
<1>2. CASE rest = << >>
  <2>1. w = i
    BY <1>1, <1>2 DEF hio_write
  <2>2. Queued(i) \o << >> = Queued(i)
    BY QueuedType
  <2> QED
    BY <1>2, <2>1, <2>2
<1>3. CASE rest # << >>
  <2>1. PICK j : j = IF i.write_queue = << >> THEN hio_add(i, {"WRITE"}) ELSE i
    OBVIOUS
  <2>2. /\ j \in HioType /\ j.write_queue = i.write_queue
        /\ j.write_bufsize = i.write_bufsize
    BY <2>1, hioAddEffect
  <2>3. w = IF OverLimit(j, rest) THEN [j EXCEPT !.error = "ERR_OVER_LIMIT"]
            ELSE Enqueue(j, rest)
    BY <1>1, <1>3, <2>1 DEF hio_write
  <2>4. CASE OverLimit(j, rest)
    <3>1. w = [j EXCEPT !.error = "ERR_OVER_LIMIT"]
      BY <2>3, <2>4
    <3>2. w \in HioType /\ w.write_queue = i.write_queue
      BY <2>2, <3>1 DEF HioType, Errors
    <3>3. WriteFails(i, buf, n)
      BY <1>1, <1>3, <2>2, <2>4 DEF OverLimit, WriteFails
    <3> QED
      BY <3>2, <3>3 DEF Queued
  <2>5. CASE ~OverLimit(j, rest)
    <3>1. w = Enqueue(j, rest)
      BY <2>3, <2>5
    <3> HIDE DEF w, rest
    <3>2. w \in HioType
      BY <1>1, <2>2, <3>1, EnqueueEffect
    <3>3. w.write_queue = Append(i.write_queue, rest)
      BY <1>1, <2>2, <3>1 DEF Enqueue, HioType
    <3>4. i.write_queue \in Seq(Seq(Nat))
      BY DEF HioType
    <3>5. Queued(w) = Queued(i) \o rest
      BY <1>1, <3>3, <3>4, FlattenAppend DEF Queued
    <3> QED
      BY <3>2, <3>5 DEF w, rest
  <2> QED
    BY <2>4, <2>5
<1> QED
  BY <1>2, <1>3


\* on_recv hands the bytes to hio_write: send() takes the first ones only
\* when nothing is queued before them, and what a failing call drops is the
\* end of what was received.
LEMMA OnRecvEcho ==
  ASSUME IInv, IInv', Echo, OnRecv
  PROVE  Echo'
<1> DEFINE q == Queued(io)
<1>1. /\ io \in HioType /\ rbuf \in Seq(Nat) /\ sent \in Seq(Nat) /\ TypeOK
      /\ rcvd \in Nat /\ ~io.closed /\ io.error = "none" /\ q \in Seq(Nat)
      /\ io.write_queue = << >> => q = << >>
  BY QueuedType DEF IInv, TypeOK, OnRecv, InUse, RefusedThenSilent
<1>2. (sent \o q) \o rbuf = Received
  BY <1>1 DEF Echo, EchoComplete
<1>3. /\ phase' = "write" /\ rbuf' = << >> /\ rcvd' = rcvd
  BY DEF OnRecv
<1>4. PICK n \in IF io.write_queue = << >> THEN SendResults(Len(rbuf)) ELSE {0} :
        /\ io' = hio_write(io, rbuf, n)
        /\ sent' = sent \o SubSeq(rbuf, 1, n)
  BY DEF OnRecv
<1>5. n = -1 \/ (n \in Nat /\ n <= Len(rbuf))
  <2>1. Len(rbuf) \in Nat
    BY <1>1
  <2> QED
    BY <1>1, <1>4, <2>1, SendResultsBound
<1>6. io.write_queue # << >> => n = 0
  BY <1>4
<1>7. io'.closed = FALSE /\ (WriteFails(io, rbuf, n) => io'.error # "none")
  <2>1. n \in Int
    BY <1>5
  <2>2. io'.closed = io.closed /\ (WriteFails(io, rbuf, n) => io'.error # "none")
    BY <1>1, <1>4, <1>5, <2>1, hioWriteEffect DEF IInv, WriteWatched
  <2> QED
    BY <1>1, <2>2 DEF HioType
<1> HIDE DEF q
<1>8. \E y \in Seq(Nat) :
        /\ (sent' \o Queued(io')) \o y = Received
        /\ sent' \o Queued(io') \in Seq(Nat)
        /\ io'.error = "none" => y = << >>
  <2>1. CASE n = -1
    <3>1. SubSeq(rbuf, 1, n) = << >>
      BY <2>1, SubSeqEmpty
    <3>2. sent' = sent
      <4>1. sent \o << >> = sent
        BY <1>1
      <4> QED
        BY <1>4, <3>1, <4>1
    <3>3. io' = [io EXCEPT !.error = "ECONNRESET"]
      BY <1>4, <2>1 DEF hio_write
    <3>4. io'.error # "none" /\ io'.write_queue = io.write_queue
      BY <1>1, <3>3 DEF HioType
    <3>5. Queued(io') = q
      BY <3>4 DEF Queued, q
    <3>6. sent' \o Queued(io') = sent \o q /\ sent \o q \in Seq(Nat)
      BY <1>1, <3>2, <3>5
    <3> QED
      BY <1>1, <1>2, <3>4, <3>6
  <2>2. CASE n \in Nat /\ n <= Len(rbuf)
    <3> DEFINE a == SubSeq(rbuf, 1, n)
               b == SubSeq(rbuf, n + 1, Len(rbuf))
    <3>1. /\ a \in Seq(Nat) /\ b \in Seq(Nat) /\ a \o b = rbuf
          /\ n = 0 => a = << >> /\ b = rbuf
      BY <1>1, <2>2, RestType, SplitSeq
    <3>2. sent' = sent \o a
      BY <1>4
    <3>3. \/ io'.error # "none" /\ Queued(io') = q
          \/ Queued(io') = q \o b
      BY <1>1, <1>4, <1>7, <2>2, hioWriteQueue DEF q
    <3> HIDE DEF a, b
    <3>4. (sent \o a) \o (q \o b) = Received
      <4>1. CASE io.write_queue = << >>
        <5>1. q = << >> /\ q \o b = b /\ sent \o q = sent
          BY <1>1, <3>1, <4>1
        <5>2. (sent \o a) \o b = sent \o (a \o b)
          BY <1>1, <3>1, BytesAssociative
        <5> QED
          BY <1>2, <3>1, <5>1, <5>2
      <4>2. CASE io.write_queue # << >>
        <5>1. sent \o a = sent /\ q \o b = q \o rbuf
          BY <1>1, <1>6, <3>1, <4>2
        <5>2. sent \o (q \o rbuf) = (sent \o q) \o rbuf
          BY <1>1, BytesAssociative
        <5> QED
          BY <1>2, <5>1, <5>2
      <4> QED
        BY <4>1, <4>2
    <3>5. (sent \o a) \o (q \o b) = ((sent \o a) \o q) \o b
      <4>1. sent \o a \in Seq(Nat)
        BY <1>1, <3>1
      <4> QED
        BY <1>1, <3>1, <4>1, BytesAssociative
    <3>6. (sent \o a) \o q \in Seq(Nat) /\ (sent \o a) \o (q \o b) \in Seq(Nat)
      BY <1>1, <3>1
    <3>7. CASE io'.error # "none" /\ Queued(io') = q
      BY <3>1, <3>2, <3>4, <3>5, <3>6, <3>7
    <3>8. CASE Queued(io') = q \o b
      <4>1. sent' \o Queued(io') = Received /\ Received \in Seq(Nat)
        BY <3>2, <3>4, <3>6, <3>8
      <4>2. Received \o << >> = Received /\ << >> \in Seq(Nat)
        BY <4>1
      <4> QED
        BY <4>1, <4>2
    <3> QED
      BY <3>3, <3>7, <3>8
  <2> QED
    BY <1>5, <2>1, <2>2
<1>9. PICK y \in Seq(Nat) :
        /\ (sent' \o Queued(io')) \o y = Received
        /\ sent' \o Queued(io') \in Seq(Nat)
        /\ io'.error = "none" => y = << >>
  BY <1>8
<1>10. IsPrefix(sent' \o Queued(io'), Received)
  <2>1. Received \in Seq(Nat) /\ Len(Received) = rcvd
    BY <1>1 DEF Received
  <2>2. IsPrefix(Received, Received)
    BY <2>1 DEF IsPrefix
  <2> QED
    BY <1>1, <1>9, <2>2, ShorterPrefix
<1>11. Received' = Received
  BY <1>3 DEF Received
<1>12. /\ IsPrefix(sent' \o Queued(io'), Received')
       /\ io'.error = "none" => (sent' \o Queued(io')) \o rbuf' = Received'
  BY <1>3, <1>9, <1>10, <1>11
<1> QED
  BY <1>3, <1>7, <1>12 DEF Echo, EchoComplete

\* The bytes nio_write sends are the ones that leave the queue.
LEMMA PopFrontQueue ==
  ASSUME NEW i \in HioType, i.write_queue # << >>,
         NEW n \in Nat, n <= Len(Head(i.write_queue))
  PROVE  Queued(i) = SubSeq(Head(i.write_queue), 1, n) \o Queued(PopFront(i, n))
<1> DEFINE buf == Head(i.write_queue)
           tl  == Tail(i.write_queue)
           a   == SubSeq(buf, 1, n)
           b   == SubSeq(buf, n + 1, Len(buf))
           q   == IF n = Len(buf) THEN tl ELSE <<b>> \o tl
<1>1. i.write_queue \in Seq(Seq(Nat)) /\ buf \in Seq(Nat) /\ tl \in Seq(Seq(Nat))
  BY DEF HioType
<1>2. /\ a \in Seq(Nat) /\ b \in Seq(Nat) /\ a \o b = buf
      /\ n = Len(buf) => a = buf
  BY <1>1, RestType, SplitSeq
<1>3. PopFront(i, n).write_queue = q
  BY DEF PopFront, HioType
<1>4. Queued(i) = buf \o FlattenSeq(tl)
  BY <1>1, FlattenHead DEF Queued
<1>5. FlattenSeq(tl) \in Seq(Nat)
  BY <1>1, FlattenType
<1> HIDE DEF buf, tl, a, b
<1>6. CASE n = Len(buf)
  BY <1>2, <1>3, <1>4, <1>6 DEF Queued, buf, a
<1>7. CASE n # Len(buf)
  <2>1. q \in Seq(Seq(Nat)) /\ q # << >> /\ Head(q) = b /\ Tail(q) = tl
    <3>1. q = <<b>> \o tl
      BY <1>7
    <3> HIDE DEF q
    <3>2. PICK t \in Seq(Seq(Nat)) : t = tl
      BY <1>1
    <3>3. <<b>> \in Seq(Seq(Nat)) /\ q = <<b>> \o t
      BY <1>2, <3>1, <3>2
    <3>4. q \in Seq(Seq(Nat)) /\ q # << >>
      BY <3>3
    <3>5. Head(q) = b /\ Tail(q) = t
      BY SMTT(30), <1>2, <3>3
    <3> QED
      BY <3>2, <3>4, <3>5
  <2> HIDE DEF q
  <2>2. FlattenSeq(q) = b \o FlattenSeq(tl)
    BY <2>1, FlattenHead
  <2>3. a \o (b \o FlattenSeq(tl)) = (a \o b) \o FlattenSeq(tl)
    BY <1>2, <1>5, BytesAssociative
  <2> QED
    BY <1>2, <1>3, <1>4, <2>2, <2>3 DEF Queued, buf, a
<1> QED
  BY <1>6, <1>7

LEMMA NioWriteSendEcho ==
  ASSUME IInv, IInv', Echo, NioWriteSend
  PROVE  Echo'
<1> DEFINE buf == Head(io.write_queue)
           e   == [io EXCEPT !.error = "ECONNRESET"]
<1>1. /\ io \in HioType /\ ~io.closed /\ io.write_queue # << >>
      /\ sent \in Seq(Nat) /\ TypeOK /\ io' \in HioType
  BY DEF IInv, TypeOK, NioWriteSend, InUse
<1>2. /\ phase = "nio_write" /\ rbuf' = rbuf /\ rcvd' = rcvd /\ rbuf = << >>
  BY DEF NioWriteSend, Echo
<1>3. buf \in Seq(Nat) /\ Len(buf) \in Nat
  BY <1>1 DEF HioType
<1>4. PICK n \in SendResults(Len(buf)) :
          \/ /\ n = -1
             /\ Leave(hio_close([io EXCEPT !.error = "ECONNRESET"]))
             /\ UNCHANGED sent
          \/ /\ n = 0
             /\ Leave(io)
             /\ UNCHANGED sent
          \/ /\ n > 0
             /\ sent' = sent \o SubSeq(buf, 1, n)
             /\ IF n = Len(buf)
                THEN io' = PopFront(io, n) /\ UNCHANGED phase
                ELSE Leave(PopFront(io, n))
  BY DEF NioWriteSend
<1>5. phase' # "on_recv"
  BY <1>2, <1>4 DEF Leave
<1>6. CASE n = -1
  <2>1. e \in HioType /\ e.closed = io.closed /\ e.error # "none"
    BY <1>1 DEF HioType, Errors
  <2>2. io' = [hio_close(e) EXCEPT !.revents = {}] /\ sent' = sent
    BY <1>4, <1>6 DEF Leave
  <2> HIDE DEF e
  <2>3. hio_close(e) \in HioType /\ hio_close(e).closed
        /\ hio_close(e).write_queue = << >>
    BY <1>1, <2>1, hioCloseEffect
  <2>4. io'.closed /\ io'.write_queue = << >>
    BY <2>2, <2>3, ClearRevents
  <2> QED
    BY <1>2, <1>5, <2>2, <2>4, EchoKept
<1>7. CASE n = 0
  <2>1. io' = [io EXCEPT !.revents = {}] /\ sent' = sent
    BY <1>4, <1>7 DEF Leave
  <2>2. /\ io'.closed = io.closed /\ io'.write_queue = io.write_queue
        /\ io'.error = io.error
    BY <1>1, <2>1, ClearRevents
  <2> QED
    BY <1>2, <1>5, <2>1, <2>2, EchoKept
<1>8. CASE n # -1 /\ n # 0
  <2>1. n \in Nat /\ n <= Len(buf) /\ n > 0
    BY <1>1, <1>3, <1>8, SendResultsBound
  <2>2. PICK p : p = PopFront(io, n)
    OBVIOUS
  <2>3. p \in HioType /\ p.closed = io.closed /\ p.error = io.error
    BY <1>1, <2>1, <2>2, PopFrontEffect
  <2>4. io' \in {p, [p EXCEPT !.revents = {}]} /\ sent' = sent \o SubSeq(buf, 1, n)
    BY <1>4, <2>1, <2>2 DEF Leave
  <2>5. /\ io'.closed = io.closed /\ io'.error = io.error
        /\ io'.write_queue = p.write_queue
    BY <2>3, <2>4, ClearRevents
  <2>6. sent' \o Queued(io') = sent \o Queued(io)
    <3>1. SubSeq(buf, 1, n) \in Seq(Nat) /\ Queued(p) \in Seq(Nat)
      BY <1>3, <2>1, <2>3, RestType, QueuedType
    <3>2. Queued(io) = SubSeq(buf, 1, n) \o Queued(p)
      BY <1>1, <2>1, <2>2, PopFrontQueue
    <3>3. Queued(io') = Queued(p)
      BY <2>5 DEF Queued
    <3>4. (sent \o SubSeq(buf, 1, n)) \o Queued(p) = sent \o (SubSeq(buf, 1, n) \o Queued(p))
      BY <1>1, <3>1, BytesAssociative
    <3> QED
      BY <2>4, <3>2, <3>3, <3>4
  <2>7. Received' = Received
    BY <1>2 DEF Received
  <2> QED
    BY <1>1, <1>2, <1>5, <2>5, <2>6, <2>7 DEF Echo, EchoComplete
<1> QED
  BY <1>6, <1>7, <1>8

\* What the read callback got is sent, queued or in its hands, once and in
\* order; after a failed or refused hio_write, what was sent is still a
\* prefix of it (nio_read, on_recv, hio_write, nio_write, hio_close).
THEOREM EchoIsComplete == Spec => []EchoComplete
<1>1. Init => Echo
  <2> SUFFICES ASSUME Init PROVE Echo
    OBVIOUS
  <2>1. io.closed /\ io.write_queue = << >> /\ sent = << >> /\ rbuf = << >> /\ rcvd = 0
    BY DEF Init, hio_ready
  <2>2. Queued(io) = << >>
    BY <2>1, FlattenEmpty DEF Queued
  <2>3. << >> \o << >> = << >> /\ Len(<< >>) = 0 /\ Received = << >>
    BY <2>1 DEF Received
  <2>4. IsPrefix(<< >>, << >>)
    BY <2>3 DEF IsPrefix
  <2> QED
    BY <2>1, <2>2, <2>3, <2>4 DEF Echo, EchoComplete
<1>2. IInv /\ IInv' /\ Echo /\ [Next]_vars => Echo'
  <2> SUFFICES ASSUME IInv, IInv', Echo, [Next]_vars PROVE Echo'
    OBVIOUS
  <2>1. CASE LoopNext
    BY <2>1, QuietEcho, CloseEcho, AcceptEcho, LeaveEcho, NioReadDataEcho,
       OnRecvEcho, NioWriteSendEcho DEF LoopNext
  <2>2. CASE ClientNext
    BY <2>2, QuietEcho
  <2>3. CASE UNCHANGED vars
    BY <2>3 DEF vars, Echo, EchoComplete, Queued, Received
  <2> QED
    BY <2>1, <2>2, <2>3 DEF Next
<1>3. Echo => EchoComplete
  BY DEF Echo
<1> QED
  BY <1>1, <1>2, <1>3, IInvInvariant, PTL DEF Spec

-----------------------------------------------------------------------------
(* The server around the connection: EchoServer, for any ports and any     *)
(* number of calls and of interrupts.                                      *)

\* Where the pointer, the sockets and the status stand at each point of the
\* call: the pointer dangles only between HV_FREE(loop) and *pp = NULL.
ServerLifetime ==
    /\ pc \in {"prompt", "R", "check", "new", "gnull"} => g_loop = "NULL"
    /\ g_loop = "dangling" => pc = "clear"
    /\ listenfd => pc \in {"signal", "run", "set_running", "leave_run",
                           "free", "cleanup"} \cup InLoop
    /\ eventfd => pc \in {"while", "poll", "polled", "process", "leave_run",
                          "free", "cleanup"}

\* Inside hloop_run the status is STOP only after an accepted hloop_stop.
StopIsAsked ==
    /\ pc \in InLoop => status = "RUNNING" \/ (status = "STOP" /\ stopped)
    /\ pc \in {"create_tcp_server", "signal", "run", "set_running"} =>
          status = "STOP"

ServerInv == ServerTypeOK /\ ServerLifetime /\ StopIsAsked /\ EndsOnlyWhenAsked

LEMMA ServerStart ==
    ASSUME ServerInit
    PROVE  ServerInv
<1>1. /\ pc = "prompt" /\ g_loop = "NULL" /\ status = "STOP"
      /\ sigint = "R" /\ calls = 0 /\ sigs = 0 /\ port \in Int
  BY EchoServerAssumption DEF ServerInit
<1>2. /\ listenfd = FALSE /\ eventfd = FALSE /\ rpending = FALSE
      /\ failed = FALSE /\ asked = FALSE /\ stopped = FALSE
  BY DEF ServerInit
<1>3. ServerTypeOK
  BY <1>1, <1>2 DEF ServerTypeOK, PCs
<1> QED
  BY <1>1, <1>2, <1>3 DEF ServerInv, ServerLifetime, StopIsAsked,
     EndsOnlyWhenAsked, InLoop

LEMMA ServerTypeStep ==
    ASSUME ServerTypeOK, [ServerNext]_serverVars
    PROVE  ServerTypeOK'
<1> USE DEF ServerTypeOK, PCs, InC, InLoop, InFree, resources, signals, call, Step
<1>1. CASE TcpEchoServer
  <2>1. PICK p \in Ports : port' = p /\ pc' \in {"R", "prompt"}
    BY <1>1 DEF TcpEchoServer
  <2>2. port' \in Int
    BY <2>1, EchoServerAssumption
  <2>3. /\ g_loop' = g_loop /\ status' = status /\ listenfd' = listenfd
        /\ eventfd' = eventfd /\ sigint' = sigint /\ rpending' = rpending
        /\ failed' = failed /\ sigs' = sigs /\ calls' = calls + 1
    BY <1>1 DEF TcpEchoServer
  <2>4. asked' \in BOOLEAN /\ stopped' \in BOOLEAN
    BY <1>1 DEF TcpEchoServer
  <2> QED
    BY <2>1, <2>2, <2>3, <2>4
<1>2. CASE DotCall
  BY <1>2 DEF DotCall
<1>3. CASE RCheckInterrupt
  BY <1>3 DEF RCheckInterrupt
<1>4. CASE CheckPort
  BY <1>4 DEF CheckPort
<1>5. CASE hloop_new
  BY <1>5 DEF hloop_new
<1>6. CASE hloop_create_tcp_server
  BY <1>6 DEF hloop_create_tcp_server
<1>7. CASE InstallHandler
  BY <1>7 DEF InstallHandler
<1>8. CASE hloop_run \/ SetRunning
  BY <1>8 DEF hloop_run, SetRunning
<1>9. CASE hloop_create_eventfds
  BY <1>9 DEF hloop_create_eventfds
<1>10. CASE While \/ PollReturns \/ AfterPoll \/ ProcessPendings \/ LeaveRun
  BY <1>10 DEF While, PollReturns, AfterPoll, ProcessPendings, LeaveRun
<1>11. CASE hloop_free \/ hloop_cleanup \/ Dealloc \/ ClearPointer \/ Return
  BY ZenonT(40), <1>11 DEF hloop_free, hloop_cleanup, Dealloc, ClearPointer, Return
<1>12. CASE Sigint
  <2>1. asked' \in BOOLEAN
    BY <1>12 DEF Sigint
  <2>2. stopped' \in BOOLEAN /\ status' \in {"STOP", "RUNNING", "DESTROY"}
    BY <1>12 DEF Sigint, handle_sigint, hloop_stop
  <2>3. rpending' \in BOOLEAN
    BY <1>12 DEF Sigint
  <2>4. /\ pc' = pc /\ port' = port /\ g_loop' = g_loop
        /\ listenfd' = listenfd /\ eventfd' = eventfd /\ sigint' = sigint
        /\ failed' = failed /\ calls' = calls /\ sigs' = sigs + 1
    BY <1>12 DEF Sigint
  <2> QED
    BY <2>1, <2>2, <2>3, <2>4
<1>13. CASE UNCHANGED serverVars
  BY <1>13 DEF serverVars
<1> QED
  BY <1>1, <1>2, <1>3, <1>4, <1>5, <1>6, <1>7, <1>8, <1>9, <1>10, <1>11,
     <1>12, <1>13 DEF ServerNext, Main

LEMMA ServerStep ==
    ASSUME ServerInv, [ServerNext]_serverVars
    PROVE  ServerInv'
<1> SUFFICES ServerLifetime' /\ StopIsAsked' /\ EndsOnlyWhenAsked'
  BY ServerTypeStep DEF ServerInv
<1> USE DEF ServerInv, ServerLifetime, StopIsAsked, EndsOnlyWhenAsked, InLoop,
            resources, signals, call, Step
<1>1. CASE TcpEchoServer
  <2>1. pc = "prompt" /\ pc' \in {"R", "prompt"}
    BY <1>1 DEF TcpEchoServer
  <2>2. /\ g_loop' = g_loop /\ status' = status /\ listenfd' = listenfd
        /\ eventfd' = eventfd
    BY <1>1 DEF TcpEchoServer
  <2> QED
    BY <2>1, <2>2
<1>2. CASE DotCall \/ RCheckInterrupt \/ CheckPort
  BY <1>2 DEF DotCall, RCheckInterrupt, CheckPort
<1>3. CASE hloop_new
  BY <1>3 DEF hloop_new
<1>4. CASE hloop_create_tcp_server
  BY <1>4 DEF hloop_create_tcp_server
<1>5. CASE InstallHandler \/ hloop_run \/ SetRunning
  BY <1>5 DEF InstallHandler, hloop_run, SetRunning
<1>6. CASE hloop_create_eventfds
  BY <1>6 DEF hloop_create_eventfds
<1>7. CASE While \/ PollReturns \/ AfterPoll \/ ProcessPendings \/ LeaveRun
  BY <1>7 DEF While, PollReturns, AfterPoll, ProcessPendings, LeaveRun
<1>8. CASE hloop_free \/ hloop_cleanup \/ Dealloc \/ ClearPointer \/ Return
  BY <1>8 DEF hloop_free, hloop_cleanup, Dealloc, ClearPointer, Return
<1>9. CASE Sigint
  <2>1. /\ pc' = pc /\ g_loop' = g_loop
        /\ listenfd' = listenfd /\ eventfd' = eventfd
    BY <1>9 DEF Sigint
  <2>2. \/ status' = status /\ stopped' = stopped
        \/ hloop_stop
    BY <1>9 DEF Sigint, handle_sigint
  <2>3. CASE status' = status /\ stopped' = stopped
    BY <2>1, <2>3
  <2>4. CASE hloop_stop
    <3>1. status' = "STOP" /\ (stopped => stopped')
      BY <2>4 DEF hloop_stop
    <3>2. pc \in InLoop /\ status = "RUNNING" => stopped'
      BY <2>4 DEF hloop_stop
    <3> QED
      BY <2>1, <3>1, <3>2
  <2> QED
    BY <2>2, <2>3, <2>4
<1>10. CASE UNCHANGED serverVars
  BY <1>10 DEF serverVars
<1> QED
  BY <1>1, <1>2, <1>3, <1>4, <1>5, <1>6, <1>7, <1>8, <1>9, <1>10 DEF ServerNext, Main

\* The inductive invariant holds.
THEOREM ServerInvariant == ServerSpec => []ServerInv
  BY ServerStart, ServerStep, PTL DEF ServerSpec

\* The type invariant.
THEOREM ServerTypeCorrect == ServerSpec => []ServerTypeOK
<1>1. ServerInv => ServerTypeOK
  BY DEF ServerInv
<1> QED
  BY <1>1, ServerInvariant, PTL

\* No call of TcpEchoServer leaves a socket, an eventfd or a pointer to a
\* freed loop behind, whatever fails and whenever Ctrl+C arrives.
THEOREM NothingLeftBehind == ServerSpec => []ReleasedAtPrompt
<1>1. ServerInv => ReleasedAtPrompt
  BY DEF ServerInv, ServerLifetime, InLoop, ReleasedAtPrompt
<1> QED
  BY <1>1, ServerInvariant, PTL

\* hloop_run returns only after an interrupt of the same run.
THEOREM RunsUntilAsked == ServerSpec => []EndsOnlyWhenAsked
<1>1. ServerInv => EndsOnlyWhenAsked
  BY DEF ServerInv
<1> QED
  BY <1>1, ServerInvariant, PTL

=============================================================================

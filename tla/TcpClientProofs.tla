-------------------------- MODULE TcpClientProofs ---------------------------
(***************************************************************************)
(* Proofs about TcpClient, for every number of descriptors, every setting  *)
(* and every number of calls, faults and attempts: the client is never     *)
(* called back through a channel it has replaced, its connect timers       *)
(* belong to the attempt that is going on, it stays closed, it ends no     *)
(* connection but for a reason, and its retries back off as its setting    *)
(* says.                                                                   *)
(***************************************************************************)
EXTENDS TcpClient, FiniteSetTheorems, SequenceLaws

\* The events in a queue of posted events.
Pend(q) == {q[k] : k \in DOMAIN q}

\* An hio_t i with socket s, while the client's channel has status st.  Its
\* timers belong to what it waits for; a queue is there only once it has
\* been connected; it outlives its channel's status only to drain a queue.
Sound(i, s, st) ==
    /\ i.connect_timer => i.connect
    /\ s = "connecting" => i.connect_timer
    /\ i.connect => i.ready /\ st = "CONNECTING" /\ s # "fresh"
    /\ i.ready /\ i.close => i.close_timer /\ i.unsent
    /\ i.close_timer => i.ready /\ i.close
    /\ i.unsent => i.ready /\ st \in {"CONNECTED", CLOSED} /\ s \notin {"fresh", "connecting"}
    /\ i.ready /\ st = CLOSED => i.close /\ "unsent_close" \in use
    /\ s = "fresh" => st = "OPENED"
    /\ i.ready /\ st = "OPENED" => s = "fresh"
    /\ i.ready => s # "none"
    /\ s # "none" => i.ready

Sounds == \A f \in Fds : Sound(io[f], sock[f], chan.status)

\* Only the hio_t of the client's channel is open, and it points to it.
Owner == \A f \in Fds : io[f].ready => f = chan.fd /\ io[f].id = chan.id /\ io[f].ctx = chan.id

\* What a posted event says of the hio_t, if it is still the one it is for.
Informed ==
    \A e \in Pend(posted) : io[e.fd].id = e.id /\ io[e.fd].ready =>
       /\ e.kind = "nio_connect" =>
             /\ chan.status = "CONNECTING" /\ ~io[e.fd].connect
             /\ sock[e.fd] \in {"established", "eof", "reset"}
       /\ e.kind = "hio_close" => sock[e.fd] = "failed"

\* A connect is announced once.
Once(q) == \A k, l \in DOMAIN q : q[k].kind = "nio_connect" /\ q[l] = q[k] => k = l

\* Without "unsent_close" nothing is queued while a closesocket is posted.
Emptied ==
    "unsent_close" \notin use =>
       \A e \in Pend(posted) : e.kind = "closesocket" => \A f \in Fds : ~io[f].unsent

\* Without "restart" the client has one connection, attempt, timer or start
\* at a time.
OneStart(q) == \A k, l \in DOMAIN q : q[k].kind = "start" /\ q[l].kind = "start" => k = l
Starting == \E e \in Pend(posted) : e.kind = "start"
Single ==
    "restart" \notin use =>
       /\ timers \in {0, 1} /\ OneStart(posted)
       /\ timers = 1 => ~Starting
       /\ timers = 1 \/ Starting => \A f \in Fds : io[f].ready => sock[f] = "fresh"

\* StaysClosed, and no setting is left for the hio_t that drains.
Ended ==
    user = "close" /\ ~late =>
       /\ timers = 0
       /\ \A f \in Fds : io[f].ready => io[f].close /\ reconn = NULL

IInv == TypeOK /\ Sounds /\ Owner /\ Informed /\ Once(posted) /\ Emptied /\ Single /\ Ended


\* No behaviour has both uses that the code does not cope with together.
Apart == \A u \in Uses : "restart" \notin u \/ "unsent_close" \notin u

-----------------------------------------------------------------------------
(* The queue of posted events, and the ids.                                *)

LEMMA Queues ==
    ASSUME NEW q \in Seq(Posts), NEW e \in Posts
    PROVE  /\ Append(q, e) \in Seq(Posts) /\ Pend(Append(q, e)) = Pend(q) \cup {e}
           /\ Once(q) /\ (e.kind # "nio_connect" \/ e \notin Pend(q)) => Once(Append(q, e))
           /\ OneStart(q) /\ (e.kind # "start" \/ \A d \in Pend(q) : d.kind # "start")
                 => OneStart(Append(q, e))
<1> DEFINE p == Append(q, e)
<1>1. /\ p \in Seq(Posts) /\ Len(q) \in Nat /\ DOMAIN q = 1..Len(q)
      /\ DOMAIN p = 1..(Len(q) + 1) /\ p[Len(q) + 1] = e /\ \A k \in 1..Len(q) : p[k] = q[k]
  OBVIOUS
<1> HIDE DEF p
<1>2. DOMAIN p = DOMAIN q \cup {Len(q) + 1} /\ \A k \in DOMAIN q : p[k] = q[k] /\ k # Len(q) + 1
  BY <1>1
<1>3. Pend(p) = Pend(q) \cup {e}  BY <1>1, <1>2 DEF Pend
<1>4. Once(q) /\ (e.kind # "nio_connect" \/ e \notin Pend(q)) => Once(p)
  BY <1>1, <1>2 DEF Once, Pend
<1>5. OneStart(q) /\ (e.kind # "start" \/ \A d \in Pend(q) : d.kind # "start") => OneStart(p)
  BY <1>1, <1>2 DEF OneStart, Pend
<1> QED  BY <1>1, <1>3, <1>4, <1>5 DEF p

LEMMA Rests ==
    ASSUME NEW q \in Seq(Posts), q # << >>
    PROVE  /\ Tail(q) \in Seq(Posts) /\ Pend(Tail(q)) \subseteq Pend(q)
           /\ Head(q) \in Pend(q) /\ Head(q) \in Posts
           /\ Once(q) => /\ Once(Tail(q))
                         /\ Head(q).kind = "nio_connect" => Head(q) \notin Pend(Tail(q))
           /\ OneStart(q) =>
                 /\ OneStart(Tail(q))
                 /\ Head(q).kind = "start" => \A d \in Pend(Tail(q)) : d.kind # "start"
<1> DEFINE p == Tail(q)
<1>1. Len(q) \in Nat /\ Len(q) > 0 /\ DOMAIN q = 1..Len(q)
  BY EmptySeq
<1>2. /\ p \in Seq(Posts) /\ DOMAIN p = 1..(Len(q) - 1) /\ \A k \in 1..(Len(q) - 1) : p[k] = q[k + 1]
  BY <1>1
<1>3. Head(q) = q[1] /\ 1 \in DOMAIN q  BY <1>1
<1>4. \A k \in DOMAIN p : /\ k \in Nat /\ k + 1 \in DOMAIN q /\ p[k] = q[k + 1]
                          /\ k + 1 # 1
                          /\ \A l \in DOMAIN p : k + 1 = l + 1 => k = l
  BY <1>1, <1>2
<1>5. Head(q) \in Posts  BY <1>1, <1>3
<1> HIDE DEF p
<1>6. Pend(p) \subseteq Pend(q) /\ Head(q) \in Pend(q)  BY <1>3, <1>4 DEF Pend
<1>7. Once(q) => Once(p) /\ (Head(q).kind = "nio_connect" => Head(q) \notin Pend(p))
  <2>1. SUFFICES ASSUME Once(q)
                 PROVE  Once(p) /\ (Head(q).kind = "nio_connect" => Head(q) \notin Pend(p))
    OBVIOUS
  <2>2. Once(p)  BY <1>4, <2>1 DEF Once
  <2>3. ASSUME Head(q).kind = "nio_connect", Head(q) \in Pend(p)  PROVE FALSE
    <3>1. PICK k \in DOMAIN p : p[k] = Head(q)  BY <2>3 DEF Pend
    <3> QED  BY <1>3, <1>4, <2>1, <2>3, <3>1 DEF Once
  <2> QED  BY <2>2, <2>3
<1>8. OneStart(q) => OneStart(p) /\ (Head(q).kind = "start" => \A d \in Pend(p) : d.kind # "start")
  <2>1. SUFFICES ASSUME OneStart(q)
                 PROVE  OneStart(p) /\ (Head(q).kind = "start" => \A d \in Pend(p) : d.kind # "start")
    OBVIOUS
  <2>2. OneStart(p)  BY <1>4, <2>1 DEF OneStart
  <2>3. ASSUME Head(q).kind = "start", NEW d \in Pend(p), d.kind = "start"  PROVE FALSE
    <3>1. PICK k \in DOMAIN p : p[k] = d  BY <2>3 DEF Pend
    <3> QED  BY <1>3, <1>4, <2>1, <2>3, <3>1 DEF OneStart
  <2> QED  BY <2>2, <2>3
<1> QED  BY <1>2, <1>5, <1>6, <1>7, <1>8 DEF p

\* A new hio_t takes an id that nothing refers to.
LEMMA FreshId ==
    ASSUME TypeOK
    PROVE  /\ NextId \in Nat /\ NextId # chan.id
           /\ \A e \in Pend(posted) : e.id # NextId
<1> DEFINE n == Cardinality(UsedIds)
<1>1. IsFiniteSet(UsedIds)
  <2>0. ASSUME NEW S, IsFiniteSet(S), NEW F  PROVE IsFiniteSet({F[x].id : x \in S})
    <3> DEFINE G == [x \in S |-> F[x].id]
           T == {F[x].id : x \in S}
    <3>1. G \in [S -> T] /\ \A y \in T : \E x \in S : G[x] = y  OBVIOUS
    <3>2. G \in Surjection(S, T)  BY <3>1 DEF Surjection
    <3> HIDE DEF G, T
    <3>3. IsFiniteSet(T)  BY <2>0, <3>2, FS_Surjection
    <3> QED  BY <3>3 DEF T
  <2>1. IsFiniteSet({io[f].id : f \in Fds})  BY <2>0, TcpClientAssumption
  <2>2. IsFiniteSet({posted[k].id : k \in DOMAIN posted})
    <3>1. DOMAIN posted = 1..Len(posted) /\ Len(posted) \in Nat  BY DEF TypeOK
    <3>2. IsFiniteSet(1..Len(posted))  BY <3>1, FS_Interval
    <3> QED  BY <2>0, <3>1, <3>2
  <2>3. IsFiniteSet({chan.id})  BY FS_Singleton
  <2> QED  BY <2>1, <2>2, <2>3, FS_Union DEF UsedIds
<1>2. n \in Nat  BY <1>1, FS_CardinalityType
<1> HIDE DEF n
<1>3. \E m \in 1..(n + 1) : m \notin UsedIds
  <2>1. SUFFICES ASSUME 1..(n + 1) \subseteq UsedIds  PROVE FALSE
    OBVIOUS
  <2>2. Cardinality(1..(n + 1)) = n + 1
    <3>1. 1 \in Int /\ n + 1 \in Int /\ 1 <= n + 1 /\ n + 1 - 1 + 1 = n + 1  BY <1>2
    <3> QED  BY <3>1, FS_Interval
  <2>3. Cardinality(1..(n + 1)) <= n  BY <1>1, <2>1, FS_Subset DEF n
  <2> QED  BY <1>2, <2>2, <2>3
<1>4. NextId \in 1..(n + 1) /\ NextId \notin UsedIds
  BY <1>3 DEF NextId, n
<1> QED  BY <1>2, <1>4 DEF UsedIds, Pend


-----------------------------------------------------------------------------
(* The operators.                                                          *)

\* startReconnect keeps the counters within the setting, and arms at most
\* one timer; without a setting it does nothing.
LEMMA Reconnects ==
    ASSUME TypeOK, NEW r, r = NULL \/ r \in Counters, startReconnect(r)
    PROVE  /\ reconn' = NULL \/ reconn' \in Counters
           /\ timers' = timers \/ timers' = timers + 1
           /\ armed' \in 0..Steady
           /\ r = NULL => timers' = timers /\ reconn' = NULL
<1> USE TcpClientAssumption
<1>1. CASE r = NULL  BY <1>1 DEF startReconnect, TypeOK
<1>2. CASE r # NULL
  <2> DEFINE n == Counted(r)
  <2>1. r \in Counters  BY <1>2
  <2>2. n \in Counters
    <3>1. (r.cur_retry_cnt + 1) % CountMod \in 0..(CountMod - 1)
      <4>1. r.cur_retry_cnt + 1 \in Int  BY <2>1 DEF Counters
      <4> QED  BY <4>1
    <3> QED  BY <2>1, <3>1 DEF Counted, Counters
  <2> HIDE DEF n
  <2>3. reconn_setting_calc_delay(n) \in Counters
    <3>1. /\ n.cur_delay \in Int /\ setting.min_delay \in Nat /\ setting.max_delay \in Nat
          /\ setting.delay_policy \in Nat
      BY <2>2 DEF Counters, TypeOK
    <3>2. Unclamped(n.cur_delay) \in Int  BY <3>1 DEF Unclamped
    <3>3. Unclamped(n.cur_delay) % CountMod \in Int  BY <3>2
    <3>4. Greatest(Unclamped(n.cur_delay) % CountMod, setting.min_delay) \in Nat
      BY <3>1, <3>3 DEF Greatest
    <3>5. Least(Greatest(Unclamped(n.cur_delay) % CountMod, setting.min_delay), setting.max_delay)
             \in 0..setting.max_delay
      BY <3>1, <3>4 DEF Least
    <3> QED  BY <2>2, <3>5 DEF reconn_setting_calc_delay, Counters
  <2>4. Least(armed + 1, Steady) \in 0..Steady /\ armed \in 0..Steady  BY DEF TypeOK, Least
  <2>5. \/ /\ reconn' = reconn_setting_calc_delay(n) /\ timers' = timers + 1
           /\ armed' = Least(armed + 1, Steady)
        \/ reconn' = n /\ timers' = timers /\ armed' = armed
    BY <1>2 DEF startReconnect, n
  <2> QED  BY <1>2, <2>2, <2>3, <2>4, <2>5
<1> QED  BY <1>1, <1>2

\* What hio_close may do to an hio_t that is i: nothing, put the close off,
\* or close.
LEMMA Closings ==
    ASSUME TypeOK, NEW f \in Fds, NEW i \in Ios, NEW c, NEW r, r = NULL \/ r \in Counters,
           hio_close(f, i, c, r), i.ready => i.ctx = c.id
    PROVE  /\ reconn' = NULL \/ reconn' \in Counters
           /\ timers' = timers \/ timers' = timers + 1
           /\ armed' \in 0..Steady
           /\ r = NULL => timers' = timers /\ reconn' = NULL
           /\ \/ /\ ~i.ready /\ io' = [io EXCEPT ![f] = i]
                 /\ UNCHANGED <<sock, timers>> /\ chan' = c /\ reconn' = r
              \/ /\ i.ready /\ CloseLater(i)
                 /\ io' = [io EXCEPT ![f] = [i EXCEPT !.close = TRUE, !.close_timer = TRUE]]
                 /\ UNCHANGED <<sock, timers>> /\ chan' = c /\ reconn' = r
              \/ /\ i.ready /\ ~CloseLater(i) /\ io' = [io EXCEPT ![f] = hio_done(i)]
                 /\ sock' = [sock EXCEPT ![f] = "none"] /\ chan' = [c EXCEPT !.status = CLOSED]
<1>1. CASE ~i.ready  BY <1>1 DEF hio_close, TypeOK
<1>2. CASE i.ready /\ CloseLater(i)  BY <1>2 DEF hio_close, TypeOK
<1>3. CASE i.ready /\ ~CloseLater(i)
  <2>1. /\ io' = [io EXCEPT ![f] = hio_done(i)] /\ sock' = [sock EXCEPT ![f] = "none"]
        /\ on_close(i, c, r)
    BY <1>3 DEF hio_close
  <2>2. chan' = [c EXCEPT !.status = CLOSED] /\ onclose(r)  BY <1>3, <2>1 DEF on_close
  <2>3. NULL = NULL \/ NULL \in Counters  OBVIOUS
  <2>4. CASE startReconnect(r)  BY <1>3, <2>1, <2>2, <2>4, Reconnects
  <2>5. CASE r # NULL /\ startReconnect(NULL)  BY <1>3, <2>1, <2>2, <2>3, <2>5, Reconnects
  <2> QED  BY <2>2, <2>4, <2>5 DEF onclose
<1> QED  BY <1>1, <1>2, <1>3


\* The hio_t after a close that is put off, and after a close.
LEMMA Marks ==
    ASSUME NEW i \in Ios, NEW j, j = [i EXCEPT !.close = TRUE, !.close_timer = TRUE]
    PROVE  /\ j \in Ios /\ j.close /\ j.close_timer
           /\ j.id = i.id /\ j.ready = i.ready /\ j.ctx = i.ctx /\ j.connect = i.connect
           /\ j.connect_timer = i.connect_timer /\ j.unsent = i.unsent
BY DEF Ios

LEMMA Done ==
    ASSUME NEW i \in Ios
    PROVE  /\ hio_done(i) \in Ios /\ ~hio_done(i).ready /\ ~hio_done(i).connect
           /\ ~hio_done(i).connect_timer /\ ~hio_done(i).close_timer /\ ~hio_done(i).unsent
BY DEF Ios, hio_done

\* Nothing has to be known of an hio_t that is not open.
LEMMA Unused ==
    ASSUME NEW i, NEW s, NEW st, NEW st2, Sound(i, s, st), ~i.ready
    PROVE  Sound(i, s, st2) /\ ~i.unsent
BY DEF Sound

\* The events that are left when some have run.
Fewer == posted' = posted \/ (posted # << >> /\ posted' = Tail(posted))

LEMMA FewerKeeps ==
    ASSUME IInv, Fewer
    PROVE  /\ posted' \in Seq(Posts) /\ Pend(posted') \subseteq Pend(posted)
           /\ \A e \in Pend(posted') : e \in Pend(posted) /\ e.fd \in Fds
           /\ Once(posted') /\ (OneStart(posted) => OneStart(posted'))
           /\ Once(posted)' /\ (OneStart(posted) => OneStart(posted)') /\ (Starting' => Starting)
<1>1. posted \in Seq(Posts) /\ Once(posted)  BY DEF IInv, TypeOK
<1>2. /\ posted' \in Seq(Posts) /\ Pend(posted') \subseteq Pend(posted)
      /\ Once(posted') /\ (OneStart(posted) => OneStart(posted'))
  BY <1>1, Rests DEF Fewer
<1>3. Once(posted') = Once(posted)' /\ OneStart(posted') = OneStart(posted)'
  BY DEF Once, OneStart
<1>4. Starting' => Starting  BY <1>2 DEF Starting, Pend
<1>5. \A e \in Pend(posted') : e.fd \in Fds
  <2>1. \A k \in DOMAIN posted' : posted'[k] \in Posts  BY <1>2
  <2> QED  BY <2>1 DEF Pend, Posts
<1> QED  BY <1>2, <1>3, <1>4, <1>5


-----------------------------------------------------------------------------
(* Every step keeps the invariant.                                         *)

Lefts == [starts : Nat, closes : Nat, sends : Nat, faults : Nat]

\* hio_close, called by the loop for a reason of its own or for the user.
LEMMA CloseKeeps ==
    ASSUME IInv, Fewer, UNCHANGED envVars, left' \in Lefts,
           NEW f \in Fds, NEW i \in Ios, NEW c, NEW r, hio_close(f, i, c, r),
           i.id = io[f].id, i.ctx = io[f].ctx, i.ready = io[f].ready, i.unsent => io[f].unsent,
           \/ c = chan /\ r = reconn /\ UNCHANGED <<user, late>>
           \/ /\ c = [chan EXCEPT !.status = CLOSED] /\ r = NULL /\ i.ready
              /\ user' = "close" /\ late' = (timers > 0),
           i.ready /\ CloseLater(i) =>
              Sound([i EXCEPT !.close = TRUE, !.close_timer = TRUE], sock[f], c.status),
           ~i.ready => Sound(i, sock[f], chan.status),
           i.ready /\ r # NULL => sock[f] # "fresh"
    PROVE  IInv'
<1> DEFINE j == [i EXCEPT !.close = TRUE, !.close_timer = TRUE]
<1>0. /\ TypeOK /\ io \in [Fds -> Ios] /\ sock \in [Fds -> {"none", "fresh", "connecting",
                                              "established", "failed", "eof", "reset"}]
      /\ chan \in [fd : Fds, id : Nat, status : {"OPENED", "CONNECTING", "CONNECTED", CLOSED}]
      /\ timers \in Nat
  BY DEF IInv, TypeOK
<1>a. /\ c \in [fd : Fds, id : Nat, status : {"OPENED", "CONNECTING", "CONNECTED", CLOSED}]
      /\ c.id = chan.id /\ c.fd = chan.fd
  BY <1>0
<1>b. io[f].ready => io[f].ctx = chan.id  BY DEF IInv, Owner
<1>c. r = NULL \/ r \in Counters  BY DEF IInv, TypeOK
<1>1. /\ reconn' = NULL \/ reconn' \in Counters
      /\ timers' = timers \/ timers' = timers + 1
      /\ armed' \in 0..Steady
      /\ r = NULL => timers' = timers /\ reconn' = NULL
      /\ \/ /\ ~i.ready /\ io' = [io EXCEPT ![f] = i]
            /\ UNCHANGED <<sock, timers>> /\ chan' = c /\ reconn' = r
         \/ /\ i.ready /\ CloseLater(i) /\ io' = [io EXCEPT ![f] = j]
            /\ UNCHANGED <<sock, timers>> /\ chan' = c /\ reconn' = r
         \/ /\ i.ready /\ ~CloseLater(i) /\ io' = [io EXCEPT ![f] = hio_done(i)]
            /\ sock' = [sock EXCEPT ![f] = "none"] /\ chan' = [c EXCEPT !.status = CLOSED]
  <2>1. i.ready => i.ctx = c.id  BY <1>a, <1>b
  <2>2. TypeOK /\ hio_close(f, i, c, r)  BY <1>0
  <2> HIDE DEF j
  <2>3. /\ reconn' = NULL \/ reconn' \in Counters
        /\ timers' = timers \/ timers' = timers + 1
        /\ armed' \in 0..Steady
        /\ r = NULL => timers' = timers /\ reconn' = NULL
    BY ONLY <1>c, <2>1, <2>2, f \in Fds, i \in Ios, Closings, Zenon
  <2>4. \/ /\ ~i.ready /\ io' = [io EXCEPT ![f] = i]
           /\ UNCHANGED <<sock, timers>> /\ chan' = c /\ reconn' = r
        \/ /\ i.ready /\ CloseLater(i)
           /\ io' = [io EXCEPT ![f] = [i EXCEPT !.close = TRUE, !.close_timer = TRUE]]
           /\ UNCHANGED <<sock, timers>> /\ chan' = c /\ reconn' = r
        \/ /\ i.ready /\ ~CloseLater(i) /\ io' = [io EXCEPT ![f] = hio_done(i)]
           /\ sock' = [sock EXCEPT ![f] = "none"] /\ chan' = [c EXCEPT !.status = CLOSED]
    BY ONLY <1>c, <2>1, <2>2, f \in Fds, i \in Ios, Closings, Zenon
  <2> QED  BY <2>3, <2>4 DEF j
<1>2. /\ posted' \in Seq(Posts) /\ Pend(posted') \subseteq Pend(posted)
      /\ \A e \in Pend(posted') : e \in Pend(posted) /\ e.fd \in Fds
      /\ Once(posted)' /\ (OneStart(posted) => OneStart(posted)') /\ (Starting' => Starting)
  BY FewerKeeps
<1>3. /\ j \in Ios /\ j.close /\ j.close_timer
      /\ j.id = i.id /\ j.ready = i.ready /\ j.ctx = i.ctx /\ j.connect = i.connect
      /\ j.connect_timer = i.connect_timer /\ j.unsent = i.unsent
  BY Marks
<1>4. /\ hio_done(i) \in Ios /\ ~hio_done(i).ready /\ ~hio_done(i).connect
      /\ ~hio_done(i).connect_timer /\ ~hio_done(i).close_timer /\ ~hio_done(i).unsent
  BY Done
<1>5. use' = use /\ setting' = setting /\ server' = server  BY DEF envVars
<1> HIDE DEF j
<1>6. TypeOK'
  <2>1. io' \in [Fds -> Ios]  BY <1>0, <1>1, <1>3, <1>4
  <2>2. sock' \in [Fds -> {"none", "fresh", "connecting", "established", "failed", "eof", "reset"}]
    BY <1>0, <1>1
  <2>3. chan' \in [fd : Fds, id : Nat, status : {"OPENED", "CONNECTING", "CONNECTED", CLOSED}]
    BY <1>1, <1>a
  <2>4. (reconn = NULL \/ reconn \in Counters)'  BY <1>1, <1>5 DEF Counters, NULL
  <2>5. timers' \in Nat  BY <1>0, <1>1
  <2>6. user' \in {"none", "start", "close"} /\ late' \in BOOLEAN
    <3>1. user \in {"none", "start", "close"} /\ late \in BOOLEAN  BY <1>0 DEF TypeOK
    <3>2. (timers > 0) \in BOOLEAN  OBVIOUS
    <3> QED  BY <3>1, <3>2
  <2>7. server' \in {"up", "down"} /\ setting' \in Settings /\ use' \in Uses
    BY <1>0, <1>5 DEF TypeOK
  <2> QED  BY <1>1, <1>2, <2>1, <2>2, <2>3, <2>4, <2>5, <2>6, <2>7 DEF TypeOK, Lefts
<1>7. chan'.id = chan.id /\ chan'.fd = chan.fd  BY <1>1, <1>a
<1>8. \A g \in Fds : g # f => io'[g] = io[g] /\ sock'[g] = sock[g]  BY <1>0, <1>1
<1>9. \A g \in Fds : Sound(io[g], sock[g], chan.status)  BY DEF IInv, Sounds
<1>10. i.ready => \A g \in Fds : g # f => ~io[g].ready  BY DEF IInv, Owner
<1>11. \A g \in Fds : Sound(io[g], sock[g], chan.status)' = Sound(io'[g], sock'[g], chan'.status)
  BY <1>5 DEF Sound
<1>12. CASE ~i.ready
  <2>1. /\ io' = [io EXCEPT ![f] = i] /\ UNCHANGED <<sock, timers, chan, reconn, user, late>>
    BY <1>1, <1>12
  <2>2. io'[f] = i  BY <1>0, <2>1
  <2>3. Sounds'  BY <1>8, <1>9, <1>11, <1>12, <2>1, <2>2 DEF Sounds
  <2>4. Owner'  BY <1>8, <1>12, <2>1, <2>2 DEF IInv, Owner
  <2>5. Informed'
    <3>1. Pend(posted)' = Pend(posted')  BY DEF Pend
    <3> QED  BY <1>2, <1>8, <1>12, <2>1, <2>2, <3>1 DEF IInv, Informed
  <2>6. Emptied'
    BY <1>2, <1>5, <1>8, <2>2 DEF IInv, Emptied, Pend
  <2>7. Single'
    BY <1>2, <1>5, <1>8, <1>12, <2>1, <2>2 DEF IInv, Single
  <2>8. Ended'  BY <1>8, <1>12, <2>1, <2>2 DEF IInv, Ended
  <2> QED  BY <1>2, <1>6, <2>3, <2>4, <2>5, <2>6, <2>7, <2>8 DEF IInv
<1>13. CASE i.ready /\ CloseLater(i)
  <2>1. /\ io' = [io EXCEPT ![f] = j] /\ UNCHANGED <<sock, timers>> /\ chan' = c /\ reconn' = r
    BY <1>1, <1>13
  <2>2. io'[f] = j  BY <1>0, <2>1
  <2>3. i.unsent /\ io[f].unsent  BY <1>13 DEF CloseLater
  <2>4. Sounds'
    <3>1. Sound(io'[f], sock'[f], chan'.status)  BY <1>13, <2>1, <2>2 DEF j
    <3>2. \A g \in Fds : g # f => Sound(io'[g], sock'[g], chan'.status)
      BY <1>8, <1>9, <1>10, <1>13, Unused
    <3> QED  BY <1>11, <3>1, <3>2 DEF Sounds
  <2>5. Owner'
    <3>1. f = chan.fd /\ io[f].id = chan.id /\ io[f].ctx = chan.id
      BY <1>13 DEF IInv, Owner
    <3>2. f = chan'.fd /\ io'[f].id = chan'.id /\ io'[f].ctx = chan'.id
      BY <1>3, <1>7, <2>2, <3>1
    <3> QED  BY <1>8, <1>10, <1>13, <3>2 DEF Owner
  <2>6. Informed'
    <3>1. chan.status # "CONNECTING"  BY <1>9, <2>3 DEF Sound, CLOSED
    <3>2. Pend(posted)' = Pend(posted')  BY DEF Pend
    <3>3. \A e \in Pend(posted') : io'[e.fd].ready => e.fd = f
      BY <1>2, <1>8, <1>10, <1>13
    <3>4. \A e \in Pend(posted') : io'[e.fd].ready /\ io'[e.fd].id = e.id =>
             e.kind # "nio_connect" /\ (e.kind = "hio_close" => sock[f] = "failed")
      <4>1. SUFFICES ASSUME NEW e \in Pend(posted'), io'[e.fd].ready, io'[e.fd].id = e.id
                     PROVE  e.kind # "nio_connect" /\ (e.kind = "hio_close" => sock[f] = "failed")
        OBVIOUS
      <4>2. e.fd = f /\ e \in Pend(posted)  BY <1>2, <3>3, <4>1
      <4>3. io[e.fd].id = e.id /\ io[e.fd].ready  BY <1>3, <1>13, <2>2, <4>1, <4>2
      <4> QED  BY <3>1, <4>2, <4>3 DEF IInv, Informed
    <3> QED  BY <2>1, <3>2, <3>3, <3>4 DEF Informed
  <2>7. Emptied'
    BY <1>2, <1>3, <1>5, <1>8, <2>2, <2>3 DEF IInv, Emptied, Pend
  <2>8. Single'
    BY <1>2, <1>3, <1>5, <1>8, <1>13, <2>1, <2>2 DEF IInv, Single
  <2>9. Ended'
    <3>1. SUFFICES ASSUME user' = "close", ~late'  PROVE timers' = 0 /\ reconn' = NULL
      BY <1>3, <1>8, <1>10, <1>13, <2>2 DEF Ended
    <3>2. CASE UNCHANGED <<user, late>> /\ r = reconn
      BY <1>13, <2>1, <3>1, <3>2 DEF IInv, Ended
    <3>3. CASE r = NULL /\ late' = (timers > 0)
      <4>0. ~(timers > 0)  BY <3>1, <3>3, Zenon
      <4>1. timers = 0  BY <1>0, <4>0
      <4> QED  BY <2>1, <3>3, <4>1
    <3> QED  BY <3>2, <3>3
  <2> QED  BY <1>2, <1>6, <2>4, <2>5, <2>6, <2>7, <2>8, <2>9 DEF IInv
<1>14. CASE i.ready /\ ~CloseLater(i)
  <2>1. /\ io' = [io EXCEPT ![f] = hio_done(i)] /\ sock' = [sock EXCEPT ![f] = "none"]
        /\ chan' = [c EXCEPT !.status = CLOSED]
    BY <1>1, <1>14
  <2>2. io'[f] = hio_done(i) /\ sock'[f] = "none"  BY <1>0, <2>1
  <2>3. \A g \in Fds : ~io'[g].ready  BY <1>4, <1>8, <1>10, <1>14, <2>2
  <2>4. Sounds'
    <3>1. Sound(io'[f], sock'[f], chan'.status)  BY <1>4, <2>2 DEF Sound
    <3>2. \A g \in Fds : g # f => Sound(io'[g], sock'[g], chan'.status)
      BY <1>8, <1>9, <1>10, <1>14, Unused
    <3> QED  BY <1>11, <3>1, <3>2 DEF Sounds
  <2>5. Owner'  BY <2>3 DEF Owner
  <2>6. Informed'
    <3>1. Pend(posted)' = Pend(posted')  BY DEF Pend
    <3> QED  BY <1>2, <2>3, <3>1 DEF Informed
  <2>7. Emptied'
    <3>1. \A g \in Fds : ~io'[g].unsent  BY <1>4, <1>8, <1>9, <1>10, <1>14, <2>2, Unused
    <3> QED  BY <3>1 DEF Emptied
  <2>8. Single'
    <3>1. SUFFICES ASSUME "restart" \notin use
                   PROVE  /\ timers' \in {0, 1} /\ OneStart(posted)'
                          /\ timers' = 1 => ~Starting'
      BY <1>5, <2>3 DEF Single
    <3>2. /\ timers \in {0, 1} /\ OneStart(posted) /\ (timers = 1 => ~Starting)
          /\ (timers = 1 \/ Starting => sock[f] = "fresh")
      BY <1>14, <3>1 DEF IInv, Single
    <3>3. CASE timers' = timers  BY <1>2, <3>2, <3>3
    <3>4. CASE timers' # timers
      <4>1. timers' = timers + 1 /\ r # NULL  BY <1>1, <3>4
      <4>2. timers # 1 /\ ~Starting  BY <1>14, <3>2, <4>1
      <4> QED  BY <1>2, <3>2, <4>1, <4>2
    <3> QED  BY <3>3, <3>4
  <2>9. Ended'
    <3>1. SUFFICES ASSUME user' = "close", ~late'  PROVE timers' = 0
      BY <2>3 DEF Ended
    <3>2. CASE UNCHANGED <<user, late>> /\ r = reconn
      BY <1>1, <1>14, <3>1, <3>2 DEF IInv, Ended
    <3>3. CASE r = NULL /\ late' = (timers > 0)
      <4>0. ~(timers > 0)  BY <3>1, <3>3, Zenon
      <4>1. timers = 0  BY <1>0, <4>0
      <4> QED  BY <1>1, <3>3, <4>1
    <3> QED  BY <3>2, <3>3
  <2> QED  BY <1>2, <1>6, <2>4, <2>5, <2>6, <2>7, <2>8, <2>9 DEF IInv
<1> QED  BY <1>12, <1>13, <1>14


\* hio_connect on an hio_t that is open and unused, for the client's channel.
LEMMA ConnectKeeps ==
    ASSUME IInv, UNCHANGED <<envVars, reconn, armed>>, left' \in Lefts, timers' \in Nat,
           user' \in {"none", "start", "close"}, late' \in BOOLEAN, user' = "close" => late',
           NEW f \in Fds, NEW i \in Ios, NEW q \in Seq(Posts), hio_connect(f, i, q),
           chan' = [fd |-> f, id |-> i.id, status |-> "CONNECTING"],
           i.ready, i.ctx = i.id, ~i.connect, ~i.connect_timer, ~i.close, ~i.close_timer, ~i.unsent,
           \A g \in Fds : g # f => ~io[g].ready,
           Once(q), \A e \in Pend(q) : e.kind \in {"nio_connect", "hio_close"} => e.fd # f \/ e.id # i.id,
           "restart" \notin use =>
              timers' = 0 /\ OneStart(q) /\ \A e \in Pend(q) : e.kind # "start"
    PROVE  IInv'
<1>0. /\ io \in [Fds -> Ios] /\ sock \in [Fds -> {"none", "fresh", "connecting",
                                              "established", "failed", "eof", "reset"}]
  BY DEF IInv, TypeOK
<1>1. PICK j, s, e :
        /\ io' = [io EXCEPT ![f] = j] /\ sock' = [sock EXCEPT ![f] = s] /\ j \in Ios
        /\ s \in {"failed", "established", "connecting"}
        /\ j.id = i.id /\ j.ctx = i.id /\ j.ready /\ ~j.close /\ ~j.close_timer /\ ~j.unsent
        /\ (j.connect <=> s = "connecting") /\ (j.connect_timer <=> s = "connecting")
        /\ e \in Posts /\ e.fd = f /\ e.id = i.id /\ e.kind \in {"nio_connect", "hio_close"}
        /\ (e.kind = "nio_connect" <=> s = "established")
        /\ posted' = IF s = "connecting" THEN q ELSE Append(q, e)
  <2>1. CASE ConnectFails(f, i, q)
    <3>1. [i EXCEPT !.error = TRUE] \in Ios  BY DEF Ios
    <3>2. LET j == [i EXCEPT !.error = TRUE] IN
            /\ j.id = i.id /\ j.ctx = i.id /\ j.ready /\ ~j.close /\ ~j.close_timer /\ ~j.unsent
            /\ ~j.connect /\ ~j.connect_timer
      BY DEF Ios
    <3>3. LET e == Event("hio_close", f, i) IN
            e \in Posts /\ e.fd = f /\ e.id = i.id /\ e.kind = "hio_close"
      BY DEF Event, Posts, Ios
    <3>4. /\ sock' = [sock EXCEPT ![f] = "failed"] /\ io' = [io EXCEPT ![f] = [i EXCEPT !.error = TRUE]]
          /\ posted' = Append(q, Event("hio_close", f, i))
      BY <2>1 DEF ConnectFails
    <3> WITNESS [i EXCEPT !.error = TRUE], "failed", Event("hio_close", f, i)
    <3> QED  BY <3>1, <3>2, <3>3, <3>4
  <2>2. CASE ConnectDone(f, i, q)
    <3>1. LET e == Event("nio_connect", f, i) IN
            e \in Posts /\ e.fd = f /\ e.id = i.id /\ e.kind = "nio_connect"
      BY DEF Event, Posts, Ios
    <3>2. /\ sock' = [sock EXCEPT ![f] = "established"] /\ io' = [io EXCEPT ![f] = i]
          /\ posted' = Append(q, Event("nio_connect", f, i))
      BY <2>2 DEF ConnectDone
    <3> WITNESS i, "established", Event("nio_connect", f, i)
    <3> QED  BY <3>1, <3>2
  <2>3. CASE ConnectWaits(f, i, q)
    <3>1. [i EXCEPT !.connect = TRUE, !.connect_timer = TRUE] \in Ios  BY DEF Ios
    <3>2. LET j == [i EXCEPT !.connect = TRUE, !.connect_timer = TRUE] IN
            /\ j.id = i.id /\ j.ctx = i.id /\ j.ready /\ ~j.close /\ ~j.close_timer /\ ~j.unsent
            /\ j.connect /\ j.connect_timer
      BY DEF Ios
    <3>3. LET e == Event("hio_close", f, i) IN
            e \in Posts /\ e.fd = f /\ e.id = i.id /\ e.kind = "hio_close"
      BY DEF Event, Posts, Ios
    <3>4. /\ sock' = [sock EXCEPT ![f] = "connecting"] /\ posted' = q
          /\ io' = [io EXCEPT ![f] = [i EXCEPT !.connect = TRUE, !.connect_timer = TRUE]]
      BY <2>3 DEF ConnectWaits
    <3> WITNESS [i EXCEPT !.connect = TRUE, !.connect_timer = TRUE], "connecting",
                Event("hio_close", f, i)
    <3> QED  BY <3>1, <3>2, <3>3, <3>4
  <2> QED  BY <2>1, <2>2, <2>3 DEF hio_connect
<1>2. use' = use /\ setting' = setting /\ server' = server  BY DEF envVars
<1>3. /\ io'[f] = j /\ sock'[f] = s /\ \A g \in Fds : g # f => io'[g] = io[g] /\ sock'[g] = sock[g]
  BY <1>0, <1>1
<1>4. chan'.fd = f /\ chan'.id = i.id /\ chan'.status = "CONNECTING"  OBVIOUS
<1>5. /\ posted' \in Seq(Posts)
      /\ Pend(posted') \subseteq Pend(q) \cup {e} /\ (s = "connecting" => Pend(posted') = Pend(q))
      /\ Once(posted') /\ (OneStart(q) => OneStart(posted'))
  <2>1. e \notin Pend(q)  BY <1>1
  <2> QED  BY <1>1, <2>1, Queues
<1>6. TypeOK'
  <2>1. io' \in [Fds -> Ios]  BY <1>0, <1>1
  <2>2. sock' \in [Fds -> {"none", "fresh", "connecting", "established", "failed", "eof", "reset"}]
    BY <1>0, <1>1
  <2>3. i.id \in Nat  BY DEF Ios
  <2>4. chan' \in [fd : Fds, id : Nat, status : {"OPENED", "CONNECTING", "CONNECTED", CLOSED}]
    BY <2>3
  <2>5. (reconn = NULL \/ reconn \in Counters)'  BY <1>2 DEF Counters, NULL, IInv, TypeOK
  <2>6. server' \in {"up", "down"} /\ setting' \in Settings /\ use' \in Uses /\ armed' \in 0..Steady
    BY <1>2 DEF IInv, TypeOK
  <2> QED  BY <1>5, <2>1, <2>2, <2>4, <2>5, <2>6 DEF TypeOK, Lefts
<1>7. \A g \in Fds : Sound(io[g], sock[g], chan.status)' = Sound(io'[g], sock'[g], chan'.status)
  BY <1>2 DEF Sound
<1>8. \A g \in Fds : Sound(io[g], sock[g], chan.status)  BY DEF IInv, Sounds
<1>9. Sounds'
  <2>1. Sound(io'[f], sock'[f], chan'.status)  BY <1>1, <1>3, <1>4 DEF Sound, CLOSED
  <2>2. \A g \in Fds : g # f => Sound(io'[g], sock'[g], chan'.status)  BY <1>3, <1>8, Unused
  <2> QED  BY <1>7, <2>1, <2>2 DEF Sounds
<1>10. Owner'  BY <1>1, <1>3, <1>4 DEF Owner
<1>11. Informed'
  <2>1. Pend(posted)' = Pend(posted')  BY DEF Pend
  <2>2. \A d \in Pend(posted') : d.fd \in Fds
    <3>1. \A k \in DOMAIN posted' : posted'[k] \in Posts  BY <1>5
    <3> QED  BY <3>1 DEF Pend, Posts
  <2>3. SUFFICES ASSUME NEW d \in Pend(posted'), io'[d.fd].id = d.id, io'[d.fd].ready,
                        d.kind \in {"nio_connect", "hio_close"}
                 PROVE  /\ d.kind = "nio_connect" => ~io'[d.fd].connect /\ sock'[d.fd] = "established"
                        /\ d.kind = "hio_close" => sock'[d.fd] = "failed"
    BY <1>4, <2>1 DEF Informed
  <2>4. d.fd = f /\ d.id = i.id  BY <1>1, <1>3, <2>2, <2>3
  <2>5. d \notin Pend(q)  BY <2>3, <2>4
  <2>6. d = e /\ s # "connecting"  BY <1>5, <2>5
  <2> QED  BY <1>1, <1>3, <2>4, <2>6
<1>12. Once(posted)'
  <2>1. Once(posted') = Once(posted)'  BY DEF Once
  <2> QED  BY <1>5, <2>1
<1>13. Emptied'
  <2>1. \A g \in Fds : ~io'[g].unsent  BY <1>1, <1>3, <1>8, Unused
  <2> QED  BY <2>1 DEF Emptied
<1>14. Single'
  <2>1. OneStart(posted') = OneStart(posted)'  BY DEF OneStart
  <2>2. "restart" \notin use => ~Starting'
    <3>1. Pend(posted)' = Pend(posted')  BY DEF Pend
    <3> QED  BY <1>1, <1>5, <3>1 DEF Starting
  <2> QED  BY <1>2, <1>5, <2>1, <2>2 DEF Single
<1>15. Ended'  BY DEF Ended
<1> QED  BY <1>6, <1>9, <1>10, <1>11, <1>12, <1>13, <1>14, <1>15 DEF IInv


\* A step that only takes an event from the queue or a timer from the loop.
LEMMA IdleKeeps ==
    ASSUME IInv, Fewer, UNCHANGED <<envVars, io, sock, chan, reconn, armed>>, left' \in Lefts,
           timers' \in Nat, user' \in {"none", "start", "close"}, late' \in BOOLEAN,
           user' = "close" => late',
           "restart" \notin use => timers' = 0 /\ \A e \in Pend(posted') : e.kind # "start"
    PROVE  IInv'
<1>1. /\ posted' \in Seq(Posts)
      /\ \A e \in Pend(posted') : e \in Pend(posted) /\ e.fd \in Fds
      /\ Once(posted)' /\ (OneStart(posted) => OneStart(posted)')
  BY FewerKeeps
<1>2. Pend(posted)' = Pend(posted')  BY DEF Pend
<1>3. use' = use /\ setting' = setting /\ server' = server  BY DEF envVars
<1>4. TypeOK'
  <2>1. (reconn = NULL \/ reconn \in Counters)'  BY <1>3 DEF Counters, NULL, IInv, TypeOK
  <2>2. /\ io' \in [Fds -> Ios] /\ armed' \in 0..Steady
        /\ sock' \in [Fds -> {"none", "fresh", "connecting", "established", "failed", "eof", "reset"}]
        /\ chan' \in [fd : Fds, id : Nat, status : {"OPENED", "CONNECTING", "CONNECTED", CLOSED}]
        /\ server' \in {"up", "down"} /\ setting' \in Settings /\ use' \in Uses
    BY <1>3 DEF IInv, TypeOK
  <2> QED  BY <1>1, <2>1, <2>2 DEF TypeOK, Lefts
<1>5. Sounds' /\ Owner'  BY <1>3 DEF IInv, Sounds, Sound, Owner
<1>6. Informed'  BY <1>1, <1>2 DEF IInv, Informed
<1>7. Emptied'  BY <1>1, <1>2, <1>3 DEF IInv, Emptied
<1>8. Single'  BY <1>1, <1>2, <1>3 DEF IInv, Single, Starting
<1>9. Ended'  BY DEF Ended
<1> QED  BY <1>1, <1>4, <1>5, <1>6, <1>7, <1>8, <1>9 DEF IInv

\* What startConnect finds, when a timer or a posted start runs it; p is
\* what is posted besides.
LEMMA Startings ==
    ASSUME IInv, ReconnectTimer \/ RunStart
    PROVE  \E p : /\ p = posted \/ (posted # << >> /\ p = Tail(posted))
                  /\ startConnect(p) /\ UNCHANGED <<reconn, armed, envVars>>
                  /\ p \in Seq(Posts) /\ Once(p) /\ Pend(p) \subseteq Pend(posted)
                  /\ timers' \in Nat /\ user' \in {"none", "start", "close"} /\ late' \in BOOLEAN
                  /\ user' = "close" => late'
                  /\ "restart" \notin use =>
                        /\ timers' = 0 /\ OneStart(p) /\ \A e \in Pend(p) : e.kind # "start"
                        /\ \A f \in Fds : io[f].ready => sock[f] = "fresh"
<1>0. /\ posted \in Seq(Posts) /\ timers \in Nat /\ Once(posted)
      /\ user \in {"none", "start", "close"} /\ late \in BOOLEAN
  BY DEF IInv, TypeOK
<1>1. CASE ReconnectTimer
  <2>1. /\ timers > 0 /\ timers' = timers - 1 /\ startConnect(posted)
        /\ UNCHANGED <<reconn, armed, envVars>> /\ user' = user /\ late' = late
    BY <1>1 DEF ReconnectTimer
  <2>2. timers' \in Nat /\ timers # 0 /\ (timers = 1 => timers' = 0)  BY <1>0, <2>1
  <2>3. user = "close" => late  BY <2>2 DEF IInv, Ended
  <2>4. "restart" \notin use =>
            /\ timers = 1 /\ OneStart(posted) /\ \A e \in Pend(posted) : e.kind # "start"
            /\ \A f \in Fds : io[f].ready => sock[f] = "fresh"
    BY <2>2 DEF IInv, Single, Starting
  <2> WITNESS posted
  <2> QED  BY <1>0, <2>1, <2>2, <2>3, <2>4
<1>2. CASE RunStart
  <2>1. /\ posted # << >> /\ Head(posted).kind = "start" /\ startConnect(Tail(posted))
        /\ user' = "start" /\ late' = FALSE /\ UNCHANGED <<reconn, timers, armed, envVars>>
    BY <1>2 DEF RunStart, Posted
  <2>2. /\ Tail(posted) \in Seq(Posts) /\ Pend(Tail(posted)) \subseteq Pend(posted)
        /\ Head(posted) \in Pend(posted) /\ Once(Tail(posted))
        /\ OneStart(posted) => /\ OneStart(Tail(posted))
                               /\ \A d \in Pend(Tail(posted)) : d.kind # "start"
    BY <1>0, <2>1, Rests
  <2>3. Starting  BY <2>1, <2>2 DEF Starting
  <2>4. "restart" \notin use =>
            /\ timers = 0 /\ OneStart(posted)
            /\ \A f \in Fds : io[f].ready => sock[f] = "fresh"
    BY <2>3 DEF IInv, Single
  <2> WITNESS Tail(posted)
  <2> QED  BY <1>0, <2>1, <2>2, <2>4
<1> QED  BY <1>1, <1>2

\* startConnect replaces the channel only when no hio_t points to it.
LEMMA NoneOpen ==
    ASSUME Apart, IInv, NeedsSocket,
           "restart" \notin use => \A f \in Fds : io[f].ready => sock[f] = "fresh"
    PROVE  \A f \in Fds : ~io[f].ready
<1>1. SUFFICES ASSUME NEW f \in Fds, io[f].ready  PROVE FALSE
  OBVIOUS
<1>2. f = chan.fd /\ io[f].id = chan.id  BY <1>1 DEF IInv, Owner
<1>3. chan.status \in {"OPENED", "CONNECTING", "CONNECTED", CLOSED} /\ use \in Uses
  BY DEF IInv, TypeOK
<1>4. chan.status = CLOSED  BY <1>1, <1>2, <1>3 DEF NeedsSocket, isOpened, CLOSED
<1>5. Sound(io[f], sock[f], chan.status)  BY DEF IInv, Sounds
<1>6. io[f].unsent /\ sock[f] # "fresh" /\ "unsent_close" \in use  BY <1>1, <1>4, <1>5 DEF Sound
<1>7. "restart" \notin use  BY <1>3, <1>6 DEF Apart
<1> QED  BY <1>1, <1>6, <1>7

LEMMA StartKeeps ==
    ASSUME Apart, IInv, ReconnectTimer \/ RunStart
    PROVE  IInv'
<1>0. /\ TypeOK /\ io \in [Fds -> Ios] /\ left \in Lefts
      /\ chan \in [fd : Fds, id : Nat, status : {"OPENED", "CONNECTING", "CONNECTED", CLOSED}]
  BY DEF IInv, TypeOK, Lefts
<1>1. PICK p : /\ p = posted \/ (posted # << >> /\ p = Tail(posted))
               /\ startConnect(p) /\ UNCHANGED <<reconn, armed, envVars>>
               /\ p \in Seq(Posts) /\ Once(p) /\ Pend(p) \subseteq Pend(posted)
               /\ timers' \in Nat /\ user' \in {"none", "start", "close"} /\ late' \in BOOLEAN
               /\ user' = "close" => late'
               /\ "restart" \notin use =>
                     /\ timers' = 0 /\ OneStart(p) /\ \A e \in Pend(p) : e.kind # "start"
                     /\ \A f \in Fds : io[f].ready => sock[f] = "fresh"
  BY Startings
<1>2. ASSUME NEW f \in Fds, NeedsSocket, left' = left,
             chan' = [fd |-> f, id |-> NextId, status |-> "CONNECTING"],
             hio_connect(f, hio_ready(f), p)
      PROVE  IInv'
  <2> DEFINE i == hio_ready(f)
  <2>1. NextId \in Nat /\ \A e \in Pend(posted) : e.id # NextId  BY <1>0, FreshId
  <2>2. /\ i \in Ios /\ i.id = NextId /\ i.ready /\ i.ctx = i.id /\ ~i.connect /\ ~i.connect_timer
        /\ ~i.close /\ ~i.close_timer /\ ~i.unsent
    BY <2>1 DEF hio_ready, Ios
  <2>3. \A g \in Fds : ~io[g].ready  BY <1>1, <1>2, NoneOpen
  <2>4. \A e \in Pend(p) : e.id # NextId  BY <1>1, <2>1
  <2> HIDE DEF i
  <2>5. hio_connect(f, i, p) /\ chan' = [fd |-> f, id |-> i.id, status |-> "CONNECTING"]
    BY <1>2, <2>2 DEF i
  <2> QED  BY <1>0, <1>1, <1>2, <2>2, <2>3, <2>4, <2>5, ConnectKeeps
<1>3. ASSUME ~NeedsSocket, chan.status = "OPENED", left' = left,
             chan' = [chan EXCEPT !.status = "CONNECTING"],
             hio_connect(chan.fd, io[chan.fd], p)
      PROVE  IInv'
  <2> DEFINE f == chan.fd
             i == io[f]
  <2>1. f \in Fds /\ i \in Ios /\ i.ready /\ i.id = chan.id
    BY <1>0, <1>3 DEF NeedsSocket, isOpened
  <2>2. i.ctx = i.id /\ \A g \in Fds : g # f => ~io[g].ready  BY <2>1 DEF IInv, Owner
  <2>3. Sound(i, sock[f], "OPENED")  BY <1>3, <2>1 DEF IInv, Sounds
  <2>4. ~i.connect /\ ~i.connect_timer /\ ~i.close /\ ~i.close_timer /\ ~i.unsent
    BY <2>1, <2>3 DEF Sound, CLOSED
  <2>5. sock[f] = "fresh"  BY <2>1, <2>3 DEF Sound
  <2>6. \A e \in Pend(p) : e.kind \in {"nio_connect", "hio_close"} => e.fd # f \/ e.id # i.id
    BY <1>1, <1>3, <2>1, <2>5 DEF IInv, Informed
  <2>7. chan' = [fd |-> f, id |-> i.id, status |-> "CONNECTING"]  BY <1>0, <1>3, <2>1
  <2> HIDE DEF f, i
  <2> QED  BY <1>0, <1>1, <1>3, <2>1, <2>2, <2>4, <2>6, <2>7, ConnectKeeps DEF f, i
<1>4. ASSUME posted' = p, UNCHANGED <<io, sock, chan>>, left' \in Lefts  PROVE IInv'
  <2>1. Fewer  BY <1>1, <1>4 DEF Fewer
  <2> QED  BY <1>1, <1>4, <2>1, IdleKeeps
<1>5. ASSUME left.faults > 0  PROVE [left EXCEPT !.faults = left.faults - 1] \in Lefts
  BY <1>0, <1>5 DEF Lefts
<1> QED  BY <1>0, <1>1, <1>2, <1>3, <1>4, <1>5 DEF startConnect


\* The same hio_t but for error, connect, connect_timer, close_timer and
\* reading.
Alike(i, j) ==
    /\ j \in Ios /\ j.id = i.id /\ j.ctx = i.ctx /\ j.ready = i.ready
    /\ j.unsent = i.unsent /\ j.close = i.close

LEMMA Likes ==
    ASSUME NEW i \in Ios
    PROVE  /\ LET j == [i EXCEPT !.error = TRUE]
              IN  Alike(i, j) /\ j.error /\ j.connect = i.connect
                     /\ j.connect_timer = i.connect_timer /\ j.close_timer = i.close_timer
           /\ LET j == [i EXCEPT !.connect = FALSE]
              IN  Alike(i, j) /\ ~j.connect /\ j.close_timer = i.close_timer
           /\ LET j == [i EXCEPT !.error = TRUE, !.connect_timer = FALSE]
              IN  Alike(i, j) /\ j.error
           /\ LET j == [i EXCEPT !.error = TRUE, !.close_timer = FALSE]
              IN  Alike(i, j) /\ j.error
           /\ LET j == [i EXCEPT !.connect_timer = FALSE, !.reading = TRUE]
              IN  Alike(i, j) /\ ~j.connect_timer /\ j.connect = i.connect
                     /\ j.close_timer = i.close_timer
BY DEF Alike, Ios

\* __connect_cb on the hio_t of the client's channel.
LEMMA ConnectedKeeps ==
    ASSUME IInv, Fewer, UNCHANGED envVars, NEW f \in Fds, NEW i, Alike(io[f], i),
           i.close_timer = io[f].close_timer, i.ready, ~i.connect,
           chan.status = "CONNECTING", sock[f] \in {"established", "eof"}, Connected(f, i),
           \A e \in Pend(posted') : e.kind = "nio_connect" => e.fd # f \/ e.id # io[f].id
    PROVE  IInv'
<1> DEFINE on == [i EXCEPT !.connect_timer = FALSE, !.reading = TRUE]
           up == [chan EXCEPT !.status = "CONNECTED"]
<1>0. /\ TypeOK /\ io \in [Fds -> Ios] /\ left \in Lefts /\ timers \in Nat
      /\ chan \in [fd : Fds, id : Nat, status : {"OPENED", "CONNECTING", "CONNECTED", CLOSED}]
      /\ user \in {"none", "start", "close"} /\ late \in BOOLEAN
      /\ i \in Ios
  BY DEF IInv, TypeOK, Lefts, Alike
<1>1. /\ on \in Ios /\ on.id = io[f].id /\ on.ctx = io[f].ctx /\ on.ready /\ io[f].ready
      /\ on.unsent = io[f].unsent /\ on.close = io[f].close /\ on.close_timer = io[f].close_timer
      /\ ~on.connect /\ ~on.connect_timer
  BY <1>0, Likes DEF Alike
<1>2. f = chan.fd /\ io[f].id = chan.id /\ io[f].ctx = chan.id /\ \A g \in Fds : g # f => ~io[g].ready
  BY <1>1 DEF IInv, Owner
<1>3. \A g \in Fds : Sound(io[g], sock[g], chan.status)  BY DEF IInv, Sounds
<1>4. ~io[f].unsent /\ ~io[f].close /\ ~io[f].close_timer  BY <1>1, <1>3 DEF Sound, CLOSED
<1>5. /\ up \in [fd : Fds, id : Nat, status : {"OPENED", "CONNECTING", "CONNECTED", CLOSED}]
      /\ up.fd = f /\ up.id = chan.id /\ up.status = "CONNECTED"
      /\ [up EXCEPT !.status = CLOSED] = [chan EXCEPT !.status = CLOSED]
  BY <1>0, <1>2
<1> HIDE DEF on, up
<1>6. CASE /\ io' = [io EXCEPT ![f] = on] /\ chan' = up
           /\ reconn' = IF reconn = NULL THEN NULL ELSE reconn_setting_reset(reconn)
           /\ armed' = IF reconn = NULL THEN armed ELSE 0
           /\ UNCHANGED <<sock, timers, left, user, late>>
  <2>1. use' = use /\ setting' = setting /\ server' = server  BY DEF envVars
  <2>2. io'[f] = on /\ \A g \in Fds : g # f => io'[g] = io[g]  BY <1>0, <1>6
  <2>3. /\ posted' \in Seq(Posts)
        /\ \A e \in Pend(posted') : e \in Pend(posted) /\ e.fd \in Fds
        /\ Once(posted)' /\ (OneStart(posted) => OneStart(posted)') /\ (Starting' => Starting)
    BY FewerKeeps
  <2>4. Pend(posted)' = Pend(posted')  BY DEF Pend
  <2>5. TypeOK'
    <3>1. io' \in [Fds -> Ios] /\ chan' \in [fd : Fds, id : Nat,
                                             status : {"OPENED", "CONNECTING", "CONNECTED", CLOSED}]
      BY <1>0, <1>1, <1>5, <1>6
    <3>2. (reconn = NULL \/ reconn \in Counters)'
      <4>1. CASE reconn = NULL  BY <1>6, <4>1 DEF NULL
      <4>2. CASE reconn # NULL
        <5>1. reconn \in Counters /\ setting.max_delay \in Nat /\ CountMod - 1 \in Nat
          BY <1>0, <4>2, TcpClientAssumption DEF TypeOK
        <5>2. reconn_setting_reset(reconn) \in Counters
          <6>1. 0 \in 0..(CountMod - 1) /\ 0 \in 0..setting.max_delay  BY <5>1
          <6> QED  BY <5>1, <6>1 DEF reconn_setting_reset, Counters
        <5> QED  BY <1>6, <2>1, <4>2, <5>2 DEF Counters
      <4> QED  BY <4>1, <4>2
    <3>3. armed' \in 0..Steady  BY <1>0, <1>6, TcpClientAssumption DEF TypeOK
    <3>4. /\ sock' \in [Fds -> {"none", "fresh", "connecting", "established", "failed", "eof", "reset"}]
          /\ server' \in {"up", "down"} /\ setting' \in Settings /\ use' \in Uses
      BY <1>0, <1>6, <2>1 DEF TypeOK
    <3> QED  BY <1>0, <1>6, <2>3, <3>1, <3>2, <3>3, <3>4 DEF TypeOK, Lefts
  <2>6. Sounds'
    <3>1. \A g \in Fds : Sound(io[g], sock[g], chan.status)' = Sound(io'[g], sock'[g], chan'.status)
      BY <2>1 DEF Sound
    <3>2. Sound(on, sock[f], "CONNECTED")  BY <1>1, <1>4 DEF Sound, CLOSED
    <3>3. \A g \in Fds : g # f => Sound(io[g], sock[g], "CONNECTED")  BY <1>2, <1>3, Unused
    <3> QED  BY <1>5, <1>6, <2>2, <3>1, <3>2, <3>3 DEF Sounds
  <2>7. Owner'  BY <1>1, <1>2, <1>5, <1>6, <2>2 DEF Owner
  <2>8. Informed'
    <3>1. SUFFICES ASSUME NEW e \in Pend(posted'), io'[e.fd].id = e.id, io'[e.fd].ready,
                          e.kind \in {"nio_connect", "hio_close"}
                   PROVE  FALSE
      BY <2>4 DEF Informed
    <3>2. e.fd = f /\ e \in Pend(posted)  BY <1>2, <2>2, <2>3, <3>1
    <3>3. io[e.fd].id = e.id /\ io[e.fd].ready  BY <1>1, <2>2, <3>1, <3>2
    <3> QED  BY <3>1, <3>2, <3>3 DEF IInv, Informed
  <2>9. Emptied'
    BY <1>1, <2>1, <2>2, <2>3, <2>4 DEF IInv, Emptied
  <2>10. Single'
    BY <1>1, <1>6, <2>1, <2>2, <2>3 DEF IInv, Single
  <2>11. Ended'
    <3>1. ~(user = "close" /\ ~late)  BY <1>1, <1>4 DEF IInv, Ended
    <3> QED  BY <1>6, <3>1 DEF Ended
  <2> QED  BY <2>3, <2>5, <2>6, <2>7, <2>8, <2>9, <2>10, <2>11 DEF IInv
<1>7. CASE /\ left.closes > 0
           /\ left' = [left EXCEPT !.closes = left.closes - 1]
           /\ closesocketInLoop(on, up)
           /\ user' = "close" /\ late' = (timers > 0)
  <2>1. isOpened(up)  BY <1>1, <1>2, <1>5 DEF isOpened, CLOSED
  <2>2. hio_close(f, on, [chan EXCEPT !.status = CLOSED], NULL)
    BY <1>5, <1>7, <2>1 DEF closesocketInLoop
  <2>3. left' \in Lefts  BY <1>0, <1>7 DEF Lefts
  <2>4. ~CloseLater(on)  BY <1>1, <1>4 DEF CloseLater
  <2> QED  BY <1>1, <1>7, <2>2, <2>3, <2>4, CloseKeeps
<1> QED  BY <1>6, <1>7 DEF Connected, on, up


\* The loop's handlers.
LEMMA HandlerKeeps ==
    ASSUME IInv, NEW f \in Fds, \/ HandleConnect(f) \/ HandleRead(f) \/ HandleWrite(f)
                                \/ connect_timeout_cb(f) \/ close_timeout_cb(f)
    PROVE  IInv'
<1>0. /\ TypeOK /\ io \in [Fds -> Ios] /\ io[f] \in Ios /\ left \in Lefts
  BY DEF IInv, TypeOK, Lefts
<1>1. Sound(io[f], sock[f], chan.status)  BY DEF IInv, Sounds
<1>2. ASSUME NEW i, Alike(io[f], i), i.error, io[f].ready, hio_close(f, i, chan, reconn),
             Fewer, UNCHANGED <<envVars, user, late>>, left' \in Lefts,
             sock[f] # "fresh"
      PROVE  IInv'
  <2>1. ~CloseLater(i)  BY <1>2 DEF CloseLater
  <2>2. /\ i \in Ios /\ i.id = io[f].id /\ i.ctx = io[f].ctx /\ i.ready = io[f].ready
        /\ i.unsent = io[f].unsent
    BY <1>2 DEF Alike
  <2> QED  BY <1>2, <2>1, <2>2, CloseKeeps
<1>3. CASE HandleConnect(f)
  <2> DEFINE i == [io[f] EXCEPT !.connect = FALSE]
  <2>1. /\ io[f].ready /\ io[f].connect /\ nio_connect(f, i)
        /\ sock[f] \in {"established", "failed", "eof", "reset"}
        /\ UNCHANGED <<posted, envVars>>
    BY SMTT(30), <1>3 DEF HandleConnect
  <2>2. Alike(io[f], i) /\ ~i.connect /\ i.close_timer = io[f].close_timer  BY <1>0, Likes
  <2>3. Fewer  BY <2>1 DEF Fewer
  <2> HIDE DEF i
  <2>4. CASE sock[f] \in {"established", "eof"}
    <3>1. Connected(f, i)  BY <2>1, <2>4 DEF nio_connect
    <3>2. chan.status = "CONNECTING"  BY <1>1, <2>1 DEF Sound
    <3>3. \A e \in Pend(posted') : e.kind = "nio_connect" => e.fd # f \/ e.id # io[f].id
      BY <2>1 DEF IInv, Informed
    <3>4. i.ready  BY <2>1, <2>2 DEF Alike
    <3> QED  BY <2>1, <2>2, <2>3, <2>4, <3>1, <3>2, <3>3, <3>4, ConnectedKeeps
  <2>5. CASE sock[f] \notin {"established", "eof"}
    <3> DEFINE j == [i EXCEPT !.error = TRUE]
    <3>1. hio_close(f, j, chan, reconn) /\ UNCHANGED <<left, user, late>>
      BY <2>1, <2>5 DEF nio_connect
    <3>2. i \in Ios  BY SMTT(30), <2>2 DEF Alike
    <3>3. Alike(i, j) /\ j.error  BY <3>2, Likes
    <3>4. Alike(io[f], j)  BY <2>2, <3>3 DEF Alike
    <3> HIDE DEF j
    <3> QED  BY <1>0, <1>2, <2>1, <2>3, <3>1, <3>3, <3>4
  <2> QED  BY <2>4, <2>5
<1>4. CASE HandleRead(f)
  <2> DEFINE i == [io[f] EXCEPT !.error = io[f].error \/ sock[f] = "reset"]
  <2>1. /\ io[f].ready /\ sock[f] \in {"eof", "reset"} /\ hio_close(f, i, chan, reconn)
        /\ UNCHANGED <<posted, envVars, left, user, late>>
    BY <1>4 DEF HandleRead
  <2>2. Fewer  BY <2>1 DEF Fewer
  <2>3. /\ i \in Ios /\ i.id = io[f].id /\ i.ctx = io[f].ctx /\ i.ready = io[f].ready
        /\ i.unsent = io[f].unsent /\ i.connect = io[f].connect
        /\ i.connect_timer = io[f].connect_timer
    BY <1>0 DEF Ios
  <2> DEFINE j == [i EXCEPT !.close = TRUE, !.close_timer = TRUE]
  <2> HIDE DEF i
  <2>4. i.unsent => Sound(j, sock[f], chan.status)
    <3>1. /\ j \in Ios /\ j.close /\ j.close_timer
          /\ j.id = i.id /\ j.ready = i.ready /\ j.ctx = i.ctx /\ j.connect = i.connect
          /\ j.connect_timer = i.connect_timer /\ j.unsent = i.unsent
      BY <2>3, Marks
    <3> HIDE DEF j
    <3> QED  BY <1>1, <2>1, <2>3, <3>1 DEF Sound
  <2>5. CloseLater(i) => Sound(j, sock[f], chan.status)  BY <2>4 DEF CloseLater
  <2> QED  BY <1>0, <2>1, <2>2, <2>3, <2>5, CloseKeeps
<1>5. CASE HandleWrite(f)
  <2> DEFINE i == [io[f] EXCEPT !.unsent = FALSE]
  <2>1. /\ io[f].ready /\ io[f].unsent
        /\ IF i.close THEN hio_close(f, i, chan, reconn)
           ELSE io' = [io EXCEPT ![f] = i] /\ UNCHANGED <<sock, chan, reconn, timers, armed>>
        /\ UNCHANGED <<posted, envVars, left, user, late>>
    BY <1>5 DEF HandleWrite
  <2>2. Fewer  BY <2>1 DEF Fewer
  <2>3. /\ i \in Ios /\ i.id = io[f].id /\ i.ctx = io[f].ctx /\ i.ready = io[f].ready
        /\ ~i.unsent /\ i.connect = io[f].connect /\ i.close = io[f].close
        /\ i.connect_timer = io[f].connect_timer /\ i.close_timer = io[f].close_timer
    BY <1>0 DEF Ios
  <2> HIDE DEF i
  <2>4. sock[f] # "fresh"  BY <1>1, <2>1 DEF Sound
  <2>5. CASE i.close
    <3>1. ~CloseLater(i)  BY <2>3 DEF CloseLater
    <3> QED  BY <1>0, <2>1, <2>2, <2>3, <2>4, <2>5, <3>1, CloseKeeps
  <2>6. CASE ~i.close
    <3>1. /\ io' = [io EXCEPT ![f] = i]
          /\ UNCHANGED <<sock, chan, reconn, timers, armed, posted, envVars, left, user, late>>
      BY <2>1, <2>6
    <3>2. io'[f] = i /\ \A g \in Fds : g # f => io'[g] = io[g]  BY <1>0, <3>1
    <3>3. use' = use /\ setting' = setting /\ server' = server  BY <3>1 DEF envVars
    <3>4. TypeOK'
      <4>1. io' \in [Fds -> Ios]  BY <1>0, <2>3, <3>1
      <4>2. (reconn = NULL \/ reconn \in Counters)'  BY <1>0, <3>1, <3>3 DEF TypeOK, Counters, NULL
      <4> QED  BY <1>0, <3>1, <3>3, <4>1, <4>2 DEF TypeOK
    <3>5. Sounds'
      <4>1. Sound(i, sock[f], chan.status)
        <5>1. chan.status # CLOSED  BY <1>1, <2>1, <2>3, <2>6 DEF Sound
        <5> QED  BY <1>1, <2>1, <2>3, <2>6, <5>1 DEF Sound
      <4>2. \A g \in Fds : Sound(io[g], sock[g], chan.status)' = Sound(io'[g], sock'[g], chan'.status)
        BY <3>3 DEF Sound
      <4> QED  BY <3>1, <3>2, <4>1, <4>2 DEF IInv, Sounds
    <3>6. Owner'  BY <2>3, <3>1, <3>2 DEF IInv, Owner
    <3>7. Informed' /\ Once(posted)'
      <4>1. \A e \in Pend(posted) : e.fd \in Fds
        BY <2>2, <3>1, FewerKeeps
      <4>2. Pend(posted)' = Pend(posted) /\ Once(posted)' = Once(posted)  BY <3>1 DEF Pend, Once
      <4> QED  BY <2>3, <3>1, <3>2, <4>1, <4>2 DEF IInv, Informed
    <3>8. Emptied'  BY <2>3, <3>1, <3>2, <3>3 DEF IInv, Emptied, Pend
    <3>9. Single'  BY <2>3, <3>1, <3>2, <3>3 DEF IInv, Single, Starting, Pend, OneStart
    <3>10. Ended'  BY <2>3, <3>1, <3>2 DEF IInv, Ended
    <3> QED  BY <3>4, <3>5, <3>6, <3>7, <3>8, <3>9, <3>10 DEF IInv
  <2> QED  BY <2>5, <2>6
<1>6. CASE connect_timeout_cb(f)
  <2> DEFINE i == [io[f] EXCEPT !.error = TRUE, !.connect_timer = FALSE]
  <2>1. /\ io[f].connect_timer /\ hio_close(f, i, chan, reconn)
        /\ left' = left \/ (left.faults > 0 /\ left' = [left EXCEPT !.faults = left.faults - 1])
        /\ UNCHANGED <<posted, envVars, user, late>>
    BY <1>6 DEF connect_timeout_cb
  <2>2. Fewer /\ left' \in Lefts  BY SMTT(30), <1>0, <2>1 DEF Fewer, Lefts
  <2>3. Alike(io[f], i) /\ i.error  BY <1>0, Likes
  <2>4. io[f].ready /\ sock[f] # "fresh"  BY <1>1, <2>1 DEF Sound
  <2> HIDE DEF i
  <2> QED  BY <1>2, <2>1, <2>2, <2>3, <2>4
<1>7. CASE close_timeout_cb(f)
  <2> DEFINE i == [io[f] EXCEPT !.error = TRUE, !.close_timer = FALSE]
  <2>1. /\ io[f].close_timer /\ hio_close(f, i, chan, reconn)
        /\ UNCHANGED <<posted, envVars, left, user, late>>
    BY <1>7 DEF close_timeout_cb
  <2>2. Fewer /\ left' \in Lefts  BY SMTT(30), <1>0, <2>1 DEF Fewer
  <2>3. Alike(io[f], i) /\ i.error  BY <1>0, Likes
  <2>4. io[f].ready /\ sock[f] # "fresh"  BY <1>1, <2>1 DEF Sound
  <2> HIDE DEF i
  <2> QED  BY <1>2, <2>1, <2>2, <2>3, <2>4
<1> QED  BY <1>3, <1>4, <1>5, <1>6, <1>7


\* The posted functions and events.
LEMMA PostedKeeps ==
    ASSUME IInv, RunClose \/ nio_connect_event_cb \/ hio_close_event_cb
    PROVE  IInv'
<1>0. /\ TypeOK /\ io \in [Fds -> Ios] /\ left \in Lefts /\ posted \in Seq(Posts) /\ timers \in Nat
      /\ chan \in [fd : Fds, id : Nat, status : {"OPENED", "CONNECTING", "CONNECTED", CLOSED}]
      /\ Once(posted) /\ late \in BOOLEAN
  BY DEF IInv, TypeOK, Lefts
<1>1. posted # << >> /\ posted' = Tail(posted) /\ UNCHANGED envVars
  BY DEF RunClose, nio_connect_event_cb, hio_close_event_cb, Posted
<1>2. Fewer  BY <1>1 DEF Fewer
<1>3. /\ Head(posted) \in Pend(posted) /\ Head(posted) \in Posts
      /\ Head(posted).kind = "nio_connect" => Head(posted) \notin Pend(posted')
  BY <1>0, <1>1, Rests
<1>4. \A g \in Fds : Sound(io[g], sock[g], chan.status)  BY DEF IInv, Sounds
<1>5. \A g \in Fds : io[g].ready => g = chan.fd /\ io[g].id = chan.id /\ io[g].ctx = chan.id
  BY DEF IInv, Owner
<1>6. /\ posted' \in Seq(Posts) /\ \A e \in Pend(posted') : e \in Pend(posted) /\ e.fd \in Fds
      /\ Once(posted)' /\ (OneStart(posted) => OneStart(posted)') /\ (Starting' => Starting)
  BY <1>2, FewerKeeps
<1>7. Pend(posted)' = Pend(posted')  BY DEF Pend
<1>8. use' = use /\ setting' = setting /\ server' = server  BY <1>1 DEF envVars
<1>9. CASE RunClose
  <2> DEFINE f == chan.fd
             i == io[chan.fd]
  <2>1. /\ Head(posted).kind = "closesocket" /\ closesocketInLoop(i, chan)
        /\ user' = "close" /\ late' = (timers > 0) /\ left' = left
    BY <1>9 DEF RunClose, Posted
  <2>2. f \in Fds /\ i \in Ios /\ i = io[f]  BY <1>0
  <2>3. CASE isOpened(chan)
    <3>1. hio_close(f, i, [chan EXCEPT !.status = CLOSED], NULL)
      BY <2>1, <2>3 DEF closesocketInLoop
    <3>2. i.ready  BY <2>3 DEF isOpened
    <3>3. CloseLater(i) => Sound([i EXCEPT !.close = TRUE, !.close_timer = TRUE], sock[f], CLOSED)
      <4>1. SUFFICES ASSUME CloseLater(i)
                     PROVE  Sound([i EXCEPT !.close = TRUE, !.close_timer = TRUE], sock[f], CLOSED)
        OBVIOUS
      <4>2. i.unsent  BY <4>1 DEF CloseLater
      <4>3. "unsent_close" \in use  BY <1>3, <2>1, <2>2, <4>2 DEF IInv, Emptied
      <4> DEFINE j == [i EXCEPT !.close = TRUE, !.close_timer = TRUE]
      <4>4. /\ j \in Ios /\ j.close /\ j.close_timer
            /\ j.id = i.id /\ j.ready = i.ready /\ j.ctx = i.ctx /\ j.connect = i.connect
            /\ j.connect_timer = i.connect_timer /\ j.unsent = i.unsent
        BY <2>2, Marks
      <4>5. Sound(i, sock[f], chan.status)  BY <1>4, <2>2
      <4> HIDE DEF i, f, j
      <4>6. ~i.connect /\ ~i.connect_timer /\ sock[f] \notin {"none", "fresh", "connecting"}
        BY <3>2, <4>2, <4>5 DEF Sound, CLOSED
      <4>7. Sound(j, sock[f], CLOSED)  BY <3>2, <4>2, <4>3, <4>4, <4>6 DEF Sound, CLOSED
      <4> QED  BY <4>7 DEF j
    <3>4. [chan EXCEPT !.status = CLOSED].status = CLOSED  BY <1>0
    <3> QED  BY <1>0, <1>1, <1>2, <2>1, <2>2, <3>1, <3>2, <3>3, <3>4, CloseKeeps
  <2>4. CASE ~isOpened(chan)
    <3>1. /\ io' = [io EXCEPT ![chan.fd] = i] /\ chan' = chan /\ reconn' = NULL
          /\ UNCHANGED <<sock, timers, armed>>
      BY <2>1, <2>4 DEF closesocketInLoop
    <3>2. io' = io  BY <1>0, <3>1
    <3>3. \A g \in Fds : io[g].ready => io[g].close
      <4>1. SUFFICES ASSUME NEW g \in Fds, io[g].ready  PROVE io[g].close
        OBVIOUS
      <4>2. chan.status = CLOSED  BY <1>0, <1>5, <2>4, <4>1 DEF isOpened, CLOSED
      <4> QED  BY <1>4, <4>1, <4>2 DEF Sound
    <3>4. TypeOK'
      <4>1. (reconn = NULL \/ reconn \in Counters)'  BY <3>1 DEF NULL
      <4>2. late' \in BOOLEAN
        <5>1. (timers > 0) \in BOOLEAN  OBVIOUS
        <5> QED  BY <2>1, <5>1
      <4>3. user' \in {"none", "start", "close"}  BY <2>1
      <4> QED  BY <1>0, <1>6, <1>8, <2>1, <3>1, <3>2, <4>1, <4>2, <4>3 DEF TypeOK
    <3>5. Sounds' /\ Owner'  BY <1>8, <3>1, <3>2 DEF IInv, Sounds, Sound, Owner
    <3>6. Informed' /\ Emptied'  BY <1>6, <1>7, <1>8, <3>1, <3>2 DEF IInv, Informed, Emptied
    <3>7. Single'  BY <1>6, <1>8, <3>1, <3>2 DEF IInv, Single
    <3>8. Ended'
      <4>1. ~late' => timers = 0
        <5>1. ~late' => ~(timers > 0)  BY <2>1, Zenon
        <5> QED  BY <1>0, <5>1
      <4> QED  BY <3>1, <3>2, <3>3, <4>1 DEF Ended
    <3> QED  BY <1>6, <3>4, <3>5, <3>6, <3>7, <3>8 DEF IInv
  <2> QED  BY <2>3, <2>4
<1>10. ASSUME UNCHANGED <<io, sock, chan, reconn, timers, left, user, late, armed>>  PROVE IInv'
  <2>1. TypeOK'
    <3>1. (reconn = NULL \/ reconn \in Counters)'  BY <1>0, <1>8, <1>10 DEF TypeOK, Counters, NULL
    <3> QED  BY <1>0, <1>6, <1>8, <1>10, <3>1 DEF TypeOK
  <2>2. Sounds' /\ Owner'  BY <1>8, <1>10 DEF IInv, Sounds, Sound, Owner
  <2>3. Informed' /\ Emptied'  BY <1>6, <1>7, <1>8, <1>10 DEF IInv, Informed, Emptied
  <2>4. Single'  BY <1>6, <1>8, <1>10 DEF IInv, Single
  <2>5. Ended'  BY <1>10 DEF IInv, Ended
  <2> QED  BY <1>6, <2>1, <2>2, <2>3, <2>4, <2>5 DEF IInv
<1> DEFINE e == Head(posted)
           f == e.fd
           i == io[f]
<1>11. f \in Fds /\ i \in Ios /\ e \in Pend(posted)  BY <1>0, <1>3 DEF Posts
<1>12. CASE nio_connect_event_cb
  <2>1. /\ e.kind = "nio_connect"
        /\ IF SameId(e) THEN nio_connect(f, i)
           ELSE UNCHANGED <<io, sock, chan, reconn, timers, left, user, late, armed>>
    BY <1>12 DEF nio_connect_event_cb, Posted
  <2>2. CASE ~SameId(e)  BY <1>10, <2>1, <2>2
  <2>3. CASE SameId(e)
    <3>1. nio_connect(f, i) /\ i.id = e.id  BY <2>1, <2>3 DEF SameId
    <3>2. Sound(i, sock[f], chan.status)  BY <1>4, <1>11
    <3>3. i.ready => /\ chan.status = "CONNECTING" /\ ~i.connect
                     /\ sock[f] \in {"established", "eof", "reset"}
      BY <1>11, <2>1, <3>1 DEF IInv, Informed
    <3>4. CASE sock[f] \in {"established", "eof"}
      <4>1. Connected(f, i) /\ i.ready  BY <3>1, <3>2, <3>4 DEF nio_connect, Sound
      <4>2. \A d \in Pend(posted') : d.kind = "nio_connect" => d.fd # f \/ d.id # i.id
        <5>1. SUFFICES ASSUME NEW d \in Pend(posted'), d.kind = "nio_connect", d.fd = f, d.id = i.id
                       PROVE  FALSE
          OBVIOUS
        <5>2. d \in Posts /\ e \in Posts
          <6>1. \A k \in DOMAIN posted : posted[k] \in Posts  BY <1>0
          <6> QED  BY <1>3, <1>6, <6>1 DEF Pend
        <5>3. d = e  BY <2>1, <3>1, <5>1, <5>2 DEF Posts
        <5> QED  BY <1>3, <2>1, <5>3
      <4>3. Alike(io[f], i)  BY <1>11 DEF Alike
      <4> HIDE DEF e, f
      <4> QED  BY <1>1, <1>2, <1>11, <3>3, <3>4, <4>1, <4>2, <4>3, ConnectedKeeps
    <3>5. CASE sock[f] \notin {"established", "eof"}
      <4> DEFINE j == [i EXCEPT !.error = TRUE]
      <4>1. hio_close(f, j, chan, reconn) /\ UNCHANGED <<left, user, late>>
        BY SMTT(30), <3>1, <3>5 DEF nio_connect
      <4>2. Alike(i, j) /\ j.error /\ j.connect = i.connect
            /\ j.connect_timer = i.connect_timer /\ j.close_timer = i.close_timer
        BY <1>11, Likes
      <4> HIDE DEF e, f, i, j
      <4>3. /\ j \in Ios /\ j.id = i.id /\ j.ctx = i.ctx /\ j.ready = i.ready
            /\ j.unsent = i.unsent /\ j.close = i.close
        BY <4>2 DEF Alike
      <4>4. ~CloseLater(j)  BY <4>2 DEF CloseLater
      <4>5. Sound(j, sock[f], chan.status)  BY <3>2, <4>2, <4>3 DEF Sound
      <4>6. i.ready => sock[f] # "fresh"  BY <3>3
      <4> QED  BY <1>0, <1>1, <1>2, <1>11, <4>1, <4>3, <4>4, <4>5, <4>6, CloseKeeps DEF i
    <3> QED  BY <3>4, <3>5
  <2> QED  BY <2>2, <2>3
<1>13. CASE hio_close_event_cb
  <2>1. /\ e.kind = "hio_close" /\ UNCHANGED <<left, user, late>>
        /\ IF SameId(e) THEN hio_close(f, i, chan, reconn)
           ELSE UNCHANGED <<io, sock, chan, reconn, timers, armed>>
    BY <1>13 DEF hio_close_event_cb, Posted
  <2>2. CASE ~SameId(e)  BY <1>10, <2>1, <2>2
  <2>3. CASE SameId(e)
    <3>1. hio_close(f, i, chan, reconn) /\ i.id = e.id  BY <2>1, <2>3 DEF SameId
    <3>2. Sound(i, sock[f], chan.status)  BY <1>4, <1>11
    <3>3. i.ready => sock[f] = "failed"  BY <1>11, <2>1, <3>1 DEF IInv, Informed
    <3> DEFINE j == [i EXCEPT !.close = TRUE, !.close_timer = TRUE]
    <3>4. /\ j \in Ios /\ j.close /\ j.close_timer
          /\ j.id = i.id /\ j.ready = i.ready /\ j.ctx = i.ctx /\ j.connect = i.connect
          /\ j.connect_timer = i.connect_timer /\ j.unsent = i.unsent
      BY <1>11, Marks
    <3> HIDE DEF e, f, i, j
    <3>5. i.ready /\ CloseLater(i) => Sound(j, sock[f], chan.status)
      BY <3>2, <3>4 DEF CloseLater, Sound
    <3>6. i.ready => sock[f] # "fresh"  BY <3>3
    <3> QED  BY <1>0, <1>1, <1>2, <1>11, <2>1, <3>1, <3>2, <3>5, <3>6, CloseKeeps DEF i, j
  <2> QED  BY <2>2, <2>3
<1> QED  BY <1>9, <1>12, <1>13


\* The calls of the user.
LEMMA UserKeeps ==
    ASSUME IInv, User
    PROVE  IInv'
<1>0. /\ TypeOK /\ io \in [Fds -> Ios] /\ left \in Lefts /\ posted \in Seq(Posts) /\ timers \in Nat
      /\ chan \in [fd : Fds, id : Nat, status : {"OPENED", "CONNECTING", "CONNECTED", CLOSED}]
      /\ Once(posted)
  BY DEF IInv, TypeOK, Lefts
<1>1. UNCHANGED <<sock, chan, timers, envVars, user, late>>
  BY DEF User, start, closesocket, send
<1>2. use' = use /\ setting' = setting /\ server' = server  BY <1>1 DEF envVars
<1>3. Pend(posted)' = Pend(posted') /\ Once(posted)' = Once(posted') /\ OneStart(posted)' = OneStart(posted')
  BY DEF Pend, Once, OneStart
<1>4. \A g \in Fds : Sound(io[g], sock[g], chan.status)  BY DEF IInv, Sounds
<1>5. left' \in Lefts  BY SMTT(30), <1>0 DEF User, start, closesocket, send, Lefts
<1>6. ASSUME NEW k \in {"start", "closesocket"}, posted' = Append(posted, Call(k)), io' = io,
             k = "start" => "restart" \in use \/ AtRest,
             k = "closesocket" => "unsent_close" \in use \/ ~io[chan.fd].unsent,
             \/ UNCHANGED <<reconn, armed>>
             \/ AtRest /\ reconn' = setReconnect /\ armed' = 0
      PROVE  IInv'
  <2> DEFINE e == Call(k)
  <2>1. e \in Posts /\ e.kind = k /\ e.kind \notin {"nio_connect", "hio_close"}
    BY <1>0 DEF Call, Posts
  <2> HIDE DEF e
  <2>2. /\ posted' \in Seq(Posts) /\ Pend(posted') = Pend(posted) \cup {e} /\ Once(posted')
        /\ OneStart(posted) /\ (e.kind # "start" \/ \A d \in Pend(posted) : d.kind # "start")
              => OneStart(posted')
    BY <1>0, <1>6, <2>1, Queues DEF e
  <2>3. TypeOK'
    <3>1. (reconn = NULL \/ reconn \in Counters)' /\ armed' \in 0..Steady
      <4>1. CASE UNCHANGED <<reconn, armed>>
        BY <1>0, <1>2, <4>1 DEF TypeOK, Counters, NULL
      <4>2. CASE reconn' = setReconnect /\ armed' = 0
        <5>1. setting.max_delay \in Nat /\ CountMod - 1 \in Nat /\ Steady \in Nat
          BY <1>0, TcpClientAssumption DEF TypeOK
        <5>2. 0 \in 0..(CountMod - 1) /\ 0 \in 0..setting.max_delay /\ 0 \in 0..Steady  BY <5>1
        <5>3. setReconnect \in Counters  BY <5>2 DEF setReconnect, Counters
        <5> QED  BY <1>2, <4>2, <5>2, <5>3 DEF Counters
      <4> QED  BY <1>6, <4>1, <4>2
    <3> QED  BY <1>0, <1>1, <1>2, <1>5, <1>6, <2>2, <3>1 DEF TypeOK, Lefts
  <2>4. Sounds' /\ Owner'  BY <1>1, <1>2, <1>6 DEF IInv, Sounds, Sound, Owner
  <2>5. Informed'  BY <1>1, <1>3, <1>6, <2>1, <2>2 DEF IInv, Informed
  <2>6. Emptied'
    <3>1. \A f \in Fds : io[f].unsent => f = chan.fd  BY <1>4 DEF IInv, Owner, Sound
    <3> QED  BY <1>2, <1>3, <1>6, <2>1, <2>2, <3>1 DEF IInv, Emptied
  <2>7. Single'
    <3>1. SUFFICES ASSUME "restart" \notin use
                   PROVE  /\ timers \in {0, 1} /\ OneStart(posted')
                          /\ timers = 1 => \A d \in Pend(posted') : d.kind # "start"
                          /\ (timers = 1 \/ \E d \in Pend(posted') : d.kind = "start") =>
                                \A f \in Fds : io[f].ready => sock[f] = "fresh"
      BY <1>1, <1>2, <1>3, <1>6 DEF Single, Starting
    <3>2. /\ timers \in {0, 1} /\ OneStart(posted)
          /\ timers = 1 => \A d \in Pend(posted) : d.kind # "start"
          /\ (timers = 1 \/ \E d \in Pend(posted) : d.kind = "start") =>
                \A f \in Fds : io[f].ready => sock[f] = "fresh"
      BY <3>1 DEF IInv, Single, Starting
    <3>3. CASE k = "closesocket"  BY <2>1, <2>2, <3>2, <3>3
    <3>4. CASE k = "start"
      <4>1. AtRest  BY <1>6, <3>1, <3>4
      <4>2. /\ timers = 0 /\ \A f \in Fds : io[f].ready => sock[f] = "fresh"
            /\ Pend(posted) = {}
        BY <4>1 DEF AtRest, Pend
      <4> QED  BY <2>1, <2>2, <3>2, <4>2
    <3> QED  BY <3>3, <3>4
  <2>8. Ended'
    <3>1. ASSUME AtRest, user = "close" /\ ~late, NEW f \in Fds, io[f].ready  PROVE FALSE
      <4>1. sock[f] = "fresh" /\ io[f].close  BY <3>1 DEF AtRest, IInv, Ended
      <4> QED  BY <1>4, <3>1, <4>1 DEF Sound
    <3> QED  BY <1>1, <1>6, <3>1 DEF IInv, Ended
  <2> QED  BY <1>3, <2>2, <2>3, <2>4, <2>5, <2>6, <2>7, <2>8 DEF IInv
<1>7. CASE start  BY <1>6, <1>7 DEF start
<1>8. CASE closesocket  BY <1>6, <1>8 DEF closesocket
<1>9. CASE send
  <2> DEFINE f == chan.fd
             i == [io[f] EXCEPT !.unsent = TRUE]
  <2>1. /\ \/ "unsent_close" \in use
           \/ \A k \in DOMAIN posted : posted[k].kind # "closesocket"
        /\ chan.status = "CONNECTED" /\ isOpened(chan) /\ io' = [io EXCEPT ![f].unsent = TRUE]
        /\ UNCHANGED <<posted, reconn, armed>>
    BY <1>9 DEF send
  <2>2. f \in Fds /\ io[f] \in Ios /\ io[f].ready  BY <1>0, <2>1 DEF isOpened
  <2>3. io' = [io EXCEPT ![f] = i]  BY <1>0, <2>1, <2>2
  <2>4. /\ i \in Ios /\ i.id = io[f].id /\ i.ctx = io[f].ctx /\ i.ready = io[f].ready /\ i.unsent
        /\ i.connect = io[f].connect /\ i.close = io[f].close
        /\ i.connect_timer = io[f].connect_timer /\ i.close_timer = io[f].close_timer
    BY <2>2 DEF Ios
  <2> HIDE DEF f, i
  <2>5. io'[f] = i /\ \A g \in Fds : g # f => io'[g] = io[g]  BY <1>0, <2>2, <2>3
  <2>6. TypeOK'
    <3>1. io' \in [Fds -> Ios]  BY <1>0, <2>2, <2>3, <2>4
    <3>2. (reconn = NULL \/ reconn \in Counters)'
      BY <1>0, <1>2, <2>1 DEF TypeOK, Counters, NULL
    <3> QED  BY <1>0, <1>1, <1>2, <1>5, <2>1, <3>1, <3>2 DEF TypeOK, Lefts
  <2>7. Sounds'
    <3>1. Sound(i, sock[f], chan.status)
      <4>1. Sound(io[f], sock[f], "CONNECTED")  BY <1>4, <2>1, <2>2
      <4>2. ~i.connect /\ ~i.connect_timer /\ sock[f] \notin {"none", "fresh", "connecting"}
        BY <2>2, <2>4, <4>1 DEF Sound, CLOSED
      <4> QED  BY <2>1, <2>2, <2>4, <4>1, <4>2 DEF Sound, CLOSED
    <3>2. \A g \in Fds : Sound(io[g], sock[g], chan.status)' = Sound(io'[g], sock'[g], chan'.status)
      BY <1>2 DEF Sound
    <3> QED  BY <1>1, <1>4, <2>5, <3>1, <3>2 DEF Sounds
  <2>8. Owner'  BY <1>1, <2>4, <2>5 DEF IInv, Owner
  <2>9. Informed' /\ Once(posted)'
    <3>1. \A e \in Pend(posted) : e.fd \in Fds
      <4>1. \A k \in DOMAIN posted : posted[k] \in Posts  BY <1>0
      <4> QED  BY <4>1 DEF Pend, Posts
    <3>2. Pend(posted)' = Pend(posted) /\ Once(posted)' = Once(posted)  BY <2>1 DEF Pend, Once
    <3> QED  BY <1>0, <1>1, <2>4, <2>5, <3>1, <3>2 DEF IInv, Informed
  <2>10. Emptied'
    <3>1. "unsent_close" \in use \/ \A e \in Pend(posted) : e.kind # "closesocket"
      BY <2>1 DEF Pend
    <3> QED  BY <1>2, <1>3, <2>1, <3>1 DEF Emptied
  <2>11. Single'
    BY <1>1, <1>2, <2>1, <2>4, <2>5 DEF IInv, Single, Starting, Pend, OneStart
  <2>12. Ended'  BY <1>1, <2>1, <2>4, <2>5 DEF IInv, Ended
  <2> QED  BY <2>6, <2>7, <2>8, <2>9, <2>10, <2>11, <2>12 DEF IInv
<1> QED  BY <1>7, <1>8, <1>9 DEF User

\* The network, and a step that changes nothing.
LEMMA NetworkKeeps ==
    ASSUME IInv, Network \/ UNCHANGED vars
    PROVE  IInv'
<1>0. /\ TypeOK /\ left \in Lefts
      /\ sock \in [Fds -> {"none", "fresh", "connecting", "established", "failed", "eof", "reset"}]
  BY DEF IInv, TypeOK, Lefts
<1>1. UNCHANGED <<io, chan, reconn, timers, posted, setting, use, user, late, armed>>
  BY DEF Network, ServerTurns, Answer, PeerEnds, vars, loopVars, envVars
<1>2. left' \in Lefts
  BY <1>0 DEF Network, ServerTurns, Answer, PeerEnds, Fault, vars, Lefts
<1>3. server' \in {"up", "down"}
  BY <1>0 DEF Network, ServerTurns, Answer, PeerEnds, vars, envVars, TypeOK
<1>4. \A g \in Fds : Sound(io[g], sock[g], chan.status)  BY DEF IInv, Sounds
<1>5. /\ sock' \in [Fds -> {"none", "fresh", "connecting", "established", "failed", "eof", "reset"}]
      /\ \A g \in Fds : \/ sock'[g] = sock[g]
                        \/ sock[g] = "connecting" /\ sock'[g] \in {"failed", "established"}
                        \/ sock[g] = "established" /\ sock'[g] \in {"eof", "reset"}
  <2>1. CASE ServerTurns \/ UNCHANGED vars
    BY <1>0, <2>1 DEF ServerTurns, vars, loopVars
  <2>2. ASSUME NEW f \in Fds, Answer(f) \/ PeerEnds(f)
        PROVE  /\ sock' \in [Fds -> {"none", "fresh", "connecting", "established", "failed", "eof", "reset"}]
               /\ \A g \in Fds : \/ sock'[g] = sock[g]
                                 \/ sock[g] = "connecting" /\ sock'[g] \in {"failed", "established"}
                                 \/ sock[g] = "established" /\ sock'[g] \in {"eof", "reset"}
    BY <1>0, <2>2 DEF Answer, PeerEnds
  <2> QED  BY <2>1, <2>2 DEF Network
<1>6. TypeOK'
  <2>1. (reconn = NULL \/ reconn \in Counters)'  BY <1>0, <1>1 DEF TypeOK, Counters, NULL
  <2> QED  BY <1>0, <1>1, <1>2, <1>3, <1>5, <2>1 DEF TypeOK, Lefts
<1>7. Sounds'
  <2>1. \A g \in Fds : Sound(io[g], sock'[g], chan.status)  BY <1>4, <1>5 DEF Sound
  <2>2. \A g \in Fds : Sound(io[g], sock[g], chan.status)' = Sound(io[g], sock'[g], chan.status)
    BY <1>1 DEF Sound
  <2> QED  BY <2>1, <2>2 DEF Sounds
<1>8. Owner'  BY <1>1 DEF IInv, Owner
<1>9. Informed' /\ Once(posted)'
  <2>1. \A e \in Pend(posted) : e.fd \in Fds
    <3>1. \A k \in DOMAIN posted : posted[k] \in Posts  BY <1>0 DEF TypeOK
    <3> QED  BY <3>1 DEF Pend, Posts
  <2>2. Pend(posted)' = Pend(posted) /\ Once(posted)' = Once(posted)  BY <1>1 DEF Pend, Once
  <2>3. Informed'
    <3>1. SUFFICES ASSUME NEW e \in Pend(posted), io[e.fd].id = e.id, io[e.fd].ready
                   PROVE  /\ e.kind = "nio_connect" =>
                               /\ chan.status = "CONNECTING" /\ ~io[e.fd].connect
                               /\ sock'[e.fd] \in {"established", "eof", "reset"}
                          /\ e.kind = "hio_close" => sock'[e.fd] = "failed"
      BY <1>1, <2>2 DEF Informed
    <3>2. /\ e.kind = "nio_connect" =>
               /\ chan.status = "CONNECTING" /\ ~io[e.fd].connect
               /\ sock[e.fd] \in {"established", "eof", "reset"}
          /\ e.kind = "hio_close" => sock[e.fd] = "failed"
      BY <3>1 DEF IInv, Informed
    <3> QED  BY <1>5, <2>1, <3>1, <3>2
  <2> QED  BY <2>2, <2>3 DEF IInv
<1>10. Emptied'  BY <1>1 DEF IInv, Emptied, Pend
<1>11. Single'
  <2>1. \A g \in Fds : sock[g] = "fresh" => sock'[g] = "fresh"  BY <1>5
  <2> QED  BY <1>1, <2>1 DEF IInv, Single, Starting, Pend, OneStart
<1>12. Ended'  BY <1>1 DEF IInv, Ended
<1> QED  BY <1>6, <1>7, <1>8, <1>9, <1>10, <1>11, <1>12 DEF IInv


LEMMA InitIInv == Init => IInv
<1> SUFFICES ASSUME Init  PROVE IInv
  OBVIOUS
<1> USE TcpClientAssumption
<1>1. PICK f \in Fds :
        /\ io = [g \in Fds |-> IF g = f THEN [NoIo EXCEPT !.id = 1, !.ready = TRUE, !.ctx = 1]
                               ELSE NoIo]
        /\ sock = [g \in Fds |-> IF g = f THEN "fresh" ELSE "none"]
        /\ chan = [fd |-> f, id |-> 1, status |-> "OPENED"]
        /\ reconn \in {NULL, setReconnect} /\ timers = 0 /\ posted = << >>
        /\ server \in {"up", "down"} /\ setting \in Settings /\ use \in Uses
        /\ left = [starts |-> MaxStarts, closes |-> MaxCloses, sends |-> MaxSends,
                   faults |-> MaxFaults]
        /\ user = "none" /\ late = FALSE /\ armed = 0
  BY DEF Init
<1> DEFINE i == [NoIo EXCEPT !.id = 1, !.ready = TRUE, !.ctx = 1]
<1>2. /\ NoIo \in Ios /\ NoIo.id = 0 /\ ~NoIo.ready /\ ~NoIo.connect /\ ~NoIo.connect_timer
      /\ ~NoIo.close_timer /\ ~NoIo.unsent /\ ~NoIo.close
  BY DEF NoIo, Ios
<1>3. /\ i \in Ios /\ i.id = 1 /\ i.ctx = 1 /\ i.ready /\ ~i.connect /\ ~i.connect_timer
      /\ ~i.close_timer /\ ~i.unsent /\ ~i.close
  <2> HIDE DEF NoIo
  <2> QED  BY <1>2, 1 \in Nat DEF Ios
<1> HIDE DEF i
<1>4. io[f] = i /\ sock[f] = "fresh" /\ \A g \in Fds : g # f => io[g] = NoIo /\ sock[g] = "none"
  BY <1>1 DEF i
<1>5. TypeOK
  <2>1. io \in [Fds -> Ios]  BY <1>1, <1>2, <1>3 DEF i
  <2>2. reconn = NULL \/ reconn \in Counters
    <3>1. setting.max_delay \in Nat /\ CountMod - 1 \in Nat  BY <1>1
    <3>2. 0 \in 0..(CountMod - 1) /\ 0 \in 0..setting.max_delay  BY <3>1
    <3>3. setReconnect \in Counters  BY <3>2 DEF setReconnect, Counters
    <3> QED  BY <1>1, <3>3
  <2>3. sock \in [Fds -> {"none", "fresh", "connecting", "established", "failed", "eof", "reset"}]
    BY <1>1
  <2>4. chan \in [fd : Fds, id : Nat, status : {"OPENED", "CONNECTING", "CONNECTED", CLOSED}]
    BY <1>1
  <2>5. left \in Lefts  BY <1>1 DEF Lefts
  <2>6. posted \in Seq(Posts) /\ timers \in Nat /\ armed \in 0..Steady  BY <1>1
  <2> QED  BY <1>1, <2>1, <2>2, <2>3, <2>4, <2>5, <2>6 DEF TypeOK, Lefts
<1>6. Sounds
  <2>1. Sound(i, "fresh", "OPENED") /\ Sound(NoIo, "none", "OPENED")
    BY <1>2, <1>3 DEF Sound, CLOSED
  <2> QED  BY <1>1, <1>4, <2>1 DEF Sounds
<1>7. Owner  BY <1>1, <1>2, <1>3, <1>4 DEF Owner
<1>8. DOMAIN posted = {} /\ Pend(posted) = {}  BY <1>1 DEF Pend
<1>9. Informed /\ Once(posted) /\ Emptied  BY <1>8 DEF Informed, Once, Emptied
<1>10. Single  BY <1>1, <1>8 DEF Single, Starting, OneStart
<1>11. Ended  BY <1>1 DEF Ended
<1> QED  BY <1>5, <1>6, <1>7, <1>9, <1>10, <1>11 DEF IInv

LEMMA NextIInv ==
    ASSUME Apart, IInv, [Next]_vars
    PROVE  IInv'
<1>1. CASE LoopStep
  BY <1>1, HandlerKeeps, StartKeeps, PostedKeeps DEF LoopStep
<1>2. CASE User  BY <1>2, UserKeeps
<1>3. CASE Network \/ UNCHANGED vars  BY <1>3, NetworkKeeps
<1> QED  BY <1>1, <1>2, <1>3 DEF Next

LEMMA AlwaysIInv ==
    ASSUME Apart
    PROVE  Spec => []IInv
BY InitIInv, NextIInv, PTL DEF Spec

\* TypeOK: in particular the delay of the next retry stays between 0 and
\* max_delay, whatever the policy, although it is computed modulo 2^32.
THEOREM TypeCorrect ==
    ASSUME Apart
    PROVE  Spec => []TypeOK
<1>1. IInv => TypeOK  BY DEF IInv
<1> QED  BY <1>1, AlwaysIInv, PTL

\* AttemptTimed: connect_timer runs exactly as long as its attempt is
\* undecided, across timeouts, refusals, closes and reused descriptors.
THEOREM AttemptsAreTimed ==
    ASSUME Apart
    PROVE  Spec => []AttemptTimed
<1>1. IInv => AttemptTimed  BY DEF IInv, Sounds, Sound, AttemptTimed
<1> QED  BY <1>1, AlwaysIInv, PTL

\* StaysClosed: after closesocket, with no retry timer armed, the client
\* makes no connection until start is called again.
THEOREM ClosedStaysClosed ==
    ASSUME Apart
    PROVE  Spec => []StaysClosed
<1>1. IInv => StaysClosed  BY DEF IInv, Ended, StaysClosed
<1> QED  BY <1>1, AlwaysIInv, PTL

-----------------------------------------------------------------------------
(* Why a connection ends.                                                  *)

Cut == \A f \in Fds : /\ sock[f] \in {"fresh", "connecting", "established"}
                      /\ sock'[f] = "none"
          => user' = "close" \/ io[f].connect_timer \/ io[f].close_timer

LEMMA NextCut ==
    ASSUME Apart, IInv, Next
    PROVE  Cut
<1>0. /\ TypeOK /\ io \in [Fds -> Ios] /\ posted \in Seq(Posts)
      /\ sock \in [Fds -> {"none", "fresh", "connecting", "established", "failed", "eof", "reset"}]
  BY DEF IInv, TypeOK
<1>1. ASSUME NEW f \in Fds, NEW i, NEW c, NEW r, hio_close(f, i, c, r),
             \/ user' = "close" \/ io[f].connect_timer \/ io[f].close_timer
             \/ sock[f] \notin {"fresh", "connecting", "established"}
      PROVE  Cut
  <2>1. sock' = sock \/ sock' = [sock EXCEPT ![f] = "none"]
    BY <1>1 DEF hio_close
  <2>2. \A g \in Fds : g # f => sock'[g] = sock[g]  BY <1>0, <2>1
  <2> QED  BY <1>0, <1>1, <2>2 DEF Cut
<1>2. ASSUME user' = "close" \/ sock' = sock  PROVE Cut
  BY <1>0, <1>2 DEF Cut
<1>3. ASSUME NEW f \in Fds, NEW i, nio_connect(f, i), sock[f] \notin {"fresh", "connecting"}
      PROVE  Cut
  <2>1. CASE sock[f] \in {"established", "eof"}
    BY <1>2, <1>3, <2>1 DEF nio_connect, Connected
  <2>2. CASE sock[f] \notin {"established", "eof"}
    BY <1>0, <1>1, <1>3, <2>2 DEF nio_connect
  <2> QED  BY <2>1, <2>2
<1>4. \A f \in Fds : Sound(io[f], sock[f], chan.status)  BY DEF IInv, Sounds
<1>5. ASSUME NEW f \in Fds, \/ HandleConnect(f) \/ HandleRead(f) \/ HandleWrite(f)
                            \/ connect_timeout_cb(f) \/ close_timeout_cb(f)
      PROVE  Cut
  <2>1. CASE HandleConnect(f)  BY <1>3, <2>1 DEF HandleConnect
  <2>2. CASE HandleRead(f)  BY <1>1, <2>2 DEF HandleRead
  <2>3. CASE HandleWrite(f)
    <3> DEFINE i == [io[f] EXCEPT !.unsent = FALSE]
    <3>1. /\ io[f].ready
          /\ IF i.close THEN hio_close(f, i, chan, reconn) ELSE sock' = sock
      BY <2>3 DEF HandleWrite
    <3>2. i.close = io[f].close  BY <1>0 DEF Ios
    <3>3. io[f].close => io[f].close_timer  BY <1>4, <3>1 DEF Sound
    <3> HIDE DEF i
    <3> QED  BY <1>1, <1>2, <3>1, <3>2, <3>3
  <2>4. CASE connect_timeout_cb(f)  BY <1>1, <2>4 DEF connect_timeout_cb
  <2>5. CASE close_timeout_cb(f)  BY <1>1, <2>5 DEF close_timeout_cb
  <2> QED  BY <1>5, <2>1, <2>2, <2>3, <2>4, <2>5
<1>6. CASE ReconnectTimer \/ RunStart
  <2>1. PICK p : startConnect(p)  BY <1>6 DEF ReconnectTimer, RunStart
  <2>2. sock' = sock \/ \E g \in Fds : \E s \in {"failed", "established", "connecting"} :
                           sock' = [sock EXCEPT ![g] = s]
    <3>1. chan.fd \in Fds  BY <1>0 DEF TypeOK
    <3> QED  BY <2>1, <3>1 DEF startConnect, hio_connect, ConnectFails, ConnectDone, ConnectWaits
  <2> QED  BY <1>0, <2>2 DEF Cut
<1>7. CASE RunClose  BY <1>2, <1>7 DEF RunClose
<1> DEFINE e == Head(posted)
<1>8. CASE nio_connect_event_cb \/ hio_close_event_cb
  <2>1. e \in Pend(posted) /\ e.fd \in Fds
    BY <1>0, <1>8, Rests DEF nio_connect_event_cb, hio_close_event_cb, Posted, Posts
  <2>2. CASE ~SameId(e)  BY <1>2, <1>8, <2>2 DEF nio_connect_event_cb, hio_close_event_cb
  <2>3. CASE SameId(e) /\ nio_connect_event_cb
    <3>1. nio_connect(e.fd, io[e.fd]) /\ e.kind = "nio_connect"
      BY <2>3 DEF nio_connect_event_cb, Posted
    <3>2. sock[e.fd] \notin {"fresh", "connecting"}
      BY <1>4, <2>1, <2>3, <3>1 DEF IInv, Informed, SameId, Sound
    <3> HIDE DEF e
    <3> QED  BY <1>3, <2>1, <3>1, <3>2
  <2>4. CASE SameId(e) /\ hio_close_event_cb
    <3>1. hio_close(e.fd, io[e.fd], chan, reconn) /\ e.kind = "hio_close"
      BY <2>4 DEF hio_close_event_cb, Posted
    <3>2. sock[e.fd] \notin {"fresh", "connecting", "established"}
      BY <1>4, <2>1, <2>4, <3>1 DEF IInv, Informed, SameId, Sound
    <3> HIDE DEF e
    <3> QED  BY <1>1, <2>1, <3>1, <3>2
  <2> QED  BY <1>8, <2>2, <2>3, <2>4
<1>9. CASE User  BY <1>2, <1>9 DEF User, start, closesocket, send
<1>10. CASE Network
  <2>1. \A f \in Fds : sock'[f] = "none" => sock[f] = "none"
    BY <1>0, <1>10 DEF Network, ServerTurns, Answer, PeerEnds, loopVars
  <2> QED  BY <2>1 DEF Cut
<1> QED  BY <1>5, <1>6, <1>7, <1>8, <1>9, <1>10 DEF Next, LoopStep

\* NotCutShort: the client ends a connection that has not failed only for
\* the user, or when its connect timer or its close timer runs out; no event
\* of an earlier use of the descriptor does.
THEOREM NothingIsCutShort ==
    ASSUME Apart
    PROVE  Spec => NotCutShort
<1>1. IInv /\ [Next]_vars => [Cut]_vars  BY NextCut
<1>2. [Cut]_vars =>
        [\A f \in Fds :
           /\ sock[f] \in {"fresh", "connecting", "established"}
           /\ sock'[f] = "none"
           => user' = "close" \/ io[f].connect_timer \/ io[f].close_timer]_vars
  BY DEF Cut
<1> QED  BY <1>1, <1>2, AlwaysIInv, PTL DEF Spec, NotCutShort


-----------------------------------------------------------------------------
(* The delays and the limit of the retries.                                *)

\* What reconn_setting_t's 32-bit counters can hold: a delay that is summed
\* or multiplied once more, and the attempts of a client with a limit, of
\* which every call of start allows one more.
NoWrap ==
    \A s \in Settings :
       /\ s.max_delay + s.min_delay < CountMod
       /\ s.max_delay * s.delay_policy < CountMod
       /\ s.max_retry_cnt # INFINITE => Greatest(s.max_retry_cnt, 1) + MaxStarts < CountMod

\* After Steady retries the delay changes no more.
Settled == \A s \in Settings : DelayOf(s, Steady + 1) = DelayOf(s, Steady)

\* p[k] is base to the power k.
IsPower(p, base, n) == /\ p[0] = 1
                       /\ \A k \in 1..n : p[k] = base * p[k - 1]

LEMMA PowerExists ==
    ASSUME NEW base \in Nat, NEW n \in Nat
    PROVE  \E p \in [0..n -> Nat] : IsPower(p, base, n)
<1> DEFINE T == {m \in Nat : ~ \E p \in [0..m -> Nat] : IsPower(p, base, m)}
<1>1. SUFFICES ASSUME T # {} PROVE FALSE
  OBVIOUS
<1>2. PICK m \in T : \A l \in T : m <= l
  BY <1>1, LeastNat
<1>3. CASE m = 0
  <2> DEFINE z == [k \in 0..0 |-> 1]
  <2>1. z \in [0..m -> Nat] /\ IsPower(z, base, m)
    BY <1>3 DEF IsPower
  <2> QED
    BY <2>1
<1>4. CASE m # 0
  <2>1. m - 1 \in Nat /\ m - 1 \notin T /\ m \in Nat
    <3>1. T \subseteq Nat
      OBVIOUS
    <3> HIDE DEF T
    <3> QED
      BY <1>2, <1>4, <3>1
  <2>2. PICK p \in [0..(m - 1) -> Nat] : IsPower(p, base, m - 1)
    BY <2>1
  <2> DEFINE q == [k \in 0..m |-> IF k = m THEN base * p[m - 1] ELSE p[k]]
  <2>3. m - 1 \in 0..(m - 1) /\ p[m - 1] \in Nat /\ base * p[m - 1] \in Nat
    BY <2>1
  <2>4. \A k \in 0..m : k # m => k \in 0..(m - 1) /\ p[k] \in Nat
    BY <2>1
  <2>5. q \in [0..m -> Nat]
    BY <2>3, <2>4
  <2>6. q[0] = 1
    BY <1>4, <2>1, <2>2 DEF IsPower
  <2>7. ASSUME NEW k \in 1..m PROVE q[k] = base * q[k - 1]
    <3>1. k - 1 \in 0..m /\ k - 1 # m /\ k \in 0..m /\ q[k - 1] = p[k - 1]
      BY <2>1
    <3>2. CASE k = m
      BY <3>1, <3>2
    <3>3. CASE k # m
      <4>1. k \in 1..(m - 1)
        BY <2>1, <3>3
      <4> QED
        BY <2>2, <3>1, <3>3, <4>1 DEF IsPower
    <3> QED
      BY <3>2, <3>3
  <2> HIDE DEF q
  <2>8. IsPower(q, base, m)
    BY <2>6, <2>7 DEF IsPower
  <2> QED
    BY <1>2, <2>5, <2>8
<1> QED
  BY <1>3, <1>4

\* Powers is what it says, and not 0 for a base that is not.
LEMMA PowersLaw ==
    ASSUME NEW base \in Nat \ {0}
    PROVE  /\ Powers(base)[0] = 1
           /\ \A k \in 0..Steady : Powers(base)[k] \in Nat \ {0}
           /\ \A k \in 1..Steady : Powers(base)[k] = base * Powers(base)[k - 1]
<1> DEFINE Eq(f) == f = [k \in 0..Steady |-> IF k = 0 THEN 1 ELSE base * f[k - 1]]
           p == CHOOSE f : Eq(f)
<1>0. Steady \in Nat
  BY TcpClientAssumption
<1>1. \E f : Eq(f)
  <2>1. PICK f \in [0..Steady -> Nat] : IsPower(f, base, Steady)
    BY <1>0, PowerExists
  <2>2. ASSUME NEW k \in 0..Steady
        PROVE  f[k] = IF k = 0 THEN 1 ELSE base * f[k - 1]
    <3>1. k # 0 => k \in 1..Steady
      BY <1>0
    <3> QED
      BY <2>1, <3>1 DEF IsPower
  <2>3. Eq(f)
    BY <2>1, <2>2
  <2> QED
    BY <2>3
<1>2. Eq(p)
  BY <1>1
<1>3. Powers(base) = p
  BY DEF Powers
<1> HIDE DEF p
<1>4. \A k \in 0..Steady : p[k] = IF k = 0 THEN 1 ELSE base * p[k - 1]
  BY <1>2
<1> DEFINE T == {k \in 0..Steady : p[k] \notin Nat \ {0}}
<1>5. T = {}
  <2>1. SUFFICES ASSUME T # {} PROVE FALSE
    OBVIOUS
  <2>2. T \in SUBSET Nat
    BY <1>0
  <2>3. PICK k \in T : \A l \in T : k <= l
    BY <2>1, <2>2, LeastNat
  <2>4. k # 0 /\ k \in 0..Steady
    BY <1>4, <2>3
  <2>5. k - 1 \in 0..Steady /\ k - 1 \notin T
    BY <1>0, <2>3, <2>4
  <2>6. PICK x \in Nat \ {0} : x = p[k - 1]
    BY <2>5
  <2>7. p[k] = base * x
    BY <1>4, <2>4, <2>6
  <2>8. base * x \in Nat \ {0}
    OBVIOUS
  <2> QED
    BY <2>3, <2>7, <2>8
<1>6. \A k \in 1..Steady : k \in 0..Steady /\ k # 0
  BY <1>0
<1>7. p[0] = 1
  BY <1>0, <1>4
<1> QED
  BY <1>3, <1>4, <1>5, <1>6, <1>7


LEMMA OnceMore ==
    ASSUME NEW a \in Nat, NEW b \in Nat
    PROVE  (a + 1) * b = a * b + b
OBVIOUS

\* The next delay from the n-th is the next one of the policy.
LEMMA NextDelay ==
    ASSUME NoWrap, NEW s \in Settings, NEW n \in 0..Steady, NEW d, d = DelayOf(s, n)
    PROVE  LET u == CASE s.delay_policy = 0 -> s.min_delay
                      [] s.delay_policy = 1 -> d + s.min_delay
                      [] OTHER              -> d * s.delay_policy
           IN  /\ d \in 0..s.max_delay
               /\ Least(Greatest(u % CountMod, s.min_delay), s.max_delay) = DelayOf(s, n + 1)
<1> DEFINE lo == s.min_delay
           hi == s.max_delay
           p  == s.delay_policy
<1>1. /\ lo \in Nat /\ hi \in Nat /\ p \in Nat /\ CountMod \in Nat \ {0}
      /\ Steady \in Nat /\ n \in Nat /\ hi + lo < CountMod /\ hi * p < CountMod
  BY TcpClientAssumption DEF NoWrap
<1> DEFINE v == CASE p = 0 -> lo [] p = 1 -> d + lo [] OTHER -> d * p
<1>2. ASSUME NEW a \in Nat, a < CountMod PROVE a % CountMod = a
  BY <1>1, <1>2
<1>3. CASE p = 0
  <2>1. d = IF n = 0 THEN 0 ELSE Least(hi, lo)
    BY <1>3 DEF DelayOf
  <2>2. d \in 0..hi
    BY <1>1, <2>1 DEF Least
  <2>3. DelayOf(s, n + 1) = Least(hi, lo)
    BY <1>1, <1>3 DEF DelayOf
  <2>4. v = lo /\ v % CountMod = v
    BY <1>1, <1>2, <1>3
  <2> QED
    BY <1>1, <2>2, <2>3, <2>4 DEF Least, Greatest
<1>4. CASE p = 1
  <2>1. d = IF n = 0 THEN 0 ELSE Least(hi, n * lo)
    BY <1>4 DEF DelayOf
  <2>2. PICK x \in Nat : x = n * lo
    BY <1>1
  <2>3. d = Least(hi, x) /\ d \in 0..hi
    BY <1>1, <2>1, <2>2 DEF Least
  <2>4. (n + 1) * lo = x + lo
    BY <1>1, <2>2, OnceMore
  <2>5. DelayOf(s, n + 1) = Least(hi, x + lo)
    BY <1>1, <1>4, <2>4 DEF DelayOf
  <2>6. v = d + lo /\ d + lo \in Nat /\ d + lo < CountMod
    BY <1>1, <1>4, <2>3
  <2>7. v % CountMod = d + lo
    BY <1>2, <2>6
  <2> QED
    BY <1>1, <2>3, <2>5, <2>7 DEF Least, Greatest
<1>5. CASE p # 0 /\ p # 1
  <2>1. PICK P : P = Powers(p)
    OBVIOUS
  <2>2. /\ P[0] = 1 /\ \A k \in 0..Steady : P[k] \in Nat \ {0}
        /\ \A k \in 1..Steady : P[k] = p * P[k - 1]
    <3>1. p \in Nat \ {0}
      BY <1>1, <1>5
    <3> QED
      BY <2>1, <3>1, PowersLaw
  <2>3. DelayOf(s, n + 1) = Least(hi, lo * P[n])
    <3>1. n + 1 # 0 /\ (n + 1) - 1 = n
      BY <1>1
    <3> QED
      BY <1>5, <2>1, <3>1 DEF DelayOf
  <2>4. v = d * p
    BY <1>5
  <2>5. CASE n = 0
    <3>1. d = 0 /\ lo * P[n] = lo
      BY <1>1, <2>2, <2>5 DEF DelayOf
    <3>2. v % CountMod = 0
      BY <1>1, <1>2, <2>4, <3>1
    <3> QED
      BY <1>1, <2>3, <3>1, <3>2 DEF Least, Greatest
  <2>6. CASE n # 0
    <3>1. PICK y \in Nat \ {0} : y = P[n - 1] /\ P[n] = p * y
      <4>1. n - 1 \in 0..Steady /\ n \in 1..Steady
        BY <1>1, <2>6
      <4> QED
        BY <2>2, <4>1
    <3>2. d = Least(hi, lo * y)
      BY <1>5, <2>1, <2>6, <3>1 DEF DelayOf
    <3>3. PICK x \in Nat : x = lo * y
      BY <1>1
    <3>4. lo <= x
      BY <1>1, <3>3
    <3>5. lo * P[n] = x * p
      BY <1>1, <3>1, <3>3
    <3>6. d = Least(hi, x) /\ d \in 0..hi
      BY <1>1, <3>2, <3>3 DEF Least
    <3>7. d * p <= hi * p /\ d * p \in Nat
      BY <1>1, <3>6
    <3>8. v % CountMod = d * p
      BY <1>1, <1>2, <2>4, <3>7
    <3>9. x * p >= x /\ hi * p >= hi /\ x * p \in Nat /\ hi * p \in Nat
      BY <1>1, <1>5
    <3>10. CASE x <= hi
      <4>1. d = x
        BY <3>6, <3>10 DEF Least
      <4> HIDE DEF v
      <4>2. PICK z \in Nat : z = x * p /\ v % CountMod = z /\ z >= lo
        <5>1. PICK z \in Nat : z = x * p /\ z >= x
          BY <3>9
        <5>2. v % CountMod = z
          BY <3>8, <4>1, <5>1
        <5>3. z >= lo
          BY <1>1, <3>4, <5>1
        <5> QED
          BY <5>1, <5>2, <5>3
      <4>3. DelayOf(s, n + 1) = Least(hi, z)
        BY <2>3, <3>5, <4>2
      <4>4. Least(Greatest(v % CountMod, lo), hi) = Least(hi, z)
        BY <1>1, <4>2 DEF Least, Greatest
      <4> QED
        BY <3>6, <4>3, <4>4 DEF v
    <3>11. CASE ~(x <= hi)
      <4>1. d = hi
        BY <1>1, <3>6, <3>11 DEF Least
      <4> QED
        BY <1>1, <2>3, <3>5, <3>6, <3>8, <3>9, <3>11, <4>1 DEF Least, Greatest
    <3> QED
      BY <3>10, <3>11
  <2> QED
    BY <2>5, <2>6
<1> QED
  BY <1>3, <1>4, <1>5


\* How many calls of start are posted.
StartsAt(q) == {k \in DOMAIN q : q[k].kind = "start"}
Starts(q)   == Cardinality(StartsAt(q))

LEMMA StartsType ==
    ASSUME NEW q \in Seq(Posts)
    PROVE  IsFiniteSet(StartsAt(q)) /\ Starts(q) \in Nat
<1>1. DOMAIN q = 1..Len(q) /\ Len(q) \in Nat
  OBVIOUS
<1>2. IsFiniteSet(1..Len(q))
  BY <1>1, FS_Interval
<1>3. StartsAt(q) \in SUBSET (1..Len(q))
  BY <1>1 DEF StartsAt
<1>4. IsFiniteSet(StartsAt(q))
  BY <1>2, <1>3, FS_Subset
<1> QED
  BY <1>4, FS_CardinalityType DEF Starts

LEMMA StartsAppend ==
    ASSUME NEW q \in Seq(Posts), NEW e \in Posts
    PROVE  Starts(Append(q, e)) = IF e.kind = "start" THEN Starts(q) + 1 ELSE Starts(q)
<1> DEFINE p == Append(q, e)
           n == Len(q) + 1
<1>1. /\ DOMAIN q = 1..Len(q) /\ Len(q) \in Nat /\ DOMAIN p = 1..n
      /\ p[n] = e /\ \A k \in 1..Len(q) : p[k] = q[k]
  OBVIOUS
<1>2. DOMAIN p = DOMAIN q \cup {n} /\ n \notin DOMAIN q
  BY <1>1
<1> HIDE DEF p, n
<1>3. /\ StartsAt(p) = IF e.kind = "start" THEN StartsAt(q) \cup {n} ELSE StartsAt(q)
      /\ n \notin StartsAt(q)
  BY <1>1, <1>2 DEF StartsAt
<1>4. IsFiniteSet(StartsAt(q))
  BY StartsType
<1>5. Cardinality(StartsAt(q) \cup {n}) = Cardinality(StartsAt(q)) + 1
  BY <1>3, <1>4, FS_AddElement
<1> QED
  BY <1>3, <1>5 DEF Starts, p

LEMMA StartsTail ==
    ASSUME NEW q \in Seq(Posts), q # << >>
    PROVE  /\ Starts(Tail(q)) <= Starts(q)
           /\ Head(q).kind = "start" => Starts(Tail(q)) + 1 <= Starts(q)
<1> DEFINE p == Tail(q)
           S == StartsAt(p)
           T == StartsAt(q) \ {1}
           f == [k \in S |-> k + 1]
<1>1. Len(q) \in Nat /\ Len(q) > 0 /\ DOMAIN q = 1..Len(q)
  BY EmptySeq
<1>2. /\ p \in Seq(Posts) /\ DOMAIN p = 1..(Len(q) - 1)
      /\ \A k \in 1..(Len(q) - 1) : p[k] = q[k + 1]
  BY <1>1
<1>3. Head(q) = q[1] /\ 1 \in DOMAIN q
  BY <1>1
<1>4. /\ \A k \in S : k \in Int /\ k + 1 \in T
      /\ \A k, l \in S : k + 1 = l + 1 => k = l
  BY <1>1, <1>2 DEF StartsAt
<1>5. f \in Injection(S, T)
  <2>1. f \in [S -> T] /\ \A k, l \in S : f[k] = f[l] => k = l
    BY <1>4
  <2> HIDE DEF f, S, T
  <2> QED
    BY <2>1 DEF Injection, IsInjective
<1> HIDE DEF f, S, T
<1>6. IsFiniteSet(StartsAt(q)) /\ Starts(q) \in Nat /\ Starts(p) \in Nat
  BY <1>2, StartsType
<1>7. /\ IsFiniteSet(T)
      /\ Cardinality(T) = IF 1 \in StartsAt(q) THEN Starts(q) - 1 ELSE Starts(q)
  BY <1>6, FS_RemoveElement DEF T, Starts
<1>8. Cardinality(S) <= Cardinality(T)
  BY <1>5, <1>7, FS_Injection
<1>9. Starts(p) <= IF 1 \in StartsAt(q) THEN Starts(q) - 1 ELSE Starts(q)
  BY <1>7, <1>8 DEF S, Starts
<1>10. Head(q).kind = "start" => 1 \in StartsAt(q)
  BY <1>3 DEF StartsAt
<1> HIDE DEF p
<1>11. /\ Starts(p) <= Starts(q)
       /\ Head(q).kind = "start" => Starts(p) + 1 <= Starts(q)
  BY <1>6, <1>9, <1>10
<1> QED
  BY <1>11 DEF p

-----------------------------------------------------------------------------
(* What can still lead to a retry: an open hio_t, an armed timer, a call   *)
(* of start that is posted.  A failure that is not retried uses one up, so *)
(* the counter of a limited client stays small.                            *)

Open  == \E f \in Fds : io[f].ready
Tries == timers + Starts(posted) + (IF Open THEN 1 ELSE 0)

\* The most timers that may be armed in a row.
Limit == Greatest(setting.max_retry_cnt - 1, 0)

\* The counters r after n timers, with t tries left and m calls of start.
Counts(r, n, t, m) ==
    r # NULL =>
      /\ r.cur_delay = DelayOf(setting, n)
      /\ setting.max_retry_cnt # INFINITE =>
           /\ n <= r.cur_retry_cnt /\ n <= Limit
           /\ r.cur_retry_cnt + t + m <= Limit + MaxStarts + 1

Retries ==
    /\ Tries + left.starts <= MaxStarts + 1
    /\ Counts(reconn, armed, Tries, left.starts)

\* What a step does to the tries and to the counters.
Quiet ==
    /\ reconn' \in {reconn, NULL} /\ armed' = armed
    /\ Tries' + left'.starts <= Tries + left.starts

Restarted ==
    /\ reconn' = NULL \/ (reconn'.cur_retry_cnt = 0 /\ reconn'.cur_delay = 0)
    /\ armed' = 0
    /\ Tries' + left'.starts <= Tries + left.starts

Failed ==
    /\ Open /\ ~Open' /\ Starts(posted') <= Starts(posted) /\ left'.starts = left.starts
    /\ startReconnect(reconn)

LEMMA TriesType ==
    ASSUME TypeOK
    PROVE  /\ Tries \in Nat /\ left.starts \in Nat /\ timers \in Nat
           /\ Starts(posted) \in Nat /\ MaxStarts \in Nat
<1>1. Starts(posted) \in Nat /\ timers \in Nat /\ left.starts \in Nat
  BY StartsType DEF TypeOK
<1> QED
  BY <1>1, TcpClientAssumption DEF Tries

LEMMA QuietKeeps ==
    ASSUME TypeOK, TypeOK', Retries, setting' = setting, Quiet \/ Restarted
    PROVE  Retries'
<1>1. /\ Tries \in Nat /\ left.starts \in Nat /\ MaxStarts \in Nat
      /\ Tries' \in Nat /\ left'.starts \in Nat
  <2>1. ASSUME TypeOK' PROVE Tries' \in Nat /\ left'.starts \in Nat
    BY SMTT(30), <2>1, StartsType, TcpClientAssumption DEF Tries, TypeOK
  <2> QED
    BY <2>1, TriesType
<1>2. setting \in Settings
  BY DEF TypeOK
<1>3. Limit' = Limit /\ Limit \in Nat
  BY <1>2, TcpClientAssumption DEF Limit, Greatest, INFINITE
<1>4. Tries' + left'.starts <= Tries + left.starts
  BY DEF Quiet, Restarted
<1>5. Tries' + left'.starts <= MaxStarts + 1
  BY <1>1, <1>4 DEF Retries
<1>6. Counts(reconn', armed', Tries', left'.starts)
  <2>1. CASE reconn' = NULL
    BY <2>1 DEF Counts
  <2>2. CASE reconn' # NULL /\ Quiet
    <3>1. reconn' = reconn /\ reconn # NULL /\ armed' = armed
      BY <2>2 DEF Quiet
    <3>2. reconn.cur_retry_cnt \in Nat
      BY <1>2, <3>1, TcpClientAssumption DEF TypeOK, Counters
    <3>3. Counts(reconn, armed, Tries, left.starts)
      BY DEF Retries
    <3> QED
      BY <1>1, <1>3, <1>4, <3>1, <3>2, <3>3 DEF Counts
  <2>3. CASE reconn' # NULL /\ Restarted
    <3>1. reconn'.cur_retry_cnt = 0 /\ reconn'.cur_delay = 0 /\ armed' = 0
      BY <2>3 DEF Restarted
    <3>2. DelayOf(setting, 0) = 0
      BY DEF DelayOf
    <3> QED
      BY <1>1, <1>3, <1>5, <3>1, <3>2 DEF Counts
  <2> QED
    BY <2>1, <2>2, <2>3
<1>7. Counts(reconn, armed, Tries, left.starts)' <=> Counts(reconn', armed', Tries', left'.starts)
  BY <1>3 DEF Counts
<1> QED
  BY <1>5, <1>6, <1>7 DEF Retries


LEMMA FailedKeeps ==
    ASSUME NoWrap, Settled, TypeOK, TypeOK', Retries, setting' = setting, Failed
    PROVE  Retries'
<1>a. /\ Tries \in Nat /\ left.starts \in Nat /\ MaxStarts \in Nat /\ timers \in Nat
      /\ left'.starts = left.starts /\ timers' \in Nat
      /\ Starts(posted) \in Nat /\ Starts(posted') \in Nat
  <2>1. timers' \in Nat /\ Starts(posted') \in Nat
    BY StartsType DEF TypeOK
  <2> QED
    BY <2>1, TriesType DEF Failed
<1>b. Tries' \in Nat
  BY <1>a DEF Tries
<1>c. PICK t \in Nat : t = Tries
  BY <1>a
<1>d. PICK u \in Nat : u = Tries'
  BY <1>b
<1>e. PICK m \in Nat : m = left.starts
  BY <1>a
<1>f. PICK lim : lim = Limit
  OBVIOUS
<1>1. /\ MaxStarts \in Nat /\ timers \in Nat
      /\ left'.starts = m /\ timers' \in Nat
      /\ Starts(posted) \in Nat /\ Starts(posted') \in Nat
  BY <1>a, <1>e
<1>2. /\ setting \in Settings /\ Steady \in Nat /\ CountMod \in Nat /\ armed \in 0..Steady
      /\ setting.max_retry_cnt \in Nat \cup {INFINITE}
  BY TcpClientAssumption DEF TypeOK
<1>3. Limit' = lim /\ lim \in Nat
  BY <1>2, <1>f DEF Limit, Greatest, INFINITE
<1>4. t = timers + Starts(posted) + 1 /\ u = timers' + Starts(posted')
  BY <1>1, <1>c, <1>d DEF Tries, Failed
<1>5. u - timers' <= t - timers - 1
  BY <1>1, <1>4 DEF Failed
<1>6. t + m <= MaxStarts + 1 /\ Counts(reconn, armed, t, m)
  BY <1>c, <1>e DEF Retries
<1>7. CASE reconn = NULL
  <2>1. reconn' = NULL /\ timers' = timers
    BY <1>7 DEF Failed, startReconnect
  <2>2. u + m <= MaxStarts + 1
    BY <1>1, <1>5, <1>6, <2>1
  <2> QED
    BY <1>1, <1>d, <2>1, <2>2 DEF Retries, Counts
<1>8. CASE reconn # NULL
  <2> DEFINE n == Counted(reconn)
  <2>1. reconn \in Counters /\ reconn.cur_retry_cnt \in 0..(CountMod - 1)
    BY <1>8 DEF TypeOK, Counters
  <2>2. /\ reconn.cur_delay = DelayOf(setting, armed)
        /\ setting.max_retry_cnt # INFINITE =>
             /\ armed <= reconn.cur_retry_cnt /\ armed <= lim
             /\ reconn.cur_retry_cnt + t + m <= lim + MaxStarts + 1
    BY <1>6, <1>8, <1>f DEF Counts
  <2>3. /\ n.cur_delay = reconn.cur_delay
        /\ n.cur_retry_cnt = (reconn.cur_retry_cnt + 1) % CountMod
    BY <2>1 DEF Counted, Counters
  <2>4. setting.max_retry_cnt # INFINITE => n.cur_retry_cnt = reconn.cur_retry_cnt + 1
    <3>1. SUFFICES ASSUME setting.max_retry_cnt # INFINITE
                   PROVE  n.cur_retry_cnt = reconn.cur_retry_cnt + 1
      OBVIOUS
    <3>2. lim + 1 = Greatest(setting.max_retry_cnt, 1)
      BY <1>2, <1>f, <3>1 DEF Limit, Greatest
    <3>3. lim + 1 + MaxStarts < CountMod
      BY <1>2, <3>1, <3>2 DEF NoWrap
    <3>4. t >= 1
      BY <1>1, <1>4
    <3>5. reconn.cur_retry_cnt + 1 \in Nat /\ reconn.cur_retry_cnt + 1 < CountMod
      BY <1>1, <1>2, <1>3, <2>1, <2>2, <3>1, <3>3, <3>4
    <3>6. ASSUME NEW a \in Nat, a < CountMod PROVE a % CountMod = a
      BY <1>2, <3>6
    <3> QED
      BY <2>3, <3>5, <3>6
  <2> HIDE DEF n
  <2>5. CASE reconn_setting_can_retry(n)
    <3>1. /\ reconn' = reconn_setting_calc_delay(n)
          /\ timers' = timers + 1 /\ armed' = Least(armed + 1, Steady)
      BY <1>8, <2>5 DEF Failed, startReconnect, n
    <3>2. /\ n \in [cur_retry_cnt : Int, cur_delay : Int]
      <4>1. reconn.cur_delay \in Int
        BY <1>2, <2>1, TcpClientAssumption DEF Counters
      <4>2. (reconn.cur_retry_cnt + 1) % CountMod \in Int
        BY <1>2, <2>1, TcpClientAssumption
      <4>3. n = [reconn EXCEPT !.cur_retry_cnt = (reconn.cur_retry_cnt + 1) % CountMod]
        BY <2>1 DEF n, Counted, Counters
      <4>4. reconn \in [cur_retry_cnt : Int, cur_delay : Int]
        BY <1>2, <2>1, <4>1, TcpClientAssumption DEF Counters
      <4> QED
        BY <4>2, <4>3, <4>4
    <3>3. /\ reconn'.cur_retry_cnt = n.cur_retry_cnt
          /\ reconn'.cur_delay = Least(Greatest(Unclamped(n.cur_delay) % CountMod,
                                                setting.min_delay), setting.max_delay)
      BY <3>1, <3>2 DEF reconn_setting_calc_delay
    <3>4. reconn'.cur_delay = DelayOf(setting, armed + 1)
      BY <1>2, <2>2, <2>3, <3>3, NextDelay DEF Unclamped
    <3>5. reconn'.cur_delay = DelayOf(setting, armed')
      <4>1. CASE armed < Steady
        <5>1. armed' = armed + 1
          BY <1>2, <3>1, <4>1 DEF Least
        <5> QED
          BY <3>4, <5>1
      <4>2. CASE armed = Steady
        <5>1. armed' = Steady
          BY <1>2, <3>1, <4>2 DEF Least
        <5> QED
          BY <1>2, <3>4, <4>2, <5>1 DEF Settled
      <4> QED
        BY <1>2, <4>1, <4>2
    <3>6. u + m <= MaxStarts + 1
      BY <1>1, <1>5, <1>6, <3>1
    <3>7. setting.max_retry_cnt # INFINITE =>
            /\ armed' <= reconn'.cur_retry_cnt /\ armed' <= lim
            /\ reconn'.cur_retry_cnt + u + m <= lim + MaxStarts + 1
      <4>1. SUFFICES ASSUME setting.max_retry_cnt # INFINITE
                     PROVE  /\ armed' <= reconn'.cur_retry_cnt /\ armed' <= lim
                            /\ reconn'.cur_retry_cnt + u + m <= lim + MaxStarts + 1
        OBVIOUS
      <4>2. PICK c \in Nat : c = reconn.cur_retry_cnt
        BY <1>2, <2>1
      <4>3. reconn'.cur_retry_cnt = c + 1 /\ c + 1 < setting.max_retry_cnt /\ armed <= c
        BY <2>2, <2>4, <2>5, <3>3, <4>1, <4>2 DEF reconn_setting_can_retry
      <4>4. c + 1 <= lim
        BY <1>2, <1>f, <4>1, <4>3 DEF Limit, Greatest
      <4>5. armed' <= armed + 1 /\ armed' \in Nat
        BY <1>2, <3>1 DEF Least
      <4> QED
        BY <1>1, <1>2, <1>3, <3>6, <4>3, <4>4, <4>5
    <3> QED
      BY <1>1, <1>3, <1>d, <3>5, <3>6, <3>7 DEF Retries, Counts
  <2>6. CASE ~reconn_setting_can_retry(n)
    <3>1. reconn' = n /\ timers' = timers /\ armed' = armed
      BY <1>8, <2>6 DEF Failed, startReconnect, n
    <3>2. u + 1 <= t
      BY <1>1, <1>5, <3>1
    <3>3. u + m <= MaxStarts + 1
      BY <1>1, <1>6, <3>2
    <3>4. setting.max_retry_cnt # INFINITE
      BY <2>6 DEF reconn_setting_can_retry
    <3>5. PICK c \in Nat : c = reconn.cur_retry_cnt
      BY <1>2, <2>1
    <3>6. /\ reconn'.cur_retry_cnt = c + 1 /\ armed <= c /\ armed <= lim
          /\ c + t + m <= lim + MaxStarts + 1
      BY <2>2, <2>4, <3>1, <3>4, <3>5
    <3>7. armed' <= reconn'.cur_retry_cnt /\ reconn'.cur_retry_cnt + u + m <= lim + MaxStarts + 1
      BY <1>1, <1>2, <1>3, <3>1, <3>2, <3>6
    <3> QED
      BY <1>1, <1>3, <1>d, <2>2, <2>3, <3>1, <3>3, <3>6, <3>7 DEF Retries, Counts
  <2> QED
    BY <2>5, <2>6
<1> QED
  BY <1>7, <1>8

\* hio_close ends the only open hio_t and reconnects, or leaves the counters
\* alone or takes them away.
LEMMA CloseCounts ==
    ASSUME IInv, NEW f \in Fds, NEW i, i.ready = io[f].ready, i \in Ios,
           NEW c, NEW r \in {reconn, NULL}, hio_close(f, i, c, r)
    PROVE  \/ Open /\ ~Open' /\ startReconnect(reconn)
           \/ /\ reconn' \in {reconn, NULL} /\ UNCHANGED <<timers, armed>>
              /\ Open' => Open
<1>1. io \in [Fds -> Ios]
  BY DEF IInv, TypeOK
<1>2. CASE ~i.ready
  <2>1. io' = [io EXCEPT ![f] = i] /\ reconn' = r /\ UNCHANGED <<timers, armed>>
    BY <1>2 DEF hio_close
  <2> QED
    BY <1>1, <2>1 DEF Open
<1>3. CASE i.ready /\ CloseLater(i)
  <2>1. /\ io' = [io EXCEPT ![f] = [i EXCEPT !.close = TRUE, !.close_timer = TRUE]]
        /\ reconn' = r /\ UNCHANGED <<timers, armed>>
    BY <1>3 DEF hio_close
  <2>2. [i EXCEPT !.close = TRUE, !.close_timer = TRUE].ready = i.ready
    BY DEF Ios
  <2> QED
    BY <1>1, <1>3, <2>1, <2>2 DEF Open
<1>4. CASE i.ready /\ ~CloseLater(i)
  <2>1. io' = [io EXCEPT ![f] = hio_done(i)] /\ on_close(i, c, r)
    BY <1>4 DEF hio_close
  <2>2. ~hio_done(i).ready
    BY DEF hio_done, Ios
  <2>3. \A g \in Fds : io[g].ready => g = f
    BY <1>4 DEF IInv, Owner
  <2>4. Open /\ ~Open'
    BY <1>1, <1>4, <2>1, <2>2, <2>3 DEF Open
  <2>5. startReconnect(NULL) => reconn' = NULL /\ UNCHANGED <<timers, armed>>
    BY DEF startReconnect
  <2> QED
    BY <2>1, <2>4, <2>5 DEF on_close, onclose
<1> QED
  BY <1>2, <1>3, <1>4


LEMMA ClosePosted ==
    ASSUME IInv, IInv', NEW f \in Fds, NEW i, i.ready = io[f].ready, i \in Ios,
           NEW c, NEW r \in {reconn, NULL}, hio_close(f, i, c, r),
           Starts(posted') <= Starts(posted), left'.starts = left.starts
    PROVE  Failed \/ Quiet
<1>1. CASE Open /\ ~Open' /\ startReconnect(reconn)
  BY <1>1 DEF Failed
<1>2. CASE /\ reconn' \in {reconn, NULL} /\ UNCHANGED <<timers, armed>>
           /\ Open' => Open
  <2>1. /\ Starts(posted) \in Nat /\ Starts(posted') \in Nat /\ timers \in Nat
        /\ left.starts \in Nat
    BY StartsType DEF IInv, TypeOK
  <2> QED
    BY <1>2, <2>1 DEF Quiet, Tries
<1> QED
  BY <1>1, <1>2, CloseCounts

\* Connected: the counters start again, or the user's callback closes.
LEMMA ConnectedCounts ==
    ASSUME IInv, IInv', NEW i, i \in Ios, i.ready, io[chan.fd].ready,
           Connected(chan.fd, i), Starts(posted') <= Starts(posted)
    PROVE  Failed \/ Quiet \/ Restarted
<1> DEFINE on == [i EXCEPT !.connect_timer = FALSE, !.reading = TRUE]
           up == [chan EXCEPT !.status = "CONNECTED"]
           f  == chan.fd
<1>1. /\ io \in [Fds -> Ios] /\ f \in Fds /\ up.fd = f
      /\ on \in Ios /\ on.ready = io[f].ready
      /\ reconn = NULL \/ reconn \in [cur_retry_cnt : 0..CountMod - 1, cur_delay : 0..setting.max_delay]
      /\ left \in [starts : Nat, closes : Nat, sends : Nat, faults : Nat]
  BY DEF IInv, TypeOK, Ios, Counters
<1>2. /\ Starts(posted) \in Nat /\ Starts(posted') \in Nat /\ timers \in Nat
      /\ left.starts \in Nat
  BY StartsType DEF IInv, TypeOK
<1>3. CASE /\ io' = [io EXCEPT ![f] = on]
           /\ reconn' = IF reconn = NULL THEN NULL ELSE reconn_setting_reset(reconn)
           /\ armed' = IF reconn = NULL THEN armed ELSE 0
           /\ UNCHANGED <<timers, left>>
  <2>1. Open' => Open
    BY <1>1, <1>3 DEF Open
  <2>2. Tries' + left'.starts <= Tries + left.starts
    BY <1>2, <1>3, <2>1 DEF Tries
  <2>3. CASE reconn = NULL
    BY <1>3, <2>2, <2>3 DEF Quiet
  <2>4. CASE reconn # NULL
    <3>1. /\ reconn_setting_reset(reconn).cur_retry_cnt = 0
          /\ reconn_setting_reset(reconn).cur_delay = 0
      BY <1>1, <2>4 DEF reconn_setting_reset
    <3> QED
      BY <1>3, <2>2, <2>4, <3>1 DEF Restarted
  <2> QED
    BY <2>3, <2>4
<1>4. CASE /\ left' = [left EXCEPT !.closes = @ - 1]
           /\ closesocketInLoop(on, up)
  <2>1. left'.starts = left.starts
    BY <1>1, <1>4
  <2>2. CASE isOpened(up)
    <3>1. hio_close(f, on, [up EXCEPT !.status = CLOSED], NULL)
      BY <1>1, <1>4, <2>2 DEF closesocketInLoop
    <3> HIDE DEF on, up
    <3> QED
      BY <1>1, <2>1, <3>1, ClosePosted
  <2>3. CASE ~isOpened(up)
    <3>1. /\ io' = [io EXCEPT ![f] = on] /\ reconn' = NULL /\ UNCHANGED <<timers, armed>>
      BY <1>1, <1>4, <2>3 DEF closesocketInLoop
    <3>2. Open' => Open
      BY <1>1, <3>1 DEF Open
    <3> QED
      BY <1>2, <2>1, <3>1, <3>2 DEF Quiet, Tries
  <2> QED
    BY <2>2, <2>3
<1> QED
  BY <1>3, <1>4 DEF Connected

LEMMA ConnectCounts ==
    ASSUME IInv, IInv', NEW f \in Fds, NEW i, Alike(io[f], i),
           nio_connect(f, i), Starts(posted') <= Starts(posted)
    PROVE  Failed \/ Quiet \/ Restarted
<1>1. i \in Ios /\ i.ready = io[f].ready
  BY DEF Alike
<1>2. CASE sock[f] \in {"established", "eof"}
  <2>1. io[f].ready /\ f = chan.fd
    <3>1. Sound(io[f], sock[f], chan.status)
      BY DEF IInv, Sounds
    <3> QED
      BY <1>2, <3>1 DEF Sound, IInv, Owner
  <2>2. Connected(f, i)
    BY <1>2 DEF nio_connect
  <2> QED
    BY <1>1, <2>1, <2>2, ConnectedCounts
<1>3. CASE sock[f] \notin {"established", "eof"}
  <2> DEFINE j == [i EXCEPT !.error = TRUE]
  <2>1. hio_close(f, j, chan, reconn) /\ left' = left
    BY SMTT(30), <1>3 DEF nio_connect
  <2>2. j \in Ios /\ j.ready = io[f].ready
    BY <1>1, Likes DEF Alike
  <2> HIDE DEF j
  <2> QED
    BY <2>1, <2>2, ClosePosted
<1> QED
  BY <1>2, <1>3

LEMMA HandlerCounts ==
    ASSUME IInv, IInv', NEW f \in Fds,
           \/ HandleConnect(f) \/ HandleRead(f) \/ HandleWrite(f)
           \/ connect_timeout_cb(f) \/ close_timeout_cb(f)
    PROVE  (Failed \/ Quiet \/ Restarted) /\ setting' = setting
<1>1. io \in [Fds -> Ios] /\ io[f] \in Ios
  BY DEF IInv, TypeOK
<1>2. Starts(posted') <= Starts(posted) /\ setting' = setting
  <2>1. posted' = posted /\ setting' = setting
    BY DEF HandleConnect, HandleRead, HandleWrite, connect_timeout_cb, close_timeout_cb, envVars
  <2>2. Starts(posted) \in Nat
    BY StartsType DEF IInv, TypeOK
  <2> QED
    BY <2>1, <2>2
<1>3. left \in [starts : Nat, closes : Nat, sends : Nat, faults : Nat]
  BY DEF IInv, TypeOK
<1>4. CASE HandleConnect(f)
  <2> DEFINE i == [io[f] EXCEPT !.connect = FALSE]
  <2>1. nio_connect(f, i)
    BY SMTT(30), <1>4 DEF HandleConnect
  <2>2. Alike(io[f], i)
    BY <1>1, Likes
  <2> HIDE DEF i
  <2> QED
    BY <1>2, <2>1, <2>2, ConnectCounts
<1>5. CASE HandleRead(f)
  <2> DEFINE i == [io[f] EXCEPT !.error = @ \/ sock[f] = "reset"]
  <2>1. hio_close(f, i, chan, reconn) /\ left' = left
    BY <1>5 DEF HandleRead
  <2>2. i \in Ios /\ i.ready = io[f].ready
    BY <1>1 DEF Ios
  <2> HIDE DEF i
  <2> QED
    BY <1>2, <2>1, <2>2, ClosePosted
<1>6. CASE HandleWrite(f)
  <2> DEFINE i == [io[f] EXCEPT !.unsent = FALSE]
  <2>1. /\ left' = left
        /\ IF i.close THEN hio_close(f, i, chan, reconn)
           ELSE io' = [io EXCEPT ![f] = i] /\ UNCHANGED <<reconn, timers, armed>>
    BY <1>6 DEF HandleWrite
  <2>2. i \in Ios /\ i.ready = io[f].ready
    BY <1>1 DEF Ios
  <2> HIDE DEF i
  <2>3. CASE i.close
    BY <1>2, <2>1, <2>2, <2>3, ClosePosted
  <2>4. CASE ~i.close
    <3>1. Open' => Open
      BY <1>1, <2>1, <2>2, <2>4 DEF Open
    <3>2. Starts(posted) \in Nat /\ Starts(posted') \in Nat /\ timers \in Nat /\ left.starts \in Nat
      BY StartsType DEF IInv, TypeOK
    <3> QED
      BY <1>2, <2>1, <2>4, <3>1, <3>2 DEF Quiet, Tries
  <2> QED
    BY <2>3, <2>4
<1>7. CASE connect_timeout_cb(f)
  <2> DEFINE i == [io[f] EXCEPT !.error = TRUE, !.connect_timer = FALSE]
  <2>1. hio_close(f, i, chan, reconn) /\ left'.starts = left.starts
    BY SMTT(30), <1>3, <1>7 DEF connect_timeout_cb
  <2>2. i \in Ios /\ i.ready = io[f].ready
    BY <1>1, Likes DEF Alike
  <2> HIDE DEF i
  <2> QED
    BY <1>2, <2>1, <2>2, ClosePosted
<1>8. CASE close_timeout_cb(f)
  <2> DEFINE i == [io[f] EXCEPT !.error = TRUE, !.close_timer = FALSE]
  <2>1. hio_close(f, i, chan, reconn) /\ left' = left
    BY SMTT(30), <1>8 DEF close_timeout_cb
  <2>2. i \in Ios /\ i.ready = io[f].ready
    BY <1>1, Likes DEF Alike
  <2> HIDE DEF i
  <2> QED
    BY <1>2, <2>1, <2>2, ClosePosted
<1> QED
  BY <1>4, <1>5, <1>6, <1>7, <1>8


LEMMA StartCounts ==
    ASSUME IInv, IInv', ReconnectTimer \/ RunStart
    PROVE  Quiet /\ setting' = setting
<1>1. /\ TypeOK /\ posted \in Seq(Posts) /\ posted' \in Seq(Posts)
      /\ timers \in Nat /\ timers' \in Nat /\ left.starts \in Nat
      /\ chan.fd \in Fds /\ io[chan.fd] \in Ios
      /\ left \in [starts : Nat, closes : Nat, sends : Nat, faults : Nat]
  BY DEF IInv, TypeOK
<1>2. PICK p \in Seq(Posts) :
         /\ startConnect(p) /\ UNCHANGED <<reconn, armed, setting>>
         /\ timers' + Starts(p) + 1 <= timers + Starts(posted)
  <2>1. CASE ReconnectTimer
    <3>1. /\ startConnect(posted) /\ UNCHANGED <<reconn, armed, setting>>
          /\ timers' = timers - 1
      BY <2>1 DEF ReconnectTimer, envVars
    <3>2. Starts(posted) \in Nat
      BY <1>1, StartsType
    <3>3. timers' + Starts(posted) + 1 <= timers + Starts(posted)
      BY <1>1, <3>1, <3>2
    <3> QED
      BY <1>1, <3>1, <3>3
  <2>2. CASE RunStart
    <3>1. /\ startConnect(Tail(posted)) /\ UNCHANGED <<reconn, armed, setting, timers>>
          /\ posted # << >> /\ Head(posted).kind = "start"
      BY <2>2 DEF RunStart, Posted, envVars
    <3>2. Tail(posted) \in Seq(Posts)
      BY <1>1, <3>1, Rests
    <3>3. /\ Starts(posted) \in Nat /\ Starts(Tail(posted)) \in Nat
          /\ Starts(Tail(posted)) + 1 <= Starts(posted)
      BY <1>1, <3>1, <3>2, StartsTail, StartsType
    <3>4. timers' + Starts(Tail(posted)) + 1 <= timers + Starts(posted)
      BY <1>1, <3>1, <3>3
    <3> QED
      BY <3>1, <3>2, <3>4
  <2> QED
    BY <2>1, <2>2
<1>3. Starts(posted') = Starts(p) /\ left'.starts = left.starts
  <2>1. ASSUME NEW f \in Fds, NEW i, i.id \in Nat, hio_connect(f, i, p)
        PROVE  Starts(posted') = Starts(p)
    <3>1. ASSUME NEW kind \in {"hio_close", "nio_connect"}
          PROVE  Event(kind, f, i) \in Posts /\ Event(kind, f, i).kind # "start"
      BY <2>1, <3>1 DEF Event, Posts
    <3>2. \/ posted' = p
          \/ \E kind \in {"hio_close", "nio_connect"} : posted' = Append(p, Event(kind, f, i))
      BY <2>1 DEF hio_connect, ConnectFails, ConnectDone, ConnectWaits
    <3> QED
      BY <3>1, <3>2, StartsAppend
  <2>2. \A f \in Fds : hio_ready(f).id \in Nat
    BY <1>1, FreshId DEF hio_ready
  <2>3. io[chan.fd].id \in Nat
    BY <1>1 DEF Ios
  <2>4. \/ posted' = p
        \/ \E f \in Fds : hio_connect(f, hio_ready(f), p)
        \/ hio_connect(chan.fd, io[chan.fd], p)
    BY <1>2 DEF startConnect
  <2>5. left'.starts = left.starts
    BY <1>1, <1>2 DEF startConnect
  <2> QED
    BY <1>1, <2>1, <2>2, <2>3, <2>4, <2>5
<1>4. Starts(posted) \in Nat /\ Starts(posted') \in Nat /\ Starts(p) \in Nat
  BY <1>1, StartsType
<1> QED
  BY SMTT(30), <1>1, <1>2, <1>3, <1>4 DEF Quiet, Tries

LEMMA PostedCounts ==
    ASSUME IInv, IInv', RunClose \/ nio_connect_event_cb \/ hio_close_event_cb
    PROVE  (Failed \/ Quiet \/ Restarted) /\ setting' = setting
<1> DEFINE e == Head(posted)
<1>1. /\ posted \in Seq(Posts) /\ posted # << >> /\ posted' = Tail(posted)
      /\ setting' = setting /\ io \in [Fds -> Ios] /\ chan.fd \in Fds
      /\ timers \in Nat /\ left.starts \in Nat
  BY DEF IInv, TypeOK, RunClose, nio_connect_event_cb, hio_close_event_cb, Posted, envVars
<1>2. /\ Starts(posted') <= Starts(posted) /\ Starts(posted') \in Nat /\ Starts(posted) \in Nat
      /\ e.fd \in Fds
  <2>1. Tail(posted) \in Seq(Posts) /\ e \in Posts
    BY <1>1, Rests
  <2> QED
    BY <1>1, <2>1, StartsTail, StartsType DEF Posts
<1>3. CASE RunClose
  <2>1. closesocketInLoop(io[chan.fd], chan) /\ left' = left
    BY <1>3 DEF RunClose
  <2>2. CASE isOpened(chan)
    <3>1. hio_close(chan.fd, io[chan.fd], [chan EXCEPT !.status = CLOSED], NULL)
      BY <2>1, <2>2 DEF closesocketInLoop
    <3> QED
      BY <1>1, <1>2, <2>1, <3>1, ClosePosted
  <2>3. CASE ~isOpened(chan)
    <3>1. io' = [io EXCEPT ![chan.fd] = io[chan.fd]] /\ reconn' = NULL /\ UNCHANGED <<timers, armed>>
      BY <2>1, <2>3 DEF closesocketInLoop
    <3>2. io' = io
      BY <1>1, <3>1
    <3> QED
      BY <1>1, <1>2, <2>1, <3>1, <3>2 DEF Quiet, Tries, Open
  <2> QED
    BY <2>2, <2>3
<1>4. CASE (nio_connect_event_cb \/ hio_close_event_cb) /\ ~SameId(e)
  <2>1. UNCHANGED <<io, reconn, timers, left, armed>>
    BY <1>4 DEF nio_connect_event_cb, hio_close_event_cb
  <2> QED
    BY <1>1, <1>2, <2>1 DEF Quiet, Tries, Open
<1>5. CASE nio_connect_event_cb /\ SameId(e)
  <2>1. nio_connect(e.fd, io[e.fd])
    BY <1>5 DEF nio_connect_event_cb
  <2>2. Alike(io[e.fd], io[e.fd])
    BY <1>1, <1>2 DEF Alike
  <2> HIDE DEF e
  <2> QED
    BY <1>1, <1>2, <2>1, <2>2, ConnectCounts
<1>6. CASE hio_close_event_cb /\ SameId(e)
  <2>1. hio_close(e.fd, io[e.fd], chan, reconn) /\ left' = left
    BY <1>6 DEF hio_close_event_cb
  <2>2. io[e.fd] \in Ios
    BY <1>1, <1>2
  <2> HIDE DEF e
  <2> QED
    BY <1>1, <1>2, <2>1, <2>2, ClosePosted
<1> QED
  BY <1>3, <1>4, <1>5, <1>6

LEMMA UserCounts ==
    ASSUME IInv, IInv', User \/ Network \/ UNCHANGED vars
    PROVE  (Quiet \/ Restarted) /\ setting' = setting
<1>1. /\ posted \in Seq(Posts) /\ io \in [Fds -> Ios] /\ chan.fd \in Fds
      /\ timers \in Nat /\ left.starts \in Nat /\ Starts(posted) \in Nat
      /\ left \in [starts : Nat, closes : Nat, sends : Nat, faults : Nat]
  BY StartsType DEF IInv, TypeOK
<1>2. ASSUME NEW kind \in {"start", "closesocket"}
      PROVE  Call(kind) \in Posts /\ Call(kind).kind = kind
  BY <1>1 DEF Call, Posts
<1>3. CASE start
  <2>1. /\ posted' = Append(posted, Call("start")) /\ left'.starts = left.starts - 1
        /\ UNCHANGED <<io, timers, setting>>
    BY <1>1, <1>3 DEF start, envVars
  <2>2. Starts(posted') = Starts(posted) + 1
    BY <1>1, <1>2, <2>1, StartsAppend
  <2>3. Tries' + left'.starts <= Tries + left.starts
    BY <1>1, <2>1, <2>2 DEF Tries, Open
  <2> QED
    BY <1>3, <2>1, <2>3 DEF start, setReconnect, Quiet, Restarted
<1>4. CASE closesocket
  <2>1. /\ posted' = Append(posted, Call("closesocket")) /\ left'.starts = left.starts
        /\ UNCHANGED <<io, timers, setting, reconn, armed>>
    BY <1>1, <1>4 DEF closesocket, envVars
  <2>2. Starts(posted') = Starts(posted)
    BY <1>1, <1>2, <2>1, StartsAppend
  <2> QED
    BY <1>1, <2>1, <2>2 DEF Quiet, Tries, Open
<1>5. CASE send
  <2>1. /\ io' = [io EXCEPT ![chan.fd] = [io[chan.fd] EXCEPT !.unsent = TRUE]]
        /\ left'.starts = left.starts
        /\ UNCHANGED <<posted, timers, setting, reconn, armed>>
    BY <1>1, <1>5 DEF send, envVars
  <2>2. [io[chan.fd] EXCEPT !.unsent = TRUE].ready = io[chan.fd].ready
    BY <1>1 DEF Ios
  <2>3. Open' => Open
    BY <1>1, <2>1, <2>2 DEF Open
  <2> QED
    BY <1>1, <2>1, <2>3 DEF Quiet, Tries
<1>6. CASE Network \/ UNCHANGED vars
  <2>1. left'.starts = left.starts /\ UNCHANGED <<io, posted, timers, setting, reconn, armed>>
    BY <1>1, <1>6 DEF Network, ServerTurns, Answer, PeerEnds, Fault, vars, loopVars, envVars
  <2> QED
    BY <1>1, <2>1 DEF Quiet, Tries, Open
<1> QED
  BY <1>3, <1>4, <1>5, <1>6 DEF User

\* BackoffExact: however refusals, timeouts, connections and calls of start
\* are mixed, the n-th retry in a row waits for the n-th delay of the policy
\* and a limited client makes fewer retries than its limit, as long as the
\* delays and the attempts fit 32 bits.
THEOREM BackoffIsExact ==
    ASSUME Apart, NoWrap, Settled
    PROVE  Spec => []BackoffExact
<1>1. Init => Retries
  <2> SUFFICES ASSUME Init PROVE Retries
    OBVIOUS
  <2>1. /\ timers = 0 /\ posted = << >> /\ left.starts = MaxStarts /\ armed = 0
        /\ setting \in Settings /\ MaxStarts \in Nat
        /\ reconn = NULL \/ (reconn.cur_retry_cnt = 0 /\ reconn.cur_delay = 0)
    BY TcpClientAssumption DEF Init, setReconnect
  <2>2. Starts(posted) = 0
    <3>1. StartsAt(<< >>) = {}
      BY DEF StartsAt
    <3> QED
      BY <2>1, <3>1, FS_EmptySet DEF Starts
  <2>3. Tries \in {0, 1}
    BY <2>1, <2>2 DEF Tries
  <2>4. Limit \in Nat
    BY <2>1, TcpClientAssumption DEF Limit, Greatest, INFINITE
  <2>5. DelayOf(setting, 0) = 0
    BY DEF DelayOf
  <2> QED
    BY <2>1, <2>3, <2>4, <2>5 DEF Retries, Counts
<1>2. IInv /\ IInv' /\ Retries /\ [Next]_vars => Retries'
  <2> SUFFICES ASSUME IInv, IInv', Retries, [Next]_vars PROVE Retries'
    OBVIOUS
  <2>1. (Failed \/ Quiet \/ Restarted) /\ setting' = setting
    <3>1. CASE LoopStep
      BY <3>1, HandlerCounts, StartCounts, PostedCounts DEF LoopStep
    <3>2. CASE User \/ Network \/ UNCHANGED vars
      BY <3>2, UserCounts
    <3> QED
      BY <3>1, <3>2 DEF Next
  <2>2. TypeOK /\ TypeOK'
    BY DEF IInv
  <2> QED
    BY <2>1, <2>2, FailedKeeps, QuietKeeps
<1>3. Retries => BackoffExact
  BY DEF Retries, Counts, BackoffExact, Limit
<1> QED
  BY <1>1, <1>2, <1>3, AlwaysIInv, PTL DEF Spec

=============================================================================

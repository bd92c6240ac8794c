-------------------------- MODULE HioThreadsProofs --------------------------
(***************************************************************************)
(* Proofs about HioThreads, for every number of threads, calls, buffers    *)
(* and connections: the array queue of base/queue.h, from which it is      *)
(* built, is a first-in first-out queue whatever its array does; the type  *)
(* invariant, mutual exclusion, that the front buffer nio_write pops is    *)
(* there, that write_bufsize is exact, and that the hio_t gives each       *)
(* connection one ordered stream (HioStream).                              *)
(***************************************************************************)
EXTENDS HioThreads, SequenceLaws

-----------------------------------------------------------------------------
(* The queue.                                                              *)

\* The elements of a queue are a sequence of size members of Elem.
LEMMA ElemsType ==
    ASSUME NEW Elem, NEW q, QueueOK(q, Elem)
    PROVE  /\ queue_elems(q) \in Seq(Elem) /\ Len(queue_elems(q)) = q.size
           /\ \A i \in 1..q.size : queue_elems(q)[i] = q.ptr[q.offset + i - 1]
<1>1. q.size \in Nat /\ q.offset \in Nat  BY DEF QueueOK
<1>2. ASSUME NEW i \in 1..q.size  PROVE q.ptr[q.offset + i - 1] \in Elem
  <2>1. q.offset + i - 1 \in q.offset .. q.offset + q.size - 1  BY <1>1
  <2> QED  BY <2>1 DEF QueueOK
<1> QED  BY <1>1, <1>2, IsASeq DEF queue_elems

\* A fresh queue, or one that was cleaned up, is empty.
LEMMA InitElems ==
    ASSUME NEW Elem, NEW n \in Nat
    PROVE  QueueOK(queue_init(n), Elem) /\ queue_elems(queue_init(n)) = << >>
BY DEF QueueOK, queue_init, queue_elems, Slots

\* The record that push_back and pop_front leave is a queue.
LEMMA MakeOK ==
    ASSUME NEW Elem, NEW n \in Nat, NEW s \in Nat, NEW o \in Nat, o + s <= n,
           NEW p \in [Slots(n) -> Elem \cup {NoElem}],
           \A i \in o .. o + s - 1 : p[i] \in Elem
    PROVE  QueueOK([ptr |-> p, size |-> s, maxsize |-> n, offset |-> o], Elem)
BY DEF QueueOK

\* Room is made behind the elements, which stay what they were: the array is
\* doubled (or allocated) when it is full, the elements move to its front
\* when they have run to its end.
LEMMA RoomKeeps ==
    ASSUME NEW Elem, NEW q, QueueOK(q, Elem)
    PROVE  /\ QueueOK(queue_room(q), Elem)
           /\ queue_room(q).size = q.size
           /\ queue_room(q).offset + q.size < queue_room(q).maxsize
           /\ \A i \in 0 .. q.size - 1 :
                 queue_room(q).ptr[queue_room(q).offset + i] = q.ptr[q.offset + i]
<1> DEFINE r == queue_room(q)
<1>1. /\ q.maxsize \in Nat /\ q.size \in Nat /\ q.offset \in Nat
      /\ q.offset + q.size <= q.maxsize
      /\ q = [ptr |-> q.ptr, size |-> q.size, maxsize |-> q.maxsize, offset |-> q.offset]
      /\ q.ptr \in [Slots(q.maxsize) -> Elem \cup {NoElem}]
      /\ \A i \in q.offset .. q.offset + q.size - 1 : q.ptr[i] \in Elem
  BY DEF QueueOK
<1>2. CASE q.size = q.maxsize
  <2> DEFINE m == IF q.maxsize * 2 = 0 THEN QUEUE_INIT_SIZE ELSE q.maxsize * 2
             p == [i \in Slots(m) |-> IF i < q.maxsize THEN q.ptr[i] ELSE NoElem]
  <2>1. m \in Nat /\ q.maxsize < m /\ q.offset = 0  BY <1>1, <1>2 DEF QUEUE_INIT_SIZE
  <2>2. r = [ptr |-> p, size |-> q.size, maxsize |-> m, offset |-> q.offset]
    BY <1>1, <1>2 DEF queue_room, queue_double_resize, queue_resize
  <2>3. p \in [Slots(m) -> Elem \cup {NoElem}]
    <3>1. ASSUME NEW i \in Slots(m)
          PROVE  (IF i < q.maxsize THEN q.ptr[i] ELSE NoElem) \in Elem \cup {NoElem}
      <4>1. i < q.maxsize => i \in Slots(q.maxsize)  BY <1>1, <2>1 DEF Slots
      <4> HIDE DEF m
      <4> QED  BY <1>1, <4>1
    <3> HIDE DEF m
    <3> QED  BY <3>1
  <2>4. \A i \in 0 .. q.size - 1 : p[i] = q.ptr[i]
    <3> HIDE DEF m
    <3> QED  BY <1>1, <1>2, <2>1 DEF Slots
  <2> HIDE DEF m, p
  <2>5. \A i \in q.offset .. q.offset + q.size - 1 : p[i] \in Elem
    BY <1>1, <2>1, <2>4
  <2>6. QueueOK(r, Elem)
    <3>1. q.offset + q.size <= m  BY <1>1, <1>2, <2>1
    <3> HIDE DEF r
    <3> QED  BY <1>1, <2>1, <2>2, <2>3, <2>5, <3>1, MakeOK
  <2> HIDE DEF r
  <2>7. r.size = q.size /\ r.offset = 0 /\ r.maxsize = m /\ r.ptr = p  BY <2>1, <2>2
  <2>8. \A i \in 0 .. q.size - 1 : 0 + i = i  BY <1>1
  <2> QED  BY <1>1, <1>2, <2>1, <2>4, <2>6, <2>7, <2>8 DEF r
<1>3. CASE q.size # q.maxsize /\ q.offset + q.size = q.maxsize
  <2> DEFINE p == [i \in Slots(q.maxsize) |->
                     IF i < q.size THEN q.ptr[q.offset + i] ELSE q.ptr[i]]
  <2>1. r = [ptr |-> p, size |-> q.size, maxsize |-> q.maxsize, offset |-> 0]
    BY <1>1, <1>3 DEF queue_room, queue_move
  <2>2. ASSUME NEW i \in 0 .. q.size - 1
        PROVE  i \in Slots(q.maxsize) /\ q.offset + i \in q.offset .. q.offset + q.size - 1
    BY <1>1 DEF Slots
  <2>3. \A i \in 0 .. q.size - 1 : p[i] = q.ptr[q.offset + i] /\ p[i] \in Elem
    BY <1>1, <2>2
  <2>4. p \in [Slots(q.maxsize) -> Elem \cup {NoElem}]
    <3>1. ASSUME NEW i \in Slots(q.maxsize)
          PROVE  (IF i < q.size THEN q.ptr[q.offset + i] ELSE q.ptr[i]) \in Elem \cup {NoElem}
      <4>1. i < q.size => i \in 0 .. q.size - 1  BY <1>1 DEF Slots
      <4> QED  BY <1>1, <2>2, <4>1
    <3> QED  BY <3>1
  <2> HIDE DEF p
  <2>5. QueueOK(r, Elem)
    <3>1. 0 + q.size <= q.maxsize /\ \A i \in 0 .. 0 + q.size - 1 : p[i] \in Elem
      BY <1>1, <2>3
    <3> HIDE DEF r
    <3> QED  BY <1>1, <2>1, <2>4, <3>1, MakeOK
  <2> HIDE DEF r
  <2>6. r.size = q.size /\ r.offset = 0 /\ r.maxsize = q.maxsize /\ r.ptr = p  BY <2>1
  <2>7. \A i \in 0 .. q.size - 1 : 0 + i = i  BY <1>1
  <2> QED  BY <1>1, <1>3, <2>3, <2>5, <2>6, <2>7 DEF r
<1>4. CASE q.size # q.maxsize /\ q.offset + q.size # q.maxsize
  <2>1. r = q  BY <1>4 DEF queue_room
  <2> HIDE DEF r
  <2> QED  BY <1>1, <1>4, <2>1 DEF r
<1> QED  BY <1>2, <1>3, <1>4

\* push_back puts its element behind the others, also when it has to move
\* them or to make a larger array.
LEMMA PushBackElems ==
    ASSUME NEW Elem, NEW q, QueueOK(q, Elem), NEW e \in Elem
    PROVE  /\ QueueOK(queue_push_back(q, e), Elem)
           /\ queue_elems(queue_push_back(q, e)) = Append(queue_elems(q), e)
           /\ queue_push_back(q, e).size = q.size + 1
<1> DEFINE r == queue_room(q)
           b == queue_push_back(q, e)
           p == [r.ptr EXCEPT ![r.offset + r.size] = e]
<1>1. b = [r EXCEPT !.ptr = p, !.size = r.size + 1]  BY DEF queue_push_back
<1>2. /\ QueueOK(r, Elem) /\ r.size = q.size /\ r.offset + q.size < r.maxsize
      /\ \A i \in 0 .. q.size - 1 : r.ptr[r.offset + i] = q.ptr[q.offset + i]
  BY RoomKeeps
<1>3. q.size \in Nat /\ q.offset \in Nat  BY DEF QueueOK
<1> HIDE DEF r, b
<1>4. /\ r.maxsize \in Nat /\ r.size \in Nat /\ r.offset \in Nat
      /\ r = [ptr |-> r.ptr, size |-> r.size, maxsize |-> r.maxsize, offset |-> r.offset]
      /\ r.ptr \in [Slots(r.maxsize) -> Elem \cup {NoElem}]
      /\ \A i \in r.offset .. r.offset + r.size - 1 : r.ptr[i] \in Elem
  BY <1>2 DEF QueueOK
<1>5. b = [ptr |-> p, size |-> r.size + 1, maxsize |-> r.maxsize, offset |-> r.offset]
  BY <1>1, <1>4
<1>6. r.offset + r.size \in Slots(r.maxsize)  BY <1>2, <1>4 DEF Slots
<1>7. /\ p \in [Slots(r.maxsize) -> Elem \cup {NoElem}]
      /\ p[r.offset + r.size] = e
      /\ \A i \in r.offset .. r.offset + r.size - 1 : p[i] = r.ptr[i]
  <2>1. \A i \in r.offset .. r.offset + r.size - 1 :
           i \in Slots(r.maxsize) /\ i # r.offset + r.size
    <3>1. r.offset + r.size < r.maxsize  BY <1>2
    <3> QED  BY ONLY <1>4, <3>1 DEF Slots
  <2> QED  BY <1>4, <1>6, <2>1
<1> HIDE DEF p
<1>8. QueueOK(b, Elem)
  <2>1. \A i \in r.offset .. r.offset + (r.size + 1) - 1 : p[i] \in Elem
    <3> TAKE i \in r.offset .. r.offset + (r.size + 1) - 1
    <3>1. i = r.offset + r.size \/ i \in r.offset .. r.offset + r.size - 1  BY <1>4
    <3> QED  BY <1>4, <1>7, <3>1
  <2>2. r.size + 1 \in Nat /\ r.offset + (r.size + 1) <= r.maxsize  BY <1>2, <1>4
  <2> QED  BY <1>4, <1>5, <1>7, <2>1, <2>2, MakeOK
<1>9. b.size = q.size + 1 /\ b.offset = r.offset /\ b.ptr = p  BY <1>2, <1>5
<1>10. queue_elems(b) = Append(queue_elems(q), e)
  <2> DEFINE s == queue_elems(q)
             t == Append(s, e)
             u == queue_elems(b)
  <2>1. /\ s \in Seq(Elem) /\ Len(s) = q.size
        /\ \A i \in 1..q.size : s[i] = q.ptr[q.offset + i - 1]
    BY ElemsType
  <2>2. /\ u \in Seq(Elem) /\ Len(u) = q.size + 1
        /\ \A i \in 1..(q.size + 1) : u[i] = p[r.offset + i - 1]
    BY <1>8, <1>9, ElemsType
  <2> HIDE DEF s, u
  <2>3. t \in Seq(Elem) /\ Len(t) = q.size + 1  BY <2>1
  <2>4. ASSUME NEW i \in 1..(q.size + 1)  PROVE u[i] = t[i]
    <3>1. CASE i = q.size + 1
      <4>1. r.offset + i - 1 = r.offset + r.size  BY <1>2, <1>3, <1>4, <3>1
      <4>2. t[i] = e  BY <2>1, <3>1
      <4> QED  BY <1>7, <2>2, <4>1, <4>2
    <3>2. CASE i # q.size + 1
      <4>1. /\ i \in 1..q.size /\ i - 1 \in 0 .. q.size - 1
            /\ r.offset + i - 1 \in r.offset .. r.offset + r.size - 1
            /\ r.offset + i - 1 = r.offset + (i - 1)
            /\ q.offset + i - 1 = q.offset + (i - 1)
        BY <1>2, <1>3, <1>4, <3>2
      <4>2. t[i] = s[i]  BY <2>1, <4>1
      <4>3. u[i] = r.ptr[r.offset + (i - 1)]  BY <1>7, <2>2, <4>1
      <4>4. s[i] = q.ptr[q.offset + (i - 1)]  BY <2>1, <4>1
      <4> QED  BY <1>2, <4>1, <4>2, <4>3, <4>4
    <3> QED  BY <3>1, <3>2
  <2> HIDE DEF t
  <2>5. u = t  BY <2>2, <2>3, <2>4, SeqEqual
  <2> QED  BY <2>5 DEF s, t, u
<1> QED  BY <1>8, <1>9, <1>10 DEF b

\* pop_front takes the first element and leaves the others as they were.
LEMMA PopFrontElems ==
    ASSUME NEW Elem, NEW q, QueueOK(q, Elem), ~queue_empty(q)
    PROVE  /\ QueueOK(queue_pop_front(q), Elem)
           /\ queue_elems(q) # << >> /\ Head(queue_elems(q)) = queue_front(q)
           /\ queue_elems(queue_pop_front(q)) = Tail(queue_elems(q))
<1> DEFINE b == queue_pop_front(q)
           o == IF q.offset + 1 = q.maxsize THEN 0 ELSE q.offset + 1
<1>1. /\ q.maxsize \in Nat /\ q.size \in Nat /\ q.offset \in Nat /\ q.size > 0
      /\ q.offset + q.size <= q.maxsize
      /\ q = [ptr |-> q.ptr, size |-> q.size, maxsize |-> q.maxsize, offset |-> q.offset]
      /\ q.ptr \in [Slots(q.maxsize) -> Elem \cup {NoElem}]
      /\ \A i \in q.offset .. q.offset + q.size - 1 : q.ptr[i] \in Elem
  BY DEF QueueOK, queue_empty
<1>2. b = [ptr |-> q.ptr, size |-> q.size - 1, maxsize |-> q.maxsize, offset |-> o]
  <2>1. b = [q EXCEPT !.size = q.size - 1, !.offset = o]  BY DEF queue_pop_front
  <2> HIDE DEF o, b
  <2> QED  BY <1>1, <2>1
<1> HIDE DEF b
<1>3. /\ o \in Nat /\ q.size - 1 \in Nat /\ o + (q.size - 1) <= q.maxsize
      /\ (q.size > 1 => o = q.offset + 1)
  BY <1>1
<1> HIDE DEF o
<1>4. ASSUME NEW i \in o .. o + (q.size - 1) - 1  PROVE q.ptr[i] \in Elem
  <2>1. q.size > 1  BY <1>1, <1>3
  <2>2. i \in q.offset .. q.offset + q.size - 1  BY <1>1, <1>3, <2>1
  <2> QED  BY <1>1, <2>2
<1>5. QueueOK(b, Elem)  BY <1>1, <1>2, <1>3, <1>4, MakeOK
<1> DEFINE s == queue_elems(q)
           u == queue_elems(b)
           t == Tail(s)
<1>6. /\ s \in Seq(Elem) /\ Len(s) = q.size
      /\ \A i \in 1..q.size : s[i] = q.ptr[q.offset + i - 1]
  BY ElemsType
<1>7. b.size = q.size - 1 /\ b.offset = o /\ b.ptr = q.ptr  BY <1>2
<1>8. /\ u \in Seq(Elem) /\ Len(u) = q.size - 1
      /\ \A i \in 1..(q.size - 1) : u[i] = q.ptr[o + i - 1]
  BY <1>5, <1>7, ElemsType
<1> HIDE DEF s, u
<1>9. s # << >> /\ Head(s) = q.ptr[q.offset]
  <2>1. 1 \in 1..q.size /\ q.offset + 1 - 1 = q.offset  BY <1>1
  <2>2. s # << >> /\ Head(s) = s[1]  BY <1>1, <1>6
  <2> QED  BY <1>6, <2>1, <2>2
<1>10. t \in Seq(Elem) /\ Len(t) = q.size - 1 /\ \A i \in 1..(q.size - 1) : t[i] = s[i + 1]
  BY <1>1, <1>6, <1>9
<1> HIDE DEF t
<1>11. ASSUME NEW i \in 1..(q.size - 1)  PROVE u[i] = t[i]
  <2>1. /\ i + 1 \in 1..q.size /\ q.size > 1
        /\ q.offset + (i + 1) - 1 = o + i - 1
    BY <1>1, <1>3
  <2>2. s[i + 1] = q.ptr[q.offset + (i + 1) - 1]  BY <1>6, <2>1
  <2> QED  BY <1>8, <1>10, <2>1, <2>2
<1>12. u = t  BY <1>8, <1>10, <1>11, SeqEqual
<1> QED  BY <1>5, <1>9, <1>12 DEF s, t, u, b, queue_front

\* The write queue and the queue of custom events are first in, first out,
\* for every array size and however often the array was moved or grown:
\* push_back appends to the elements, pop_front removes the oldest one.
THEOREM QueueIsFifo ==
    ASSUME NEW Elem, NEW q, QueueOK(q, Elem)
    PROVE  /\ \A e \in Elem :
                 /\ QueueOK(queue_push_back(q, e), Elem)
                 /\ queue_elems(queue_push_back(q, e)) = Append(queue_elems(q), e)
           /\ ~queue_empty(q) =>
                 /\ QueueOK(queue_pop_front(q), Elem)
                 /\ queue_elems(q) # << >> /\ Head(queue_elems(q)) = queue_front(q)
                 /\ queue_elems(queue_pop_front(q)) = Tail(queue_elems(q))
BY PushBackElems, PopFrontElems

-----------------------------------------------------------------------------
(* The invariant.                                                          *)

\* The steps of hio_write that hold write_mutex.
Locked == {"try", "add", "push"}

\* The steps of the loop thread after hio_close has set closed.
Closing == {"done", "free", "close_cb", "closesocket"}

\* Who holds write_mutex is where, and the front buffer nio_write is working
\* on stays in the queue, through a close that write_cb asks for as well.
Control ==
    /\ \A w \in Workers : pc[w] \in {"idle", "wlock", "cb", "aclose"} \cup Locked
    /\ \A t \in Threads : pc[t] \in Locked => mutex = t
    /\ \A w \in Workers : mutex = w => pc[w] \in Locked
    /\ pc[Loop] \in {"nwrite", "nwrite_cb", "npop"} => mutex = Loop
    /\ mutex = Loop /\ ret = "idle" => pc[Loop] \in {"nwrite", "nwrite_cb", "npop"} \cup Locked
    /\ ret = "npop" => pc[Loop] = "close" /\ mutex = Loop /\ ~io.closed /\ CloseLater(io, wq)
    /\ pc[Loop] \in {"nwrite_cb", "npop"} => ~queue_empty(wq)

\* A closed hio_t is clean when the next connection gets it.  A call that the
\* close has overtaken may still be on its way to it, but only while hio_done
\* has not freed the queue does it push.
Life ==
    /\ io.closed => /\ pc[Loop] \in {"idle", "cb", "close"} \cup Closing
                    /\ \A w \in Workers : /\ pc[w] # "add"
                                          /\ pc[w] = "push" => pc[Loop] \in {"done", "free"}
    /\ ~io.closed => io.ready /\ fd = "open" /\ pc[Loop] \notin Closing
    /\ io.closed /\ pc[Loop] \notin Closing => fd = "closed" /\ ~io.ready /\ queue_empty(wq)
    /\ pc[Loop] \in {"free", "close_cb", "closesocket"} => ~io.ready
    /\ pc[Loop] \in {"close_cb", "closesocket"} => queue_empty(wq)

\* BufExact, also while the mutex is held.
Counted ==
    ~io.closed => /\ io.write_bufsize = Len(Queued(wq))
                  /\ io.write_bufsize <= MaxWriteBufsize

\* The calls some bytes are of.
CallsIn(s) == {s[i][2] : i \in DOMAIN s}

\* A thread in hio_write has bytes of its own call left; before it tries
\* send() it has all of them.
Mine ==
    /\ \A t \in Threads : pc[t] \in {"wlock", "try"} =>
          \E c \in 1..calls : \E len \in Lens : buf[t] = Bytes(CallConn(t), c, len)
    /\ \A t \in Threads : pc[t] \in Locked \cup {"wlock"} =>
          buf[t] # << >> /\ \E c \in 1..calls : CallsIn(buf[t]) = {c}
    /\ \A t, u \in Threads :
          t # u /\ {pc[t], pc[u]} \subseteq Locked \cup {"wlock"} =>
             CallsIn(buf[t]) \cap CallsIn(buf[u]) = {}

\* No byte of a call is in the stream before the call has its place in it.
Fresh ==
    /\ CallsIn(out) \subseteq 1..calls /\ CallsIn(Queued(wq)) \subseteq 1..calls
    /\ \A t \in Threads : pc[t] \in {"wlock", "try"} =>
          /\ CallsIn(buf[t]) \cap CallsIn(out) = {}
          /\ CallsIn(buf[t]) \cap CallsIn(Queued(wq)) = {}

\* A call sends at once only when nothing is queued.
Direct == \A t \in Threads : pc[t] = "try" => queue_empty(wq)

IInv == TypeOK /\ Control
SInv == IInv /\ Life /\ Direct /\ Counted /\ Mine /\ Fresh

\* The inductive invariant: the types in every state, the mutex until write_cb
\* has freed the queue of nio_write, the stream until a race has done harm.
\* Its parts are kept one by one, so Inv of a state gives each of them back
\* as long as raced allows it; raced only grows.
Inv ==
    /\ TypeOK
    /\ "close_in_cb" \notin raced => Control
    /\ ~Harmed => SInv

KeepsControl == Control /\ "close_in_cb" \notin raced' => Control'

-----------------------------------------------------------------------------
(* The operators.                                                          *)

\* hio_write and hio_close look at these fields of an hio_t.
Same(i, j) ==
    /\ j \in Hios /\ j.closed = i.closed /\ j.ready = i.ready
    /\ j.write_bufsize = i.write_bufsize

\* What the steps write into an hio_t leaves the other fields alone.
LEMMA HioUpdates ==
    ASSUME NEW i \in Hios
    PROVE  /\ Same(i, [i EXCEPT !.error = TRUE])
           /\ Same(i, [i EXCEPT !.close = FALSE])
           /\ Same(i, ClosePutOff(i))
           /\ \A e \in SUBSET Events : Same(i, [i EXCEPT !.events = e])
           /\ \A n \in Int :
                 /\ [i EXCEPT !.write_bufsize = n] \in Hios
                 /\ [i EXCEPT !.write_bufsize = n].closed = i.closed
                 /\ [i EXCEPT !.write_bufsize = n].ready = i.ready
                 /\ [i EXCEPT !.write_bufsize = n].write_bufsize = n
BY DEF Same, Hios, ClosePutOff

\* The two steps that end an hio_t's life.
LEMMA HioEnds ==
    ASSUME NEW i \in Hios
    PROVE  /\ [i EXCEPT !.closed = TRUE] \in Hios /\ [i EXCEPT !.closed = TRUE].closed
           /\ [i EXCEPT !.closed = TRUE].ready = i.ready
           /\ [i EXCEPT !.close_timer = FALSE, !.closed = TRUE] \in Hios
           /\ [i EXCEPT !.close_timer = FALSE, !.closed = TRUE].closed
           /\ [i EXCEPT !.close_timer = FALSE, !.closed = TRUE].ready = i.ready
           /\ [hio_del(i, Events) EXCEPT !.ready = FALSE] \in Hios
           /\ [hio_del(i, Events) EXCEPT !.ready = FALSE].closed = i.closed
           /\ ~[hio_del(i, Events) EXCEPT !.ready = FALSE].ready
BY DEF Hios, hio_del

\* A record with the fields of an hio_t is one.
LEMMA MakeHio ==
    ASSUME NEW id \in Nat, NEW r \in BOOLEAN, NEW c \in BOOLEAN, NEW l \in BOOLEAN,
           NEW e \in BOOLEAN, NEW v \in SUBSET Events, NEW n \in Int, NEW m \in BOOLEAN
    PROVE  [id |-> id, ready |-> r, closed |-> c, close |-> l, error |-> e,
            events |-> v, write_bufsize |-> n, close_timer |-> m] \in Hios
BY DEF Hios

\* hio_ready changes an hio_t that is ready not at all, and makes another
\* one fresh.
LEMMA HioReady ==
    ASSUME NEW i \in Hios
    PROVE  /\ hio_ready(i) \in Hios
           /\ i.ready => hio_ready(i) = i
           /\ ~i.ready => /\ ~hio_ready(i).closed /\ hio_ready(i).ready
                          /\ hio_ready(i).write_bufsize = 0
BY DEF Hios, hio_ready, Events

\* hio_add readies and adds, hio_del only removes.
LEMMA HioAddDel ==
    ASSUME NEW i \in Hios, NEW e \in SUBSET Events
    PROVE  Same(hio_ready(i), hio_add(i, e)) /\ Same(i, hio_del(i, e))
<1>1. hio_ready(i) \in Hios  BY HioReady
<1>2. ASSUME NEW j \in Hios  PROVE Same(j, [j EXCEPT !.events = j.events \cup e])
  <2>1. j.events \cup e \in SUBSET Events  BY DEF Hios
  <2> QED  BY <2>1, HioUpdates
<1>3. Same(i, hio_del(i, e))
  <2>1. i.events \ e \in SUBSET Events  BY DEF Hios
  <2> QED  BY <2>1, HioUpdates DEF hio_del
<1>4. hio_add(i, e) = [hio_ready(i) EXCEPT !.events = hio_ready(i).events \cup e]
  BY DEF hio_add
<1> QED  BY <1>1, <1>2, <1>3, <1>4

\* The bytes of a call.
LEMMA BytesType ==
    ASSUME NEW k \in Nat, NEW c \in Nat, NEW len \in Nat
    PROVE  /\ Bytes(k, c, len) \in Seq(Byte) /\ Len(Bytes(k, c, len)) = len
           /\ \A i \in 1..len : Bytes(k, c, len)[i] = <<k, c, i>>
<1>1. \A i \in 1..len : <<k, c, i>> \in Byte  BY DEF Byte
<1> QED  BY <1>1, IsASeq DEF Bytes

\* send() takes at most what it is given.
LEMMA Sends ==
    ASSUME TypeOK, NEW len \in Nat, NEW n \in SendResults(len)
    PROVE  n \in Int /\ (n = -1 \/ (n \in 0..len /\ fd = "open"))
<1>1. SndSpace \in Int
  <2>1. Len(out) \in Nat /\ got \in Nat  BY DEF TypeOK
  <2> QED  BY <2>1, HioThreadsAssumption DEF SndSpace
<1> HIDE DEF SndSpace
<1>2. CASE fd = "closed" \/ rst  BY <1>2 DEF SendResults
<1>3. CASE ~(fd = "closed" \/ rst)
  <2>1. fd = "open"  BY <1>3 DEF TypeOK
  <2>2. CASE SndSpace = 0  BY <1>3, <2>1, <2>2 DEF SendResults
  <2>3. CASE SndSpace # 0
    <3>1. n \in 1..Least(len, SndSpace)  BY <1>3, <2>3 DEF SendResults
    <3> QED  BY <1>1, <2>1, <3>1 DEF Least
  <2> QED  BY <2>2, <2>3
<1> QED  BY <1>2, <1>3

-----------------------------------------------------------------------------
(* The write queue.                                                        *)

\* What is left of a buffer.
LEMMA RemainType ==
    ASSUME NEW b \in Bufs
    PROVE  /\ Remain(b) \in Seq(Byte) /\ Len(Remain(b)) = Len(b.base) - b.offset
           /\ \A i \in 1..(Len(b.base) - b.offset) : Remain(b)[i] = b.base[b.offset + i]
<1>1. b.base \in Seq(Byte) /\ b.offset \in Nat /\ b.offset <= Len(b.base)  BY DEF Bufs
<1>2. Len(b.base) \in Nat  BY <1>1
<1> QED  BY SMTT(30), <1>1, <1>2, SubSeqProperties DEF Remain

\* The parts of a queue that Queued flattens.
Parts(q) == [i \in 1..q.size |-> Remain(queue_elems(q)[i])]

LEMMA PartsType ==
    ASSUME NEW q, QueueOK(q, Bufs)
    PROVE  /\ Parts(q) \in Seq(Seq(Byte)) /\ Len(Parts(q)) = q.size
           /\ \A i \in 1..q.size : Parts(q)[i] = Remain(queue_elems(q)[i])
           /\ Queued(q) = FlattenSeq(Parts(q))
<1>1. q.size \in Nat  BY DEF QueueOK
<1>2. queue_elems(q) \in Seq(Bufs) /\ Len(queue_elems(q)) = q.size  BY ElemsType
<1>3. \A i \in 1..q.size : Remain(queue_elems(q)[i]) \in Seq(Byte)  BY <1>2, RemainType
<1>4. Queued(q) = FlattenSeq(Parts(q))  BY DEF Queued, Parts
<1> QED  BY <1>1, <1>3, <1>4, IsASeq DEF Parts

\* The queued bytes are bytes; an empty queue has none.
LEMMA QueuedType ==
    ASSUME NEW q, QueueOK(q, Bufs)
    PROVE  Queued(q) \in Seq(Byte) /\ (queue_empty(q) => Queued(q) = << >>)
<1>1. Parts(q) \in Seq(Seq(Byte)) /\ Len(Parts(q)) = q.size /\ Queued(q) = FlattenSeq(Parts(q))
  BY PartsType
<1>2. FlattenSeq(Parts(q)) \in Seq(Byte)  BY <1>1, FlattenType
<1>3. ASSUME queue_empty(q)  PROVE Parts(q) = << >>  BY <1>1, <1>3 DEF queue_empty
<1> QED  BY <1>1, <1>2, <1>3, FlattenEmpty

\* push_back puts the bytes of its buffer behind the others.
LEMMA QueuedPush ==
    ASSUME NEW q, QueueOK(q, Bufs), NEW s \in Seq(Byte)
    PROVE  /\ QueueOK(write_queue_push(q, s), Bufs)
           /\ ~queue_empty(write_queue_push(q, s))
           /\ Queued(write_queue_push(q, s)) = Queued(q) \o s
<1> DEFINE e == [base |-> s, offset |-> 0]
           p == IF q.maxsize = 0 THEN queue_init(QueueInit) ELSE q
           r == queue_push_back(p, e)
<1>1. e \in Bufs
  <2>1. Len(s) \in Nat  OBVIOUS
  <2> QED  BY <2>1 DEF Bufs
<1>2. Remain(e) = s
  <2>1. SubSeq(s, 0 + 1, Len(s)) = s  OBVIOUS
  <2> QED  BY <2>1 DEF Remain
<1>3. QueueOK(p, Bufs) /\ Queued(p) = Queued(q)
  <2>1. CASE q.maxsize = 0
    <3>0. QueueInit \in Nat  BY HioThreadsAssumption
    <3>1. /\ QueueOK(queue_init(QueueInit), Bufs)
          /\ queue_empty(queue_init(QueueInit))
      <4>1. QueueOK(queue_init(QueueInit), Bufs)  BY <3>0, InitElems
      <4> QED  BY <4>1 DEF queue_init, queue_empty
    <3>2. queue_empty(q)  BY <2>1 DEF QueueOK, queue_empty
    <3> QED  BY <2>1, <3>1, <3>2, QueuedType
  <2>2. CASE q.maxsize # 0  BY <2>2
  <2> QED  BY <2>1, <2>2
<1>4. write_queue_push(q, s) = r  BY DEF write_queue_push
<1> HIDE DEF p, e
<1>5. /\ QueueOK(r, Bufs) /\ r.size = p.size + 1
      /\ queue_elems(r) = Append(queue_elems(p), e)
  BY <1>1, <1>3, PushBackElems
<1> HIDE DEF r
<1>6. Parts(r) = Append(Parts(p), s)
  <2>0. p.size \in Nat  BY <1>3 DEF QueueOK
  <2>1. /\ queue_elems(p) \in Seq(Bufs) /\ Len(queue_elems(p)) = p.size /\ p.size \in Nat
    BY <1>3, <2>0, ElemsType
  <2>2. /\ Parts(p) \in Seq(Seq(Byte)) /\ Len(Parts(p)) = p.size
        /\ \A i \in 1..p.size : Parts(p)[i] = Remain(queue_elems(p)[i])
    BY <1>3, PartsType
  <2>3. /\ Parts(r) \in Seq(Seq(Byte)) /\ Len(Parts(r)) = p.size + 1
        /\ \A i \in 1..(p.size + 1) : Parts(r)[i] = Remain(queue_elems(r)[i])
    BY <1>5, PartsType
  <2>4. /\ Append(Parts(p), s) \in Seq(Seq(Byte)) /\ Len(Append(Parts(p), s)) = p.size + 1
        /\ Append(Parts(p), s)[p.size + 1] = s
        /\ \A i \in 1..p.size : Append(Parts(p), s)[i] = Parts(p)[i]
    BY <2>1, <2>2, AppendProperties
  <2>5. /\ \A i \in 1..p.size : queue_elems(r)[i] = queue_elems(p)[i]
        /\ queue_elems(r)[p.size + 1] = e
    BY <1>1, <1>5, <2>1, AppendProperties
  <2>6. ASSUME NEW i \in 1..(p.size + 1)  PROVE Parts(r)[i] = Append(Parts(p), s)[i]
    <3>1. CASE i = p.size + 1  BY <1>2, <2>3, <2>4, <2>5, <3>1
    <3>2. CASE i # p.size + 1
      <4>1. i \in 1..p.size  BY <2>0, <3>2
      <4> QED  BY <2>2, <2>3, <2>4, <2>5, <4>1
    <3> QED  BY <3>1, <3>2
  <2> QED  BY <2>3, <2>4, <2>6, SeqEqual
<1>7. Queued(r) = Queued(p) \o s
  <2>1. Parts(p) \in Seq(Seq(Byte)) /\ Queued(p) = FlattenSeq(Parts(p))  BY <1>3, PartsType
  <2>2. Queued(r) = FlattenSeq(Parts(r))  BY <1>5, PartsType
  <2> QED  BY <1>6, <2>1, <2>2, FlattenAppend
<1>8. ~queue_empty(r)
  <2>1. p.size \in Nat  BY <1>3 DEF QueueOK
  <2>2. p.size + 1 # 0  BY <2>1
  <2> QED  BY <1>5, <2>2 DEF queue_empty
<1> QED  BY <1>3, <1>4, <1>5, <1>7, <1>8


\* The bytes of the front buffer come first, and pop_front leaves the others.
LEMMA QueuedFront ==
    ASSUME NEW q, QueueOK(q, Bufs), ~queue_empty(q)
    PROVE  /\ queue_front(q) \in Bufs
           /\ QueueOK(queue_pop_front(q), Bufs)
           /\ Queued(q) = Remain(queue_front(q)) \o Queued(queue_pop_front(q))
<1> DEFINE r == queue_pop_front(q)
           s == queue_elems(q)
           t == queue_elems(r)
<1>1. /\ QueueOK(r, Bufs) /\ s # << >> /\ Head(s) = queue_front(q) /\ t = Tail(s)
  BY PopFrontElems
<1>2. s \in Seq(Bufs) /\ Len(s) = q.size  BY ElemsType
<1>3. t \in Seq(Bufs) /\ Len(t) = r.size  BY <1>1, ElemsType
<1>4. /\ Parts(q) \in Seq(Seq(Byte)) /\ Len(Parts(q)) = q.size
      /\ \A i \in 1..q.size : Parts(q)[i] = Remain(s[i])
      /\ Queued(q) = FlattenSeq(Parts(q))
  BY PartsType
<1>5. /\ Parts(r) \in Seq(Seq(Byte)) /\ Len(Parts(r)) = r.size
      /\ \A i \in 1..r.size : Parts(r)[i] = Remain(t[i])
      /\ Queued(r) = FlattenSeq(Parts(r))
  BY <1>1, PartsType
<1> HIDE DEF r, s, t
<1>6. /\ q.size \in Nat \ {0} /\ r.size = q.size - 1
      /\ s[1] = Head(s) /\ \A i \in 1..r.size : t[i] = s[i + 1]
  BY <1>1, <1>2, <1>3
<1>7. /\ Parts(q) # << >> /\ Head(Parts(q)) = Parts(q)[1]
      /\ Tail(Parts(q)) \in Seq(Seq(Byte)) /\ Len(Tail(Parts(q))) = r.size
      /\ \A i \in 1..r.size : Tail(Parts(q))[i] = Parts(q)[i + 1]
  BY <1>4, <1>6
<1>8. Head(Parts(q)) = Remain(queue_front(q))
  <2>1. 1 \in 1..q.size  BY <1>6
  <2> QED  BY <1>1, <1>4, <1>6, <1>7, <2>1
<1>9. Tail(Parts(q)) = Parts(r)
  <2>1. ASSUME NEW i \in 1..r.size  PROVE Tail(Parts(q))[i] = Parts(r)[i]
    <3>1. i + 1 \in 1..q.size  BY <1>6
    <3> QED  BY <1>4, <1>5, <1>6, <1>7, <3>1
  <2> QED  BY <1>5, <1>7, <2>1, SeqEqual
<1>10. FlattenSeq(Parts(q)) = Head(Parts(q)) \o FlattenSeq(Tail(Parts(q)))
  BY <1>4, <1>7, FlattenHead
<1>11. queue_front(q) \in Bufs
  <2>1. 1 \in 1..Len(s)  BY <1>2, <1>6
  <2>2. s[1] \in Bufs  BY <1>2, <2>1
  <2> QED  BY <1>1, <1>6, <2>2
<1> QED  BY <1>1, <1>4, <1>5, <1>8, <1>9, <1>10, <1>11 DEF r

\* All but the first n members of a sequence.
LEMMA DropType ==
    ASSUME NEW S, NEW a \in Seq(S), NEW n \in 0..Len(a)
    PROVE  /\ SubSeq(a, n + 1, Len(a)) \in Seq(S)
           /\ Len(SubSeq(a, n + 1, Len(a))) = Len(a) - n
           /\ \A i \in 1..(Len(a) - n) : SubSeq(a, n + 1, Len(a))[i] = a[n + i]
OBVIOUS

\* The first n of some bytes, and the others.
LEMMA CutConcat ==
    ASSUME NEW S, NEW a \in Seq(S), NEW x \in Seq(S), NEW n \in 0..Len(a)
    PROVE  /\ SubSeq(a \o x, 1, n) = SubSeq(a, 1, n)
           /\ SubSeq(a \o x, n + 1, Len(a \o x)) = SubSeq(a, n + 1, Len(a)) \o x
<1> DEFINE c == a \o x
           u == SubSeq(c, 1, n)
           v == SubSeq(a, 1, n)
           w == SubSeq(c, n + 1, Len(c))
           y == SubSeq(a, n + 1, Len(a))
           z == y \o x
<1>1. Len(a) \in Nat /\ Len(x) \in Nat /\ n \in Nat /\ n <= Len(a)  OBVIOUS
<1>2. /\ c \in Seq(S) /\ Len(c) = Len(a) + Len(x)
      /\ \A i \in 1..(Len(a) + Len(x)) : c[i] = IF i <= Len(a) THEN a[i] ELSE x[i - Len(a)]
  BY ConcatProperties
<1> HIDE DEF c
<1>3. u \in Seq(S) /\ Len(u) = n /\ \A i \in 1..n : u[i] = c[i]  BY <1>1, <1>2
<1>4. v \in Seq(S) /\ Len(v) = n /\ \A i \in 1..n : v[i] = a[i]  BY <1>1
<1>5. /\ w \in Seq(S) /\ Len(w) = Len(c) - n
      /\ \A i \in 1..(Len(c) - n) : w[i] = c[n + i]
  BY <1>1, <1>2
<1>6. /\ y \in Seq(S) /\ Len(y) = Len(a) - n
      /\ \A i \in 1..(Len(a) - n) : y[i] = a[n + i]
  BY <1>1
<1> HIDE DEF u, v, w, y
<1>7. /\ z \in Seq(S) /\ Len(z) = Len(a) - n + Len(x)
      /\ \A i \in 1..(Len(a) - n + Len(x)) :
            z[i] = IF i <= Len(a) - n THEN y[i] ELSE x[i - (Len(a) - n)]
  <2>1. /\ z \in Seq(S) /\ Len(z) = Len(y) + Len(x)
        /\ \A i \in 1..(Len(y) + Len(x)) : z[i] = IF i <= Len(y) THEN y[i] ELSE x[i - Len(y)]
    BY <1>6, ConcatProperties
  <2> HIDE DEF z
  <2> QED  BY <1>6, <2>1
<1> HIDE DEF z
<1>8. u = v
  <2>1. \A i \in 1..n : u[i] = v[i]  BY <1>1, <1>2, <1>3, <1>4
  <2> QED  BY <1>3, <1>4, <2>1, SeqEqual
<1>9. w = z
  <2>1. Len(w) = Len(z)  BY <1>1, <1>2, <1>5, <1>7
  <2>2. ASSUME NEW i \in 1..Len(w)  PROVE w[i] = z[i]
    <3>1. i \in 1..(Len(a) - n + Len(x)) /\ i \in 1..(Len(c) - n) /\ n + i \in 1..(Len(a) + Len(x))
      BY <1>1, <1>2, <1>5
    <3>2. CASE i <= Len(a) - n
      <4>1. n + i <= Len(a) /\ i \in 1..(Len(a) - n)  BY <1>1, <3>1, <3>2
      <4> QED  BY <1>2, <1>5, <1>6, <1>7, <3>1, <3>2, <4>1
    <3>3. CASE ~(i <= Len(a) - n)
      <4>1. ~(n + i <= Len(a)) /\ n + i - Len(a) = i - (Len(a) - n)  BY <1>1, <3>1, <3>3
      <4>2. w[i] = c[n + i]  BY <1>5, <3>1
      <4>3. c[n + i] = x[n + i - Len(a)]  BY <1>2, <3>1, <4>1
      <4>4. z[i] = x[i - (Len(a) - n)]  BY <1>7, <3>1, <3>3
      <4> QED  BY <4>1, <4>2, <4>3, <4>4
    <3> QED  BY <3>2, <3>3
  <2> QED  BY <1>5, <1>7, <2>1, <2>2, SeqEqual
<1> QED  BY <1>8, <1>9 DEF c, u, v, w, y, z

\* The bytes send() takes from the front buffer are the first ones of the
\* queue, and the others stay in order.
LEMMA QueuedSent ==
    ASSUME QueueOK(wq, Bufs), ~queue_empty(wq),
           NEW n \in 0..Len(Remain(queue_front(wq)))
    PROVE  /\ QueueOK(FrontSent(n), Bufs) /\ ~queue_empty(FrontSent(n))
           /\ n <= Len(Queued(wq))
           /\ SubSeq(Remain(queue_front(wq)), 1, n) = SubSeq(Queued(wq), 1, n)
           /\ Queued(FrontSent(n)) = SubSeq(Queued(wq), n + 1, Len(Queued(wq)))
<1> DEFINE b == queue_front(wq)
           d == SentBy(b, n)
           p == [wq.ptr EXCEPT ![wq.offset] = d]
           r == FrontSent(n)
           x == Queued(queue_pop_front(wq))
<1>1. /\ wq.maxsize \in Nat /\ wq.size \in Nat /\ wq.offset \in Nat /\ wq.size > 0
      /\ wq.offset + wq.size <= wq.maxsize
      /\ wq = [ptr |-> wq.ptr, size |-> wq.size, maxsize |-> wq.maxsize, offset |-> wq.offset]
      /\ wq.ptr \in [Slots(wq.maxsize) -> Bufs \cup {NoElem}]
      /\ \A i \in wq.offset .. wq.offset + wq.size - 1 : wq.ptr[i] \in Bufs
  BY DEF QueueOK, queue_empty
<1>2. /\ b \in Bufs /\ QueueOK(queue_pop_front(wq), Bufs)
      /\ Queued(wq) = Remain(b) \o x
  BY QueuedFront
<1>3. /\ Remain(b) \in Seq(Byte) /\ Len(Remain(b)) = Len(b.base) - b.offset
      /\ b.base \in Seq(Byte) /\ b.offset \in Nat /\ b.offset <= Len(b.base)
      /\ Len(b.base) \in Nat /\ n \in Nat /\ n <= Len(b.base) - b.offset
  <2>1. /\ Remain(b) \in Seq(Byte) /\ Len(Remain(b)) = Len(b.base) - b.offset  BY <1>2, RemainType
  <2>2. b.base \in Seq(Byte) /\ b.offset \in Nat /\ b.offset <= Len(b.base)  BY <1>2 DEF Bufs
  <2>3. Len(b.base) \in Nat  BY <2>2
  <2> HIDE DEF b
  <2> QED  BY <2>1, <2>2, <2>3 DEF b
<1>4. /\ d \in Bufs /\ d.base = b.base /\ d.offset = b.offset + n
  <2>1. b \in [base : Seq(Byte), offset : Nat]  BY <1>2 DEF Bufs
  <2>2. b.offset + n \in Nat /\ b.offset + n <= Len(b.base)  BY <1>3
  <2> HIDE DEF b
  <2>3. /\ d \in [base : Seq(Byte), offset : Nat] /\ d.base = b.base /\ d.offset = b.offset + n
    BY <2>1, <2>2 DEF SentBy
  <2> HIDE DEF d
  <2> QED  BY <2>2, <2>3 DEF Bufs
<1>5. r = [ptr |-> p, size |-> wq.size, maxsize |-> wq.maxsize, offset |-> wq.offset]
  <2> HIDE DEF d, b
  <2>1. r = [wq EXCEPT !.ptr = p]  BY DEF FrontSent, d, b
  <2> HIDE DEF p, r
  <2> QED  BY <1>1, <2>1
<1> HIDE DEF r, d, b
<1>6. wq.offset \in Slots(wq.maxsize)  BY <1>1 DEF Slots
<1>7. /\ p \in [Slots(wq.maxsize) -> Bufs \cup {NoElem}] /\ p[wq.offset] = d
      /\ \A i \in wq.offset .. wq.offset + wq.size - 1 : p[i] \in Bufs
      /\ \A i \in Slots(wq.maxsize) : i # wq.offset => p[i] = wq.ptr[i]
  BY <1>1, <1>4, <1>6 DEF Slots
<1> HIDE DEF p
<1>8. QueueOK(r, Bufs) /\ ~queue_empty(r) /\ queue_front(r) = d
  <2>1. QueueOK(r, Bufs)  BY <1>1, <1>5, <1>7, MakeOK
  <2>2. r.size = wq.size /\ r.offset = wq.offset /\ r.ptr = p  BY <1>5
  <2>3. wq.size # 0  BY <1>1
  <2> QED  BY <1>7, <2>1, <2>2, <2>3 DEF queue_empty, queue_front
<1>9. Queued(queue_pop_front(r)) = x
  <2> DEFINE o == IF wq.offset + 1 = wq.maxsize THEN 0 ELSE wq.offset + 1
  <2>1. /\ queue_pop_front(r).size = wq.size - 1 /\ queue_pop_front(r).offset = o
        /\ queue_pop_front(r).ptr = p
    BY <1>5 DEF queue_pop_front
  <2>2. /\ queue_pop_front(wq).size = wq.size - 1 /\ queue_pop_front(wq).offset = o
        /\ queue_pop_front(wq).ptr = wq.ptr
    BY <1>1 DEF queue_pop_front
  <2>3. ASSUME NEW i \in 1 .. wq.size - 1  PROVE p[o + i - 1] = wq.ptr[o + i - 1]
    <3>1. o = wq.offset + 1  BY <1>1
    <3> HIDE DEF o
    <3>2. o + i - 1 \in Slots(wq.maxsize) /\ o + i - 1 # wq.offset
      <4>1. o + i - 1 = wq.offset + i  BY <1>1, <3>1
      <4>2. wq.offset + i \in 0 .. wq.maxsize - 1 /\ wq.offset + i # wq.offset
        <5>1. /\ wq.maxsize \in Int /\ wq.size \in Int /\ wq.offset \in Nat
              /\ wq.offset + wq.size <= wq.maxsize
          BY <1>1
        <5>2. i \in Int /\ 1 <= i /\ i <= wq.size - 1  BY <5>1
        <5>3. 0 <= wq.offset + i /\ wq.offset + i <= wq.maxsize - 1  BY <5>1, <5>2
        <5> QED  BY <5>1, <5>2, <5>3
      <4> QED  BY <4>1, <4>2 DEF Slots
    <3> QED  BY <1>7, <3>2
  <2> HIDE DEF o
  <2>4. queue_elems(queue_pop_front(r)) = queue_elems(queue_pop_front(wq))
    BY <2>1, <2>2, <2>3 DEF queue_elems
  <2> QED  BY <2>1, <2>2, <2>4 DEF Queued
<1>10. Queued(r) = Remain(d) \o x  BY <1>8, <1>9, QueuedFront
<1>11. Remain(d) = SubSeq(Remain(b), n + 1, Len(Remain(b)))
  <2> DEFINE y == SubSeq(Remain(b), n + 1, Len(Remain(b)))
  <2>1. /\ y \in Seq(Byte) /\ Len(y) = Len(Remain(b)) - n
        /\ \A i \in 1..(Len(Remain(b)) - n) : y[i] = Remain(b)[n + i]
    <3>1. n \in 0..Len(Remain(b))  BY <1>3
    <3> QED  BY <1>3, <3>1, DropType
  <2>2. /\ Remain(d) \in Seq(Byte) /\ Len(Remain(d)) = Len(Remain(b)) - n
        /\ \A i \in 1..(Len(Remain(b)) - n) : Remain(d)[i] = b.base[b.offset + n + i]
    <3>1. Len(d.base) - d.offset = Len(Remain(b)) - n
      <4>1. Len(d.base) = Len(b.base)  BY <1>4
      <4>2. Len(b.base) - (b.offset + n) = (Len(b.base) - b.offset) - n  BY <1>3
      <4> QED  BY <1>3, <1>4, <4>1, <4>2
    <3>2. /\ Remain(d) \in Seq(Byte) /\ Len(Remain(d)) = Len(d.base) - d.offset
          /\ \A i \in 1..(Len(d.base) - d.offset) : Remain(d)[i] = d.base[d.offset + i]
      BY <1>4, RemainType
    <3> QED  BY <1>4, <3>1, <3>2
  <2> HIDE DEF y
  <2>3. ASSUME NEW i \in 1..(Len(Remain(b)) - n)  PROVE Remain(d)[i] = y[i]
    <3>1. n + i \in 1..(Len(b.base) - b.offset) /\ b.offset + (n + i) = b.offset + n + i  BY <1>3
    <3>2. Remain(b)[n + i] = b.base[b.offset + (n + i)]  BY <1>2, <3>1, RemainType
    <3> QED  BY <2>1, <2>2, <3>1, <3>2
  <2>4. Remain(d) = y  BY <2>1, <2>2, <2>3, SeqEqual
  <2> QED  BY <2>4 DEF y
<1>12. x \in Seq(Byte)  BY <1>2, QueuedType
<1> HIDE DEF x
<1>13. n \in 0..Len(Remain(b))  BY <1>3
<1>14. /\ SubSeq(Remain(b) \o x, 1, n) = SubSeq(Remain(b), 1, n)
       /\ SubSeq(Remain(b) \o x, n + 1, Len(Remain(b) \o x))
              = SubSeq(Remain(b), n + 1, Len(Remain(b))) \o x
  BY <1>3, <1>12, <1>13, CutConcat
<1>15. n <= Len(Remain(b) \o x)
  <2>1. Len(Remain(b) \o x) = Len(Remain(b)) + Len(x) /\ Len(x) \in Nat
    BY <1>3, <1>12, ConcatProperties, LenProperties
  <2> QED  BY <1>3, <2>1
<1> QED  BY <1>2, <1>8, <1>10, <1>11, <1>14, <1>15 DEF r, b


-----------------------------------------------------------------------------
(* The type invariant and the mutex.                                       *)

LEMMA InitIInv == Init => IInv
<1> SUFFICES ASSUME Init  PROVE TypeOK /\ Control
  BY DEF IInv
<1>1. io \in Hios
  <2>1. -1 + 1 = 0  OBVIOUS
  <2>2. hio_ready([ready |-> FALSE, id |-> -1])
           = [id |-> 0, ready |-> TRUE, closed |-> FALSE, close |-> FALSE, error |-> FALSE,
              events |-> {}, write_bufsize |-> 0, close_timer |-> FALSE]
    BY <2>1 DEF hio_ready
  <2> DEFINE h == hio_ready([ready |-> FALSE, id |-> -1])
  <2>3. h \in Hios
    <3>1. [id |-> 0, ready |-> TRUE, closed |-> FALSE, close |-> FALSE, error |-> FALSE,
           events |-> {}, write_bufsize |-> 0, close_timer |-> FALSE] \in Hios
      <4>1. 0 \in Nat /\ 0 \in Int /\ {} \in SUBSET Events  OBVIOUS
      <4>2. TRUE \in BOOLEAN /\ FALSE \in BOOLEAN  OBVIOUS
      <4> QED  BY <4>1, <4>2, MakeHio, Zenon
    <3> QED  BY <2>2, <3>1, Zenon
  <2>4. io = [h EXCEPT !.ready = FALSE, !.closed = TRUE]  BY DEF Init
  <2> HIDE DEF h
  <2> QED  BY <2>3, <2>4 DEF Hios
<1>2. QueueOK(wq, Bufs)  BY InitElems DEF Init, queue_cleanup
<1>3. TypeOK
  <2>1. pc \in [Threads -> {"idle", "wlock", "try", "add", "push", "cb", "aclose",
                            "close", "done", "free", "close_cb", "closesocket",
                            "store", "nlock", "nwrite", "nwrite_cb", "npop", "undefined"}]
    BY DEF Init
  <2>2. << >> \in Seq(Byte) /\ << >> \in Seq(Nat)  OBVIOUS
  <2>3. buf \in [Threads -> Seq(Byte)] /\ custom \in Seq(Nat) /\ out \in Seq(Byte)
    BY <2>2 DEF Init
  <2>4. /\ conn \in 0..MaxConns /\ calls \in 0..MaxCalls /\ closes \in 0..MaxCloses
        /\ got \in Nat /\ asked \subseteq 0..MaxConns /\ seen \subseteq Events
    BY HioThreadsAssumption DEF Init
  <2> QED  BY <1>1, <1>2, <2>1, <2>3, <2>4 DEF Init, TypeOK
<1>4. Control
  BY HioThreadsAssumption DEF Init, Control, Threads, Locked, Free
<1> QED  BY <1>3, <1>4

\* A step of a thread inside hio_write, or the start of a call.
LEMMA CallKeeps ==
    ASSUME TypeOK, NEW t \in Threads, hio_write(t) \/ WriteLock(t) \/ hio_close(t)
                                      \/ WriteCb(t) \/ hio_close_async(t)
    PROVE  TypeOK' /\ KeepsControl
<1> USE HioThreadsAssumption
<1>1. CASE hio_write(t)
  <2>1. PICK len \in Lens : buf' = [buf EXCEPT ![t] = Bytes(conn, calls + 1, len)]
    BY <1>1 DEF hio_write
  <2>2. Bytes(conn, calls + 1, len) \in Seq(Byte)  BY BytesType DEF TypeOK
  <2>3. TypeOK'  BY <1>1, <2>1, <2>2 DEF TypeOK, hio_write, Goto, sockVars
  <2>4. KeepsControl  BY <1>1 DEF KeepsControl, TypeOK, Control, hio_write, Goto, Threads, Locked
  <2> QED  BY <2>3, <2>4
<1>2. CASE WriteLock(t)
  <2>1. TypeOK'  BY <1>2 DEF TypeOK, WriteLock, WriteLocked, Goto, sockVars, boundVars
  <2>2. KeepsControl
    BY <1>2 DEF KeepsControl, TypeOK, Control, WriteLock, WriteLocked, Goto, Threads, Locked, Free
  <2> QED  BY <2>1, <2>2
<1>3. CASE hio_close(t)
  <2>1. TypeOK'
    <3>1. closes' \in 0..MaxCloses /\ asked' \subseteq 0..MaxConns
      BY <1>3 DEF TypeOK, hio_close, CallClose
    <3> QED  BY <1>3, <3>1 DEF TypeOK, hio_close, CallClose, Goto, sockVars
  <2>2. KeepsControl
    BY <1>3 DEF KeepsControl, TypeOK, Control, hio_close, CallClose, Goto, Threads, Locked
  <2> QED  BY <2>1, <2>2
<1>4. CASE WriteCb(t)
  <2>1. TypeOK'
    <3>1. CASE CallClose(t)
      <4>1. closes' \in 0..MaxCloses /\ asked' \subseteq 0..MaxConns
        BY <3>1 DEF TypeOK, CallClose
      <4> QED  BY <1>4, <3>1, <4>1 DEF TypeOK, WriteCb, CallClose, Goto, sockVars
    <3>2. CASE Goto(t, "idle") /\ UNCHANGED <<closes, asked>>
      BY <1>4, <3>2 DEF TypeOK, WriteCb, Goto, sockVars
    <3> QED  BY <1>4, <3>1, <3>2 DEF WriteCb
  <2>2. KeepsControl
    <3> SUFFICES ASSUME Control, "close_in_cb" \notin raced'  PROVE Control'  BY DEF KeepsControl
    <3>1. pc[t] = "cb" /\ UNCHANGED <<io, wq, mutex, ret>>  BY <1>4 DEF WriteCb
    <3>2. PICK l \in {"idle", "close", "aclose"} :
             pc' = [pc EXCEPT ![t] = l] /\ (t = Loop => l # "aclose") /\ (t # Loop => l # "close")
      BY <1>4 DEF WriteCb, CallClose, Goto
    <3>3. DOMAIN pc = Threads  BY DEF TypeOK
    <3> QED  BY <3>1, <3>2, <3>3 DEF Control, Threads, Locked
  <2> QED  BY <2>1, <2>2
<1>5. CASE hio_close_async(t)
  <2>1. custom' \in Seq(Nat)  BY <1>5 DEF TypeOK, hio_close_async, Hios
  <2>2. TypeOK'
    BY <1>5, <2>1 DEF TypeOK, hio_close_async, Goto, sockVars, boundVars
  <2>3. KeepsControl
    BY <1>5 DEF KeepsControl, TypeOK, Control, hio_close_async, Goto, Threads, Locked
  <2> QED  BY <2>2, <2>3
<1> QED  BY <1>1, <1>2, <1>3, <1>4, <1>5

\* WriteError releases the mutex.
LEMMA ErrorKeeps ==
    ASSUME TypeOK, NEW t \in Threads, pc[t] \in Locked, WriteError(t), UNCHANGED wq,
           UNCHANGED <<ret, seen, custom, out, raced, sockVars, boundVars>>
    PROVE  TypeOK' /\ KeepsControl
<1> USE HioThreadsAssumption
<1>1. Same(io, io')  BY HioUpdates DEF TypeOK, WriteError
<1>2. << >> \in Seq(Byte)  OBVIOUS
<1>3. TypeOK'
  BY <1>1, <1>2 DEF TypeOK, WriteError, Goto, Unlock, sockVars, boundVars, Same
<1>4. KeepsControl
  BY <1>1 DEF KeepsControl, TypeOK, Control, WriteError, Goto, Unlock, Threads, Locked, Free, Same
<1> QED  BY <1>3, <1>4

LEMMA TryKeeps ==
    ASSUME TypeOK, NEW t \in Threads, TryWrite(t)
    PROVE  TypeOK' /\ KeepsControl
<1> USE HioThreadsAssumption
<1>1. PICK n \in SendResults(Len(buf[t])) :
          \/ n = -1 /\ WriteError(t) /\ UNCHANGED <<out, raced>>
          \/ /\ n >= 0
             /\ raced' = RacedBy(io.closed \/ CallConn(t) # conn, "stray")
             /\ out' = out \o SubSeq(buf[t], 1, n)
             /\ buf' = [buf EXCEPT ![t] = SubSeq(@, n + 1, Len(@))]
             /\ IF n = Len(buf[t]) THEN Unlock /\ Goto(t, "cb")
                                   ELSE UNCHANGED mutex /\ Goto(t, "add")
             /\ UNCHANGED <<io, asked>>
  BY DEF TryWrite
<1>2. CASE n = -1
  BY <1>1, <1>2, ErrorKeeps DEF TryWrite, Locked, sockVars
<1>3. CASE n # -1
  <2>1. buf[t] \in Seq(Byte) /\ Len(buf[t]) \in Nat  BY DEF TypeOK
  <2>2. n \in 0..Len(buf[t])  BY <1>3, <2>1, Sends
  <2>3. SubSeq(buf[t], 1, n) \in Seq(Byte) /\ SubSeq(buf[t], n + 1, Len(buf[t])) \in Seq(Byte)
    BY <2>1, <2>2
  <2>4. out' \in Seq(Byte)
    <3>1. out \in Seq(Byte) /\ out' = out \o SubSeq(buf[t], 1, n)  BY <1>1, <1>3 DEF TypeOK
    <3> QED  BY <2>3, <3>1, ConcatProperties
  <2>5. buf' = [buf EXCEPT ![t] = SubSeq(buf[t], n + 1, Len(buf[t]))]  BY <1>1, <1>3
  <2>6. \/ Unlock /\ Goto(t, "cb")
        \/ UNCHANGED mutex /\ Goto(t, "add")
    BY <1>1, <1>3
  <2>7. TypeOK'
    BY <1>1, <1>3, <2>3, <2>4, <2>5, <2>6 DEF TypeOK, TryWrite, Goto, Unlock, RacedBy, boundVars
  <2>8. KeepsControl
    <3> SUFFICES ASSUME Control, "close_in_cb" \notin raced'  PROVE Control'  BY DEF KeepsControl
    <3>1. mutex = t /\ ret = "idle"  BY DEF TypeOK, Control, TryWrite, Locked, Threads
    <3>2. pc[t] = "try" /\ UNCHANGED <<io, wq, ret>>  BY <1>1, <1>3 DEF TryWrite
    <3>3. CASE Unlock /\ Goto(t, "cb")
      BY <3>1, <3>2, <3>3 DEF TypeOK, Control, Goto, Unlock, Threads, Locked, Free
    <3>4. CASE UNCHANGED mutex /\ Goto(t, "add")
      BY <3>1, <3>2, <3>4 DEF TypeOK, Control, Goto, Threads, Locked
    <3> QED  BY <2>6, <3>3, <3>4
  <2> QED  BY <2>7, <2>8
<1> QED  BY <1>2, <1>3

LEMMA AddPushKeeps ==
    ASSUME TypeOK, NEW t \in Threads, HioAddWrite(t) \/ Push(t)
    PROVE  TypeOK' /\ KeepsControl
<1> USE HioThreadsAssumption
<1>1. CASE HioAddWrite(t)
  <2>1. io' \in Hios
    <3>1. {"WRITE"} \in SUBSET Events  BY DEF Events
    <3> QED  BY <1>1, <3>1, HioAddDel DEF TypeOK, HioAddWrite, WriteAdd, Same
  <2>2. TypeOK'  BY <1>1, <2>1 DEF TypeOK, HioAddWrite, WriteAdd, Goto, sockVars, boundVars
  <2>3. Control => mutex = t /\ ret = "idle"
    BY <1>1 DEF TypeOK, Control, HioAddWrite, WriteAdd, Locked, Threads
  <2>4. KeepsControl
    BY <1>1, <2>3 DEF KeepsControl, TypeOK, Control, HioAddWrite, WriteAdd, Goto, Threads, Locked
  <2> QED  BY <2>2, <2>4
<1>2. CASE Push(t)
  <2>1. CASE OverLimit(io, Len(buf[t]))
    BY <1>2, <2>1, ErrorKeeps DEF Push, Locked, sockVars
  <2>2. CASE ~OverLimit(io, Len(buf[t]))
    <3>1. buf[t] \in Seq(Byte) /\ Len(buf[t]) \in Nat /\ << >> \in Seq(Byte)  BY DEF TypeOK
    <3>2. QueueOK(wq', Bufs) /\ ~queue_empty(wq')
      BY <1>2, <2>2, <3>1, QueuedPush DEF Push, TypeOK
    <3>3. io' \in Hios
      <4>1. io.write_bufsize + Len(buf[t]) \in Int  BY <3>1 DEF TypeOK, Hios
      <4>2. io' = [io EXCEPT !.write_bufsize = io.write_bufsize + Len(buf[t])]
        BY <1>2, <2>2 DEF Push
      <4>3. io \in Hios  BY DEF TypeOK
      <4> QED  BY <4>1, <4>2, <4>3, HioUpdates
    <3>4. Unlock /\ (Goto(t, "cb") \/ Goto(t, "idle"))  BY <1>2, <2>2 DEF Push, Goto
    <3>5. TypeOK'
      <4>1. buf' \in [Threads -> Seq(Byte)] /\ mutex' \in Threads \cup {Free} /\ UNCHANGED asked
        BY ZenonT(40), <1>2, <2>2, <3>1 DEF TypeOK, Push, Unlock
      <4>2. UNCHANGED <<ret, seen, custom, sockVars, boundVars>>  BY <1>2 DEF Push
      <4>3. raced' \subseteq {"stray", "interest", "close_in_cb"}
        BY <1>2, <2>2 DEF TypeOK, Push, RacedBy
      <4> QED  BY <3>2, <3>3, <3>4, <4>1, <4>2, <4>3 DEF TypeOK, Goto, sockVars, boundVars
    <3>6. Control => mutex = t /\ ret = "idle"  BY <1>2 DEF TypeOK, Control, Push, Locked, Threads
    <3>7. KeepsControl
      BY <1>2, <3>4, <3>6 DEF KeepsControl, TypeOK, Control, Push, Goto, Unlock, Threads, Locked, Free
    <3> QED  BY <3>5, <3>7
  <2> QED  BY <2>1, <2>2
<1> QED  BY <1>1, <1>2


\* The loop thread closes; a close that write_cb asked for is put off.
LEMMA CloseKeeps ==
    ASSUME TypeOK, Close \/ HioDone \/ HioDoneQueue \/ CloseCb \/ CloseSocket
    PROVE  TypeOK' /\ KeepsControl
<1> USE HioThreadsAssumption
<1>0. io \in Hios /\ Loop \in Threads  BY DEF TypeOK, Threads
<1>1. CASE Close
  <2>1. io' \in Hios
    <3>1. io' = io \/ io' = ClosePutOff(io) \/ io' = [io EXCEPT !.closed = TRUE]
      BY <1>1 DEF Close
    <3>2. ClosePutOff(io) \in Hios  BY <1>0, HioUpdates DEF Same
    <3>3. [io EXCEPT !.closed = TRUE] \in Hios  BY <1>0, HioEnds
    <3> QED  BY <1>0, <3>1, <3>2, <3>3
  <2>2. TypeOK'
    BY <1>0, <1>1, <2>1 DEF TypeOK, Close, Goto, sockVars, boundVars
  <2>3. KeepsControl
    <3> SUFFICES ASSUME Control, "close_in_cb" \notin raced'  PROVE Control'  BY DEF KeepsControl
    <3>1. CASE ret = "npop"
      <4>1. /\ pc[Loop] = "close" /\ mutex = Loop /\ ~io.closed /\ CloseLater(io, wq)
        BY <3>1 DEF Control
      <4>2. ~queue_empty(wq) /\ Goto(Loop, "npop") /\ ret' = "idle" /\ UNCHANGED <<wq, mutex>>
        BY <1>1, <3>1, <4>1 DEF Close, CloseLater
      <4> QED
        BY <1>0, <4>1, <4>2 DEF TypeOK, Control, Goto, Threads, Locked
    <3>2. CASE ret = "idle"
      <4>1. UNCHANGED <<wq, mutex>> /\ ret' = "idle" /\ (Goto(Loop, "idle") \/ Goto(Loop, "done"))
        BY <1>1, <3>2 DEF Close
      <4>2. mutex # Loop  BY <1>1, <3>2 DEF Control, Close, Locked
      <4> QED  BY <1>0, <1>1, <4>1, <4>2
                  DEF TypeOK, Control, Close, Goto, Threads, Locked
    <3> QED  BY <3>1, <3>2 DEF TypeOK
  <2> QED  BY <2>2, <2>3
<1>2. CASE HioDone
  <2>1. io' \in Hios  BY <1>0, <1>2, HioEnds DEF HioDone
  <2>2. TypeOK'  BY <1>0, <1>2, <2>1 DEF TypeOK, HioDone, Goto, sockVars, boundVars
  <2>3. KeepsControl  BY <1>0, <1>2 DEF KeepsControl, TypeOK, Control, HioDone, Goto, Threads, Locked
  <2> QED  BY <2>2, <2>3
<1>3. CASE HioDoneQueue
  <2>1. QueueOK(wq', Bufs)  BY <1>3, InitElems DEF HioDoneQueue, FreedQueue, queue_cleanup
  <2>2. TypeOK'  BY <1>0, <1>3, <2>1 DEF TypeOK, HioDoneQueue, Goto, sockVars, boundVars
  <2>3. KeepsControl  BY <1>0, <1>3 DEF KeepsControl, TypeOK, Control, HioDoneQueue, Goto, Threads, Locked
  <2> QED  BY <2>2, <2>3
<1>4. CASE CloseCb
  <2>1. io' \in Hios  BY <1>0, <1>4, HioEnds DEF CloseCb
  <2>2. TypeOK'  BY <1>0, <1>4, <2>1 DEF TypeOK, CloseCb, Goto, sockVars, boundVars
  <2>3. KeepsControl  BY <1>0, <1>4 DEF KeepsControl, TypeOK, Control, CloseCb, Goto, Threads, Locked
  <2> QED  BY <2>2, <2>3
<1>5. CASE CloseSocket
  <2>1. TypeOK'  BY <1>0, <1>5 DEF TypeOK, CloseSocket, Goto, boundVars
  <2>2. Control => ret = "idle"  BY <1>5 DEF TypeOK, Control, CloseSocket
  <2>3. KeepsControl  BY <1>0, <1>5, <2>2 DEF KeepsControl, TypeOK, Control, CloseSocket, Goto, Threads, Locked
  <2> QED  BY <2>1, <2>3
<1> QED  BY <1>1, <1>2, <1>3, <1>4, <1>5

\* The loop thread's events, and the peer.
LEMMA EventKeeps ==
    ASSUME TypeOK, CustomEvent \/ CloseTimeout \/ ReadInterest \/ StoreInterest \/ HandleEvents
                   \/ Accept \/ PeerRead \/ PeerReset
    PROVE  TypeOK' /\ KeepsControl
<1> USE HioThreadsAssumption
<1>0. io \in Hios /\ Loop \in Threads  BY DEF TypeOK, Threads
<1>1. CASE CustomEvent
  <2>1. custom' \in Seq(Nat)  BY <1>1 DEF TypeOK, CustomEvent
  <2>2. TypeOK'  BY <1>0, <1>1, <2>1 DEF TypeOK, CustomEvent, Goto, sockVars, boundVars
  <2>3. KeepsControl  BY <1>0, <1>1 DEF KeepsControl, TypeOK, Control, CustomEvent, Goto, Threads, Locked
  <2> QED  BY <2>2, <2>3
<1>2. CASE CloseTimeout
  <2>1. io' \in Hios  BY <1>0, <1>2, HioUpdates DEF CloseTimeout, Same
  <2>2. TypeOK'  BY <1>0, <1>2, <2>1 DEF TypeOK, CloseTimeout, Goto, sockVars, boundVars
  <2>3. KeepsControl  BY <1>0, <1>2 DEF KeepsControl, TypeOK, Control, CloseTimeout, Goto, Threads, Locked
  <2> QED  BY <2>2, <2>3
<1>3. CASE ReadInterest
  <2>1. seen' \subseteq Events  BY <1>0, <1>3 DEF ReadInterest, Hios
  <2>2. TypeOK'  BY <1>0, <1>3, <2>1 DEF TypeOK, ReadInterest, Goto, sockVars, boundVars
  <2>3. KeepsControl  BY <1>0, <1>3 DEF KeepsControl, TypeOK, Control, ReadInterest, Goto, Threads, Locked
  <2> QED  BY <2>2, <2>3
<1>4. CASE StoreInterest
  <2>1. io' \in Hios
    <3> DEFINE e == IF "READ" \in seen THEN seen \ {"READ"} ELSE seen \cup {"READ"}
    <3>1. e \in SUBSET Events  BY DEF TypeOK, Events
    <3>2. io' = [io EXCEPT !.events = e]  BY <1>4 DEF StoreInterest
    <3> HIDE DEF e
    <3> QED  BY <1>0, <3>1, <3>2, HioUpdates DEF Same
  <2>2. TypeOK'  BY <1>0, <1>4, <2>1 DEF TypeOK, StoreInterest, Goto, RacedBy, sockVars, boundVars
  <2>3. KeepsControl  BY <1>0, <1>4 DEF KeepsControl, TypeOK, Control, StoreInterest, Goto, Threads, Locked
  <2> QED  BY <2>2, <2>3
<1>5. CASE HandleEvents
  <2>1. io' \in Hios
    <3>1. {"WRITE"} \in SUBSET Events  BY DEF Events
    <3> QED  BY <1>0, <1>5, <3>1, HioAddDel DEF HandleEvents, HandleDel, Same
  <2>2. TypeOK'  BY <1>0, <1>5, <2>1 DEF TypeOK, HandleEvents, Goto, sockVars, boundVars
  <2>3. KeepsControl  BY <1>0, <1>5 DEF KeepsControl, TypeOK, Control, HandleEvents, Goto, Threads, Locked
  <2> QED  BY <2>2, <2>3
<1>6. CASE Accept
  <2>1. io' \in Hios
    <3>1. {"READ"} \in SUBSET Events /\ hio_ready(io) \in Hios  BY <1>0, HioReady DEF Events
    <3> QED  BY <1>0, <1>6, <3>1, HioAddDel, HioReady DEF Accept, Same
  <2>2. TypeOK'
    <3>1. << >> \in Seq(Byte)  OBVIOUS
    <3>2. conn' \in 0..MaxConns  BY <1>6 DEF TypeOK, Accept
    <3> QED  BY <1>6, <2>1, <3>1, <3>2 DEF TypeOK, Accept, boundVars
  <2>3. KeepsControl
    <3> SUFFICES ASSUME Control, "close_in_cb" \notin raced'  PROVE Control'  BY DEF KeepsControl
    <3>1. ret = "idle" /\ UNCHANGED <<wq, mutex, pc, ret>>  BY <1>6 DEF TypeOK, Control, Accept
    <3> QED  BY <3>1 DEF Control
  <2> QED  BY <2>2, <2>3
<1>7. CASE PeerRead
  <2>1. TypeOK'  BY <1>7 DEF TypeOK, PeerRead
  <2>2. UNCHANGED <<io, wq, mutex, pc, ret>>  BY <1>7 DEF PeerRead
  <2> QED  BY <2>1, <2>2 DEF KeepsControl, Control
<1>8. CASE PeerReset
  <2>1. TypeOK'  BY <1>8 DEF TypeOK, PeerReset
  <2>2. UNCHANGED <<io, wq, mutex, pc, ret>>  BY <1>8 DEF PeerReset
  <2> QED  BY <2>1, <2>2 DEF KeepsControl, Control
<1> QED  BY <1>1, <1>2, <1>3, <1>4, <1>5, <1>6, <1>7, <1>8

\* nio_write.
LEMMA NioKeeps ==
    ASSUME TypeOK,
           NioWriteLock \/ NioWriteEmpty \/ NioWriteSend \/ NioWriteCb \/ NioWriteCbWrite
             \/ NioWriteCbClose \/ NioWritePop \/ NioWriteFreed
    PROVE  TypeOK' /\ KeepsControl
<1> USE HioThreadsAssumption
<1>0. io \in Hios /\ Loop \in Threads  BY DEF TypeOK, Threads
<1>1. CASE NioWriteLock
  <2>1. TypeOK'  BY <1>0, <1>1 DEF TypeOK, NioWriteLock, Goto, sockVars, boundVars
  <2>2. KeepsControl
    BY <1>0, <1>1 DEF KeepsControl, TypeOK, Control, NioWriteLock, Goto, Threads, Locked, Free
  <2> QED  BY <2>1, <2>2
<1>2. CASE NioWriteEmpty
  <2>1. io' \in Hios  BY <1>0, <1>2, HioUpdates DEF NioWriteEmpty, Same
  <2>2. TypeOK'
    BY <1>0, <1>2, <2>1 DEF TypeOK, NioWriteEmpty, Goto, Unlock, sockVars, boundVars
  <2>3. KeepsControl
    BY <1>0, <1>2 DEF KeepsControl, TypeOK, Control, NioWriteEmpty, Goto, Unlock, Threads, Locked, Free
  <2> QED  BY <2>2, <2>3
<1>3. CASE NioWriteSend
  <2> DEFINE rest == Remain(queue_front(wq))
  <2>1. PICK n \in SendResults(Len(rest)) :
          \/ /\ n = -1
             /\ io' = [io EXCEPT !.error = TRUE]
             /\ asked' = asked \cup {conn}
             /\ Unlock /\ Goto(Loop, "close")
             /\ UNCHANGED <<wq, out>>
          \/ /\ n = 0
             /\ Unlock /\ Goto(Loop, "idle")
             /\ UNCHANGED <<io, wq, out, asked>>
          \/ /\ n > 0
             /\ out' = out \o SubSeq(rest, 1, n)
             /\ wq' = FrontSent(n)
             /\ io' = [io EXCEPT !.write_bufsize = @ - n]
             /\ Goto(Loop, "nwrite_cb")
             /\ UNCHANGED <<mutex, asked>>
    BY <1>3 DEF NioWriteSend
  <2>2. /\ rest \in Seq(Byte) /\ Len(rest) \in Nat
    <3>1. queue_front(wq) \in Bufs  BY <1>3, QueuedFront DEF NioWriteSend, TypeOK
    <3>2. rest \in Seq(Byte)  BY <3>1, RemainType
    <3> QED  BY <3>2
  <2>3. n \in Int /\ (n = -1 \/ n \in 0..Len(rest))  BY <2>2, Sends
  <2> HIDE DEF rest
  <2>4. Control => mutex = Loop /\ ret = "idle"  BY <1>3 DEF NioWriteSend, TypeOK, Control
  <2>5. pc[Loop] = "nwrite" /\ UNCHANGED <<buf, ret, seen, custom, conn, fd, got, rst, raced, boundVars>>
    BY <1>3 DEF NioWriteSend
  <2>6. CASE n = -1
    <3>1. io' \in Hios
      <4>1. [io EXCEPT !.error = TRUE] \in Hios  BY <1>0, HioUpdates DEF Same
      <4>2. ~(n = 0) /\ ~(n > 0)  BY <2>6
      <4>3. io' = [io EXCEPT !.error = TRUE]  BY <2>1, <4>2
      <4> QED  BY <4>1, <4>3
    <3>2. /\ Unlock /\ Goto(Loop, "close") /\ UNCHANGED <<wq, out>> /\ asked' = asked \cup {conn}
      BY <2>1, <2>6
    <3>3. TypeOK'  BY <1>0, <2>5, <3>1, <3>2 DEF TypeOK, Goto, Unlock, boundVars
    <3>4. KeepsControl
      BY <1>0, <2>4, <2>5, <3>2 DEF KeepsControl, TypeOK, Control, Goto, Unlock, Threads, Locked, Free
    <3> QED  BY <3>3, <3>4
  <2>7. CASE n = 0
    <3>1. Unlock /\ Goto(Loop, "idle") /\ UNCHANGED <<io, wq, out, asked>>  BY <2>1, <2>7
    <3>2. TypeOK'  BY <1>0, <2>5, <3>1 DEF TypeOK, Goto, Unlock, boundVars
    <3>3. KeepsControl
      BY <1>0, <2>4, <2>5, <3>1 DEF KeepsControl, TypeOK, Control, Goto, Unlock, Threads, Locked, Free
    <3> QED  BY <3>2, <3>3
  <2>8. CASE n > 0
    <3>1. /\ out' = out \o SubSeq(rest, 1, n) /\ wq' = FrontSent(n)
          /\ io' = [io EXCEPT !.write_bufsize = io.write_bufsize - n]
          /\ Goto(Loop, "nwrite_cb") /\ UNCHANGED <<mutex, asked>>
      <4>1. n # -1 /\ n # 0  BY <2>3, <2>8
      <4> QED  BY <2>1, <4>1
    <3>2. io' \in Hios
      <4>1. io.write_bufsize - n \in Int  BY <1>0, <2>3 DEF Hios
      <4> QED  BY <1>0, <3>1, <4>1, HioUpdates
    <3>3. n \in 0..Len(rest)  BY <2>3, <2>8
    <3>4. QueueOK(wq', Bufs) /\ ~queue_empty(wq')
      BY <1>3, <3>1, <3>3, QueuedSent DEF NioWriteSend, TypeOK, rest
    <3>5. out' \in Seq(Byte)
      <4>1. SubSeq(rest, 1, n) \in Seq(Byte) /\ out \in Seq(Byte)  BY <2>2, <3>3 DEF TypeOK
      <4> QED  BY <3>1, <4>1, ConcatProperties
    <3>6. TypeOK'
      BY <1>0, <2>5, <3>1, <3>2, <3>4, <3>5 DEF TypeOK, Goto, boundVars
    <3>7. KeepsControl
      BY <1>0, <2>4, <2>5, <3>1, <3>4 DEF KeepsControl, TypeOK, Control, Goto, Threads, Locked
    <3> QED  BY <3>6, <3>7
  <2> QED  BY <2>3, <2>6, <2>7, <2>8
<1>4. CASE NioWriteCb
  <2>1. TypeOK'  BY <1>0, <1>4 DEF TypeOK, NioWriteCb, Goto, sockVars, boundVars
  <2>2. KeepsControl  BY <1>0, <1>4 DEF KeepsControl, TypeOK, Control, NioWriteCb, Goto, Threads, Locked
  <2> QED  BY <2>1, <2>2
<1>5. CASE NioWriteCbWrite
  <2>1. PICK len \in Lens :
          \/ /\ OverLimit(io, len)
             /\ io' = [io EXCEPT !.error = TRUE]
             /\ asked' = asked \cup {conn}
             /\ custom' = Append(custom, io.id)
             /\ UNCHANGED wq
          \/ /\ ~OverLimit(io, len)
             /\ wq' = write_queue_push(wq, Bytes(conn, calls + 1, len))
             /\ io' = [io EXCEPT !.write_bufsize = @ + len]
             /\ UNCHANGED <<custom, asked>>
    BY <1>5 DEF NioWriteCbWrite
  <2>2. len \in Nat /\ Bytes(conn, calls + 1, len) \in Seq(Byte)
    <3>1. len \in Nat /\ conn \in Nat /\ calls + 1 \in Nat  BY DEF TypeOK
    <3> QED  BY <3>1, BytesType
  <2>3. /\ Control => mutex = Loop /\ ret = "idle" /\ ~queue_empty(wq)
        /\ pc[Loop] = "nwrite_cb" /\ calls' \in 0..MaxCalls
        /\ Goto(Loop, "npop") /\ UNCHANGED <<mutex, buf, ret, seen, closes, raced, sockVars>>
    BY SMTT(30), <1>5 DEF TypeOK, Control, NioWriteCbWrite
  <2>4. CASE OverLimit(io, len)
    <3>1. io' \in Hios  BY <1>0, <2>1, <2>4, HioUpdates DEF Same
    <3>2. custom' \in Seq(Nat)
      <4>1. custom \in Seq(Nat) /\ io.id \in Nat /\ custom' = Append(custom, io.id)
        BY <1>0, <2>1, <2>4 DEF TypeOK, Hios
      <4> QED  BY <4>1, AppendProperties
    <3>3. UNCHANGED wq /\ asked' = asked \cup {conn}  BY <2>1, <2>4
    <3>4. TypeOK'
      BY <1>0, <2>3, <3>1, <3>2, <3>3 DEF TypeOK, Goto, sockVars
    <3>5. KeepsControl
      BY <1>0, <2>3, <3>3 DEF KeepsControl, TypeOK, Control, Goto, Threads, Locked
    <3> QED  BY <3>4, <3>5
  <2>5. CASE ~OverLimit(io, len)
    <3>1. /\ wq' = write_queue_push(wq, Bytes(conn, calls + 1, len))
          /\ io' = [io EXCEPT !.write_bufsize = io.write_bufsize + len]
          /\ UNCHANGED <<custom, asked>>
      BY <2>1, <2>5
    <3>2. io' \in Hios
      <4>1. io.write_bufsize + len \in Int  BY <1>0, <2>2 DEF Hios
      <4> QED  BY <1>0, <3>1, <4>1, HioUpdates
    <3>3. QueueOK(wq', Bufs) /\ ~queue_empty(wq')
      BY <2>2, <3>1, QueuedPush DEF TypeOK
    <3>4. TypeOK'
      BY <1>0, <2>3, <3>1, <3>2, <3>3 DEF TypeOK, Goto, sockVars
    <3>5. KeepsControl
      BY <1>0, <2>3, <3>3 DEF KeepsControl, TypeOK, Control, Goto, Threads, Locked
    <3> QED  BY <3>4, <3>5
  <2> QED  BY <2>4, <2>5
<1>6. CASE NioWriteCbClose
  <2>1. closes' \in 0..MaxCloses /\ asked' \subseteq 0..MaxConns
    BY <1>6 DEF TypeOK, NioWriteCbClose, CallClose
  <2>2. TypeOK'
    BY <1>0, <1>6, <2>1 DEF TypeOK, NioWriteCbClose, CallClose, Goto, RacedBy, sockVars
  <2>3. KeepsControl
    BY <1>0, <1>6 DEF KeepsControl, TypeOK, Control, NioWriteCbClose, CallClose, CloseLater, Goto,
                      RacedBy, Threads, Locked
  <2> QED  BY <2>2, <2>3
<1>7. CASE NioWritePop
  <2>1. QueueOK(wq', Bufs)
    BY <1>7, QueuedFront DEF TypeOK, Control, NioWritePop
  <2>2. TypeOK'
    BY <1>0, <1>7, <2>1 DEF TypeOK, NioWritePop, Goto, Unlock, sockVars, boundVars
  <2>3. KeepsControl
    BY <1>0, <1>7 DEF KeepsControl, TypeOK, Control, NioWritePop, Goto, Unlock, Threads, Locked, Free
  <2> QED  BY <2>2, <2>3
<1>8. CASE NioWriteFreed
  <2>1. TypeOK'
    BY <1>0, <1>8 DEF TypeOK, NioWriteFreed, Goto, Unlock, sockVars, boundVars
  <2>2. KeepsControl  BY <1>8 DEF KeepsControl, Control, NioWriteFreed
  <2> QED  BY <2>1, <2>2
<1> QED  BY <1>1, <1>2, <1>3, <1>4, <1>5, <1>6, <1>7, <1>8

LEMMA NextControl ==
    ASSUME TypeOK, [Next]_vars
    PROVE  TypeOK' /\ KeepsControl
<1>1. CASE UNCHANGED vars
  <2>1. TypeOK'  BY <1>1 DEF TypeOK, vars
  <2>2. KeepsControl  BY <1>1 DEF KeepsControl, Control, vars
  <2> QED  BY <2>1, <2>2
<1>2. CASE \E t \in Threads : hio_write(t) \/ hio_close(t) \/ WriteStep(t)
  BY <1>2, CallKeeps, TryKeeps, AddPushKeeps DEF WriteStep
<1>3. CASE LoopStep
  BY <1>3, CloseKeeps, EventKeeps, NioKeeps DEF LoopStep
<1>4. CASE \/ CustomEvent \/ CloseTimeout \/ ReadInterest \/ HandleEvents \/ Accept
           \/ PeerRead \/ PeerReset
  BY <1>4, EventKeeps
<1> QED  BY <1>1, <1>2, <1>3, <1>4 DEF Next

\* A race that has done harm stays recorded.
LEMMA RacedGrows ==
    ASSUME [Next]_vars
    PROVE  raced \subseteq raced'
BY DEF Next, vars, WriteStep, LoopStep, RacedBy, hio_write, hio_close, WriteLock, TryWrite,
       HioAddWrite, Push, WriteCb, hio_close_async, Close, HioDone, HioDoneQueue, CloseCb,
       CloseSocket, StoreInterest, NioWriteLock, NioWriteEmpty, NioWriteSend, NioWriteCb,
       NioWriteCbWrite, NioWriteCbClose, NioWritePop, NioWriteFreed, CustomEvent, CloseTimeout,
       ReadInterest, HandleEvents, Accept, PeerRead, PeerReset

-----------------------------------------------------------------------------
(* The life of the hio_t.                                                  *)

LEMMA InitLife == Init => Life
<1> SUFFICES ASSUME Init  PROVE Life
  OBVIOUS
<1>1. io.closed /\ ~io.ready
  <2> DEFINE h == hio_ready([ready |-> FALSE, id |-> -1])
  <2>1. io = [h EXCEPT !.ready = FALSE, !.closed = TRUE]  BY DEF Init
  <2>2. {"ready", "closed"} \subseteq DOMAIN h  BY DEF hio_ready
  <2> HIDE DEF h
  <2> QED  BY <2>1, <2>2
<1>2. queue_empty(wq)  BY DEF Init, queue_cleanup, queue_init, queue_empty
<1>3. /\ Loop \in Threads /\ Workers \subseteq Threads
      /\ \A t \in Threads : pc[t] = "idle"
  BY DEF Init, Threads
<1>4. fd = "closed"  BY DEF Init
<1> QED  BY <1>1, <1>2, <1>3, <1>4 DEF Life, Closing

\* The steps of hio_write and hio_close, which the loop's close may overtake.
LEMMA OpenLife ==
    ASSUME IInv, Life, ~Harmed', NEW t \in Threads,
           hio_write(t) \/ WriteStep(t) \/ hio_close(t)
    PROVE  Life'
<1> USE HioThreadsAssumption
<1>0. io \in Hios /\ Loop \in Threads  BY DEF IInv, TypeOK, Threads
<1>1. CASE hio_write(t)
  BY <1>0, <1>1 DEF IInv, TypeOK, Life, hio_write, Goto, Closing, Threads, sockVars
<1>2. CASE WriteLock(t)
  <2>1. UNCHANGED <<io, wq, fd>>  BY <1>2 DEF WriteLock, sockVars
  <2>2. pc[t] = "wlock" /\ DOMAIN pc = Threads  BY <1>2 DEF WriteLock, IInv, TypeOK
  <2>3. io.closed => t # Loop /\ pc[Loop] \in {"idle", "cb", "close"} \cup Closing
    BY <2>2 DEF Life, Closing
  <2>4. CASE queue_empty(wq)
    <3>1. pc' = [pc EXCEPT ![t] = "try"]  BY <1>2, <2>4 DEF WriteLock, WriteLocked, Goto
    <3> QED  BY <1>0, <2>1, <2>2, <2>3, <3>1 DEF Life, Closing, Threads
  <2>5. CASE ~queue_empty(wq)
    <3>1. pc' = [pc EXCEPT ![t] = "push"]  BY <1>2, <2>5 DEF WriteLock, WriteLocked, Goto
    <3>2. io.closed => pc[Loop] \in {"done", "free"}  BY <2>3, <2>5 DEF Life, Closing
    <3> QED  BY <1>0, <2>1, <2>2, <2>3, <3>1, <3>2 DEF Life, Closing, Threads
  <2> QED  BY <2>4, <2>5
<1>3. CASE TryWrite(t)
  <2>1. io'.closed = io.closed /\ io'.ready = io.ready
    BY <1>0, <1>3, HioUpdates DEF TryWrite, WriteError, Same
  <2>2. Goto(t, "aclose") \/ Goto(t, "cb") \/ (Goto(t, "add") /\ ~io.closed)
    BY <1>3 DEF TryWrite, WriteError, RacedBy, Harmed
  <2> QED  BY <1>0, <1>3, <2>1, <2>2 DEF IInv, TypeOK, Life, TryWrite, Goto, Closing, Threads
<1>4. CASE HioAddWrite(t)
  <2>1. ~io.closed /\ io.ready
    BY <1>4 DEF Life, HioAddWrite, WriteAdd, Closing, Threads
  <2>2. io'.closed = io.closed /\ io'.ready = io.ready
    <3>1. {"WRITE"} \in SUBSET Events  BY DEF Events
    <3>2. hio_ready(io) = io /\ io' = hio_add(io, {"WRITE"})
      BY <1>0, <1>4, <2>1, HioReady DEF HioAddWrite, WriteAdd
    <3>3. Same(io, io')  BY <1>0, <3>1, <3>2, HioAddDel
    <3> QED  BY <3>3 DEF Same
  <2> QED
    BY <1>0, <1>4, <2>1, <2>2
       DEF IInv, TypeOK, Life, HioAddWrite, WriteAdd, Goto, Closing, Threads, sockVars
<1>5. CASE Push(t)
  <2>1. io.closed => t # Loop /\ pc[Loop] \in {"done", "free"}
    BY <1>5 DEF Life, Push, Closing, Threads
  <2>2. io'.closed = io.closed /\ io'.ready = io.ready
    <3>1. CASE OverLimit(io, Len(buf[t]))
      BY <1>0, <1>5, <3>1, HioUpdates DEF Push, WriteError, Same
    <3>2. CASE ~OverLimit(io, Len(buf[t]))
      <4>1. Len(buf[t]) \in Nat /\ io.write_bufsize + Len(buf[t]) \in Int
        BY <1>0 DEF IInv, TypeOK, Hios
      <4>2. io' = [io EXCEPT !.write_bufsize = io.write_bufsize + Len(buf[t])]
        BY <1>5, <3>2 DEF Push
      <4> QED  BY <1>0, <4>1, <4>2, HioUpdates
    <3> QED  BY <3>1, <3>2
  <2>3. Goto(t, "aclose") \/ Goto(t, "cb") \/ Goto(t, "idle")
    BY <1>5 DEF Push, WriteError, Goto
  <2> QED  BY <1>0, <1>5, <2>1, <2>2, <2>3 DEF IInv, TypeOK, Life, Push, Goto, Closing, Threads, sockVars
<1>6. CASE WriteCb(t)
  BY <1>0, <1>6 DEF IInv, TypeOK, Life, WriteCb, CallClose, Goto, Closing, Threads, sockVars
<1>7. CASE hio_close(t)
  BY <1>0, <1>7 DEF IInv, TypeOK, Life, hio_close, CallClose, Goto, Closing, Threads, sockVars
<1>8. CASE hio_close_async(t)
  BY <1>0, <1>8 DEF IInv, TypeOK, Life, hio_close_async, Goto, Closing, Threads, sockVars
<1> QED  BY <1>1, <1>2, <1>3, <1>4, <1>5, <1>6, <1>7, <1>8 DEF WriteStep

\* Nobody holds the mutex when the loop thread closes, and the queue is gone
\* when the descriptor is.
LEMMA CloseLife ==
    ASSUME IInv, Life,
           Close \/ HioDone \/ HioDoneQueue \/ CloseCb \/ CloseSocket
    PROVE  Life'
<1> USE HioThreadsAssumption
<1>0. io \in Hios /\ Loop \in Threads  BY DEF IInv, TypeOK, Threads
<1>1. CASE Close
  <2>1. pc[Loop] = "close" /\ UNCHANGED <<wq, mutex, fd>>  BY <1>1 DEF Close, sockVars
  <2>2. CASE io.closed
    <3>1. UNCHANGED io /\ Goto(Loop, ret) /\ ret = "idle"
      BY <1>1, <2>2 DEF Close, IInv, TypeOK, Control
    <3> QED  BY <1>0, <2>1, <3>1 DEF IInv, TypeOK, Life, Goto, Closing, Threads
  <2>3. CASE ~io.closed /\ CloseLater(io, wq)
    <3>1. io' = ClosePutOff(io) /\ Goto(Loop, ret)  BY <1>1, <2>3 DEF Close
    <3>2. io'.closed = io.closed /\ io'.ready = io.ready  BY <1>0, <3>1, HioUpdates DEF Same
    <3> QED  BY <1>0, <2>1, <2>3, <3>1, <3>2 DEF IInv, TypeOK, Life, Goto, Closing, Threads
  <2>4. CASE ~io.closed /\ ~CloseLater(io, wq)
    <3>1. io' = [io EXCEPT !.closed = TRUE] /\ Goto(Loop, "done")
      BY <1>1, <2>4 DEF Close
    <3>2. io'.closed /\ io'.ready = io.ready  BY <1>0, <3>1, HioEnds
    <3>3. \A w \in Workers : w # Loop /\ pc[w] \notin Locked
      <4>1. TAKE w \in Workers
      <4>2. mutex # w /\ w # Loop  BY <1>1 DEF Close, Threads, Free
      <4> QED  BY <4>2 DEF IInv, Control, Threads
    <3> QED  BY <1>0, <2>1, <2>4, <3>1, <3>2, <3>3 DEF IInv, TypeOK, Life, Goto, Closing, Locked, Threads
  <2> QED  BY <2>2, <2>3, <2>4
<1>2. CASE HioDone
  <2>1. io'.closed = io.closed /\ ~io'.ready  BY <1>0, <1>2, HioEnds DEF HioDone
  <2> QED  BY <1>0, <1>2, <2>1 DEF IInv, TypeOK, Life, HioDone, Goto, Closing, Threads, sockVars
<1>3. CASE HioDoneQueue
  <2>1. queue_empty(wq')
    BY <1>3 DEF HioDoneQueue, FreedQueue, queue_cleanup, queue_init, queue_empty
  <2>2. \A w \in Workers : w # Loop /\ pc[w] \notin Locked
    <3>1. TAKE w \in Workers
    <3>2. mutex # w /\ w # Loop  BY <1>3 DEF HioDoneQueue, Threads, Free
    <3> QED  BY <3>2 DEF IInv, Control, Threads
  <2> QED
    BY <1>0, <1>3, <2>1, <2>2
       DEF IInv, TypeOK, Life, HioDoneQueue, Goto, Closing, Locked, Threads, sockVars
<1>4. CASE CloseCb
  <2>1. io'.closed /\ io'.ready = io.ready  BY <1>0, <1>4, HioEnds DEF CloseCb
  <2> QED  BY <1>0, <1>4, <2>1 DEF IInv, TypeOK, Life, CloseCb, Goto, Closing, Threads, sockVars
<1>5. CASE CloseSocket
  <2>1. ret = "idle"  BY <1>5 DEF IInv, TypeOK, Control, CloseSocket
  <2> QED  BY <1>0, <1>5, <2>1 DEF IInv, TypeOK, Life, CloseSocket, Goto, Closing, Threads
<1> QED  BY <1>1, <1>2, <1>3, <1>4, <1>5

LEMMA EventLife ==
    ASSUME IInv, Life, CustomEvent \/ CloseTimeout \/ ReadInterest \/ StoreInterest
                         \/ HandleEvents \/ Accept \/ PeerRead \/ PeerReset
    PROVE  Life'
<1> USE HioThreadsAssumption
<1>0. io \in Hios /\ Loop \in Threads  BY DEF IInv, TypeOK, Threads
<1>1. CASE CustomEvent
  BY <1>0, <1>1 DEF IInv, TypeOK, Life, CustomEvent, Goto, Closing, Threads, sockVars
<1>2. CASE CloseTimeout
  <2>1. io'.closed = io.closed /\ io'.ready = io.ready
    BY <1>0, <1>2, HioUpdates DEF CloseTimeout, Same
  <2> QED  BY <1>0, <1>2, <2>1 DEF IInv, TypeOK, Life, CloseTimeout, Goto, Closing, Threads, sockVars
<1>3. CASE ReadInterest
  BY <1>0, <1>3 DEF IInv, TypeOK, Life, ReadInterest, Goto, Closing, Threads, sockVars
<1>4. CASE StoreInterest
  <2>1. io'.closed = io.closed /\ io'.ready = io.ready  BY <1>0, <1>4 DEF StoreInterest, Hios
  <2> QED  BY <1>0, <1>4, <2>1 DEF IInv, TypeOK, Life, StoreInterest, Goto, Closing, Threads, sockVars
<1>5. CASE HandleEvents
  <2>1. io'.closed = io.closed /\ io'.ready = io.ready
    BY <1>0, <1>5 DEF HandleEvents, HandleDel, hio_del, Hios
  <2>2. ~io.closed  BY <1>5 DEF Life, HandleEvents, Closing
  <2> QED
    BY <1>0, <1>5, <2>1, <2>2 DEF IInv, TypeOK, Life, HandleEvents, Goto, Closing, Threads, sockVars
<1>6. CASE Accept
  <2>1. io.closed /\ ~io.ready /\ queue_empty(wq)  BY <1>6 DEF Life, Accept, Closing
  <2>2. /\ hio_ready(io) \in Hios /\ ~hio_ready(io).closed /\ hio_ready(io).ready
    BY <1>0, <2>1, HioReady
  <2>3. io' = hio_add(hio_ready(io), {"READ"})  BY <1>6, <2>2 DEF Accept
  <2>4. ~io'.closed /\ io'.ready
    <3>1. {"READ"} \in SUBSET Events  BY DEF Events
    <3>2. hio_ready(hio_ready(io)) = hio_ready(io)  BY <2>2, HioReady
    <3> QED  BY <2>2, <2>3, <3>1, <3>2, HioAddDel DEF Same
  <2> QED  BY <1>0, <1>6, <2>1, <2>4 DEF Life, Accept, Closing
<1>7. CASE PeerRead  BY <1>7 DEF Life, PeerRead
<1>8. CASE PeerReset  BY <1>8 DEF Life, PeerReset
<1> QED  BY <1>1, <1>2, <1>3, <1>4, <1>5, <1>6, <1>7, <1>8


LEMMA NioLife ==
    ASSUME IInv, Life, NioWriteLock \/ NioWriteEmpty \/ NioWriteSend \/ NioWriteCb
                         \/ NioWriteCbWrite \/ NioWriteCbClose \/ NioWritePop
    PROVE  Life'
<1> USE HioThreadsAssumption
<1>0. io \in Hios /\ Loop \in Threads  BY DEF IInv, TypeOK, Threads
<1>1. CASE NioWriteLock
  BY <1>0, <1>1 DEF IInv, TypeOK, Life, NioWriteLock, Goto, Closing, Threads, sockVars
<1>2. CASE NioWriteEmpty
  <2>1. io'.closed = io.closed /\ io'.ready = io.ready
    BY <1>0, <1>2, HioUpdates DEF NioWriteEmpty, Same
  <2> QED
    BY <1>0, <1>2, <2>1 DEF IInv, TypeOK, Life, NioWriteEmpty, Goto, Closing, Threads, sockVars
<1>3. CASE NioWriteSend
  <2>1. ~io.closed  BY <1>3 DEF Life, NioWriteSend, Closing, Threads
  <2>2. io'.closed = io.closed /\ io'.ready = io.ready
    BY <1>0, <1>3 DEF NioWriteSend, Hios
  <2>3. Goto(Loop, "close") \/ Goto(Loop, "idle") \/ Goto(Loop, "nwrite_cb")
    BY <1>3 DEF NioWriteSend
  <2> QED
    BY <1>0, <1>3, <2>1, <2>2, <2>3 DEF IInv, TypeOK, Life, NioWriteSend, Goto, Closing, Threads
<1>4. CASE NioWriteCb
  BY <1>0, <1>4 DEF IInv, TypeOK, Life, NioWriteCb, Goto, Closing, Threads, sockVars
<1>5. CASE NioWriteCbWrite
  <2>1. ~io.closed  BY <1>5 DEF NioWriteCbWrite
  <2>2. io'.closed = io.closed /\ io'.ready = io.ready
    BY <1>0, <1>5 DEF NioWriteCbWrite, Hios
  <2> QED
    BY <1>0, <1>5, <2>1, <2>2
       DEF IInv, TypeOK, Life, NioWriteCbWrite, Goto, Closing, Threads, sockVars
<1>6. CASE NioWriteCbClose
  BY <1>0, <1>6 DEF IInv, TypeOK, Life, NioWriteCbClose, CallClose, Goto, Closing, Threads, sockVars
<1>7. CASE NioWritePop
  <2>1. ~io.closed  BY <1>0, <1>7 DEF Life, NioWritePop, Closing
  <2>2. Goto(Loop, "nwrite") \/ Goto(Loop, "idle")  BY <1>7 DEF NioWritePop
  <2> QED
    BY <1>0, <1>7, <2>1, <2>2 DEF IInv, TypeOK, Life, NioWritePop, Goto, Closing, Threads, sockVars
<1> QED  BY <1>1, <1>2, <1>3, <1>4, <1>5, <1>6, <1>7

LEMMA NextLife ==
    ASSUME IInv, Life, ~Harmed', [Next]_vars
    PROVE  Life'
<1>1. CASE UNCHANGED vars  BY <1>1 DEF Life, vars
<1>2. CASE \E t \in Threads : hio_write(t) \/ hio_close(t) \/ WriteStep(t)
  BY <1>2, OpenLife
<1>3. CASE LoopStep
  <2>1. CASE NioWriteFreed  BY <2>1 DEF IInv, Control, NioWriteFreed
  <2> QED  BY <1>3, <2>1, CloseLife, EventLife, NioLife DEF LoopStep
<1>4. CASE \/ CustomEvent \/ CloseTimeout \/ ReadInterest \/ HandleEvents \/ Accept
           \/ PeerRead \/ PeerReset
  BY <1>4, EventLife
<1> QED  BY <1>1, <1>2, <1>3, <1>4 DEF Next


-----------------------------------------------------------------------------
(* The steps of HioStream.                                                 *)

LEMMA StreamStutter ==
    ASSUME conn' = conn, out' = out, io'.closed = io.closed, Pending' = Pending
    PROVE  UNCHANGED Stream!vars
BY DEF Stream!vars

LEMMA StreamWrite ==
    ASSUME NEW c \in 1..MaxCalls, NEW len \in Lens, NEW n \in 0..len,
           ~io.closed, ~io'.closed, conn' = conn,
           c \notin CallsIn(out \o Pending), n > 0 => Pending = << >>,
           out' = out \o SubSeq(Bytes(conn, c, len), 1, n),
           Pending' = Pending \o SubSeq(Bytes(conn, c, len), n + 1, len)
    PROVE  Stream!Next
<1>1. \A i \in DOMAIN (out \o Pending) : (out \o Pending)[i][2] # c  BY DEF CallsIn
<1>2. Stream!Bytes(conn, c, len) = Bytes(conn, c, len)  BY DEF Stream!Bytes, Bytes
<1>3. Stream!Write(c, len, n)  BY <1>1, <1>2 DEF Stream!Write
<1> QED  BY <1>3 DEF Stream!Next

LEMMA StreamFlush ==
    ASSUME NEW n \in 1..Len(Pending), ~io.closed, ~io'.closed, conn' = conn,
           out' = out \o SubSeq(Pending, 1, n),
           Pending' = SubSeq(Pending, n + 1, Len(Pending))
    PROVE  Stream!Next
<1>1. Stream!Flush(n)  BY DEF Stream!Flush
<1> QED  BY <1>1 DEF Stream!Next

LEMMA StreamRefuse ==
    ASSUME NEW q \in Seq(Byte), NEW s \in Seq(Byte), s # << >>, NEW c, CallsIn(s) = {c},
           Pending = q \o s, Pending' = q,
           ~io.closed, ~io'.closed, conn' = conn, out' = out
    PROVE  Stream!Next
<1> DEFINE n == Len(s)
           p == q \o s
<1>1. Len(s) \in Nat /\ Len(s) > 0 /\ Len(q) \in Nat  OBVIOUS
<1>2. /\ p \in Seq(Byte) /\ Len(p) = Len(q) + n
      /\ \A i \in 1..(Len(q) + n) : p[i] = IF i <= Len(q) THEN q[i] ELSE s[i - Len(q)]
  BY ConcatProperties
<1> HIDE DEF p
<1>3. \A i \in Len(p) - n + 1 .. Len(p) : p[i][2] = c
  <2>1. TAKE i \in Len(p) - n + 1 .. Len(p)
  <2>2. i \in 1..(Len(q) + n) /\ ~(i <= Len(q)) /\ i - Len(q) \in 1..n  BY <1>1, <1>2
  <2>3. p[i] = s[i - Len(q)]  BY <1>2, <2>2
  <2>4. i - Len(q) \in DOMAIN s  BY <2>2
  <2> QED  BY <2>3, <2>4 DEF CallsIn
<1>4. Stream!Last(p)[2] = c
  <2>1. Len(p) \in Len(p) - n + 1 .. Len(p)  BY <1>1, <1>2
  <2> QED  BY <1>3, <2>1 DEF Stream!Last
<1>5. SubSeq(p, 1, Len(p) - n) = q
  <2>1. Len(p) - n = Len(q) /\ Len(q) \in 0..Len(q)  BY <1>1, <1>2
  <2>2. SubSeq(q \o s, 1, Len(q)) = SubSeq(q, 1, Len(q))  BY <2>1, CutConcat
  <2>3. SubSeq(q, 1, Len(q)) = q  OBVIOUS
  <2> QED  BY <2>1, <2>2, <2>3 DEF p
<1>6. n \in 1..Len(p)  BY <1>1, <1>2
<1>7. Pending = p  BY DEF p
<1>8. Stream!Refuse(n)  BY <1>3, <1>4, <1>5, <1>6, <1>7 DEF Stream!Refuse
<1> QED  BY <1>6, <1>7, <1>8 DEF Stream!Next

LEMMA StreamClose ==
    ASSUME ~io.closed, io'.closed, conn' = conn, out' = out
    PROVE  Stream!Next
<1>1. Pending' = << >>  BY DEF Pending
<1>2. Stream!Close  BY <1>1 DEF Stream!Close
<1> QED  BY <1>2 DEF Stream!Next

LEMMA StreamOpen ==
    ASSUME io.closed, ~io'.closed, conn < MaxConns, conn' = conn + 1,
           out' = << >>, Pending' = << >>
    PROVE  Stream!Next
<1>1. Stream!Open  BY DEF Stream!Open
<1> QED  BY <1>1 DEF Stream!Next


-----------------------------------------------------------------------------
(* The calls.                                                              *)

LEMMA CallsOf ==
    ASSUME NEW a \in Seq(Byte), NEW b \in Seq(Byte), NEW n \in 0..Len(a)
    PROVE  /\ CallsIn(<< >>) = {}
           /\ a # << >> => CallsIn(a) # {}
           /\ CallsIn(a \o b) = CallsIn(a) \cup CallsIn(b)
           /\ CallsIn(SubSeq(a, 1, n)) \subseteq CallsIn(a)
           /\ CallsIn(SubSeq(a, n + 1, Len(a))) \subseteq CallsIn(a)
<1> DEFINE d == a \o b
           u == SubSeq(a, 1, n)
           v == SubSeq(a, n + 1, Len(a))
<1>0. Len(a) \in Nat /\ Len(b) \in Nat /\ n \in Nat /\ n <= Len(a)
      /\ DOMAIN a = 1..Len(a) /\ DOMAIN b = 1..Len(b)
  OBVIOUS
<1>1. CallsIn(<< >>) = {}  BY DEF CallsIn
<1>2. ASSUME a # << >>  PROVE CallsIn(a) # {}
  <2>1. 1 \in DOMAIN a  BY <1>2
  <2> QED  BY <2>1 DEF CallsIn
<1>3. CallsIn(a \o b) = CallsIn(a) \cup CallsIn(b)
  <2>1. /\ d \in Seq(Byte) /\ Len(d) = Len(a) + Len(b)
        /\ \A i \in 1..(Len(a) + Len(b)) : d[i] = IF i <= Len(a) THEN a[i] ELSE b[i - Len(a)]
    BY ConcatProperties
  <2> HIDE DEF d
  <2>2. DOMAIN d = 1..(Len(a) + Len(b))  BY <2>1
  <2>3. \A i \in DOMAIN d : d[i][2] \in CallsIn(a) \cup CallsIn(b)
    <3>1. TAKE i \in DOMAIN d
    <3>2. CASE i <= Len(a)
      <4>1. i \in DOMAIN a /\ d[i] = a[i]  BY <1>0, <2>1, <2>2, <3>2
      <4> QED  BY <4>1 DEF CallsIn
    <3>3. CASE ~(i <= Len(a))
      <4>1. i - Len(a) \in DOMAIN b /\ d[i] = b[i - Len(a)]  BY <1>0, <2>1, <2>2, <3>3
      <4> QED  BY <4>1 DEF CallsIn
    <3> QED  BY <3>2, <3>3
  <2>4. \A i \in DOMAIN a : a[i][2] \in CallsIn(d)
    <3>1. TAKE i \in DOMAIN a
    <3>2. i \in DOMAIN d /\ d[i] = a[i]  BY <1>0, <2>1, <2>2
    <3> QED  BY <3>2 DEF CallsIn
  <2>5. \A i \in DOMAIN b : b[i][2] \in CallsIn(d)
    <3>1. TAKE i \in DOMAIN b
    <3>2. /\ Len(a) + i \in DOMAIN d /\ ~(Len(a) + i <= Len(a)) /\ Len(a) + i - Len(a) = i
      BY <1>0, <2>2
    <3>3. d[Len(a) + i] = b[i]  BY <2>1, <2>2, <3>2
    <3> QED  BY <3>2, <3>3 DEF CallsIn
  <2>6. CallsIn(d) \subseteq CallsIn(a) \cup CallsIn(b)  BY <2>3 DEF CallsIn
  <2>7. CallsIn(a) \subseteq CallsIn(d) /\ CallsIn(b) \subseteq CallsIn(d)
    BY <2>4, <2>5 DEF CallsIn
  <2> QED  BY <2>6, <2>7 DEF d
<1>4. CallsIn(u) \subseteq CallsIn(a)
  <2>1. DOMAIN u = 1..n /\ \A i \in 1..n : u[i] = a[i] /\ i \in DOMAIN a  BY <1>0
  <2> HIDE DEF u
  <2> QED  BY <2>1 DEF CallsIn
<1>5. CallsIn(v) \subseteq CallsIn(a)
  <2>1. /\ v \in Seq(Byte) /\ Len(v) = Len(a) - n
        /\ \A i \in 1..(Len(a) - n) : v[i] = a[n + i]
    BY DropType
  <2> HIDE DEF v
  <2>2. DOMAIN v = 1..(Len(a) - n)  BY <2>1
  <2>3. \A i \in 1..(Len(a) - n) : n + i \in DOMAIN a  BY <1>0
  <2>4. \A i \in DOMAIN v : v[i][2] \in CallsIn(a)
    <3>1. TAKE i \in DOMAIN v
    <3>2. v[i] = a[n + i] /\ n + i \in DOMAIN a  BY <2>1, <2>2, <2>3
    <3> QED  BY <3>2 DEF CallsIn
  <2> QED  BY <2>4 DEF CallsIn
<1> QED  BY <1>1, <1>2, <1>3, <1>4, <1>5

\* All bytes of a call are of that call.
LEMMA CallsOfBytes ==
    ASSUME NEW k \in Nat, NEW c \in Nat, NEW len \in Lens
    PROVE  Bytes(k, c, len) # << >> /\ CallsIn(Bytes(k, c, len)) = {c}
<1>1. len \in Nat /\ len > 0  BY HioThreadsAssumption
<1>2. /\ Bytes(k, c, len) \in Seq(Byte) /\ Len(Bytes(k, c, len)) = len
      /\ \A i \in 1..len : Bytes(k, c, len)[i] = <<k, c, i>>
  BY <1>1, BytesType
<1> DEFINE s == Bytes(k, c, len)
<1>3. DOMAIN s = 1..len /\ 1 \in 1..len  BY <1>1, <1>2
<1> HIDE DEF s
<1>4. \A i \in DOMAIN s : s[i][2] = c  BY <1>2, <1>3 DEF s
<1>5. CallsIn(s) = {c}  BY <1>3, <1>4 DEF CallsIn
<1>6. Bytes(k, c, len) # << >>
  <2>1. Len(<< >>) = 0  OBVIOUS
  <2> QED  BY <1>1, <1>2, <2>1
<1> QED  BY <1>5, <1>6 DEF s

\* What the other threads need to know of a step that puts bytes of the
\* calls D into the stream.
LEMMA OthersKeep ==
    ASSUME SInv, conn' = conn, calls' \in Nat, calls <= calls', NEW D \in SUBSET (1..calls'),
           \A t \in Threads : pc'[t] \in Locked \cup {"wlock"} =>
              /\ pc[t] \in Locked \cup {"wlock"}
              /\ buf'[t] # << >> /\ CallsIn(buf'[t]) = CallsIn(buf[t])
              /\ pc'[t] \in {"wlock", "try"} =>
                    pc[t] \in {"wlock", "try"} /\ buf'[t] = buf[t] /\ CallsIn(buf[t]) \cap D = {},
           CallsIn(out') \subseteq CallsIn(out) \cup CallsIn(Queued(wq)) \cup D,
           CallsIn(Queued(wq')) \subseteq CallsIn(out) \cup CallsIn(Queued(wq)) \cup D
    PROVE  Mine' /\ Fresh'
<1>0. calls \in Nat  BY DEF SInv, IInv, TypeOK
<1>1. 1..calls \subseteq 1..calls'  BY <1>0
<1>2. \A t \in Threads : pc'[t] \in {"wlock", "try"} =>
         \E c \in 1..calls' : \E len \in Lens : buf'[t] = Bytes(CallConn(t)', c, len)
  BY <1>1 DEF SInv, Mine, Locked, CallConn
<1>3. \A t \in Threads : pc'[t] \in Locked \cup {"wlock"} =>
         buf'[t] # << >> /\ \E c \in 1..calls' : CallsIn(buf'[t]) = {c}
  BY <1>1 DEF SInv, Mine
<1>4. \A t, u \in Threads :
         t # u /\ {pc'[t], pc'[u]} \subseteq Locked \cup {"wlock"} =>
            CallsIn(buf'[t]) \cap CallsIn(buf'[u]) = {}
  <2>1. \A t, u \in Threads :
           t # u /\ {pc[t], pc[u]} \subseteq Locked \cup {"wlock"} =>
              CallsIn(buf[t]) \cap CallsIn(buf[u]) = {}
    BY DEF SInv, Mine
  <2>2. \A t \in Threads : pc'[t] \in Locked \cup {"wlock"} =>
           pc[t] \in Locked \cup {"wlock"} /\ CallsIn(buf'[t]) = CallsIn(buf[t])
    OBVIOUS
  <2>3. TAKE t, u \in Threads
  <2>4. HAVE t # u /\ {pc'[t], pc'[u]} \subseteq Locked \cup {"wlock"}
  <2>5. /\ {pc[t], pc[u]} \subseteq Locked \cup {"wlock"}
        /\ CallsIn(buf'[t]) = CallsIn(buf[t]) /\ CallsIn(buf'[u]) = CallsIn(buf[u])
    BY <2>2, <2>4
  <2> QED  BY <2>1, <2>4, <2>5
<1>5. Mine'  BY <1>2, <1>3, <1>4 DEF Mine, CallsIn
<1>6. CallsIn(out') \subseteq 1..calls' /\ CallsIn(Queued(wq')) \subseteq 1..calls'
  BY <1>1 DEF SInv, Fresh
<1>7. \A t \in Threads : pc'[t] \in {"wlock", "try"} =>
         /\ CallsIn(buf'[t]) \cap CallsIn(out') = {}
         /\ CallsIn(buf'[t]) \cap CallsIn(Queued(wq')) = {}
  BY DEF SInv, Fresh, Locked
<1>8. Fresh'
  <2>1. CallsIn(out)' = CallsIn(out') /\ CallsIn(Queued(wq))' = CallsIn(Queued(wq'))
    BY DEF CallsIn, Queued
  <2> QED  BY <1>6, <1>7, <2>1 DEF Fresh
<1> QED  BY <1>5, <1>8


-----------------------------------------------------------------------------
(* Every step keeps the stream's invariants and is a step of HioStream.    *)

Rest == Counted /\ Mine /\ Fresh

StreamStep == Stream!Next \/ UNCHANGED Stream!vars

\* The bytes that are pending, while the hio_t is open.
LEMMA PendingOpen ==
    ASSUME IInv
    PROVE  /\ Held \in Seq(Byte) /\ Queued(wq) \in Seq(Byte) /\ Pending \in Seq(Byte)
           /\ ~io.closed => Pending = Queued(wq) \o Held
           /\ ~io.closed /\ Held = << >> => Pending = Queued(wq)
<1>1. << >> \in Seq(Byte)  OBVIOUS
<1>2. Held \in Seq(Byte)  BY <1>1 DEF Held, IInv, TypeOK
<1>3. Queued(wq) \in Seq(Byte)  BY QueuedType DEF IInv, TypeOK
<1>4. Queued(wq) \o Held \in Seq(Byte)  BY <1>2, <1>3, ConcatProperties
<1>5. Queued(wq) \o << >> = Queued(wq)  BY <1>3, ConcatEmptySeq
<1> QED  BY <1>1, <1>2, <1>3, <1>4, <1>5 DEF Pending

\* A step that neither takes nor moves bytes.
LEMMA Quiet ==
    ASSUME SInv, UNCHANGED <<wq, out, calls, conn>>,
           ~io'.closed => ~io.closed /\ io'.write_bufsize = io.write_bufsize,
           \A t \in Threads : pc'[t] \in Locked \cup {"wlock"} =>
              /\ pc[t] \in Locked \cup {"wlock"} /\ buf'[t] = buf[t]
              /\ pc'[t] \in {"wlock", "try"} => pc[t] \in {"wlock", "try"}
    PROVE  Rest' /\ (io'.closed = io.closed /\ Held' = Held => StreamStep)
<1>1. Counted'  BY DEF SInv, Counted, Queued
<1>2. Mine' /\ Fresh'
  <2>1. calls' \in Nat /\ calls <= calls' /\ {} \in SUBSET (1..calls')
    BY DEF SInv, IInv, TypeOK
  <2>2. /\ CallsIn(out') \subseteq CallsIn(out) \cup CallsIn(Queued(wq)) \cup {}
        /\ CallsIn(Queued(wq')) \subseteq CallsIn(out) \cup CallsIn(Queued(wq)) \cup {}
    OBVIOUS
  <2>3. \A t \in Threads : pc'[t] \in Locked \cup {"wlock"} =>
           /\ pc[t] \in Locked \cup {"wlock"}
           /\ buf'[t] # << >> /\ CallsIn(buf'[t]) = CallsIn(buf[t])
           /\ pc'[t] \in {"wlock", "try"} =>
                 pc[t] \in {"wlock", "try"} /\ buf'[t] = buf[t] /\ CallsIn(buf[t]) \cap {} = {}
    BY DEF SInv, Mine
  <2> QED  BY <2>1, <2>2, <2>3, OthersKeep
<1>3. ASSUME io'.closed = io.closed, Held' = Held  PROVE StreamStep
  <2>1. Pending' = Pending  BY <1>3 DEF Pending, Queued
  <2> QED  BY <1>3, <2>1, StreamStutter DEF StreamStep
<1> QED  BY <1>1, <1>2, <1>3 DEF Rest

\* A quiet step of one thread that leaves the mutex alone.
LEMMA QuietStep ==
    ASSUME SInv, NEW t \in Threads, NEW l, pc' = [pc EXCEPT ![t] = l],
           l \notin Locked \cup {"wlock"}, pc[t] \notin {"add", "push"},
           UNCHANGED <<wq, out, calls, conn, mutex, buf>>,
           io'.closed = io.closed, io'.write_bufsize = io.write_bufsize
    PROVE  Rest' /\ StreamStep
<1>1. DOMAIN pc = Threads  BY DEF SInv, IInv, TypeOK
<1>2. \A u \in Threads : pc'[u] = IF u = t THEN l ELSE pc[u]  BY <1>1
<1>3. Held' = Held  BY <1>2 DEF Held, CallConn, Locked
<1>4. \A u \in Threads : pc'[u] \in Locked \cup {"wlock"} =>
         /\ pc[u] \in Locked \cup {"wlock"} /\ buf'[u] = buf[u]
         /\ pc'[u] \in {"wlock", "try"} => pc[u] \in {"wlock", "try"}
  BY <1>2
<1> QED  BY <1>3, <1>4, Quiet

\* The loop thread's events that do not touch the queue.
LEMMA EventStep ==
    ASSUME SInv, CustomEvent \/ CloseTimeout \/ ReadInterest \/ StoreInterest
                   \/ HandleEvents \/ NioWriteCb \/ NioWriteCbClose
    PROVE  Rest' /\ StreamStep
<1>0. io \in Hios /\ Loop \in Threads  BY DEF SInv, IInv, TypeOK, Threads
<1>1. CASE CustomEvent
  BY <1>0, <1>1, QuietStep DEF CustomEvent, Goto, Locked, sockVars, boundVars
<1>2. CASE CloseTimeout
  <2>1. io'.closed = io.closed /\ io'.write_bufsize = io.write_bufsize
    BY <1>0, <1>2, HioUpdates DEF CloseTimeout, Same
  <2> QED  BY <1>0, <1>2, <2>1, QuietStep DEF CloseTimeout, Goto, Locked, sockVars, boundVars
<1>3. CASE ReadInterest
  BY <1>0, <1>3, QuietStep DEF ReadInterest, Goto, Locked, sockVars, boundVars
<1>4. CASE StoreInterest
  <2>1. io'.closed = io.closed /\ io'.write_bufsize = io.write_bufsize
    BY <1>0, <1>4 DEF StoreInterest, Hios
  <2> QED  BY <1>0, <1>4, <2>1, QuietStep DEF StoreInterest, Goto, Locked, sockVars, boundVars
<1>5. CASE HandleEvents
  <2>1. io'.closed = io.closed /\ io'.write_bufsize = io.write_bufsize
    BY <1>0, <1>5 DEF HandleEvents, HandleDel, hio_del, Hios
  <2> QED  BY <1>0, <1>5, <2>1, QuietStep DEF HandleEvents, Goto, Locked, sockVars, boundVars
<1>6. CASE NioWriteCb
  BY <1>0, <1>6, QuietStep DEF NioWriteCb, Goto, Locked, sockVars, boundVars
<1>7. CASE NioWriteCbClose
  BY <1>0, <1>7, QuietStep DEF NioWriteCbClose, CallClose, Goto, Locked, sockVars
<1> QED  BY <1>1, <1>2, <1>3, <1>4, <1>5, <1>6, <1>7

\* The peer.
LEMMA PeerStep ==
    ASSUME SInv, PeerRead \/ PeerReset \/ UNCHANGED vars
    PROVE  Rest' /\ StreamStep
<1>1. /\ UNCHANGED <<io, wq, out, calls, conn, mutex, pc, buf>>
  BY DEF PeerRead, PeerReset, vars
<1>2. Held' = Held  BY <1>1 DEF Held, CallConn
<1> QED  BY <1>1, <1>2, Quiet

\* A close gives up what is pending; a close that is put off, and one of an
\* hio_t that is closed, do nothing to the stream.
LEMMA CloseStep ==
    ASSUME SInv, IInv', Close \/ HioDone \/ HioDoneQueue \/ CloseCb \/ CloseSocket
    PROVE  Rest' /\ StreamStep
<1>0. io \in Hios /\ Loop \in Threads /\ ret \in {"idle", "npop"}
  BY DEF SInv, IInv, TypeOK, Threads
<1>1. CASE Close
  <2>1. /\ pc[Loop] = "close" /\ UNCHANGED <<wq, out, calls, conn, mutex, buf>>
    BY <1>1 DEF Close, sockVars, boundVars
  <2>2. CASE io.closed
    BY <1>0, <1>1, <2>1, <2>2, QuietStep DEF Close, Goto, Locked
  <2>3. CASE ~io.closed /\ CloseLater(io, wq)
    <3>1. io'.closed = io.closed /\ io'.write_bufsize = io.write_bufsize
      BY <1>0, <1>1, <2>3, HioUpdates DEF Close, Same
    <3> QED  BY <1>0, <1>1, <2>1, <2>3, <3>1, QuietStep DEF Close, Goto, Locked
  <2>4. CASE ~io.closed /\ ~CloseLater(io, wq)
    <3>1. io' = [io EXCEPT !.closed = TRUE] /\ pc' = [pc EXCEPT ![Loop] = "done"]
      BY <1>1, <2>4 DEF Close, Goto
    <3>2. io'.closed  BY <1>0, <3>1, HioEnds
    <3>3. DOMAIN pc = Threads  BY DEF SInv, IInv, TypeOK
    <3>4. Rest'  BY <2>1, <3>1, <3>2, <3>3, Quiet DEF Locked
    <3>5. StreamStep  BY <2>1, <2>4, <3>2, StreamClose DEF StreamStep
    <3> QED  BY <3>4, <3>5
  <2> QED  BY <2>2, <2>3, <2>4
<1>2. CASE HioDone
  <2>1. io'.closed = io.closed /\ io'.write_bufsize = io.write_bufsize
    BY <1>0, <1>2 DEF HioDone, hio_del, Hios
  <2> QED  BY <1>0, <1>2, <2>1, QuietStep DEF HioDone, Goto, Locked, sockVars, boundVars
<1>3. CASE HioDoneQueue
  <2>1. io.closed /\ io' = io  BY <1>3 DEF HioDoneQueue, SInv, Life, Closing
  <2>2. /\ UNCHANGED <<out, calls, conn, buf>> /\ pc' = [pc EXCEPT ![Loop] = "close_cb"]
        /\ DOMAIN pc = Threads
    BY <1>3 DEF HioDoneQueue, Goto, sockVars, boundVars, SInv, IInv, TypeOK
  <2>3. QueueOK(wq', Bufs) /\ queue_empty(wq')
    BY <1>3 DEF HioDoneQueue, FreedQueue, queue_cleanup, queue_init, queue_empty, IInv, TypeOK
  <2>4. CallsIn(Queued(wq')) = {}  BY <2>3, QueuedType DEF CallsIn
  <2>5. Mine' /\ Fresh'
    <3>1. calls' \in Nat /\ calls <= calls' /\ {} \in SUBSET (1..calls')
      BY <2>2 DEF SInv, IInv, TypeOK
    <3>2. \A t \in Threads : pc'[t] \in Locked \cup {"wlock"} =>
             /\ pc[t] \in Locked \cup {"wlock"}
             /\ buf'[t] # << >> /\ CallsIn(buf'[t]) = CallsIn(buf[t])
             /\ pc'[t] \in {"wlock", "try"} =>
                   pc[t] \in {"wlock", "try"} /\ buf'[t] = buf[t] /\ CallsIn(buf[t]) \cap {} = {}
      BY <2>2 DEF SInv, Mine, Locked
    <3> QED  BY <2>2, <2>4, <3>1, <3>2, OthersKeep
  <2>6. Counted'  BY <2>1 DEF Counted
  <2>7. StreamStep
    <3>1. Pending' = Pending  BY <2>1 DEF Pending
    <3> QED  BY <2>1, <2>2, <3>1, StreamStutter DEF StreamStep
  <2> QED  BY <2>5, <2>6, <2>7 DEF Rest
<1>4. CASE CloseCb
  <2>1. io.closed  BY <1>4 DEF CloseCb, SInv, Life, Closing
  <2>2. io'.closed = io.closed /\ io'.write_bufsize = io.write_bufsize
    BY <1>0, <1>4, <2>1 DEF CloseCb, Hios
  <2> QED  BY <1>0, <1>4, <2>2, QuietStep DEF CloseCb, Goto, Locked, sockVars, boundVars
<1>5. CASE CloseSocket
  BY <1>0, <1>5, QuietStep DEF CloseSocket, Goto, Locked, boundVars
<1> QED  BY <1>1, <1>2, <1>3, <1>4, <1>5


\* nio_write: the bytes that leave are the first ones, a finished buffer has
\* none, and what write_cb writes goes behind all of them.
LEMMA NioStep ==
    ASSUME SInv, IInv', NioWriteLock \/ NioWriteEmpty \/ NioWriteSend \/ NioWriteCbWrite
                          \/ NioWritePop
    PROVE  Rest' /\ StreamStep
<1> USE HioThreadsAssumption
<1>0. /\ io \in Hios /\ Loop \in Threads /\ Free \notin Threads /\ DOMAIN pc = Threads
      /\ IInv /\ QueueOK(wq, Bufs)
  BY DEF SInv, IInv, TypeOK, Threads
<1>a. /\ Queued(wq) \in Seq(Byte) /\ (~io.closed /\ Held = << >> => Pending = Queued(wq))
  BY <1>0, PendingOpen
<1>b. calls \in Nat /\ calls + 1 \in Nat /\ calls <= calls + 1 /\ conn \in Nat /\ {} \in SUBSET (1..calls)
  BY DEF SInv, IInv, TypeOK
<1>c. << >> \in Seq(Byte)  OBVIOUS
<1>1. CASE NioWriteLock
  <2>1. /\ UNCHANGED <<io, wq, out, calls, conn, buf>> /\ pc' = [pc EXCEPT ![Loop] = "nwrite"]
        /\ mutex = Free /\ mutex' = Loop
    BY <1>1 DEF NioWriteLock, Goto, sockVars, boundVars
  <2>2. Held' = Held  BY <1>0, <2>1 DEF Held
  <2> QED  BY <1>0, <2>1, <2>2, Quiet DEF Locked
<1>2. CASE NioWriteEmpty
  <2>1. /\ UNCHANGED <<wq, out, calls, conn, buf>> /\ pc[Loop] = "nwrite" /\ mutex' = Free
        /\ (pc' = [pc EXCEPT ![Loop] = "close"] \/ pc' = [pc EXCEPT ![Loop] = "idle"])
    BY <1>2 DEF NioWriteEmpty, Goto, Unlock, sockVars, boundVars
  <2>2. io'.closed = io.closed /\ io'.write_bufsize = io.write_bufsize
    BY <1>0, <1>2, HioUpdates DEF NioWriteEmpty, Same
  <2>3. mutex = Loop  BY <2>1 DEF SInv, IInv, Control
  <2>4. Held' = Held  BY <1>0, <2>1, <2>3 DEF Held
  <2> QED  BY <1>0, <2>1, <2>2, <2>4, Quiet DEF Locked
<1>3. CASE NioWriteSend
  <2> DEFINE rest == Remain(queue_front(wq))
  <2>1. PICK n \in SendResults(Len(rest)) :
          \/ /\ n = -1
             /\ io' = [io EXCEPT !.error = TRUE]
             /\ asked' = asked \cup {conn}
             /\ Unlock /\ Goto(Loop, "close")
             /\ UNCHANGED <<wq, out>>
          \/ /\ n = 0
             /\ Unlock /\ Goto(Loop, "idle")
             /\ UNCHANGED <<io, wq, out, asked>>
          \/ /\ n > 0
             /\ out' = out \o SubSeq(rest, 1, n)
             /\ wq' = FrontSent(n)
             /\ io' = [io EXCEPT !.write_bufsize = @ - n]
             /\ Goto(Loop, "nwrite_cb")
             /\ UNCHANGED <<mutex, asked>>
    BY <1>3 DEF NioWriteSend
  <2>2. Len(rest) \in Nat
    <3>1. queue_front(wq) \in Bufs  BY <1>0, <1>3, QueuedFront DEF NioWriteSend
    <3>2. rest \in Seq(Byte)  BY <3>1, RemainType
    <3> QED  BY <3>2
  <2>3. n \in Int /\ (n = -1 \/ n \in 0..Len(rest))  BY <1>0, <2>2, Sends DEF IInv
  <2>4. /\ pc[Loop] = "nwrite" /\ mutex = Loop /\ ~queue_empty(wq) /\ UNCHANGED <<buf, conn, calls>>
    BY <1>3 DEF NioWriteSend, SInv, IInv, Control, boundVars
  <2>5. Held = << >> /\ ~io.closed  BY <1>0, <2>4 DEF Held, SInv, Life, Closing
  <2>6. CASE n = -1 \/ n = 0
    <3>1. ~(n > 0)  BY <2>6
    <3>2. /\ UNCHANGED <<wq, out>> /\ mutex' = Free
          /\ (pc' = [pc EXCEPT ![Loop] = "close"] \/ pc' = [pc EXCEPT ![Loop] = "idle"])
          /\ (io' = [io EXCEPT !.error = TRUE] \/ io' = io)
      BY <2>1, <3>1 DEF Unlock, Goto
    <3>3. Same(io, [io EXCEPT !.error = TRUE])  BY <1>0, HioUpdates
    <3>4. io'.closed = io.closed /\ io'.write_bufsize = io.write_bufsize
      BY <3>2, <3>3 DEF Same
    <3>5. Held' = Held  BY <1>0, <2>5, <3>2 DEF Held
    <3> QED  BY <1>0, <2>4, <3>2, <3>4, <3>5, Quiet DEF Locked
  <2>7. CASE n > 0
    <3>1. n # -1 /\ n # 0 /\ n \in 0..Len(rest) /\ n \in Nat  BY <2>2, <2>3, <2>7
    <3>2. /\ out' = out \o SubSeq(rest, 1, n) /\ wq' = FrontSent(n)
          /\ io' = [io EXCEPT !.write_bufsize = io.write_bufsize - n]
          /\ pc' = [pc EXCEPT ![Loop] = "nwrite_cb"] /\ mutex' = mutex
      BY <2>1, <3>1 DEF Goto
    <3> DEFINE q == Queued(wq)
    <3>3. /\ n <= Len(q) /\ SubSeq(rest, 1, n) = SubSeq(q, 1, n)
          /\ Queued(wq') = SubSeq(q, n + 1, Len(q)) /\ QueueOK(wq', Bufs)
      BY <1>0, <2>4, <3>1, <3>2, QueuedSent
    <3>4. q \in Seq(Byte) /\ Pending = q  BY <1>a, <2>5
    <3> HIDE DEF q, rest
    <3>5. n \in 0..Len(q) /\ n \in 1..Len(q) /\ Len(q) \in Nat  BY <3>1, <3>3, <3>4
    <3>6. /\ SubSeq(q, 1, n) \in Seq(Byte)
          /\ SubSeq(q, n + 1, Len(q)) \in Seq(Byte) /\ Len(SubSeq(q, n + 1, Len(q))) = Len(q) - n
      <4>1. SubSeq(q, 1, n) \in Seq(Byte)  BY <3>4, <3>5
      <4> QED  BY <3>4, <3>5, <4>1, DropType
    <3>7. /\ ~io'.closed /\ io'.write_bufsize = io.write_bufsize - n
      <4>1. io.write_bufsize - n \in Int  BY <1>0, <2>3 DEF Hios
      <4> QED  BY <1>0, <2>5, <3>2, <4>1, HioUpdates
    <3>8. Counted'
      <4>1. io.write_bufsize = Len(q) /\ io.write_bufsize <= MaxWriteBufsize
        BY <2>5 DEF SInv, Counted, q
      <4>2. Len(Queued(wq')) = Len(q) - n  BY <3>3, <3>6
      <4>3. io'.write_bufsize <= MaxWriteBufsize  BY <3>1, <3>5, <3>7, <4>1
      <4>4. io'.write_bufsize = Len(Queued(wq'))  BY <3>7, <4>1, <4>2
      <4> QED  BY <4>3, <4>4 DEF Counted, Queued
    <3>9. Mine' /\ Fresh'
      <4>1. out \in Seq(Byte)  BY DEF SInv, IInv, TypeOK
      <4>2. CallsIn(SubSeq(q, 1, n)) \subseteq CallsIn(q) /\ CallsIn(SubSeq(q, n + 1, Len(q))) \subseteq CallsIn(q)
        BY <3>4, <3>5, CallsOf
      <4>3. 0 \in 0..Len(out)  BY <4>1
      <4>4. CallsIn(out \o SubSeq(q, 1, n)) = CallsIn(out) \cup CallsIn(SubSeq(q, 1, n))
        BY <3>6, <4>1, <4>3, CallsOf
      <4>5. /\ CallsIn(out') \subseteq CallsIn(out) \cup CallsIn(Queued(wq)) \cup {}
            /\ CallsIn(Queued(wq')) \subseteq CallsIn(out) \cup CallsIn(Queued(wq)) \cup {}
        BY <3>2, <3>3, <4>2, <4>4 DEF q
      <4>6. \A t \in Threads : pc'[t] \in Locked \cup {"wlock"} =>
               /\ pc[t] \in Locked \cup {"wlock"}
               /\ buf'[t] # << >> /\ CallsIn(buf'[t]) = CallsIn(buf[t])
               /\ pc'[t] \in {"wlock", "try"} =>
                     pc[t] \in {"wlock", "try"} /\ buf'[t] = buf[t] /\ CallsIn(buf[t]) \cap {} = {}
        BY <1>0, <2>4, <3>2 DEF SInv, Mine, Locked
      <4>7. /\ calls' \in Nat /\ calls <= calls' /\ {} \in SUBSET (1..calls') /\ conn' = conn
        BY <1>b, <2>4
      <4> QED  BY <4>5, <4>6, <4>7, OthersKeep
    <3>10. StreamStep
      <4>1. Held' = << >>  BY <1>0, <2>4, <3>2 DEF Held
      <4>2. Pending' = SubSeq(q, n + 1, Len(q))
        <5>1. Pending' = Queued(wq') \o << >>  BY <3>7, <4>1 DEF Pending, Queued
        <5> QED  BY <3>3, <3>6, <5>1, ConcatEmptySeq
      <4> QED  BY <2>4, <2>5, <3>2, <3>3, <3>4, <3>5, <3>7, <4>2, StreamFlush DEF StreamStep
    <3> QED  BY <3>8, <3>9, <3>10 DEF Rest
  <2> QED  BY <2>3, <2>6, <2>7
<1>4. CASE NioWriteCbWrite
  <2>1. PICK len \in Lens :
          \/ /\ OverLimit(io, len)
             /\ io' = [io EXCEPT !.error = TRUE]
             /\ asked' = asked \cup {conn}
             /\ custom' = Append(custom, io.id)
             /\ UNCHANGED wq
          \/ /\ ~OverLimit(io, len)
             /\ wq' = write_queue_push(wq, Bytes(conn, calls + 1, len))
             /\ io' = [io EXCEPT !.write_bufsize = @ + len]
             /\ UNCHANGED <<custom, asked>>
    BY <1>4 DEF NioWriteCbWrite
  <2>2. /\ pc[Loop] = "nwrite_cb" /\ ~io.closed /\ calls' = calls + 1 /\ calls < MaxCalls
        /\ pc' = [pc EXCEPT ![Loop] = "npop"] /\ UNCHANGED <<mutex, buf, conn, out>>
        /\ mutex = Loop
    BY <1>4 DEF NioWriteCbWrite, Goto, sockVars, SInv, IInv, Control
  <2>3. Held = << >> /\ Held' = << >>  BY <1>0, <2>2 DEF Held
  <2> DEFINE s == Bytes(conn, calls + 1, len)
  <2>4. len \in Nat /\ s \in Seq(Byte) /\ Len(s) = len /\ CallsIn(s) = {calls + 1}
    <3>1. len \in Nat  OBVIOUS
    <3> QED  BY <1>b, <3>1, BytesType, CallsOfBytes
  <2> HIDE DEF s
  <2>5. /\ {calls + 1} \in SUBSET (1..calls') /\ calls' \in Nat /\ calls <= calls'
        /\ {} \in SUBSET (1..calls')
    BY <1>b, <2>2
  <2>6. \A t \in Threads : pc'[t] \in Locked \cup {"wlock"} =>
           /\ pc[t] \in Locked \cup {"wlock"}
           /\ buf'[t] # << >> /\ CallsIn(buf'[t]) = CallsIn(buf[t])
           /\ pc'[t] \in {"wlock", "try"} =>
                 /\ pc[t] \in {"wlock", "try"} /\ buf'[t] = buf[t]
                 /\ CallsIn(buf[t]) \cap {calls + 1} = {}
    <3>1. \A t \in Threads : pc[t] \in Locked \cup {"wlock"} => CallsIn(buf[t]) \subseteq 1..calls
      BY DEF SInv, Mine
    <3>2. \A t \in Threads : pc[t] \in Locked \cup {"wlock"} => CallsIn(buf[t]) \cap {calls + 1} = {}
      <4>1. calls + 1 \notin 1..calls  BY <1>b
      <4> QED  BY <3>1, <4>1
    <3> QED  BY <1>0, <2>2, <3>2 DEF SInv, Mine, Locked
  <2>7. CASE OverLimit(io, len)
    <3>1. io' = [io EXCEPT !.error = TRUE] /\ wq' = wq  BY <2>1, <2>7
    <3>2. io'.closed = io.closed /\ io'.write_bufsize = io.write_bufsize
      BY <1>0, <3>1, HioUpdates DEF Same
    <3>3. Counted'  BY <3>1, <3>2 DEF SInv, Counted, Queued
    <3>4. Mine' /\ Fresh'
      <4>1. /\ CallsIn(out') \subseteq CallsIn(out) \cup CallsIn(Queued(wq)) \cup {}
            /\ CallsIn(Queued(wq')) \subseteq CallsIn(out) \cup CallsIn(Queued(wq)) \cup {}
        BY <2>2, <3>1
      <4>2. \A t \in Threads : pc'[t] \in Locked \cup {"wlock"} =>
               /\ pc[t] \in Locked \cup {"wlock"}
               /\ buf'[t] # << >> /\ CallsIn(buf'[t]) = CallsIn(buf[t])
               /\ pc'[t] \in {"wlock", "try"} =>
                     pc[t] \in {"wlock", "try"} /\ buf'[t] = buf[t] /\ CallsIn(buf[t]) \cap {} = {}
        BY <2>6
      <4> QED  BY <2>2, <2>5, <4>1, <4>2, OthersKeep
    <3>5. Pending' = Pending  BY <2>3, <3>1, <3>2 DEF Pending, Queued
    <3>6. StreamStep  BY <2>2, <3>2, <3>5, StreamStutter DEF StreamStep
    <3> QED  BY <3>3, <3>4, <3>6 DEF Rest
  <2>8. CASE ~OverLimit(io, len)
    <3>1. /\ wq' = write_queue_push(wq, s)
          /\ io' = [io EXCEPT !.write_bufsize = io.write_bufsize + len]
      BY <2>1, <2>8 DEF s
    <3>2. Queued(wq') = Queued(wq) \o s /\ QueueOK(wq', Bufs)  BY <1>0, <2>4, <3>1, QueuedPush
    <3>3. io'.closed = io.closed /\ io'.write_bufsize = io.write_bufsize + len
      <4>1. io.write_bufsize + len \in Int  BY <1>0, <2>4 DEF Hios
      <4> QED  BY <1>0, <3>1, <4>1, HioUpdates
    <3>4. /\ Queued(wq) \o s \in Seq(Byte) /\ Len(Queued(wq) \o s) = Len(Queued(wq)) + Len(s)
      BY ZenonT(40), <1>a, <2>4, ConcatProperties
    <3>5. Counted'
      <4>1. io.write_bufsize = Len(Queued(wq))  BY <2>2 DEF SInv, Counted
      <4>2. io.write_bufsize + len <= MaxWriteBufsize
        BY <1>0, <2>4, <2>8 DEF OverLimit, Hios
      <4>3. io'.write_bufsize = Len(Queued(wq'))  BY <2>4, <3>2, <3>3, <3>4, <4>1
      <4> QED  BY <3>3, <4>2, <4>3 DEF Counted, Queued
    <3>6. Mine' /\ Fresh'
      <4>1. 0 \in 0..Len(Queued(wq))  BY <1>a
      <4>2. CallsIn(Queued(wq) \o s) = CallsIn(Queued(wq)) \cup {calls + 1}
        BY <1>a, <2>4, <4>1, CallsOf
      <4>3. /\ CallsIn(out') \subseteq CallsIn(out) \cup CallsIn(Queued(wq)) \cup {calls + 1}
            /\ CallsIn(Queued(wq')) \subseteq CallsIn(out) \cup CallsIn(Queued(wq)) \cup {calls + 1}
        BY <2>2, <3>2, <4>2
      <4> QED  BY <2>2, <2>5, <2>6, <4>3, OthersKeep
    <3>7. StreamStep
      <4>1. Pending = Queued(wq)  BY <1>a, <2>2, <2>3
      <4>2. Pending' = Pending \o s
        <5>1. Pending' = Queued(wq') \o << >>  BY <2>2, <2>3, <3>3 DEF Pending, Queued
        <5> QED  BY <3>2, <3>4, <4>1, <5>1, ConcatEmptySeq
      <4>3. calls + 1 \in 1..MaxCalls /\ 0 \in 0..len  BY <1>b, <2>2, <2>4
      <4>4. SubSeq(s, 1, 0) = << >> /\ SubSeq(s, 0 + 1, len) = s  BY <2>4
      <4>5. out \in Seq(Byte) /\ out' = out \o << >>
        <5>1. out \in Seq(Byte)  BY DEF SInv, IInv, TypeOK
        <5> QED  BY <2>2, <5>1, ConcatEmptySeq
      <4>6. calls + 1 \notin CallsIn(out \o Pending)
        <5>1. 0 \in 0..Len(out)  BY <4>5
        <5>2. CallsIn(out \o Queued(wq)) = CallsIn(out) \cup CallsIn(Queued(wq))
          BY <1>a, <4>5, <5>1, CallsOf
        <5>3. calls + 1 \notin 1..calls  BY <1>b
        <5> QED  BY <4>1, <5>2, <5>3 DEF SInv, Fresh
      <4>7. out' = out \o SubSeq(s, 1, 0) /\ Pending' = Pending \o SubSeq(s, 0 + 1, len)
        BY <4>2, <4>4, <4>5
      <4>8. ~io'.closed /\ conn' = conn /\ ~(0 > 0)  BY <2>2, <3>3
      <4> QED  BY <2>2, <4>3, <4>6, <4>7, <4>8, StreamWrite DEF s, StreamStep
    <3> QED  BY <3>5, <3>6, <3>7 DEF Rest
  <2> QED  BY <2>7, <2>8
<1>5. CASE NioWritePop
  <2>1. /\ pc[Loop] = "npop" /\ UNCHANGED <<io, buf, calls, conn, out>>
        /\ mutex = Loop /\ ~queue_empty(wq)
    BY <1>5 DEF NioWritePop, sockVars, boundVars, SInv, IInv, Control
  <2>2. Held = << >> /\ ~io.closed  BY <1>0, <2>1 DEF Held, SInv, Life, Closing
  <2>3. CASE Remain(queue_front(wq)) = << >>
    <3>1. /\ wq' = queue_pop_front(wq) /\ mutex' = mutex /\ pc' = [pc EXCEPT ![Loop] = "nwrite"]
      BY <1>5, <2>3 DEF NioWritePop, Goto
    <3>2. Queued(wq') = Queued(wq)
      <4>1. QueueOK(wq', Bufs) /\ Queued(wq) = << >> \o Queued(wq')
        BY <1>0, <2>1, <2>3, <3>1, QueuedFront
      <4>2. Queued(wq') \in Seq(Byte)  BY <4>1, QueuedType
      <4> QED  BY <4>1, <4>2, ConcatEmptySeq
    <3>3. Held' = << >>  BY <1>0, <2>1, <3>1 DEF Held
    <3>4. Counted'  BY <2>1, <2>2, <3>2 DEF SInv, Counted, Queued
    <3>5. Mine' /\ Fresh'
      <4>1. /\ CallsIn(out') \subseteq CallsIn(out) \cup CallsIn(Queued(wq)) \cup {}
            /\ CallsIn(Queued(wq')) \subseteq CallsIn(out) \cup CallsIn(Queued(wq)) \cup {}
        BY <2>1, <3>2
      <4>2. \A t \in Threads : pc'[t] \in Locked \cup {"wlock"} =>
               /\ pc[t] \in Locked \cup {"wlock"}
               /\ buf'[t] # << >> /\ CallsIn(buf'[t]) = CallsIn(buf[t])
               /\ pc'[t] \in {"wlock", "try"} =>
                     pc[t] \in {"wlock", "try"} /\ buf'[t] = buf[t] /\ CallsIn(buf[t]) \cap {} = {}
        BY <1>0, <2>1, <3>1 DEF SInv, Mine, Locked
      <4>3. /\ {} \in SUBSET (1..calls') /\ conn' = conn
            /\ calls' \in Nat /\ calls <= calls'
        BY <1>b, <2>1
      <4> QED  BY <4>1, <4>2, <4>3, OthersKeep
    <3>6. Pending' = Pending
      <4>1. Pending = Queued(wq) \o << >>  BY <2>2 DEF Pending
      <4>2. Pending' = Queued(wq') \o << >>  BY <2>1, <2>2, <3>3 DEF Pending, Queued
      <4> QED  BY <3>2, <4>1, <4>2
    <3>7. StreamStep  BY <2>1, <3>6, StreamStutter DEF StreamStep
    <3> QED  BY <3>4, <3>5, <3>7 DEF Rest
  <2>4. CASE Remain(queue_front(wq)) # << >>
    <3>1. /\ wq' = wq /\ mutex' = Free /\ pc' = [pc EXCEPT ![Loop] = "idle"]
      BY <1>5, <2>4 DEF NioWritePop, Goto, Unlock
    <3>2. Held' = Held  BY <1>0, <2>2, <3>1 DEF Held
    <3> QED  BY <1>0, <2>1, <3>1, <3>2, Quiet DEF Locked
  <2> QED  BY <2>3, <2>4
<1> QED  BY <1>1, <1>2, <1>3, <1>4, <1>5


\* hio_write.  A call gets its place in the stream when send() has taken the
\* first of its bytes, or when it finds bytes queued and waits behind them.
LEMMA CallStep ==
    ASSUME SInv, IInv', NEW t \in Threads, hio_write(t) \/ hio_close(t) \/ WriteLock(t)
                                             \/ WriteCb(t) \/ hio_close_async(t) \/ HioAddWrite(t)
    PROVE  Rest' /\ StreamStep
<1> USE HioThreadsAssumption
<1>0. /\ io \in Hios /\ Free \notin Threads /\ DOMAIN pc = Threads /\ DOMAIN buf = Threads
      /\ IInv /\ QueueOK(wq, Bufs) /\ out \in Seq(Byte)
  BY DEF SInv, IInv, TypeOK
<1>a. /\ Queued(wq) \in Seq(Byte) /\ (~io.closed /\ Held = << >> => Pending = Queued(wq))
  BY <1>0, PendingOpen
<1>b. calls \in Nat /\ calls + 1 \in Nat /\ calls <= MaxCalls /\ conn \in Nat
  BY DEF SInv, IInv, TypeOK
<1>1. CASE hio_write(t)
  <2>1. PICK len \in Lens : buf' = [buf EXCEPT ![t] = Bytes(conn, calls + 1, len)]
    BY <1>1 DEF hio_write
  <2>2. /\ UNCHANGED <<io, wq, mutex, conn, out>> /\ calls' = calls + 1
        /\ pc' = [pc EXCEPT ![t] = "wlock"] /\ pc[t] = "idle"
    BY <1>1 DEF hio_write, Goto, sockVars
  <2> DEFINE s == Bytes(conn, calls + 1, len)
  <2>3. s # << >> /\ CallsIn(s) = {calls + 1}  BY <1>b, CallsOfBytes
  <2>4. calls + 1 \in 1..calls' /\ 1..calls \subseteq 1..calls' /\ calls + 1 \notin 1..calls
    BY <1>b, <2>2
  <2>5. buf'[t] = s /\ pc'[t] = "wlock"  BY <1>0, <2>1, <2>2
  <2>6. \A u \in Threads : u # t => pc'[u] = pc[u] /\ buf'[u] = buf[u]  BY <1>0, <2>1, <2>2
  <2>7. \A u \in Threads : pc'[u] \in {"wlock", "try"} =>
           \E c \in 1..calls' : \E l \in Lens : buf'[u] = Bytes(CallConn(u)', c, l)
    <3>1. CallConn(t)' = conn
      <4>1. len \in Nat /\ 1 \in 1..len  OBVIOUS
      <4> DEFINE c == calls + 1
      <4>a. c \in Nat /\ conn \in Nat  BY <1>b
      <4> HIDE DEF c
      <4>b. \A i \in 1..len : Bytes(conn, c, len)[i] = <<conn, c, i>>  BY <4>a, <4>1, BytesType
      <4>2. s[1] = <<conn, calls + 1, 1>>  BY <4>1, <4>b DEF c
      <4> QED  BY <2>5, <4>2 DEF CallConn
    <3>2. buf'[t] = Bytes(CallConn(t)', calls + 1, len)  BY <2>5, <3>1
    <3>3. \A u \in Threads : u # t => CallConn(u)' = CallConn(u)  BY <2>6 DEF CallConn
    <3> QED  BY <2>2, <2>4, <2>5, <2>6, <3>2, <3>3 DEF SInv, Mine
  <2> HIDE DEF s
  <2>8. \A u \in Threads : pc[u] \in Locked \cup {"wlock"} =>
           buf[u] # << >> /\ CallsIn(buf[u]) \subseteq 1..calls
                  /\ \E c \in 1..calls : CallsIn(buf[u]) = {c}
    BY DEF SInv, Mine
  <2>9. \A u \in Threads : pc'[u] \in Locked \cup {"wlock"} =>
           buf'[u] # << >> /\ \E c \in 1..calls' : CallsIn(buf'[u]) = {c}
    BY <2>3, <2>4, <2>5, <2>6, <2>8
  <2>10. \A u, v \in Threads :
            u # v /\ {pc'[u], pc'[v]} \subseteq Locked \cup {"wlock"} =>
               CallsIn(buf'[u]) \cap CallsIn(buf'[v]) = {}
    <3>1. SUFFICES ASSUME NEW u \in Threads, NEW v \in Threads, u # v,
                          {pc'[u], pc'[v]} \subseteq Locked \cup {"wlock"}
                   PROVE  CallsIn(buf'[u]) \cap CallsIn(buf'[v]) = {}
      OBVIOUS
    <3>2. CASE u = t  BY <2>3, <2>4, <2>5, <2>6, <2>8, <3>1, <3>2
    <3>3. CASE v = t  BY <2>3, <2>4, <2>5, <2>6, <2>8, <3>1, <3>3
    <3>4. CASE u # t /\ v # t  BY SMTT(30), <2>6, <3>1, <3>4 DEF SInv, Mine
    <3> QED  BY <3>2, <3>3, <3>4
  <2>11. Mine'  BY <2>7, <2>9, <2>10 DEF Mine, CallsIn
  <2>12. Fresh'
    <3>1. CallsIn(out') \subseteq 1..calls' /\ CallsIn(Queued(wq')) \subseteq 1..calls'
      BY <2>2, <2>4 DEF SInv, Fresh
    <3>2. \A u \in Threads : pc'[u] \in {"wlock", "try"} =>
             /\ CallsIn(buf'[u]) \cap CallsIn(out') = {}
             /\ CallsIn(buf'[u]) \cap CallsIn(Queued(wq')) = {}
      <4>1. TAKE u \in Threads
      <4>2. CASE u = t  BY <2>2, <2>3, <2>4, <2>5, <4>2 DEF SInv, Fresh
      <4>3. CASE u # t  BY <2>2, <2>6, <4>3 DEF SInv, Fresh
      <4> QED  BY <4>2, <4>3
    <3>3. CallsIn(out)' = CallsIn(out') /\ CallsIn(Queued(wq))' = CallsIn(Queued(wq'))
      BY DEF CallsIn, Queued
    <3> QED  BY <3>1, <3>2, <3>3 DEF Fresh
  <2>13. Counted'  BY <2>2 DEF SInv, Counted, Queued
  <2>14. Held' = Held  BY <2>2, <2>5, <2>6 DEF Held, CallConn
  <2>15. Pending' = Pending  BY <2>2, <2>14 DEF Pending, Queued
  <2>16. StreamStep  BY <2>2, <2>15, StreamStutter DEF StreamStep
  <2> QED  BY <2>11, <2>12, <2>13, <2>16 DEF Rest
<1>2. CASE hio_close(t)
  <2>1. \/ pc' = [pc EXCEPT ![t] = "close"]
        \/ pc' = [pc EXCEPT ![t] = "aclose"]
    BY <1>2 DEF hio_close, CallClose, Goto
  <2> QED  BY <1>2, <2>1, QuietStep DEF hio_close, CallClose, Locked, sockVars
<1>3. CASE WriteLock(t)
  <2>1. /\ UNCHANGED <<io, wq, buf, conn, out, calls>> /\ pc[t] = "wlock"
        /\ mutex = Free /\ mutex' = t
    BY <1>3 DEF WriteLock, sockVars, boundVars
  <2>2. pc' = [pc EXCEPT ![t] = IF queue_empty(wq) THEN "try" ELSE "push"]
    BY <1>3 DEF WriteLock, WriteLocked, Goto
  <2>3. Rest' /\ (Held' = Held => StreamStep)  BY <1>0, <2>1, <2>2, Quiet DEF Locked
  <2>4. Held = << >>  BY <1>0, <2>1 DEF Held
  <2>5. CASE queue_empty(wq)
    <3>1. Held' = << >>  BY <1>0, <2>1, <2>2, <2>5 DEF Held
    <3> QED  BY <2>3, <2>4, <3>1
  <2>7. CASE io.closed
    <3>1. Pending' = Pending  BY <2>1, <2>7 DEF Pending
    <3>2. StreamStep  BY <2>1, <3>1, StreamStutter DEF StreamStep
    <3> QED  BY <2>3, <3>2
  <2>8. CASE CallConn(t) # conn
    <3>1. Held' = << >>  BY <1>0, <2>1, <2>8 DEF Held, CallConn
    <3> QED  BY <2>3, <2>4, <3>1
  <2>6. CASE ~queue_empty(wq) /\ ~io.closed /\ CallConn(t) = conn
    <3>1. PICK c \in 1..calls : \E len \in Lens : buf[t] = Bytes(conn, c, len)
      BY <2>1, <2>6 DEF SInv, Mine
    <3>2. PICK len \in Lens : buf[t] = Bytes(conn, c, len)  BY <3>1
    <3>3. ~io.closed  BY <2>6
    <3>4. len \in Nat /\ buf[t] \in Seq(Byte) /\ Len(buf[t]) = len /\ CallsIn(buf[t]) = {c}
      <4>1. len \in Nat /\ c \in Nat  BY <1>b
      <4> QED  BY SMTT(30), <1>b, <3>2, <4>1, BytesType, CallsOfBytes
    <3>5. Pending = Queued(wq) /\ Pending' = Queued(wq) \o buf[t]
      <4>1. Held' = buf[t]  BY <1>0, <2>1, <2>2, <2>6 DEF Held, CallConn
      <4> QED  BY <1>a, <2>1, <2>4, <3>3, <4>1 DEF Pending, Queued
    <3>6. c \notin CallsIn(out \o Pending)
      <4>1. 0 \in 0..Len(out)  BY <1>0
      <4>2. CallsIn(out \o Queued(wq)) = CallsIn(out) \cup CallsIn(Queued(wq))
        BY <1>0, <1>a, <4>1, CallsOf
      <4> QED  BY <2>1, <3>4, <3>5, <4>2 DEF SInv, Fresh
    <3>7. SubSeq(buf[t], 1, 0) = << >> /\ SubSeq(buf[t], 0 + 1, len) = buf[t]  BY <3>4
    <3>8. out' = out \o SubSeq(buf[t], 1, 0) /\ Pending' = Pending \o SubSeq(buf[t], 0 + 1, len)
      <4>1. out \o << >> = out  BY <1>0, ConcatEmptySeq
      <4> QED  BY <2>1, <3>5, <3>7, <4>1
    <3>9. c \in 1..MaxCalls /\ 0 \in 0..len /\ ~(0 > 0)  BY <1>b, <3>4
    <3>10. Stream!Next  BY <2>1, <3>2, <3>3, <3>6, <3>8, <3>9, StreamWrite
    <3> QED  BY <2>3, <3>10 DEF StreamStep
  <2> QED  BY <2>5, <2>6, <2>7, <2>8
<1>4. CASE WriteCb(t)
  <2>1. \/ pc' = [pc EXCEPT ![t] = "close"]
        \/ pc' = [pc EXCEPT ![t] = "aclose"]
        \/ pc' = [pc EXCEPT ![t] = "idle"]
    BY <1>4 DEF WriteCb, CallClose, Goto
  <2> QED  BY <1>4, <2>1, QuietStep DEF WriteCb, Locked, sockVars
<1>5. CASE hio_close_async(t)
  BY <1>5, QuietStep DEF hio_close_async, Goto, Locked, sockVars, boundVars
<1>6. CASE HioAddWrite(t)
  <2>1. /\ UNCHANGED <<wq, mutex, buf, conn, out, calls>> /\ pc[t] = "add"
        /\ pc' = [pc EXCEPT ![t] = "push"] /\ io' = hio_add(io, {"WRITE"})
    BY <1>6 DEF HioAddWrite, WriteAdd, Goto, sockVars, boundVars
  <2>2. ~io.closed /\ io.ready  BY <2>1 DEF SInv, Life, Closing, Threads
  <2>3. Same(io, io')
    <3>1. {"WRITE"} \in SUBSET Events  BY DEF Events
    <3>2. hio_ready(io) = io  BY <1>0, <2>2, HioReady
    <3> QED  BY <1>0, <2>1, <3>1, <3>2, HioAddDel
  <2>4. mutex = t  BY <2>1 DEF SInv, IInv, Control, Locked
  <2>5. Held' = Held  BY <1>0, <2>1, <2>4 DEF Held, CallConn
  <2> QED  BY <1>0, <2>1, <2>3, <2>5, Quiet DEF Same, Locked
<1> QED  BY <1>1, <1>2, <1>3, <1>4, <1>5, <1>6

\* send() in hio_write: what it takes is the start of the call, nothing is
\* before it, and the rest is pending from here on.  A call that the loop's
\* close has overtaken fails, or does harm.
LEMMA TryStep ==
    ASSUME SInv, IInv', ~Harmed', NEW t \in Threads, TryWrite(t)
    PROVE  Rest' /\ StreamStep
<1> USE HioThreadsAssumption
<1>0. /\ io \in Hios /\ Free \notin Threads /\ DOMAIN pc = Threads /\ DOMAIN buf = Threads
      /\ IInv /\ QueueOK(wq, Bufs) /\ out \in Seq(Byte) /\ buf[t] \in Seq(Byte)
  BY DEF SInv, IInv, TypeOK
<1>a. /\ Queued(wq) \in Seq(Byte) /\ (~io.closed /\ Held = << >> => Pending = Queued(wq))
  BY <1>0, PendingOpen
<1>b. calls \in Nat /\ calls <= MaxCalls /\ conn \in Nat
  BY DEF SInv, IInv, TypeOK
<1>1. /\ pc[t] = "try" /\ UNCHANGED <<wq, conn, calls>> /\ mutex = t /\ queue_empty(wq)
  BY DEF TryWrite, boundVars, SInv, IInv, Control, Direct, Locked
<1>2. Held = << >> /\ Queued(wq) = << >>  BY <1>0, <1>1, QueuedType DEF Held
<1>3. PICK n \in SendResults(Len(buf[t])) :
          \/ n = -1 /\ WriteError(t) /\ UNCHANGED <<out, raced>>
          \/ /\ n >= 0
             /\ raced' = RacedBy(io.closed \/ CallConn(t) # conn, "stray")
             /\ out' = out \o SubSeq(buf[t], 1, n)
             /\ buf' = [buf EXCEPT ![t] = SubSeq(@, n + 1, Len(@))]
             /\ IF n = Len(buf[t]) THEN Unlock /\ Goto(t, "cb")
                                   ELSE UNCHANGED mutex /\ Goto(t, "add")
             /\ UNCHANGED <<io, asked>>
  BY DEF TryWrite
<1>4. CASE n = -1
  <2>1. /\ mutex' = Free /\ pc' = [pc EXCEPT ![t] = "aclose"] /\ out' = out
        /\ buf' = [buf EXCEPT ![t] = << >>] /\ io' = [io EXCEPT !.error = TRUE]
    BY <1>3, <1>4 DEF WriteError, Unlock, Goto
  <2>2. Same(io, io')  BY <1>0, <2>1, HioUpdates
  <2>3. Held' = Held  BY <1>0, <1>2, <2>1 DEF Held
  <2> QED  BY <1>0, <1>1, <2>1, <2>2, <2>3, Quiet DEF Same, Locked
<1>5. CASE n # -1
  <2>0. ~io.closed /\ CallConn(t) = conn  BY <1>3, <1>5 DEF RacedBy, Harmed
  <2>1. PICK c \in 1..calls : \E len \in Lens : buf[t] = Bytes(conn, c, len)
    BY <1>1, <2>0 DEF SInv, Mine
  <2>2. PICK len \in Lens : buf[t] = Bytes(conn, c, len)  BY <2>1
  <2> DEFINE s == buf[t]
             r == SubSeq(s, n + 1, Len(s))
  <2>3. /\ len \in Nat /\ len > 0 /\ s \in Seq(Byte) /\ Len(s) = len /\ CallsIn(s) = {c}
    <3>1. len \in Nat /\ len > 0 /\ c \in Nat  BY <1>b
    <3> QED  BY <1>b, <2>2, <3>1, BytesType, CallsOfBytes
  <2>4. n \in 0..Len(s)  BY <1>0, <1>5, <2>3, Sends DEF IInv
  <2>5. /\ out' = out \o SubSeq(s, 1, n) /\ UNCHANGED io /\ buf' = [buf EXCEPT ![t] = r]
        /\ IF n = Len(s) THEN mutex' = Free /\ pc' = [pc EXCEPT ![t] = "cb"]
                         ELSE mutex' = mutex /\ pc' = [pc EXCEPT ![t] = "add"]
    BY <1>3, <1>5 DEF Unlock, Goto
  <2>6. /\ SubSeq(s, 1, n) \in Seq(Byte) /\ r \in Seq(Byte) /\ Len(r) = Len(s) - n
        /\ CallsIn(SubSeq(s, 1, n)) \subseteq {c} /\ CallsIn(r) \subseteq {c}
    <3>1. SubSeq(s, 1, n) \in Seq(Byte)  BY <2>3, <2>4
    <3>2. s \in Seq(Byte) /\ CallsIn(s) = {c} /\ n \in 0..Len(s)  BY <2>3, <2>4
    <3> HIDE DEF s
    <3>3. r \in Seq(Byte) /\ Len(r) = Len(s) - n  BY <3>2, DropType
    <3>4. CallsIn(SubSeq(s, 1, n)) \subseteq CallsIn(s) /\ CallsIn(r) \subseteq CallsIn(s)
      BY <3>2, CallsOf
    <3> QED  BY <3>1, <3>2, <3>3, <3>4
  <2> HIDE DEF s, r
  <2>7. Counted'  BY <1>1, <2>5 DEF SInv, Counted, Queued
  <2>8. pc'[t] = "add" => r # << >> /\ CallsIn(r) = {c}
    <3>1. SUFFICES ASSUME pc'[t] = "add"  PROVE r # << >> /\ CallsIn(r) = {c}
      OBVIOUS
    <3>2. n # Len(s)  BY <1>0, <2>5, <3>1
    <3>3. Len(r) > 0 /\ 0 \in 0..Len(r)  BY <2>3, <2>4, <2>6, <3>2
    <3>4. r # << >>  BY <3>3
    <3>5. CallsIn(r) # {}  BY <2>6, <3>3, <3>4, CallsOf
    <3> QED  BY <2>6, <3>4, <3>5
  <2>9. Mine' /\ Fresh'
    <3>1. calls' \in Nat /\ calls <= calls' /\ {c} \in SUBSET (1..calls')  BY <1>1, <1>b
    <3>2. 0 \in 0..Len(out)  BY <1>0
    <3>3. CallsIn(out \o SubSeq(s, 1, n)) = CallsIn(out) \cup CallsIn(SubSeq(s, 1, n))
      BY <1>0, <2>6, <3>2, CallsOf
    <3>4. /\ CallsIn(out') \subseteq CallsIn(out) \cup CallsIn(Queued(wq)) \cup {c}
          /\ CallsIn(Queued(wq')) \subseteq CallsIn(out) \cup CallsIn(Queued(wq)) \cup {c}
      BY <1>1, <2>5, <2>6, <3>3
    <3>5. pc'[t] \in {"cb", "add"} /\ buf'[t] = r  BY <1>0, <2>5
    <3>6. \A u \in Threads : u # t => pc'[u] = pc[u] /\ buf'[u] = buf[u]  BY <1>0, <2>5
    <3>7. \A u \in Threads : u # t /\ pc[u] \in Locked \cup {"wlock"} => CallsIn(buf[u]) \cap {c} = {}
      BY <1>1, <2>3 DEF SInv, Mine, Locked, s
    <3>8. \A u \in Threads : pc'[u] \in Locked \cup {"wlock"} =>
             /\ pc[u] \in Locked \cup {"wlock"}
             /\ buf'[u] # << >> /\ CallsIn(buf'[u]) = CallsIn(buf[u])
             /\ pc'[u] \in {"wlock", "try"} =>
                   pc[u] \in {"wlock", "try"} /\ buf'[u] = buf[u] /\ CallsIn(buf[u]) \cap {c} = {}
      <4>1. TAKE u \in Threads
      <4>2. CASE u = t  BY <1>1, <2>3, <2>8, <3>5, <4>2 DEF Locked, s
      <4>3. CASE u # t  BY <3>6, <3>7, <4>3 DEF SInv, Mine, Locked
      <4> QED  BY <4>2, <4>3
    <3> QED  BY <1>1, <3>1, <3>4, <3>8, OthersKeep
  <2>10. StreamStep
    <3>1. Pending = << >>  BY <1>1, <1>2, <1>a, <2>0
    <3>2. Pending' = << >> \o r
      <4>1. Pending' = << >> \o Held'  BY <1>1, <1>2, <2>0, <2>5 DEF Pending, Queued
      <4>2. CASE n = Len(s)
        <5>1. Held' = << >>  BY <1>0, <2>5, <4>2 DEF Held
        <5>2. r = << >>
          <6>1. Len(r) = 0  BY <2>3, <2>6, <4>2
          <6> QED  BY <2>6, <6>1
        <5> QED  BY <4>1, <5>1, <5>2
      <4>3. CASE n # Len(s)
        <5>1. n + 1 \in 1..len /\ 1 \in 1..Len(r)  BY <2>3, <2>4, <2>6, <4>3
        <5>2. r[1] = s[n + 1]  BY <2>3, <2>4, <2>6, <5>1 DEF r
        <5>3. s[n + 1] = <<conn, c, n + 1>>
          <6>1. c \in Nat /\ len \in Nat  BY <1>b
          <6>2. \A i \in 1..len : Bytes(conn, c, len)[i] = <<conn, c, i>>  BY <1>b, <6>1, BytesType
          <6> QED  BY <2>2, <5>1, <6>2 DEF s
        <5>4. CallConn(t)' = conn  BY <1>0, <2>5, <5>2, <5>3 DEF CallConn
        <5>5. mutex' = t /\ pc'[t] = "add" /\ buf'[t] = r /\ conn' = conn
          BY <1>0, <1>1, <2>5, <4>3
        <5>6. Held' = r  BY <5>4, <5>5 DEF Held, CallConn
        <5> QED  BY <4>1, <5>6
      <4> QED  BY <4>2, <4>3
    <3>3. c \notin CallsIn(out \o Pending)
      <4>1. out \o << >> = out  BY <1>0, ConcatEmptySeq
      <4> QED  BY <1>1, <2>3, <3>1, <4>1 DEF SInv, Fresh, s
    <3>4. c \in 1..MaxCalls /\ n \in 0..len  BY <1>b, <2>3, <2>4
    <3>5. out' = out \o SubSeq(Bytes(conn, c, len), 1, n)  BY <2>2, <2>5 DEF s
    <3>6. Pending' = Pending \o SubSeq(Bytes(conn, c, len), n + 1, len)
      BY <2>2, <2>3, <3>1, <3>2 DEF s, r
    <3>7. ~io.closed /\ ~io'.closed /\ conn' = conn  BY <1>1, <2>0, <2>5
    <3> QED  BY <1>1, <3>1, <3>3, <3>4, <3>5, <3>6, <3>7, StreamWrite DEF StreamStep
  <2> QED  BY <2>7, <2>9, <2>10 DEF Rest
<1> QED  BY <1>4, <1>5

\* The rest of a call goes into the queue, where it already was in the
\* stream, or is refused.
LEMMA PushStep ==
    ASSUME SInv, IInv', ~Harmed', NEW t \in Threads, Push(t)
    PROVE  Rest' /\ StreamStep
<1> USE HioThreadsAssumption
<1>0. /\ io \in Hios /\ Free \notin Threads /\ DOMAIN pc = Threads /\ DOMAIN buf = Threads
      /\ IInv /\ QueueOK(wq, Bufs) /\ out \in Seq(Byte) /\ buf[t] \in Seq(Byte)
  BY DEF SInv, IInv, TypeOK
<1>a. /\ Queued(wq) \in Seq(Byte) /\ (~io.closed => Pending = Queued(wq) \o Held)
  BY <1>0, PendingOpen
<1>1. /\ pc[t] = "push" /\ UNCHANGED <<conn, calls, out>> /\ mutex = t
  BY DEF Push, sockVars, boundVars, SInv, IInv, Control, Locked
<1>2. Held = IF CallConn(t) = conn THEN buf[t] ELSE << >>  BY <1>1 DEF Held
<1>3. PICK c \in 1..calls : buf[t] # << >> /\ CallsIn(buf[t]) = {c}
  BY <1>1 DEF SInv, Mine, Locked
<1>4. CASE OverLimit(io, Len(buf[t]))
  <2>1. /\ mutex' = Free /\ pc' = [pc EXCEPT ![t] = "aclose"] /\ wq' = wq
        /\ buf' = [buf EXCEPT ![t] = << >>] /\ io' = [io EXCEPT !.error = TRUE]
    BY <1>4 DEF Push, WriteError, Unlock, Goto
  <2>2. Same(io, io')  BY <1>0, <2>1, HioUpdates
  <2>3. Rest' /\ (Held' = Held => StreamStep)
    BY <1>0, <1>1, <2>1, <2>2, Quiet DEF Same, Locked
  <2>4. Held' = << >>  BY <1>0, <2>1 DEF Held
  <2>5. CASE io.closed
    <3>1. Pending' = Pending  BY <2>2, <2>5 DEF Pending, Same
    <3>2. StreamStep  BY <1>1, <2>2, <3>1, StreamStutter DEF StreamStep, Same
    <3> QED  BY <2>3, <3>2
  <2>6. CASE CallConn(t) # conn  BY <1>2, <2>3, <2>4, <2>6
  <2>7. CASE ~io.closed /\ CallConn(t) = conn
    <3>1. Pending' = Queued(wq)
      <4>1. Pending' = Queued(wq) \o << >>  BY <2>1, <2>2, <2>4, <2>7 DEF Pending, Queued, Same
      <4> QED  BY <1>a, <4>1, ConcatEmptySeq
    <3>2. Stream!Next
      BY <1>0, <1>1, <1>2, <1>3, <1>a, <2>2, <2>7, <3>1, StreamRefuse DEF Same
    <3> QED  BY <2>3, <3>2 DEF StreamStep
  <2> QED  BY <2>5, <2>6, <2>7
<1>5. CASE ~OverLimit(io, Len(buf[t]))
  <2>1. /\ wq' = write_queue_push(wq, buf[t]) /\ mutex' = Free
        /\ io' = [io EXCEPT !.write_bufsize = io.write_bufsize + Len(buf[t])]
        /\ buf' = [buf EXCEPT ![t] = << >>]
        /\ (pc' = [pc EXCEPT ![t] = "cb"] \/ pc' = [pc EXCEPT ![t] = "idle"])
        /\ CallConn(t) = conn
    BY <1>5 DEF Push, Unlock, Goto, RacedBy, Harmed
  <2>2. /\ Len(buf[t]) \in Nat /\ io.write_bufsize \in Int /\ io.write_bufsize + Len(buf[t]) \in Int
        /\ io.write_bufsize + Len(buf[t]) <= MaxWriteBufsize
    BY <1>0, <1>5 DEF Hios, OverLimit
  <2>3. io'.closed = io.closed /\ io'.write_bufsize = io.write_bufsize + Len(buf[t])
    BY <1>0, <2>1, <2>2, HioUpdates
  <2>4. Queued(wq') = Queued(wq) \o buf[t] /\ QueueOK(wq', Bufs)  BY <1>0, <2>1, QueuedPush
  <2>5. /\ Queued(wq) \o buf[t] \in Seq(Byte)
        /\ Len(Queued(wq) \o buf[t]) = Len(Queued(wq)) + Len(buf[t])
    BY <1>0, <1>a, ConcatProperties
  <2>6. Counted'
    <3>1. SUFFICES ASSUME ~io'.closed
                   PROVE  /\ io'.write_bufsize = Len(Queued(wq'))
                          /\ io'.write_bufsize <= MaxWriteBufsize
      BY DEF Counted, Queued
    <3>2. io.write_bufsize = Len(Queued(wq))  BY <2>3, <3>1 DEF SInv, Counted
    <3> QED  BY <2>2, <2>3, <2>4, <2>5, <3>2
  <2>7. Mine' /\ Fresh'
    <3>1. calls' \in Nat /\ calls <= calls' /\ {c} \in SUBSET (1..calls')
      BY <1>1 DEF SInv, IInv, TypeOK
    <3>2. 0 \in 0..Len(Queued(wq))  BY <1>a
    <3>3. CallsIn(Queued(wq) \o buf[t]) = CallsIn(Queued(wq)) \cup {c}
      BY <1>0, <1>3, <1>a, <3>2, CallsOf
    <3>4. /\ CallsIn(out') \subseteq CallsIn(out) \cup CallsIn(Queued(wq)) \cup {c}
          /\ CallsIn(Queued(wq')) \subseteq CallsIn(out) \cup CallsIn(Queued(wq)) \cup {c}
      BY <1>1, <2>4, <3>3
    <3>5. \A u \in Threads : u # t /\ pc[u] \in Locked \cup {"wlock"} => CallsIn(buf[u]) \cap {c} = {}
      BY <1>1, <1>3 DEF SInv, Mine, Locked
    <3>6. pc'[t] \in {"cb", "idle"} /\ \A u \in Threads : u # t => pc'[u] = pc[u] /\ buf'[u] = buf[u]
      BY <1>0, <2>1
    <3>7. \A u \in Threads : pc'[u] \in Locked \cup {"wlock"} =>
             /\ pc[u] \in Locked \cup {"wlock"}
             /\ buf'[u] # << >> /\ CallsIn(buf'[u]) = CallsIn(buf[u])
             /\ pc'[u] \in {"wlock", "try"} =>
                   pc[u] \in {"wlock", "try"} /\ buf'[u] = buf[u] /\ CallsIn(buf[u]) \cap {c} = {}
      <4>1. TAKE u \in Threads
      <4>2. CASE u = t  BY <3>6, <4>2 DEF Locked
      <4>3. CASE u # t  BY <3>5, <3>6, <4>3 DEF SInv, Mine, Locked
      <4> QED  BY <4>2, <4>3
    <3> QED  BY <1>1, <3>1, <3>4, <3>7, OthersKeep
  <2>8. Pending' = Pending
    <3>1. Held' = << >>  BY <1>0, <2>1 DEF Held
    <3>2. CASE io.closed  BY <2>3, <3>2 DEF Pending
    <3>3. CASE ~io.closed
      <4>1. Pending' = Queued(wq') \o << >>  BY <2>3, <3>1, <3>3 DEF Pending, Queued
      <4>2. Pending = Queued(wq) \o buf[t]  BY <1>2, <1>a, <2>1, <3>3
      <4> QED  BY <2>4, <2>5, <4>1, <4>2, ConcatEmptySeq
    <3> QED  BY <3>2, <3>3
  <2>9. StreamStep  BY <1>1, <2>3, <2>8, StreamStutter DEF StreamStep
  <2> QED  BY <2>6, <2>7, <2>9 DEF Rest
<1> QED  BY <1>4, <1>5

\* The next connection gets a clean hio_t.
LEMMA AcceptStep ==
    ASSUME SInv, IInv', Accept
    PROVE  Rest' /\ StreamStep
<1> USE HioThreadsAssumption
<1>0. io \in Hios /\ QueueOK(wq, Bufs)  BY DEF SInv, IInv, TypeOK
<1>1. /\ UNCHANGED <<wq, mutex, pc, buf, calls>> /\ conn < MaxConns /\ conn' = conn + 1 /\ out' = << >>
      /\ io.closed /\ ~io.ready /\ queue_empty(wq)
  BY DEF Accept, boundVars, SInv, Life, Closing
<1>2. ~io'.closed /\ io'.write_bufsize = 0
  <2>1. /\ hio_ready(io) \in Hios /\ ~hio_ready(io).closed /\ hio_ready(io).ready
        /\ hio_ready(io).write_bufsize = 0
    BY <1>0, <1>1, HioReady
  <2>2. io' = hio_add(hio_ready(io), {"READ"})  BY <2>1 DEF Accept
  <2>3. {"READ"} \in SUBSET Events  BY DEF Events
  <2>4. hio_ready(hio_ready(io)) = hio_ready(io)  BY <2>1, HioReady
  <2>5. Same(hio_ready(io), io')  BY <2>1, <2>2, <2>3, <2>4, HioAddDel
  <2> QED  BY <2>1, <2>5 DEF Same
<1>3. Queued(wq') = << >>  BY <1>0, <1>1, QueuedType
<1>4. \A t \in Threads : pc'[t] = pc[t] /\ buf'[t] = buf[t] /\ pc[t] \notin {"add", "push"}
  BY <1>1 DEF SInv, Life, Closing, Threads, Accept
<1>5. CallsIn(<< >>) = {}  BY DEF CallsIn
<1>6. Counted'
  <2>1. Len(<< >>) = 0 /\ 0 <= MaxWriteBufsize  OBVIOUS
  <2> QED  BY <1>2, <1>3, <2>1 DEF Counted, Queued
<1>7. Mine'  BY <1>1 DEF SInv, Mine, CallConn
<1>8. Fresh'
  <2>1. CallsIn(out)' = CallsIn(out') /\ CallsIn(Queued(wq))' = CallsIn(Queued(wq'))
    BY DEF CallsIn, Queued
  <2> QED  BY <1>1, <1>3, <1>4, <1>5, <2>1 DEF Fresh
<1>9. Held' = << >>  BY <1>4 DEF Held
<1>10. Pending' = << >>
  <2>1. Pending' = << >> \o << >>  BY <1>2, <1>3, <1>9 DEF Pending, Queued
  <2>2. << >> \o << >> = << >>  OBVIOUS
  <2> QED  BY <2>1, <2>2
<1>11. StreamStep  BY <1>1, <1>2, <1>10, StreamOpen DEF StreamStep
<1> QED  BY <1>6, <1>7, <1>8, <1>11 DEF Rest


\* Only the holder of the mutex changes the queue, and it is not at try
\* when it does; a call goes to try only with an empty queue.
LEMMA NextDirect ==
    ASSUME SInv, IInv', [Next]_vars
    PROVE  Direct'
<1>0. /\ Loop \in Threads /\ DOMAIN pc = Threads /\ Free \notin Threads
      /\ ret \in {"idle", "npop"}
  BY HioThreadsAssumption DEF SInv, IInv, TypeOK, Threads
<1>1. \A t \in Threads : pc'[t] = "try" => mutex' = t  BY DEF IInv, Control, Locked
<1>2. ASSUME wq' = wq, NEW t \in Threads, NEW l, pc' = [pc EXCEPT ![t] = l], l # "try"
      PROVE  Direct'
  BY <1>0, <1>2 DEF SInv, Direct, queue_empty
<1>3. ASSUME wq' = wq, pc' = pc  PROVE Direct'
  BY <1>3 DEF SInv, Direct, queue_empty
<1>4. ASSUME mutex' = Free  PROVE Direct'  BY <1>0, <1>1, <1>4 DEF Direct
<1>5. ASSUME mutex' = Loop, NEW l, pc' = [pc EXCEPT ![Loop] = l], l # "try"  PROVE Direct'
  BY <1>0, <1>1, <1>5 DEF Direct
<1>6. ASSUME NEW t \in Threads, hio_write(t) \/ hio_close(t) \/ WriteStep(t)  PROVE Direct'
  <2>1. CASE hio_write(t)
    BY <1>2, <2>1 DEF hio_write, Goto
  <2>2. CASE hio_close(t) \/ WriteCb(t)
    <3>1. /\ wq' = wq /\ \/ pc' = [pc EXCEPT ![t] = "idle"] \/ pc' = [pc EXCEPT ![t] = "close"]
                         \/ pc' = [pc EXCEPT ![t] = "aclose"]
      BY <2>2 DEF hio_close, WriteCb, CallClose, Goto
    <3> QED  BY <1>2, <3>1
  <2>3. CASE WriteLock(t)
    <3>1. wq' = wq /\ pc' = [pc EXCEPT ![t] = IF queue_empty(wq) THEN "try" ELSE "push"]
      BY <2>3 DEF WriteLock, WriteLocked, Goto
    <3> QED  BY <1>0, <3>1 DEF SInv, Direct, queue_empty
  <2>4. CASE TryWrite(t)
    <3>1. wq' = wq /\ \/ pc' = [pc EXCEPT ![t] = "aclose"] \/ pc' = [pc EXCEPT ![t] = "cb"]
                      \/ pc' = [pc EXCEPT ![t] = "add"]
      BY <2>4 DEF TryWrite, WriteError, Goto
    <3> QED  BY <1>2, <3>1
  <2>5. CASE HioAddWrite(t)  BY <1>2, <2>5 DEF HioAddWrite, Goto
  <2>6. CASE Push(t)  BY <1>4, <2>6 DEF Push, WriteError, Unlock
  <2>7. CASE hio_close_async(t)  BY <1>2, <2>7 DEF hio_close_async, Goto
  <2> QED  BY <1>6, <2>1, <2>2, <2>3, <2>4, <2>5, <2>6, <2>7 DEF WriteStep
<1>7. CASE Close \/ HioDone \/ CloseCb \/ CloseSocket
  <2>1. wq' = wq /\ \/ pc' = [pc EXCEPT ![Loop] = ret] \/ pc' = [pc EXCEPT ![Loop] = "done"]
                    \/ pc' = [pc EXCEPT ![Loop] = "free"] \/ pc' = [pc EXCEPT ![Loop] = "closesocket"]
    BY <1>7 DEF Close, HioDone, CloseCb, CloseSocket, Goto
  <2> QED  BY <1>0, <1>2, <2>1
<1>8. CASE HioDoneQueue
  <2>1. queue_empty(wq')
    BY <1>8 DEF HioDoneQueue, FreedQueue, queue_cleanup, queue_init, queue_empty
  <2> QED  BY <2>1 DEF Direct, queue_empty
<1>9. CASE StoreInterest \/ CustomEvent \/ CloseTimeout \/ ReadInterest \/ HandleEvents
             \/ NioWriteLock \/ NioWriteCb \/ NioWriteCbClose
  <2>1. wq' = wq /\ \/ pc' = [pc EXCEPT ![Loop] = "idle"] \/ pc' = [pc EXCEPT ![Loop] = "close"]
                    \/ pc' = [pc EXCEPT ![Loop] = "store"] \/ pc' = [pc EXCEPT ![Loop] = "nlock"]
                    \/ pc' = [pc EXCEPT ![Loop] = "nwrite"] \/ pc' = [pc EXCEPT ![Loop] = "npop"]
    BY <1>9 DEF StoreInterest, CustomEvent, CloseTimeout, ReadInterest, HandleEvents,
                NioWriteLock, NioWriteCb, NioWriteCbClose, CallClose, Goto
  <2> QED  BY <1>0, <1>2, <2>1
<1>10. CASE NioWriteEmpty \/ NioWriteSend \/ NioWriteCbWrite \/ NioWritePop
  <2>1. mutex = Loop  BY <1>10 DEF NioWriteEmpty, NioWriteSend, NioWriteCbWrite, NioWritePop,
                                   SInv, IInv, Control
  <2>2. \/ mutex' = Free
        \/ mutex' = mutex /\ \/ pc' = [pc EXCEPT ![Loop] = "nwrite_cb"]
                             \/ pc' = [pc EXCEPT ![Loop] = "npop"]
                             \/ pc' = [pc EXCEPT ![Loop] = "nwrite"]
    BY <1>10 DEF NioWriteEmpty, NioWriteSend, NioWriteCbWrite, NioWritePop, Unlock, Goto
  <2> QED  BY <1>4, <1>5, <2>1, <2>2
<1>11. CASE Accept \/ PeerRead \/ PeerReset \/ UNCHANGED vars
  BY <1>3, <1>11 DEF Accept, PeerRead, PeerReset, vars
<1>12. CASE NioWriteFreed  BY <1>12 DEF SInv, IInv, Control, NioWriteFreed
<1> QED  BY <1>6, <1>7, <1>8, <1>9, <1>10, <1>11, <1>12 DEF Next, LoopStep

\* Every step keeps the invariant and is a step of HioStream.
LEMMA NextSInv ==
    ASSUME SInv, ~Harmed', [Next]_vars
    PROVE  SInv' /\ StreamStep
<1>1. IInv'  BY NextControl DEF SInv, IInv, KeepsControl, Harmed
<1>2. Life'  BY NextLife DEF SInv
<1>3. Direct'  BY <1>1, NextDirect
<1>4. Rest' /\ StreamStep
  <2>1. CASE \E t \in Threads : hio_write(t) \/ hio_close(t) \/ WriteStep(t)
    BY <1>1, <2>1, CallStep, TryStep, PushStep DEF WriteStep
  <2>2. CASE LoopStep
    <3>1. CASE NioWriteFreed  BY <3>1 DEF SInv, IInv, Control, NioWriteFreed
    <3> QED  BY <1>1, <2>2, <3>1, CloseStep, EventStep, NioStep DEF LoopStep
  <2>3. CASE CustomEvent \/ CloseTimeout \/ ReadInterest \/ HandleEvents \/ Accept
    BY <1>1, <2>3, EventStep, AcceptStep
  <2>4. CASE PeerRead \/ PeerReset \/ UNCHANGED vars  BY <2>4, PeerStep
  <2> QED  BY <2>1, <2>2, <2>3, <2>4 DEF Next
<1> QED  BY <1>1, <1>2, <1>3, <1>4 DEF SInv, Rest

LEMMA InitSInv == Init => SInv /\ Stream!Init
<1> SUFFICES ASSUME Init  PROVE SInv /\ Stream!Init
  OBVIOUS
<1>1. IInv /\ Life  BY InitIInv, InitLife
<1>2. io.closed
  <2>1. Loop \in Threads /\ fd = "closed"  BY DEF Threads, Init
  <2> QED  BY <1>1, <2>1 DEF Life
<1>3. \A t \in Threads : pc[t] = "idle"  BY DEF Init
<1>4. Queued(wq) = << >>
  <2>1. queue_empty(wq)  BY DEF Init, queue_cleanup, queue_init, queue_empty
  <2>2. QueueOK(wq, Bufs)  BY <1>1 DEF IInv, TypeOK
  <2> QED  BY <2>1, <2>2, QueuedType
<1>5. CallsIn(<< >>) = {}  BY DEF CallsIn
<1>6. out = << >>  BY DEF Init
<1>7. Direct /\ Mine  BY <1>3 DEF Direct, Mine, Locked
<1>8. Fresh  BY <1>3, <1>4, <1>5, <1>6 DEF Fresh
<1>9. Counted  BY <1>2 DEF Counted
<1>10. Stream!Init
  <2>1. Pending = << >>  BY <1>2 DEF Pending
  <2> QED  BY <1>2, <1>6, <2>1 DEF Stream!Init, Init
<1> QED  BY <1>1, <1>7, <1>8, <1>9, <1>10 DEF SInv

LEMMA NextInv ==
    ASSUME Inv, [Next]_vars
    PROVE  Inv' /\ (Harmed' \/ StreamStep)
<1>1. raced \subseteq raced'  BY RacedGrows
<1>2. TypeOK' /\ KeepsControl  BY NextControl DEF Inv
<1>3. "close_in_cb" \notin raced' => Control'  BY <1>1, <1>2 DEF Inv, KeepsControl
<1>4. ~Harmed' => SInv' /\ StreamStep
  <2>1. ~Harmed' => ~Harmed  BY <1>1 DEF Harmed
  <2> QED  BY <2>1, NextSInv DEF Inv
<1> QED  BY <1>2, <1>3, <1>4 DEF Inv

LEMMA AlwaysInv == Spec => []Inv
<1>1. Init => Inv  BY InitSInv DEF Inv, SInv, IInv
<1> QED  BY <1>1, NextInv, PTL DEF Spec

\* TypeOK: the flags, the queue's array, the callers' bytes and the program
\* counters stay in their types, whatever the threads do.
THEOREM TypeCorrect == Spec => []TypeOK
<1>1. Inv => TypeOK  BY DEF Inv
<1> QED  BY <1>1, AlwaysInv, PTL

\* FrontAlive, for every number of threads and however closes overtake them:
\* the queue stays inside its array, and when nio_write frees and pops the
\* front buffer after write_cb the buffer is in the queue, unless write_cb
\* called a hio_close that was not put off.
THEOREM FrontIsAlive == Spec => []FrontAlive
<1>1. Inv => FrontAlive  BY DEF Inv, TypeOK, Control, FrontAlive, FrontStays
<1> QED  BY <1>1, AlwaysInv, PTL

\* BufExact, for every number of threads and every limit, and with closes at
\* any moment: outside the mutex write_bufsize is the number of bytes queued,
\* and within the limit that hio_write checks, until a race has done harm.
THEOREM BufIsExact == Spec => []BufExact
<1>1. Inv => BufExact  BY DEF Inv, SInv, Counted, BufExact
<1> QED  BY <1>1, AlwaysInv, PTL

\* StreamSpec: the mutex, the queue, the partial sends and the flags of one
\* hio_t implement one ordered stream of whole calls for each connection,
\* with closes at any moment of a call, up to the step in which an overtaken
\* call's bytes get out or write_cb frees the queue.
THEOREM StreamImplemented == Spec => StreamSpec
<1>1. Init => Stream!Init  BY InitSInv
<1>2. Inv /\ [Next]_vars => [Stream!Next \/ Harmed']_(Stream!vars)
  BY NextInv DEF StreamStep
<1> QED  BY <1>1, <1>2, AlwaysInv, PTL DEF Spec, StreamSpec

=============================================================================

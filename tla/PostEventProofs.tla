--------------------------- MODULE PostEventProofs ---------------------------
(***************************************************************************)
(* Invariants of hloop_post_event and eventfd_read_cb for any threads: the *)
(* mutex covers the write to the eventfd and the push, so the units in the *)
(* eventfd and the events in the queue agree, and no event is run twice or *)
(* out of order.                                                           *)
(***************************************************************************)
EXTENDS PostEvent, SequenceTheorems, TLAPS

\* The thread between hmutex_lock and hmutex_unlock of hloop_post_event is
\* the holder of the mutex.
MutexHeld ==
    \A t \in Threads : (pc[t] = "write" \/ pc[t] = "push") <=> mutex = t

\* Outside eventfd_read_cb no count of an earlier read is left.
Drained == lpc \notin {"eventfd_read_cb", "cb"} => remaining = 0

\* TokensMatch is inductive only with MutexHeld, which makes the post in
\* flight unique, with Drained, and with the types.
IInv == TypeOK /\ MutexHeld /\ Drained /\ TokensMatch /\ RunInOrder

-----------------------------------------------------------------------------
(* Sequences.                                                              *)

\* Pushing on a queue appends to the whole history.
LEMMA PushHistory ==
  \A r, q \in Seq(Event), e \in Event : Append(r \o q, e) = r \o Append(q, e)
<1> SUFFICES ASSUME NEW r \in Seq(Event), NEW q \in Seq(Event), NEW e \in Event
             PROVE  Append(r \o q, e) = r \o Append(q, e)
  OBVIOUS
<1>1. r \o q \in Seq(Event) /\ <<e>> \in Seq(Event)
  OBVIOUS
<1>2. Append(r \o q, e) = (r \o q) \o <<e>>
  BY <1>1, AppendIsConcat
<1>3. Append(q, e) = q \o <<e>>
  BY AppendIsConcat
<1> QED
  BY <1>1, <1>2, <1>3, ConcatAssociative

\* Popping moves one element from the queue to the events that have run.
LEMMA PopHistory ==
  ASSUME NEW S, NEW r \in Seq(S), NEW q \in Seq(S), q # << >>
  PROVE  r \o q = Append(r, Head(q)) \o Tail(q)
<1>1. Head(q) \in S /\ Tail(q) \in Seq(S) /\ <<Head(q)>> \in Seq(S)
  BY HeadTailProperties
<1>2. Append(r, Head(q)) = r \o <<Head(q)>>
  BY <1>1, AppendIsConcat
<1>3. q = <<Head(q)>> \o Tail(q)
  <2>1. Len(q) \in Nat \ {0} /\ q \in [1..Len(q) -> S]
    BY EmptySeq, LenProperties
  <2>2. Len(Tail(q)) = Len(q) - 1 /\ \A i \in 1..Len(Tail(q)) : Tail(q)[i] = q[i + 1]
    BY HeadTailProperties
  <2>3. Head(q) = q[1]
    OBVIOUS
  <2> DEFINE p == <<Head(q)>> \o Tail(q)
  <2>4. p \in Seq(S) /\ Len(p) = Len(q)
    BY <1>1, <2>1, <2>2, ConcatProperties
  <2>5. \A i \in 1..Len(q) : p[i] = q[i]
    BY <1>1, <2>1, <2>2, <2>3, ConcatProperties
  <2> QED
    BY <2>4, <2>5, SeqEqual
<1> QED
  BY <1>1, <1>2, <1>3, ConcatAssociative

-----------------------------------------------------------------------------
(* Steps that touch neither the queue nor the eventfd, and that do not     *)
(* enter or leave the critical section of hloop_post_event.                *)

LEMMA Quiet ==
  ASSUME TypeOK, MutexHeld, TokensMatch, RunInOrder, TypeOK', Drained',
         UNCHANGED <<remaining, efd, mutex, queue, posted, ran>>,
         \A t \in Threads :
            /\ (pc'[t] = "write") <=> (pc[t] = "write")
            /\ (pc'[t] = "push") <=> (pc[t] = "push")
  PROVE  IInv'
<1>1. MutexHeld'
  BY DEF MutexHeld
<1>2. InFlight' = InFlight
  BY DEF InFlight
<1>3. TokensMatch'
  BY <1>2 DEF TokensMatch
<1> QED
  BY <1>1, <1>3 DEF IInv, RunInOrder

\* The whole state but the loop's own variables is unchanged.
LEMMA QuietLoop ==
  ASSUME IInv, TypeOK', Drained',
         UNCHANGED <<remaining, efd, mutex, queue, posted, ran, pc>>
  PROVE  IInv'
  BY Quiet DEF IInv

\* A thread goes from one label outside the critical section to another.
LEMMA QuietGoto ==
  ASSUME IInv, NEW t \in Threads, NEW l \in Labels, TypeOK',
         pc[t] \notin {"write", "push"}, l \notin {"write", "push"}, Goto(t, l),
         UNCHANGED <<lpc, remaining, efd, mutex, queue, posted, ran>>
  PROVE  IInv'
<1>1. pc \in [Threads -> Labels]
  BY DEF IInv, TypeOK
<1>2. \A u \in Threads : /\ (pc'[u] = "write") <=> (pc[u] = "write")
                         /\ (pc'[u] = "push") <=> (pc[u] = "push")
  BY <1>1 DEF Goto
<1>3. Drained'
  BY DEF IInv, Drained
<1> QED
  BY <1>2, <1>3, Quiet DEF IInv

\* Goto keeps the types of the program counters.
LEMMA GotoType ==
  ASSUME pc \in [Threads -> Labels], NEW t, NEW l \in Labels, Goto(t, l)
  PROVE  pc' \in [Threads -> Labels]
  BY DEF Goto

-----------------------------------------------------------------------------
(* The initial state.                                                      *)

LEMMA InitIInv == Init => IInv
<1> SUFFICES ASSUME Init PROVE IInv
  OBVIOUS
<1>1. << >> \in Seq(Event)
  OBVIOUS
<1>2. TypeOK
  BY <1>1 DEF Init, TypeOK, LoopLabels, Labels
<1>3. \A t \in Threads : pc[t] = "idle" /\ mutex # t
  BY PostEventAssumption DEF Init, Threads
<1>4. MutexHeld
  BY <1>3 DEF MutexHeld
<1>5. InFlight = 0
  BY <1>3 DEF InFlight
<1>6. Len(queue) = 0
  BY DEF Init
<1>7. TokensMatch
  BY <1>5, <1>6 DEF TokensMatch, Init
<1>8. RunInOrder
  BY DEF Init, RunInOrder
<1>9. Drained
  BY DEF Init, Drained
<1> QED
  BY <1>2, <1>4, <1>7, <1>8, <1>9 DEF IInv

-----------------------------------------------------------------------------
(* hloop_post_event.                                                       *)

LEMMA BeginIInv ==
  ASSUME IInv, NEW t \in Threads, PostBegin(t) PROVE IInv'
<1>1. "lock" \in Labels
  BY DEF Labels
<1>2. pc' \in [Threads -> Labels]
  BY <1>1, GotoType DEF PostBegin, IInv, TypeOK
<1>3. TypeOK'
  BY <1>2 DEF PostBegin, IInv, TypeOK, history
<1> QED
  BY <1>1, <1>3, QuietGoto DEF PostBegin, history

LEMMA LockIInv ==
  ASSUME IInv, NEW t \in Threads, PostLock(t) PROVE IInv'
<1>1. pc[t] = "lock" /\ mutex = None /\ pc \in [Threads -> Labels]
  BY DEF PostLock, IInv, TypeOK
<1>2. {"write", "posted"} \subseteq Labels
  BY DEF Labels
<1>3. UNCHANGED <<status, lpc, ready, remaining, efd, queue, posts, posted, ran,
                  accepted>>
  BY DEF PostLock, history
<1>4. efdOpen' \in BOOLEAN /\ mutex' \in {t, None}
  BY DEF PostLock
<1>5. TypeOK'
  <2>1. pc' \in [Threads -> Labels]
    BY <1>1, <1>2 DEF PostLock, Goto
  <2> QED
    BY <1>3, <1>4, <2>1 DEF IInv, TypeOK
<1>6. CASE mutex' = None /\ Goto(t, "posted")
  BY <1>1, <1>2, <1>3, <1>5, <1>6, QuietGoto
<1>7. CASE mutex' = t /\ Goto(t, "write")
  <2>1. \A u \in Threads : pc'[u] = IF u = t THEN "write" ELSE pc[u]
    BY <1>1, <1>7 DEF Goto
  <2>2. \A u \in Threads : pc[u] # "write" /\ pc[u] # "push"
    BY <1>1, PostEventAssumption DEF IInv, MutexHeld
  <2>3. MutexHeld'
    BY <1>7, <2>1, <2>2 DEF MutexHeld
  <2>4. InFlight = 0 /\ InFlight' = 0
    BY <2>1, <2>2 DEF InFlight
  <2>5. TokensMatch'
    BY <1>3, <2>4 DEF IInv, TokensMatch
  <2> QED
    BY <1>3, <1>5, <2>3, <2>5 DEF IInv, RunInOrder, Drained
<1> QED
  BY <1>6, <1>7 DEF PostLock

\* In the critical section nobody else is in it.
LEMMA Alone ==
  ASSUME IInv, NEW t \in Threads, pc[t] = "write" \/ pc[t] = "push"
  PROVE  /\ mutex = t
         /\ \A u \in Threads : u # t => pc[u] # "write" /\ pc[u] # "push"
  BY DEF IInv, MutexHeld

LEMMA WriteIInv ==
  ASSUME IInv, NEW t \in Threads, PostWrite(t) PROVE IInv'
<1>1. pc[t] = "write" /\ mutex = t /\ pc \in [Threads -> Labels]
  BY Alone DEF PostWrite, IInv, TypeOK
<1>2. \A u \in Threads : u # t => pc[u] # "write" /\ pc[u] # "push"
  BY <1>1, Alone
<1>3. {"push", "posted"} \subseteq Labels
  BY DEF Labels
<1>4. UNCHANGED <<status, lpc, ready, remaining, efdOpen, queue, posts, posted,
                  ran, accepted>>
  BY DEF PostWrite, history
<1>5. efd \in Nat /\ remaining \in Nat /\ queue \in Seq(Event) /\ Len(queue) \in Nat
  BY DEF IInv, TypeOK
<1>6. InFlight = 0
  BY <1>1, <1>2 DEF InFlight
<1>7. efd + remaining = Len(queue)
  BY <1>5, <1>6 DEF IInv, TokensMatch
<1>8. CASE efd' = efd + 1 /\ Goto(t, "push") /\ mutex' = mutex
  <2>1. \A u \in Threads : pc'[u] = IF u = t THEN "push" ELSE pc[u]
    BY <1>1, <1>8 DEF Goto
  <2>2. pc' \in [Threads -> Labels]
    BY <1>1, <1>3, <1>8, GotoType
  <2>3. TypeOK'
    BY <1>4, <1>5, <1>8, <2>2 DEF IInv, TypeOK
  <2>4. MutexHeld'
    BY <1>1, <1>2, <1>8, <2>1 DEF MutexHeld
  <2>5. InFlight' = 1
    BY <2>1 DEF InFlight
  <2>6. TokensMatch'
    BY <1>4, <1>5, <1>7, <1>8, <2>5 DEF TokensMatch
  <2> QED
    BY <1>4, <2>3, <2>4, <2>6 DEF IInv, RunInOrder, Drained
<1>9. CASE mutex' = None /\ Goto(t, "posted") /\ efd' = efd
  <2>1. \A u \in Threads : pc'[u] = IF u = t THEN "posted" ELSE pc[u]
    BY <1>1, <1>9 DEF Goto
  <2>2. pc' \in [Threads -> Labels]
    BY <1>1, <1>3, <1>9, GotoType
  <2>3. TypeOK'
    BY <1>4, <1>9, <2>2 DEF IInv, TypeOK
  <2>4. \A u \in Threads : pc'[u] # "write" /\ pc'[u] # "push" /\ u # None
    BY <1>2, <2>1, PostEventAssumption
  <2>5. MutexHeld'
    BY <1>9, <2>4 DEF MutexHeld
  <2>6. InFlight' = 0
    BY <2>4 DEF InFlight
  <2>7. TokensMatch'
    BY <1>4, <1>5, <1>7, <1>9, <2>6 DEF TokensMatch
  <2> QED
    BY <1>4, <2>3, <2>5, <2>7 DEF IInv, RunInOrder, Drained
<1> QED
  BY <1>8, <1>9 DEF PostWrite

LEMMA PushIInv ==
  ASSUME IInv, NEW t \in Threads, PostPush(t) PROVE IInv'
<1> DEFINE new == <<t, posts[t] + 1>>
<1>a. new \in Event
  BY DEF IInv, TypeOK, Event
<1>0. PICK e \in Event : e = new
  BY <1>a
<1>1. pc[t] = "push" /\ mutex = t /\ pc \in [Threads -> Labels]
  BY Alone DEF PostPush, IInv, TypeOK
<1>2. \A u \in Threads : u # t => pc[u] # "write" /\ pc[u] # "push"
  BY <1>1, Alone
<1>3. "posted" \in Labels
  BY DEF Labels
<1>4. UNCHANGED <<status, lpc, ready, remaining, efdOpen, efd, posts, ran, accepted>>
  BY DEF PostPush
<1>5. /\ queue' = Append(queue, e) /\ posted' = Append(posted, e)
      /\ mutex' = None /\ Goto(t, "posted")
  BY <1>0 DEF PostPush
<1>6. /\ efd \in Nat /\ remaining \in Nat /\ queue \in Seq(Event)
      /\ posted \in Seq(Event) /\ ran \in Seq(Event) /\ Len(queue) \in Nat
  BY DEF IInv, TypeOK
<1>8. \A u \in Threads : pc'[u] = IF u = t THEN "posted" ELSE pc[u]
  BY <1>1, <1>5 DEF Goto
<1>9. pc' \in [Threads -> Labels]
  BY <1>1, <1>3, <1>5, GotoType
<1>10. queue' \in Seq(Event) /\ posted' \in Seq(Event) /\ Len(queue') = Len(queue) + 1
  BY <1>5, <1>6, AppendProperties
<1>11. TypeOK'
  BY <1>4, <1>5, <1>9, <1>10 DEF IInv, TypeOK
<1>12. \A u \in Threads : pc'[u] # "write" /\ pc'[u] # "push" /\ u # None
  BY <1>2, <1>8, PostEventAssumption
<1>13. MutexHeld'
  BY <1>5, <1>12 DEF MutexHeld
<1>14. InFlight = 1 /\ InFlight' = 0
  BY <1>1, <1>12 DEF InFlight
<1>15. TokensMatch'
  BY <1>4, <1>6, <1>10, <1>14 DEF IInv, TokensMatch
<1>16. posted = ran \o queue
  BY DEF IInv, RunInOrder
<1>17. RunInOrder'
  <2>1. Append(posted, e) = ran \o Append(queue, e)
    <3>1. posted \in Seq(Event) /\ ran \in Seq(Event) /\ queue \in Seq(Event)
      BY <1>6
    <3>2. e \in Event
      BY <1>0
    <3>3. Append(ran \o queue, e) = ran \o Append(queue, e)
      BY <3>1, <3>2, PushHistory
    <3> QED
      BY <1>16, <3>3
  <2>2. ran' = ran /\ queue' = Append(queue, e) /\ posted' = Append(posted, e)
    BY <1>4, <1>5
  <2> QED
    BY <2>1, <2>2 DEF RunInOrder
<1> QED
  BY <1>4, <1>11, <1>13, <1>15, <1>17 DEF IInv, Drained

LEMMA ReturnIInv ==
  ASSUME IInv, NEW t \in Threads, PostReturn(t) PROVE IInv'
<1>1. "idle" \in Labels
  BY DEF Labels
<1>2. pc' \in [Threads -> Labels]
  BY <1>1, GotoType DEF PostReturn, IInv, TypeOK
<1>3. posts' \in [Threads -> Nat]
  BY DEF PostReturn, IInv, TypeOK
<1>4. TypeOK'
  BY <1>2, <1>3 DEF PostReturn, IInv, TypeOK, history
<1> QED
  BY <1>1, <1>4, QuietGoto DEF PostReturn, history

-----------------------------------------------------------------------------
(* hloop_stop, hloop_pause and hloop_resume.                               *)

LEMMA StopIInv ==
  ASSUME IInv, NEW t \in Stoppers, StopStep(t) PROVE IInv'
<1>1. t \in Threads
  BY DEF Threads
<1>2. {"refused", "lock", "stopped"} \subseteq Labels
  BY DEF Labels
<1>3. CASE hloop_stop(t)
  <2>1. PICK l \in {"refused", "lock"} : Goto(t, l)
    BY <1>3 DEF hloop_stop
  <2>2. pc' \in [Threads -> Labels]
    BY <1>2, <2>1, GotoType DEF IInv, TypeOK
  <2>3. TypeOK'
    BY <1>3, <2>2 DEF hloop_stop, IInv, TypeOK, history
  <2> QED
    BY <1>1, <1>2, <1>3, <2>1, <2>3, QuietGoto DEF hloop_stop, history
<1>4. CASE SetStop(t)
  <2>1. pc' \in [Threads -> Labels]
    BY <1>2, <1>4, GotoType DEF SetStop, IInv, TypeOK
  <2>2. accepted' \subseteq Stoppers
    BY <1>4 DEF SetStop, IInv, TypeOK
  <2>3. TypeOK'
    BY <1>4, <2>1, <2>2 DEF SetStop, IInv, TypeOK, history
  <2> QED
    BY <1>1, <1>2, <1>4, <2>3, QuietGoto DEF SetStop, history
<1> QED
  BY <1>3, <1>4 DEF StopStep

LEMMA PauseIInv ==
  ASSUME IInv, NEW t \in Pausers, PauseStep(t) PROVE IInv'
<1>1. t \in Threads
  BY DEF Threads
<1>2. {"set_pause", "resume", "set_resume", "resumed"} \subseteq Labels
  BY DEF Labels
<1>3. PICK l \in {"set_pause", "resume", "set_resume", "resumed"} : Goto(t, l)
  BY DEF PauseStep, hloop_pause, hloop_resume, CheckStatus, AssignStatus
<1>4. pc[t] \notin {"write", "push"}
  BY DEF PauseStep, hloop_pause, hloop_resume, CheckStatus, AssignStatus
<1>5. /\ status' \in {status, "PAUSE", "RUNNING"}
      /\ UNCHANGED <<lpc, ready, remaining, efdOpen, efd, mutex, queue, posts,
                     posted, ran, accepted>>
  BY DEF PauseStep, hloop_pause, hloop_resume, CheckStatus, AssignStatus, history
<1>6. pc' \in [Threads -> Labels]
  BY <1>2, <1>3, GotoType DEF IInv, TypeOK
<1>7. TypeOK'
  BY <1>5, <1>6 DEF IInv, TypeOK
<1> QED
  BY <1>1, <1>2, <1>3, <1>4, <1>5, <1>7, QuietGoto

-----------------------------------------------------------------------------
(* The loop thread.                                                        *)

LEMMA LoopIInv == ASSUME IInv, LoopStep PROVE IInv'
<1> USE DEF others
<1>1. /\ efd \in Nat /\ remaining \in Nat /\ queue \in Seq(Event)
      /\ ran \in Seq(Event) /\ posted \in Seq(Event) /\ Len(queue) \in Nat
  BY DEF IInv, TypeOK
<1>2. CASE hloop_run
  <2>1. TypeOK'
    BY <1>2 DEF hloop_run, LoopAt, IInv, TypeOK, LoopLabels
  <2> QED
    BY <1>2, <2>1, QuietLoop DEF hloop_run, LoopAt, IInv, Drained
<1>3. CASE hloop_create_eventfds
  <2>1. efdOpen' \in BOOLEAN
    BY <1>3 DEF hloop_create_eventfds
  <2>2. TypeOK'
    BY <1>3, <2>1 DEF hloop_create_eventfds, LoopAt, IInv, TypeOK, LoopLabels
  <2> QED
    BY <1>3, <2>2, QuietLoop DEF hloop_create_eventfds, LoopAt, IInv, Drained
<1>4. CASE While
  <2>1. lpc' \in LoopLabels
    BY <1>4 DEF While, LoopLabels
  <2>2. TypeOK'
    BY <1>4, <2>1 DEF While, IInv, TypeOK
  <2> QED
    BY <1>4, <2>2, QuietLoop DEF While, IInv, Drained
<1>5. CASE Poll
  <2>1. TypeOK'
    BY <1>5 DEF Poll, LoopAt, IInv, TypeOK, LoopLabels
  <2> QED
    BY <1>5, <2>1, QuietLoop DEF Poll, LoopAt, IInv, Drained
<1>6. CASE AfterPoll
  <2>1. TypeOK'
    BY <1>6 DEF AfterPoll, IInv, TypeOK, LoopLabels
  <2> QED
    BY <1>6, <2>1, QuietLoop DEF AfterPoll, IInv, Drained
<1>7. CASE nio_read
  <2>1. remaining = 0
    BY <1>7 DEF nio_read, LoopAt, IInv, Drained
  <2>2. TypeOK'
    BY <1>1, <1>7 DEF nio_read, LoopAt, IInv, TypeOK, LoopLabels
  <2>3. MutexHeld' /\ InFlight' = InFlight /\ InFlight \in Nat
    BY <1>7 DEF nio_read, IInv, MutexHeld, InFlight
  <2>4. TokensMatch'
    BY <1>1, <1>7, <2>1, <2>3 DEF nio_read, IInv, TokensMatch
  <2> QED
    BY <1>7, <2>2, <2>3, <2>4 DEF nio_read, LoopAt, IInv, RunInOrder, Drained
<1>8. CASE PopEvent
  <2>1. /\ queue # << >> /\ queue' = Tail(queue) /\ ran' = Append(ran, Head(queue))
        /\ remaining > 0 /\ remaining' = remaining - 1
        /\ UNCHANGED <<status, ready, efdOpen, efd, mutex, pc, posts, accepted, posted>>
    BY <1>8 DEF PopEvent
  <2>2. /\ Head(queue) \in Event /\ Tail(queue) \in Seq(Event)
        /\ Len(Tail(queue)) = Len(queue) - 1
    BY <1>1, <2>1, HeadTailProperties
  <2>3. ran' \in Seq(Event)
    BY <1>1, <2>1, <2>2, AppendProperties
  <2>4. TypeOK'
    BY <1>1, <1>8, <2>1, <2>2, <2>3 DEF PopEvent, LoopAt, IInv, TypeOK, LoopLabels
  <2>5. MutexHeld' /\ InFlight' = InFlight /\ InFlight \in Nat
    BY <2>1 DEF IInv, MutexHeld, InFlight
  <2>6. TokensMatch'
    BY <1>1, <2>1, <2>2, <2>5 DEF IInv, TokensMatch
  <2>7. RunInOrder'
    BY <1>1, <2>1, PopHistory DEF IInv, RunInOrder
  <2>8. Drained'
    BY <1>8 DEF PopEvent, LoopAt, Drained
  <2> QED
    BY <2>4, <2>5, <2>6, <2>7, <2>8 DEF IInv
<1>9. CASE CallbackReturns
  <2>1. status' \in {status, "STOP"}
    BY <1>9 DEF CallbackReturns
  <2>2. TypeOK'
    BY <1>9, <2>1 DEF CallbackReturns, LoopAt, IInv, TypeOK, LoopLabels
  <2> QED
    BY <1>9, <2>2, QuietLoop DEF CallbackReturns, LoopAt, IInv, Drained
<1>10. CASE EventfdReadDone
  <2>1. remaining = 0
    <3>1. CASE mutex = None /\ queue = << >>
      <4>1. \A t \in Threads : pc[t] # "push"
        BY <3>1, PostEventAssumption DEF IInv, MutexHeld
      <4>2. InFlight = 0
        BY <4>1 DEF InFlight
      <4>3. Len(queue) = 0
        BY <3>1
      <4> QED
        BY <1>1, <4>2, <4>3 DEF IInv, TokensMatch
    <3> QED
      BY <1>10, <3>1 DEF EventfdReadDone
  <2>2. TypeOK'
    BY <1>10 DEF EventfdReadDone, LoopAt, IInv, TypeOK, LoopLabels
  <2> QED
    BY <1>10, <2>1, <2>2, QuietLoop DEF EventfdReadDone, LoopAt, IInv, Drained
<1>11. CASE LeaveRun
  <2>1. TypeOK'
    BY <1>11 DEF LeaveRun, LoopAt, IInv, TypeOK, LoopLabels
  <2> QED
    BY <1>11, <2>1, QuietLoop DEF LeaveRun, LoopAt, IInv, Drained
<1> QED
  BY <1>2, <1>3, <1>4, <1>5, <1>6, <1>7, <1>8, <1>9, <1>10, <1>11 DEF LoopStep

-----------------------------------------------------------------------------
(* The theorems.                                                           *)

\* No step of any thread, and no stuttering step, breaks the invariant.
LEMMA NextIInv == IInv /\ [Next]_vars => IInv'
<1> SUFFICES ASSUME IInv, [Next]_vars PROVE IInv'
  OBVIOUS
<1>1. CASE LoopStep
  BY <1>1, LoopIInv
<1>2. ASSUME NEW t \in Threads, PostBegin(t) \/ PostStep(t) PROVE IInv'
  BY <1>2, BeginIInv, LockIInv, WriteIInv, PushIInv, ReturnIInv DEF PostStep
<1>3. ASSUME NEW t \in Stoppers, StopStep(t) PROVE IInv'
  BY <1>3, StopIInv
<1>4. ASSUME NEW t \in Pausers, PauseStep(t) PROVE IInv'
  BY <1>4, PauseIInv
<1>5. CASE UNCHANGED vars
  BY <1>5 DEF vars, history, IInv, TypeOK, MutexHeld, Drained, TokensMatch,
              InFlight, RunInOrder
<1> QED
  BY <1>1, <1>2, <1>3, <1>4, <1>5 DEF Next

\* The invariant holds in every reachable state.
THEOREM IInvInvariant == Spec => []IInv
<1>1. Init => IInv
  BY InitIInv
<1>2. IInv /\ [Next]_vars => IInv'
  BY NextIInv
<1> QED
  BY <1>1, <1>2, PTL DEF Spec

\* The loop, its queue and every thread keep their types, whatever the sets
\* of threads that post, stop and pause.
THEOREM TypeCorrect == Spec => []TypeOK
<1>1. IInv => TypeOK
  BY DEF IInv
<1> QED
  BY <1>1, IInvInvariant, PTL

\* The write to the eventfd and the push are one critical section: only the
\* holder of custom_events_mutex is between them.
THEOREM OneHolder == Spec => []MutexHeld
<1>1. IInv => MutexHeld
  BY DEF IInv
<1> QED
  BY <1>1, IInvInvariant, PTL

\* The eventfd covers the queue: every queued event has its unit, so the
\* loop wakes up for it, and eventfd_read_cb never finds the queue empty.
THEOREM EventfdCoversQueue == Spec => []TokensMatch
<1>1. IInv => TokensMatch
  BY DEF IInv
<1> QED
  BY <1>1, IInvInvariant, PTL

\* Events run at most once and in the order of their pushes.
THEOREM OnceInOrder == Spec => []RunInOrder
<1>1. IInv => RunInOrder
  BY DEF IInv
<1> QED
  BY <1>1, IInvInvariant, PTL

=============================================================================

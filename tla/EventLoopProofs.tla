-------------------------- MODULE EventLoopProofs --------------------------
(***************************************************************************)
(* Proofs about EventLoop and the heap of its timers, for every value of   *)
(* their constants.  EventLoop: the type invariant, that nothing which     *)
(* hangs in loop->pendings is freed, that nothing is lost, that the        *)
(* counters are exact, and that no timer's callback runs early.  Heap: the *)
(* shape of the tree, and that it implements TimerQueue.                   *)
(***************************************************************************)
EXTENDS EventLoop, Heap, FiniteSetTheorems, SequenceLaws

\* No event hangs twice in loop->pendings, and the event whose callback runs
\* has left it.
Once ==
    /\ IsInjective(pendings)
    /\ running \notin Range(pendings)
    /\ phase = "cb" <=> running # None

\* What hangs in loop->pendings before the round has come to it.
ByPhase ==
    /\ phase \notin {"timers", "pendings", "cb"} => Range(pendings) \subseteq {Io}
    /\ phase = "timers" => /\ Range(pendings) \cap Idles = {}
                           /\ \A t \in timers : t \in Range(pendings) =>
                                                    ev[t].left > 0
    /\ phase = "freed" => Range(pendings) = {} /\ running = None

\* The bit pending and the list: only htimer_reset clears the bit of an
\* event that stays linked.
Bits ==
    /\ \A e \in Events : ev[e].pending => Linked(e)
    /\ \A e \in Events : ~Live(e) => ~ev[e].pending /\ ~ev[e].active
    /\ \A e \in Events \ Timeouts : Live(e) /\ Linked(e) => ev[e].pending
    /\ \A t \in Timers : t \in Range(pendings) /\ ev[t].pending => t \in owed

\* destroy says that an event is in no heap and in no list of idles.
Armed ==
    /\ \A e \in timers \cup idles : Live(e) /\ ev[e].active
    /\ \A e \in Timers \cup Idles :
          Live(e) => (ev[e].destroy <=> e \notin timers \cup idles)
    /\ \A t \in Timeouts : Live(t) => ev[t].timeout > 0
    /\ ~ev[Io].destroy
    /\ phase # "freed" => Live(Io)

\* A caller that keeps the rule never frees an event that is linked.
Dangling == DelAfterReset = FALSE => NoDanglingPending

\* The inductive invariant.
IInv ==
    /\ TypeOK
    /\ Once
    /\ ByPhase
    /\ Bits
    /\ Armed
    /\ NothingLost
    /\ CountersExact
    /\ Dangling

-----------------------------------------------------------------------------
(* The list of pending events.                                             *)

\* EVENT_PENDING adds one event to the list, whatever its priority.
LEMMA PendingAdds ==
    ASSUME NEW s \in Seq(Events), NEW e \in Events
    PROVE  /\ EVENT_PENDING(s, e) \in Seq(Events)
           /\ Len(EVENT_PENDING(s, e)) = Len(s) + 1
           /\ Range(EVENT_PENDING(s, e)) = Range(s) \cup {e}
           /\ IsInjective(s) /\ e \notin Range(s)
                  => IsInjective(EVENT_PENDING(s, e))
<1> DEFINE p == Cardinality(Ahead(s, e))
           u == SubSeq(s, 1, p)
           v == SubSeq(s, p + 1, Len(s))
           r == EVENT_PENDING(s, e)
<1>1. p \in 0..Len(s)
  <2>1. Ahead(s, e) \in SUBSET (1..Len(s))  BY DEF Ahead
  <2>2. Len(s) \in Nat  OBVIOUS
  <2>3. /\ IsFiniteSet(1..Len(s))
        /\ Cardinality(1..Len(s)) = Len(s)
    BY SMTT(30), <2>2, FS_Interval
  <2> QED  BY <2>1, <2>2, <2>3, FS_Subset, FS_CardinalityType
<1> HIDE DEF p
<1>2. r = u \o <<e>> \o v  BY DEF EVENT_PENDING, p
<1>3. /\ u \in Seq(Events) /\ Len(u) = p
      /\ \A i \in 1..p : u[i] = s[i]
  BY <1>1
<1>4. /\ v \in Seq(Events) /\ Len(v) = Len(s) - p
      /\ \A i \in 1..(Len(s) - p) : v[i] = s[p + i]
  BY <1>1
<1> HIDE DEF u, v, r
<1>5. /\ r \in Seq(Events) /\ Len(r) = Len(s) + 1
      /\ \A i \in 1..(Len(s) + 1) : r[i] = IF i <= p THEN s[i]
                                           ELSE IF i = p + 1 THEN e ELSE s[i - 1]
  <2> DEFINE w == u \o <<e>>
  <2>1. /\ w \in Seq(Events) /\ Len(w) = p + 1
        /\ \A i \in 1..(p + 1) : w[i] = IF i <= p THEN s[i] ELSE e
    BY <1>1, <1>3
  <2>2. r = w \o v  BY <1>2
  <2> HIDE DEF w
  <2>3. r \in Seq(Events) /\ Len(r) = Len(s) + 1  BY <1>1, <1>4, <2>1, <2>2
  <2>4. \A i \in 1..Len(r) : r[i] = IF i <= p + 1 THEN w[i] ELSE v[i - (p + 1)]
    BY <1>1, <1>4, <2>1, <2>2, <2>3
  <2>5. ASSUME NEW i \in 1..(Len(s) + 1)
        PROVE  r[i] = IF i <= p THEN s[i] ELSE IF i = p + 1 THEN e ELSE s[i - 1]
    <3>1. CASE i <= p + 1  BY <1>1, <2>1, <2>3, <2>4, <3>1
    <3>2. CASE i > p + 1
      <4>1. i - (p + 1) \in 1..(Len(s) - p)  BY <1>1, <3>2
      <4>2. p + (i - (p + 1)) = i - 1  BY <1>1
      <4> QED  BY <1>1, <1>4, <2>3, <2>4, <3>2, <4>1, <4>2
    <3> QED  BY <1>1, <3>1, <3>2
  <2> QED  BY <2>3, <2>5
<1>6. Range(r) = Range(s) \cup {e}
  <2>1. \A i \in DOMAIN r : r[i] \in Range(s) \cup {e}  BY <1>1, <1>5 DEF Range
  <2>2. \A i \in DOMAIN s : s[i] \in Range(r)
    <3>1. TAKE i \in DOMAIN s
    <3>2. CASE i <= p  BY SMTT(30), <3>2, <1>1, <1>5 DEF Range
    <3>3. CASE i > p
      <4>1. i + 1 \in DOMAIN r /\ r[i + 1] = s[i]  BY <3>3, <1>1, <1>5
      <4> QED  BY <4>1 DEF Range
    <3> QED  BY <3>2, <3>3, <1>1
  <2>3. e \in Range(r)
    <3>1. p + 1 \in DOMAIN r /\ r[p + 1] = e  BY <1>1, <1>5
    <3> QED  BY <3>1 DEF Range
  <2> QED  BY <2>1, <2>2, <2>3 DEF Range
<1>7. ASSUME IsInjective(s), e \notin Range(s)  PROVE IsInjective(r)
  <2>1. \A i \in DOMAIN s : s[i] # e  BY <1>7 DEF Range
  <2>2. SUFFICES ASSUME NEW i \in DOMAIN r, NEW j \in DOMAIN r, r[i] = r[j], i < j
                 PROVE  FALSE
    BY <1>5 DEF IsInjective
  <2> QED  BY <1>1, <1>5, <1>7, <2>1, <2>2 DEF IsInjective
<1> QED  BY <1>5, <1>6, <1>7 DEF r

\* Taking the head of the list removes that event, and no other.
LEMMA PendingTakes ==
    ASSUME NEW s \in Seq(Events), s # << >>
    PROVE  /\ Head(s) \in Events /\ Head(s) \in Range(s)
           /\ Tail(s) \in Seq(Events)
           /\ Range(Tail(s)) \subseteq Range(s)
           /\ Range(s) = Range(Tail(s)) \cup {Head(s)}
           /\ IsInjective(s) => IsInjective(Tail(s)) /\ Head(s) \notin Range(Tail(s))
<1>1. /\ Len(s) \in Nat \ {0} /\ Head(s) = s[1]
      /\ Tail(s) \in Seq(Events) /\ Len(Tail(s)) = Len(s) - 1
      /\ \A i \in 1..(Len(s) - 1) : Tail(s)[i] = s[i + 1]
  OBVIOUS
<1>2. Head(s) \in Events /\ Head(s) \in Range(s)  BY <1>1 DEF Range
<1>3. \A i \in DOMAIN Tail(s) : Tail(s)[i] \in Range(s)  BY <1>1 DEF Range
<1>4. \A i \in DOMAIN s : s[i] \in Range(Tail(s)) \cup {Head(s)}
  <2>1. TAKE i \in DOMAIN s
  <2>2. CASE i = 1  BY <2>2, <1>1
  <2>3. CASE i # 1
    <3>1. i - 1 \in DOMAIN Tail(s) /\ Tail(s)[i - 1] = s[i]  BY <2>3, <1>1
    <3> QED  BY <3>1 DEF Range
  <2> QED  BY <2>2, <2>3
<1>5. ASSUME IsInjective(s)
      PROVE  IsInjective(Tail(s)) /\ Head(s) \notin Range(Tail(s))
  <2>1. \A i \in 1..(Len(s) - 1) : i + 1 \in DOMAIN s /\ Tail(s)[i] = s[i + 1]  BY <1>1
  <2> QED  BY <1>1, <1>5, <2>1 DEF IsInjective, Range
<1> QED  BY <1>1, <1>2, <1>3, <1>4, <1>5 DEF Range

-----------------------------------------------------------------------------
(* The counters.                                                           *)

Actives(f) == {e \in Events : f[e].active}

\* How many events are active after one of them has changed.
LEMMA ActivesChange ==
    ASSUME NEW f \in [Events -> EventType], NEW e \in Events, NEW x \in EventType
    PROVE  LET m == Cardinality(Actives(f))
               n == Cardinality(Actives([f EXCEPT ![e] = x]))
           IN /\ m \in Nat
              /\ f[e].active = x.active => n = m
              /\ ~f[e].active /\ x.active => n = m + 1
              /\ f[e].active /\ ~x.active => n = m - 1
<1> DEFINE g == [f EXCEPT ![e] = x]
<1>1. IsFiniteSet(Events)  BY EventLoopAssumption
<1>2. IsFiniteSet(Actives(f))
  <2>1. Actives(f) \in SUBSET Events  BY DEF Actives
  <2> QED  BY <1>1, <2>1, FS_Subset
<1>3. /\ g[e] = x
      /\ \A o \in Events \ {e} : g[o] = f[o]
  OBVIOUS
<1> HIDE DEF g
<1>4. ASSUME f[e].active = x.active  PROVE Actives(g) = Actives(f)
  BY <1>3, <1>4 DEF Actives
<1>5. ASSUME ~f[e].active, x.active
      PROVE  Actives(g) = Actives(f) \cup {e} /\ e \notin Actives(f)
  BY <1>3, <1>5 DEF Actives
<1>6. ASSUME f[e].active, ~x.active
      PROVE  Actives(g) = Actives(f) \ {e} /\ e \in Actives(f)
  BY <1>3, <1>6 DEF Actives
<1>7. /\ Cardinality(Actives(f)) \in Nat
      /\ Cardinality(Actives(f) \cup {e}) = IF e \in Actives(f) THEN Cardinality(Actives(f))
                                            ELSE Cardinality(Actives(f)) + 1
      /\ Cardinality(Actives(f) \ {e}) = IF e \in Actives(f) THEN Cardinality(Actives(f)) - 1
                                         ELSE Cardinality(Actives(f))
  BY <1>2, FS_CardinalityType, FS_AddElement, FS_RemoveElement
<1>8. /\ f[e].active = x.active => Cardinality(Actives(g)) = Cardinality(Actives(f))
      /\ ~f[e].active /\ x.active => Cardinality(Actives(g)) = Cardinality(Actives(f)) + 1
      /\ f[e].active /\ ~x.active => Cardinality(Actives(g)) = Cardinality(Actives(f)) - 1
  BY <1>4, <1>5, <1>6, <1>7
<1> QED  BY <1>7, <1>8 DEF g

\* Adding and removing a timer or an idle.
LEMMA ArmedChange ==
    ASSUME NEW S \in SUBSET Events, NEW e \in Events
    PROVE  /\ IsFiniteSet(S)
           /\ Cardinality(S) \in Nat
           /\ Cardinality(S) = 0 <=> S = {}
           /\ Cardinality(S \cup {e}) = IF e \in S THEN Cardinality(S)
                                        ELSE Cardinality(S) + 1
           /\ Cardinality(S \ {e}) = IF e \in S THEN Cardinality(S) - 1
                                     ELSE Cardinality(S)
<1>1. IsFiniteSet(S)  BY EventLoopAssumption, FS_Subset
<1> QED
  BY <1>1, FS_CardinalityType, FS_AddElement, FS_RemoveElement, FS_EmptySet

\* Setting left changes no other field.
LEMMA LeftSet ==
    ASSUME NEW x \in EventType, NEW v \in Int
    PROVE  LET y == [x EXCEPT !.left = v]
           IN /\ y \in EventType /\ y.left = v
              /\ y.live = x.live /\ y.active = x.active /\ y.pending = x.pending
              /\ y.destroy = x.destroy /\ y.timeout = x.timeout
              /\ y.repeat = x.repeat
BY DEF EventType

\* The clock changes no field but left.
LEMMA UpdatedKeeps ==
    ASSUME TypeOK, NEW d \in Int
    PROVE  /\ Updated(d) \in [Events -> EventType]
           /\ \A e \in Events :
                 /\ Updated(d)[e].live = ev[e].live
                 /\ Updated(d)[e].active = ev[e].active
                 /\ Updated(d)[e].pending = ev[e].pending
                 /\ Updated(d)[e].destroy = ev[e].destroy
                 /\ Updated(d)[e].timeout = ev[e].timeout
           /\ Actives(Updated(d)) = Actives(ev)
<1>1. ASSUME NEW e \in Events
      PROVE  ev[e] \in EventType /\ ev[e].left - d \in Int
  BY DEF TypeOK, EventType
<1>2. ASSUME NEW e \in Events
      PROVE  /\ Updated(d)[e] \in EventType
             /\ Updated(d)[e].live = ev[e].live
             /\ Updated(d)[e].active = ev[e].active
             /\ Updated(d)[e].pending = ev[e].pending
             /\ Updated(d)[e].destroy = ev[e].destroy
             /\ Updated(d)[e].timeout = ev[e].timeout
  BY <1>1, LeftSet DEF Updated
<1>3. Updated(d) \in [Events -> EventType]  BY <1>2 DEF Updated
<1> QED  BY <1>2, <1>3 DEF Actives

\* What the EVENT_* macros make of an event.
LEMMA Macros ==
    ASSUME NEW x \in EventType
    PROVE  /\ Freed \in EventType
           /\ ~Freed.live /\ ~Freed.active /\ ~Freed.pending
           /\ Unarmed(x) \in EventType /\ Unarmed(x).destroy
           /\ Unarmed(x).live = x.live /\ Unarmed(x).active = x.active
           /\ Unarmed(x).pending = x.pending /\ Unarmed(x).timeout = x.timeout
           /\ EVENT_DEL(x) \in EventType /\ ~EVENT_DEL(x).active
           /\ EVENT_DEL(x).pending = x.pending
           /\ x.pending => /\ EVENT_DEL(x).live = x.live
                           /\ EVENT_DEL(x).destroy = x.destroy
                           /\ EVENT_DEL(x).timeout = x.timeout
           /\ ~x.pending => EVENT_DEL(x) = Freed
           /\ EVENT_RESET(x) \in EventType
           /\ EVENT_RESET(x).live = x.live
           /\ EVENT_RESET(x).active /\ ~EVENT_RESET(x).pending
           /\ ~EVENT_RESET(x).destroy
           /\ Done(x) \in EventType /\ ~Done(x).pending
           /\ x.destroy => Done(x) = Freed
           /\ ~x.destroy => /\ Done(x).live = x.live /\ Done(x).active = x.active
                            /\ ~Done(x).destroy /\ Done(x).timeout = x.timeout
                            /\ Done(x).left = x.left
<1>1. Freed \in EventType /\ ~Freed.live /\ ~Freed.active /\ ~Freed.pending
  BY EventLoopAssumption DEF Freed, EventType
<1>2. /\ Unarmed(x) \in EventType /\ Unarmed(x).destroy
      /\ Unarmed(x).live = x.live /\ Unarmed(x).active = x.active
      /\ Unarmed(x).pending = x.pending /\ Unarmed(x).timeout = x.timeout
  <2> DEFINE y == [x EXCEPT !.destroy = TRUE]
  <2>1. /\ y \in EventType /\ y.destroy /\ y.live = x.live /\ y.active = x.active
        /\ y.pending = x.pending /\ y.timeout = x.timeout
    BY DEF EventType
  <2>2. Unarmed(x) = [y EXCEPT !.left = 0]  BY DEF Unarmed
  <2> HIDE DEF y
  <2> QED  BY <2>1, <2>2, LeftSet
<1>3. ASSUME NEW y \in EventType
      PROVE  /\ EVENT_DEL(y) \in EventType /\ ~EVENT_DEL(y).active
             /\ EVENT_DEL(y).pending = y.pending
             /\ y.pending => /\ EVENT_DEL(y).live = y.live
                             /\ EVENT_DEL(y).destroy = y.destroy
                             /\ EVENT_DEL(y).timeout = y.timeout
             /\ ~y.pending => EVENT_DEL(y) = Freed
  <2>1. CASE y.pending  BY <2>1 DEF EVENT_DEL, EventType
  <2>2. CASE ~y.pending
    <3>1. EVENT_DEL(y) = Freed  BY <2>2 DEF EVENT_DEL
    <3>2. y.pending = FALSE  BY <2>2 DEF EventType
    <3>3. Freed.pending = FALSE  BY DEF Freed
    <3> QED  BY <1>1, <2>2, <3>1, <3>2, <3>3
  <2> QED  BY <2>1, <2>2
<1>4. /\ EVENT_RESET(x) \in EventType
      /\ EVENT_RESET(x).live = x.live
      /\ EVENT_RESET(x).active /\ ~EVENT_RESET(x).pending
      /\ ~EVENT_RESET(x).destroy
  BY DEF EVENT_RESET, EventType
<1>5. /\ Done(x) \in EventType /\ ~Done(x).pending
      /\ x.destroy => Done(x) = Freed
      /\ ~x.destroy => /\ Done(x).live = x.live /\ Done(x).active = x.active
                       /\ ~Done(x).destroy /\ Done(x).timeout = x.timeout
                       /\ Done(x).left = x.left
  <2> DEFINE y == [x EXCEPT !.pending = FALSE]
  <2>1. /\ y \in EventType /\ ~y.pending /\ y.destroy = x.destroy
        /\ y.live = x.live /\ y.active = x.active /\ y.timeout = x.timeout
        /\ y.left = x.left
    BY DEF EventType
  <2>2. Done(x) = IF x.destroy THEN EVENT_DEL(y) ELSE y  BY DEF Done
  <2> HIDE DEF y
  <2> QED  BY <1>1, <1>3, <2>1, <2>2
<1> QED  BY <1>1, <1>2, <1>3, <1>4, <1>5

-----------------------------------------------------------------------------
(* The calls of the callbacks.                                             *)

\* The sets of slots are disjoint.
LEMMA Slots ==
    /\ Timeouts \subseteq Timers /\ Periods \subseteq Timers
    /\ Timers \subseteq Events /\ Idles \subseteq Events /\ Io \in Events
    /\ \A t \in Timers : t \notin Idles /\ t # Io
    /\ \A i \in Idles : i \notin Timers /\ i # Io
    /\ \A t \in Periods : t \notin Timeouts
    /\ None \notin Events
BY EventLoopAssumption DEF Timers, Events

LEMMA DelStep ==
    ASSUME IInv, NEW t \in Timers, htimer_del(t)
    PROVE  IInv'
<1> USE DEF IInv, Live, Linked
<1> DEFINE x == EVENT_DEL(Unarmed(ev[t]))
<1>1. t \in Events /\ t \notin Idles /\ t # Io  BY Slots
<1>2. /\ x \in EventType /\ ~x.active
      /\ x.pending = ev[t].pending
      /\ x.live <=> ev[t].pending
      /\ x.live => x.destroy /\ x.timeout = ev[t].timeout
  <2>1. ev[t] \in EventType /\ ev[t].live  BY <1>1 DEF TypeOK, htimer_del
  <2>2. Unarmed(ev[t]) \in EventType  BY <2>1, Macros
  <2> QED  BY <2>1, <2>2, Macros
<1>3. /\ ev' = [ev EXCEPT ![t] = x] /\ timers' = timers \ {t}
      /\ ev[t].live /\ ev[t].active
      /\ ntimers' = IF ev[t].destroy THEN ntimers ELSE ntimers - 1
      /\ nactives' = nactives - 1
      /\ UNCHANGED <<idles, pendings, nidles, npendings, lag, owed, status, phase,
                     running, spent, readable>>
  BY DEF htimer_del, loopVars
<1>4. phase # "freed"  BY DEF htimer_del, Calling
<1> HIDE DEF x
<1>5. /\ ev' \in [Events -> EventType] /\ ev'[t] = x
      /\ \A o \in Events \ {t} : ev'[o] = ev[o]
  BY <1>1, <1>2, <1>3 DEF TypeOK
<1>6. TypeOK'  BY <1>3, <1>5 DEF TypeOK
<1>7. Once'  BY <1>3 DEF Once
<1>8. ByPhase'  BY <1>3, <1>5, Slots DEF ByPhase, TypeOK
<1>9. Bits'  BY <1>1, <1>2, <1>3, <1>5, Slots DEF Bits
<1>10. Armed'  BY <1>1, <1>2, <1>3, <1>5, Slots DEF Armed, TypeOK
<1>11. NothingLost'  BY <1>1, <1>2, <1>3, <1>5 DEF NothingLost, Bits, TypeOK
<1>12. CountersExact'
  <2>1. ntimers' = Cardinality(timers')
    BY <1>1, <1>3, <1>4, ArmedChange, Slots DEF CountersExact, Armed, TypeOK
  <2>2. nactives' = Cardinality(Actives(ev'))
    BY SMTT(30), <1>1, <1>2, <1>3, <1>4, ActivesChange DEF CountersExact, Actives, TypeOK
  <2> QED  BY <1>3, <2>1, <2>2 DEF CountersExact, Actives
<1>13. Dangling'
  <2>1. DelAfterReset = FALSE => ~ResetInRound(t)  BY DEF htimer_del
  <2> QED  BY <1>1, <1>2, <1>3, <1>5, <2>1 DEF Dangling, NoDanglingPending, ResetInRound
<1> QED  BY <1>6, <1>7, <1>8, <1>9, <1>10, <1>11, <1>12, <1>13

LEMMA AddTimerStep ==
    ASSUME IInv, NEW t \in Timers, NEW base \in [Events -> EventType],
           NEW ms \in Nat, NEW n \in 0..INFINITE, NEW left \in Int,
           AddTimer(t, base, New(ms, n, left)), lag' \in Nat,
           phase \in {"start", "cb"},
           t \in Timeouts => ms > 0,
           \A e \in Events :
              /\ base[e].live = ev[e].live /\ base[e].active = ev[e].active
              /\ base[e].pending = ev[e].pending
              /\ base[e].destroy = ev[e].destroy
              /\ base[e].timeout = ev[e].timeout,
           Actives(base) = Actives(ev)
    PROVE  IInv'
<1> USE DEF IInv, Live, Linked
<1> DEFINE x == New(ms, n, left)
<1>1. t \in Events /\ t \notin Idles /\ t # Io  BY Slots
<1>2. /\ x \in EventType /\ x.active /\ ~x.pending /\ x.live /\ ~x.destroy
      /\ x.timeout = ms
  BY DEF New, EventType
<1>3. /\ ev' = [base EXCEPT ![t] = x] /\ timers' = timers \cup {t}
      /\ ~ev[t].live /\ t \notin Range(pendings) /\ running # t
      /\ ntimers' = ntimers + 1 /\ nactives' = nactives + 1 /\ owed' = owed \ {t}
      /\ UNCHANGED <<idles, pendings, nidles, npendings, status, phase,
                     running, spent, readable>>
  BY DEF AddTimer, loopVars
<1> HIDE DEF x
<1>4. /\ ev' \in [Events -> EventType] /\ ev'[t] = x
      /\ \A o \in Events \ {t} : ev'[o] = base[o]
  BY <1>1, <1>2, <1>3
<1>5. TypeOK'  BY <1>3, <1>4 DEF TypeOK
<1>6. Once'  BY <1>3 DEF Once
<1>7. ByPhase'  BY <1>3 DEF ByPhase
<1>8. Bits'  BY <1>1, <1>2, <1>3, <1>4, Slots DEF Bits
<1>9. Armed'  BY <1>1, <1>2, <1>3, <1>4, Slots DEF Armed, TypeOK
<1>10. NothingLost'  BY <1>1, <1>2, <1>3, <1>4 DEF NothingLost, TypeOK
<1>11. CountersExact'
  <2>1. ntimers' = Cardinality(timers')
    BY SMTT(30), <1>1, <1>3, ArmedChange, Slots DEF CountersExact, Armed, TypeOK
  <2>2. nactives' = Cardinality(Actives(ev'))
    <3>1. ~base[t].active  BY <1>1, <1>3 DEF Bits
    <3>2. nactives = Cardinality(Actives(base))  BY DEF CountersExact, Actives
    <3> QED  BY <1>1, <1>2, <1>3, <3>1, <3>2, ActivesChange
  <2> QED  BY <1>3, <2>1, <2>2 DEF CountersExact, Actives
<1>12. Dangling'
  BY <1>1, <1>2, <1>3, <1>4 DEF Dangling, NoDanglingPending
<1> QED  BY <1>5, <1>6, <1>7, <1>8, <1>9, <1>10, <1>11, <1>12

LEMMA AddStep ==
    ASSUME IInv, NEW t \in Timeouts, htimer_add(t)
    PROVE  IInv'
<1>1. PICK ms \in Millis, n \in Repeats :
         \E l \in Lefts(ms) : AddTimer(t, Updated(lag), New(ms, n, l))
  BY DEF htimer_add
<1>2. PICK l \in Lefts(ms) : AddTimer(t, Updated(lag), New(ms, n, l))  BY <1>1
<1>3. ms \in Nat /\ ms > 0 /\ n \in 0..INFINITE  BY EventLoopAssumption
<1>4. l \in Int  BY <1>3, EventLoopAssumption DEF Lefts
<1>5. t \in Timers /\ lag \in Int /\ lag' \in Nat /\ phase \in {"start", "cb"} /\ TypeOK
  BY Slots DEF IInv, TypeOK, htimer_add, Calling
<1> QED  BY <1>2, <1>3, <1>4, <1>5, UpdatedKeeps, AddTimerStep

LEMMA AddPeriodStep ==
    ASSUME IInv, NEW t \in Periods, htimer_add_period(t)
    PROVE  IInv'
<1>1. PICK ms \in Millis, n \in Repeats : AddTimer(t, ev, New(0, n, lag + ms))
  BY DEF htimer_add_period
<1>2. ms \in Nat /\ n \in 0..INFINITE  BY EventLoopAssumption
<1>3. /\ t \in Timers /\ t \notin Timeouts /\ lag \in Nat /\ lag' \in Nat
      /\ phase \in {"start", "cb"} /\ ev \in [Events -> EventType]
  BY Slots DEF IInv, TypeOK, htimer_add_period, Calling
<1>4. lag + ms \in Int  BY <1>2, <1>3
<1> QED  BY <1>1, <1>2, <1>3, <1>4, AddTimerStep

LEMMA ResetStep ==
    ASSUME IInv, NEW t \in Timeouts, htimer_reset(t)
    PROVE  IInv'
<1> USE DEF IInv, Live, Linked
<1>1. t \in Events /\ t \in Timers /\ t \notin Idles /\ t # Io  BY Slots
<1>2. ev[t] \in EventType /\ ev[t].timeout \in Nat /\ ev[t].timeout > 0
  BY <1>1 DEF TypeOK, EventType, Armed, htimer_reset
<1>3. PICK ms \in Millis \cup {ev[t].timeout} : \E l \in Lefts(ms) :
         ev' = [ev EXCEPT ![t] = Restarted(ev[t], ms, l)]
  BY DEF htimer_reset
<1>4. ms \in Nat /\ ms > 0  BY <1>2, EventLoopAssumption
<1>5. PICK l \in Lefts(ms) : ev' = [ev EXCEPT ![t] = Restarted(ev[t], ms, l)]
  BY <1>3
<1>6. l \in Int  BY <1>4, EventLoopAssumption DEF Lefts
<1> DEFINE y == EVENT_RESET(ev[t])
           n == IF ev[t].repeat = 0 THEN 1 ELSE ev[t].repeat
           x == [y EXCEPT !.timeout = ms, !.left = l, !.repeat = n]
<1>7. ev' = [ev EXCEPT ![t] = x]  BY <1>5 DEF Restarted
<1>8. /\ y \in EventType /\ y.live = ev[t].live /\ y.active /\ ~y.pending
      /\ ~y.destroy
  BY <1>2, Macros
<1>8a. n \in 0..INFINITE  BY <1>2, EventLoopAssumption DEF EventType
<1> HIDE DEF y, n
<1>9. /\ x \in EventType /\ x.live = ev[t].live /\ x.active /\ ~x.pending
      /\ ~x.destroy /\ x.timeout = ms
  BY <1>4, <1>6, <1>8, <1>8a DEF EventType
<1> HIDE DEF x
<1>10. /\ timers' = timers \cup {t} /\ ev[t].live /\ ev[t].active
       /\ ntimers' = IF ev[t].destroy THEN ntimers + 1 ELSE ntimers
       /\ owed' = owed \ {t} /\ phase \in {"start", "cb"}
       /\ UNCHANGED <<idles, pendings, nidles, npendings, nactives, lag, status,
                      phase, running, spent, readable>>
  BY DEF htimer_reset, loopVars, Calling
<1>11. /\ ev' \in [Events -> EventType] /\ ev'[t] = x
       /\ \A o \in Events \ {t} : ev'[o] = ev[o]
  BY <1>1, <1>7, <1>9 DEF TypeOK
<1>12. TypeOK'  BY <1>1, <1>10, <1>11 DEF TypeOK
<1>13. Once'  BY <1>10 DEF Once
<1>14. ByPhase'  BY <1>10 DEF ByPhase
<1>15. Bits'  BY <1>1, <1>9, <1>10, <1>11, Slots DEF Bits
<1>16. Armed'  BY <1>1, <1>4, <1>9, <1>10, <1>11, Slots DEF Armed, TypeOK
<1>17. NothingLost'  BY <1>1, <1>9, <1>10, <1>11 DEF NothingLost, TypeOK
<1>18. CountersExact'
  <2>1. ntimers' = Cardinality(timers')
    <3>1. ev[t].destroy <=> t \notin timers  BY <1>1, <1>10, Slots DEF Armed, TypeOK
    <3>2. timers \in SUBSET Events /\ ntimers = Cardinality(timers)
      BY <1>10, Slots DEF CountersExact, TypeOK
    <3> QED  BY <1>1, <1>10, <3>1, <3>2, ArmedChange
  <2>2. nactives' = Cardinality(Actives(ev'))
    <3>1. Actives(ev') = Actives(ev)  BY <1>9, <1>10, <1>11 DEF Actives
    <3> QED  BY <1>10, <3>1 DEF CountersExact, Actives
  <2> QED  BY <1>10, <2>1, <2>2 DEF CountersExact, Actives
<1>19. Dangling'
  BY <1>1, <1>9, <1>10, <1>11 DEF Dangling, NoDanglingPending
<1> QED  BY <1>12, <1>13, <1>14, <1>15, <1>16, <1>17, <1>18, <1>19

LEMMA IdleAddStep ==
    ASSUME IInv, NEW i \in Idles, hidle_add(i)
    PROVE  IInv'
<1> USE DEF IInv, Live, Linked
<1>1. i \in Events /\ i \notin Timers /\ i # Io /\ i \notin Timeouts  BY Slots
<1>2. PICK n \in Repeats : ev' = [ev EXCEPT ![i] = New(0, n, 0)]  BY DEF hidle_add
<1> DEFINE x == New(0, n, 0)
<1>3. /\ x \in EventType /\ x.active /\ ~x.pending /\ x.live /\ ~x.destroy
  BY EventLoopAssumption DEF New, EventType
<1>4. /\ ev' = [ev EXCEPT ![i] = x] /\ idles' = idles \cup {i}
      /\ ~ev[i].live /\ i \notin Range(pendings) /\ running # i
      /\ nidles' = nidles + 1 /\ nactives' = nactives + 1
      /\ phase \in {"start", "cb"}
      /\ UNCHANGED <<timers, pendings, ntimers, npendings, lag, owed, status,
                     phase, running, spent, readable>>
  BY <1>2 DEF hidle_add, loopVars, Calling
<1> HIDE DEF x
<1>5. /\ ev' \in [Events -> EventType] /\ ev'[i] = x
      /\ \A o \in Events \ {i} : ev'[o] = ev[o]
  BY <1>1, <1>3, <1>4 DEF TypeOK
<1>6. TypeOK'  BY <1>4, <1>5 DEF TypeOK
<1>7. Once'  BY <1>4 DEF Once
<1>8. ByPhase'  BY <1>4 DEF ByPhase
<1>9. Bits'  BY <1>1, <1>3, <1>4, <1>5, Slots DEF Bits
<1>10. Armed'  BY <1>1, <1>3, <1>4, <1>5, Slots DEF Armed, TypeOK
<1>11. NothingLost'  BY <1>1, <1>3, <1>4, <1>5 DEF NothingLost
<1>12. CountersExact'
  <2>1. nidles' = Cardinality(idles')
    <3>1. i \notin idles  BY <1>4 DEF Armed
    <3>2. idles \in SUBSET Events /\ nidles = Cardinality(idles)
      BY <1>4, Slots DEF CountersExact, TypeOK
    <3> QED  BY <1>1, <1>4, <3>1, <3>2, ArmedChange
  <2>2. nactives' = Cardinality(Actives(ev'))
    <3>1. ~ev[i].active  BY <1>1, <1>4 DEF Bits
    <3>2. nactives = Cardinality(Actives(ev)) /\ ev \in [Events -> EventType]
      BY <1>4 DEF CountersExact, Actives, TypeOK
    <3> QED  BY <1>1, <1>3, <1>4, <3>1, <3>2, ActivesChange
  <2> QED  BY <1>4, <2>1, <2>2 DEF CountersExact, Actives
<1>13. Dangling'
  BY <1>1, <1>3, <1>4, <1>5 DEF Dangling, NoDanglingPending
<1> QED  BY <1>6, <1>7, <1>8, <1>9, <1>10, <1>11, <1>12, <1>13

LEMMA IdleDelStep ==
    ASSUME IInv, NEW i \in Idles, hidle_del(i)
    PROVE  IInv'
<1> USE DEF IInv, Live, Linked
<1> DEFINE y == [ev[i] EXCEPT !.destroy = TRUE]
           x == EVENT_DEL(y)
<1>1. i \in Events /\ i \notin Timers /\ i # Io /\ i \notin Timeouts  BY Slots
<1>2. ev[i] \in EventType /\ ev[i].live /\ ev[i].active  BY <1>1 DEF TypeOK, hidle_del
<1>3. y \in EventType /\ y.destroy /\ y.live = ev[i].live /\ y.pending = ev[i].pending
  BY <1>2 DEF EventType
<1>4. /\ ev' = [ev EXCEPT ![i] = x] /\ idles' = idles \ {i}
      /\ nidles' = IF ev[i].destroy THEN nidles ELSE nidles - 1
      /\ nactives' = nactives - 1 /\ phase \in {"start", "cb"}
      /\ UNCHANGED <<timers, pendings, ntimers, npendings, lag, owed, status,
                     phase, running, spent, readable>>
  BY DEF hidle_del, loopVars, Calling
<1> HIDE DEF y
<1>5. /\ x \in EventType /\ ~x.active
      /\ x.pending = ev[i].pending
      /\ x.live <=> ev[i].pending
      /\ x.live => x.destroy
  <2>1. CASE y.pending  BY <1>2, <1>3, <2>1, Macros
  <2>2. CASE ~y.pending  BY <1>3, <2>2, Macros
  <2> QED  BY <2>1, <2>2
<1> HIDE DEF x
<1>6. /\ ev' \in [Events -> EventType] /\ ev'[i] = x
      /\ \A o \in Events \ {i} : ev'[o] = ev[o]
  BY <1>1, <1>4, <1>5 DEF TypeOK
<1>7. TypeOK'  BY <1>4, <1>6 DEF TypeOK
<1>8. Once'  BY <1>4 DEF Once
<1>9. ByPhase'  BY <1>4 DEF ByPhase
<1>10. Bits'  BY <1>1, <1>2, <1>4, <1>5, <1>6, Slots DEF Bits
<1>11. Armed'  BY <1>1, <1>4, <1>5, <1>6, Slots DEF Armed, TypeOK
<1>12. NothingLost'  BY <1>1, <1>2, <1>4, <1>5, <1>6 DEF NothingLost, Bits, TypeOK
<1>13. CountersExact'
  <2>1. nidles' = Cardinality(idles')
    <3>1. ev[i].destroy <=> i \notin idles  BY <1>1, <1>2, Slots DEF Armed, TypeOK
    <3>2. idles \in SUBSET Events /\ nidles = Cardinality(idles)
      BY <1>4, Slots DEF CountersExact, TypeOK
    <3> QED  BY <1>1, <1>4, <3>1, <3>2, ArmedChange
  <2>2. nactives' = Cardinality(Actives(ev'))
    <3>1. nactives = Cardinality(Actives(ev)) /\ ev \in [Events -> EventType]
      BY <1>4 DEF CountersExact, Actives, TypeOK
    <3> QED  BY <1>1, <1>2, <1>4, <1>5, <3>1, ActivesChange
  <2> QED  BY <1>4, <2>1, <2>2 DEF CountersExact, Actives
<1>14. Dangling'
  BY <1>1, <1>2, <1>4, <1>5, <1>6 DEF Dangling, NoDanglingPending, Bits
<1> QED  BY <1>7, <1>8, <1>9, <1>10, <1>11, <1>12, <1>13, <1>14

LEMMA SetIoStep ==
    ASSUME IInv, NEW active \in BOOLEAN, SetIo(active)
    PROVE  IInv'
<1> USE DEF IInv, Live, Linked
<1> DEFINE x == [ev[Io] EXCEPT !.active = active]
<1>1. Io \in Events /\ Io \notin Timers /\ Io \notin Idles /\ Io \notin Timeouts  BY Slots
<1>2. ev[Io] \in EventType /\ ev[Io].active # active  BY <1>1 DEF TypeOK, SetIo
<1>3. /\ x \in EventType /\ x.active = active /\ x.live = ev[Io].live
      /\ x.pending = ev[Io].pending /\ x.destroy = ev[Io].destroy
  BY <1>2 DEF EventType
<1>4. /\ ev' = [ev EXCEPT ![Io] = x]
      /\ nactives' = IF active THEN nactives + 1 ELSE nactives - 1
      /\ phase \in {"start", "cb"}
      /\ UNCHANGED <<timers, idles, pendings, ntimers, nidles, npendings, lag, owed,
                     status, phase, running, spent, readable>>
  BY <1>1 DEF SetIo, loopVars, Calling, TypeOK
<1> HIDE DEF x
<1>5. /\ ev' \in [Events -> EventType] /\ ev'[Io] = x
      /\ \A o \in Events \ {Io} : ev'[o] = ev[o]
  BY <1>1, <1>3, <1>4 DEF TypeOK
<1>6. TypeOK'  BY <1>4, <1>5 DEF TypeOK
<1>7. Once'  BY <1>4 DEF Once
<1>8. ByPhase'  BY <1>4 DEF ByPhase
<1>9. Bits'
  <2>1. ev[Io].live  BY <1>4 DEF Armed
  <2> QED  BY <1>1, <1>3, <1>4, <1>5, <2>1, Slots DEF Bits
<1>10. Armed'
  <2>1. Io \notin timers \cup idles  BY <1>1 DEF TypeOK
  <2> QED  BY <1>1, <1>3, <1>4, <1>5, <2>1, Slots DEF Armed, TypeOK
<1>11. NothingLost'  BY <1>1, <1>3, <1>4, <1>5 DEF NothingLost
<1>12. CountersExact'
  <2>1. nactives = Cardinality(Actives(ev)) /\ ev \in [Events -> EventType]
    BY <1>4 DEF CountersExact, Actives, TypeOK
  <2>2. nactives' = Cardinality(Actives(ev'))
    <3>1. CASE active
      <4>1. ~ev[Io].active /\ x.active  BY <1>2, <1>3, <3>1 DEF EventType
      <4> QED  BY <1>1, <1>3, <1>4, <2>1, <3>1, <4>1, ActivesChange
    <3>2. CASE ~active
      <4>1. ev[Io].active /\ ~x.active  BY <1>2, <1>3, <3>2 DEF EventType
      <4> QED  BY <1>1, <1>3, <1>4, <2>1, <3>2, <4>1, ActivesChange
    <3> QED  BY <3>1, <3>2
  <2> QED  BY <1>4, <2>2 DEF CountersExact, Actives
<1>13. Dangling'
  BY <1>1, <1>3, <1>4, <1>5 DEF Dangling, NoDanglingPending
<1> QED  BY <1>6, <1>7, <1>8, <1>9, <1>10, <1>11, <1>12, <1>13

-----------------------------------------------------------------------------
(* The steps of the loop.                                                  *)

\* A step that moves only between phases in which loop->pendings holds at
\* most the hio_t, or that changes no phase.
LEMMA ControlStep ==
    ASSUME IInv, UNCHANGED <<ev, timers, idles, pendings, counters, running, owed, lag, spent>>,
           status' \in {"STOP", "RUNNING"}, readable' \in BOOLEAN,
           phase' \in Phases,
           \/ phase' = phase
           \/ {phase, phase'} \cap {"timers", "pendings", "cb", "freed"} = {}
    PROVE  IInv'
<1> USE DEF IInv, Live, Linked, counters
<1>1. TypeOK'  BY DEF TypeOK
<1>2. Once'  BY DEF Once
<1>3. ByPhase'  BY DEF ByPhase
<1>4. Bits'  BY DEF Bits
<1>5. Armed'  BY DEF Armed
<1>6. NothingLost'  BY DEF NothingLost
<1>7. CountersExact'  BY DEF CountersExact
<1>8. Dangling'
  <2>1. phase' = "freed" <=> phase = "freed"  OBVIOUS
  <2> QED  BY <2>1 DEF Dangling, NoDanglingPending
<1> QED  BY <1>1, <1>2, <1>3, <1>4, <1>5, <1>6, <1>7, <1>8

LEMMA ControlSteps ==
    ASSUME IInv, hloop_stop \/ hloop_run \/ While \/ LeaveRun \/ Arrive
    PROVE  IInv'
<1> USE DEF IInv, TypeOK, Phases, lists
<1>1. CASE hloop_stop  BY <1>1, ControlStep DEF hloop_stop
<1>2. CASE hloop_run  BY <1>2, ControlStep DEF hloop_run, Goto
<1>3. CASE While  BY <1>3, ControlStep DEF While
<1>4. CASE LeaveRun  BY <1>4, ControlStep DEF LeaveRun, Goto
<1>5. CASE Arrive  BY <1>5, ControlStep DEF Arrive
<1> QED  BY <1>1, <1>2, <1>3, <1>4, <1>5

LEMMA SkipPollStep ==
    ASSUME IInv, SkipPoll
    PROVE  IInv'
<1> USE DEF IInv, Live, Linked, counters, lists
<1>1. /\ phase = "events" /\ phase' = "timers"
      /\ ev' = Updated(lag) /\ lag' = 0 /\ spent' = 0
      /\ UNCHANGED <<timers, idles, pendings, counters, status, running, readable, owed>>
  BY DEF SkipPoll, Goto
<1>2. /\ ev' \in [Events -> EventType]
      /\ \A e \in Events :
            /\ ev'[e].live = ev[e].live /\ ev'[e].active = ev[e].active
            /\ ev'[e].pending = ev[e].pending /\ ev'[e].destroy = ev[e].destroy
            /\ ev'[e].timeout = ev[e].timeout
      /\ Actives(ev') = Actives(ev)
  BY <1>1, UpdatedKeeps DEF TypeOK
<1>3. Range(pendings) \subseteq {Io}  BY <1>1 DEF ByPhase
<1>4. TypeOK'  BY <1>1, <1>2, EventLoopAssumption DEF TypeOK, Phases
<1>5. Once'  BY <1>1 DEF Once
<1>6. ByPhase'  BY <1>1, <1>3, Slots DEF ByPhase, TypeOK
<1>7. Bits'  BY <1>1, <1>2, Slots DEF Bits
<1>8. Armed'
  <2>1. timers \cup idles \subseteq Events  BY Slots DEF TypeOK
  <2> QED  BY <1>1, <1>2, <2>1, Slots DEF Armed
<1>9. NothingLost'  BY <1>1, <1>2 DEF NothingLost
<1>10. CountersExact'  BY <1>1, <1>2 DEF CountersExact, Actives
<1>11. Dangling'  BY <1>1, <1>2 DEF Dangling, NoDanglingPending
<1> QED  BY <1>4, <1>5, <1>6, <1>7, <1>8, <1>9, <1>10, <1>11

\* The event after the clock has been updated; the hio_t may have become
\* pending, and then it was not linked.
LEMMA PollStep ==
    ASSUME IInv, Poll
    PROVE  IInv'
<1> USE DEF IInv, Live, Linked
<1>1. PICK d \in 0..(MaxBlock + MaxLag) : PollFor(d)  BY DEF Poll
<1>2. lag + d \in Int  BY EventLoopAssumption DEF TypeOK
<1> DEFINE f == Updated(lag + d)
           x == [f[Io] EXCEPT !.pending = TRUE]
<1>3. Io \in Events /\ Io \notin Timers /\ Io \notin Idles /\ Io \notin Timeouts  BY Slots
<1>4. /\ f \in [Events -> EventType]
      /\ \A e \in Events :
            /\ f[e].live = ev[e].live /\ f[e].active = ev[e].active
            /\ f[e].pending = ev[e].pending /\ f[e].destroy = ev[e].destroy
            /\ f[e].timeout = ev[e].timeout
      /\ Actives(f) = Actives(ev)
  BY <1>2, UpdatedKeeps DEF TypeOK
<1>5. /\ phase = "events" /\ phase' \in {"while", "leave", "timers"}
      /\ lag' = 0 /\ spent' = 0
      /\ UNCHANGED <<timers, idles, ntimers, nidles, nactives, status, running,
                     readable, owed>>
  BY <1>1 DEF PollFor, Returned
<1>6. \/ ev' = f /\ UNCHANGED <<pendings, npendings>>
      \/ /\ ev' = [f EXCEPT ![Io] = x] /\ pendings' = EVENT_PENDING(pendings, Io)
         /\ npendings' = npendings + 1 /\ ~ev[Io].pending
  <2>1. CASE readable /\ ev[Io].active /\ ~ev[Io].pending
    <3>1. /\ ev' = [f EXCEPT ![Io].pending = TRUE]
          /\ pendings' = EVENT_PENDING(pendings, Io)
          /\ npendings' = npendings + 1
      BY <1>1, <2>1 DEF PollFor
    <3> HIDE DEF f
    <3>2. ev' = [f EXCEPT ![Io] = x]  BY <1>3, <1>4, <3>1
    <3> QED  BY <2>1, <3>1, <3>2
  <2>2. CASE ~(readable /\ ev[Io].active /\ ~ev[Io].pending)
    BY <1>1, <2>2 DEF PollFor
  <2> QED  BY <2>1, <2>2
<1> HIDE DEF f
<1>7. /\ x \in EventType /\ x.pending /\ x.live = f[Io].live
      /\ x.active = f[Io].active /\ x.destroy = f[Io].destroy
      /\ x.timeout = f[Io].timeout
  BY <1>3, <1>4 DEF EventType
<1> HIDE DEF x
<1>8. Range(pendings) \subseteq {Io} /\ running = None /\ pendings \in Seq(Events)
  BY <1>5 DEF ByPhase, Once, TypeOK
<1>9. Live(Io)  BY <1>5 DEF Armed
<1>10. CASE ev' = f /\ UNCHANGED <<pendings, npendings>>
  <2>1. TypeOK'  BY <1>4, <1>5, <1>10, EventLoopAssumption DEF TypeOK, Phases
  <2>2. Once'  BY <1>5, <1>10 DEF Once
  <2>3. ByPhase'  BY <1>5, <1>8, <1>10, Slots DEF ByPhase, TypeOK
  <2>4. Bits'  BY <1>4, <1>5, <1>10, Slots DEF Bits
  <2>5. Armed'
    <3>1. timers \cup idles \subseteq Events  BY Slots DEF TypeOK
    <3> QED  BY <1>4, <1>5, <1>10, <3>1, Slots DEF Armed
  <2>6. NothingLost'  BY <1>4, <1>5, <1>10 DEF NothingLost
  <2>7. CountersExact'  BY <1>4, <1>5, <1>10 DEF CountersExact, Actives
  <2>8. Dangling'  BY <1>4, <1>5, <1>10 DEF Dangling, NoDanglingPending
  <2> QED  BY <2>1, <2>2, <2>3, <2>4, <2>5, <2>6, <2>7, <2>8
<1>11. CASE /\ ev' = [f EXCEPT ![Io] = x] /\ pendings' = EVENT_PENDING(pendings, Io)
            /\ npendings' = npendings + 1 /\ ~ev[Io].pending
  <2>1. Io \notin Range(pendings)  BY <1>3, <1>9, <1>11 DEF Bits
  <2>2. /\ pendings' \in Seq(Events) /\ Len(pendings') = Len(pendings) + 1
        /\ Range(pendings') = Range(pendings) \cup {Io}
        /\ IsInjective(pendings')
    BY <1>3, <1>8, <1>11, <2>1, PendingAdds DEF Once
  <2>3. /\ ev' \in [Events -> EventType] /\ ev'[Io] = x
        /\ \A o \in Events \ {Io} : ev'[o] = f[o]
    BY <1>3, <1>4, <1>7, <1>11
  <2>4. TypeOK'  BY <1>5, <1>11, <2>2, <2>3, EventLoopAssumption DEF TypeOK, Phases
  <2>5. Once'  BY <1>3, <1>5, <1>8, <2>2, Slots DEF Once
  <2>6. ByPhase'  BY <1>3, <1>5, <1>8, <2>2, Slots DEF ByPhase, TypeOK
  <2>7. Bits'
    <3>1. \A e \in Events : Linked(e)' <=> Linked(e) \/ e = Io  BY <1>5, <1>8, <2>2
    <3> QED  BY <1>3, <1>4, <1>5, <1>7, <1>9, <2>2, <2>3, <3>1, Slots DEF Bits
  <2>8. Armed'
    <3>1. timers \cup idles \subseteq Events \ {Io}  BY <1>3, Slots DEF TypeOK
    <3> QED  BY <1>3, <1>4, <1>5, <1>7, <2>3, <3>1, Slots DEF Armed
  <2>9. NothingLost'  BY <1>3, <1>4, <1>5, <2>2, <2>3 DEF NothingLost
  <2>10. CountersExact'
    <3>1. Cardinality(Actives(ev')) = Cardinality(Actives(f))
      BY <1>3, <1>4, <1>7, <1>11, ActivesChange
    <3>2. npendings = Len(pendings) /\ nactives = Cardinality(Actives(ev))
      BY <1>5 DEF CountersExact, Actives
    <3> QED  BY <1>4, <1>5, <1>11, <2>2, <3>1, <3>2 DEF CountersExact, Actives
  <2>11. Dangling'
    BY <1>3, <1>4, <1>5, <1>7, <1>9, <2>2, <2>3 DEF Dangling, NoDanglingPending
  <2> QED  BY <2>4, <2>5, <2>6, <2>7, <2>8, <2>9, <2>10, <2>11
<1> QED  BY <1>6, <1>10, <1>11

\* A timer that is due is not linked, so it is linked only once.
LEMMA TimerStep ==
    ASSUME IInv, NEW t \in Timers, process_timers(t)
    PROVE  IInv'
<1> USE DEF IInv, Live, Linked
<1> DEFINE y == Fired(ev[t])
<1>1. t \in Events /\ t \notin Idles /\ t # Io  BY Slots
<1>2. /\ phase = "timers" /\ t \in timers /\ ev[t].left <= 0 /\ ev[t].left \in Int
      /\ ev[t] \in EventType /\ ev[t].live /\ ev[t].active /\ running = None
  <2>1. phase = "timers" /\ t \in timers /\ ev[t].left <= 0  BY DEF process_timers, Due
  <2>2. ev[t] \in EventType  BY <1>1 DEF TypeOK
  <2>3. ev[t].left \in Int  BY <2>2 DEF EventType
  <2> QED  BY <2>1, <2>2, <2>3 DEF Armed, Once
<1>3. t \notin Range(pendings)  BY <1>2, Slots DEF ByPhase, TypeOK
<1>4. /\ pendings' = EVENT_PENDING(pendings, t) /\ npendings' = npendings + 1
      /\ owed' = owed \cup {t}
      /\ UNCHANGED <<idles, nidles, nactives, status, phase, running, lag, spent,
                     readable>>
  BY DEF process_timers
<1>5. \/ /\ ev' = [ev EXCEPT ![t] = Unarmed(y)]
         /\ timers' = timers \ {t} /\ ntimers' = ntimers - 1
      \/ /\ \E l \in NextLefts(t) : ev' = [ev EXCEPT ![t] = [y EXCEPT !.left = l]]
         /\ UNCHANGED <<timers, ntimers>>
  BY DEF process_timers
<1>6. Count(ev[t].repeat) \in 0..INFINITE
  <2>1. ev[t].repeat \in 0..INFINITE /\ INFINITE \in Nat
    BY <1>2, EventLoopAssumption DEF EventType
  <2> QED  BY <2>1 DEF Count
<1>7. /\ y \in EventType /\ y.pending /\ y.live /\ y.active
      /\ y.destroy = ev[t].destroy /\ y.timeout = ev[t].timeout
  BY <1>2, <1>6 DEF EventType, Fired
<1> HIDE DEF y
<1>8. /\ pendings' \in Seq(Events) /\ Len(pendings') = Len(pendings) + 1
      /\ Range(pendings') = Range(pendings) \cup {t}
      /\ IsInjective(pendings')
  BY <1>1, <1>3, <1>4, PendingAdds DEF Once, TypeOK
<1>9. PICK x \in EventType :
        /\ ev' = [ev EXCEPT ![t] = x] /\ x.pending /\ x.live /\ x.active
        /\ x.timeout = ev[t].timeout
        /\ \/ x.destroy /\ timers' = timers \ {t} /\ ntimers' = ntimers - 1
           \/ ~x.destroy /\ x.left > 0 /\ UNCHANGED <<timers, ntimers>>
  <2>1. CASE /\ ev' = [ev EXCEPT ![t] = Unarmed(y)]
             /\ timers' = timers \ {t} /\ ntimers' = ntimers - 1
    <3> DEFINE z == Unarmed(y)
    <3>1. /\ z \in EventType /\ z.destroy /\ z.live = y.live /\ z.active = y.active
          /\ z.pending = y.pending /\ z.timeout = y.timeout
      BY <1>7, Macros
    <3>2. ev' = [ev EXCEPT ![t] = z]  BY <2>1
    <3> HIDE DEF z
    <3> QED  BY <1>7, <2>1, <3>1, <3>2
  <2>2. CASE /\ \E l \in NextLefts(t) : ev' = [ev EXCEPT ![t] = [y EXCEPT !.left = l]]
             /\ UNCHANGED <<timers, ntimers>>
    <3>1. PICK l \in NextLefts(t) : ev' = [ev EXCEPT ![t] = [y EXCEPT !.left = l]]
      BY <2>2
    <3>2. l \in Int /\ l > 0
      <4>1. CASE t \in Periods
        <5>1. l \in Millis  BY <4>1 DEF NextLefts
        <5> QED  BY <5>1, EventLoopAssumption
      <4>2. CASE t \notin Periods
        <5>1. ev[t].timeout \in Nat /\ ev[t].timeout > 0
          BY <1>1, <1>2, <4>2 DEF Armed, Timers, EventType
        <5>2. l = ((ev[t].left - 1) % ev[t].timeout) + 1  BY <4>2 DEF NextLefts
        <5>3. (ev[t].left - 1) % ev[t].timeout \in 0..(ev[t].timeout - 1)
          BY <1>2, <5>1
        <5> QED  BY <5>1, <5>2, <5>3
      <4> QED  BY <4>1, <4>2
    <3>3. ~ev[t].destroy  BY <1>1, <1>2, Slots DEF Armed
    <3> DEFINE z == [y EXCEPT !.left = l]
    <3>4. /\ z \in EventType /\ z.left = l /\ z.live = y.live /\ z.active = y.active
          /\ z.pending = y.pending /\ z.destroy = y.destroy /\ z.timeout = y.timeout
      BY <1>7, <3>2, LeftSet
    <3>5. ev' = [ev EXCEPT ![t] = z]  BY <3>1
    <3> HIDE DEF z
    <3> QED  BY <1>7, <2>2, <3>2, <3>3, <3>4, <3>5
  <2> QED  BY <1>5, <2>1, <2>2
<1>10. /\ ev' \in [Events -> EventType] /\ ev'[t] = x
       /\ \A o \in Events \ {t} : ev'[o] = ev[o]
  BY <1>1, <1>9 DEF TypeOK
<1>11. timers' \subseteq timers /\ timers' \cup {t} = timers  BY <1>2, <1>9
<1>12. TypeOK'  BY <1>1, <1>4, <1>8, <1>9, <1>10, <1>11 DEF TypeOK
<1>13. Once'  BY <1>1, <1>2, <1>4, <1>8, Slots DEF Once
<1>14. ByPhase'
  BY <1>1, <1>2, <1>4, <1>8, <1>9, <1>10, <1>11, Slots DEF ByPhase, TypeOK
<1>15. Bits'  BY <1>1, <1>2, <1>4, <1>8, <1>9, <1>10, Slots DEF Bits
<1>16. Armed'
  <2>1. timers \cup idles \subseteq Events /\ t \notin idles  BY <1>1, Slots DEF TypeOK
  <2> QED  BY <1>1, <1>2, <1>4, <1>9, <1>10, <2>1, Slots DEF Armed
<1>17. NothingLost'
  <2>1. \A e \in Events \ {t} : e \in timers' <=> e \in timers  BY <1>9
  <2>2. ASSUME NEW e \in Events \ {t}, Live(e)'
        PROVE  \/ e \in (timers \cup idles \cup {Io})'
               \/ Linked(e)' /\ ev'[e].pending /\ ev'[e].destroy
    BY <1>4, <1>8, <1>10, <2>1, <2>2 DEF NothingLost
  <2>3. \/ t \in timers'
        \/ Linked(t)' /\ ev'[t].pending /\ ev'[t].destroy
    BY <1>2, <1>8, <1>9, <1>10
  <2> QED  BY <2>2, <2>3 DEF NothingLost
<1>18. CountersExact'
  <2>1. ntimers' = Cardinality(timers')
    <3>1. timers \in SUBSET Events /\ ntimers = Cardinality(timers)
      BY <1>2, Slots DEF CountersExact, TypeOK
    <3> QED  BY <1>1, <1>2, <1>9, <3>1, ArmedChange
  <2>2. nactives' = Cardinality(Actives(ev'))
    <3>1. Actives(ev') = Actives(ev)  BY <1>2, <1>9, <1>10 DEF Actives
    <3> QED  BY <1>2, <1>4, <3>1 DEF CountersExact, Actives
  <2> QED  BY <1>2, <1>4, <1>8, <2>1, <2>2 DEF CountersExact, Actives
<1>19. Dangling'
  BY <1>1, <1>2, <1>4, <1>8, <1>9, <1>10 DEF Dangling, NoDanglingPending
<1> QED  BY <1>12, <1>13, <1>14, <1>15, <1>16, <1>17, <1>18, <1>19

LEMMA TimersDoneStep ==
    ASSUME IInv, TimersDone
    PROVE  IInv'
<1> USE DEF IInv, Live, Linked, counters, lists
<1>1. /\ phase = "timers" /\ phase' = "pendings"
      /\ UNCHANGED <<ev, timers, idles, pendings, counters, status, running, lag,
                     spent, readable, owed>>
  BY DEF TimersDone, Goto
<1>2. TypeOK'  BY <1>1 DEF TypeOK, Phases
<1>3. Once'  BY <1>1 DEF Once
<1>4. ByPhase'  BY <1>1 DEF ByPhase
<1>5. Bits'  BY <1>1 DEF Bits
<1>6. Armed'  BY <1>1 DEF Armed
<1>7. NothingLost'  BY <1>1 DEF NothingLost
<1>8. CountersExact'  BY <1>1 DEF CountersExact
<1>9. Dangling'  BY <1>1 DEF Dangling, NoDanglingPending
<1> QED  BY <1>2, <1>3, <1>4, <1>5, <1>6, <1>7, <1>8, <1>9

LEMMA IdlesStep ==
    ASSUME IInv, process_idles
    PROVE  IInv'
<1> USE DEF IInv, Live, Linked
<1>1. /\ phase = "timers" /\ phase' = "pendings" /\ npendings = 0
      /\ ev' = [e \in Events |->
                  IF e \in idles
                  THEN [Fired(ev[e]) EXCEPT !.destroy = (e \in LastIdles)]
                  ELSE ev[e]]
      /\ idles' = idles \ LastIdles /\ nidles' = nidles - Cardinality(LastIdles)
      /\ pendings' \in Bijection(1..nidles, idles) /\ npendings' = nidles
      /\ UNCHANGED <<timers, ntimers, nactives, status, running, lag, spent,
                     readable, owed>>
  BY DEF process_idles, Goto
<1>2. /\ idles \in SUBSET Events /\ idles \subseteq Idles /\ LastIdles \subseteq idles
      /\ idles \cap (Timers \cup {Io}) = {} /\ running = None
  BY <1>1, Slots DEF TypeOK, LastIdles, Once
<1>3. /\ nidles = Cardinality(idles) /\ nidles \in Nat /\ IsFiniteSet(idles)
  <2>1. nidles = Cardinality(idles)  BY <1>1 DEF CountersExact
  <2>2. IsFiniteSet(idles) /\ Cardinality(idles) \in Nat
    BY <1>2, EventLoopAssumption, FS_Subset, FS_CardinalityType
  <2> QED  BY <2>1, <2>2
<1>4. pendings = << >> /\ Range(pendings) = {}
  <2>1. Len(pendings) = 0 /\ pendings \in Seq(Events)  BY <1>1 DEF CountersExact, TypeOK
  <2>2. pendings = << >>  BY <2>1
  <2> QED  BY <2>2 DEF Range
<1>5. /\ pendings' \in Seq(Events) /\ Len(pendings') = nidles
      /\ Range(pendings') = idles /\ IsInjective(pendings')
  <2>1. pendings' \in [1..nidles -> idles]  BY <1>1 DEF Bijection, Injection
  <2>2. pendings' \in Seq(Events) /\ Len(pendings') = nidles  BY <1>2, <1>3, <2>1
  <2>3. IsInjective(pendings')  BY <1>1 DEF Bijection, Injection
  <2>4. Range(pendings') = idles
    <3>1. \A i \in idles : \E k \in 1..nidles : pendings'[k] = i
      BY <1>1 DEF Bijection, Surjection
    <3> QED  BY <2>1, <3>1 DEF Range
  <2> QED  BY <2>2, <2>3, <2>4
<1>6. ASSUME NEW i \in idles
      PROVE  /\ ev'[i] \in EventType /\ ev'[i].pending
             /\ ev'[i].live = ev[i].live /\ ev'[i].active = ev[i].active
             /\ ev'[i].destroy <=> i \in LastIdles
  <2> DEFINE y == Fired(ev[i])
  <2>1. i \in Events /\ ev[i] \in EventType  BY <1>2 DEF TypeOK
  <2>2. Count(ev[i].repeat) \in 0..INFINITE
    <3>1. ev[i].repeat \in 0..INFINITE /\ INFINITE \in Nat
      BY <2>1, EventLoopAssumption DEF EventType
    <3> QED  BY <3>1 DEF Count
  <2>3. y \in EventType /\ y.pending /\ y.live = ev[i].live /\ y.active = ev[i].active
    BY <2>1, <2>2 DEF EventType, Fired
  <2>4. ev'[i] = [y EXCEPT !.destroy = (i \in LastIdles)]  BY <1>1, <2>1
  <2>5. (i \in LastIdles) \in BOOLEAN  OBVIOUS
  <2> HIDE DEF y
  <2> QED  BY <2>3, <2>4, <2>5 DEF EventType
<1>7. \A e \in Events \ idles : ev'[e] = ev[e]  BY <1>1
<1>8. ev' \in [Events -> EventType]
  <2>1. \A e \in Events : ev'[e] \in EventType  BY <1>6, <1>7 DEF TypeOK
  <2> QED  BY <1>1, <2>1
<1>9. TypeOK'
  <2>1. nidles' \in Int
    BY <1>1, <1>2, <1>3, FS_Subset, FS_CardinalityType
  <2> QED  BY <1>1, <1>2, <1>3, <1>5, <1>8, <2>1 DEF TypeOK, Phases
<1>10. Once'  BY <1>1, <1>2, <1>5, Slots DEF Once
<1>11. ByPhase'  BY <1>1 DEF ByPhase
<1>12. Bits'
  <2>1. \A e \in Events : ~Linked(e)  BY <1>2, <1>4, Slots
  <2>2. \A e \in Events : Linked(e)' <=> e \in idles  BY <1>1, <1>2, <1>5, Slots
  <2>3. \A i \in idles : ev[i].live /\ ev[i].active  BY DEF Armed
  <2>4. ASSUME NEW e \in Events
        PROVE  /\ ev'[e].pending => Linked(e)'
               /\ ~Live(e)' => ~ev'[e].pending /\ ~ev'[e].active
               /\ Live(e)' /\ Linked(e)' => ev'[e].pending
    <3>1. CASE e \in idles  BY <1>6, <2>2, <2>3, <3>1
    <3>2. CASE e \notin idles  BY <1>7, <2>1, <2>2, <3>2 DEF Bits
    <3> QED  BY <3>1, <3>2
  <2>5. \A t \in Timers : t \notin Range(pendings')  BY <1>2, <1>5
  <2> QED  BY <2>4, <2>5 DEF Bits
<1>13. Armed'
  <2>1. \A i \in idles : ev[i].live /\ ev[i].active  BY DEF Armed
  <2>2. \A e \in (timers \cup idles)' : (Live(e) /\ ev[e].active)'
    BY <1>1, <1>2, <1>6, <1>7, <2>1, Slots DEF Armed, TypeOK
  <2>3. ASSUME NEW e \in Timers \cup Idles, Live(e)'
        PROVE  ev'[e].destroy <=> e \notin (timers \cup idles)'
    <3>1. CASE e \in idles  BY <1>1, <1>2, <1>6, <3>1, Slots DEF TypeOK
    <3>2. CASE e \notin idles  BY <1>1, <1>7, <2>3, <3>2, Slots DEF Armed, TypeOK
    <3> QED  BY <3>1, <3>2
  <2> QED  BY <1>1, <1>2, <1>7, <2>2, <2>3, Slots DEF Armed
<1>14. NothingLost'
  <2>1. ASSUME NEW e \in Events, Live(e)'
        PROVE  \/ e \in (timers \cup idles \cup {Io})'
               \/ Linked(e)' /\ ev'[e].pending /\ ev'[e].destroy
    <3>1. CASE e \in idles  BY <1>1, <1>5, <1>6, <3>1
    <3>2. CASE e \notin idles
      BY <1>1, <1>2, <1>4, <1>7, <2>1, <3>2, Slots DEF NothingLost
    <3> QED  BY <3>1, <3>2
  <2> QED  BY <2>1 DEF NothingLost
<1>15. CountersExact'
  <2>1. nidles' = Cardinality(idles')
    <3>1. idles \cap LastIdles = LastIdles  BY <1>2
    <3>2. Cardinality(idles \ LastIdles)
             = Cardinality(idles) - Cardinality(idles \cap LastIdles)
      BY <1>3, FS_Difference
    <3> QED  BY <1>1, <1>3, <3>1, <3>2
  <2>2. Actives(ev') = Actives(ev)  BY <1>2, <1>6, <1>7 DEF Actives
  <2> QED  BY <1>1, <2>1, <2>2 DEF CountersExact, Actives
<1>16. Dangling'
  BY <1>1, <1>2, <1>5, <1>6, Slots DEF Dangling, NoDanglingPending, Armed
<1> QED  BY <1>9, <1>10, <1>11, <1>12, <1>13, <1>14, <1>15, <1>16

LEMMA RunStep ==
    ASSUME IInv, RunCallback
    PROVE  IInv'
<1> USE DEF IInv, Live, Linked, counters
<1>1. /\ phase = "pendings" /\ phase' = "cb" /\ running' = Head(pendings)
      /\ pendings' = Tail(pendings) /\ pendings # << >>
      /\ readable' = (readable /\ Head(pendings) # Io) /\ owed' = owed \ {Head(pendings)}
      /\ UNCHANGED <<ev, timers, idles, ntimers, nidles, npendings, nactives,
                     status, lag, spent>>
  BY DEF RunCallback, Invoke, Visiting, Cur
<1>2. /\ Head(pendings) \in Events /\ Head(pendings) \in Range(pendings)
      /\ pendings' \in Seq(Events)
      /\ Range(pendings) = Range(pendings') \cup {Head(pendings)}
      /\ IsInjective(pendings') /\ Head(pendings) \notin Range(pendings')
  BY <1>1, PendingTakes DEF Once, TypeOK
<1>3. running = None  BY <1>1 DEF Once
<1>4. \A e \in Events : Linked(e)' <=> Linked(e)  BY <1>1, <1>2, <1>3, Slots
<1>5. TypeOK'
  <2>1. readable' \in BOOLEAN  BY <1>1
  <2> QED  BY <1>1, <1>2, <2>1 DEF TypeOK, Phases
<1>6. Once'  BY <1>1, <1>2, Slots DEF Once
<1>7. ByPhase'  BY <1>1 DEF ByPhase
<1>8. Bits'  BY <1>1, <1>2, <1>4 DEF Bits
<1>9. Armed'  BY <1>1 DEF Armed
<1>10. NothingLost'  BY <1>1, <1>4 DEF NothingLost
<1>11. CountersExact'  BY <1>1 DEF CountersExact
<1>12. Dangling'  BY <1>1, <1>4 DEF Dangling, NoDanglingPending
<1> QED  BY <1>5, <1>6, <1>7, <1>8, <1>9, <1>10, <1>11, <1>12

\* The event e is done with: it leaves the list, or its callback returns.
LEMMA FinishStep ==
    ASSUME IInv, NEW e \in Events, Finish(e), Live(e),
           phase \in {"pendings", "cb"}, phase' = "pendings",
           pendings' \in Seq(Events), IsInjective(pendings'), running' = None,
           e \notin Range(pendings'),
           \A o \in Events \ {e} : Linked(o)' <=> Linked(o),
           UNCHANGED <<timers, idles, ntimers, nidles, npendings, status,
                       readable, owed>>,
           Range(pendings') \subseteq Range(pendings),
           lag' \in Nat, spent' \in 0..MaxLag
    PROVE  IInv'
<1> USE DEF IInv, Live
<1> DEFINE x == Done(ev[e])
<1>1. /\ ev' = [ev EXCEPT ![e] = x]
      /\ nactives' = IF ev[e].destroy /\ ev[e].active THEN nactives - 1 ELSE nactives
  BY DEF Finish
<1>2. ev[e] \in EventType  BY DEF TypeOK
<1>3. /\ x \in EventType /\ ~x.pending
      /\ ev[e].destroy => ~x.live /\ ~x.active
      /\ ~ev[e].destroy => /\ x.live = ev[e].live /\ x.active = ev[e].active
                           /\ ~x.destroy /\ x.timeout = ev[e].timeout
  <2>1. CASE ev[e].destroy  BY <1>2, <2>1, Macros
  <2>2. CASE ~ev[e].destroy  BY <1>2, <2>2, Macros
  <2> QED  BY <2>1, <2>2
<1> HIDE DEF x
<1>4. /\ ev' \in [Events -> EventType] /\ ev'[e] = x
      /\ \A o \in Events \ {e} : ev'[o] = ev[o]
  BY <1>1, <1>3 DEF TypeOK
<1>5. ~Linked(e)'  BY Slots DEF Linked
<1>6. Live(e)' => ~ev[e].destroy  BY <1>3, <1>4
<1>7. ev[e].destroy => e \notin timers \cup idles
  BY <1>2, Slots DEF Armed, TypeOK
<1>8. TypeOK'
  BY <1>1, <1>4 DEF TypeOK, Phases
<1>9. Once'
  <2>1. None \notin Range(pendings')  BY Slots DEF Range
  <2> QED  BY <2>1 DEF Once
<1>10. ByPhase'  BY DEF ByPhase
<1>11. Bits'
  <2>1. ASSUME NEW o \in Events
        PROVE  /\ ev'[o].pending => Linked(o)'
               /\ ~Live(o)' => ~ev'[o].pending /\ ~ev'[o].active
               /\ o \notin Timeouts /\ Live(o)' /\ Linked(o)' => ev'[o].pending
    <3>1. CASE o = e  BY <1>3, <1>4, <1>5, <3>1
    <3>2. CASE o # e  BY <1>4, <3>2 DEF Bits
    <3> QED  BY <3>1, <3>2
  <2>2. \A t \in Timers : t \in Range(pendings') /\ ev'[t].pending => t \in owed'
    BY <1>3, <1>4, Slots DEF Bits
  <2> QED  BY <2>1, <2>2 DEF Bits
<1>12. Armed'
  <2>1. ASSUME NEW o \in timers \cup idles
        PROVE  Live(o)' /\ ev'[o].active
    BY <1>3, <1>4, <1>7, Slots DEF Armed, TypeOK
  <2>2. ASSUME NEW o \in Timers \cup Idles, Live(o)'
        PROVE  ev'[o].destroy <=> o \notin timers \cup idles
    <3>1. CASE o = e  BY <1>3, <1>4, <1>6, <2>2, <3>1 DEF Armed
    <3>2. CASE o # e  BY <1>4, <2>2, <3>2, Slots DEF Armed
    <3> QED  BY <3>1, <3>2
  <2>3. \A t \in Timeouts : Live(t)' => ev'[t].timeout > 0
    BY <1>3, <1>4, <1>6, Slots DEF Armed
  <2>4. ~ev'[Io].destroy /\ Live(Io)'  BY <1>3, <1>4, Slots DEF Armed
  <2> QED  BY <2>1, <2>2, <2>3, <2>4 DEF Armed
<1>13. NothingLost'
  <2>1. ASSUME NEW o \in Events, Live(o)'
        PROVE  \/ o \in timers \cup idles \cup {Io}
               \/ Linked(o)' /\ ev'[o].pending /\ ev'[o].destroy
    <3>1. CASE o = e  BY <1>6, <2>1, <3>1 DEF NothingLost
    <3>2. CASE o # e  BY <1>4, <2>1, <3>2 DEF NothingLost
    <3> QED  BY <3>1, <3>2
  <2> QED  BY <2>1 DEF NothingLost
<1>14. CountersExact'
  <2>1. nactives = Cardinality(Actives(ev)) /\ ev \in [Events -> EventType]
    BY DEF CountersExact, Actives, TypeOK
  <2>2. nactives' = Cardinality(Actives(ev'))
    <3>1. CASE ev[e].destroy /\ ev[e].active
      BY <1>1, <1>3, <2>1, <3>1, ActivesChange
    <3>2. CASE ~(ev[e].destroy /\ ev[e].active)
      <4>1. ev[e].active = x.active  BY <1>2, <1>3, <3>2 DEF EventType
      <4> QED  BY <1>1, <1>3, <2>1, <3>2, <4>1, ActivesChange
    <3> QED  BY <3>1, <3>2
  <2> QED  BY <2>2 DEF CountersExact, Actives
<1>15. Dangling'
  <2>1. \A o \in Events : Linked(o)' => Linked(o) /\ o # e  BY <1>5
  <2> QED  BY <1>4, <2>1 DEF Dangling, NoDanglingPending
<1> QED  BY <1>8, <1>9, <1>10, <1>11, <1>12, <1>13, <1>14, <1>15

LEMMA ReturnStep ==
    ASSUME IInv, CallbackReturns
    PROVE  IInv'
<1>1. /\ phase = "cb" /\ phase' = "pendings" /\ Live(running) /\ Finish(running)
      /\ running' = None
      /\ UNCHANGED <<timers, idles, pendings, ntimers, nidles, npendings, status,
                     readable, owed>>
  BY DEF CallbackReturns, Goto
<1>2. PICK d \in 0..(MaxLag - spent) : lag' = lag + d /\ spent' = spent + d
  BY DEF CallbackReturns
<1>3. lag' \in Nat /\ spent' \in 0..MaxLag
  BY <1>2, EventLoopAssumption DEF IInv, TypeOK
<1>4. /\ running \in Events /\ running \notin Range(pendings)
      /\ pendings \in Seq(Events) /\ IsInjective(pendings)
  BY <1>1 DEF IInv, Once, TypeOK
<1>5. \A o \in Events \ {running} : Linked(o)' <=> Linked(o)
  BY <1>1, Slots DEF Linked
<1> QED  BY <1>1, <1>3, <1>4, <1>5, FinishStep

LEMMA SkipStep ==
    ASSUME IInv, SkipEvent
    PROVE  IInv'
<1> USE DEF IInv, Linked
<1> DEFINE c == Head(pendings)
<1>1. /\ phase = "pendings" /\ pendings # << >> /\ Live(c)
      /\ IF ev[c].pending THEN Finish(c) ELSE UNCHANGED <<ev, nactives>>
      /\ pendings' = Tail(pendings)
      /\ UNCHANGED <<timers, idles, ntimers, nidles, npendings, status, phase,
                     running, lag, spent, readable, owed>>
  BY DEF SkipEvent, Visiting, Cur
<1>2. /\ c \in Events /\ c \in Range(pendings) /\ pendings' \in Seq(Events)
      /\ Range(pendings) = Range(pendings') \cup {c}
      /\ IsInjective(pendings') /\ c \notin Range(pendings')
  BY <1>1, PendingTakes DEF Once, TypeOK
<1>3. running = None  BY <1>1 DEF Once
<1> HIDE DEF c
<1>4. \A o \in Events \ {c} : Linked(o)' <=> Linked(o)  BY <1>1, <1>2
<1>5. CASE ev[c].pending
  <2>1. Finish(c) /\ lag' \in Nat /\ spent' \in 0..MaxLag  BY <1>1, <1>5 DEF TypeOK
  <2> HIDE DEF Linked
  <2> QED  BY <1>1, <1>2, <1>3, <1>4, <2>1, FinishStep
<1>6. CASE ~ev[c].pending
  <2>1. UNCHANGED <<ev, nactives>>  BY <1>1, <1>6
  <2>2. c \notin Range(pendings') /\ running' # c  BY <1>1, <1>2, <1>3, Slots
  <2>3. TypeOK'  BY <1>1, <1>2, <2>1 DEF TypeOK
  <2>4. Once'  BY <1>1, <1>2, <1>3, Slots DEF Once
  <2>5. ByPhase'  BY <1>1 DEF ByPhase
  <2>6. Bits'  BY <1>1, <1>2, <1>4, <1>6, <2>1, <2>2 DEF Bits, Live
  <2>7. Armed'  BY <1>1, <2>1 DEF Armed, Live
  <2>8. NothingLost'  BY <1>1, <1>4, <1>6, <2>1 DEF NothingLost, Live
  <2>9. CountersExact'  BY <1>1, <2>1 DEF CountersExact
  <2>10. Dangling'
    BY <1>1, <1>4, <2>1, <2>2 DEF Dangling, NoDanglingPending, Live
  <2> QED  BY <2>3, <2>4, <2>5, <2>6, <2>7, <2>8, <2>9, <2>10
<1> QED  BY <1>5, <1>6

LEMMA PendingsDoneStep ==
    ASSUME IInv, PendingsDone
    PROVE  IInv'
<1> USE DEF IInv, Live, Linked
<1>1. /\ phase = "pendings" /\ phase' \in {"while", "leave"} /\ pendings = << >>
      /\ npendings' = 0
      /\ UNCHANGED <<ev, timers, idles, pendings, ntimers, nidles, nactives,
                     status, running, lag, spent, readable, owed>>
  BY DEF PendingsDone, Goto, Returned
<1>2. Range(pendings) = {} /\ Len(pendings) = 0  BY <1>1 DEF Range
<1>3. TypeOK'  BY <1>1 DEF TypeOK, Phases
<1>4. Once'  BY <1>1 DEF Once
<1>5. ByPhase'  BY <1>1, <1>2 DEF ByPhase
<1>6. Bits'  BY <1>1 DEF Bits
<1>7. Armed'  BY <1>1 DEF Armed
<1>8. NothingLost'  BY <1>1 DEF NothingLost
<1>9. CountersExact'  BY <1>1, <1>2 DEF CountersExact
<1>10. Dangling'  BY <1>1 DEF Dangling, NoDanglingPending
<1> QED  BY <1>3, <1>4, <1>5, <1>6, <1>7, <1>8, <1>9, <1>10

\* hloop_free finds every event that is still allocated.
LEMMA FreeStep ==
    ASSUME IInv, hloop_free
    PROVE  IInv'
<1> USE DEF IInv, Live, Linked
<1>1. /\ phase \in {"start", "free"} /\ phase' = "freed"
      /\ ev' = [e \in Events |->
                  IF e \in timers \cup idles \cup {Io} THEN Freed ELSE ev[e]]
      /\ timers' = {} /\ idles' = {} /\ pendings' = << >>
      /\ UNCHANGED <<ntimers, nidles, npendings, nactives, status, running, lag,
                     spent, readable, owed>>
  BY DEF hloop_free, counters
<1>2. running = None /\ Range(pendings) \subseteq {Io}  BY <1>1 DEF Once, ByPhase
<1>3. pendings' \in Seq(Events) /\ Range(pendings') = {} /\ IsInjective(pendings')
  BY <1>1 DEF Range, IsInjective
<1>4. ASSUME NEW e \in Events
      PROVE  /\ ev'[e] \in EventType /\ ~ev'[e].live /\ ~ev'[e].pending
             /\ ~ev'[e].active
             /\ e = Io => ~ev'[e].destroy
  <2>1. ev[e] \in EventType  BY DEF TypeOK
  <2>2. CASE e \in timers \cup idles \cup {Io}
    <3>1. ev'[e] = Freed  BY <1>1, <2>2
    <3>2. ~Freed.destroy  BY DEF Freed
    <3> QED  BY <2>1, <3>1, <3>2, Macros
  <2>3. CASE e \notin timers \cup idles \cup {Io}
    <3>1. ev'[e] = ev[e] /\ e # Io  BY <1>1, <2>3
    <3>2. ~Linked(e)  BY <1>2, <3>1, Slots
    <3>3. ~ev[e].live  BY <2>3, <3>2 DEF NothingLost
    <3>4. ~ev[e].pending /\ ~ev[e].active  BY <3>3 DEF Bits
    <3> QED  BY <2>1, <3>1, <3>3, <3>4
  <2> QED  BY <2>2, <2>3
<1>5. TypeOK'
  <2>1. ev' \in [Events -> EventType]  BY <1>1, <1>4
  <2> QED  BY <1>1, <1>3, <2>1 DEF TypeOK, Phases
<1>6. Once'  BY <1>1, <1>2, <1>3 DEF Once
<1>7. ByPhase'  BY <1>1, <1>2, <1>3 DEF ByPhase
<1>8. Bits'  BY <1>3, <1>4, Slots DEF Bits
<1>9. Armed'  BY <1>1, <1>4, Slots DEF Armed
<1>10. NothingLost'  BY <1>4 DEF NothingLost
<1>11. CountersExact'  BY <1>1 DEF CountersExact
<1>12. Dangling'  BY <1>1 DEF Dangling, NoDanglingPending
<1> QED  BY <1>5, <1>6, <1>7, <1>8, <1>9, <1>10, <1>11, <1>12

-----------------------------------------------------------------------------
(* The theorems.                                                           *)

LEMMA Start == Init => IInv
<1> SUFFICES ASSUME Init  PROVE IInv
  OBVIOUS
<1>1. /\ ev \in [Events -> EventType]
      /\ \A e \in Events : /\ ~ev[e].active /\ ~ev[e].pending /\ ~ev[e].destroy
                           /\ ev[e].live <=> e = Io
  <2> DEFINE x == [Freed EXCEPT !.live = TRUE]
  <2>1. /\ Freed \in EventType /\ ~Freed.active /\ ~Freed.pending
        /\ ~Freed.destroy /\ ~Freed.live
    BY EventLoopAssumption DEF Freed, EventType
  <2>2. x \in EventType /\ ~x.active /\ ~x.pending /\ ~x.destroy /\ x.live
    BY <2>1 DEF EventType
  <2>3. ev = [e \in Events |-> IF e = Io THEN x ELSE Freed]  BY DEF Init
  <2> HIDE DEF x
  <2> QED  BY <2>1, <2>2, <2>3
<1>2. Range(pendings) = {} /\ pendings \in Seq(Events) /\ IsInjective(pendings)
      /\ Len(pendings) = 0
  BY DEF Range, IsInjective, Init
<1>3. TypeOK
  <2>1. /\ timers = {} /\ idles = {} /\ ntimers = 0 /\ nidles = 0 /\ npendings = 0
        /\ nactives = 0 /\ status = "STOP" /\ phase = "start" /\ running = None
        /\ lag = 0 /\ spent = 0 /\ readable = FALSE /\ owed = {}
    BY DEF Init
  <2>2. spent \in 0..MaxLag  BY <2>1, EventLoopAssumption
  <2>3. readable \in BOOLEAN  BY <2>1
  <2>4. /\ ntimers \in Int /\ nidles \in Int /\ npendings \in Nat /\ nactives \in Int
        /\ lag \in Nat /\ status \in {"STOP", "RUNNING"} /\ phase \in Phases
        /\ timers \subseteq Timers /\ idles \subseteq Idles /\ owed \subseteq Timers
        /\ running \in Events \cup {None}
    BY <2>1 DEF Phases
  <2> QED  BY <1>1, <1>2, <2>2, <2>3, <2>4 DEF TypeOK
<1> USE DEF Init
<1>4. Once  BY <1>2 DEF Once
<1>5. ByPhase  BY <1>2 DEF ByPhase
<1>6. Bits  BY <1>1, <1>2, Slots DEF Bits, Linked, Live
<1>7. Armed  BY <1>1, Slots DEF Armed, Live
<1>8. NothingLost  BY <1>1 DEF NothingLost, Live
<1>9. CountersExact
  <2>1. {e \in Events : ev[e].active} = {}  BY <1>1
  <2> QED  BY <1>2, <2>1, FS_EmptySet DEF CountersExact
<1>10. Dangling  BY <1>2, Slots DEF Dangling, NoDanglingPending, Linked
<1> QED  BY <1>3, <1>4, <1>5, <1>6, <1>7, <1>8, <1>9, <1>10 DEF IInv

LEMMA Step == IInv /\ [Next]_vars => IInv'
<1> SUFFICES ASSUME IInv, [Next]_vars  PROVE IInv'
  OBVIOUS
<1>1. ASSUME NEW t \in Timeouts, htimer_add(t)  PROVE IInv'  BY <1>1, AddStep
<1>2. ASSUME NEW t \in Timeouts, htimer_reset(t)  PROVE IInv'  BY <1>2, ResetStep
<1>3. ASSUME NEW t \in Periods, htimer_add_period(t)  PROVE IInv'  BY <1>3, AddPeriodStep
<1>4. ASSUME NEW t \in Timers, htimer_del(t)  PROVE IInv'  BY <1>4, DelStep
<1>5. ASSUME NEW i \in Idles, hidle_add(i)  PROVE IInv'  BY <1>5, IdleAddStep
<1>6. ASSUME NEW i \in Idles, hidle_del(i)  PROVE IInv'  BY <1>6, IdleDelStep
<1>7. CASE hio_add \/ hio_del  BY <1>7, SetIoStep DEF hio_add, hio_del
<1>8. CASE hloop_stop \/ hloop_run \/ While \/ LeaveRun \/ Arrive  BY <1>8, ControlSteps
<1>9. CASE SkipPoll  BY <1>9, SkipPollStep
<1>10. CASE Poll  BY <1>10, PollStep
<1>11. ASSUME NEW t \in Timers, process_timers(t)  PROVE IInv'  BY <1>11, TimerStep
<1>12. CASE TimersDone  BY <1>12, TimersDoneStep
<1>13. CASE process_idles  BY <1>13, IdlesStep
<1>14. CASE RunCallback  BY <1>14, RunStep
<1>15. CASE CallbackReturns  BY <1>15, ReturnStep
<1>16. CASE SkipEvent  BY <1>16, SkipStep
<1>17. CASE PendingsDone  BY <1>17, PendingsDoneStep
<1>18. CASE hloop_free  BY <1>18, FreeStep
<1>19. CASE UNCHANGED vars
  <2>1. IInv /\ UNCHANGED vars => IInv'
    BY ControlStep DEF vars, counters, IInv, TypeOK
  <2> QED  BY <1>19, <2>1
<1> QED
  BY <1>1, <1>2, <1>3, <1>4, <1>5, <1>6, <1>7, <1>8, <1>9, <1>10, <1>11, <1>12,
     <1>13, <1>14, <1>15, <1>16, <1>17, <1>18, <1>19 DEF Next, Call, LoopStep

LEMMA Inductive == Spec => []IInv
BY Start, Step, PTL DEF Spec

\* Every reachable state of the loop has its type.
THEOREM TypeCorrect == Spec => []TypeOK
BY Inductive, PTL DEF IInv

\* hloop_process_pendings never touches a freed event, as long as no caller
\* deletes a timer that it has reset while it was pending: EVENT_DEL frees
\* only what is not linked.
THEOREM NoDangling ==
    ASSUME DelAfterReset = FALSE
    PROVE  Spec => []NoDanglingPending
<1>1. IInv => NoDanglingPending  BY DEF IInv, Dangling
<1> QED  BY <1>1, Inductive, PTL

\* No timer or idle leaks: what is allocated is armed, or waits for its last
\* callback, so hloop_free frees all of it.
THEOREM NothingIsLost == Spec => []NothingLost
BY Inductive, PTL DEF IInv

\* The counters agree with the heaps and lists they count.
THEOREM CountersAreExact == Spec => []CountersExact
BY Inductive, PTL DEF IInv

\* No callback of a timer runs before the time the timer was last set to.
THEOREM TimersNeverEarly == Spec => NeverEarly
<1> DEFINE A == \A t \in Timers : running' = t /\ running # t => t \in owed
<1>1. IInv /\ [Next]_vars => [A]_vars
  <2> SUFFICES ASSUME IInv, Next, NEW t \in Timers, running' = t, running # t
               PROVE  t \in owed
    BY DEF A
  <2>1. t # None  BY Slots
  <2>2. RunCallback
    BY <2>1 DEF Next, Call, LoopStep, htimer_add, htimer_add_period, AddTimer,
       htimer_reset, htimer_del, hidle_add, hidle_del, hio_add, hio_del, SetIo,
       hloop_stop, loopVars, hloop_run, While, SkipPoll, Poll, PollFor,
       process_timers, TimersDone, process_idles, CallbackReturns, SkipEvent,
       PendingsDone, LeaveRun, hloop_free, Arrive
  <2>3. t = Head(pendings) /\ pendings # << >> /\ ev[t].pending
    BY <2>2 DEF RunCallback, Invoke, Visiting, Cur
  <2>4. t \in Range(pendings)
    BY <2>3, PendingTakes DEF IInv, TypeOK
  <2> QED  BY <2>3, <2>4 DEF IInv, Bits
<1>2. NeverEarly <=> [][A]_vars  BY DEF NeverEarly
<1> HIDE DEF A
<1> QED  BY <1>1, <1>2, Inductive, PTL DEF Spec

-----------------------------------------------------------------------------
(* base/heap.h.                                                            *)

\* The states of a heap, its pointers wherever they lead.
Heaps == [root : Pointer, nelts : Nat, parent : [Nodes -> Pointer], left : [Nodes -> Pointer],
          right : [Nodes -> Pointer], key : [Nodes -> Keys \cup {Out}]]

\* The nodes at[1], ..., at[n] are in the heap, each at its position pos.
Placed(n, at, pos) ==
    /\ n \in Nat /\ at \in [1..n -> Nodes] /\ pos \in [Nodes -> 0..n]
    /\ \A i \in 1..n : pos[at[i]] = i
    /\ \A x \in Nodes : pos[x] # 0 => at[pos[x]] = x

\* The pointers of the node at position q are those of a tree filled by rows.
Joined(h, n, at, q) ==
    /\ h.parent[at[q]] = IF q = 1 THEN NULL ELSE at[q \div 2]
    /\ h.left[at[q]] = IF 2 * q <= n THEN at[2 * q] ELSE NULL
    /\ h.right[at[q]] = IF 2 * q + 1 <= n THEN at[2 * q + 1] ELSE NULL

Loose(h, x) == h.parent[x] = NULL /\ h.left[x] = NULL /\ h.right[x] = NULL

Tree(h, n, at, pos) ==
    /\ h \in Heaps /\ h.nelts = n /\ Placed(n, at, pos)
    /\ h.root = IF n = 0 THEN NULL ELSE at[1]
    /\ \A q \in 1..n : Joined(h, n, at, q)
    /\ \A x \in Nodes : pos[x] = 0 => Loose(h, x)

-----------------------------------------------------------------------------
(* The pointer operations, field by field.                                 *)

\* What a heap is made of.
LEMMA Fields ==
    ASSUME NEW h \in Heaps
    PROVE  /\ h.root \in Pointer /\ h.nelts \in Nat
           /\ h.parent \in [Nodes -> Pointer] /\ h.left \in [Nodes -> Pointer]
           /\ h.right \in [Nodes -> Pointer] /\ h.key \in [Nodes -> Keys \cup {Out}]
           /\ h = [root |-> h.root, nelts |-> h.nelts, parent |-> h.parent, left |-> h.left,
                   right |-> h.right, key |-> h.key]
  BY DEF Heaps

Has(h, r, n, p, a, b, k) ==
    /\ h \in Heaps
    /\ h.root = r /\ h.nelts = n /\ h.parent = p /\ h.left = a /\ h.right = b /\ h.key = k

\* A record with these fields is a heap.
LEMMA Built ==
    ASSUME NEW r \in Pointer, NEW n \in Nat, NEW p \in [Nodes -> Pointer],
           NEW a \in [Nodes -> Pointer], NEW b \in [Nodes -> Pointer],
           NEW k \in [Nodes -> Keys \cup {Out}], NEW h,
           h = [root |-> r, nelts |-> n, parent |-> p, left |-> a, right |-> b, key |-> k]
    PROVE  Has(h, r, n, p, a, b, k)
  BY DEF Heaps, Has

Relinked(h, a, b, g) ==
    /\ g \in Heaps
    /\ g.nelts = h.nelts /\ g.parent = h.parent /\ g.key = h.key
    /\ g.root = IF h.parent[a] = NULL THEN b ELSE h.root
    /\ \A x \in Nodes : g.left[x] = IF x = h.parent[a] /\ h.left[x] = a THEN b ELSE h.left[x]
    /\ \A x \in Nodes : g.right[x] = IF x = h.parent[a] /\ h.left[x] # a /\ h.right[x] = a
                                     THEN b ELSE h.right[x]

\* The pointer down to a, from above or from the root, becomes b.
LEMMA RelinkFields ==
    ASSUME NEW h \in Heaps, NEW a \in Nodes, NEW b \in Pointer, NEW g, g = Relink(h, a, b)
    PROVE  Relinked(h, a, b, g)
<1> USE DEF Relinked
<1> DEFINE p == h.parent[a]
<1>0. p \in Pointer /\ NULL \notin Nodes /\ Nodes \subseteq Pointer
  BY Fields, HeapAssumption DEF Pointer
<1>1. CASE p = NULL
  <2>1. g = [h EXCEPT !.root = b]
    BY <1>1 DEF Relink
  <2>2. g = [root |-> b, nelts |-> h.nelts, parent |-> h.parent, left |-> h.left,
             right |-> h.right, key |-> h.key]
    BY <2>1, Fields
  <2>3. h.nelts \in Nat /\ h.parent \in [Nodes -> Pointer] /\ h.left \in [Nodes -> Pointer]
        /\ h.right \in [Nodes -> Pointer] /\ h.key \in [Nodes -> Keys \cup {Out}]
    BY Fields
  <2>4. Has(g, b, h.nelts, h.parent, h.left, h.right, h.key)
    BY ONLY <2>2, <2>3, b \in Pointer, Built
  <2> QED
    BY <1>0, <1>1, <2>4 DEF Has
<1>2. CASE p # NULL /\ h.left[p] = a
  <2>1. g = [h EXCEPT !.left[p] = b]
    BY <1>2 DEF Relink
  <2>a. p \in Nodes
    BY <1>0, <1>2 DEF Pointer
  <2> DEFINE f == [h.left EXCEPT ![p] = b]
  <2>b. f \in [Nodes -> Pointer] /\ \A x \in Nodes : f[x] = IF x = p THEN b ELSE h.left[x]
    BY <2>a, Fields
  <2>2. g = [root |-> h.root, nelts |-> h.nelts, parent |-> h.parent, left |-> f,
             right |-> h.right, key |-> h.key]
    BY <2>1, Fields
  <2> HIDE DEF f
  <2>3. h.root \in Pointer /\ h.nelts \in Nat /\ h.parent \in [Nodes -> Pointer]
        /\ h.right \in [Nodes -> Pointer] /\ h.key \in [Nodes -> Keys \cup {Out}]
    BY Fields
  <2>4. Has(g, h.root, h.nelts, h.parent, f, h.right, h.key)
    BY ONLY <2>2, <2>3, <2>b, Built
  <2> QED
    BY <1>0, <1>2, <2>4, <2>b DEF Has
<1>3. CASE p # NULL /\ h.left[p] # a /\ h.right[p] = a
  <2>1. g = [h EXCEPT !.right[p] = b]
    BY <1>3 DEF Relink
  <2>a. p \in Nodes
    BY <1>0, <1>3 DEF Pointer
  <2> DEFINE f == [h.right EXCEPT ![p] = b]
  <2>b. f \in [Nodes -> Pointer] /\ \A x \in Nodes : f[x] = IF x = p THEN b ELSE h.right[x]
    BY <2>a, Fields
  <2>2. g = [root |-> h.root, nelts |-> h.nelts, parent |-> h.parent, left |-> h.left,
             right |-> f, key |-> h.key]
    BY <2>1, Fields
  <2> HIDE DEF f
  <2>3. h.root \in Pointer /\ h.nelts \in Nat /\ h.parent \in [Nodes -> Pointer]
        /\ h.left \in [Nodes -> Pointer] /\ h.key \in [Nodes -> Keys \cup {Out}]
    BY Fields
  <2>4. Has(g, h.root, h.nelts, h.parent, h.left, f, h.key)
    BY ONLY <2>2, <2>3, <2>b, Built
  <2> QED
    BY <1>0, <1>3, <2>4, <2>b DEF Has
<1>4. CASE p # NULL /\ h.left[p] # a /\ h.right[p] # a
  <2>1. g = h
    BY <1>4 DEF Relink
  <2> QED
    BY <1>0, <1>4, <2>1, Fields
<1> QED
  BY <1>1, <1>2, <1>3, <1>4

Reparented(h, c, p, g) ==
    /\ g \in Heaps
    /\ g.nelts = h.nelts /\ g.root = h.root /\ g.left = h.left /\ g.right = h.right
    /\ g.key = h.key
    /\ \A x \in Nodes : g.parent[x] = IF x = c THEN p ELSE h.parent[x]

\* The pointer up of c, if there is a c, becomes p.
LEMMA ReparentFields ==
    ASSUME NEW h \in Heaps, NEW c \in Pointer, NEW p \in Pointer, NEW g, g = Reparent(h, c, p)
    PROVE  Reparented(h, c, p, g)
<1> USE DEF Reparented
<1>1. CASE c = NULL
  BY <1>1, Fields, HeapAssumption DEF Reparent
<1>2. CASE c # NULL
  <2>1. g = [h EXCEPT !.parent[c] = p]
    BY <1>2 DEF Reparent
  <2>a. c \in Nodes
    BY <1>2 DEF Pointer
  <2> DEFINE f == [h.parent EXCEPT ![c] = p]
  <2>b. f \in [Nodes -> Pointer] /\ \A x \in Nodes : f[x] = IF x = c THEN p ELSE h.parent[x]
    BY <2>a, Fields
  <2>2. g = [root |-> h.root, nelts |-> h.nelts, parent |-> f, left |-> h.left,
             right |-> h.right, key |-> h.key]
    BY <2>1, Fields
  <2> HIDE DEF f
  <2>3. h.root \in Pointer /\ h.nelts \in Nat /\ h.left \in [Nodes -> Pointer]
        /\ h.right \in [Nodes -> Pointer] /\ h.key \in [Nodes -> Keys \cup {Out}]
    BY Fields
  <2>4. Has(g, h.root, h.nelts, f, h.left, h.right, h.key)
    BY ONLY <2>2, <2>3, <2>b, Built
  <2> QED
    BY <1>2, <2>4, <2>b DEF Has
<1> QED
  BY <1>1, <1>2

\* The three pointers of a node are set.
Pointed(h, c, p, a, b, g) ==
    /\ g \in Heaps
    /\ g.nelts = h.nelts /\ g.root = h.root /\ g.key = h.key
    /\ \A x \in Nodes : /\ g.parent[x] = IF x = c THEN p ELSE h.parent[x]
                        /\ g.left[x] = IF x = c THEN a ELSE h.left[x]
                        /\ g.right[x] = IF x = c THEN b ELSE h.right[x]

LEMMA SetFields ==
    ASSUME NEW h \in Heaps, NEW c \in Nodes, NEW p \in Pointer, NEW a \in Pointer,
           NEW b \in Pointer, NEW g,
           g = [h EXCEPT !.parent[c] = p, !.left[c] = a, !.right[c] = b]
    PROVE  Pointed(h, c, p, a, b, g)
<1> USE DEF Pointed
<1> DEFINE f1 == [h.parent EXCEPT ![c] = p]
           f2 == [h.left EXCEPT ![c] = a]
           f3 == [h.right EXCEPT ![c] = b]
<1>1. f1 \in [Nodes -> Pointer] /\ \A x \in Nodes : f1[x] = IF x = c THEN p ELSE h.parent[x]
  BY Fields
<1>2. f2 \in [Nodes -> Pointer] /\ \A x \in Nodes : f2[x] = IF x = c THEN a ELSE h.left[x]
  BY Fields
<1>3. f3 \in [Nodes -> Pointer] /\ \A x \in Nodes : f3[x] = IF x = c THEN b ELSE h.right[x]
  BY Fields
<1>a. g = [h EXCEPT !.parent = f1, !.left = f2, !.right = f3]
  BY DEF Heaps
<1> HIDE DEF f1, f2, f3
<1>4. g = [root |-> h.root, nelts |-> h.nelts, parent |-> f1, left |-> f2, right |-> f3,
           key |-> h.key]
  BY <1>a DEF Heaps
<1>5. h.root \in Pointer /\ h.nelts \in Nat /\ h.key \in [Nodes -> Keys \cup {Out}]
  BY Fields
<1>6. Has(g, h.root, h.nelts, f1, f2, f3, h.key)
  BY ONLY <1>1, <1>2, <1>3, <1>4, <1>5, Built
<1> QED
  BY <1>1, <1>2, <1>3, <1>6 DEF Has

Swapped(h, p, c, s, g) ==
    /\ g \in Heaps /\ g.nelts = h.nelts /\ g.key = h.key
    /\ g.root = IF h.parent[p] = NULL THEN c ELSE h.root
    /\ \A x \in Nodes :
         /\ g.parent[x] = IF x = p \/ x = s THEN c
                          ELSE IF x = c THEN h.parent[p]
                          ELSE IF x = h.left[c] \/ x = h.right[c] THEN p ELSE h.parent[x]
         /\ g.left[x] = IF x = p THEN h.left[c]
                        ELSE IF x = c THEN (IF h.left[p] = c THEN p ELSE s)
                        ELSE IF x = h.parent[p] /\ h.left[x] = p THEN c ELSE h.left[x]
         /\ g.right[x] = IF x = p THEN h.right[c]
                         ELSE IF x = c THEN (IF h.left[p] = c THEN s ELSE p)
                         ELSE IF x = h.parent[p] /\ h.left[x] # p /\ h.right[x] = p
                              THEN c ELSE h.right[x]

\* heap_swap, pointer by pointer; s is the other node below p.
LEMMA SwapFields ==
    ASSUME NEW h \in Heaps, NEW p \in Nodes, NEW c \in Nodes, NEW g, g = heap_swap(h, p, c),
           NEW s, s = IF h.left[p] = c THEN h.right[p] ELSE h.left[p]
    PROVE  Swapped(h, p, c, s, g)
<1> DEFINE l1 == Relink(h, p, c)
           l2 == Reparent(l1, h.left[c], p)
           l3 == Reparent(l2, h.right[c], p)
           a  == IF h.left[p] = c THEN p ELSE s
           b  == IF h.left[p] = c THEN s ELSE p
           u  == h.parent[p]
           m  == [l3 EXCEPT !.parent[c] = u, !.left[c] = a, !.right[c] = b]
           m2 == Reparent(m, s, c)
<1>1. s = Child(h, p, h.left[p] = c)
  BY SMTT(30) DEF Child
<1>2. g = [m2 EXCEPT !.parent[p] = c, !.left[p] = h.left[c], !.right[p] = h.right[c]]
  BY <1>1 DEF heap_swap
<1>3. /\ h.left[c] \in Pointer /\ h.right[c] \in Pointer /\ s \in Pointer /\ u \in Pointer
      /\ a \in Pointer /\ b \in Pointer /\ Nodes \subseteq Pointer
  BY Fields DEF Pointer
<1>a. /\ l1 = Relink(h, p, c) /\ l2 = Reparent(l1, h.left[c], p)
      /\ l3 = Reparent(l2, h.right[c], p) /\ m2 = Reparent(m, s, c)
      /\ m = [l3 EXCEPT !.parent[c] = u, !.left[c] = a, !.right[c] = b]
  OBVIOUS
<1> HIDE DEF a, b, l1, l2, l3, m, m2
<1>4. Relinked(h, p, c, l1)
  BY <1>a, <1>3, RelinkFields
<1>5. Reparented(l1, h.left[c], p, l2)
  BY <1>a, <1>3, <1>4, ReparentFields DEF Relinked
<1>b. l2 \in Heaps
  BY <1>5 DEF Reparented
<1>6. Reparented(l2, h.right[c], p, l3)
  BY <1>a, <1>b, <1>3, ReparentFields, SMTT(30)
<1>7. Pointed(l3, c, u, a, b, m)
  BY <1>a, <1>3, <1>6, SetFields DEF Reparented
<1>8. Reparented(m, s, c, m2)
  BY <1>a, <1>3, <1>7, ReparentFields DEF Pointed
<1>9. Pointed(m2, p, c, h.left[c], h.right[c], g)
  BY <1>2, <1>3, <1>8, SetFields DEF Reparented
<1>10. ASSUME NEW x \in Nodes
       PROVE  g.parent[x] = IF x = p \/ x = s THEN c
                            ELSE IF x = c THEN h.parent[p]
                            ELSE IF x = h.left[c] \/ x = h.right[c] THEN p ELSE h.parent[x]
  BY <1>4, <1>5, <1>6, <1>7, <1>8, <1>9 DEF Relinked, Reparented, Pointed
<1>11. ASSUME NEW x \in Nodes
       PROVE  g.left[x] = IF x = p THEN h.left[c] ELSE IF x = c THEN a
                          ELSE IF x = u /\ h.left[x] = p THEN c ELSE h.left[x]
  BY <1>4, <1>5, <1>6, <1>7, <1>8, <1>9 DEF Relinked, Reparented, Pointed
<1>12. ASSUME NEW x \in Nodes
       PROVE  g.right[x] = IF x = p THEN h.right[c] ELSE IF x = c THEN b
                           ELSE IF x = u /\ h.left[x] # p /\ h.right[x] = p
                                THEN c ELSE h.right[x]
  BY <1>4, <1>5, <1>6, <1>7, <1>8, <1>9 DEF Relinked, Reparented, Pointed
<1>13. g \in Heaps /\ g.nelts = h.nelts /\ g.key = h.key
       /\ g.root = IF u = NULL THEN c ELSE h.root
  BY <1>4, <1>5, <1>6, <1>7, <1>8, <1>9 DEF Relinked, Reparented, Pointed
<1> QED
  BY <1>10, <1>11, <1>12, <1>13 DEF a, b, Swapped


-----------------------------------------------------------------------------
(* A node and one above it change places.                                  *)

\* Two nodes change positions.
LEMMA SwapPlaced ==
    ASSUME NEW n, NEW at, NEW pos, Placed(n, at, pos), NEW i \in 1..n, NEW j \in 1..n, i # j
    PROVE  Placed(n, [at EXCEPT ![i] = at[j], ![j] = at[i]],
                  [pos EXCEPT ![at[i]] = j, ![at[j]] = i])
<1> DEFINE A == [at EXCEPT ![i] = at[j], ![j] = at[i]]
           P == [pos EXCEPT ![at[i]] = j, ![at[j]] = i]
<1>1. n \in Nat /\ at \in [1..n -> Nodes] /\ pos \in [Nodes -> 0..n] /\ at[i] \in Nodes
      /\ at[j] \in Nodes
  BY DEF Placed
<1>2. \A q \in 1..n : pos[at[q]] = q
  BY DEF Placed
<1>3. \A x \in Nodes : pos[x] # 0 => at[pos[x]] = x
  BY DEF Placed
<1>4. at[i] # at[j]
  BY <1>2
<1>5. A \in [1..n -> Nodes] /\ \A q \in 1..n : A[q] = IF q = j THEN at[i] ELSE IF q = i THEN at[j] ELSE at[q]
  BY <1>1
<1>6. P \in [Nodes -> 0..n]
      /\ \A x \in Nodes : P[x] = IF x = at[j] THEN i ELSE IF x = at[i] THEN j ELSE pos[x]
  BY <1>1
<1> HIDE DEF A, P
<1>7. ASSUME NEW q \in 1..n PROVE P[A[q]] = q
  <2>1. CASE q = i \/ q = j
    BY <2>1, <1>1, <1>4, <1>5, <1>6
  <2>2. CASE q # i /\ q # j
    BY <2>2, <1>1, <1>2, <1>5, <1>6
  <2> QED
    BY <2>1, <2>2
<1>8. ASSUME NEW x \in Nodes, P[x] # 0 PROVE A[P[x]] = x
  <2>1. CASE x = at[j] \/ x = at[i]
    BY <2>1, <1>4, <1>5, <1>6
  <2>2. CASE x # at[j] /\ x # at[i]
    <3>1. P[x] = pos[x] /\ pos[x] \in 1..n /\ at[pos[x]] = x
      BY <2>2, <1>1, <1>3, <1>6, <1>8
    <3>2. pos[x] # i /\ pos[x] # j
      BY <3>1, <2>2
    <3> QED
      BY <3>1, <3>2, <1>5
  <2> QED
    BY <2>1, <2>2
<1>9. Placed(n, A, P)
  BY <1>1, <1>5, <1>6, <1>7, <1>8 DEF Placed
<1> QED
  BY <1>9 DEF A, P


\* heap_swap of a node and the one above it leaves a tree in which the two have
\* changed positions.
LEMMA SwapTree ==
    ASSUME NEW h, NEW n, NEW at, NEW pos, Tree(h, n, at, pos), NEW i \in 2..n
    PROVE  LET j == i \div 2
               g == heap_swap(h, at[j], at[i])
           IN  /\ Tree(g, n, [at EXCEPT ![i] = at[j], ![j] = at[i]],
                       [pos EXCEPT ![at[i]] = j, ![at[j]] = i])
               /\ g.key = h.key
<1> DEFINE j == i \div 2
           g == heap_swap(h, at[j], at[i])
           A == [at EXCEPT ![i] = at[j], ![j] = at[i]]
           P == [pos EXCEPT ![at[i]] = j, ![at[j]] = i]
           p == at[j]
           c == at[i]
           s == IF h.left[p] = c THEN h.right[p] ELSE h.left[p]
           e == 4 * j + 1 - i
<1>1. /\ h \in Heaps /\ h.nelts = n /\ n \in Nat /\ at \in [1..n -> Nodes]
      /\ pos \in [Nodes -> 0..n] /\ \A q \in 1..n : pos[at[q]] = q
      /\ \A q \in 1..n : Joined(h, n, at, q)
      /\ h.root = at[1]
  BY DEF Tree, Placed
<1>2. j \in 1..n /\ j < i /\ (i = 2 * j \/ i = 2 * j + 1)
  BY <1>1
<1>3. Placed(n, A, P)
  <2>1. Placed(n, at, pos) /\ i \in 1..n /\ j \in 1..n /\ i # j
    BY <1>1, <1>2 DEF Tree
  <2> HIDE DEF j
  <2> QED
    BY ONLY <2>1, SwapPlaced
<1>g. g = heap_swap(h, p, c) /\ s = IF h.left[p] = c THEN h.right[p] ELSE h.left[p]
  OBVIOUS
<1>e. e = (IF i = 2 * j THEN 2 * j + 1 ELSE 2 * j) /\ e # i /\ e \div 2 = j /\ e > j /\ e \in Nat
  BY <1>1, <1>2
<1> HIDE DEF g, s, j, e
<1>4. p \in Nodes /\ c \in Nodes /\ NULL \notin Nodes
  BY <1>1, <1>2, HeapAssumption
<1>5. Swapped(h, p, c, s, g)
  BY <1>1, <1>4, <1>g, SwapFields
<1>n. ASSUME NEW q \in 1..n, NEW r \in 1..n, at[q] = at[r] PROVE q = r
  BY <1>n, <1>1
<1>6. \A q \in 1..n : A[q] = IF q = j THEN c ELSE IF q = i THEN p ELSE at[q]
  BY <1>1, <1>2
<1>7. /\ h.parent[p] = IF j = 1 THEN NULL ELSE at[j \div 2]
      /\ h.left[p] = IF i = 2 * j THEN c ELSE at[2 * j]
      /\ h.right[p] = IF i = 2 * j + 1 THEN c ELSE IF e <= n THEN at[e] ELSE NULL
  <2>1. Joined(h, n, at, j)
    BY <1>1, <1>2
  <2>2. /\ h.parent[p] = IF j = 1 THEN NULL ELSE at[j \div 2]
        /\ h.left[p] = IF 2 * j <= n THEN at[2 * j] ELSE NULL
        /\ h.right[p] = IF 2 * j + 1 <= n THEN at[2 * j + 1] ELSE NULL
    BY <2>1 DEF Joined
  <2>3. 2 * j <= n /\ (i = 2 * j + 1 => 2 * j + 1 <= n) /\ (i # 2 * j + 1 => e = 2 * j + 1)
    BY <1>1, <1>2, <1>e
  <2> HIDE DEF p
  <2>4. h.left[p] = IF i = 2 * j THEN c ELSE at[2 * j]
    BY <2>2, <2>3
  <2>5. h.right[p] = IF i = 2 * j + 1 THEN c ELSE IF e <= n THEN at[e] ELSE NULL
    BY <2>2, <2>3
  <2> QED
    BY <2>2, <2>4, <2>5
<1>8. /\ h.left[c] = IF 2 * i <= n THEN at[2 * i] ELSE NULL
      /\ h.right[c] = IF 2 * i + 1 <= n THEN at[2 * i + 1] ELSE NULL
  <2>1. Joined(h, n, at, i)
    BY <1>1
  <2> QED
    BY <2>1 DEF Joined
<1>9. (h.left[p] = c) <=> (i = 2 * j)
  <2>1. i # 2 * j => 2 * j \in 1..n /\ at[2 * j] # c
    BY <1>1, <1>2, <1>n
  <2> HIDE DEF p, c
  <2> QED
    BY <1>7, <2>1
<1>10. s = IF e <= n THEN at[e] ELSE NULL
  <2>1. CASE i = 2 * j
    <3>1. i # 2 * j + 1
      BY <2>1, <1>2
    <3> HIDE DEF p, c
    <3> QED
      BY <2>1, <3>1, <1>7, <1>9, <1>g
  <2>2. CASE i # 2 * j
    <3>1. e = 2 * j /\ e <= n
      BY <2>2, <1>1, <1>2, <1>e
    <3> HIDE DEF p, c
    <3> QED
      BY <2>2, <3>1, <1>7, <1>9, <1>g
  <2> QED
    BY <2>1, <2>2
<1> HIDE DEF A, P, p, c
<1>h. /\ A[i] = p /\ A[j] = c /\ p # c /\ c # s
      /\ \A q \in 1..n : q # i /\ q # j => A[q] = at[q] /\ at[q] # p /\ at[q] # c
  <2>1. \A q \in 1..n : (q # i => at[q] # c) /\ (q # j => at[q] # p)
    BY <1>n, <1>2 DEF p, c
  <2>2. i \in 1..n /\ j \in 1..n /\ i # j
    BY <1>1, <1>2
  <2>3. c = at[i] /\ p = at[j]
    BY DEF p, c
  <2>4. c # s
    <3>1. e <= n => e \in 1..n
      BY <1>1, <1>2, <1>e
    <3> QED
      BY <3>1, <2>1, <1>4, <1>e, <1>10
  <2> QED
    BY <2>1, <2>2, <2>3, <2>4, <1>6
<1>11. g.root = A[1]
  <2>1. g.root = IF h.parent[p] = NULL THEN c ELSE h.root
    BY <1>5 DEF Swapped
  <2>2. CASE j = 1
    BY <2>1, <2>2, <1>7, <1>h
  <2>3. CASE j # 1
    <3>1. j \div 2 \in 1..n /\ 1 \in 1..n /\ 1 # i
      BY <2>3, <1>1, <1>2
    <3>2. h.parent[p] \in Nodes
      BY <2>3, <3>1, <1>7, <1>1
    <3> QED
      BY <2>1, <2>3, <3>1, <3>2, <1>1, <1>4, <1>h
  <2> QED
    BY <2>2, <2>3
<1>12. ASSUME NEW q \in 1..n PROVE g.parent[A[q]] = IF q = 1 THEN NULL ELSE A[q \div 2]
  <2>0. \A x \in Nodes :
           g.parent[x] = IF x = p \/ x = s THEN c
                         ELSE IF x = c THEN h.parent[p]
                         ELSE IF x = h.left[c] \/ x = h.right[c] THEN p ELSE h.parent[x]
    BY <1>5 DEF Swapped
  <2>1. CASE q = i
    <3>1. q # 1 /\ q \div 2 = j
      BY <2>1 DEF j
    <3> QED
      BY <2>0, <2>1, <3>1, <1>4, <1>h
  <2>2. CASE q = j
    <3>1. g.parent[A[q]] = h.parent[p]
      BY <2>0, <2>2, <1>4, <1>h
    <3>2. j # 1 => j \div 2 \in 1..n /\ j \div 2 # j /\ j \div 2 # i
      BY <1>1, <1>2
    <3> QED
      BY <2>2, <3>1, <3>2, <1>7, <1>h
  <2>3. CASE q # i /\ q # j
    <3>1. A[q] = at[q] /\ at[q] # p /\ at[q] # c /\ at[q] \in Nodes
      BY <2>3, <1>1, <1>h
    <3>2. CASE q = e
      <4>1. s = at[q] /\ q # 1 /\ q \div 2 = j
        BY <3>2, <1>10, <1>e, <1>2
      <4> QED
        BY <2>0, <3>1, <4>1, <1>h
    <3>3. CASE q # e
      <4>1. at[q] # s
        BY <3>3, <3>1, <1>10, <1>n, <1>1, <1>2, <1>4, <1>e
      <4>2. CASE q = 2 * i \/ q = 2 * i + 1
        <5>1. at[q] = h.left[c] \/ at[q] = h.right[c]
          BY <4>2, <1>8, <1>1
        <5>2. q # 1 /\ q \div 2 = i
          BY <4>2, <1>1
        <5> QED
          BY <2>0, <3>1, <4>1, <5>1, <5>2, <1>h
      <4>3. CASE q # 2 * i /\ q # 2 * i + 1
        <5>1. at[q] # h.left[c] /\ at[q] # h.right[c]
          <6>1. 2 * i \in 1..n => at[q] # at[2 * i]
            BY <4>3, <1>n
          <6>2. 2 * i + 1 \in 1..n => at[q] # at[2 * i + 1]
            BY <4>3, <1>n
          <6>3. (2 * i <= n => 2 * i \in 1..n) /\ (2 * i + 1 <= n => 2 * i + 1 \in 1..n)
            BY <1>1
          <6> QED
            BY <6>1, <6>2, <6>3, <3>1, <1>4, <1>8
        <5>2. g.parent[at[q]] = h.parent[at[q]]
          BY <2>0, <3>1, <4>1, <5>1
        <5>3. h.parent[at[q]] = IF q = 1 THEN NULL ELSE at[q \div 2]
          BY <1>1 DEF Joined
        <5>4. q # 1 => q \div 2 \in 1..n /\ q \div 2 # i /\ q \div 2 # j
          BY <4>3, <3>3, <2>3, <1>1, <1>2, <1>e
        <5> QED
          BY <3>1, <5>2, <5>3, <5>4, <1>h
      <4> QED
        BY <4>2, <4>3
    <3> QED
      BY <3>2, <3>3
  <2> QED
    BY <2>1, <2>2, <2>3
<1>13. ASSUME NEW q \in 1..n PROVE g.left[A[q]] = IF 2 * q <= n THEN A[2 * q] ELSE NULL
  <2>0. \A x \in Nodes :
           g.left[x] = IF x = p THEN h.left[c]
                       ELSE IF x = c THEN (IF h.left[p] = c THEN p ELSE s)
                       ELSE IF x = h.parent[p] /\ h.left[x] = p THEN c ELSE h.left[x]
    BY <1>5 DEF Swapped
  <2>1. CASE q = i
    <3>1. g.left[A[q]] = h.left[c]
      BY <2>0, <2>1, <1>4, <1>h
    <3>2. 2 * i <= n => 2 * i \in 1..n /\ 2 * i # i /\ 2 * i # j
      BY <1>1, <1>2
    <3> QED
      BY <2>1, <3>1, <3>2, <1>8, <1>h
  <2>2. CASE q = j
    <3>1. g.left[A[q]] = IF i = 2 * j THEN p ELSE s
      BY <2>0, <2>2, <1>4, <1>9, <1>h
    <3>2. 2 * j <= n /\ 2 * j \in 1..n /\ 2 * j # j
      BY <1>1, <1>2
    <3>3. i # 2 * j => s = at[2 * j]
      BY <3>2, <1>10, <1>e
    <3> QED
      BY <2>2, <3>1, <3>2, <3>3, <1>h
  <2>3. CASE q # i /\ q # j
    <3>1. A[q] = at[q] /\ at[q] # p /\ at[q] # c /\ at[q] \in Nodes
      BY <2>3, <1>1, <1>h
    <3>2. h.left[at[q]] = IF 2 * q <= n THEN at[2 * q] ELSE NULL
      BY <1>1 DEF Joined
    <3>3. 2 * q <= n => 2 * q \in 1..n
      BY <1>1
    <3>4. CASE 2 * q = j
      <4>1. j # 1 /\ j \div 2 = q /\ 2 * q <= n
        BY <3>4, <1>2
      <4>2. h.parent[p] = at[q] /\ h.left[at[q]] = p
        BY <3>2, <3>4, <4>1, <1>7 DEF p
      <4> QED
        BY <2>0, <3>1, <3>4, <4>1, <4>2, <1>h
    <3>5. CASE 2 * q # j
      <4>1. 2 * q # i
        BY <2>3, <1>2
      <4>2. h.left[at[q]] # p
        BY <3>2, <3>3, <3>5, <4>1, <1>4, <1>h
      <4>3. g.left[A[q]] = h.left[at[q]]
        BY <2>0, <3>1, <4>2
      <4> QED
        BY <3>2, <3>3, <3>5, <4>1, <4>3, <1>h
    <3> QED
      BY <3>4, <3>5
  <2> QED
    BY <2>1, <2>2, <2>3
<1>14. ASSUME NEW q \in 1..n PROVE g.right[A[q]] = IF 2 * q + 1 <= n THEN A[2 * q + 1] ELSE NULL
  <2>0. \A x \in Nodes :
           g.right[x] = IF x = p THEN h.right[c]
                        ELSE IF x = c THEN (IF h.left[p] = c THEN s ELSE p)
                        ELSE IF x = h.parent[p] /\ h.left[x] # p /\ h.right[x] = p
                             THEN c ELSE h.right[x]
    BY <1>5 DEF Swapped
  <2>1. CASE q = i
    <3>1. g.right[A[q]] = h.right[c]
      BY <2>0, <2>1, <1>4, <1>h
    <3>2. 2 * i + 1 <= n => 2 * i + 1 \in 1..n /\ 2 * i + 1 # i /\ 2 * i + 1 # j
      BY <1>1, <1>2
    <3> QED
      BY <2>1, <3>1, <3>2, <1>8, <1>h
  <2>2. CASE q = j
    <3>1. g.right[A[q]] = IF i = 2 * j THEN s ELSE p
      BY <2>0, <2>2, <1>4, <1>9, <1>h
    <3>2. 2 * j + 1 <= n => 2 * j + 1 \in 1..n /\ 2 * j + 1 # j
      BY <1>1, <1>2
    <3>3. CASE i = 2 * j
      <4>1. e = 2 * j + 1 /\ e # i
        BY <3>3, <1>e
      <4> QED
        BY <2>2, <3>1, <3>2, <3>3, <4>1, <1>10, <1>h
    <3>4. CASE i # 2 * j
      <4>1. i = 2 * j + 1 /\ 2 * j + 1 <= n
        BY <3>4, <1>2
      <4> QED
        BY <2>2, <3>1, <3>4, <4>1, <1>h
    <3> QED
      BY <3>3, <3>4
  <2>3. CASE q # i /\ q # j
    <3>1. A[q] = at[q] /\ at[q] # p /\ at[q] # c /\ at[q] \in Nodes
      BY <2>3, <1>1, <1>h
    <3>2. /\ h.right[at[q]] = IF 2 * q + 1 <= n THEN at[2 * q + 1] ELSE NULL
          /\ h.left[at[q]] = IF 2 * q <= n THEN at[2 * q] ELSE NULL
      BY <1>1 DEF Joined
    <3>3. 2 * q + 1 <= n => 2 * q + 1 \in 1..n
      BY <1>1
    <3>4. CASE 2 * q + 1 = j
      <4>1. j # 1 /\ j \div 2 = q /\ 2 * q + 1 <= n /\ 2 * q <= n
        <5>1. n \in Nat /\ q \in Nat /\ q >= 1 /\ j <= n /\ j \in Nat
          BY <1>1, <1>2
        <5> QED
          BY ONLY <3>4, <5>1
      <4>2. h.parent[p] = at[q] /\ h.right[at[q]] = p
        BY <3>2, <3>4, <4>1, <1>7 DEF p
      <4>3. h.left[at[q]] # p
        <5>1. 2 * q \in 1..n /\ 2 * q # j
          BY <3>4, <4>1
        <5> QED
          BY <5>1, <3>2, <1>n, <1>2, <4>1 DEF p
      <4> QED
        BY <2>0, <3>1, <3>4, <4>1, <4>2, <4>3, <1>h
    <3>5. CASE 2 * q + 1 # j
      <4>1. 2 * q + 1 # i
        BY <2>3, <1>2
      <4>2. h.right[at[q]] # p
        BY <3>2, <3>3, <3>5, <4>1, <1>4, <1>h
      <4>3. g.right[A[q]] = h.right[at[q]]
        BY <2>0, <3>1, <4>2
      <4> QED
        BY <3>2, <3>3, <3>5, <4>1, <4>3, <1>h
    <3> QED
      BY <3>4, <3>5
  <2> QED
    BY <2>1, <2>2, <2>3
<1>15. ASSUME NEW x \in Nodes, P[x] = 0 PROVE Loose(g, x)
  <2>1. P[x] = IF x = p THEN i ELSE IF x = c THEN j ELSE pos[x]
    BY <1>1, <1>4 DEF P, p, c
  <2>2. pos[x] = 0 /\ x # p /\ x # c
    BY <2>1, <1>15, <1>2
  <2>3. h.parent[x] = NULL /\ h.left[x] = NULL /\ h.right[x] = NULL
    BY <2>2 DEF Tree, Loose
  <2>4. \A q \in 1..n : at[q] # x
    BY <2>2, <1>1
  <2>5. x # s
    BY <2>4, <1>10, <1>4, <1>1, <1>2, <1>e
  <2>6. x # h.left[c] /\ x # h.right[c]
    BY <2>4, <1>8, <1>4, <1>1
  <2> QED
    BY <2>2, <2>3, <2>5, <2>6, <1>4, <1>5 DEF Loose, Swapped
<1>16. Tree(g, n, A, P) /\ g.key = h.key
  BY <1>1, <1>3, <1>5, <1>11, <1>12, <1>13, <1>14, <1>15 DEF Tree, Joined, Swapped
<1> QED
  BY <1>16 DEF A, P, g, j, p, c


-----------------------------------------------------------------------------
(* The loops as sequences of rounds.                                       *)

Iterates(H, F, h, n, w) ==
    w \in [0..n -> H] /\ w[0] = h /\ \A k \in 1..n : w[k] = F[w[k - 1]]

\* A loop can be run for any number of rounds.
LEMMA Iteration ==
    ASSUME NEW H, NEW F \in [H -> H], NEW h \in H
    PROVE  \A n \in Nat : \E w : Iterates(H, F, h, n, w)
<1> USE DEF Iterates
<1> DEFINE Runs(n, w) == Iterates(H, F, h, n, w)
           Bad == {n \in Nat : ~ \E w : Runs(n, w)}
<1>1. SUFFICES ASSUME Bad # {} PROVE FALSE
  OBVIOUS
<1>2. PICK n \in Bad : \A m \in Bad : n <= m
  <2>1. Bad \in SUBSET Nat
    OBVIOUS
  <2> HIDE DEF Bad
  <2> QED
    BY <1>1, <2>1, LeastNat
<1>3. CASE n = 0
  <2>1. Runs(0, [k \in 0..0 |-> h])
    OBVIOUS
  <2> QED
    BY <1>3, <2>1
<1>4. CASE n # 0
  <2>a. n \in Nat
    BY <1>2
  <2>1. n \in Nat /\ n - 1 \in Nat /\ n - 1 \notin Bad
    <3> HIDE DEF Bad
    <3> QED
      BY <1>2, <1>4, <2>a
  <2>2. PICK w : Runs(n - 1, w)
    BY <2>1
  <2> DEFINE u == [k \in 0..n |-> IF k = n THEN F[w[n - 1]] ELSE w[k]]
  <2>3. u \in [0..n -> H] /\ u[0] = h /\ \A k \in 1..n : u[k] = F[u[k - 1]]
    BY <1>4, <2>1, <2>2
  <2>4. Runs(n, u)
    BY <2>3
  <2> QED
    BY <2>4, <1>2
<1> QED
  BY <1>3, <1>4

\* A round leaves a heap.
LEMMA UpRoundType ==
    ASSUME NEW h \in Heaps, NEW x \in Nodes
    PROVE  UpRound(h, x) \in Heaps
<1>1. h.parent[x] \in Pointer
  BY Fields
<1>2. CASE h.parent[x] # NULL /\ compare(h, x, h.parent[x])
  <2>1. h.parent[x] \in Nodes
    BY <1>1, <1>2 DEF Pointer
  <2> DEFINE g == heap_swap(h, h.parent[x], x)
  <2>2. g \in Heaps
    BY <2>1, SwapFields DEF Swapped
  <2> QED
    BY <1>2, <2>2 DEF UpRound
<1>3. CASE ~(h.parent[x] # NULL /\ compare(h, x, h.parent[x]))
  BY <1>3 DEF UpRound
<1> QED
  BY <1>2, <1>3

LEMMA LeastType ==
    ASSUME NEW h \in Heaps, NEW x \in Nodes
    PROVE  Least(h, x) \in Nodes
<1>1. h.left[x] \in Pointer /\ h.right[x] \in Pointer
  BY Fields
<1> QED
  BY <1>1 DEF Least, Pointer

LEMMA DownRoundType ==
    ASSUME NEW h \in Heaps, NEW x \in Nodes
    PROVE  DownRound(h, x) \in Heaps
<1> DEFINE g == heap_swap(h, x, Least(h, x))
<1>1. g \in Heaps
  BY LeastType, SwapFields DEF Swapped
<1> QED
  BY <1>1 DEF DownRound

\* The loops of the code are their rounds, one after the other.
LEMMA SiftUpRounds ==
    ASSUME NEW h \in Heaps, NEW x \in Nodes
    PROVE  \E w : /\ w[0] = h /\ \A k \in 1..h.nelts : w[k] = UpRound(w[k - 1], x)
                  /\ SiftUp(h, x) = w[h.nelts]
<1> DEFINE n == h.nelts
           R(w) == w = [k \in 0..n |-> IF k = 0 THEN h ELSE UpRound(w[k - 1], x)]
           c == CHOOSE w : R(w)
           F == [g \in Heaps |-> UpRound(g, x)]
<1>1. n \in Nat
  BY Fields
<1>2. F \in [Heaps -> Heaps]
  BY UpRoundType
<1>3. PICK w : Iterates(Heaps, F, h, n, w)
  <2> HIDE DEF F, n
  <2> QED
    BY <1>1, <1>2, Iteration
<1>4. R(w)
  <2>1. ASSUME NEW k \in 0..n PROVE w[k] = IF k = 0 THEN h ELSE UpRound(w[k - 1], x)
    <3>1. k # 0 => k \in 1..n /\ k - 1 \in 0..n
      BY <1>1
    <3> QED
      BY <1>3, <3>1 DEF Iterates
  <2> QED
    BY <1>3, <2>1 DEF Iterates
<1>5. R(c)
  <2> HIDE DEF R
  <2> QED
    BY <1>4
<1>6. SiftUp(h, x) = c[n]
  BY DEF SiftUp
<1> HIDE DEF c
<1>7. c[0] = h /\ \A k \in 1..n : c[k] = UpRound(c[k - 1], x)
  BY <1>1, <1>5
<1> QED
  BY <1>6, <1>7


LEMMA SiftDownRounds ==
    ASSUME NEW h \in Heaps, NEW x \in Nodes
    PROVE  \E w : /\ w[0] = h /\ \A k \in 1..h.nelts : w[k] = DownRound(w[k - 1], x)
                  /\ SiftDown(h, x) = w[h.nelts]
<1> DEFINE n == h.nelts
           R(w) == w = [k \in 0..n |-> IF k = 0 THEN h ELSE DownRound(w[k - 1], x)]
           c == CHOOSE w : R(w)
           F == [g \in Heaps |-> DownRound(g, x)]
<1>1. n \in Nat
  BY Fields
<1>2. F \in [Heaps -> Heaps]
  BY DownRoundType
<1>3. PICK w : Iterates(Heaps, F, h, n, w)
  <2> HIDE DEF F, n
  <2> QED
    BY <1>1, <1>2, Iteration
<1>4. R(w)
  <2>1. ASSUME NEW k \in 0..n PROVE w[k] = IF k = 0 THEN h ELSE DownRound(w[k - 1], x)
    <3>1. k # 0 => k \in 1..n /\ k - 1 \in 0..n
      BY <1>1
    <3> QED
      BY <1>3, <3>1 DEF Iterates
  <2> QED
    BY <1>3, <2>1 DEF Iterates
<1>5. R(c)
  <2> HIDE DEF R
  <2> QED
    BY <1>4
<1>6. SiftDown(h, x) = c[n]
  BY DEF SiftDown
<1> HIDE DEF c
<1>7. c[0] = h /\ \A k \in 1..n : c[k] = DownRound(c[k - 1], x)
  BY <1>1, <1>5
<1> QED
  BY <1>6, <1>7


-----------------------------------------------------------------------------
(* The order of the keys along the rounds.                                 *)

Members(pos) == {x \in Nodes : pos[x] # 0}

Keyed(h, pos) == \A x \in Members(pos) : h.key[x] \in Keys

\* No node is before the one above it, except perhaps the one at position j;
\* the nodes below j are not before the one above j.
Climbing(h, n, at, j) ==
    /\ \A i \in 2..n : i # j => h.key[at[i \div 2]] <= h.key[at[i]]
    /\ \A i \in 2..n : i \div 2 = j /\ j >= 2 => h.key[at[j \div 2]] <= h.key[at[i]]

\* The same, but for the nodes below j too.
Falling(h, n, at, j) ==
    /\ \A i \in 2..n : i # j /\ i \div 2 # j => h.key[at[i \div 2]] <= h.key[at[i]]
    /\ \A i \in 2..n : i \div 2 = j /\ j >= 2 => h.key[at[j \div 2]] <= h.key[at[i]]

Ordered(h, n, at) == \A i \in 2..n : h.key[at[i \div 2]] <= h.key[at[i]]

\* What a swap changes.
LEMMA SwapMoves ==
    ASSUME NEW h, NEW n, NEW at, NEW pos, Tree(h, n, at, pos), Keyed(h, pos), NEW i \in 2..n,
           NEW j, j = i \div 2, NEW g, g = heap_swap(h, at[j], at[i])
    PROVE  \E A, P :
              /\ Tree(g, n, A, P) /\ g.key = h.key /\ Keyed(g, P)
              /\ Members(P) = Members(pos)
              /\ P[at[i]] = j /\ P[at[j]] = i
              /\ A[j] = at[i] /\ A[i] = at[j] /\ \A q \in 1..n : q # i /\ q # j => A[q] = at[q]
<1> DEFINE A == [at EXCEPT ![i] = at[j], ![j] = at[i]]
           P == [pos EXCEPT ![at[i]] = j, ![at[j]] = i]
<1>1. Tree(g, n, A, P) /\ g.key = h.key
  BY SwapTree
<1>2. /\ n \in Nat /\ at \in [1..n -> Nodes] /\ pos \in [Nodes -> 0..n]
      /\ \A q \in 1..n : pos[at[q]] = q
  BY DEF Tree, Placed
<1>3. j \in 1..n /\ j # i /\ i \in 1..n /\ i # 0 /\ j # 0
  BY <1>2
<1>4. at[i] \in Nodes /\ at[j] \in Nodes /\ pos[at[i]] = i /\ pos[at[j]] = j
  BY <1>2, <1>3
<1>5. \A x \in Nodes : P[x] = IF x = at[j] THEN i ELSE IF x = at[i] THEN j ELSE pos[x]
  BY <1>2, <1>4
<1>6. A[j] = at[i] /\ A[i] = at[j] /\ \A q \in 1..n : q # i /\ q # j => A[q] = at[q]
  BY <1>2, <1>3
<1> HIDE DEF A, P
<1>7. Members(P) = Members(pos)
  BY <1>3, <1>4, <1>5 DEF Members
<1>8. Keyed(g, P)
  BY <1>1, <1>7 DEF Keyed
<1>9. P[at[i]] = j /\ P[at[j]] = i
  BY <1>3, <1>4, <1>5
<1> QED
  BY <1>1, <1>6, <1>7, <1>8, <1>9


\* Nodes in the tree have keys that can be compared.
LEMMA IntKeys ==
    ASSUME NEW h, NEW n, NEW at, NEW pos, Tree(h, n, at, pos), Keyed(h, pos)
    PROVE  \A q \in 1..n : at[q] \in Nodes /\ pos[at[q]] = q /\ h.key[at[q]] \in Int
<1> SUFFICES ASSUME NEW q \in 1..n PROVE at[q] \in Nodes /\ pos[at[q]] = q /\ h.key[at[q]] \in Int
  OBVIOUS
<1>1. n \in Nat /\ at[q] \in Nodes /\ pos[at[q]] = q /\ q # 0
  BY DEF Tree, Placed
<1> QED
  BY <1>1, HeapAssumption DEF Keyed, Members

\* A round of the upward loop: the order is restored or the node rises.
LEMMA UpStep ==
    ASSUME NEW h, NEW n, NEW at, NEW pos, Tree(h, n, at, pos), Keyed(h, pos),
           NEW x \in Nodes, pos[x] # 0, Climbing(h, n, at, pos[x]), NEW g, g = UpRound(h, x)
    PROVE  \E A, P : /\ Tree(g, n, A, P) /\ g.key = h.key /\ Keyed(g, P)
                     /\ Members(P) = Members(pos) /\ P[x] # 0 /\ Climbing(g, n, A, P[x])
                     /\ Ordered(g, n, A) \/ P[x] < pos[x]
<1> DEFINE j == pos[x]
           u == j \div 2
           K(q) == h.key[at[q]]
<1>1. /\ n \in Nat /\ j \in 1..n /\ at[j] = x
      /\ h.parent[x] = IF j = 1 THEN NULL ELSE at[u]
  BY DEF Tree, Placed, Joined
<1>2. \A q \in 1..n : at[q] \in Nodes /\ pos[at[q]] = q /\ K(q) \in Int
  BY IntKeys
<1>3. NULL \notin Nodes
  BY HeapAssumption
<1>4. \A i \in 2..n : i # j => K(i \div 2) <= K(i)
  BY DEF Climbing
<1>5. \A i \in 2..n : i \div 2 = j /\ j >= 2 => K(u) <= K(i)
  BY DEF Climbing
<1>6. CASE j = 1
  <2>1. g = h
    BY <1>1, <1>6 DEF UpRound
  <2>2. Ordered(h, n, at)
    BY <1>4, <1>6 DEF Ordered
  <2> QED
    BY <2>1, <2>2
<1>7. CASE j # 1
  <2>0. u \in 1..n /\ j \in 2..n /\ u < j
    BY <1>1, <1>7
  <2>1. CASE ~(K(j) < K(u))
    <3>1. g = h
      BY <1>1, <1>7, <2>1 DEF UpRound, compare
    <3>2. Ordered(h, n, at)
      BY <1>2, <1>4, <2>0, <2>1 DEF Ordered
    <3> QED
      BY <3>1, <3>2
  <2>2. CASE K(j) < K(u)
    <3>1. g = heap_swap(h, at[u], at[j])
      BY <1>1, <1>2, <1>3, <1>7, <2>0, <2>2 DEF UpRound, compare
    <3> HIDE DEF j, K
    <3>2. PICK A, P :
              /\ Tree(g, n, A, P) /\ g.key = h.key /\ Keyed(g, P)
              /\ Members(P) = Members(pos)
              /\ P[at[j]] = u /\ P[at[u]] = j
              /\ A[u] = at[j] /\ A[j] = at[u] /\ \A q \in 1..n : q # j /\ q # u => A[q] = at[q]
      BY <2>0, <3>1, SwapMoves
    <3> HIDE DEF u
    <3> DEFINE L(q) == g.key[A[q]]
    <3>3. L(u) = K(j) /\ L(j) = K(u) /\ \A q \in 1..n : q # j /\ q # u => L(q) = K(q)
      BY <3>2 DEF K
    <3>4. P[x] = u /\ u # 0 /\ u < j /\ j = pos[x]
      BY <3>2, <2>0, <1>1 DEF j
    <3>5. ASSUME NEW i \in 2..n, i # u PROVE L(i \div 2) <= L(i)
      <4>1. i \in 1..n /\ i \div 2 \in 1..n /\ i \div 2 # i
        BY <1>1
      <4> HIDE DEF L
      <4>2. CASE i = j
        BY <4>2, <3>3, <2>2, <2>0, <1>2 DEF u
      <4>3. CASE i # j /\ i \div 2 = u
        <5>1. K(u) <= K(i)
          BY <4>3, <1>4
        <5> QED
          BY <5>1, <4>3, <4>1, <3>3, <3>5, <2>2, <2>0, <1>2
      <4>4. CASE i # j /\ i \div 2 = j
        <5>1. K(u) <= K(i)
          BY <4>4, <2>0, <1>5
        <5> QED
          BY <5>1, <4>4, <3>3, <3>5, <4>1
      <4>5. CASE i # j /\ i \div 2 # u /\ i \div 2 # j
        BY <4>5, <4>1, <3>3, <3>5, <1>4
      <4> QED
        BY <4>2, <4>3, <4>4, <4>5
    <3>6. ASSUME NEW i \in 2..n, i \div 2 = u, u >= 2 PROVE L(u \div 2) <= L(i)
      <4>1. u \in 2..n /\ u # j /\ u \div 2 \in 1..n /\ u \div 2 # u /\ u \div 2 # j /\ i \in 1..n
            /\ i # u
        BY <3>6, <2>0, <1>1
      <4>2. K(u \div 2) <= K(u)
        BY <4>1, <1>4
      <4>3. L(u \div 2) = K(u \div 2)
        BY <4>1, <3>3
      <4> HIDE DEF L
      <4>4. CASE i = j
        BY <4>4, <4>2, <4>3, <3>3
      <4>5. CASE i # j
        <5>1. K(u) <= K(i)
          BY <4>5, <3>6, <1>4
        <5>2. L(i) = K(i)
          BY <4>1, <4>5, <3>3
        <5>3. K(u) \in Int /\ K(i) \in Int /\ K(u \div 2) \in Int
          BY <4>1, <2>0, <1>2
        <5> QED
          BY <5>1, <5>2, <5>3, <4>2, <4>3
      <4> QED
        BY <4>4, <4>5
    <3>7. Climbing(g, n, A, P[x])
      BY <3>4, <3>5, <3>6 DEF Climbing
    <3> QED
      BY <3>2, <3>4, <3>7
  <2> QED
    BY <2>1, <2>2
<1> QED
  BY <1>6, <1>7


\* Once the order is restored the upward loop has ended.
LEMMA UpStable ==
    ASSUME NEW h, NEW n, NEW at, NEW pos, Tree(h, n, at, pos), Keyed(h, pos),
           NEW x \in Nodes, pos[x] # 0, Ordered(h, n, at)
    PROVE  UpRound(h, x) = h
<1> DEFINE j == pos[x]
<1>1. n \in Nat /\ j \in 1..n /\ at[j] = x /\ h.parent[x] = IF j = 1 THEN NULL ELSE at[j \div 2]
  BY DEF Tree, Placed, Joined
<1>2. \A q \in 1..n : h.key[at[q]] \in Int
  BY IntKeys
<1>3. CASE j = 1
  BY <1>1, <1>3 DEF UpRound
<1>4. CASE j # 1
  <2>1. j \in 2..n /\ j \div 2 \in 1..n
    BY <1>1, <1>4
  <2>2. h.key[at[j \div 2]] <= h.key[at[j]]
    BY <2>1 DEF Ordered
  <2>3. ~(h.key[at[j]] < h.key[at[j \div 2]])
    BY <2>1, <2>2, <1>1, <1>2
  <2> QED
    BY <2>3, <1>1, <1>4 DEF UpRound, compare
<1> QED
  BY <1>3, <1>4

\* The upward loop restores the order: a node cannot rise more often than the
\* tree has positions.
LEMMA SiftUpOrders ==
    ASSUME NEW h, NEW n, NEW at, NEW pos, Tree(h, n, at, pos), Keyed(h, pos),
           NEW x \in Nodes, pos[x] # 0, Climbing(h, n, at, pos[x]), NEW g, g = SiftUp(h, x)
    PROVE  \E A, P : /\ Tree(g, n, A, P) /\ g.key = h.key /\ Keyed(g, P)
                     /\ Members(P) = Members(pos) /\ Ordered(g, n, A)
<1>1. h \in Heaps /\ h.nelts = n /\ n \in Nat /\ pos[x] \in 1..n
  BY DEF Tree, Placed
<1>2. PICK w : /\ w[0] = h /\ \A k \in 1..n : w[k] = UpRound(w[k - 1], x)
               /\ g = w[n]
  BY <1>1, SiftUpRounds
<1> DEFINE C(f, k, A, P) ==
               /\ Tree(f, n, A, P) /\ f.key = h.key /\ Keyed(f, P)
               /\ Members(P) = Members(pos) /\ P[x] # 0 /\ Climbing(f, n, A, P[x])
               /\ Ordered(f, n, A) \/ P[x] <= n - k
           Good(k) == \E A, P : C(w[k], k, A, P)
           Bad == {k \in Nat : k <= n /\ ~ Good(k)}
<1>3. Good(0)
  BY <1>1, <1>2
<1>4. ASSUME NEW k \in 1..n, Good(k - 1) PROVE Good(k)
  <2>0. k \in Nat /\ k - 1 \in Nat
    BY <1>1
  <2> DEFINE f == w[k - 1]
             e == w[k]
  <2>1. PICK A, P : C(f, k - 1, A, P)
    BY <1>4
  <2>2. e = UpRound(f, x)
    BY <1>2
  <2> HIDE DEF f, e
  <2>3. CASE Ordered(f, n, A)
    <3>1. e = f
      BY <2>1, <2>2, <2>3, UpStable
    <3>2. C(e, k, A, P)
      BY <2>1, <2>3, <3>1
    <3> QED
      BY <3>2 DEF e
  <2>4. CASE ~ Ordered(f, n, A)
    <3>1. PICK B, Q : /\ Tree(e, n, B, Q) /\ e.key = f.key /\ Keyed(e, Q)
                      /\ Members(Q) = Members(P) /\ Q[x] # 0 /\ Climbing(e, n, B, Q[x])
                      /\ Ordered(e, n, B) \/ Q[x] < P[x]
      BY <2>1, <2>2, UpStep
    <3>2. P[x] <= n - (k - 1) /\ P[x] \in Nat /\ Q[x] \in Nat
      BY <2>1, <2>4, <3>1 DEF Tree, Placed
    <3>3. Ordered(e, n, B) \/ Q[x] <= n - k
      BY <2>0, <3>1, <3>2, <1>1
    <3>4. C(e, k, B, Q)
      BY <3>1, <3>3, <2>1
    <3> QED
      BY <3>4 DEF e
  <2> QED
    BY <2>3, <2>4
<1> HIDE DEF Good
<1>5. Good(n)
  <2> SUFFICES ASSUME ~ Good(n) PROVE FALSE
    OBVIOUS
  <2>1. n \in Bad /\ Bad \in SUBSET Nat
    BY <1>1
  <2>2. PICK k \in Bad : \A m \in Bad : k <= m
    <3> HIDE DEF Bad
    <3> QED
      BY <2>1, LeastNat
  <2>3. k \in Nat /\ k <= n /\ ~ Good(k) /\ k # 0
    BY <2>2, <1>3
  <2>4. k - 1 \in Nat /\ k - 1 <= n /\ k \in 1..n /\ ~ (k <= k - 1)
    BY <2>3, <1>1
  <2>5. Good(k - 1)
    BY <2>2, <2>4
  <2> QED
    BY <2>3, <2>4, <2>5, <1>4
<1>6. PICK A, P : C(w[n], n, A, P)
  BY <1>5 DEF Good
<1>7. P[x] \in Nat /\ P[x] # 0
  BY <1>6 DEF Tree, Placed
<1>8. Ordered(g, n, A)
  BY <1>1, <1>2, <1>6, <1>7
<1> QED
  BY <1>2, <1>6, <1>8


\* The one the downward loop looks for: the node itself, when it is before
\* all below it, or one below it that is before none of these.
LEMMA LeastIs ==
    ASSUME NEW h, NEW n, NEW at, NEW pos, Tree(h, n, at, pos), Keyed(h, pos),
           NEW x \in Nodes, pos[x] # 0, NEW j, j = pos[x]
    PROVE  \/ /\ Least(h, x) = x
              /\ \A i \in 2..n : i \div 2 = j => h.key[x] <= h.key[at[i]]
           \/ \E i \in 2..n : /\ i \div 2 = j /\ Least(h, x) = at[i] /\ at[i] # x
                              /\ \A q \in 2..n : q \div 2 = j => h.key[at[i]] <= h.key[at[q]]
<1> DEFINE K(q) == h.key[at[q]]
           a == IF h.left[x] = NULL \/ compare(h, x, h.left[x]) THEN x ELSE h.left[x]
<1>1. /\ n \in Nat /\ j \in 1..n /\ at[j] = x
      /\ h.left[x] = IF 2 * j <= n THEN at[2 * j] ELSE NULL
      /\ h.right[x] = IF 2 * j + 1 <= n THEN at[2 * j + 1] ELSE NULL
  BY DEF Tree, Placed, Joined
<1>2. \A q \in 1..n : at[q] \in Nodes /\ pos[at[q]] = q /\ K(q) \in Int
  BY IntKeys
<1>3. NULL \notin Nodes
  BY HeapAssumption
<1>4. \A q \in 2..n : q \div 2 = j <=> (q = 2 * j \/ q = 2 * j + 1)
  BY <1>1
<1>5. Least(h, x) = IF h.right[x] = NULL \/ compare(h, a, h.right[x]) THEN a ELSE h.right[x]
  BY DEF Least
<1> HIDE DEF a, K
<1>6. CASE 2 * j > n
  <2>1. ~(2 * j <= n) /\ ~(2 * j + 1 <= n) /\ \A q \in 2..n : ~(q \div 2 = j)
    BY <1>6, <1>1
  <2>2. Least(h, x) = x
    BY <2>1, <1>1, <1>5 DEF a
  <2> QED
    BY <2>1, <2>2
<1>7. CASE 2 * j <= n
  <2>1. 2 * j \in 2..n /\ 2 * j \in 1..n /\ at[2 * j] \in Nodes /\ K(2 * j) \in Int /\ K(j) \in Int
        /\ at[2 * j] # x /\ (2 * j) \div 2 = j
    BY <1>7, <1>1, <1>2
  <2>2. a = (IF K(j) < K(2 * j) THEN x ELSE at[2 * j])
    BY <2>1, <1>1, <1>3, <1>7 DEF a, compare, K
  <2> DEFINE b == IF K(j) < K(2 * j) THEN j ELSE 2 * j
  <2>3. a = at[b] /\ K(b) \in Int /\ K(b) <= K(j) /\ K(b) <= K(2 * j) /\ (b = j \/ b = 2 * j)
        /\ b \in 1..n
    BY <2>1, <2>2, <1>1
  <2> HIDE DEF b
  <2>4. CASE 2 * j + 1 > n
    <3>1. ~(2 * j + 1 <= n)
      BY <2>4, <1>1
    <3>2. Least(h, x) = at[b]
      BY <3>1, <2>3, <1>1, <1>5
    <3>3. \A q \in 2..n : q \div 2 = j => K(b) <= K(q)
      BY <3>1, <2>3, <1>4
    <3> QED
      BY <3>2, <3>3, <2>1, <2>3, <1>1 DEF K
  <2>5. CASE 2 * j + 1 <= n
    <3>1. 2 * j + 1 \in 2..n /\ 2 * j + 1 \in 1..n /\ at[2 * j + 1] \in Nodes /\ K(2 * j + 1) \in Int
          /\ at[2 * j + 1] # x /\ (2 * j + 1) \div 2 = j
      BY <2>5, <1>1, <1>2
    <3>2. Least(h, x) = IF K(b) < K(2 * j + 1) THEN at[b] ELSE at[2 * j + 1]
      BY <3>1, <2>3, <2>5, <1>1, <1>3, <1>5 DEF compare, K
    <3>3. CASE K(b) < K(2 * j + 1)
      <4>1. Least(h, x) = at[b]
        BY <3>2, <3>3
      <4>2. ASSUME NEW q \in 2..n, q \div 2 = j PROVE K(b) <= K(q)
        <5>1. q = 2 * j \/ q = 2 * j + 1
          BY <4>2, <1>4
        <5>2. K(b) <= K(2 * j + 1)
          BY <3>1, <3>3, <2>3
        <5> QED
          BY <5>1, <5>2, <2>3
      <4> QED
        BY <4>1, <4>2, <2>1, <2>3, <1>1 DEF K
    <3>4. CASE ~(K(b) < K(2 * j + 1))
      <4>1. Least(h, x) = at[2 * j + 1]
        BY <3>2, <3>4
      <4>2. K(2 * j + 1) <= K(b) /\ K(2 * j + 1) <= K(2 * j)
        BY <3>1, <3>4, <2>1, <2>3
      <4>3. ASSUME NEW q \in 2..n, q \div 2 = j PROVE K(2 * j + 1) <= K(q)
        <5>1. q = 2 * j \/ q = 2 * j + 1
          BY <4>3, <1>4
        <5>2. K(2 * j + 1) <= K(2 * j + 1)
          BY <3>1
        <5> QED
          BY <5>1, <5>2, <4>2
      <4> QED
        BY <4>1, <4>3, <3>1 DEF K
    <3> QED
      BY <3>3, <3>4
  <2> QED
    BY <2>4, <2>5, <1>1
<1> QED
  BY <1>6, <1>7, <1>1

\* A round of the downward loop lets the node fall.
LEMMA DownStep ==
    ASSUME NEW h, NEW n, NEW at, NEW pos, Tree(h, n, at, pos), Keyed(h, pos),
           NEW x \in Nodes, pos[x] # 0, Falling(h, n, at, pos[x]), Least(h, x) # x,
           NEW g, g = DownRound(h, x)
    PROVE  \E A, P : /\ Tree(g, n, A, P) /\ g.key = h.key /\ Keyed(g, P)
                     /\ Members(P) = Members(pos) /\ P[x] # 0 /\ Falling(g, n, A, P[x])
                     /\ P[x] > pos[x]
<1> DEFINE j == pos[x]
           K(q) == h.key[at[q]]
<1>1. n \in Nat /\ j \in 1..n /\ at[j] = x
  BY DEF Tree, Placed
<1>2. \A q \in 1..n : at[q] \in Nodes /\ pos[at[q]] = q /\ K(q) \in Int
  BY IntKeys
<1>3. PICK i \in 2..n : /\ i \div 2 = j /\ Least(h, x) = at[i]
                        /\ \A q \in 2..n : q \div 2 = j => h.key[at[i]] <= h.key[at[q]]
  BY LeastIs
<1>4. \A q \in 2..n : q # j /\ q \div 2 # j => K(q \div 2) <= K(q)
  BY DEF Falling
<1>5. \A q \in 2..n : q \div 2 = j /\ j >= 2 => K(j \div 2) <= K(q)
  BY DEF Falling
<1>6. g = heap_swap(h, at[j], at[i])
  BY <1>1, <1>3 DEF DownRound
<1>7. i \in 1..n /\ j < i
  BY <1>1, <1>3
<1>8. \A q \in 2..n : q \div 2 = j => K(i) <= K(q)
  BY <1>3
<1> HIDE DEF j, K
<1>9. PICK A, P :
          /\ Tree(g, n, A, P) /\ g.key = h.key /\ Keyed(g, P)
          /\ Members(P) = Members(pos)
          /\ P[at[i]] = j /\ P[at[j]] = i
          /\ A[j] = at[i] /\ A[i] = at[j] /\ \A q \in 1..n : q # i /\ q # j => A[q] = at[q]
  BY <1>3, <1>6, SwapMoves
<1> DEFINE L(q) == g.key[A[q]]
<1>10. L(j) = K(i) /\ L(i) = K(j) /\ \A q \in 1..n : q # i /\ q # j => L(q) = K(q)
  BY <1>9 DEF K
<1>11. P[x] = i /\ i # 0 /\ i > pos[x]
  BY <1>1, <1>7, <1>9 DEF j
<1>12. ASSUME NEW q \in 2..n, q # i, q \div 2 # i PROVE L(q \div 2) <= L(q)
  <2>1. q \in 1..n /\ q \div 2 \in 1..n /\ q \div 2 # q
    BY <1>1
  <2> HIDE DEF L
  <2>2. CASE q = j
    <3>1. K(j \div 2) <= K(i)
      BY <2>2, <1>3, <1>5
    <3> QED
      BY <3>1, <2>1, <2>2, <1>10, <1>12
  <2>3. CASE q # j /\ q \div 2 = j
    BY <2>1, <2>3, <1>8, <1>10, <1>12
  <2>4. CASE q # j /\ q \div 2 # j
    BY <2>1, <2>4, <1>4, <1>10, <1>12
  <2> QED
    BY <2>2, <2>3, <2>4
<1>13. ASSUME NEW q \in 2..n, q \div 2 = i, i >= 2 PROVE L(i \div 2) <= L(q)
  <2>1. q \in 1..n /\ q # i /\ q # j /\ i # j
    BY <1>1, <1>7, <1>13
  <2>2. K(i) <= K(q)
    BY <2>1, <1>4, <1>13
  <2> HIDE DEF L
  <2> QED
    BY <2>1, <2>2, <1>3, <1>10
<1>14. Falling(g, n, A, P[x])
  BY <1>11, <1>12, <1>13 DEF Falling
<1> QED
  BY <1>9, <1>11, <1>14

\* The downward loop ends with the node before all below it.
LEMMA SiftDownOrders ==
    ASSUME NEW h, NEW n, NEW at, NEW pos, Tree(h, n, at, pos), Keyed(h, pos),
           NEW x \in Nodes, pos[x] # 0, Falling(h, n, at, pos[x]), NEW g, g = SiftDown(h, x)
    PROVE  \E A, P : /\ Tree(g, n, A, P) /\ g.key = h.key /\ Keyed(g, P)
                     /\ Members(P) = Members(pos) /\ P[x] # 0 /\ Climbing(g, n, A, P[x])
<1>1. h \in Heaps /\ h.nelts = n /\ n \in Nat /\ pos[x] \in 1..n
  BY DEF Tree, Placed
<1>2. PICK w : /\ w[0] = h /\ \A k \in 1..n : w[k] = DownRound(w[k - 1], x)
               /\ g = w[n]
  BY <1>1, SiftDownRounds
<1> DEFINE C(f, k, A, P) ==
               /\ Tree(f, n, A, P) /\ f.key = h.key /\ Keyed(f, P)
               /\ Members(P) = Members(pos) /\ P[x] # 0 /\ Falling(f, n, A, P[x])
               /\ Least(f, x) = x \/ P[x] > k
           Good(k) == \E A, P : C(w[k], k, A, P)
           Bad == {k \in Nat : k <= n /\ ~ Good(k)}
<1>3. Good(0)
  BY <1>1, <1>2
<1>4. ASSUME NEW k \in 1..n, Good(k - 1) PROVE Good(k)
  <2>0. k \in Nat /\ k - 1 \in Nat
    BY <1>1
  <2> DEFINE f == w[k - 1]
             e == w[k]
  <2>1. PICK A, P : C(f, k - 1, A, P)
    BY <1>4
  <2>2. e = DownRound(f, x)
    BY <1>2
  <2> HIDE DEF f, e
  <2>3. CASE Least(f, x) = x
    <3>1. e = f
      BY <2>2, <2>3 DEF DownRound
    <3>2. C(e, k, A, P)
      BY <2>1, <2>3, <3>1
    <3> QED
      BY <3>2 DEF e
  <2>4. CASE Least(f, x) # x
    <3>1. PICK B, Q : /\ Tree(e, n, B, Q) /\ e.key = f.key /\ Keyed(e, Q)
                      /\ Members(Q) = Members(P) /\ Q[x] # 0 /\ Falling(e, n, B, Q[x])
                      /\ Q[x] > P[x]
      BY <2>1, <2>2, <2>4, DownStep
    <3>2. P[x] > k - 1 /\ P[x] \in Nat /\ Q[x] \in Nat
      BY <2>1, <2>4, <3>1 DEF Tree, Placed
    <3>3. Q[x] > k
      BY <2>0, <3>1, <3>2
    <3>4. C(e, k, B, Q)
      BY <3>1, <3>3, <2>1
    <3> QED
      BY <3>4 DEF e
  <2> QED
    BY <2>3, <2>4
<1> HIDE DEF Good
<1>5. Good(n)
  <2> SUFFICES ASSUME ~ Good(n) PROVE FALSE
    OBVIOUS
  <2>1. n \in Bad /\ Bad \in SUBSET Nat
    BY <1>1
  <2>2. PICK k \in Bad : \A m \in Bad : k <= m
    <3> HIDE DEF Bad
    <3> QED
      BY <2>1, LeastNat
  <2>3. k \in Nat /\ k <= n /\ ~ Good(k) /\ k # 0
    BY <2>2, <1>3
  <2>4. k - 1 \in Nat /\ k - 1 <= n /\ k \in 1..n /\ ~ (k <= k - 1)
    BY <2>3, <1>1
  <2>5. Good(k - 1)
    BY <2>2, <2>4
  <2> QED
    BY <2>3, <2>4, <2>5, <1>4
<1>6. PICK A, P : C(w[n], n, A, P)
  BY <1>5 DEF Good
<1>7. P[x] \in 1..n /\ A[P[x]] = x
  BY <1>6 DEF Tree, Placed
<1>8. Tree(g, n, A, P) /\ Keyed(g, P) /\ P[x] # 0 /\ Falling(g, n, A, P[x])
  BY <1>2, <1>6
<1>9. Least(g, x) = x
  BY <1>1, <1>2, <1>6, <1>7
<1>10. \A i \in 2..n : i \div 2 = P[x] => g.key[x] <= g.key[A[i]]
  <2>1. ASSUME NEW i \in 2..n, Least(g, x) = A[i], A[i] # x PROVE FALSE
    BY <2>1, <1>9
  <2> QED
    BY <2>1, <1>8, LeastIs
<1>11. Climbing(g, n, A, P[x])
  BY <1>7, <1>8, <1>10 DEF Falling, Climbing
<1> QED
  BY <1>2, <1>6, <1>11


-----------------------------------------------------------------------------
(* The ways down from the root.                                            *)

HalfStep(n, c, f) == \A i \in 1..n : (i = 1 \/ c[i \div 2] = f[i \div 2]) => c[i] = f[i]

\* What holds at the root, and below where it holds, holds everywhere.
LEMMA HalfInduction ==
    ASSUME NEW n \in Nat, NEW c, NEW f, HalfStep(n, c, f)
    PROVE  \A i \in 1..n : c[i] = f[i]
<1> DEFINE Bad == {i \in Nat : i \in 1..n /\ c[i] # f[i]}
<1>1. SUFFICES ASSUME Bad # {} PROVE FALSE
  OBVIOUS
<1>2. PICK i \in Bad : \A m \in Bad : i <= m
  <2>1. Bad \in SUBSET Nat
    OBVIOUS
  <2> HIDE DEF Bad
  <2> QED
    BY <1>1, <2>1, LeastNat
<1>3. i \in 1..n /\ c[i] # f[i] /\ i # 1
  BY <1>2 DEF HalfStep
<1>4. i \div 2 \in 1..n /\ ~(i <= i \div 2)
  BY <1>3
<1>5. c[i \div 2] = f[i \div 2]
  <2>1. i \div 2 \notin Bad
    BY <1>2, <1>4
  <2> QED
    BY <2>1, <1>4
<1> QED
  BY <1>3, <1>5 DEF HalfStep

\* Where the tree has a node, or where the next one is put.
Place(n, at, i) == IF i <= n THEN at[i] ELSE NULL

LEMMA ChildIs ==
    ASSUME NEW h, NEW n, NEW at, NEW pos, Tree(h, n, at, pos), NEW q \in 1..n, NEW i \in Nat,
           i \div 2 = q
    PROVE  Child(h, at[q], i % 2 = 1) = Place(n, at, i)
<1>1. n \in Nat /\ Joined(h, n, at, q)
  BY DEF Tree, Placed
<1>2. \/ i = 2 * q + 1 /\ i % 2 = 1
      \/ i = 2 * q /\ i % 2 # 1
  OBVIOUS
<1> QED
  BY <1>1, <1>2 DEF Joined, Child, Place

\* The bits of the position lead to the node above it.
LEMMA ParentOfIs ==
    ASSUME NEW h, NEW n, NEW at, NEW pos, Tree(h, n, at, pos), NEW m \in 2 .. n + 1
    PROVE  ParentOf(h, m) = at[m \div 2]
<1> DEFINE R(w) == w = [i \in 1..m |-> IF i = 1 THEN h.root
                                       ELSE Child(h, w[i \div 2], i % 2 = 1)]
           c == CHOOSE w : R(w)
           f == [i \in 1..m |-> Place(n, at, i)]
<1>1. n \in Nat /\ m \in Nat /\ n >= 1 /\ h.root = at[1] /\ m \div 2 \in 1..n
      /\ m \div 2 \in 1..m
  BY DEF Tree, Placed
<1>2. ASSUME NEW i \in 1..m, i # 1 PROVE i \div 2 \in 1..n /\ i \div 2 \in 1..m /\ i \in Nat
  BY <1>1, <1>2
<1>3. ASSUME NEW i \in 1..m, i # 1 PROVE f[i] = Child(h, f[i \div 2], i % 2 = 1)
  <2>1. f[i \div 2] = at[i \div 2] /\ f[i] = Place(n, at, i)
    BY <1>1, <1>2, <1>3 DEF Place
  <2> HIDE DEF f
  <2> QED
    BY <2>1, <1>2, <1>3, ChildIs
<1>4. 1 \in 1..m => f[1] = h.root
  BY <1>1 DEF Place
<1>5. R(f)
  <2>1. ASSUME NEW i \in 1..m
        PROVE  f[i] = IF i = 1 THEN h.root ELSE Child(h, f[i \div 2], i % 2 = 1)
    <3> HIDE DEF f
    <3> QED
      BY <1>3, <1>4
  <2>2. f = [i \in 1..m |-> f[i]]
    OBVIOUS
  <2> HIDE DEF f
  <2> QED
    BY <2>1, <2>2
<1>6. R(c)
  <2> HIDE DEF R, f
  <2> QED
    BY <1>5
<1>7. ParentOf(h, m) = c[m \div 2]
  BY <1>1 DEF ParentOf
<1> HIDE DEF c
<1>8. \A i \in 1..m : c[i] = IF i = 1 THEN h.root ELSE Child(h, c[i \div 2], i % 2 = 1)
  BY <1>6
<1> HIDE DEF f
<1>9. HalfStep(m, c, f)
  BY <1>3, <1>4, <1>8 DEF HalfStep
<1>10. \A i \in 1..m : c[i] = f[i]
  BY <1>1, <1>9, HalfInduction
<1> QED
  BY <1>1, <1>7, <1>10 DEF f, Place

\* At finds the nodes of the tree.
LEMMA AtIs ==
    ASSUME NEW n, NEW at, NEW pos, Tree(heap, n, at, pos), NEW m \in 1..n
    PROVE  At(m) = at[m]
<1> DEFINE R(w) == w = [i \in 1..m |-> IF i = 1 THEN heap.root
                                       ELSE IF w[i \div 2] = NULL THEN NULL
                                       ELSE Child(heap, w[i \div 2], i % 2 = 1)]
           c == CHOOSE w : R(w)
           f == [i \in 1..m |-> at[i]]
<1>1. n \in Nat /\ m \in Nat /\ n >= 1 /\ heap.root = at[1] /\ m \in 1..m
      /\ at \in [1..n -> Nodes]
  BY DEF Tree, Placed
<1>2. ASSUME NEW i \in 1..m, i # 1
      PROVE i \div 2 \in 1..n /\ i \div 2 \in 1..m /\ i \in Nat /\ i <= n
  BY <1>1, <1>2
<1>3. ASSUME NEW i \in 1..m, i # 1
      PROVE  f[i \div 2] # NULL /\ f[i] = Child(heap, f[i \div 2], i % 2 = 1)
  <2>1. f[i \div 2] = at[i \div 2] /\ f[i] = at[i] /\ f[i \div 2] # NULL
    BY <1>1, <1>2, <1>3, HeapAssumption
  <2> HIDE DEF f
  <2>2. Child(heap, at[i \div 2], i % 2 = 1) = Place(n, at, i)
    BY <1>2, <1>3, ChildIs
  <2> QED
    BY <2>1, <2>2, <1>2, <1>3 DEF Place
<1>4. 1 \in 1..m => f[1] = heap.root
  BY <1>1
<1>5. R(f)
  <2>1. ASSUME NEW i \in 1..m
        PROVE  f[i] = IF i = 1 THEN heap.root ELSE IF f[i \div 2] = NULL THEN NULL
                      ELSE Child(heap, f[i \div 2], i % 2 = 1)
    <3> HIDE DEF f
    <3> QED
      BY <1>3, <1>4
  <2>2. f = [i \in 1..m |-> f[i]]
    OBVIOUS
  <2> HIDE DEF f
  <2> QED
    BY <2>1, <2>2
<1>6. R(c)
  <2> HIDE DEF R, f
  <2> QED
    BY <1>5
<1>7. At(m) = c[m]
  BY <1>1 DEF At
<1> HIDE DEF c
<1>8. \A i \in 1..m : c[i] = IF i = 1 THEN heap.root ELSE IF c[i \div 2] = NULL THEN NULL
                             ELSE Child(heap, c[i \div 2], i % 2 = 1)
  BY <1>6
<1> HIDE DEF f
<1>9. HalfStep(m, c, f)
  BY <1>3, <1>4, <1>8 DEF HalfStep
<1>10. \A i \in 1..m : c[i] = f[i]
  BY <1>1, <1>9, HalfInduction
<1> QED
  BY <1>1, <1>7, <1>10 DEF f


-----------------------------------------------------------------------------
(* Insertion.                                                              *)

\* A key is written.
LEMMA KeyFields ==
    ASSUME NEW h \in Heaps, NEW x \in Nodes, NEW k \in Keys \cup {Out}, NEW g,
           g = [h EXCEPT !.key[x] = k]
    PROVE  Has(g, h.root, h.nelts, h.parent, h.left, h.right, [h.key EXCEPT ![x] = k])
<1> DEFINE f == [h.key EXCEPT ![x] = k]
<1>1. f \in [Nodes -> Keys \cup {Out}]
  BY Fields
<1>2. g = [root |-> h.root, nelts |-> h.nelts, parent |-> h.parent, left |-> h.left,
           right |-> h.right, key |-> f]
  BY Fields
<1> HIDE DEF f
<1>3. h.root \in Pointer /\ h.nelts \in Nat /\ h.parent \in [Nodes -> Pointer]
      /\ h.left \in [Nodes -> Pointer] /\ h.right \in [Nodes -> Pointer]
  BY Fields
<1>4. Has(g, h.root, h.nelts, h.parent, h.left, h.right, f)
  BY ONLY <1>1, <1>2, <1>3, Built
<1> QED
  BY <1>4 DEF f

Rekeyed(h, x, k) == [h EXCEPT !.key[x] = k]

LEMMA KeyTree ==
    ASSUME NEW h, NEW n, NEW at, NEW pos, Tree(h, n, at, pos), NEW x \in Nodes,
           NEW k \in Keys \cup {Out}, NEW g, g = Rekeyed(h, x, k)
    PROVE  Tree(g, n, at, pos) /\ g.key = [h.key EXCEPT ![x] = k]
<1>1. h \in Heaps
  BY DEF Tree
<1>2. Has(g, h.root, h.nelts, h.parent, h.left, h.right, [h.key EXCEPT ![x] = k])
  BY <1>1, KeyFields DEF Rekeyed
<1> QED
  BY <1>2 DEF Tree, Joined, Loose, Has

\* The node is linked where the next one goes.
Hung(h, x) ==
    LET p == ParentOf(h, h.nelts + 1)
        g == [h EXCEPT !.nelts = @ + 1, !.parent[x] = p]
    IN  IF p = NULL THEN [g EXCEPT !.root = x]
        ELSE IF g.nelts % 2 = 1 THEN [g EXCEPT !.right[p] = x]
        ELSE [g EXCEPT !.left[p] = x]

Hangs(h, x, p, m, g) ==
    /\ g \in Heaps /\ g.nelts = m /\ g.key = h.key
    /\ g.root = IF p = NULL THEN x ELSE h.root
    /\ \A y \in Nodes :
         /\ g.parent[y] = IF y = x THEN p ELSE h.parent[y]
         /\ g.left[y] = IF y = p /\ m % 2 # 1 THEN x ELSE h.left[y]
         /\ g.right[y] = IF y = p /\ m % 2 = 1 THEN x ELSE h.right[y]

\* heap_insert before its loop, pointer by pointer,
LEMMA HungFields ==
    ASSUME NEW h \in Heaps, NEW x \in Nodes, NEW g, g = Hung(h, x),
           NEW p \in Pointer, p = ParentOf(h, h.nelts + 1), NEW m, m = h.nelts + 1
    PROVE  Hangs(h, x, p, m, g)
<1> USE DEF Hangs
<1> DEFINE f == [h.parent EXCEPT ![x] = p]
           e == [h EXCEPT !.nelts = @ + 1, !.parent[x] = p]
<1>0. h.root \in Pointer /\ h.nelts \in Nat /\ h.parent \in [Nodes -> Pointer]
      /\ h.left \in [Nodes -> Pointer] /\ h.right \in [Nodes -> Pointer]
      /\ h.key \in [Nodes -> Keys \cup {Out}] /\ m \in Nat
  BY Fields
<1>1. f \in [Nodes -> Pointer] /\ \A y \in Nodes : f[y] = IF y = x THEN p ELSE h.parent[y]
  BY <1>0
<1>a. e = [h EXCEPT !.nelts = m, !.parent = f]
  BY DEF Heaps
<1>3. g = IF p = NULL THEN [e EXCEPT !.root = x]
          ELSE IF e.nelts % 2 = 1 THEN [e EXCEPT !.right[p] = x]
          ELSE [e EXCEPT !.left[p] = x]
  BY DEF Hung
<1> HIDE DEF f, e
<1>2. e = [root |-> h.root, nelts |-> m, parent |-> f, left |-> h.left, right |-> h.right,
           key |-> h.key]
  BY <1>a DEF Heaps
<1>4. Has(e, h.root, m, f, h.left, h.right, h.key)
  BY ONLY <1>0, <1>1, <1>2, Built
<1>5. NULL \notin Nodes /\ x \in Pointer /\ (p # NULL => p \in Nodes)
  BY HeapAssumption DEF Pointer
<1>6. CASE p = NULL
  <2>1. g = [root |-> x, nelts |-> m, parent |-> f, left |-> h.left, right |-> h.right,
             key |-> h.key]
    BY <1>2, <1>3, <1>6
  <2>2. Has(g, x, m, f, h.left, h.right, h.key)
    BY ONLY <1>0, <1>1, <1>5, <2>1, Built
  <2> QED
    BY <2>2, <1>1, <1>5, <1>6 DEF Has
<1>7. CASE p # NULL /\ m % 2 = 1
  <2> DEFINE r == [h.right EXCEPT ![p] = x]
  <2>a. r \in [Nodes -> Pointer] /\ \A y \in Nodes : r[y] = IF y = p THEN x ELSE h.right[y]
    BY <1>0, <1>5, <1>7
  <2>1. g = [root |-> h.root, nelts |-> m, parent |-> f, left |-> h.left, right |-> r,
             key |-> h.key]
    BY <1>2, <1>3, <1>4, <1>7 DEF Has
  <2> HIDE DEF r
  <2>2. Has(g, h.root, m, f, h.left, r, h.key)
    BY ONLY <1>0, <1>1, <2>a, <2>1, Built
  <2> QED
    BY <2>2, <2>a, <1>1, <1>5, <1>7 DEF Has
<1>8. CASE p # NULL /\ m % 2 # 1
  <2> DEFINE r == [h.left EXCEPT ![p] = x]
  <2>a. r \in [Nodes -> Pointer] /\ \A y \in Nodes : r[y] = IF y = p THEN x ELSE h.left[y]
    BY <1>0, <1>5, <1>8
  <2>1. g = [root |-> h.root, nelts |-> m, parent |-> f, left |-> r, right |-> h.right,
             key |-> h.key]
    BY <1>2, <1>3, <1>4, <1>8 DEF Has
  <2> HIDE DEF r
  <2>2. Has(g, h.root, m, f, r, h.right, h.key)
    BY ONLY <1>0, <1>1, <2>a, <2>1, Built
  <2> QED
    BY <2>2, <2>a, <1>1, <1>5, <1>8 DEF Has
<1> QED
  BY <1>6, <1>7, <1>8


\* leaves a tree with the new node at the next position.
LEMMA HungTree ==
    ASSUME NEW h, NEW n, NEW at, NEW pos, Tree(h, n, at, pos), NEW x \in Nodes, pos[x] = 0,
           NEW g, g = Hung(h, x), NEW m, m = n + 1
    PROVE  \E A, P : /\ Tree(g, m, A, P) /\ g.key = h.key
                     /\ Members(P) = Members(pos) \cup {x}
                     /\ P[x] = m /\ A[m] = x /\ \A q \in 1..n : A[q] = at[q]
<1> DEFINE p == ParentOf(h, m)
           A == [q \in 1..m |-> IF q = m THEN x ELSE at[q]]
           P == [pos EXCEPT ![x] = m]
           u == m \div 2
<1>1. /\ h \in Heaps /\ h.nelts = n /\ n \in Nat /\ at \in [1..n -> Nodes]
      /\ pos \in [Nodes -> 0..n] /\ \A q \in 1..n : pos[at[q]] = q
      /\ \A y \in Nodes : pos[y] # 0 => at[pos[y]] = y
      /\ h.root = IF n = 0 THEN NULL ELSE at[1]
  BY DEF Tree, Placed
<1>a. /\ \A q \in 1..n : Joined(h, n, at, q)
      /\ \A y \in Nodes : pos[y] = 0 => Loose(h, y)
  BY DEF Tree
<1>2. NULL \notin Nodes
  BY HeapAssumption
<1>3. m \in Nat /\ m >= 1 /\ 1..m = 1..n \cup {m} /\ m \notin 1..n
  BY <1>1
<1>4. p = IF n = 0 THEN NULL ELSE at[u]
  <2>1. CASE n = 0
    BY <2>1, <1>1 DEF ParentOf
  <2>2. CASE n # 0
    <3>1. m \in 2 .. n + 1
      BY <2>2, <1>1
    <3> QED
      BY <2>2, <3>1, ParentOfIs
  <2> QED
    BY <2>1, <2>2
<1>5. n # 0 => u \in 1..n /\ u # m
  BY <1>1
<1>6. p \in Pointer
  BY <1>1, <1>4, <1>5 DEF Pointer
<1>g. g = Hung(h, x) /\ p = ParentOf(h, h.nelts + 1) /\ m = h.nelts + 1
  BY <1>1
<1> HIDE DEF p
<1>7. /\ g \in Heaps /\ g.nelts = m /\ g.key = h.key
      /\ g.root = IF p = NULL THEN x ELSE h.root
      /\ \A y \in Nodes :
           /\ g.parent[y] = IF y = x THEN p ELSE h.parent[y]
           /\ g.left[y] = IF y = p /\ m % 2 # 1 THEN x ELSE h.left[y]
           /\ g.right[y] = IF y = p /\ m % 2 = 1 THEN x ELSE h.right[y]
  <2>1. Hangs(h, x, p, m, g)
    BY <1>1, <1>6, <1>g, HungFields
  <2> QED
    BY <2>1 DEF Hangs
<1>8. A \in [1..m -> Nodes] /\ A[m] = x /\ \A q \in 1..n : A[q] = at[q]
  BY <1>1, <1>3
<1>9. P \in [Nodes -> 0..m] /\ \A y \in Nodes : P[y] = IF y = x THEN m ELSE pos[y]
  BY <1>1, <1>3
<1> HIDE DEF A, P, u
<1>10. \A q \in 1..n : at[q] \in Nodes /\ at[q] # x
  BY <1>1
<1>11. Placed(m, A, P)
  <2>1. \A q \in 1..m : P[A[q]] = q
    BY <1>1, <1>3, <1>8, <1>9, <1>10
  <2>2. ASSUME NEW y \in Nodes, P[y] # 0 PROVE A[P[y]] = y
    <3>1. CASE y = x
      BY <3>1, <1>8, <1>9
    <3>2. CASE y # x
      <4>1. P[y] = pos[y] /\ pos[y] \in 1..n /\ at[pos[y]] = y
        BY <2>2, <3>2, <1>1, <1>9
      <4> QED
        BY <4>1, <1>8
    <3> QED
      BY <3>1, <3>2
  <2> QED
    BY <2>1, <2>2, <1>3, <1>8, <1>9 DEF Placed
<1>12. g.root = A[1]
  <2>1. CASE n = 0
    BY <2>1, <1>1, <1>4, <1>7, <1>8
  <2>2. CASE n # 0
    <3>1. p # NULL /\ 1 \in 1..n
      BY <2>2, <1>1, <1>2, <1>4, <1>5
    <3> QED
      BY <2>2, <3>1, <1>1, <1>7, <1>8
  <2> QED
    BY <2>1, <2>2
<1>13. Joined(g, m, A, m)
  <2>1. g.parent[x] = IF m = 1 THEN NULL ELSE A[u]
    BY <1>1, <1>4, <1>5, <1>7, <1>8
  <2>2. x # p /\ h.left[x] = NULL /\ h.right[x] = NULL
    BY <1>a, <1>2, <1>4, <1>5, <1>10 DEF Loose
  <2>3. g.left[x] = NULL /\ g.right[x] = NULL
    BY <2>2, <1>7
  <2>4. ~(2 * m <= m) /\ ~(2 * m + 1 <= m)
    BY <1>3
  <2> QED
    BY <2>1, <2>3, <2>4, <1>8 DEF Joined, u
<1>14. ASSUME NEW q \in 1..n PROVE Joined(g, m, A, q)
  <2>0. Joined(h, n, at, q) /\ A[q] = at[q] /\ at[q] \in Nodes /\ at[q] # x /\ n # 0 /\ q \in Nat
        /\ q >= 1
    BY <1>a, <1>1, <1>8, <1>10
  <2>1. g.parent[A[q]] = IF q = 1 THEN NULL ELSE A[q \div 2]
    <3>1. q # 1 => q \div 2 \in 1..n
      BY <1>1
    <3> QED
      BY <2>0, <3>1, <1>7, <1>8 DEF Joined
  <2>p. (at[q] = p) <=> (q = u)
    BY <2>0, <1>1, <1>4, <1>5
  <2>u. (m % 2 # 1 /\ q = u <=> 2 * q = m) /\ (m % 2 = 1 /\ q = u <=> 2 * q + 1 = m)
    <3>1. m = 2 * u + (m % 2) /\ (m % 2 = 0 \/ m % 2 = 1) /\ u \in Nat
      BY <1>3 DEF u
    <3>2. ASSUME m % 2 # 1 PROVE (m % 2 # 1 /\ q = u <=> 2 * q = m) /\ 2 * q + 1 # m
      BY <3>1, <3>2, <2>0, <1>3
    <3>3. ASSUME m % 2 = 1 PROVE (m % 2 = 1 /\ q = u <=> 2 * q + 1 = m) /\ 2 * q # m
      BY <3>1, <3>3, <2>0, <1>3
    <3> QED
      BY <3>2, <3>3
  <2>2. g.left[A[q]] = IF 2 * q = m THEN x ELSE h.left[at[q]]
    BY <2>0, <2>p, <2>u, <1>7
  <2>3. g.right[A[q]] = IF 2 * q + 1 = m THEN x ELSE h.right[at[q]]
    BY <2>0, <2>p, <2>u, <1>7
  <2>4. g.left[A[q]] = IF 2 * q <= m THEN A[2 * q] ELSE NULL
    <3>1. CASE 2 * q = m
      BY <3>1, <2>2, <1>8, <1>3
    <3>2. CASE 2 * q # m
      <4>1. (2 * q <= m <=> 2 * q <= n) /\ (2 * q <= n => 2 * q \in 1..n)
        BY <3>2, <2>0, <1>1
      <4> QED
        BY <3>2, <4>1, <2>0, <2>2, <1>8 DEF Joined
    <3> QED
      BY <3>1, <3>2
  <2>5. g.right[A[q]] = IF 2 * q + 1 <= m THEN A[2 * q + 1] ELSE NULL
    <3>1. CASE 2 * q + 1 = m
      BY <3>1, <2>3, <1>8, <1>3
    <3>2. CASE 2 * q + 1 # m
      <4>1. (2 * q + 1 <= m <=> 2 * q + 1 <= n) /\ (2 * q + 1 <= n => 2 * q + 1 \in 1..n)
        BY <3>2, <2>0, <1>1
      <4> QED
        BY <3>2, <4>1, <2>0, <2>3, <1>8 DEF Joined
    <3> QED
      BY <3>1, <3>2
  <2> QED
    BY <2>1, <2>4, <2>5 DEF Joined
<1>15. ASSUME NEW y \in Nodes, P[y] = 0 PROVE Loose(g, y)
  <2>1. y # x /\ pos[y] = 0
    BY <1>15, <1>3, <1>9
  <2>2. y # p
    BY <2>1, <1>1, <1>2, <1>4, <1>5
  <2> QED
    BY <2>1, <2>2, <1>a, <1>7 DEF Loose
<1>16. Tree(g, m, A, P)
  BY <1>3, <1>7, <1>11, <1>12, <1>13, <1>14, <1>15 DEF Tree
<1>17. Members(P) = Members(pos) \cup {x}
  BY <1>3, <1>9 DEF Members
<1> QED
  BY <1>7, <1>8, <1>9, <1>16, <1>17


\* A heap as it is between two operations.
Fit(h, n, at, pos) ==
    /\ Tree(h, n, at, pos) /\ Ordered(h, n, at)
    /\ Members(pos) = {x \in Nodes : h.key[x] # Out}

\* The nodes in the heap have keys.
LEMMA FitKeyed ==
    ASSUME NEW h, NEW n, NEW at, NEW pos, Fit(h, n, at, pos)
    PROVE  Keyed(h, pos)
<1>1. h \in Heaps
  BY DEF Fit, Tree
<1>2. h.key \in [Nodes -> Keys \cup {Out}]
  BY <1>1, Fields
<1> QED
  BY <1>2 DEF Fit, Keyed

\* heap_insert keeps a heap a heap.
LEMMA InsertFits ==
    ASSUME NEW h, NEW n, NEW at, NEW pos, Fit(h, n, at, pos), NEW x \in Nodes, h.key[x] = Out,
           NEW k \in Keys, NEW g, g = heap_insert([h EXCEPT !.key[x] = k], x)
    PROVE  /\ \E A, P : Fit(g, n + 1, A, P)
           /\ g.key = [h.key EXCEPT ![x] = k]
<1> DEFINE e == Rekeyed(h, x, k)
           f == Hung(e, x)
           m == n + 1
<1>2. g = SiftUp(f, x)
  BY DEF heap_insert, Hung, Rekeyed
<1>1. Tree(e, n, at, pos) /\ e.key = [h.key EXCEPT ![x] = k]
  <2>1. e = Rekeyed(h, x, k) /\ k \in Keys \cup {Out} /\ Tree(h, n, at, pos)
    BY DEF Fit
  <2> HIDE DEF e
  <2> QED
    BY ONLY <2>1, x \in Nodes, KeyTree
<1>3. /\ n \in Nat /\ h.key \in [Nodes -> Keys \cup {Out}] /\ pos \in [Nodes -> 0..n]
      /\ at \in [1..n -> Nodes] /\ \A q \in 1..n : pos[at[q]] = q
  BY Fields DEF Fit, Tree, Placed
<1>4. pos[x] = 0 /\ Members(pos) = {y \in Nodes : h.key[y] # Out}
  BY DEF Fit, Members
<1> HIDE DEF e
<1>5. PICK A, P : /\ Tree(f, m, A, P) /\ f.key = e.key
                  /\ Members(P) = Members(pos) \cup {x}
                  /\ P[x] = m /\ A[m] = x /\ \A q \in 1..n : A[q] = at[q]
  <2>1. f = Hung(e, x) /\ m = n + 1
    OBVIOUS
  <2> HIDE DEF f, m
  <2> QED
    BY <2>1, <1>1, <1>4, HungTree
<1> HIDE DEF f
<1>6. Out \notin Keys /\ f.key = [h.key EXCEPT ![x] = k]
  BY <1>1, <1>5, HeapAssumption
<1>7. Members(P) = {y \in Nodes : f.key[y] # Out}
  BY <1>3, <1>4, <1>5, <1>6
<1>8. f.key \in [Nodes -> Keys \cup {Out}] /\ Keyed(f, P)
  BY <1>3, <1>6, <1>7 DEF Keyed
<1>9. Climbing(f, m, A, P[x])
  <2>1. ASSUME NEW i \in 2..m, i # m PROVE f.key[A[i \div 2]] <= f.key[A[i]]
    <3>1. i \in 2..n /\ i \in 1..n /\ i \div 2 \in 1..n
      BY <2>1, <1>3
    <3>2. \A q \in 1..n : at[q] # x /\ at[q] \in Nodes
      BY <1>3, <1>4
    <3>3. h.key[at[i \div 2]] <= h.key[at[i]]
      BY <3>1 DEF Fit, Ordered
    <3> QED
      BY <3>1, <3>2, <3>3, <1>3, <1>5, <1>6
  <2>2. ASSUME NEW i \in 2..m PROVE i \div 2 # m
    BY <1>3
  <2> HIDE DEF m
  <2> QED
    BY <2>1, <2>2, <1>5 DEF Climbing
<1>10. P[x] # 0
  BY <1>3, <1>5
<1>11. PICK B, Q : /\ Tree(g, m, B, Q) /\ g.key = f.key /\ Keyed(g, Q)
                   /\ Members(Q) = Members(P) /\ Ordered(g, m, B)
  <2> HIDE DEF m
  <2> QED
    BY <1>2, <1>5, <1>8, <1>9, <1>10, SiftUpOrders
<1>12. Fit(g, m, B, Q)
  BY <1>7, <1>11 DEF Fit
<1> QED
  BY <1>6, <1>11, <1>12


-----------------------------------------------------------------------------
(* Removal.                                                                *)

CutOff(h, p, right) ==
    IF right THEN [Fewer(h, NULL) EXCEPT !.right[p] = NULL]
             ELSE [Fewer(h, NULL) EXCEPT !.left[p] = NULL]

IsCut(h, p, right, m, g) ==
    /\ g \in Heaps /\ g.nelts = m /\ g.key = h.key
    /\ g.root = h.root /\ g.parent = h.parent
    /\ \A y \in Nodes : /\ g.left[y] = IF y = p /\ ~right THEN NULL ELSE h.left[y]
                        /\ g.right[y] = IF y = p /\ right THEN NULL ELSE h.right[y]

\* The last node is cut off, pointer by pointer.
LEMMA CutFields ==
    ASSUME NEW h \in Heaps, NEW p \in Nodes, NEW right \in BOOLEAN, NEW g,
           g = CutOff(h, p, right), NEW m \in Nat, m = h.nelts - 1
    PROVE  IsCut(h, p, right, m, g)
<1> USE DEF IsCut
<1> DEFINE e == Fewer(h, NULL)
<1>0. h.root \in Pointer /\ h.nelts \in Nat /\ h.parent \in [Nodes -> Pointer]
      /\ h.left \in [Nodes -> Pointer] /\ h.right \in [Nodes -> Pointer]
      /\ h.key \in [Nodes -> Keys \cup {Out}] /\ NULL \in Pointer
  BY Fields DEF Pointer
<1>1. e = [root |-> h.root, nelts |-> m, parent |-> h.parent, left |-> h.left,
           right |-> h.right, key |-> h.key]
  BY DEF Heaps, Fewer
<1>2. g = IF right THEN [e EXCEPT !.right[p] = NULL] ELSE [e EXCEPT !.left[p] = NULL]
  BY DEF CutOff
<1> HIDE DEF e
<1>3. CASE right
  <2> DEFINE r == [h.right EXCEPT ![p] = NULL]
  <2>a. r \in [Nodes -> Pointer] /\ \A y \in Nodes : r[y] = IF y = p THEN NULL ELSE h.right[y]
    BY <1>0
  <2>1. g = [root |-> h.root, nelts |-> m, parent |-> h.parent, left |-> h.left, right |-> r,
             key |-> h.key]
    BY <1>1, <1>2, <1>3
  <2> HIDE DEF r
  <2>2. Has(g, h.root, m, h.parent, h.left, r, h.key)
    BY ONLY <1>0, <2>a, <2>1, m \in Nat, Built
  <2> QED
    BY <2>2, <2>a, <1>3 DEF Has
<1>4. CASE ~right
  <2> DEFINE r == [h.left EXCEPT ![p] = NULL]
  <2>a. r \in [Nodes -> Pointer] /\ \A y \in Nodes : r[y] = IF y = p THEN NULL ELSE h.left[y]
    BY <1>0
  <2>1. g = [root |-> h.root, nelts |-> m, parent |-> h.parent, left |-> r, right |-> h.right,
             key |-> h.key]
    BY <1>1, <1>2, <1>4
  <2> HIDE DEF r
  <2>2. Has(g, h.root, m, h.parent, r, h.right, h.key)
    BY ONLY <1>0, <2>a, <2>1, m \in Nat, Built
  <2> QED
    BY <2>2, <2>a, <1>4 DEF Has
<1> QED
  BY <1>3, <1>4

Replaced(h, s, r, g) ==
    /\ g \in Heaps /\ g.nelts = h.nelts /\ g.key = h.key
    /\ g.root = IF h.parent[s] = NULL THEN r ELSE h.root
    /\ \A y \in Nodes :
         /\ g.parent[y] = IF y = r THEN h.parent[s]
                          ELSE IF y = h.left[s] \/ y = h.right[s] THEN r ELSE h.parent[y]
         /\ g.left[y] = IF y = r THEN h.left[s]
                        ELSE IF y = h.parent[s] /\ h.left[y] = s THEN r ELSE h.left[y]
         /\ g.right[y] = IF y = r THEN h.right[s]
                         ELSE IF y = h.parent[s] /\ h.left[y] # s /\ h.right[y] = s
                              THEN r ELSE h.right[y]

\* heap_replace, pointer by pointer.
LEMMA ReplaceFields ==
    ASSUME NEW h \in Heaps, NEW s \in Nodes, NEW r \in Nodes, NEW g, g = heap_replace(h, s, r),
           s \notin {h.parent[s], h.left[s], h.right[s]}
    PROVE  Replaced(h, s, r, g)
<1> DEFINE l1 == Relink(h, s, r)
           l2 == Reparent(l1, h.left[s], r)
           l3 == Reparent(l2, h.right[s], r)
<1>0. r # NULL /\ r \in Pointer
  BY HeapAssumption DEF Pointer
<1>1. g = [l3 EXCEPT !.parent[r] = l3.parent[s], !.left[r] = l3.left[s],
                     !.right[r] = l3.right[s]]
  BY <1>0 DEF heap_replace
<1>2. h.parent[s] \in Pointer /\ h.left[s] \in Pointer /\ h.right[s] \in Pointer
  BY Fields
<1>a. l1 = Relink(h, s, r) /\ l2 = Reparent(l1, h.left[s], r) /\ l3 = Reparent(l2, h.right[s], r)
  OBVIOUS
<1> HIDE DEF l1, l2, l3
<1>3. Relinked(h, s, r, l1)
  BY <1>a, <1>0, RelinkFields
<1>4. Reparented(l1, h.left[s], r, l2)
  BY <1>a, <1>0, <1>2, <1>3, ReparentFields DEF Relinked
<1>b. l2 \in Heaps
  BY <1>4 DEF Reparented
<1>5. Reparented(l2, h.right[s], r, l3)
  BY <1>a, <1>b, <1>0, <1>2, ReparentFields
<1>6. l3.parent[s] = h.parent[s] /\ l3.left[s] = h.left[s] /\ l3.right[s] = h.right[s]
  BY <1>3, <1>4, <1>5 DEF Relinked, Reparented
<1>7. Pointed(l3, r, h.parent[s], h.left[s], h.right[s], g)
  BY <1>1, <1>2, <1>5, <1>6, SetFields DEF Reparented
<1>8. ASSUME NEW y \in Nodes
      PROVE  g.parent[y] = IF y = r THEN h.parent[s]
                           ELSE IF y = h.left[s] \/ y = h.right[s] THEN r ELSE h.parent[y]
  BY <1>3, <1>4, <1>5, <1>7 DEF Relinked, Reparented, Pointed
<1>9. ASSUME NEW y \in Nodes
      PROVE  g.left[y] = IF y = r THEN h.left[s]
                         ELSE IF y = h.parent[s] /\ h.left[y] = s THEN r ELSE h.left[y]
  BY <1>3, <1>4, <1>5, <1>7 DEF Relinked, Reparented, Pointed
<1>10. ASSUME NEW y \in Nodes
       PROVE  g.right[y] = IF y = r THEN h.right[s]
                           ELSE IF y = h.parent[s] /\ h.left[y] # s /\ h.right[y] = s
                                THEN r ELSE h.right[y]
  BY <1>3, <1>4, <1>5, <1>7 DEF Relinked, Reparented, Pointed
<1>11. g \in Heaps /\ g.nelts = h.nelts /\ g.key = h.key
       /\ g.root = IF h.parent[s] = NULL THEN r ELSE h.root
  BY <1>3, <1>4, <1>5, <1>7 DEF Relinked, Reparented, Pointed
<1> QED
  BY <1>8, <1>9, <1>10, <1>11 DEF Replaced

\* The last node is cut off: the others are the tree without it; its own
\* pointers stay.
LEMMA CutTree ==
    ASSUME NEW h, NEW n, NEW at, NEW pos, Tree(h, n, at, pos), n >= 2, NEW m, m = n - 1,
           NEW right \in BOOLEAN, right <=> n % 2 = 1, NEW g, g = CutOff(h, at[n \div 2], right)
    PROVE  /\ g \in Heaps /\ g.nelts = m /\ g.key = h.key /\ g.root = at[1]
           /\ \A q \in 1..m : Joined(g, m, at, q)
           /\ g.parent[at[n]] = at[n \div 2] /\ g.left[at[n]] = NULL /\ g.right[at[n]] = NULL
           /\ \A y \in Nodes : pos[y] = 0 => Loose(g, y)
<1> DEFINE u == n \div 2
           p == at[u]
<1>1. /\ h \in Heaps /\ h.nelts = n /\ n \in Nat /\ at \in [1..n -> Nodes]
      /\ \A q \in 1..n : pos[at[q]] = q
      /\ h.root = at[1]
      /\ \A q \in 1..n : Joined(h, n, at, q)
      /\ \A y \in Nodes : pos[y] = 0 => Loose(h, y)
  BY DEF Tree, Placed
<1>2. m \in Nat /\ m >= 1 /\ u \in 1..m /\ u \in 1..n /\ n \in 1..n /\ n # u /\ 1..m \subseteq 1..n
  BY <1>1
<1>3. p \in Nodes /\ NULL \notin Nodes /\ m = h.nelts - 1
  BY <1>1, <1>2, HeapAssumption
<1>g. g = CutOff(h, p, right)
  OBVIOUS
<1>u. n = 2 * u + (n % 2) /\ (n % 2 = 0 \/ n % 2 = 1) /\ u \in Nat
  BY <1>1
<1> HIDE DEF u
<1>4. /\ g \in Heaps /\ g.nelts = m /\ g.key = h.key
      /\ g.root = h.root /\ g.parent = h.parent
      /\ \A y \in Nodes :
           /\ g.left[y] = IF y = p /\ ~right THEN NULL ELSE h.left[y]
           /\ g.right[y] = IF y = p /\ right THEN NULL ELSE h.right[y]
  <2> HIDE DEF p
  <2>1. IsCut(h, p, right, m, g)
    BY <1>1, <1>2, <1>3, <1>g, CutFields
  <2> QED
    BY <2>1 DEF IsCut
<1>5. ASSUME NEW q \in 1..m PROVE Joined(g, m, at, q)
  <2>1. Joined(h, n, at, q) /\ at[q] \in Nodes /\ q \in Nat /\ q >= 1 /\ q \in 1..n
    BY <1>1, <1>2
  <2>2. (at[q] = p) <=> (q = u)
    BY <2>1, <1>1, <1>2
  <2>3. CASE ~right
    <3>1. n = 2 * u /\ 2 * q + 1 # n
      BY <2>1, <2>3, <1>u
    <3>2. (2 * q <= m <=> 2 * q <= n /\ q # u) /\ (2 * q + 1 <= m <=> 2 * q + 1 <= n)
      BY <2>1, <3>1, <1>2, <1>1, <1>u
    <3> QED
      BY <2>1, <2>2, <2>3, <3>2, <1>4 DEF Joined
  <2>4. CASE right
    <3>1. n = 2 * u + 1 /\ 2 * q # n
      BY <2>1, <2>4, <1>u
    <3>2. (2 * q + 1 <= m <=> 2 * q + 1 <= n /\ q # u) /\ (2 * q <= m <=> 2 * q <= n)
      BY <2>1, <3>1, <1>2, <1>1, <1>u
    <3> QED
      BY <2>1, <2>2, <2>4, <3>2, <1>4 DEF Joined
  <2> QED
    BY <2>3, <2>4
<1>6. g.parent[at[n]] = at[u] /\ g.left[at[n]] = NULL /\ g.right[at[n]] = NULL
  <2>1. at[n] \in Nodes /\ Joined(h, n, at, n) /\ n # 1 /\ ~(2 * n <= n) /\ ~(2 * n + 1 <= n)
    BY <1>1, <1>2
  <2> QED
    BY <2>1, <1>4 DEF Joined, u
<1>7. ASSUME NEW y \in Nodes, pos[y] = 0 PROVE Loose(g, y)
  BY <1>1, <1>4, <1>7 DEF Loose
<1> QED
  BY <1>1, <1>4, <1>5, <1>6, <1>7 DEF u


\* node->parent = node->left = node->right = NULL
LEMMA ClearedFields ==
    ASSUME NEW h \in Heaps, NEW x \in Nodes, NEW g, g = Cleared(h, x)
    PROVE  Pointed(h, x, NULL, NULL, NULL, g)
<1>1. NULL \in Pointer /\ g = [h EXCEPT !.parent[x] = NULL, !.left[x] = NULL, !.right[x] = NULL]
  BY DEF Pointer, Cleared
<1> QED
  BY <1>1, SetFields

\* The last node takes the place of another.
LEMMA ReplaceTree ==
    ASSUME NEW h, NEW n, NEW at, NEW pos, Tree(h, n, at, pos), n >= 2, NEW m, m = n - 1,
           NEW right \in BOOLEAN, right <=> n % 2 = 1, NEW j \in 1..m,
           NEW x, x = at[j], NEW last, last = at[n],
           NEW g, g = Cleared(heap_replace(CutOff(h, at[n \div 2], right), x, last), x)
    PROVE  \E A, P : /\ Tree(g, m, A, P) /\ g.key = h.key
                     /\ Members(P) = Members(pos) \ {x}
                     /\ P[last] = j /\ A[j] = last /\ \A q \in 1..m : q # j => A[q] = at[q]
<1> DEFINE c == CutOff(h, at[n \div 2], right)
           f == heap_replace(c, x, last)
           A == [q \in 1..m |-> IF q = j THEN last ELSE at[q]]
           P == [pos EXCEPT ![x] = 0, ![last] = j]
<1>1. /\ n \in Nat /\ at \in [1..n -> Nodes] /\ pos \in [Nodes -> 0..n]
      /\ \A q \in 1..n : pos[at[q]] = q
      /\ \A y \in Nodes : pos[y] # 0 => at[pos[y]] = y
  BY DEF Tree, Placed
<1>2. m \in Nat /\ m >= 1 /\ 1..n = 1..m \cup {n} /\ n \notin 1..m /\ j \in 1..n /\ n \in 1..n
      /\ 1 \in 1..m
  BY <1>1
<1>3. /\ c \in Heaps /\ c.nelts = m /\ c.key = h.key /\ c.root = at[1]
      /\ \A q \in 1..m : Joined(c, m, at, q)
      /\ c.parent[last] = at[n \div 2] /\ c.left[last] = NULL /\ c.right[last] = NULL
      /\ \A y \in Nodes : pos[y] = 0 => Loose(c, y)
  <2>1. c = CutOff(h, at[n \div 2], right)
    OBVIOUS
  <2> HIDE DEF c
  <2> QED
    BY <2>1, CutTree
<1>4. g = Cleared(f, x) /\ f = heap_replace(c, x, last)
  OBVIOUS
<1> HIDE DEF c, f
<1>5. x \in Nodes /\ last \in Nodes /\ x # last /\ NULL \notin Nodes
      /\ pos[x] = j /\ pos[last] = n
  BY <1>1, <1>2, HeapAssumption
<1>n. ASSUME NEW q \in 1..n, NEW r \in 1..n, at[q] = at[r] PROVE q = r
  BY <1>n, <1>1
<1>d. ASSUME NEW q \in 1..m, q # j PROVE at[q] # x /\ at[q] # last /\ at[q] \in Nodes
  BY <1>d, <1>n, <1>1, <1>2
<1>6. /\ c.parent[x] = IF j = 1 THEN NULL ELSE at[j \div 2]
      /\ c.left[x] = IF 2 * j <= m THEN at[2 * j] ELSE NULL
      /\ c.right[x] = IF 2 * j + 1 <= m THEN at[2 * j + 1] ELSE NULL
  BY <1>3 DEF Joined
<1>7. /\ j # 1 => j \div 2 \in 1..m /\ j \div 2 # j
      /\ 2 * j <= m => 2 * j \in 1..m /\ 2 * j # j
      /\ 2 * j + 1 <= m => 2 * j + 1 \in 1..m /\ 2 * j + 1 # j
  BY <1>2
<1>8. x \notin {c.parent[x], c.left[x], c.right[x]}
  BY <1>5, <1>6, <1>7, <1>d
<1>9. Replaced(c, x, last, f)
  BY <1>3, <1>4, <1>5, <1>8, ReplaceFields
<1>10. Pointed(f, x, NULL, NULL, NULL, g)
  BY <1>4, <1>5, <1>9, ClearedFields DEF Replaced
<1>11. /\ g \in Heaps /\ g.nelts = m /\ g.key = h.key
       /\ g.root = IF j = 1 THEN last ELSE at[1]
  <2>1. c.parent[x] = NULL <=> j = 1
    BY <1>5, <1>6, <1>7, <1>d
  <2> QED
    BY <2>1, <1>3, <1>9, <1>10 DEF Replaced, Pointed
<1>12. A \in [1..m -> Nodes] /\ A[j] = last /\ \A q \in 1..m : q # j => A[q] = at[q]
  BY <1>2, <1>5, <1>d
<1>13. /\ \A y \in Nodes : P[y] = IF y = last THEN j ELSE IF y = x THEN 0 ELSE pos[y]
       /\ P = [y \in Nodes |-> P[y]]
  BY <1>1, <1>5
<1> HIDE DEF A, P
<1>14. Placed(m, A, P)
  <2>1. ASSUME NEW y \in Nodes PROVE P[y] \in 0..m /\ (P[y] # 0 => A[P[y]] = y)
    <3>1. CASE y = last \/ y = x
      BY <3>1, <1>2, <1>5, <1>12, <1>13
    <3>2. CASE y # last /\ y # x
      <4>1. P[y] = pos[y] /\ pos[y] \in 0..n /\ (pos[y] # 0 => at[pos[y]] = y)
        BY <3>2, <1>1, <1>13
      <4>2. pos[y] # n /\ pos[y] # j
        BY <3>2, <4>1, <1>2, <1>1
      <4>3. pos[y] # 0 => pos[y] \in 1..m
        BY <4>1, <4>2, <1>1
      <4> QED
        BY <4>1, <4>2, <4>3, <1>2, <1>12
    <3> QED
      BY <3>1, <3>2
  <2>2. ASSUME NEW q \in 1..m PROVE P[A[q]] = q
    <3>1. CASE q = j
      BY <3>1, <1>5, <1>12, <1>13
    <3>2. CASE q # j
      BY <3>2, <1>1, <1>2, <1>12, <1>13, <1>d
    <3> QED
      BY <3>1, <3>2
  <2>3. P \in [Nodes -> 0..m]
    BY <2>1, <1>13
  <2> QED
    BY <2>1, <2>2, <2>3, <1>2, <1>12 DEF Placed
<1>15. ASSUME NEW q \in 1..m PROVE g.parent[A[q]] = IF q = 1 THEN NULL ELSE A[q \div 2]
  <2>0. \A y \in Nodes :
           g.parent[y] = IF y = x THEN NULL ELSE IF y = last THEN c.parent[x]
                         ELSE IF y = c.left[x] \/ y = c.right[x] THEN last ELSE c.parent[y]
    BY <1>9, <1>10 DEF Replaced, Pointed
  <2>1. CASE q = j
    BY <2>0, <2>1, <1>5, <1>6, <1>7, <1>12
  <2>2. CASE q # j
    <3>1. A[q] = at[q] /\ at[q] \in Nodes /\ at[q] # x /\ at[q] # last /\ q \in 1..n
      BY <2>2, <1>2, <1>12, <1>d
    <3>2. CASE q = 2 * j \/ q = 2 * j + 1
      <4>1. at[q] = c.left[x] \/ at[q] = c.right[x]
        BY <3>2, <1>2, <1>6
      <4>2. q # 1 /\ q \div 2 = j
        BY <3>2, <1>2
      <4> QED
        BY <2>0, <3>1, <4>1, <4>2, <1>12
    <3>3. CASE q # 2 * j /\ q # 2 * j + 1
      <4>1. at[q] # c.left[x] /\ at[q] # c.right[x]
        <5>1. 2 * j <= m => at[q] # at[2 * j]
          BY <3>3, <3>1, <1>7, <1>2, <1>n
        <5>2. 2 * j + 1 <= m => at[q] # at[2 * j + 1]
          BY <3>3, <3>1, <1>7, <1>2, <1>n
        <5> QED
          BY <5>1, <5>2, <3>1, <1>5, <1>6
      <4>2. c.parent[at[q]] = IF q = 1 THEN NULL ELSE at[q \div 2]
        BY <1>3 DEF Joined
      <4>3. q # 1 => q \div 2 \in 1..m /\ q \div 2 # j
        BY <3>3, <1>2
      <4> QED
        BY <2>0, <3>1, <4>1, <4>2, <4>3, <1>12
    <3> QED
      BY <3>2, <3>3
  <2> QED
    BY <2>1, <2>2
<1>16. ASSUME NEW q \in 1..m PROVE g.left[A[q]] = IF 2 * q <= m THEN A[2 * q] ELSE NULL
  <2>0. \A y \in Nodes :
           g.left[y] = IF y = x THEN NULL ELSE IF y = last THEN c.left[x]
                       ELSE IF y = c.parent[x] /\ c.left[y] = x THEN last ELSE c.left[y]
    BY <1>9, <1>10 DEF Replaced, Pointed
  <2>1. CASE q = j
    BY <2>0, <2>1, <1>5, <1>6, <1>7, <1>12
  <2>2. CASE q # j
    <3>1. A[q] = at[q] /\ at[q] \in Nodes /\ at[q] # x /\ at[q] # last
      BY <2>2, <1>12, <1>d
    <3>2. c.left[at[q]] = IF 2 * q <= m THEN at[2 * q] ELSE NULL
      BY <1>3 DEF Joined
    <3>3. 2 * q <= m => 2 * q \in 1..m
      BY <1>2
    <3>4. CASE 2 * q = j
      <4>1. j # 1 /\ j \div 2 = q /\ 2 * q <= m
        BY <3>4, <1>2
      <4>2. c.parent[x] = at[q] /\ c.left[at[q]] = x
        BY <3>2, <3>4, <4>1, <1>6
      <4> QED
        BY <2>0, <3>1, <3>4, <4>1, <4>2, <1>12
    <3>5. CASE 2 * q # j
      <4>1. c.left[at[q]] # x
        BY <3>2, <3>3, <3>5, <1>5, <1>d
      <4> QED
        BY <2>0, <3>1, <3>2, <3>3, <3>5, <4>1, <1>12
    <3> QED
      BY <3>4, <3>5
  <2> QED
    BY <2>1, <2>2
<1>17. ASSUME NEW q \in 1..m PROVE g.right[A[q]] = IF 2 * q + 1 <= m THEN A[2 * q + 1] ELSE NULL
  <2>0. \A y \in Nodes :
           g.right[y] = IF y = x THEN NULL ELSE IF y = last THEN c.right[x]
                        ELSE IF y = c.parent[x] /\ c.left[y] # x /\ c.right[y] = x
                             THEN last ELSE c.right[y]
    BY <1>9, <1>10 DEF Replaced, Pointed
  <2>1. CASE q = j
    BY <2>0, <2>1, <1>5, <1>6, <1>7, <1>12
  <2>2. CASE q # j
    <3>1. A[q] = at[q] /\ at[q] \in Nodes /\ at[q] # x /\ at[q] # last
      BY <2>2, <1>12, <1>d
    <3>2. /\ c.right[at[q]] = IF 2 * q + 1 <= m THEN at[2 * q + 1] ELSE NULL
          /\ c.left[at[q]] = IF 2 * q <= m THEN at[2 * q] ELSE NULL
      BY <1>3 DEF Joined
    <3>3. 2 * q + 1 <= m => 2 * q + 1 \in 1..m
      BY <1>2
    <3>4. CASE 2 * q + 1 = j
      <4>1. j # 1 /\ j \div 2 = q /\ 2 * q + 1 <= m /\ 2 * q <= m /\ 2 * q \in 1..m /\ 2 * q # j
        <5>1. m \in Nat /\ q \in Nat /\ q >= 1 /\ j <= m /\ j \in Nat
          BY <1>2
        <5> QED
          BY ONLY <3>4, <5>1
      <4>2. c.parent[x] = at[q] /\ c.right[at[q]] = x /\ c.left[at[q]] # x
        BY <3>2, <3>4, <4>1, <1>6, <1>d
      <4> QED
        BY <2>0, <3>1, <3>4, <4>1, <4>2, <1>12
    <3>5. CASE 2 * q + 1 # j
      <4>1. c.right[at[q]] # x
        BY <3>2, <3>3, <3>5, <1>5, <1>d
      <4> QED
        BY <2>0, <3>1, <3>2, <3>3, <3>5, <4>1, <1>12
    <3> QED
      BY <3>4, <3>5
  <2> QED
    BY <2>1, <2>2
<1>18. ASSUME NEW y \in Nodes, P[y] = 0 PROVE Loose(g, y)
  <2>1. CASE y = x
    BY <2>1, <1>10 DEF Pointed, Loose
  <2>2. CASE y # x
    <3>1. pos[y] = 0 /\ y # last
      BY <2>2, <1>18, <1>2, <1>13
    <3>2. \A q \in 1..m : at[q] # y
      BY <3>1, <1>1, <1>2
    <3>3. y # c.left[x] /\ y # c.right[x]
      BY <3>2, <1>5, <1>6, <1>7
    <3>4. c.parent[y] = NULL /\ c.left[y] = NULL /\ c.right[y] = NULL
      BY <3>1, <1>3 DEF Loose
    <3> QED
      BY <2>2, <3>1, <3>3, <3>4, <1>5, <1>9, <1>10 DEF Replaced, Pointed, Loose
  <2> QED
    BY <2>1, <2>2
<1>19. g.root = IF m = 0 THEN NULL ELSE A[1]
  BY <1>2, <1>11, <1>12
<1>20. Tree(g, m, A, P)
  BY <1>11, <1>14, <1>15, <1>16, <1>17, <1>18, <1>19 DEF Tree, Joined
<1>21. Members(P) = Members(pos) \ {x}
  <2>1. \A y \in Nodes : P[y] # 0 <=> pos[y] # 0 /\ y # x
    BY <1>1, <1>2, <1>5, <1>13
  <2> QED
    BY <2>1 DEF Members
<1>22. P[last] = j
  BY <1>5, <1>13
<1> QED
  BY <1>11, <1>12, <1>20, <1>21, <1>22


\* The last node itself is removed.
LEMMA DropTree ==
    ASSUME NEW h, NEW n, NEW at, NEW pos, Tree(h, n, at, pos), n >= 2, NEW m, m = n - 1,
           NEW right \in BOOLEAN, right <=> n % 2 = 1, NEW x, x = at[n],
           NEW g, g = Cleared(heap_replace(CutOff(h, at[n \div 2], right), x, x), x)
    PROVE  /\ Loose(g, x)
           /\ \E A, P : /\ Tree(g, m, A, P) /\ g.key = h.key
                        /\ Members(P) = Members(pos) \ {x} /\ \A q \in 1..m : A[q] = at[q]
<1> DEFINE c == CutOff(h, at[n \div 2], right)
           f == heap_replace(c, x, x)
           A == [q \in 1..m |-> at[q]]
           P == [pos EXCEPT ![x] = 0]
           u == n \div 2
<1>1. /\ n \in Nat /\ at \in [1..n -> Nodes] /\ pos \in [Nodes -> 0..n]
      /\ \A q \in 1..n : pos[at[q]] = q
      /\ \A y \in Nodes : pos[y] # 0 => at[pos[y]] = y
  BY DEF Tree, Placed
<1>2. m \in Nat /\ m >= 1 /\ 1..n = 1..m \cup {n} /\ n \notin 1..m /\ n \in 1..n
      /\ 1 \in 1..m /\ u \in 1..m /\ 0 \in 0..m
  BY <1>1
<1>3. /\ c \in Heaps /\ c.nelts = m /\ c.key = h.key /\ c.root = at[1]
      /\ \A q \in 1..m : Joined(c, m, at, q)
      /\ c.parent[x] = at[u] /\ c.left[x] = NULL /\ c.right[x] = NULL
      /\ \A y \in Nodes : pos[y] = 0 => Loose(c, y)
  <2>1. c = CutOff(h, at[n \div 2], right)
    OBVIOUS
  <2> HIDE DEF c
  <2> QED
    BY <2>1, CutTree
<1>4. g = Cleared(f, x) /\ f = heap_replace(c, x, x)
  OBVIOUS
<1> HIDE DEF c, f, u
<1>5. x \in Nodes /\ NULL \notin Nodes /\ pos[x] = n
  BY <1>1, <1>2, HeapAssumption
<1>d. ASSUME NEW q \in 1..m PROVE at[q] # x /\ at[q] \in Nodes
  BY <1>1, <1>2, <1>5
<1>8. x \notin {c.parent[x], c.left[x], c.right[x]}
  BY <1>2, <1>3, <1>5, <1>d
<1>9. Replaced(c, x, x, f)
  BY <1>3, <1>4, <1>5, <1>8, ReplaceFields
<1>10. Pointed(f, x, NULL, NULL, NULL, g)
  BY <1>4, <1>5, <1>9, ClearedFields DEF Replaced
<1>11. c.left[at[u]] # x /\ c.right[at[u]] # x
  <2>1. Joined(c, m, at, u)
    BY <1>2, <1>3
  <2>2. (2 * u <= m => 2 * u \in 1..m) /\ (2 * u + 1 <= m => 2 * u + 1 \in 1..m)
    BY <1>2
  <2> QED
    BY <2>1, <2>2, <1>5, <1>d DEF Joined
<1>12. /\ g \in Heaps /\ g.nelts = m /\ g.key = h.key /\ g.root = at[1]
       /\ \A y \in Nodes : y # x => /\ g.parent[y] = c.parent[y] /\ g.left[y] = c.left[y]
                                    /\ g.right[y] = c.right[y]
  <2>1. c.parent[x] # NULL
    BY <1>2, <1>3, <1>5, <1>d
  <2> QED
    BY <2>1, <1>3, <1>5, <1>9, <1>10, <1>11 DEF Replaced, Pointed
<1>13. Loose(g, x)
  BY <1>5, <1>10 DEF Pointed, Loose
<1>14. A \in [1..m -> Nodes] /\ \A q \in 1..m : A[q] = at[q]
  BY <1>d
<1>15. /\ \A y \in Nodes : P[y] = IF y = x THEN 0 ELSE pos[y]
       /\ P = [y \in Nodes |-> P[y]]
  BY <1>1, <1>5
<1> HIDE DEF A, P
<1>16. Placed(m, A, P)
  <2>1. ASSUME NEW y \in Nodes PROVE P[y] \in 0..m /\ (P[y] # 0 => A[P[y]] = y)
    <3>1. CASE y = x
      BY <3>1, <1>2, <1>15
    <3>2. CASE y # x
      <4>1. P[y] = pos[y] /\ pos[y] \in 0..n /\ (pos[y] # 0 => at[pos[y]] = y)
        BY <3>2, <1>1, <1>15
      <4>2. pos[y] # n
        BY <3>2, <4>1, <1>2, <1>1
      <4>3. pos[y] # 0 => pos[y] \in 1..m
        BY <4>1, <4>2, <1>1
      <4> QED
        BY <4>1, <4>3, <1>2, <1>14
    <3> QED
      BY <3>1, <3>2
  <2>2. ASSUME NEW q \in 1..m PROVE P[A[q]] = q
    BY <1>1, <1>2, <1>14, <1>15, <1>d
  <2>3. P \in [Nodes -> 0..m]
    BY <2>1, <1>15
  <2> QED
    BY <2>1, <2>2, <2>3, <1>2, <1>14 DEF Placed
<1>17. ASSUME NEW q \in 1..m PROVE Joined(g, m, A, q)
  <2>1. /\ Joined(c, m, at, q) /\ A[q] = at[q]
        /\ g.parent[at[q]] = c.parent[at[q]] /\ g.left[at[q]] = c.left[at[q]]
        /\ g.right[at[q]] = c.right[at[q]]
    BY <1>3, <1>12, <1>14, <1>d
  <2>2. /\ q # 1 => q \div 2 \in 1..m
        /\ 2 * q <= m => 2 * q \in 1..m
        /\ 2 * q + 1 <= m => 2 * q + 1 \in 1..m
    BY <1>2
  <2> QED
    BY <2>1, <2>2, <1>14 DEF Joined
<1>18. ASSUME NEW y \in Nodes, P[y] = 0 PROVE Loose(g, y)
  <2>1. CASE y = x
    BY <2>1, <1>13
  <2>2. CASE y # x
    BY <2>2, <1>3, <1>12, <1>15, <1>18 DEF Loose
  <2> QED
    BY <2>1, <2>2
<1>19. g.root = IF m = 0 THEN NULL ELSE A[1]
  BY <1>2, <1>12, <1>14
<1>20. Tree(g, m, A, P)
  BY <1>12, <1>16, <1>17, <1>18, <1>19 DEF Tree
<1>21. Members(P) = Members(pos) \ {x}
  <2>1. \A y \in Nodes : P[y] # 0 <=> pos[y] # 0 /\ y # x
    BY <1>15
  <2> QED
    BY <2>1 DEF Members
<1> QED
  BY <1>12, <1>13, <1>14, <1>20, <1>21

\* A loop that does nothing leaves what was there.
LEMMA Standing ==
    ASSUME NEW n \in Nat, NEW w, NEW h, w[0] = h, \A k \in 1..n : w[k - 1] = h => w[k] = h
    PROVE  w[n] = h
<1> DEFINE Bad == {k \in Nat : k <= n /\ w[k] # h}
<1> SUFFICES ASSUME w[n] # h PROVE FALSE
  OBVIOUS
<1>1. n \in Bad /\ Bad \in SUBSET Nat
  OBVIOUS
<1>2. PICK k \in Bad : \A m \in Bad : k <= m
  <2> HIDE DEF Bad
  <2> QED
    BY <1>1, LeastNat
<1>3. k \in Nat /\ k <= n /\ w[k] # h /\ k # 0
  BY <1>2
<1>4. k - 1 \in Nat /\ k - 1 <= n /\ k \in 1..n /\ ~ (k <= k - 1)
  BY <1>3
<1>5. w[k - 1] = h
  BY <1>2, <1>4
<1> QED
  BY <1>3, <1>4, <1>5

\* A node without pointers is not moved by heap_remove's loops.
LEMMA LooseStands ==
    ASSUME NEW h \in Heaps, NEW x \in Nodes, Loose(h, x)
    PROVE  Sift(h, x) = h
<1>1. UpRound(h, x) = h /\ DownRound(h, x) = h
  BY DEF UpRound, DownRound, Least, Loose
<1>2. h.nelts \in Nat
  BY Fields
<1>3. SiftUp(h, x) = h
  <2>1. PICK w : /\ w[0] = h /\ \A k \in 1..h.nelts : w[k] = UpRound(w[k - 1], x)
                 /\ SiftUp(h, x) = w[h.nelts]
    BY SiftUpRounds
  <2>2. \A k \in 1..h.nelts : w[k - 1] = h => w[k] = h
    BY <2>1, <1>1
  <2> QED
    BY <2>1, <2>2, <1>2, Standing
<1>4. SiftDown(h, x) = h
  <2>1. PICK w : /\ w[0] = h /\ \A k \in 1..h.nelts : w[k] = DownRound(w[k - 1], x)
                 /\ SiftDown(h, x) = w[h.nelts]
    BY SiftDownRounds
  <2>2. \A k \in 1..h.nelts : w[k - 1] = h => w[k] = h
    BY <2>1, <1>1
  <2> QED
    BY <2>1, <2>2, <1>2, Standing
<1> QED
  BY <1>3, <1>4 DEF Sift


\* Once the node is out of the tree its key is forgotten.
LEMMA Forgotten ==
    ASSUME NEW h, NEW m, NEW at, NEW pos, Tree(h, m, at, pos), Ordered(h, m, at), NEW x \in Nodes,
           Members(pos) = {y \in Nodes : h.key[y] # Out} \ {x}, NEW g, g = Rekeyed(h, x, Out)
    PROVE  Fit(g, m, at, pos) /\ g.key = [h.key EXCEPT ![x] = Out]
<1>1. Tree(g, m, at, pos) /\ g.key = [h.key EXCEPT ![x] = Out]
  BY KeyTree
<1>2. /\ m \in Nat /\ h.key \in [Nodes -> Keys \cup {Out}] /\ at \in [1..m -> Nodes]
      /\ \A q \in 1..m : pos[at[q]] = q
  BY Fields DEF Tree, Placed
<1>3. \A q \in 1..m : at[q] # x
  BY <1>2 DEF Members
<1>4. \A q \in 1..m : g.key[at[q]] = h.key[at[q]]
  BY <1>1, <1>2, <1>3
<1>5. Ordered(g, m, at)
  <2>1. ASSUME NEW i \in 2..m PROVE g.key[at[i \div 2]] <= g.key[at[i]]
    <3>1. i \in 1..m /\ i \div 2 \in 1..m
      BY <1>2
    <3> QED
      BY <3>1, <1>4 DEF Ordered
  <2> QED
    BY <2>1 DEF Ordered
<1>6. Members(pos) = {y \in Nodes : g.key[y] # Out}
  BY <1>1, <1>2
<1> QED
  BY <1>1, <1>5, <1>6 DEF Fit

\* heap_remove of the only node.
LEMMA OnlyNode ==
    ASSUME NEW h, NEW at, NEW pos, Tree(h, 1, at, pos), NEW x \in Nodes, pos[x] # 0,
           NEW g, g = heap_remove(h, x)
    PROVE  \E A, P : /\ Tree(g, 0, A, P) /\ g.key = h.key /\ Members(P) = {}
<1> DEFINE r == FALSE
           c == CutOff(h, x, r)
           A == [q \in 1..0 |-> x]
           P == [y \in Nodes |-> 0]
<1>1. /\ h \in Heaps /\ h.nelts = 1 /\ pos[x] = 1 /\ at[1] = x /\ h.root = x
      /\ \A y \in Nodes : y # x => pos[y] = 0
  BY DEF Tree, Placed
<1>2. h.parent[x] = NULL /\ h.left[x] = NULL /\ h.right[x] = NULL
  BY <1>1 DEF Tree, Joined
<1>3. \A y \in Nodes : h.parent[y] = NULL /\ h.left[y] = NULL /\ h.right[y] = NULL
  BY <1>1, <1>2 DEF Tree, Loose
<1>4. ParentOf(h, 1) = x
  BY <1>1 DEF ParentOf
<1>5. g = [c EXCEPT !.root = IF @ = x THEN NULL ELSE @]
  <2>1. h.nelts # 0 /\ ~(h.nelts >= 2 /\ h.nelts % 2 = 1) /\ h.left[ParentOf(h, h.nelts)] = NULL
        /\ ParentOf(h, h.nelts) = x
    BY <1>1, <1>2, <1>4
  <2>2. c = [Fewer(h, NULL) EXCEPT !.left[x] = NULL]
    BY DEF CutOff
  <2>3. c = [[h EXCEPT !.nelts = @ - 1] EXCEPT !.left[x] = NULL]
    BY <2>2 DEF Fewer
  <2>4. g = [[[h EXCEPT !.nelts = @ - 1] EXCEPT !.left[x] = NULL]
                EXCEPT !.root = IF @ = x THEN NULL ELSE @]
    BY <2>1 DEF heap_remove, Fewer, Child
  <2> HIDE DEF c
  <2> QED
    BY <2>3, <2>4
<1>6. /\ c \in Heaps /\ c.nelts = 0 /\ c.key = h.key
      /\ c.root = h.root /\ c.parent = h.parent
      /\ \A y \in Nodes : /\ c.left[y] = IF y = x /\ ~r THEN NULL ELSE h.left[y]
                          /\ c.right[y] = IF y = x /\ r THEN NULL ELSE h.right[y]
  <2>1. c = CutOff(h, x, r) /\ 0 \in Nat /\ 0 = h.nelts - 1 /\ r \in BOOLEAN
    BY <1>1
  <2>2. h \in Heaps /\ x \in Nodes
    BY <1>1
  <2> HIDE DEF c, r
  <2>3. IsCut(h, x, r, 0, c)
    BY ONLY <2>1, <2>2, CutFields
  <2> QED
    BY <2>3 DEF IsCut
<1> HIDE DEF c
<1>7. g = [root |-> NULL, nelts |-> 0, parent |-> c.parent, left |-> c.left,
           right |-> c.right, key |-> c.key]
  BY <1>1, <1>5, <1>6 DEF Heaps
<1>8. Has(g, NULL, 0, c.parent, c.left, c.right, c.key)
  <2>1. NULL \in Pointer /\ 0 \in Nat /\ c.parent \in [Nodes -> Pointer]
        /\ c.left \in [Nodes -> Pointer] /\ c.right \in [Nodes -> Pointer]
        /\ c.key \in [Nodes -> Keys \cup {Out}]
    BY <1>6, Fields DEF Pointer
  <2> QED
    BY ONLY <1>7, <2>1, Built
<1>9. \A y \in Nodes : Loose(g, y)
  BY <1>3, <1>6, <1>8 DEF Has, Loose
<1>10. Placed(0, A, P) /\ Members(P) = {}
  BY DEF Placed, Members
<1>11. Tree(g, 0, A, P)
  BY <1>8, <1>9, <1>10 DEF Tree, Has
<1> QED
  BY <1>6, <1>8, <1>10, <1>11 DEF Has

\* heap_remove keeps a heap a heap.
LEMMA RemoveFits ==
    ASSUME NEW h, NEW n, NEW at, NEW pos, Fit(h, n, at, pos), NEW x \in Nodes, h.key[x] # Out,
           NEW e, e = heap_remove(h, x), NEW g, g = Rekeyed(e, x, Out)
    PROVE  /\ \E A, P : Fit(g, n - 1, A, P)
           /\ g.key = [h.key EXCEPT ![x] = Out]
<1> DEFINE m == n - 1
           j == pos[x]
           p == at[n \div 2]
           right == n >= 2 /\ n % 2 = 1
           last == at[n]
           c == CutOff(h, p, right)
           f == Cleared(heap_replace(c, x, last), x)
<1>1. /\ h \in Heaps /\ h.nelts = n /\ n \in Nat /\ at \in [1..n -> Nodes]
      /\ j \in 1..n /\ at[j] = x /\ Tree(h, n, at, pos) /\ Ordered(h, n, at)
      /\ Members(pos) = {y \in Nodes : h.key[y] # Out}
      /\ h.key \in [Nodes -> Keys \cup {Out}]
  BY Fields DEF Fit, Tree, Placed, Members
<1>k. Keyed(h, pos)
  BY FitKeyed
<1>2. SUFFICES \E A, P : /\ Tree(e, m, A, P) /\ e.key = h.key /\ Ordered(e, m, A)
                         /\ Members(P) = Members(pos) \ {x}
  <2>1. PICK A, P : /\ Tree(e, m, A, P) /\ e.key = h.key /\ Ordered(e, m, A)
                    /\ Members(P) = Members(pos) \ {x}
    BY <1>2
  <2>2. Members(P) = {y \in Nodes : e.key[y] # Out} \ {x}
    BY <2>1, <1>1
  <2>3. Fit(g, m, A, P) /\ g.key = [e.key EXCEPT ![x] = Out]
    <3> HIDE DEF m
    <3> QED
      BY <2>1, <2>2, Forgotten
  <2> QED
    BY <2>1, <2>3
<1>3. CASE n = 1
  <2>1. PICK A, P : Tree(e, 0, A, P) /\ e.key = h.key /\ Members(P) = {}
    BY <1>1, <1>3, OnlyNode
  <2>2. Members(pos) \ {x} = {}
    <3>1. ASSUME NEW y \in Members(pos) PROVE y = x
      <4>1. y \in Nodes /\ pos[y] \in 0..1 /\ pos[y] # 0 /\ at[pos[y]] = y
        BY <1>1, <1>3 DEF Tree, Placed, Members
      <4> QED
        BY <4>1, <1>1, <1>3
    <3> QED
      BY <3>1
  <2>3. Ordered(e, 0, A) /\ m = 0
    BY <1>3 DEF Ordered
  <2> QED
    BY <2>1, <2>2, <2>3
<1>4. CASE n # 1
  <2>1. n >= 2 /\ right \in BOOLEAN /\ (right <=> n % 2 = 1) /\ n \in 2 .. n + 1 /\ m \in Nat
        /\ n \div 2 \in 1..n /\ n \in 1..n
    BY <1>1, <1>4
  <2>2. ParentOf(h, n) = p
    BY <1>1, <2>1, ParentOfIs
  <2>3. Child(h, p, n % 2 = 1) = last
    <3>1. Child(h, at[n \div 2], n % 2 = 1) = Place(n, at, n)
      BY <1>1, <2>1, ChildIs
    <3> QED
      BY <3>1, <1>1 DEF Place
  <2>4. last \in Nodes /\ last # NULL /\ n # 0
    BY <1>1, <2>1, HeapAssumption
  <2>5. e = Sift(f, last)
    BY <1>1, <2>1, <2>2, <2>3, <2>4 DEF heap_remove, CutOff, Fewer
  <2>f. f = Cleared(heap_replace(CutOff(h, at[n \div 2], right), x, last), x) /\ m = n - 1
        /\ last = at[n]
    OBVIOUS
  <2> HIDE DEF f, c, right, m, last
  <2>6. CASE j = n
    <3>1. x = last
      BY <2>6, <1>1 DEF last
    <3>2. /\ Loose(f, x)
          /\ \E A, P : /\ Tree(f, m, A, P) /\ f.key = h.key
                       /\ Members(P) = Members(pos) \ {x} /\ \A q \in 1..m : A[q] = at[q]
      <4>1. f = Cleared(heap_replace(CutOff(h, at[n \div 2], right), x, x), x) /\ x = at[n]
        BY <2>f, <3>1
      <4>2. Tree(h, n, at, pos)
        BY <1>1
      <4> QED
        BY ONLY <4>1, <4>2, <2>1, <2>f, DropTree
    <3>3. PICK A, P : /\ Tree(f, m, A, P) /\ f.key = h.key
                      /\ Members(P) = Members(pos) \ {x} /\ \A q \in 1..m : A[q] = at[q]
      BY <3>2
    <3>4. f \in Heaps
      BY <3>3 DEF Tree
    <3>5. e = f
      BY <2>5, <3>1, <3>2, <3>4, LooseStands
    <3>6. Ordered(f, m, A)
      <4>1. ASSUME NEW i \in 2..m PROVE f.key[A[i \div 2]] <= f.key[A[i]]
        <5>1. i \in 2..n /\ i \in 1..m /\ i \div 2 \in 1..m
          BY <1>1, <2>1 DEF m
        <5> QED
          BY <5>1, <3>3, <1>1 DEF Ordered
      <4> QED
        BY <4>1 DEF Ordered
    <3> QED
      BY <3>3, <3>5, <3>6
  <2>7. CASE j # n
    <3>1. j \in 1..m
      BY <2>7, <1>1 DEF m
    <3> HIDE DEF j
    <3>2. PICK A, P : /\ Tree(f, m, A, P) /\ f.key = h.key
                      /\ Members(P) = Members(pos) \ {x}
                      /\ P[last] = j /\ A[j] = last /\ \A q \in 1..m : q # j => A[q] = at[q]
      <4>1. Tree(h, n, at, pos) /\ x = at[j]
        BY <1>1
      <4> QED
        BY ONLY <4>1, <3>1, <2>1, <2>f, ReplaceTree
    <3>3. Keyed(f, P) /\ P[last] # 0
      BY <3>1, <3>2, <1>k DEF Keyed, m
    <3>4. Falling(f, m, A, P[last])
      <4> DEFINE K(q) == h.key[at[q]]
      <4>0. \A q \in 1..n : K(q) \in Int
        BY <1>1, <1>k, IntKeys
      <4>o. \A i \in 2..n : K(i \div 2) <= K(i)
        BY <1>1 DEF Ordered
      <4>1. ASSUME NEW i \in 2..m, i # j, i \div 2 # j PROVE f.key[A[i \div 2]] <= f.key[A[i]]
        <5>1. i \in 2..n /\ i \in 1..m /\ i \div 2 \in 1..m
          BY <1>1, <2>1 DEF m
        <5> QED
          BY <5>1, <4>1, <4>o, <3>2
      <4>2. ASSUME NEW i \in 2..m, i \div 2 = j, j >= 2 PROVE f.key[A[j \div 2]] <= f.key[A[i]]
        <5>1. i \in 2..n /\ i \in 1..m /\ i # j /\ j \in 2..n /\ j \div 2 \in 1..m /\ j \div 2 # j
              /\ i \in 1..n /\ j \in 1..n /\ j \div 2 \in 1..n
          BY <1>1, <2>1, <3>1, <4>2 DEF m
        <5>2. K(j) <= K(i) /\ K(j \div 2) <= K(j)
          BY <5>1, <4>2, <4>o
        <5>3. K(j \div 2) <= K(i)
          <6>1. K(j) \in Int /\ K(i) \in Int /\ K(j \div 2) \in Int
            BY <5>1, <4>0
          <6> HIDE DEF K
          <6> QED
            BY <5>2, <6>1
        <5> QED
          BY <5>1, <5>3, <3>2
      <4> QED
        BY <4>1, <4>2, <3>2 DEF Falling
    <3>5. PICK B, Q : /\ Tree(SiftDown(f, last), m, B, Q) /\ SiftDown(f, last).key = f.key
                      /\ Keyed(SiftDown(f, last), Q)
                      /\ Members(Q) = Members(P) /\ Q[last] # 0
                      /\ Climbing(SiftDown(f, last), m, B, Q[last])
      BY <2>4, <3>2, <3>3, <3>4, SiftDownOrders
    <3>6. e = SiftUp(SiftDown(f, last), last)
      BY <2>5 DEF Sift
    <3> DEFINE d == SiftDown(f, last)
    <3> HIDE DEF d
    <3>7. PICK C, R : /\ Tree(e, m, C, R) /\ e.key = d.key /\ Keyed(e, R)
                      /\ Members(R) = Members(Q) /\ Ordered(e, m, C)
      BY <2>4, <3>5, <3>6, SiftUpOrders DEF d
    <3> QED
      BY <3>2, <3>5, <3>7 DEF d
  <2> QED
    BY <2>6, <2>7
<1> QED
  BY <1>3, <1>4


-----------------------------------------------------------------------------
(* The specification.                                                      *)

\* The inductive invariant: the nodes stand in a tree filled by rows, none
\* before the one above it.
HeapInv == \E at, pos : Fit(heap, heap.nelts, at, pos)

\* heap_init, and every step of the specification, keep the invariant.
LEMMA EmptyFits ==
    HeapInit => HeapInv
<1> SUFFICES ASSUME HeapInit PROVE HeapInv
  OBVIOUS
<1> DEFINE N == [x \in Nodes |-> NULL]
           K == [x \in Nodes |-> Out]
           A == [q \in 1..0 |-> CHOOSE x \in Nodes : TRUE]
           P == [x \in Nodes |-> 0]
<1>1. heap = [root |-> NULL, nelts |-> 0, parent |-> N, left |-> N, right |-> N, key |-> K]
  BY DEF HeapInit
<1>2. /\ NULL \in Pointer /\ 0 \in Nat /\ N \in [Nodes -> Pointer]
      /\ K \in [Nodes -> Keys \cup {Out}]
      /\ \A x \in Nodes : N[x] = NULL /\ K[x] = Out
  BY DEF Pointer
<1> HIDE DEF N, K
<1>3. Has(heap, NULL, 0, N, N, N, K)
  BY ONLY <1>1, <1>2, Built
<1>4. Placed(0, A, P) /\ Members(P) = {}
  BY DEF Placed, Members
<1> HIDE DEF A, P
<1>5. Tree(heap, 0, A, P)
  BY <1>2, <1>3, <1>4 DEF Tree, Has, Loose
<1>6. Ordered(heap, 0, A) /\ heap.nelts = 0
  BY <1>3 DEF Ordered, Has
<1>7. Members(P) = {x \in Nodes : heap.key[x] # Out}
  BY <1>2, <1>3, <1>4 DEF Has
<1>8. Fit(heap, 0, A, P)
  BY <1>5, <1>6, <1>7 DEF Fit
<1> QED
  BY <1>6, <1>8 DEF HeapInv

LEMMA InsertKeeps ==
    ASSUME HeapInv, NEW x \in Nodes, NEW k \in Keys, InsertNode(x, k)
    PROVE  HeapInv' /\ heap'.key = [heap.key EXCEPT ![x] = k]
<1>1. PICK at, pos : Fit(heap, heap.nelts, at, pos)
  BY DEF HeapInv
<1> DEFINE n == heap.nelts
           g == heap'
<1>2. g = heap_insert([heap EXCEPT !.key[x] = k], x) /\ heap.key[x] = Out
  BY DEF InsertNode
<1> HIDE DEF n, g
<1>3. /\ \E A, P : Fit(g, n + 1, A, P)
      /\ g.key = [heap.key EXCEPT ![x] = k]
  BY <1>1, <1>2, InsertFits DEF n
<1>4. g.nelts = n + 1
  BY <1>3 DEF Fit, Tree
<1> QED
  BY <1>3, <1>4 DEF HeapInv, g

LEMMA RemoveKeeps ==
    ASSUME HeapInv, NEW x \in Nodes, RemoveNode(x)
    PROVE  HeapInv' /\ heap'.key = [heap.key EXCEPT ![x] = Out]
<1>1. PICK at, pos : Fit(heap, heap.nelts, at, pos)
  BY DEF HeapInv
<1> DEFINE n == heap.nelts
           e == heap_remove(heap, x)
           g == heap'
<1>2. g = Rekeyed(e, x, Out) /\ heap.key[x] # Out /\ e = heap_remove(heap, x)
  BY DEF RemoveNode, Rekeyed
<1> HIDE DEF n, g, e
<1>3. /\ \E A, P : Fit(g, n - 1, A, P)
      /\ g.key = [heap.key EXCEPT ![x] = Out]
  BY <1>1, <1>2, RemoveFits DEF n
<1>4. g.nelts = n - 1
  BY <1>3 DEF Fit, Tree
<1> QED
  BY <1>3, <1>4 DEF HeapInv, g

LEMMA RootIsNode ==
    ASSUME HeapInv, heap.root # NULL
    PROVE  heap.root \in Nodes
<1>1. heap \in Heaps
  BY DEF HeapInv, Fit, Tree
<1> QED
  BY <1>1, Fields DEF Pointer

LEMMA StepKeeps ==
    HeapInv /\ [HeapNext]_heap => HeapInv'
<1> SUFFICES ASSUME HeapInv, [HeapNext]_heap PROVE HeapInv'
  OBVIOUS
<1>1. ASSUME NEW x \in Nodes, RemoveNode(x) PROVE HeapInv'
  BY <1>1, RemoveKeeps
<1>2. ASSUME NEW x \in Nodes, NEW k \in Keys, InsertNode(x, k) PROVE HeapInv'
  BY <1>2, InsertKeeps
<1>3. CASE heap_dequeue
  BY <1>1, <1>3, RootIsNode DEF heap_dequeue
<1>4. CASE UNCHANGED heap
  BY <1>4 DEF HeapInv
<1> QED
  BY <1>1, <1>2, <1>3, <1>4 DEF HeapNext

\* The inductive invariant.
LEMMA HeapInvariant ==
    HeapSpec => []HeapInv
<1> QED
  BY EmptyFits, StepKeeps, PTL DEF HeapSpec

\* What follows from it.
LEMMA InvShape ==
    HeapInv => Shape
<1> SUFFICES ASSUME HeapInv PROVE Shape
  OBVIOUS
<1>1. PICK at, pos : Fit(heap, heap.nelts, at, pos)
  BY DEF HeapInv
<1> DEFINE n == heap.nelts
<1>2. /\ Tree(heap, n, at, pos) /\ n \in Nat /\ at \in [1..n -> Nodes] /\ pos \in [Nodes -> 0..n]
      /\ \A q \in 1..n : pos[at[q]] = q
      /\ \A y \in Nodes : pos[y] # 0 => at[pos[y]] = y
      /\ Members(pos) = {x \in Nodes : heap.key[x] # Out}
  BY <1>1 DEF Fit, Tree, Placed
<1> HIDE DEF n
<1>3. \A q \in 1..n : At(q) = at[q]
  BY <1>2, AtIs
<1>4. InHeap = Members(pos)
  <2>1. ASSUME NEW q \in 1..n PROVE At(q) \in Members(pos)
    BY <1>2, <1>3 DEF Members
  <2>2. ASSUME NEW y \in Members(pos) PROVE \E q \in 1..n : At(q) = y
    <3>1. y \in Nodes /\ pos[y] # 0 /\ pos[y] \in 1..n /\ at[pos[y]] = y
      BY <1>2 DEF Members
    <3> QED
      BY <3>1, <1>3
  <2> QED
    BY <2>1, <2>2 DEF InHeap, n
<1>5. ASSUME NEW i \in 1..n
      PROVE  /\ heap.parent[At(i)] = IF i = 1 THEN NULL ELSE At(i \div 2)
             /\ 2 * i > n => heap.left[At(i)] = NULL
             /\ 2 * i + 1 > n => heap.right[At(i)] = NULL
  <2>1. Joined(heap, n, at, i) /\ At(i) = at[i]
    BY <1>2, <1>3 DEF Tree
  <2>2. i # 1 => i \div 2 \in 1..n
    BY <1>2
  <2>3. (2 * i > n => ~(2 * i <= n)) /\ (2 * i + 1 > n => ~(2 * i + 1 <= n))
    BY <1>2
  <2> QED
    BY <2>1, <2>2, <2>3, <1>3 DEF Joined
<1>6. ASSUME NEW y \in Nodes \ InHeap
      PROVE  {heap.parent[y], heap.left[y], heap.right[y]} = {NULL}
  <2>1. Loose(heap, y)
    BY <1>2, <1>4 DEF Members, Tree
  <2> QED
    BY <2>1 DEF Loose
<1> QED
  BY <1>2, <1>4, <1>5, <1>6 DEF Shape, n

LEMMA InvType ==
    HeapInv => HeapTypeOK
<1> SUFFICES ASSUME HeapInv PROVE HeapTypeOK
  OBVIOUS
<1>1. PICK at, pos : Fit(heap, heap.nelts, at, pos)
  BY DEF HeapInv
<1> DEFINE n == heap.nelts
           M == Members(pos)
<1>2. /\ heap \in Heaps /\ n \in Nat /\ at \in [1..n -> Nodes] /\ pos \in [Nodes -> 0..n]
      /\ \A q \in 1..n : pos[at[q]] = q
      /\ \A y \in Nodes : pos[y] # 0 => at[pos[y]] = y
      /\ M = {x \in Nodes : heap.key[x] # Out}
  BY <1>1 DEF Fit, Tree, Placed
<1>3. Cardinality(M) = n
  <2> HIDE DEF n
  <2>1. at \in Bijection(1..n, M)
    <3>1. \A q \in 1..n : at[q] \in M
      BY <1>2 DEF Members
    <3>2. at \in [1..n -> M]
      <4> HIDE DEF M
      <4> QED
        BY <3>1, <1>2
    <3>3. \A y \in M : \E q \in 1..n : at[q] = y
      <4> SUFFICES ASSUME NEW y \in M PROVE \E q \in 1..n : at[q] = y
        OBVIOUS
      <4>1. y \in Nodes /\ pos[y] # 0 /\ pos[y] \in 1..n /\ at[pos[y]] = y
        BY <1>2 DEF Members
      <4> QED
        BY <4>1
    <3>4. \A q, r \in 1..n : at[q] = at[r] => q = r
      BY <1>2
    <3> HIDE DEF M
    <3> QED
      BY <3>2, <3>3, <3>4 DEF Bijection, Injection, Surjection, IsInjective
  <2> HIDE DEF M
  <2>2. ExistsBijection(1..n, M)
    BY <2>1 DEF ExistsBijection
  <2> QED
    BY <1>2, <2>2, FS_CountingElements
<1>4. /\ heap.root \in Pointer
      /\ \A x \in Nodes : /\ heap.parent[x] \in Pointer /\ heap.left[x] \in Pointer
                          /\ heap.right[x] \in Pointer /\ heap.key[x] \in Keys \cup {Out}
  BY <1>2, Fields
<1> HIDE DEF M
<1> QED
  BY <1>2, <1>3, <1>4 DEF HeapTypeOK


\* The root has the least key.
LEMMA RootIsLeast ==
    ASSUME NEW h, NEW n, NEW at, NEW pos, Tree(h, n, at, pos), Keyed(h, pos), Ordered(h, n, at)
    PROVE  \A q \in 1..n : h.key[at[1]] <= h.key[at[q]]
<1> DEFINE K(q) == h.key[at[q]]
           Bad == {q \in Nat : q \in 1..n /\ ~(K(1) <= K(q))}
<1>0. n \in Nat /\ \A q \in 1..n : K(q) \in Int
  BY IntKeys DEF Tree, Placed
<1>1. SUFFICES ASSUME Bad # {} PROVE FALSE
  <2>1. \A q \in 1..n : K(1) <= K(q)
    BY <1>1, <1>0
  <2> QED
    BY <2>1
<1>2. PICK q \in Bad : \A m \in Bad : q <= m
  <2>1. Bad \in SUBSET Nat
    OBVIOUS
  <2> HIDE DEF Bad
  <2> QED
    BY <1>1, <2>1, LeastNat
<1> HIDE DEF K
<1>3. q \in 1..n /\ ~(K(1) <= K(q)) /\ q # 1 /\ 1 \in 1..n
  BY <1>2, <1>0
<1>4. q \in 2..n /\ q \div 2 \in 1..n /\ ~(q <= q \div 2)
  BY <1>0, <1>3
<1>5. K(1) <= K(q \div 2)
  <2>1. q \div 2 \notin Bad
    BY <1>2, <1>4
  <2> QED
    BY <2>1, <1>4
<1>6. K(q \div 2) <= K(q)
  BY <1>4 DEF Ordered, K
<1> QED
  BY <1>0, <1>3, <1>4, <1>5, <1>6

\* The root is the first of the queue.
LEMMA InvFirst ==
    HeapInv => Queue!FirstOf(IF heap.root = NULL THEN Out ELSE heap.root)
<1> SUFFICES ASSUME HeapInv
             PROVE  Queue!FirstOf(IF heap.root = NULL THEN Out ELSE heap.root)
  OBVIOUS
<1>1. PICK at, pos : Fit(heap, heap.nelts, at, pos)
  BY DEF HeapInv
<1> DEFINE n == heap.nelts
           first == IF heap.root = NULL THEN Out ELSE heap.root
<1>2. /\ Tree(heap, n, at, pos) /\ n \in Nat /\ at \in [1..n -> Nodes]
      /\ \A q \in 1..n : pos[at[q]] = q
      /\ \A y \in Nodes : pos[y] # 0 => at[pos[y]] = y /\ pos[y] \in 1..n
      /\ Members(pos) = Queue!In /\ Ordered(heap, n, at)
      /\ heap.root = IF n = 0 THEN NULL ELSE at[1]
  BY <1>1 DEF Fit, Tree, Placed, Queue!In
<1>3. Keyed(heap, pos)
  BY <1>1, FitKeyed
<1>4. Out \notin Nodes /\ NULL \notin Nodes
  BY HeapAssumption
<1> HIDE DEF n
<1>5. CASE n = 0
  <2>1. Members(pos) = {}
    BY <1>2, <1>5 DEF Members
  <2> QED
    BY <2>1, <1>2, <1>5 DEF Queue!FirstOf
<1>6. CASE n # 0
  <2>1. 1 \in 1..n
    BY <1>2, <1>6
  <2>2. first = at[1] /\ at[1] \in Members(pos) /\ first # Out
    BY <2>1, <1>2, <1>4, <1>6 DEF Members
  <2>3. ASSUME NEW y \in Members(pos) PROVE heap.key[at[1]] <= heap.key[y]
    <3>1. \A q \in 1..n : heap.key[at[1]] <= heap.key[at[q]]
      BY <1>2, <1>3, RootIsLeast
    <3>2. pos[y] \in 1..n /\ at[pos[y]] = y
      BY <1>2 DEF Members
    <3> QED
      BY <3>1, <3>2
  <2> HIDE DEF first
  <2>4. Queue!FirstOf(first)
    BY <2>2, <2>3, <1>2 DEF Queue!FirstOf
  <2> QED
    BY <2>4 DEF first
<1> QED
  BY <1>5, <1>6

\* The refinement, step by step.
LEMMA InitMaps ==
    HeapInit => Queue!Init
  BY DEF HeapInit, Queue!Init

LEMMA StepMaps ==
    HeapInv /\ HeapInv' /\ [HeapNext]_heap
        => [Queue!Next]_<<heap.key, IF heap.root = NULL THEN Out ELSE heap.root>>
<1> SUFFICES ASSUME HeapInv, HeapInv', [HeapNext]_heap
             PROVE  [Queue!Next]_<<heap.key, IF heap.root = NULL THEN Out ELSE heap.root>>
  OBVIOUS
<1>1. Queue!FirstOf(IF heap.root = NULL THEN Out ELSE heap.root)'
  <2>1. HeapInv' => Queue!FirstOf(IF heap.root = NULL THEN Out ELSE heap.root)'
    BY InvFirst, PTL
  <2> QED
    BY <2>1
<1>2. ASSUME NEW x \in Nodes, RemoveNode(x) PROVE Queue!Next
  <2>1. Queue!Remove(x)
    BY <1>2, RemoveKeeps DEF Queue!Remove, RemoveNode
  <2> QED
    BY <2>1, <1>1 DEF Queue!Next
<1>3. ASSUME NEW x \in Nodes, NEW k \in Keys, InsertNode(x, k) PROVE Queue!Next
  <2>1. Queue!Insert(x, k)
    BY <1>3, InsertKeeps DEF Queue!Insert, InsertNode
  <2> QED
    BY <2>1, <1>1 DEF Queue!Next
<1>4. CASE heap_dequeue
  BY <1>2, <1>4, RootIsNode DEF heap_dequeue
<1>5. CASE UNCHANGED heap
  BY <1>5
<1> QED
  BY <1>2, <1>3, <1>4, <1>5 DEF HeapNext

\* heap_insert and heap_remove keep the count right: it is that of the nodes
\* inserted and not removed.
THEOREM HeapTypeCorrect ==
    HeapSpec => []HeapTypeOK
<1> QED
  BY HeapInvariant, InvType, PTL

\* After any calls of heap_insert, heap_remove and heap_dequeue the pointers
\* form one tree filled by rows, and a removed node keeps none.
THEOREM ShapeKept ==
    HeapSpec => []Shape
<1> QED
  BY HeapInvariant, InvShape, PTL

\* The heap is a priority queue: heap_insert and heap_remove add and take one
\* node and no other, and the root has the least next_timeout.
THEOREM QueueImplemented ==
    HeapSpec => QueueSpec
<1>1. HeapSpec => Queue!Init
  BY InitMaps DEF HeapSpec
<1>2. HeapSpec => [][HeapNext]_heap
  BY DEF HeapSpec
<1>3. HeapSpec => [][Queue!Next]_<<heap.key, IF heap.root = NULL THEN Out ELSE heap.root>>
  BY <1>2, HeapInvariant, StepMaps, PTL
<1> QED
  BY <1>1, <1>3 DEF QueueSpec, Queue!Spec

=============================================================================

----------------------------- MODULE EventLoop -----------------------------
(***************************************************************************)
(* The timers, idles and pending events of one hloop_t, in the loop        *)
(* thread: hloop_process_events with the callbacks it runs, and the calls  *)
(* that callbacks (and code outside hloop_run) make to add, reset and      *)
(* delete events.  The EVENT_* macros of hevent.h share one bit, pending,  *)
(* between the list loop->pendings and the moment of HV_FREE.              *)
(*                                                                         *)
(* Time is relative: left is next_timeout - cur_hrtime, and lag is what    *)
(* the clock has advanced since hloop_update_time.  The heaps are sets     *)
(* here (the order of the heap is the order of left).                      *)
(***************************************************************************)
EXTENDS Integers, FiniteSets, Sequences, SequencesExt

CONSTANTS
    Timeouts,     \* slots for htimer_add
    Periods,      \* slots for htimer_add_period
    Idles,        \* slots for hidle_add
    Io,           \* the hio_t of a descriptor
    None,
    Millis,       \* the values of timeout_ms
    Coarse,       \* from this timeout on next_timeout is rounded down ...
    Grain,        \* ... to a multiple of this
    Repeats,      \* the values of repeat
    INFINITE,     \* the largest uint32_t
    MaxBlock,     \* HLOOP_MAX_BLOCK_TIME
    MaxLag,       \* how long the callbacks of a round may take (a bound)
    MaxEvents,    \* timers and idles that exist at a time (a bound)
    Flags,        \* of hloop_new
    Ops,          \* what callers do
    DelAfterReset \* callers delete a timer they have reset in this round

Timers == Timeouts \cup Periods
Events == Timers \cup Idles \cup {Io}

ASSUME EventLoopAssumption ==
    /\ Timeouts \cap Periods = {} /\ Timers \cap Idles = {}
    /\ Io \notin Timers \cup Idles /\ None \notin Events
    /\ IsFiniteSet(Events)
    /\ Millis \subseteq Nat \ {0}
    /\ Grain \in Nat \ {0} /\ Coarse \in Nat /\ Grain <= Coarse
    /\ INFINITE \in Nat \ {0} /\ Repeats \subseteq 0..INFINITE
    /\ MaxBlock \in Nat \ {0} /\ MaxLag \in Nat /\ MaxEvents \in Nat
    /\ Flags \subseteq {"RUN_ONCE", "AUTO_FREE", "QUIT_WHEN_NO_ACTIVE_EVENTS"}
    /\ Ops \subseteq {"add", "del", "reset", "idle", "io", "stop"}
    /\ DelAfterReset \in BOOLEAN

VARIABLES
    ev,          \* the events: see TypeOK
    timers,      \* the timers in loop->timers and loop->realtimers
    idles,       \* loop->idles, without its order
    pendings,    \* loop->pendings, the lists of all priorities in a row
    ntimers, nidles, npendings, nactives,
    status, phase,
    running,     \* the event whose callback runs
    lag,         \* the time since hloop_update_time
    spent,       \* the time the callbacks of this round have taken
    readable,    \* the descriptor has data
    owed         \* timers whose time has come since they were last set

counters == <<ntimers, nidles, npendings, nactives>>
vars == <<ev, timers, idles, pendings, counters, status, phase, running, lag,
          spent, readable, owed>>

Priority(e) == CASE e \in Timeouts -> 5 [] e \in Periods -> 3
                 [] e = Io -> 0 [] OTHER -> -5

Freed == [live |-> FALSE, active |-> FALSE, pending |-> FALSE,
          destroy |-> FALSE, repeat |-> 0, timeout |-> 0, left |-> 0]

Live(e) == ev[e].live
Linked(e) == e \in Range(pendings) \/ running = e

-----------------------------------------------------------------------------
(* The EVENT_* macros: the event after the macro.                          *)

\* the places of the events with a higher priority; e goes in front of the rest
Ahead(list, e) == {i \in DOMAIN list : Priority(list[i]) > Priority(e)}

EVENT_PENDING(list, e) ==
    LET p == Cardinality(Ahead(list, e))
    IN SubSeq(list, 1, p) \o <<e>> \o SubSeq(list, p + 1, Len(list))

EVENT_DEL_now(x) == Freed

\* Freed at once, unless it still hangs in a pendings list.
EVENT_DEL(x) == IF x.pending THEN [x EXCEPT !.active = FALSE] ELSE Freed

EVENT_RESET_pending(x) == [x EXCEPT !.destroy = FALSE, !.active = TRUE]

EVENT_RESET(x) ==
    [x EXCEPT !.destroy = FALSE, !.active = TRUE, !.pending = FALSE]

\* hloop_update_time, d after the last one
Updated(d) ==
    [e \in Events |-> IF e \in timers THEN [ev[e] EXCEPT !.left = @ - d]
                      ELSE ev[e]]

\* The absolute time is unknown, and so is what the rounding takes away.
Lefts(ms) == IF ms >= Coarse THEN {ms - r : r \in 0..(Grain - 1)} ELSE {ms}

\* --repeat, of a uint32_t: 0 wraps around to INFINITE.
Count(n) == IF n = INFINITE THEN n ELSE (n - 1) % (INFINITE + 1)

-----------------------------------------------------------------------------
(* Calls from callbacks, or from outside hloop_run.                        *)

Calling(op) == phase \in {"start", "cb"} /\ op \in Ops

loopVars == <<status, phase, running, spent, readable>>

New(ms, n, left) ==
    [live |-> TRUE, active |-> TRUE, pending |-> FALSE, destroy |-> FALSE,
     repeat |-> n, timeout |-> ms, left |-> left]

\* the model's bound on events that exist at a time; the hio_t is one more
Room == Cardinality({e \in Events \ {Io} : Live(e)}) < MaxEvents

AddTimer(t, base, new) ==
    /\ ~Live(t) /\ ~Linked(t) /\ Room
    /\ ev' = [base EXCEPT ![t] = new]
    /\ timers' = timers \cup {t}
    /\ ntimers' = ntimers + 1 /\ nactives' = nactives + 1
    /\ owed' = owed \ {t}
    /\ UNCHANGED <<idles, pendings, nidles, npendings, loopVars>>

htimer_add(t) ==
    /\ Calling("add") /\ lag' = 0
    /\ \E ms \in Millis, n \in Repeats : \E l \in Lefts(ms) :
          AddTimer(t, Updated(lag), New(ms, n, l))

\* cron_next_timeout: some time after now
htimer_add_period(t) ==
    /\ Calling("add") /\ UNCHANGED lag
    /\ \E ms \in Millis, n \in Repeats : AddTimer(t, ev, New(0, n, lag + ms))

\* __htimer_del
Unarmed(x) == [x EXCEPT !.destroy = TRUE, !.left = 0]

ResetInRound(t) == Linked(t) /\ ~ev[t].pending

\* htimer_del does nothing on an inactive timer.
htimer_del(t) ==
    /\ Calling("del")
    /\ Live(t) /\ ev[t].active /\ (DelAfterReset \/ ~ResetInRound(t))
    /\ ev' = [ev EXCEPT ![t] = EVENT_DEL(Unarmed(@))]
    /\ timers' = timers \ {t}
    /\ ntimers' = IF ev[t].destroy THEN ntimers ELSE ntimers - 1
    /\ nactives' = nactives - 1
    /\ UNCHANGED <<idles, pendings, nidles, npendings, lag, owed, loopVars>>

Restarted(x, ms, l) ==
    [EVENT_RESET(x) EXCEPT !.timeout = ms, !.left = l,
                           !.repeat = IF x.repeat = 0 THEN 1 ELSE x.repeat]

\* A caller never uses a timer that it has deleted; timeout_ms = 0 keeps the
\* timeout.  cur_hrtime is not updated.
htimer_reset(t) ==
    /\ Calling("reset")
    /\ Live(t) /\ ev[t].active
    /\ \E ms \in Millis \cup {ev[t].timeout} : \E l \in Lefts(ms) :
          ev' = [ev EXCEPT ![t] = Restarted(@, ms, l)]
    /\ timers' = timers \cup {t}
    /\ ntimers' = IF ev[t].destroy THEN ntimers + 1 ELSE ntimers
    /\ owed' = owed \ {t}
    /\ UNCHANGED <<idles, pendings, nidles, npendings, nactives, lag, loopVars>>

hidle_add(i) ==
    /\ Calling("idle") /\ ~Live(i) /\ ~Linked(i) /\ Room
    /\ \E n \in Repeats : ev' = [ev EXCEPT ![i] = New(0, n, 0)]
    /\ idles' = idles \cup {i}
    /\ nidles' = nidles + 1 /\ nactives' = nactives + 1
    /\ UNCHANGED <<timers, pendings, ntimers, npendings, lag, owed, loopVars>>

hidle_del(i) ==
    /\ Calling("idle") /\ Live(i) /\ ev[i].active
    /\ ev' = [ev EXCEPT ![i] = EVENT_DEL([@ EXCEPT !.destroy = TRUE])]
    /\ idles' = idles \ {i}
    /\ nidles' = IF ev[i].destroy THEN nidles ELSE nidles - 1
    /\ nactives' = nactives - 1
    /\ UNCHANGED <<timers, pendings, ntimers, npendings, lag, owed, loopVars>>

\* hio_add and hio_del: the hio_t is never freed by them.
SetIo(active) ==
    /\ Calling("io") /\ ev[Io].active # active
    /\ ev' = [ev EXCEPT ![Io].active = active]
    /\ nactives' = IF active THEN nactives + 1 ELSE nactives - 1
    /\ UNCHANGED <<timers, idles, pendings, ntimers, nidles, npendings, lag,
                   owed, loopVars>>

hio_add == SetIo(TRUE)
hio_del == SetIo(FALSE)

\* From a callback or from another thread.
hloop_stop ==
    /\ "stop" \in Ops /\ status = "RUNNING"
    /\ status' = "STOP"
    /\ UNCHANGED <<ev, timers, idles, pendings, counters, phase, running, lag,
                   spent, readable, owed>>

-----------------------------------------------------------------------------
(* hloop_run and hloop_process_events.                                     *)

lists == <<timers, idles, pendings, counters>>

Goto(from, to) == phase = from /\ phase' = to

hloop_run ==
    /\ Goto("start", "while")
    /\ status' = "RUNNING"
    /\ UNCHANGED <<ev, lists, running, lag, spent, readable, owed>>

QuitOneLeft == "QUIT_WHEN_NO_ACTIVE_EVENTS" \in Flags /\ nactives <= 1

\* nactives without the intern_nevents of the loop itself
Quit == "QUIT_WHEN_NO_ACTIVE_EVENTS" \in Flags /\ nactives = 0

While ==
    /\ phase = "while"
    /\ phase' = IF status = "STOP" \/ Quit THEN "leave" ELSE "events"
    /\ UNCHANGED <<ev, lists, status, running, lag, spent, readable, owed>>

Returned == IF "RUN_ONCE" \in Flags THEN "leave" ELSE "while"


\* next_timeout - now, for the first timer of the heaps
Overdue == ntimers > 0 /\ \E t \in timers : ev[t].left - lag < 0

\* A timer is overdue: process_timers at once, without a look at the ios.
SkipPoll ==
    /\ Goto("events", "timers") /\ Overdue
    /\ ev' = Updated(lag) /\ lag' = 0 /\ spent' = 0
    /\ UNCHANGED <<lists, status, running, readable, owed>>

BlockTimes ==
    {MaxBlock} \cup {ev[t].left - lag + 1 : t \in timers}

\* epoll_wait or hv_msleep: it may wake up early, or late by MaxLag.
PollFor(d) ==
    /\ phase = "events" /\ ~Overdue
    /\ \A b \in BlockTimes : d <= b + MaxLag
    /\ phase' = IF status = "STOP" THEN Returned ELSE "timers"
    /\ lag' = 0 /\ spent' = 0
    /\ IF readable /\ ev[Io].active /\ ~ev[Io].pending
       THEN /\ ev' = [Updated(lag + d) EXCEPT ![Io].pending = TRUE]
            /\ pendings' = EVENT_PENDING(pendings, Io)
            /\ npendings' = npendings + 1
       ELSE ev' = Updated(lag + d) /\ UNCHANGED <<pendings, npendings>>
    /\ UNCHANGED <<timers, idles, ntimers, nidles, nactives, status, running,
                   readable, owed>>

Poll == \E d \in 0..(MaxBlock + MaxLag) : PollFor(d)

Due == {t \in timers : ev[t].left <= 0}

NextLefts(t) ==
    IF t \in Periods THEN Millis
    ELSE {((ev[t].left - 1) % ev[t].timeout) + 1}

Fired(x) == [x EXCEPT !.repeat = Count(@), !.pending = TRUE]

\* __hloop_process_timers takes the root of the heap, with the least left.
process_timers(t) ==
    /\ phase = "timers" /\ ntimers > 0 /\ t \in Due
    /\ \A o \in Due : ev[t].left <= ev[o].left
    /\ IF Count(ev[t].repeat) = 0
       THEN /\ ev' = [ev EXCEPT ![t] = Unarmed(Fired(@))]
            /\ timers' = timers \ {t} /\ ntimers' = ntimers - 1
       ELSE /\ \E l \in NextLefts(t) :
                  ev' = [ev EXCEPT ![t] = [Fired(@) EXCEPT !.left = l]]
            /\ UNCHANGED <<timers, ntimers>>
    /\ pendings' = EVENT_PENDING(pendings, t)
    /\ npendings' = npendings + 1
    /\ owed' = owed \cup {t}
    /\ UNCHANGED <<idles, nidles, nactives, status, phase, running, lag, spent,
                   readable>>

\* No timer is due any more, and something is pending: no idles.
TimersDone ==
    /\ Goto("timers", "pendings")
    /\ ntimers = 0 \/ Due = {}
    /\ npendings > 0 \/ nidles = 0
    /\ UNCHANGED <<ev, lists, status, running, lag, spent, readable, owed>>

\* the idles whose last turn this is
LastIdles == {i \in idles : Count(ev[i].repeat) = 0}

\* All idles have one priority; the order among them is left open.
process_idles ==
    /\ Goto("timers", "pendings")
    /\ ntimers = 0 \/ Due = {}
    /\ npendings = 0 /\ nidles > 0
    /\ ev' = [e \in Events |->
                IF e \in idles
                THEN [Fired(ev[e]) EXCEPT !.destroy = (e \in LastIdles)]
                ELSE ev[e]]
    /\ idles' = idles \ LastIdles
    /\ nidles' = nidles - Cardinality(LastIdles)
    /\ pendings' \in Bijection(1..nidles, idles) /\ npendings' = nidles
    /\ UNCHANGED <<timers, ntimers, nactives, status, running, lag, spent,
                   readable, owed>>

-----------------------------------------------------------------------------
(* hloop_process_pendings.                                                 *)

Cur == Head(pendings)
Visiting == phase = "pendings" /\ pendings # << >> /\ Live(Cur)

\* cur->cb(cur): the callback starts.
Invoke == Visiting /\ ev[Cur].pending /\ ev[Cur].active

RunCallback ==
    /\ Invoke
    /\ phase' = "cb" /\ running' = Cur /\ pendings' = Tail(pendings)
    /\ readable' = (readable /\ Cur # Io)
    /\ owed' = owed \ {Cur}
    /\ UNCHANGED <<ev, timers, idles, counters, status, lag, spent>>

DoneKept(x) == [x EXCEPT !.pending = FALSE]

\* cur->pending = 0; then EVENT_DEL if it is marked destroy.
Done(x) ==
    LET y == [x EXCEPT !.pending = FALSE]
    IN IF x.destroy THEN EVENT_DEL(y) ELSE y

FinishUncounted(e) == ev' = [ev EXCEPT ![e] = Done(@)] /\ UNCHANGED nactives

Finish(e) ==
    /\ ev' = [ev EXCEPT ![e] = Done(@)]
    /\ nactives' = IF ev[e].destroy /\ ev[e].active THEN nactives - 1
                   ELSE nactives

\* The callback returns; it has taken some time.
CallbackReturns ==
    /\ Goto("cb", "pendings") /\ Live(running)
    /\ Finish(running)
    /\ running' = None
    /\ \E d \in 0..(MaxLag - spent) : lag' = lag + d /\ spent' = spent + d
    /\ UNCHANGED <<timers, idles, pendings, ntimers, nidles, npendings, status,
                   readable, owed>>

\* Deleted (inactive) since it became pending, or reset (no longer pending).
SkipEvent ==
    /\ Visiting /\ ~Invoke
    /\ IF ev[Cur].pending THEN Finish(Cur) ELSE UNCHANGED <<ev, nactives>>
    /\ pendings' = Tail(pendings)
    /\ UNCHANGED <<timers, idles, ntimers, nidles, npendings, status, phase,
                   running, lag, spent, readable, owed>>

PendingsDone ==
    /\ Goto("pendings", Returned) /\ pendings = << >>
    /\ npendings' = 0
    /\ UNCHANGED <<ev, timers, idles, pendings, ntimers, nidles, nactives,
                   status, running, lag, spent, readable, owed>>

LeaveRun ==
    /\ Goto("leave", IF "AUTO_FREE" \in Flags THEN "free" ELSE "start")
    /\ status' = "STOP"
    /\ UNCHANGED <<ev, lists, running, lag, spent, readable, owed>>

\* hloop_free: by the caller, or by hloop_run itself.
hloop_free ==
    /\ phase = IF "AUTO_FREE" \in Flags THEN "free" ELSE "start"
    /\ phase' = "freed"
    /\ ev' = [e \in Events |->
                IF e \in timers \cup idles \cup {Io} THEN Freed ELSE ev[e]]
    /\ timers' = {} /\ idles' = {} /\ pendings' = << >>
    /\ UNCHANGED <<counters, status, running, lag, spent, readable, owed>>

\* Data arrives on the descriptor.
Arrive ==
    /\ ~readable /\ phase # "freed"
    /\ readable' = TRUE
    /\ UNCHANGED <<ev, lists, status, phase, running, lag, spent, owed>>

-----------------------------------------------------------------------------
Init ==
    /\ ev = [e \in Events |-> IF e = Io THEN [Freed EXCEPT !.live = TRUE]
                              ELSE Freed]
    /\ timers = {} /\ idles = {} /\ pendings = << >>
    /\ ntimers = 0 /\ nidles = 0 /\ npendings = 0 /\ nactives = 0
    /\ status = "STOP" /\ phase = "start" /\ running = None /\ lag = 0
    /\ spent = 0 /\ readable = FALSE /\ owed = {}

Call ==
    \/ \E t \in Timeouts : htimer_add(t) \/ htimer_reset(t)
    \/ \E t \in Periods : htimer_add_period(t)
    \/ \E t \in Timers : htimer_del(t)
    \/ \E i \in Idles : hidle_add(i) \/ hidle_del(i)
    \/ hio_add \/ hio_del \/ hloop_stop

LoopStep ==
    \/ While \/ SkipPoll \/ Poll
    \/ (\E t \in Timers : process_timers(t)) \/ TimersDone \/ process_idles
    \/ RunCallback \/ CallbackReturns \/ SkipEvent \/ PendingsDone \/ LeaveRun

Next == Call \/ LoopStep \/ hloop_run \/ hloop_free \/ Arrive

Spec == Init /\ [][Next]_vars

\* The loop goes on, callbacks return, and the clock advances.
FairSpec ==
    /\ Spec /\ WF_vars(LoopStep)
    /\ SF_vars(\E d \in 1..(MaxBlock + MaxLag) : PollFor(d))

-----------------------------------------------------------------------------
(* Properties.                                                             *)

Phases == {"start", "while", "events", "timers", "pendings", "cb", "leave",
           "free", "freed"}

EventType ==
    [live : BOOLEAN, active : BOOLEAN, pending : BOOLEAN, destroy : BOOLEAN,
     repeat : 0..INFINITE, timeout : Nat, left : Int]

\* The type invariant.
TypeOK ==
    /\ ev \in [Events -> EventType]
    /\ timers \subseteq Timers /\ idles \subseteq Idles
    /\ pendings \in Seq(Events)
    /\ ntimers \in Int /\ nidles \in Int /\ npendings \in Nat /\ nactives \in Int
    /\ status \in {"STOP", "RUNNING"} /\ phase \in Phases
    /\ running \in Events \cup {None}
    /\ lag \in Nat /\ spent \in 0..MaxLag /\ readable \in BOOLEAN /\ owed \subseteq Timers

\* "Now we can safely delete event marked as destroy": no event that hangs
\* in loop->pendings, or whose callback runs, has been freed, so
\* hloop_process_pendings never touches freed memory.
NoDanglingPending ==
    \A e \in Events : phase # "freed" /\ Linked(e) => Live(e)

\* Every event that is still allocated can be found again: it is armed, an
\* idle of the loop, or pending (and then freed after its callback).
NothingLost ==
    \A e \in Events : Live(e) => \/ e \in timers \cup idles \cup {Io}
                                 \/ Linked(e) /\ ev[e].pending /\ ev[e].destroy

\* The counters, which decide whether hloop_process_events looks at timers
\* and idles at all and when hloop_run quits, agree with the structures.
CountersExact ==
    phase # "freed" =>
        /\ ntimers = Cardinality(timers) /\ nidles = Cardinality(idles)
        /\ nactives = Cardinality({e \in Events : ev[e].active})
        /\ phase \notin {"pendings", "cb"} => npendings = Len(pendings)

\* A callback of a timer runs only when the time it was last set to (by
\* htimer_add or htimer_reset) has come: a reset withdraws a timer that is
\* already pending.
NeverEarly ==
    [][\A t \in Timers : running' = t /\ running # t => t \in owed]_vars

\* hloop_stop has been called in this run (a loop that quits by itself is
\* STOP only when hloop_run has ended).
Stopped == status = "STOP" /\ phase \notin {"start", "free", "freed"}

\* A timer that is armed while the loop runs gets its callback, unless it is
\* deleted, reset again and again, or the loop is stopped: the loop does not
\* quit, lose it or put it off forever.
TimerRuns ==
    \A t \in Timers :
        \/ []<><<htimer_reset(t)>>_vars
        \/ (t \in timers /\ status = "RUNNING")
               ~> (running = t \/ ~ev[t].active \/ Stopped)

\* A descriptor that has data gets its callback: hloop_process_events polls
\* ("ios -> timers -> idles") before it looks at the timers.
IoServedAlways ==
    (readable /\ ev[Io].active /\ status = "RUNNING")
        ~> (running = Io \/ ~ev[Io].active \/ Stopped)


=============================================================================

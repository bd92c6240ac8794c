------------------------------ MODULE PostEvent ------------------------------
(***************************************************************************)
(* Threads that talk to a running event loop: hloop_post_event with the    *)
(* eventfd and the custom_events queue, hloop_wakeup, and hloop_stop,      *)
(* hloop_pause and hloop_resume, against hloop_run in the loop thread.     *)
(*                                                                         *)
(* custom_events_mutex protects the queue; the eventfd is read by the loop *)
(* without it, and loop->status is read and written by everybody without   *)
(* any lock.                                                               *)
(***************************************************************************)
EXTENDS Integers, Sequences

CONSTANTS
    Posters,    \* threads that post events
    Stoppers,   \* threads that call hloop_stop
    Pausers,    \* threads that call hloop_pause and then hloop_resume
    Loop,       \* the loop thread
    None,       \* no thread, no event
    MaxPosts    \* how many events a poster, or the callbacks, post (a bound)

Threads == Posters \cup Stoppers \cup Pausers \cup {Loop}

ASSUME PostEventAssumption ==
    /\ Loop \notin Posters \cup Stoppers \cup Pausers
    /\ None \notin Threads
    /\ Posters \cap Stoppers = {} /\ Posters \cap Pausers = {}
    /\ Stoppers \cap Pausers = {}
    /\ MaxPosts \in Nat

VARIABLES
    status,      \* loop->status
    lpc,         \* where the loop thread is in hloop_run / eventfd_read_cb
    ready,       \* epoll has reported the eventfd
    remaining,   \* eventfd_read_cb: count - i
    efdOpen,     \* loop->eventfds[EVENTFDS_WRITE_INDEX] # -1
    efd,         \* the counter of the eventfd
    mutex,       \* the holder of custom_events_mutex
    queue,       \* loop->custom_events
    pc,          \* where each thread is
    posts,       \* how many events each thread has posted so far
    posted,      \* every event pushed, in order
    ran,         \* every event popped and run, in order
    accepted     \* the stoppers whose hloop_stop has returned 0

vars == <<status, lpc, ready, remaining, efdOpen, efd, mutex, queue,
          pc, posts, posted, ran, accepted>>

history == <<posted, ran>>

Init ==
    /\ status = "STOP" /\ lpc = "start" /\ ready = FALSE /\ remaining = 0
    /\ efdOpen = FALSE /\ efd = 0 /\ mutex = None /\ queue = << >>
    /\ pc = [t \in Threads |-> "idle"]
    /\ posts = [t \in Threads |-> 0]
    /\ posted = << >> /\ ran = << >> /\ accepted = {}

Goto(t, label) == pc' = [pc EXCEPT ![t] = label]

-----------------------------------------------------------------------------
(* hloop_post_event, by any thread.                                        *)

\* The event that runs has a callback: hloop_wakeup's events have none.
InCallback == lpc = "cb" /\ ran[Len(ran)][1] \notin Stoppers

\* The caller: a poster, or a callback of the loop.  (hloop_stop enters at
\* "lock" too, through hloop_wakeup.)
PostBegin(t) ==
    /\ pc[t] = "idle" /\ posts[t] < MaxPosts
    /\ t \in Posters \/ (t = Loop /\ InCallback)
    /\ Goto(t, "lock")
    /\ UNCHANGED <<status, lpc, ready, remaining, efdOpen, efd, mutex, queue,
                   posts, history, accepted>>

\* hmutex_lock; the first post before hloop_run creates the eventfd.  If
\* that fails the event is dropped.
PostLock(t) ==
    /\ pc[t] = "lock" /\ mutex = None
    /\ \E open \in IF efdOpen THEN {TRUE} ELSE BOOLEAN :
          /\ efdOpen' = open
          /\ mutex' = IF open THEN t ELSE None
          /\ Goto(t, IF open THEN "write" ELSE "posted")
    /\ UNCHANGED <<status, lpc, ready, remaining, efd, queue, posts, history,
                   accepted>>

\* write(eventfd, 1): from here on the loop may wake up.  If the write fails
\* the event is dropped.
PostWrite(t) ==
    /\ pc[t] = "write"
    /\ \/ efd' = efd + 1 /\ Goto(t, "push") /\ UNCHANGED mutex
       \/ mutex' = None /\ Goto(t, "posted") /\ UNCHANGED efd
    /\ UNCHANGED <<status, lpc, ready, remaining, efdOpen, queue, posts,
                   history, accepted>>

PostPushFront(t) ==
    /\ pc[t] = "push"
    /\ queue' = << <<t, posts[t] + 1>> >> \o queue
    /\ posted' = Append(posted, <<t, posts[t] + 1>>)
    /\ mutex' = None
    /\ Goto(t, "posted")
    /\ UNCHANGED <<status, lpc, ready, remaining, efdOpen, efd, posts, ran,
                   accepted>>

\* event_queue_push_back; hmutex_unlock
PostPush(t) ==
    /\ pc[t] = "push"
    /\ queue' = Append(queue, <<t, posts[t] + 1>>)
    /\ posted' = Append(posted, <<t, posts[t] + 1>>)
    /\ mutex' = None
    /\ Goto(t, "posted")
    /\ UNCHANGED <<status, lpc, ready, remaining, efdOpen, efd, posts, ran,
                   accepted>>

\* hloop_post_event has returned to a poster or a callback.
PostReturn(t) ==
    /\ pc[t] = "posted" /\ t \in Posters \cup {Loop}
    /\ posts' = [posts EXCEPT ![t] = @ + 1]
    /\ Goto(t, "idle")
    /\ UNCHANGED <<status, lpc, ready, remaining, efdOpen, efd, mutex, queue,
                   history, accepted>>

PostStep(t) == PostLock(t) \/ PostWrite(t) \/ PostPush(t) \/ PostReturn(t)

-----------------------------------------------------------------------------
(* hloop_stop, hloop_pause and hloop_resume, from other threads.           *)

\* hloop_stop: -2 when the loop does not run; otherwise hloop_wakeup first.
hloop_stop(t) ==
    /\ pc[t] = "idle"
    /\ Goto(t, IF status = "STOP" THEN "refused" ELSE "lock")
    /\ UNCHANGED <<status, lpc, ready, remaining, efdOpen, efd, mutex, queue,
                   posts, history, accepted>>

SetStop(t) ==
    /\ pc[t] = "posted"
    /\ status' = "STOP"
    /\ accepted' = accepted \cup {t}
    /\ Goto(t, "stopped")
    /\ UNCHANGED <<lpc, ready, remaining, efdOpen, efd, mutex, queue, posts,
                   history>>

\* hloop_pause and hloop_resume: a check, then an assignment.
CheckStatus(t, from, expected, to, skip) ==
    /\ pc[t] = from
    /\ Goto(t, IF status = expected THEN to ELSE skip)
    /\ UNCHANGED <<status, lpc, ready, remaining, efdOpen, efd, mutex, queue,
                   posts, history, accepted>>

AssignStatus(t, from, value, to) ==
    /\ pc[t] = from
    /\ status' = value
    /\ Goto(t, to)
    /\ UNCHANGED <<lpc, ready, remaining, efdOpen, efd, mutex, queue, posts,
                   history, accepted>>

hloop_pause(t) ==
    \/ CheckStatus(t, "idle", "RUNNING", "set_pause", "resume")
    \/ AssignStatus(t, "set_pause", "PAUSE", "resume")

hloop_resume(t) ==
    \/ CheckStatus(t, "resume", "PAUSE", "set_resume", "resumed")
    \/ AssignStatus(t, "set_resume", "RUNNING", "resumed")

-----------------------------------------------------------------------------
(* hloop_run, in the loop thread.                                          *)

LoopAt(label, next) == lpc = label /\ lpc' = next

others == <<pc, posts, accepted, posted>>

hloop_run ==
    /\ LoopAt("start", "create_eventfds")
    /\ status' = "RUNNING"
    /\ UNCHANGED <<ready, remaining, efdOpen, efd, mutex, queue, ran, others>>

\* Skipped when a post has created the eventfd; a failure is only logged.
hloop_create_eventfds ==
    /\ LoopAt("create_eventfds", "while")
    /\ efdOpen \/ mutex = None
    /\ efdOpen' \in IF efdOpen THEN {TRUE} ELSE BOOLEAN
    /\ UNCHANGED <<status, ready, remaining, efd, mutex, queue, ran, others>>

WhileNoStop ==
    /\ lpc = "while"
    /\ lpc' = IF status = "RUNNING" THEN "poll" ELSE "while"
    /\ UNCHANGED <<status, ready, remaining, efdOpen, efd, mutex, queue, ran,
                   others>>

\* PAUSE sleeps HLOOP_PAUSE_TIME and looks again.
While ==
    /\ lpc = "while"
    /\ lpc' = CASE status = "STOP"  -> "leave_run"
                [] status = "PAUSE" -> "while"
                [] OTHER            -> "poll"
    /\ UNCHANGED <<status, ready, remaining, efdOpen, efd, mutex, queue, ran,
                   others>>

\* iowatcher_poll_events returns at the latest after HLOOP_MAX_BLOCK_TIME.
Poll ==
    /\ LoopAt("poll", "polled")
    /\ ready' = (efd > 0)
    /\ UNCHANGED <<status, remaining, efdOpen, efd, mutex, queue, ran, others>>

AfterPoll ==
    /\ lpc = "polled"
    /\ lpc' = IF status # "STOP" /\ ready THEN "nio_read" ELSE "while"
    /\ UNCHANGED <<status, ready, remaining, efdOpen, efd, mutex, queue, ran,
                   others>>

nio_read_one ==
    /\ LoopAt("nio_read", "eventfd_read_cb")
    /\ remaining' = 1
    /\ efd' = 0 /\ ready' = FALSE
    /\ UNCHANGED <<status, efdOpen, mutex, queue, ran, others>>

\* read() returns the counter and resets it.
nio_read ==
    /\ LoopAt("nio_read", "eventfd_read_cb")
    /\ remaining' = efd
    /\ efd' = 0 /\ ready' = FALSE
    /\ UNCHANGED <<status, efdOpen, mutex, queue, ran, others>>

\* lock, pop the front, unlock; then the callback runs without the lock.
PopEvent ==
    /\ LoopAt("eventfd_read_cb", "cb")
    /\ remaining > 0 /\ mutex = None /\ queue # << >>
    /\ remaining' = remaining - 1
    /\ queue' = Tail(queue)
    /\ ran' = Append(ran, Head(queue))
    /\ UNCHANGED <<status, ready, efdOpen, efd, mutex, others>>

\* The callback returns; it may have posted events (PostBegin(Loop)) or
\* called hloop_stop, which in the loop thread only sets the status.
CallbackReturns ==
    /\ LoopAt("cb", "eventfd_read_cb")
    /\ pc[Loop] = "idle"
    /\ status' \in IF InCallback THEN {status, "STOP"} ELSE {status}
    /\ UNCHANGED <<ready, remaining, efdOpen, efd, mutex, queue, ran, others>>

\* All counted events are popped, or (it never happens, see TokensMatch)
\* the queue is empty before.
EventfdReadDone ==
    /\ LoopAt("eventfd_read_cb", "while")
    /\ remaining = 0 \/ (mutex = None /\ queue = << >>)
    /\ remaining' = 0
    /\ UNCHANGED <<status, ready, efdOpen, efd, mutex, queue, ran, others>>

LeaveRun ==
    /\ LoopAt("leave_run", "done")
    /\ status' = "STOP"
    /\ UNCHANGED <<ready, remaining, efdOpen, efd, mutex, queue, ran, others>>

LoopStep ==
    \/ hloop_run \/ hloop_create_eventfds \/ While \/ Poll \/ AfterPoll
    \/ nio_read \/ PopEvent \/ CallbackReturns \/ EventfdReadDone \/ LeaveRun

StopStep(t)  == hloop_stop(t) \/ SetStop(t)
PauseStep(t) == hloop_pause(t) \/ hloop_resume(t)

Next ==
    \/ LoopStep
    \/ \E t \in Threads : PostBegin(t) \/ PostStep(t)
    \/ \E t \in Stoppers : StopStep(t)
    \/ \E t \in Pausers : PauseStep(t)

Spec == Init /\ [][Next]_vars

\* Every thread goes on while it can; nobody has to begin to post or to stop.
FairSpec ==
    /\ Spec
    /\ WF_vars(LoopStep)
    /\ \A t \in Threads : WF_vars(PostStep(t))
    /\ \A t \in Stoppers : WF_vars(SetStop(t))
    /\ \A t \in Pausers : WF_vars(PauseStep(t))

-----------------------------------------------------------------------------
(* Properties.                                                             *)

Labels == {"idle", "lock", "write", "push", "posted", "refused", "stopped",
           "set_pause", "resume", "set_resume", "resumed"}
LoopLabels == {"start", "create_eventfds", "while", "poll", "polled",
               "nio_read", "eventfd_read_cb", "cb", "leave_run", "done"}
Event == Threads \X (Nat \ {0})

\* The type invariant.
TypeOK ==
    /\ status \in {"STOP", "RUNNING", "PAUSE"}
    /\ lpc \in LoopLabels /\ ready \in BOOLEAN
    /\ remaining \in Nat /\ efdOpen \in BOOLEAN /\ efd \in Nat
    /\ mutex \in Threads \cup {None}
    /\ queue \in Seq(Event) /\ posted \in Seq(Event) /\ ran \in Seq(Event)
    /\ pc \in [Threads -> Labels] /\ posts \in [Threads -> Nat]
    /\ accepted \subseteq Stoppers

\* One unit is in the eventfd, or has been read from it, for every event in
\* the queue, plus one for a post between its write and its push: no event
\* is stranded without a wakeup, and the loop never reads a count it cannot
\* pop (hloop_post_event writes before it pushes, under the mutex).
InFlight == IF \E t \in Threads : pc[t] = "push" THEN 1 ELSE 0

TokensMatch == efd + remaining = Len(queue) + InFlight

\* Events run exactly once and in the order in which they were pushed.
RunInOrder == posted = ran \o queue

\* An event that is in the queue while the loop runs is run, unless the loop
\* is stopped or paused, or has ended.
Delivered ==
    \A t \in Threads, n \in 1..MaxPosts :
        (<<t, n>> \in {queue[k] : k \in DOMAIN queue})
            ~> (\/ <<t, n>> \in {ran[k] : k \in DOMAIN ran}
                \/ status # "RUNNING" \/ lpc = "done")

\* A stop that no hloop_pause or hloop_resume is about to overwrite ends the
\* loop thread: from then on nobody leaves STOP, and the loop wakes up.
StopHonoured ==
    (accepted # {} /\ status = "STOP"
        /\ \A t \in Pausers : pc[t] \notin {"set_pause", "set_resume"})
            ~> (lpc = "done")

=============================================================================

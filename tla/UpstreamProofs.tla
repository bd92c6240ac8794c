--------------------------- MODULE UpstreamProofs ---------------------------
(***************************************************************************)
(* Theorems about the proxy of Upstream, for any number of descriptors and *)
(* sessions, any buffer sizes, and any number of faults.                   *)
(*                                                                         *)
(* The parts of the invariant are operators on the state h = [io, sock]    *)
(* that the model's handlers compute, so that hio_close, which ends most   *)
(* of them, is reasoned about once.                                        *)
(***************************************************************************)
EXTENDS Upstream, SequenceTheorems, WellFoundedInduction, TLAPS

\* The states h.
Hs == [io : [Fds -> Ios], sock : [Fds -> Socks]]

\* TypeOK, of h
Sane(h) ==
    /\ h \in Hs
    /\ \A f \in Fds :
         /\ h.io[f].ready => h.io[f].id > 0 /\ h.sock[f].state # "none"
         /\ ~h.io[f].ready => h.sock[f] = NoSock
         /\ Len(h.sock[f].out) - h.sock[f].got \in 0..SndBuf
         /\ h.io[f].upstream_io # f

\* EndTogether, of the side f in h
Pair(h, f) ==
    LET g == h.io[f].upstream_io IN
      h.io[f].ready /\ g # None
        => \/ h.io[g].ready /\ h.io[g].id = h.io[f].id /\ h.io[g].upstream_io = f
           \/ h.io[f].close /\ h.io[f].close_timer

\* Without reuse a side's upstream_io is the other side of its session, even
\* when that one is closed.
Link(h, f) ==
    LET g == h.io[f].upstream_io IN
      h.io[f].ready /\ g # None
        => /\ h.io[g].upstream_io = f /\ h.io[g].id = h.io[f].id
           /\ h.io[g].side = Other(h.io[f].side)

\* Conserved, of the side g in h
Flow(h, g) ==
    h.io[g].ready /\ ~h.io[g].error =>
      LET f   == h.io[g].upstream_io
          got == h.sock[g].out \o h.io[g].write_queue
      IN  /\ got = Stream(h.io[g].id, Other(h.io[g].side), Len(got))
          /\ f # None /\ h.io[f].ready =>
               got \o h.sock[f].rx = Stream(h.io[g].id, Other(h.io[g].side), h.sock[f].n)

\* NoStall, of the side f in h with the posted events p
In(p, e) == \E k \in DOMAIN p : p[k] = e

Moving(h, p, b) ==
    \/ h.io[b].connect /\ h.io[b].connect_timer
    \/ In(p, <<"nio_connect", b, h.io[b].id>>)
    \/ In(p, <<"hio_close", b, h.io[b].id>>)

Live(h, p, f) ==
    LET g == h.io[f].upstream_io IN
      h.io[f].ready /\ ~h.io[f].reading /\ g # None /\ h.io[g].ready
        => \/ h.io[g].write_queue # << >> /\ h.io[g].write_cb
           \/ Moving(h, p, f) \/ Moving(h, p, g)

\* What hio_close(h, f) = r does to the side x
Kept(h, r, x) ==
    /\ r.io[x].id = h.io[x].id /\ r.io[x].side = h.io[x].side
    /\ r.io[x].upstream_io = h.io[x].upstream_io
    /\ r.io[x].error = h.io[x].error

Stays(h, r, x) ==
    /\ h.io[x].ready /\ r.sock[x] = h.sock[x]
    /\ r.io[x].write_queue = h.io[x].write_queue
    /\ r.io[x].write_cb = h.io[x].write_cb
    /\ r.io[x].reading = h.io[x].reading
    /\ r.io[x].connect = h.io[x].connect
    /\ r.io[x].connect_timer = h.io[x].connect_timer
    /\ \/ r.io[x].close = h.io[x].close /\ r.io[x].close_timer = h.io[x].close_timer
       \/ r.io[x].close /\ r.io[x].close_timer

-----------------------------------------------------------------------------
(* hio_close.                                                              *)

\* Nothing in the least set that follows close_cb is missed.
LEMMA CascadeFollows ==
    ASSUME NEW h \in Hs, NEW f \in Fds
    PROVE  /\ Cascade(h, f) \in SUBSET Fds /\ f \in Cascade(h, f)
           /\ \A g \in Cascade(h, f) :
                Falls(h.io[g]) /\ h.io[g].upstream_io # None
                  => h.io[g].upstream_io \in Cascade(h, f)
<1>1. f \in Cascade(h, f)  BY DEF Cascade
<1>2. ASSUME NEW g \in Cascade(h, f), Falls(h.io[g]), h.io[g].upstream_io # None
      PROVE  h.io[g].upstream_io \in Cascade(h, f)
  <2> DEFINE y == h.io[g].upstream_io
  <2>1. g \in Fds  BY DEF Cascade
  <2>2. y \in Fds  BY <1>2, <2>1 DEF Hs, Ios
  <2>3. ASSUME NEW S \in SUBSET Fds, f \in S, hio_close_upstream(h, S)
        PROVE  y \in S
    <3>1. g \in S  BY <2>3 DEF Cascade
    <3> QED  BY <1>2, <2>3, <3>1 DEF hio_close_upstream
  <2> QED  BY <2>2, <2>3 DEF Cascade
<1> QED  BY <1>1, <1>2 DEF Cascade

\* hio_close of f: what is left of every side.
LEMMA CloseView ==
    ASSUME NEW h \in Hs, NEW f \in Fds, NEW r, r = hio_close(h, f)
    PROVE  /\ r \in Hs
           /\ Falls(h.io[f]) => ~r.io[f].ready
           /\ \A x \in Fds :
                /\ Kept(h, r, x)
                /\ r.io[x].ready => Stays(h, r, x)
                /\ ~r.io[x].ready => r.sock[x] = (IF h.io[x].ready THEN NoSock ELSE h.sock[x])
                /\ h.io[x].ready /\ ~r.io[x].ready =>
                     LET y == h.io[x].upstream_io IN
                     y # None /\ r.io[y].ready => r.io[y].close /\ r.io[y].close_timer
<1> DEFINE D == Cascade(h, f)
<1>1. /\ D \in SUBSET Fds /\ f \in D
      /\ \A g \in D : Falls(h.io[g]) /\ h.io[g].upstream_io # None => h.io[g].upstream_io \in D
  BY CascadeFollows
<1>2. r = [io |-> [g \in Fds |-> IF g \notin D \/ ~h.io[g].ready THEN h.io[g]
                                 ELSE IF CloseLater(h.io[g]) THEN ClosePutOff(h.io[g])
                                 ELSE hio_done(h.io[g])],
           sock |-> [g \in Fds |-> IF g \in D /\ Falls(h.io[g]) THEN NoSock ELSE h.sock[g]]]
  BY DEF hio_close
<1> HIDE DEF D
<1>3. NoSock \in Socks  BY EmptySeq DEF NoSock, Socks
<1>4. \A x \in Fds : h.io[x] \in Ios /\ h.sock[x] \in Socks  BY DEF Hs
<1>5. \A i \in Ios : /\ ClosePutOff(i) \in Ios /\ hio_done(i) \in Ios
                     /\ ClosePutOff(i) = [i EXCEPT !.close = TRUE, !.close_timer = TRUE]
                     /\ ~hio_done(i).ready
  BY EmptySeq DEF Ios, ClosePutOff, hio_done
<1>6. r \in Hs
  <2>1. r.io \in [Fds -> Ios]
    <3> DEFINE e(g) == IF g \notin D \/ ~h.io[g].ready THEN h.io[g]
                       ELSE IF CloseLater(h.io[g]) THEN ClosePutOff(h.io[g])
                       ELSE hio_done(h.io[g])
    <3>1. \A g \in Fds : e(g) \in Ios  BY <1>4, <1>5
    <3>2. r.io = [g \in Fds |-> e(g)]  BY <1>2
    <3> HIDE DEF e
    <3> QED  BY <3>1, <3>2
  <2>2. r.sock \in [Fds -> Socks]  BY <1>2, <1>3, <1>4
  <2> QED  BY <1>2, <2>1, <2>2 DEF Hs
<1>7. ASSUME NEW x \in Fds
      PROVE  /\ r.io[x] = IF x \notin D \/ ~h.io[x].ready THEN h.io[x]
                          ELSE IF CloseLater(h.io[x]) THEN ClosePutOff(h.io[x])
                          ELSE hio_done(h.io[x])
             /\ r.sock[x] = IF x \in D /\ Falls(h.io[x]) THEN NoSock ELSE h.sock[x]
  BY <1>2
<1>8. ASSUME NEW x \in Fds
      PROVE  /\ Kept(h, r, x)
             /\ r.io[x].ready => Stays(h, r, x)
             /\ ~r.io[x].ready => r.sock[x] = (IF h.io[x].ready THEN NoSock ELSE h.sock[x])
             /\ h.io[x].ready /\ ~r.io[x].ready => x \in D /\ Falls(h.io[x])
  <2>1. h.io[x] \in Ios  BY <1>4
  <2>2. CASE x \notin D \/ ~h.io[x].ready
    BY <1>7, <2>1, <2>2 DEF Kept, Stays, Falls
  <2>3. CASE x \in D /\ h.io[x].ready /\ CloseLater(h.io[x])
    <3>1. r.io[x] = [h.io[x] EXCEPT !.close = TRUE, !.close_timer = TRUE] /\ r.sock[x] = h.sock[x]
      BY <1>5, <1>7, <2>1, <2>3 DEF Falls
    <3> QED  BY <2>1, <2>3, <3>1 DEF Kept, Stays, Ios
  <2>4. CASE x \in D /\ h.io[x].ready /\ ~CloseLater(h.io[x])
    <3>1. r.io[x] = hio_done(h.io[x]) /\ r.sock[x] = NoSock
      BY <1>7, <2>4 DEF Falls
    <3>2. Kept(h, r, x)  BY <2>1, <3>1 DEF Kept, hio_done, Ios
    <3> QED  BY <1>5, <2>1, <2>4, <3>1, <3>2 DEF Falls
  <2> QED  BY <2>2, <2>3, <2>4
<1>9. Falls(h.io[f]) => ~r.io[f].ready
  BY <1>1, <1>4, <1>5, <1>7 DEF Falls
<1>10. ASSUME NEW x \in Fds, NEW y, y = h.io[x].upstream_io, h.io[x].ready, ~r.io[x].ready,
              y # None, r.io[y].ready
       PROVE  r.io[y].close /\ r.io[y].close_timer
  <2>1. y \in D  BY <1>1, <1>8, <1>10
  <2>2. y \in Fds /\ h.io[y] \in Ios  BY <1>1, <1>4, <2>1
  <2>3. h.io[y].ready  BY <1>8, <1>10, <2>2 DEF Stays
  <2>4. CloseLater(h.io[y])  BY <1>5, <1>7, <1>10, <2>1, <2>2, <2>3
  <2>5. r.io[y] = [h.io[y] EXCEPT !.close = TRUE, !.close_timer = TRUE]
    BY <1>5, <1>7, <2>1, <2>2, <2>3, <2>4
  <2> QED  BY <2>2, <2>5 DEF Ios
<1> QED  BY <1>6, <1>8, <1>9, <1>10

LEMMA CloseSane ==
    ASSUME NEW h, NEW f \in Fds, NEW r, r = hio_close(h, f), Sane(h)
    PROVE  Sane(r)
<1>0. h \in Hs  BY DEF Sane
<1>1. /\ r \in Hs
      /\ \A x \in Fds :
           /\ Kept(h, r, x)
           /\ r.io[x].ready => Stays(h, r, x)
           /\ ~r.io[x].ready => r.sock[x] = (IF h.io[x].ready THEN NoSock ELSE h.sock[x])
  BY <1>0, CloseView
<1>2. ASSUME NEW x \in Fds
      PROVE  /\ r.io[x].ready => r.io[x].id > 0 /\ r.sock[x].state # "none"
             /\ ~r.io[x].ready => r.sock[x] = NoSock
             /\ Len(r.sock[x].out) - r.sock[x].got \in 0..SndBuf
             /\ r.io[x].upstream_io # x
  <2>1. Len(NoSock.out) - NoSock.got = 0  BY DEF NoSock
  <2>2. SndBuf \in Nat  BY UpstreamAssumption
  <2>3. CASE r.io[x].ready  BY <1>1, <2>3 DEF Sane, Kept, Stays
  <2>4. CASE ~r.io[x].ready  BY <1>1, <2>1, <2>2, <2>4 DEF Sane, Kept
  <2> QED  BY <2>3, <2>4
<1> QED  BY <1>1, <1>2 DEF Sane

\* Whatever close_cb reaches, the sides that are left are paired.
LEMMA ClosePair ==
    ASSUME NEW h, NEW f \in Fds, NEW r, r = hio_close(h, f), h \in Hs,
           \A x \in Fds : Pair(h, x) \/ (x = f /\ Falls(h.io[f]))
    PROVE  \A x \in Fds : Pair(r, x)
<1> SUFFICES ASSUME NEW x \in Fds, NEW g, g = r.io[x].upstream_io, r.io[x].ready, g # None
             PROVE  \/ r.io[g].ready /\ r.io[g].id = r.io[x].id /\ r.io[g].upstream_io = x
                    \/ r.io[x].close /\ r.io[x].close_timer
  BY DEF Pair
<1>1. /\ r \in Hs
      /\ Falls(h.io[f]) => ~r.io[f].ready
      /\ \A z \in Fds :
           /\ Kept(h, r, z)
           /\ r.io[z].ready => Stays(h, r, z)
           /\ h.io[z].ready /\ ~r.io[z].ready =>
                LET y == h.io[z].upstream_io IN
                y # None /\ r.io[y].ready => r.io[y].close /\ r.io[y].close_timer
  BY SMTT(30), CloseView
<1>2. Pair(h, x)  BY <1>1
<1>3. Stays(h, r, x) /\ Kept(h, r, x)  BY <1>1
<1>4. g \in Fds  BY <1>1 DEF Hs, Ios
<1>5. g = h.io[x].upstream_io /\ h.io[x].ready /\ Kept(h, r, g)  BY <1>1, <1>3, <1>4 DEF Kept, Stays
<1>6. CASE h.io[x].close /\ h.io[x].close_timer  BY <1>3, <1>6 DEF Stays
<1>7. CASE h.io[g].ready /\ h.io[g].id = h.io[x].id /\ h.io[g].upstream_io = x
  <2>1. CASE r.io[g].ready  BY <1>3, <1>5, <1>7, <2>1 DEF Kept
  <2>2. CASE ~r.io[g].ready
    <3>1. x # None  BY <1>4, UpstreamAssumption DEF None
    <3> QED  BY <1>1, <1>4, <1>7, <2>2, <3>1
  <2> QED  BY <2>1, <2>2
<1> QED  BY <1>2, <1>5, <1>6, <1>7 DEF Pair

LEMMA CloseLink ==
    ASSUME NEW h, NEW f \in Fds, NEW r, r = hio_close(h, f), h \in Hs,
           \A x \in Fds : Link(h, x)
    PROVE  \A x \in Fds : Link(r, x)
<1>1. r \in Hs /\ \A z \in Fds : Kept(h, r, z) /\ (r.io[z].ready => Stays(h, r, z))
  BY CloseView
<1> SUFFICES ASSUME NEW x \in Fds, NEW g, g = r.io[x].upstream_io, r.io[x].ready, g # None
             PROVE  /\ r.io[g].upstream_io = x /\ r.io[g].id = r.io[x].id
                    /\ r.io[g].side = Other(r.io[x].side)
  BY DEF Link
<1>2. g \in Fds  BY <1>1 DEF Hs, Ios
<1>3. g = h.io[x].upstream_io /\ h.io[x].ready  BY SMTT(30), <1>1 DEF Kept, Stays
<1> QED  BY <1>1, <1>2, <1>3 DEF Kept, Link

\* The bytes of a side that is left are where they were.
LEMMA CloseFlow ==
    ASSUME NEW h, NEW f \in Fds, NEW r, r = hio_close(h, f), h \in Hs,
           \A x \in Fds : Flow(h, x)
    PROVE  \A x \in Fds : Flow(r, x)
<1>1. r \in Hs /\ \A z \in Fds : Kept(h, r, z) /\ (r.io[z].ready => Stays(h, r, z))
  BY CloseView
<1> SUFFICES ASSUME NEW x \in Fds, r.io[x].ready /\ ~r.io[x].error
             PROVE  Flow(r, x)
  BY DEF Flow
<1>2. /\ h.io[x].ready /\ ~h.io[x].error /\ r.io[x].upstream_io = h.io[x].upstream_io
      /\ r.io[x].id = h.io[x].id /\ r.io[x].side = h.io[x].side
      /\ r.sock[x] = h.sock[x] /\ r.io[x].write_queue = h.io[x].write_queue
  BY <1>1 DEF Kept, Stays
<1> DEFINE g == h.io[x].upstream_io
<1>3. g # None => g \in Fds  BY DEF Hs, Ios
<1>4. g # None /\ r.io[g].ready => h.io[g].ready /\ r.sock[g] = h.sock[g]  BY <1>1, <1>3 DEF Stays
<1>5. Flow(h, x)  OBVIOUS
<1> QED  BY ZenonT(40), <1>2, <1>4, <1>5 DEF Flow

\* What a side that is left waits for still happens.
LEMMA CloseLive ==
    ASSUME NEW h, NEW f \in Fds, NEW r, r = hio_close(h, f), h \in Hs, NEW p,
           \A x \in Fds : \/ Live(h, p, x)
                          \/ Falls(h.io[f]) /\ (x = f \/ h.io[x].upstream_io = f)
    PROVE  \A x \in Fds : Live(r, p, x)
<1>1. /\ r \in Hs /\ (Falls(h.io[f]) => ~r.io[f].ready)
      /\ \A z \in Fds : Kept(h, r, z) /\ (r.io[z].ready => Stays(h, r, z))
  BY CloseView
<1> SUFFICES ASSUME NEW x \in Fds, NEW g, g = r.io[x].upstream_io,
                    r.io[x].ready, ~r.io[x].reading, g # None, r.io[g].ready
             PROVE  \/ r.io[g].write_queue # << >> /\ r.io[g].write_cb
                    \/ Moving(r, p, x) \/ Moving(r, p, g)
  BY DEF Live
<1>2. g \in Fds  BY <1>1 DEF Hs, Ios
<1>3. g = h.io[x].upstream_io  BY <1>1 DEF Kept
<1>4. Live(h, p, x)  BY <1>1, <1>3
<1>5. /\ h.io[x].ready /\ h.io[g].ready /\ (h.io[x].reading <=> r.io[x].reading)
      /\ h.io[g].write_queue = r.io[g].write_queue /\ (h.io[g].write_cb <=> r.io[g].write_cb)
  BY SMTT(30), <1>1, <1>2 DEF Stays
<1>6. \A z \in {x, g} : Moving(h, p, z) => Moving(r, p, z)
  <2>1. \A z \in {x, g} : Stays(h, r, z) /\ Kept(h, r, z)  BY <1>1, <1>2
  <2> QED  BY <2>1 DEF Moving, Stays, Kept
<1> QED  BY <1>3, <1>4, <1>5, <1>6 DEF Live

-----------------------------------------------------------------------------
(* The invariant of h, with the posted events p and the value u of reuse.  *)

\* Only a side with an error has a posted close.
Doomed(h, p, f) ==
    h.io[f].ready /\ In(p, <<"hio_close", f, h.io[f].id>>) => h.io[f].error

Good(h, p, u) ==
    /\ Sane(h)
    /\ \A x \in Fds : Pair(h, x)
    /\ \A x \in Fds : Doomed(h, p, x)
    /\ ~u => /\ \A x \in Fds : Link(h, x)
             /\ \A x \in Fds : Flow(h, x)
             /\ \A x \in Fds : Live(h, p, x)

\* The same, but for what an error of f, which ends the session, makes void.
Nearly(h, p, u, f) ==
    /\ Sane(h)
    /\ \A x \in Fds : Pair(h, x) \/ x = f
    /\ \A x \in Fds : Doomed(h, p, x)
    /\ ~u => /\ \A x \in Fds : Link(h, x)
             /\ \A x \in Fds : Flow(h, x)
             /\ \A x \in Fds : Live(h, p, x) \/ x = f \/ h.io[x].upstream_io = f

LEMMA GoodNearly ==
    ASSUME NEW h, NEW p, NEW u, NEW f, Good(h, p, u)
    PROVE  Nearly(h, p, u, f)
BY DEF Good, Nearly

LEMMA CloseDoomed ==
    ASSUME NEW h, NEW f \in Fds, NEW r, r = hio_close(h, f), h \in Hs, NEW p,
           \A x \in Fds : Doomed(h, p, x)
    PROVE  \A x \in Fds : Doomed(r, p, x)
<1>1. \A z \in Fds : Kept(h, r, z) /\ (r.io[z].ready => Stays(h, r, z))
  BY CloseView
<1> QED  BY <1>1 DEF Doomed, Kept, Stays

\* hio_close of a side that falls repairs the rest,
LEMMA CloseRepairs ==
    ASSUME NEW h, NEW p, NEW u, NEW f \in Fds, Nearly(h, p, u, f), Falls(h.io[f])
    PROVE  Good(hio_close(h, f), p, u)
<1> DEFINE r == hio_close(h, f)
<1>0. h \in Hs  BY DEF Nearly, Sane
<1>1. Sane(r)  BY CloseSane DEF Nearly
<1>2. \A x \in Fds : Pair(r, x)  BY <1>0, ClosePair DEF Nearly
<1>3. \A x \in Fds : Doomed(r, p, x)  BY <1>0, CloseDoomed DEF Nearly
<1>4. ASSUME ~u
      PROVE  /\ \A x \in Fds : Link(r, x)
             /\ \A x \in Fds : Flow(r, x)
             /\ \A x \in Fds : Live(r, p, x)
  <2>1. \A x \in Fds : Link(r, x)  BY <1>0, <1>4, CloseLink DEF Nearly
  <2>2. \A x \in Fds : Flow(r, x)  BY <1>0, <1>4, CloseFlow DEF Nearly
  <2>3. \A x \in Fds : Live(r, p, x)  BY <1>0, <1>4, CloseLive DEF Nearly
  <2> QED  BY <2>1, <2>2, <2>3
<1> HIDE DEF r
<1> QED  BY <1>1, <1>2, <1>3, <1>4 DEF Good, r

\* and hio_close of any side keeps it.
LEMMA CloseKeeps ==
    ASSUME NEW h, NEW p, NEW u, NEW f \in Fds, Good(h, p, u)
    PROVE  Good(hio_close(h, f), p, u)
<1> DEFINE r == hio_close(h, f)
<1>0. h \in Hs  BY DEF Good, Sane
<1>1. Sane(r)  BY CloseSane DEF Good
<1>2. \A x \in Fds : Pair(r, x)  BY <1>0, ClosePair DEF Good
<1>3. \A x \in Fds : Doomed(r, p, x)  BY <1>0, CloseDoomed DEF Good
<1>4. ASSUME ~u
      PROVE  /\ \A x \in Fds : Link(r, x)
             /\ \A x \in Fds : Flow(r, x)
             /\ \A x \in Fds : Live(r, p, x)
  <2>1. \A x \in Fds : Link(r, x)  BY <1>0, <1>4, CloseLink DEF Good
  <2>2. \A x \in Fds : Flow(r, x)  BY <1>0, <1>4, CloseFlow DEF Good
  <2>3. \A x \in Fds : Live(r, p, x)  BY <1>0, <1>4, CloseLive DEF Good
  <2> QED  BY <2>1, <2>2, <2>3
<1> HIDE DEF r
<1> QED  BY <1>1, <1>2, <1>3, <1>4 DEF Good, r

\* What most of the invariant depends on: nothing of it changes at x, except
\* that x may have an error in r.
Same(h, r, x) ==
    /\ r.io[x].id = h.io[x].id /\ r.io[x].side = h.io[x].side
    /\ r.io[x].upstream_io = h.io[x].upstream_io
    /\ (r.io[x].ready <=> h.io[x].ready)
    /\ (h.io[x].error => r.io[x].error)
    /\ r.io[x].write_queue = h.io[x].write_queue /\ r.sock[x] = h.sock[x]

Waiting(h, r, x) ==
    (r.io[x].close <=> h.io[x].close) /\ (r.io[x].close_timer <=> h.io[x].close_timer)

LEMMA SameKeeps ==
    ASSUME NEW h, NEW r \in Hs, NEW p, Sane(h), \A x \in Fds : Same(h, r, x)
    PROVE  /\ Sane(r)
           /\ (\A x \in Fds : Doomed(h, p, x)) => \A x \in Fds : Doomed(r, p, x)
           /\ \A x \in Fds : Pair(h, x) /\ Waiting(h, r, x) => Pair(r, x)
           /\ \A x \in Fds : Link(h, x) => Link(r, x)
           /\ \A x \in Fds : Flow(h, x) => Flow(r, x)
<1>1. Sane(r)  BY DEF Sane, Same
<1>2. \A x \in Fds : Doomed(h, p, x) => Doomed(r, p, x)  BY DEF Doomed, Same
<1>3. \A x \in Fds : h.io[x].upstream_io \in Fds \cup {None}  BY DEF Sane, Hs, Ios
<1>4. \A x \in Fds : Pair(h, x) /\ Waiting(h, r, x) => Pair(r, x)
  BY <1>3 DEF Pair, Waiting, Same
<1>5. \A x \in Fds : Link(h, x) => Link(r, x)
  BY SMTT(30), <1>3 DEF Link, Same
<1>6. ASSUME NEW x \in Fds, Flow(h, x)  PROVE Flow(r, x)
  <2> SUFFICES ASSUME r.io[x].ready /\ ~r.io[x].error  PROVE Flow(r, x)
    BY DEF Flow
  <2>1. /\ h.io[x].ready /\ ~h.io[x].error /\ r.io[x].upstream_io = h.io[x].upstream_io
        /\ r.io[x].id = h.io[x].id /\ r.io[x].side = h.io[x].side
        /\ r.sock[x] = h.sock[x] /\ r.io[x].write_queue = h.io[x].write_queue
    BY DEF Same
  <2> DEFINE g == h.io[x].upstream_io
  <2>2. g # None /\ r.io[g].ready => h.io[g].ready /\ r.sock[g] = h.sock[g]
    BY <1>3 DEF Same
  <2> QED  BY ZenonT(40), <1>6, <2>1, <2>2 DEF Flow
<1> QED  BY <1>1, <1>2, <1>4, <1>5, <1>6

\* The sides are of the sessions they were of.
Ids(h, r) == \A x \in Fds : r.io[x].id = h.io[x].id

\* An error of f is set, and f closed.
LEMMA ErrorCloses ==
    ASSUME NEW h, NEW p, NEW u, NEW f \in Fds,
           \/ Good(h, p, u)
           \/ Nearly(h, p, u, f) /\ h.io[f].ready
    PROVE  /\ Good(hio_close([h EXCEPT !.io[f].error = TRUE], f), p, u)
           /\ [h EXCEPT !.io[f].error = TRUE] \in Hs
           /\ Ids(h, hio_close([h EXCEPT !.io[f].error = TRUE], f))
<1> DEFINE r == [h EXCEPT !.io[f].error = TRUE]
<1>0. Nearly(h, p, u, f)  BY GoodNearly
<1>1. h \in Hs /\ h.io \in [Fds -> Ios] /\ h.io[f] \in Ios  BY <1>0 DEF Nearly, Sane, Hs
<1>2. r = [h EXCEPT !.io = [h.io EXCEPT ![f] = [h.io[f] EXCEPT !.error = TRUE]]]
  BY <1>1 DEF Hs
<1>3. [h.io[f] EXCEPT !.error = TRUE] \in Ios  BY <1>1 DEF Ios
<1>4. r \in Hs  BY <1>1, <1>2, <1>3 DEF Hs
<1>5. /\ r.sock = h.sock /\ r.io[f] = [h.io[f] EXCEPT !.error = TRUE]
      /\ \A x \in Fds \ {f} : r.io[x] = h.io[x]
  BY <1>1, <1>2 DEF Hs
<1> HIDE DEF r
<1>6. ASSUME NEW x \in Fds
      PROVE  /\ Same(h, r, x) /\ Waiting(h, r, x)
             /\ (r.io[x].reading <=> h.io[x].reading)
             /\ (r.io[x].write_cb <=> h.io[x].write_cb)
             /\ (r.io[x].connect <=> h.io[x].connect)
             /\ (r.io[x].connect_timer <=> h.io[x].connect_timer)
  <2>1. CASE x = f  BY <1>1, <1>5, <2>1 DEF Ios, Same, Waiting
  <2>2. CASE x # f  BY <1>5, <2>2 DEF Same, Waiting
  <2> QED  BY <2>1, <2>2
<1>7. ASSUME NEW x \in Fds, Live(h, p, x)  PROVE Live(r, p, x)
  <2>1. h.io[x].upstream_io \in Fds \cup {None}  BY <1>1 DEF Hs, Ios
  <2>2. \A z \in Fds : Moving(h, p, z) => Moving(r, p, z)  BY <1>6 DEF Moving, Same
  <2> QED  BY <1>6, <1>7, <2>1, <2>2 DEF Live, Same
<1>8. /\ Sane(r) /\ \A x \in Fds : Pair(h, x) => Pair(r, x)
      /\ \A x \in Fds : Doomed(r, p, x)
      /\ ~u => (\A x \in Fds : Link(r, x)) /\ (\A x \in Fds : Flow(r, x))
  BY <1>0, <1>4, <1>6, SameKeeps DEF Nearly
<1>11. Ids(h, hio_close(r, f))
  <2>1. \A x \in Fds : Kept(r, hio_close(r, f), x)  BY <1>4, CloseView
  <2> QED  BY <1>6, <2>1 DEF Ids, Same, Kept
<1>9. CASE Good(h, p, u)
  <2>1. Good(r, p, u)  BY <1>7, <1>8, <1>9 DEF Good
  <2> QED  BY <1>4, <1>11, <2>1, CloseKeeps DEF r
<1>10. CASE Nearly(h, p, u, f) /\ h.io[f].ready
  <2>1. Nearly(r, p, u, f)
    <3>1. \A x \in Fds : r.io[x].upstream_io = h.io[x].upstream_io  BY <1>6 DEF Same
    <3> QED  BY <1>7, <1>8, <1>10, <3>1 DEF Nearly
  <2>2. r.io[f].error /\ r.io[f].ready  BY <1>1, <1>5, <1>10 DEF Ios
  <2>3. Falls(r.io[f])  BY <2>2 DEF Falls, CloseLater
  <2> QED  BY <1>4, <1>11, <2>1, <2>3, CloseRepairs DEF r
<1> QED  BY <1>9, <1>10

-----------------------------------------------------------------------------
(* Streams of bytes.                                                       *)

LEMMA StreamType ==
    ASSUME NEW s \in 1..MaxSessions, NEW side \in Sides, NEW n \in Nat
    PROVE  /\ Stream(s, side, n) \in Seq(Bytes) /\ Len(Stream(s, side, n)) = n
           /\ \A i \in 1..n : Stream(s, side, n)[i] = <<s, side, i>>
<1>1. \A i \in 1..n : <<s, side, i>> \in Bytes  BY DEF Bytes
<1>2. Stream(s, side, n) = [i \in 1..n |-> <<s, side, i>>]  BY DEF Stream
<1> QED  BY <1>1, <1>2, IsASeq

\* The next byte of the peer,
LEMMA StreamNext ==
    ASSUME NEW s \in 1..MaxSessions, NEW side \in Sides, NEW n \in Nat,
           NEW a \in Seq(Bytes), NEW b \in Seq(Bytes), a \o b = Stream(s, side, n)
    PROVE  a \o Append(b, <<s, side, n + 1>>) = Stream(s, side, n + 1)
<1> DEFINE e == <<s, side, n + 1>>
           t == Stream(s, side, n)
           v == Stream(s, side, n + 1)
<1>1. e \in Bytes  BY DEF Bytes
<1>2. t \in Seq(Bytes) /\ Len(t) = n /\ \A i \in 1..n : t[i] = <<s, side, i>>
  BY StreamType
<1>3. n + 1 \in Nat  OBVIOUS
<1>4. v \in Seq(Bytes) /\ Len(v) = n + 1 /\ \A i \in 1..(n + 1) : v[i] = <<s, side, i>>
  BY <1>3, StreamType
<1> HIDE DEF e, t, v
<1>5. a \o Append(b, e) = Append(a \o b, e)
  <2>1. Append(b, e) = b \o <<e>>  BY <1>1, AppendIsConcat
  <2>2. a \o b \in Seq(Bytes)  BY ConcatProperties
  <2>3. Append(a \o b, e) = (a \o b) \o <<e>>  BY <1>1, <2>2, AppendIsConcat
  <2>4. <<e>> \in Seq(Bytes)  BY <1>1
  <2>5. (a \o b) \o <<e>> = a \o (b \o <<e>>)  BY ONLY <2>4, a \in Seq(Bytes), b \in Seq(Bytes), ConcatAssociative
  <2> QED  BY <2>1, <2>3, <2>4, <2>5
<1>6. Append(t, e) = v
  <2>1. Append(t, e) \in Seq(Bytes) /\ Len(Append(t, e)) = n + 1  BY <1>1, <1>2, AppendProperties
  <2>2. ASSUME NEW i \in 1..(n + 1)  PROVE Append(t, e)[i] = v[i]
    <3>1. CASE i = n + 1
      <4>1. Append(t, e)[i] = e  BY <1>1, <1>2, <3>1, AppendProperties
      <4> QED  BY <1>4, <3>1, <4>1 DEF e
    <3>2. CASE i # n + 1
      <4>1. i \in 1..n  BY <3>2
      <4>2. Append(t, e)[i] = t[i]  BY <1>1, <1>2, <4>1, AppendProperties
      <4> QED  BY <1>2, <1>4, <4>1, <4>2
    <3> QED  BY <3>1, <3>2
  <2> QED  BY <1>4, <2>1, <2>2, SeqEqual
<1> QED  BY <1>5, <1>6 DEF e, t, v

\* and what is before the last of its bytes.
LEMMA StreamPrefix ==
    ASSUME NEW s \in 1..MaxSessions, NEW side \in Sides, NEW n \in Nat,
           NEW a \in Seq(Bytes), NEW b \in Seq(Bytes), a \o b = Stream(s, side, n)
    PROVE  a = Stream(s, side, Len(a))
<1>0. Len(a) \in Nat /\ Len(b) \in Nat  BY LenProperties
<1>1. /\ Len(a \o b) = Len(a) + Len(b)
      /\ \A i \in 1..Len(a) : (a \o b)[i] = a[i]
  BY ConcatProperties, <1>0
<1>2. Len(a \o b) = n /\ \A i \in 1..n : (a \o b)[i] = <<s, side, i>>
  BY StreamType
<1>3. \A i \in 1..Len(a) : a[i] = <<s, side, i>>  BY <1>0, <1>1, <1>2
<1>4. /\ Stream(s, side, Len(a)) \in Seq(Bytes) /\ Len(Stream(s, side, Len(a))) = Len(a)
      /\ \A i \in 1..Len(a) : Stream(s, side, Len(a))[i] = <<s, side, i>>
  BY <1>0, StreamType
<1> QED  BY <1>3, <1>4, SeqEqual

\* A sequence cut in two.
LEMMA Cut ==
    ASSUME NEW S, NEW t \in Seq(S), NEW n \in 0..Len(t)
    PROVE  /\ SubSeq(t, 1, n) \in Seq(S) /\ SubSeq(t, n + 1, Len(t)) \in Seq(S)
           /\ Len(SubSeq(t, 1, n)) = n /\ Len(SubSeq(t, n + 1, Len(t))) = Len(t) - n
           /\ SubSeq(t, 1, n) \o SubSeq(t, n + 1, Len(t)) = t
<1>0. Len(t) \in Nat /\ n \in Nat  BY LenProperties
<1>1. /\ SubSeq(t, 1, n) \in Seq(S) /\ Len(SubSeq(t, 1, n)) = n
      /\ \A i \in 1..n : SubSeq(t, 1, n)[i] = t[i]
  BY <1>0
<1>2. /\ SubSeq(t, n + 1, Len(t)) \in Seq(S) /\ Len(SubSeq(t, n + 1, Len(t))) = Len(t) - n
      /\ \A i \in 1..(Len(t) - n) : SubSeq(t, n + 1, Len(t))[i] = t[i + n]
  BY <1>0
<1>3. SubSeq(t, 1, n) \o SubSeq(t, n + 1, Len(t)) = SubSeq(t, 1, Len(t))
  <2>1. /\ 1 \in 1..(Len(t) + 1) /\ n \in (1 - 1)..Len(t) /\ Len(t) \in n..Len(t)
    BY <1>0
  <2> QED  BY ONLY <2>1, t \in Seq(S), ConcatAdjacentSubSeq
<1> QED  BY <1>1, <1>2, <1>3, SubSeqFull

LEMMA Sidedness == /\ Other("client") = "backend" /\ Other("backend") = "client"
                   /\ \A side \in Sides : Other(side) \in Sides /\ Other(Other(side)) = side
<1>1. Other("client") = "backend"  BY DEF Other, Sides
<1>2. Other("backend") = "client"  BY DEF Other, Sides
<1> QED  BY <1>1, <1>2 DEF Sides

-----------------------------------------------------------------------------
(* The invariant.                                                          *)

\* No posted event and no hio_t has the id of a session still to come.
Young(h, p, s) == /\ \A k \in DOMAIN p : p[k][3] <= s
                  /\ \A x \in Fds : h.io[x].id <= s

Rest ==
    /\ posted \in Seq(Posts) /\ Young(Now, posted, sessions)
    /\ sessions \in 0..MaxSessions /\ faults \in 0..MaxFaults /\ reuse \in BOOLEAN

IInv == Good(Now, posted, reuse) /\ Rest

\* Now is a state h, and the handlers compute the next.
LEMMA NowType ==
    ASSUME IInv
    PROVE  /\ Now \in Hs /\ Now.io = io /\ Now.sock = sock /\ Sane(Now)
           /\ io \in [Fds -> Ios] /\ sock \in [Fds -> Socks]
           /\ \A f \in Fds : io[f] \in Ios /\ sock[f] \in Socks
BY DEF IInv, Good, Sane, Hs, Now

LEMMA BecomesNow ==
    ASSUME NEW h \in Hs, Becomes(h)
    PROVE  Now' = h
BY DEF Becomes, Now, Hs

LEMMA StaysYoung ==
    ASSUME IInv, Ids(Now, Now'), sessions' = sessions, NEW p,
           \A k \in DOMAIN p : p[k][3] <= sessions
    PROVE  Young(Now', p, sessions')
<1>1. \A x \in Fds : Now.io[x].id <= sessions  BY DEF IInv, Rest, Young
<1> QED  BY <1>1 DEF Ids, Young

LEMMA CloseIds ==
    ASSUME NEW h \in Hs, NEW f \in Fds
    PROVE  hio_close(h, f) \in Hs /\ Ids(h, hio_close(h, f))
BY CloseView DEF Ids, Kept

\* A step of the kernel or of the peer of f, which only changes the socket.
LEMMA SockKeeps ==
    ASSUME IInv, NEW f \in Fds, NEW k \in Socks,
           sock[f].state # "none", k.state # "none",
           sock' = [sock EXCEPT ![f] = k], UNCHANGED <<io, posted, reuse>>,
           k.out = sock[f].out, Len(k.out) - k.got \in 0..SndBuf,
           \/ k.rx = sock[f].rx /\ k.n = sock[f].n
           \/ /\ k.rx = Append(sock[f].rx, <<io[f].id, io[f].side, sock[f].n + 1>>)
              /\ k.n = sock[f].n + 1
    PROVE  Good(Now', posted', reuse')
<1> DEFINE h == Now
           r == Now'
<1>1. /\ h \in Hs /\ h.io = io /\ h.sock = sock /\ Sane(h)
      /\ io \in [Fds -> Ios] /\ sock \in [Fds -> Socks]
      /\ \A x \in Fds : io[x] \in Ios /\ sock[x] \in Socks
  BY NowType
<1>2. r = [io |-> io, sock |-> [sock EXCEPT ![f] = k]]  BY DEF Now
<1>3. r \in Hs /\ r.io = io /\ r.sock[f] = k /\ \A x \in Fds \ {f} : r.sock[x] = sock[x]
  BY <1>1, <1>2 DEF Hs
<1>4. Good(h, posted, reuse)  BY DEF IInv
<1> HIDE DEF h, r
<1>5. io[f].ready /\ io[f].id \in 1..MaxSessions /\ io[f].side \in Sides
  <2>1. io[f].ready  BY <1>1 DEF Sane, NoSock
  <2>2. io[f].id > 0  BY <1>1, <2>1 DEF Sane
  <2>3. io[f].id \in 0..MaxSessions /\ io[f].side \in Sides  BY <1>1 DEF Ios
  <2> QED  BY <2>1, <2>2, <2>3, UpstreamAssumption
<1>6. Sane(r)
  BY <1>1, <1>3, <1>5 DEF Sane
<1>7. /\ \A x \in Fds : Pair(r, x)
      /\ \A x \in Fds : Doomed(r, posted, x)
  BY <1>1, <1>3, <1>4 DEF Good, Pair, Doomed
<1>8. ASSUME ~reuse, NEW x \in Fds
      PROVE  Link(r, x) /\ Flow(r, x) /\ Live(r, posted, x)
  <2>1. Link(h, x) /\ Flow(h, x) /\ Live(h, posted, x)  BY <1>4, <1>8 DEF Good
  <2>2. Link(r, x)  BY <1>1, <1>3, <2>1 DEF Link
  <2>3. Live(r, posted, x)  BY SMTT(30), <1>1, <1>3, <2>1 DEF Live, Moving
  <2>4. Flow(r, x)
    <3> SUFFICES ASSUME io[x].ready, ~io[x].error  PROVE Flow(r, x)
      BY ZenonT(40), <1>3 DEF Flow
    <3> DEFINE g == io[x].upstream_io
               q == io[x].write_queue
               a == sock[x].out \o q
               id == io[x].id
               d == Other(io[x].side)
    <3>1. /\ a = Stream(id, d, Len(a))
          /\ g # None /\ io[g].ready => a \o sock[g].rx = Stream(id, d, sock[g].n)
      BY <1>1, <2>1 DEF Flow
    <3>2. r.sock[x].out = sock[x].out  BY SMTT(30), <1>3
    <3>3. ASSUME g # None, io[g].ready
          PROVE  a \o r.sock[g].rx = Stream(id, d, r.sock[g].n)
      <4>1. g \in Fds  BY SMTT(30), <1>1, <3>3 DEF Ios
      <4>2. CASE g # f  BY <1>3, <3>1, <3>3, <4>1, <4>2
      <4>3. CASE g = f /\ k.rx = sock[f].rx /\ k.n = sock[f].n  BY <1>3, <3>1, <3>3, <4>3
      <4>4. CASE /\ g = f /\ k.rx = Append(sock[f].rx, <<io[f].id, io[f].side, sock[f].n + 1>>)
                 /\ k.n = sock[f].n + 1
        <5>1. id = io[f].id /\ d = io[f].side  BY <1>1, <2>1, <3>3, <4>4 DEF Link
        <5>2. sock[f].n \in Nat /\ sock[f].rx \in Seq(Bytes) /\ a \in Seq(Bytes)
          BY <1>1, ConcatProperties DEF Ios, Socks
        <5>3. a \o sock[f].rx = Stream(id, d, sock[f].n)  BY <3>1, <3>3, <4>4
        <5> HIDE DEF a, id, d
        <5>4. a \o Append(sock[f].rx, <<id, d, sock[f].n + 1>>) = Stream(id, d, sock[f].n + 1)
          BY <1>5, <5>1, <5>2, <5>3, StreamNext
        <5> QED  BY <1>3, <4>4, <5>1, <5>4
      <4> QED  BY <4>2, <4>3, <4>4
    <3> QED  BY ZenonT(40), <1>3, <3>1, <3>2, <3>3 DEF Flow
  <2> QED  BY <2>2, <2>3, <2>4
<1> QED  BY <1>6, <1>7, <1>8 DEF Good, r

LEMMA PeerKeeps ==
    ASSUME IInv, NEW f \in Fds, Peer(f)
    PROVE  IInv'
<1>1. /\ sock[f] \in Socks /\ sock \in [Fds -> Socks] /\ io[f] \in Ios
      /\ Len(sock[f].out) - sock[f].got \in 0..SndBuf
      /\ io[f].ready => io[f].id > 0
      /\ ~io[f].ready => sock[f].state = "none"
  BY NowType DEF Sane, NoSock
<1>2. faults \in 0..MaxFaults /\ MaxFaults \in Nat /\ SndBuf \in Nat
  BY UpstreamAssumption DEF IInv, Rest, Young, Now
<1>3. \A k \in {"connecting", "open", "eof", "reset"} : k # "none"  OBVIOUS
<1>4. CASE PeerAnswers(f)
  <2> DEFINE k == [sock[f] EXCEPT !.state = "open"]
  <2>1. k \in Socks /\ k.state # "none"  BY <1>1 DEF Socks
  <2>2. k.out = sock[f].out /\ k.got = sock[f].got /\ k.rx = sock[f].rx /\ k.n = sock[f].n
    BY <1>1 DEF Socks
  <2>3. sock' = [sock EXCEPT ![f] = k] /\ UNCHANGED <<io, posted, sessions, faults, reuse>>
    BY <1>1, <1>4 DEF PeerAnswers
  <2>4. sock[f].state # "none"  BY <1>4 DEF PeerAnswers
  <2> HIDE DEF k
  <2>5. Good(Now', posted', reuse')  BY <1>1, <2>1, <2>2, <2>3, <2>4, SockKeeps
  <2> QED  BY <2>3, <2>5 DEF IInv, Rest, Young, Now
<1>5. CASE PeerSends(f)
  <2> DEFINE k == [sock[f] EXCEPT !.n = sock[f].n + 1,
                     !.rx = Append(sock[f].rx, <<io[f].id, io[f].side, sock[f].n + 1>>)]
  <2>0. sock[f].state = "open" /\ io[f].ready  BY <1>1, <1>5 DEF PeerSends
  <2>0a. io[f].id \in 1..MaxSessions /\ io[f].side \in Sides
    <3>1. io[f].id > 0 /\ io[f].id \in 0..MaxSessions /\ io[f].side \in Sides
      BY <1>1, <2>0 DEF Ios
    <3> QED  BY <3>1, UpstreamAssumption
  <2>0b. sock[f].n + 1 \in Nat /\ sock[f].rx \in Seq(Bytes)  BY <1>1 DEF Socks
  <2>0c. <<io[f].id, io[f].side, sock[f].n + 1>> \in Bytes  BY <2>0a, <2>0b DEF Bytes
  <2>0d. Append(sock[f].rx, <<io[f].id, io[f].side, sock[f].n + 1>>) \in Seq(Bytes)
    BY <2>0b, <2>0c, AppendProperties
  <2>1. k \in Socks /\ k.state # "none"  BY <1>1, <2>0, <2>0b, <2>0d DEF Socks
  <2>2. /\ k.out = sock[f].out /\ k.got = sock[f].got /\ k.n = sock[f].n + 1
        /\ k.rx = Append(sock[f].rx, <<io[f].id, io[f].side, sock[f].n + 1>>)
    BY <1>1 DEF Socks
  <2>3. sock' = [sock EXCEPT ![f] = k] /\ UNCHANGED <<io, posted, sessions, faults, reuse>>
    BY <1>1, <1>5 DEF PeerSends
  <2>4. sock[f].state # "none"  BY <2>0
  <2> HIDE DEF k
  <2>5. Good(Now', posted', reuse')  BY <1>1, <2>1, <2>2, <2>3, <2>4, SockKeeps
  <2> QED  BY <2>3, <2>5 DEF IInv, Rest, Young, Now
<1>6. CASE PeerReads(f)
  <2> DEFINE k == [sock[f] EXCEPT !.got = Len(sock[f].out)]
  <2>1. Len(sock[f].out) \in Nat  BY <1>1, LenProperties DEF Socks
  <2>2. k \in Socks  BY <1>1, <2>1 DEF Socks
  <2>3. /\ k.out = sock[f].out /\ k.got = Len(sock[f].out) /\ k.rx = sock[f].rx
        /\ k.n = sock[f].n /\ k.state = sock[f].state
    BY <1>1 DEF Socks
  <2>4. sock' = [sock EXCEPT ![f] = k] /\ UNCHANGED <<io, posted, sessions, faults, reuse>>
    BY <1>1, <1>6 DEF PeerReads
  <2>5. sock[f].state # "none"  BY <1>6 DEF PeerReads
  <2> HIDE DEF k
  <2>6. Len(k.out) - k.got \in 0..SndBuf  BY <1>2, <2>1, <2>3
  <2>7. Good(Now', posted', reuse')  BY <1>1, <2>2, <2>3, <2>4, <2>5, <2>6, SockKeeps
  <2> QED  BY <2>4, <2>7 DEF IInv, Rest, Young, Now
<1>7. CASE PeerEnds(f)
  <2> DEFINE k == [sock[f] EXCEPT !.state = "eof"]
  <2>1. k \in Socks /\ k.state # "none"  BY <1>1 DEF Socks
  <2>2. k.out = sock[f].out /\ k.got = sock[f].got /\ k.rx = sock[f].rx /\ k.n = sock[f].n
    BY <1>1 DEF Socks
  <2>3. sock' = [sock EXCEPT ![f] = k] /\ UNCHANGED <<io, posted, sessions, faults, reuse>>
    BY <1>1, <1>7 DEF PeerEnds
  <2>4. sock[f].state # "none"  BY <1>7 DEF PeerEnds
  <2> HIDE DEF k
  <2>5. Good(Now', posted', reuse')  BY <1>1, <2>1, <2>2, <2>3, <2>4, SockKeeps
  <2> QED  BY <2>3, <2>5 DEF IInv, Rest, Young, Now
<1>8. CASE PeerResets(f)
  <2> DEFINE k == [sock[f] EXCEPT !.state = "reset"]
  <2>1. k \in Socks /\ k.state # "none"  BY <1>1 DEF Socks
  <2>2. k.out = sock[f].out /\ k.got = sock[f].got /\ k.rx = sock[f].rx /\ k.n = sock[f].n
    BY <1>1 DEF Socks
  <2>3. sock' = [sock EXCEPT ![f] = k] /\ UNCHANGED <<io, posted, sessions, reuse>>
    BY <1>1, <1>8 DEF PeerResets
  <2>4. sock[f].state # "none" /\ faults' \in 0..MaxFaults
    BY <1>2, <1>8 DEF PeerResets, Fault
  <2> HIDE DEF k
  <2>5. Good(Now', posted', reuse')  BY <1>1, <2>1, <2>2, <2>3, <2>4, SockKeeps
  <2> QED  BY <2>3, <2>4, <2>5 DEF IInv, Rest, Young, Now
<1> QED  BY <1>4, <1>5, <1>6, <1>7, <1>8 DEF Peer

-----------------------------------------------------------------------------
(* Timers, and the end of a connect.                                       *)

LEMMA TimersKeep ==
    ASSUME IInv, NEW f \in Fds, connect_timeout_cb(f) \/ close_timeout_cb(f)
    PROVE  IInv'
<1>1. Good(Now, posted, reuse)  BY DEF IInv
<1> DEFINE h == [Now EXCEPT !.io[f].error = TRUE]
<1>2. Good(hio_close(h, f), posted, reuse) /\ h \in Hs /\ Ids(Now, hio_close(h, f))
  BY <1>1, ErrorCloses
<1> HIDE DEF h
<1>3. hio_close(h, f) \in Hs  BY <1>2, CloseView
<1>4. Becomes(hio_close(h, f)) /\ UNCHANGED <<posted, sessions, reuse>>
  BY DEF connect_timeout_cb, close_timeout_cb, TimedOut, h
<1>5. Now' = hio_close(h, f)  BY <1>3, <1>4, BecomesNow
<1>6. faults' \in 0..MaxFaults
  BY UpstreamAssumption DEF connect_timeout_cb, close_timeout_cb, Fault, IInv, Rest
<1>7. \A k \in DOMAIN posted : posted[k][3] <= sessions  BY DEF IInv, Rest, Young
<1>8. Young(Now', posted, sessions')  BY <1>2, <1>4, <1>5, <1>7, StaysYoung
<1> QED  BY <1>2, <1>4, <1>5, <1>6, <1>8 DEF IInv, Rest

\* connect_cb, or the close of a session that failed to connect: the side g,
\* which is open, is no longer connecting in h.
LEMMA ConnectGood ==
    ASSUME NEW h, NEW p, NEW u, NEW g \in Fds, Nearly(h, p, u, g), h.io[g].ready,
           \A x \in Fds : Pair(h, x), nio_connect(h, g)
    PROVE  Good(Now', p, u) /\ Ids(h, Now')
<1>1. h \in Hs /\ Sane(h)  BY DEF Nearly, Sane
<1>2. CASE Failed(sock[g])
  <2> DEFINE k == [h EXCEPT !.io[g].error = TRUE]
  <2>1. Good(hio_close(k, g), p, u) /\ k \in Hs /\ Ids(h, hio_close(k, g))  BY ErrorCloses
  <2>2. Becomes(hio_close(k, g))  BY <1>2 DEF nio_connect
  <2> HIDE DEF k
  <2>3. hio_close(k, g) \in Hs  BY <2>1, CloseView
  <2> QED  BY <2>1, <2>2, <2>3, BecomesNow
<1>3. CASE ~Failed(sock[g])
  <2> DEFINE f == h.io[g].upstream_io
  <2>1. f \in Fds \cup {None} /\ f # g  BY <1>1 DEF Sane, Hs, Ios
  <2>2. CASE f = None
    <3>1. Now' = h  BY <1>1, <1>3, <2>2, BecomesNow DEF nio_connect
    <3>2. ASSUME NEW x \in Fds, ~u  PROVE Live(h, p, x)
      <4>1. Link(h, x)  BY <3>2 DEF Nearly
      <4>2. x # None  BY UpstreamAssumption DEF None
      <4>3. CASE x = g  BY <2>2, <4>3 DEF Live
      <4>4. CASE h.io[x].upstream_io = g
        <5>1. g # None  BY UpstreamAssumption DEF None
        <5>2. h.io[x].ready => h.io[g].upstream_io = x  BY <4>1, <4>4, <5>1 DEF Link
        <5>3. ~h.io[x].ready  BY <2>2, <4>2, <5>2
        <5> QED  BY <5>3 DEF Live
      <4> QED  BY <3>2, <4>3, <4>4 DEF Nearly
    <3> QED  BY <3>1, <3>2 DEF Nearly, Good, Ids
  <2>3. CASE f # None
    <3> DEFINE r == [h EXCEPT !.io[g].connect_timer = FALSE,
                              !.io[g].reading = h.io[g].ready,
                              !.io[f].reading = h.io[f].ready]
               ig == [h.io[g] EXCEPT !.connect_timer = FALSE, !.reading = h.io[g].ready]
               if == [h.io[f] EXCEPT !.reading = h.io[f].ready]
    <3>0. Becomes(r)  BY <1>3, <2>3 DEF nio_connect
    <3>1. f \in Fds /\ h.io \in [Fds -> Ios] /\ h.io[g] \in Ios /\ h.io[f] \in Ios
      BY <1>1, <2>1, <2>3 DEF Hs
    <3>2. ig \in Ios /\ if \in Ios  BY <3>1 DEF Ios
    <3>3. r = [h EXCEPT !.io = [h.io EXCEPT ![g] = ig, ![f] = if]]
      BY <1>1, <2>1, <3>1 DEF Hs
    <3>4. r \in Hs  BY <1>1, <3>1, <3>2, <3>3 DEF Hs
    <3>5. /\ r.io[g] = ig /\ r.io[f] = if /\ r.sock = h.sock
          /\ \A x \in Fds \ {f, g} : r.io[x] = h.io[x]
      BY <1>1, <2>1, <3>1, <3>3 DEF Hs
    <3> HIDE DEF r
    <3>6. ASSUME NEW x \in Fds
          PROVE  Same(h, r, x) /\ Waiting(h, r, x)
      <4>1. CASE x = f  BY <3>1, <3>5, <4>1 DEF Same, Waiting, Ios
      <4>2. CASE x = g  BY ZenonT(40), <3>1, <3>5, <4>2 DEF Same, Waiting, Ios
      <4>3. CASE x \notin {f, g}  BY <3>5, <4>3 DEF Same, Waiting
      <4> QED  BY <4>1, <4>2, <4>3
    <3>7. ASSUME ~u, NEW x \in Fds  PROVE Live(r, p, x)
      <4>1. (r.io[g].reading <=> r.io[g].ready) /\ (r.io[f].reading <=> r.io[f].ready)
        BY <3>1, <3>5 DEF Ios
      <4>2. CASE x \in {f, g}  BY <4>1, <4>2 DEF Live
      <4>3. CASE x \notin {f, g}
        <5> DEFINE y == h.io[x].upstream_io
        <5>1. r.io[x] = h.io[x]  BY <3>5, <4>3
        <5>2. CASE ~h.io[x].ready \/ y = None  BY <5>1, <5>2 DEF Live
        <5>3. CASE h.io[x].ready /\ y # None
          <6>1. y \in Fds  BY <1>1, <5>3 DEF Hs, Ios
          <6>2. h.io[y].upstream_io = x  BY <3>7, <5>3 DEF Nearly, Link
          <6>3. y # g  BY <4>3, <6>2
          <6>4. Live(h, p, x)  BY <3>7, <4>3, <6>3 DEF Nearly
          <6>5. /\ (r.io[y].ready <=> h.io[y].ready) /\ r.io[y].write_queue = h.io[y].write_queue
                /\ (r.io[y].write_cb <=> h.io[y].write_cb) /\ r.io[y].id = h.io[y].id
                /\ (r.io[y].connect <=> h.io[y].connect)
                /\ (r.io[y].connect_timer <=> h.io[y].connect_timer)
            <7>1. CASE y = f
              <8>1. r.io[y] = if /\ h.io[y] = h.io[f]  BY <3>5, <7>1
              <8> HIDE DEF y
              <8>2. r.io[y] = [h.io[y] EXCEPT !.reading = h.io[f].ready] /\ h.io[y] \in Ios
                BY <3>1, <8>1
              <8> QED  BY <8>2 DEF Ios
            <7>2. CASE y # f
              <8>1. y \in Fds \ {f, g}  BY <6>1, <6>3, <7>2
              <8>2. r.io[y] = h.io[y]  BY <3>5, <8>1
              <8> QED  BY <8>2
            <7> QED  BY <7>1, <7>2
          <6>6. Moving(h, p, y) => Moving(r, p, y)  BY <6>5 DEF Moving
          <6>7. Moving(h, p, x) => Moving(r, p, x)  BY <5>1 DEF Moving
          <6> QED  BY <5>1, <6>4, <6>5, <6>6, <6>7 DEF Live
        <5> QED  BY <5>2, <5>3
      <4> QED  BY <4>2, <4>3
    <3>8. Good(r, p, u)
      BY <1>1, <3>4, <3>6, <3>7, SameKeeps DEF Nearly, Good
    <3>9. Ids(h, r)  BY <3>6 DEF Ids, Same
    <3> QED  BY <3>0, <3>4, <3>8, <3>9, BecomesNow
  <2> QED  BY <2>1, <2>2, <2>3
<1> QED  BY <1>2, <1>3

LEMMA ConnectKeeps ==
    ASSUME IInv, NEW g \in Fds, HandleConnect(g)
    PROVE  IInv'
<1> DEFINE r == [Now EXCEPT !.io[g].connect = FALSE]
<1>1. /\ Now \in Hs /\ Now.io = io /\ Now.sock = sock /\ Sane(Now)
      /\ io \in [Fds -> Ios] /\ io[g] \in Ios
  BY NowType
<1>2. r = [Now EXCEPT !.io = [io EXCEPT ![g] = [io[g] EXCEPT !.connect = FALSE]]]
  BY <1>1 DEF Hs
<1>3. [io[g] EXCEPT !.connect = FALSE] \in Ios  BY <1>1 DEF Ios
<1>4. r \in Hs  BY <1>1, <1>2, <1>3 DEF Hs
<1>5. /\ r.sock = sock /\ r.io[g] = [io[g] EXCEPT !.connect = FALSE]
      /\ \A x \in Fds \ {g} : r.io[x] = io[x]
  BY <1>1, <1>2 DEF Hs
<1>6. /\ nio_connect(r, g) /\ io[g].ready
      /\ UNCHANGED <<posted, sessions, faults, reuse>>
  BY DEF HandleConnect
<1> HIDE DEF r
<1>7. \A x \in Fds : Same(Now, r, x) /\ Waiting(Now, r, x)
  <2> SUFFICES ASSUME NEW x \in Fds  PROVE Same(Now, r, x) /\ Waiting(Now, r, x)
    OBVIOUS
  <2>1. CASE x = g  BY <1>1, <1>5, <2>1 DEF Ios, Same, Waiting
  <2>2. CASE x # g  BY <1>1, <1>5, <2>2 DEF Same, Waiting
  <2> QED  BY <2>1, <2>2
<1>8. Good(Now, posted, reuse)  BY DEF IInv
<1>9. /\ Sane(r) /\ \A x \in Fds : Pair(r, x)
      /\ \A x \in Fds : Doomed(r, posted, x)
      /\ ~reuse => (\A x \in Fds : Link(r, x)) /\ (\A x \in Fds : Flow(r, x))
  BY <1>1, <1>4, <1>7, <1>8, SameKeeps DEF Good
<1>10. ASSUME ~reuse, NEW x \in Fds, x # g, r.io[x].upstream_io # g
       PROVE  Live(r, posted, x)
  <2>1. Live(Now, posted, x)  BY <1>8, <1>10 DEF Good
  <2>2. r.io[x] = io[x]  BY <1>5, <1>10
  <2> DEFINE y == io[x].upstream_io
  <2>3. y # None => y \in Fds /\ r.io[y] = io[y]
    <3>1. y \in Fds \cup {None}  BY NowType DEF Ios
    <3> QED  BY <1>5, <1>10, <2>2, <3>1
  <2> QED  BY <1>1, <2>1, <2>2, <2>3 DEF Live, Moving
<1>11. Nearly(r, posted, reuse, g)  BY <1>9, <1>10 DEF Nearly
<1>12. r.io[g].ready  BY <1>1, <1>5, <1>6 DEF Ios
<1>13. Good(Now', posted, reuse) /\ Ids(r, Now')  BY <1>6, <1>9, <1>11, <1>12, ConnectGood
<1>14. Ids(Now, Now')  BY <1>7, <1>13 DEF Ids, Same
<1>15. \A k \in DOMAIN posted : posted[k][3] <= sessions  BY DEF IInv, Rest, Young
<1>16. Young(Now', posted, sessions')  BY <1>6, <1>14, <1>15, StaysYoung
<1> QED  BY <1>6, <1>13, <1>16 DEF IInv, Rest

LEMMA PopIn ==
    ASSUME NEW p \in Seq(Posts), p # << >>
    PROVE  /\ Head(p) \in Posts /\ Tail(p) \in Seq(Posts) /\ In(p, Head(p))
           /\ \A e : In(Tail(p), e) => In(p, e)
           /\ \A e : In(p, e) /\ e # Head(p) => In(Tail(p), e)
<1>1. /\ Head(p) \in Posts /\ Tail(p) \in Seq(Posts) /\ Len(Tail(p)) = Len(p) - 1
      /\ \A i \in 1 .. Len(Tail(p)) : Tail(p)[i] = p[i + 1]
      /\ DOMAIN p = 1..Len(p) /\ DOMAIN Tail(p) = 1..Len(Tail(p)) /\ Len(p) \in Nat \ {0}
      /\ Head(p) = p[1]
  BY HeadTailProperties, LenProperties, EmptySeq
<1>2. In(p, Head(p))  BY <1>1 DEF In
<1>3. ASSUME NEW e, In(Tail(p), e)  PROVE In(p, e)
  <2>1. PICK i \in 1..(Len(p) - 1) : Tail(p)[i] = e  BY <1>1, <1>3 DEF In
  <2>2. i + 1 \in 1..Len(p) /\ p[i + 1] = e  BY <1>1, <2>1
  <2> QED  BY <1>1, <2>2 DEF In
<1>4. ASSUME NEW e, In(p, e), e # Head(p)  PROVE In(Tail(p), e)
  <2>1. PICK i \in 1..Len(p) : p[i] = e  BY <1>1, <1>4 DEF In
  <2>2. i # 1  BY <1>1, <1>4, <2>1
  <2>3. i - 1 \in 1..Len(Tail(p)) /\ (i - 1) + 1 = i  BY <1>1, <2>2
  <2>4. Tail(p)[i - 1] = e  BY <1>1, <2>1, <2>3
  <2> QED  BY <1>1, <2>3, <2>4 DEF In
<1> QED  BY <1>1, <1>2, <1>3, <1>4

LEMMA AppendIn ==
    ASSUME NEW p \in Seq(Posts), NEW d \in Posts
    PROVE  /\ Append(p, d) \in Seq(Posts) /\ In(Append(p, d), d)
           /\ \A e : In(Append(p, d), e) <=> In(p, e) \/ e = d
<1>1. /\ Append(p, d) \in Seq(Posts) /\ Len(Append(p, d)) = Len(p) + 1
      /\ \A i \in 1..Len(p) : Append(p, d)[i] = p[i]
      /\ Append(p, d)[Len(p) + 1] = d
      /\ DOMAIN p = 1..Len(p) /\ DOMAIN Append(p, d) = 1..(Len(p) + 1) /\ Len(p) \in Nat
  BY AppendProperties, LenProperties
<1>2. In(Append(p, d), d)  BY <1>1 DEF In
<1>3. ASSUME NEW e, In(p, e)  PROVE In(Append(p, d), e)
  <2>1. PICK i \in 1..Len(p) : p[i] = e  BY <1>1, <1>3 DEF In
  <2>2. i \in 1..(Len(p) + 1) /\ Append(p, d)[i] = e  BY <1>1, <2>1
  <2> QED  BY <1>1, <2>2 DEF In
<1>4. ASSUME NEW e, In(Append(p, d), e), e # d  PROVE In(p, e)
  <2>1. PICK i \in 1..(Len(p) + 1) : Append(p, d)[i] = e  BY <1>1, <1>4 DEF In
  <2>2. i # Len(p) + 1  BY <1>1, <1>4, <2>1
  <2>3. i \in 1..Len(p)  BY <1>1, <2>2
  <2> QED  BY <1>1, <2>1, <2>3 DEF In
<1> QED  BY <1>1, <1>2, <1>3, <1>4

\* The posted events: a stale one does nothing, a close is of a side that
\* has an error, and falls.
LEMMA PostedKeeps ==
    ASSUME IInv, RunPosted
    PROVE  IInv'
<1> DEFINE p == Tail(posted)
           e == Head(posted)
           b == e[2]
<1>1. posted \in Seq(Posts) /\ posted # << >>  BY DEF IInv, Rest, RunPosted
<1>2. /\ e \in Posts /\ p \in Seq(Posts) /\ In(posted, e)
      /\ \A d : In(p, d) => In(posted, d)
      /\ \A d : In(posted, d) /\ d # e => In(p, d)
  BY <1>1, PopIn
<1>3. b \in Fds /\ e[1] \in {"hio_close", "nio_connect"} /\ e = <<e[1], b, e[3]>>
  BY <1>2 DEF Posts
<1>4. /\ Now \in Hs /\ Now.io = io /\ Now.sock = sock /\ Sane(Now) /\ io[b] \in Ios
      /\ \A x \in Fds : io[x] \in Ios
  BY <1>3, NowType
<1>5. Good(Now, posted, reuse)  BY DEF IInv
<1>6. /\ posted' = p /\ UNCHANGED <<sessions, faults, reuse>>
      /\ IF io[b].id # e[3] \/ ~io[b].ready THEN UNCHANGED <<io, sock>>
         ELSE IF e[1] = "nio_connect" THEN nio_connect(Now, b)
         ELSE Becomes(hio_close(Now, b))
  BY DEF RunPosted
<1>7. \A k \in DOMAIN p : p[k][3] <= sessions
  <2> SUFFICES ASSUME NEW k \in DOMAIN p  PROVE p[k][3] <= sessions
    OBVIOUS
  <2>1. In(p, p[k])  BY DEF In
  <2>2. In(posted, p[k])  BY <1>2, <2>1
  <2>3. PICK j \in DOMAIN posted : posted[j] = p[k]  BY <2>2 DEF In
  <2>4. posted[j][3] <= sessions  BY DEF IInv, Rest, Young
  <2> QED  BY <2>3, <2>4
<1> HIDE DEF p, e, b
<1>8. \A x \in Fds : Doomed(Now, p, x)  BY <1>2, <1>5 DEF Good, Doomed
<1>9. ASSUME NEW x \in Fds, Live(Now, posted, x), x # b, io[x].upstream_io # b
      PROVE  Live(Now, p, x)
  <2> DEFINE y == io[x].upstream_io
  <2>1. \A z \in {x, y} : Moving(Now, posted, z) => Moving(Now, p, z)
    <3> SUFFICES ASSUME NEW z \in {x, y}, Moving(Now, posted, z)  PROVE Moving(Now, p, z)
      OBVIOUS
    <3>1. \A kind : <<kind, z, io[z].id>> # e  BY <1>3, <1>9
    <3> QED  BY <1>2, <1>4, <3>1 DEF Moving
  <2> QED  BY <1>4, <1>9, <2>1 DEF Live
<1>10. Nearly(Now, p, reuse, b)
  BY <1>4, <1>5, <1>8, <1>9 DEF Good, Nearly
<1>11. Good(Now', p, reuse) /\ Ids(Now, Now')
  <2>1. CASE io[b].id # e[3] \/ ~io[b].ready
    <3>1. Now' = Now  BY <1>6, <2>1 DEF Now
    <3>2. ASSUME NEW x \in Fds, ~reuse  PROVE Live(Now, p, x)
      <4>1. Live(Now, posted, x)  BY <1>5, <3>2 DEF Good
      <4> DEFINE y == io[x].upstream_io
      <4> SUFFICES ASSUME io[x].ready, y # None, io[y].ready, ~io[x].reading
                   PROVE  \/ io[y].write_queue # << >> /\ io[y].write_cb
                          \/ Moving(Now, p, x) \/ Moving(Now, p, y)
        BY <1>4 DEF Live
      <4>2. \A z \in {x, y} : \A kind : <<kind, z, io[z].id>> # e
        <5> SUFFICES ASSUME NEW z \in {x, y}, NEW kind, <<kind, z, io[z].id>> = e  PROVE FALSE
          OBVIOUS
        <5>1. z = b /\ io[z].id = e[3]  BY <1>3
        <5>2. io[z].ready  OBVIOUS
        <5> QED  BY <2>1, <5>1, <5>2
      <4>3. \A z \in {x, y} : Moving(Now, posted, z) => Moving(Now, p, z)
        BY <1>2, <1>4, <4>2 DEF Moving
      <4> QED  BY <1>4, <4>1, <4>3 DEF Live
    <3> QED  BY <1>5, <1>8, <3>1, <3>2 DEF Good, Ids
  <2>2. CASE io[b].id = e[3] /\ io[b].ready /\ e[1] = "nio_connect"
    <3>1. nio_connect(Now, b)  BY <1>6, <2>2
    <3>2. \A x \in Fds : Pair(Now, x)  BY <1>5 DEF Good
    <3> QED  BY <1>3, <1>4, <1>10, <2>2, <3>1, <3>2, ConnectGood
  <2>3. CASE io[b].id = e[3] /\ io[b].ready /\ e[1] # "nio_connect"
    <3>1. Becomes(hio_close(Now, b))  BY <1>6, <2>3
    <3>2. e = <<"hio_close", b, io[b].id>>  BY <1>3, <2>3
    <3>3. io[b].error  BY <1>2, <1>3, <1>4, <1>5, <2>3, <3>2 DEF Good, Doomed
    <3>4. Falls(io[b])  BY <2>3, <3>3 DEF Falls, CloseLater
    <3>5. Good(hio_close(Now, b), p, reuse)  BY <1>3, <1>4, <1>10, <3>4, CloseRepairs
    <3>6. hio_close(Now, b) \in Hs /\ Ids(Now, hio_close(Now, b))  BY <1>3, <1>4, CloseIds
    <3> QED  BY <3>1, <3>5, <3>6, BecomesNow
  <2> QED  BY <2>1, <2>2, <2>3
<1>12. Young(Now', p, sessions')  BY <1>6, <1>7, <1>11, StaysYoung
<1> QED  BY <1>2, <1>6, <1>11, <1>12 DEF IInv, Rest

-----------------------------------------------------------------------------
(* A new session.                                                          *)

LEMMA LeastNat ==
    ASSUME NEW T \in SUBSET Nat, T # {}
    PROVE  \E x \in T : \A y \in T : x <= y
<1> DEFINE B == {q \in Nat \X Nat : q[1] < q[2]}
<1>1. IsWellFoundedOn(B, Nat)  BY NatLessThanWellFounded DEF OpToRel
<1>2. PICK x \in T : \A y \in T : ~(<<y, x>> \in B)  BY <1>1, WFMin
<1>3. \A y \in T : ~(y < x)  BY <1>2
<1> QED  BY <1>3

LEMMA LowestFree ==
    ASSUME NEW S \in SUBSET Fds, S # {}
    PROVE  Lowest(S) \in S
<1>1. S \in SUBSET Nat  BY UpstreamAssumption
<1>2. \E x \in S : \A y \in S : x <= y  BY <1>1, LeastNat
<1> QED  BY <1>2 DEF Lowest

\* The two sides of a session as they begin: f's peer is connected, g is
\* connecting, connected or has failed.
Begins(r, f, s, side, up) ==
    /\ r.io[f].ready /\ r.io[f].id = s /\ r.io[f].side = side /\ r.io[f].upstream_io = up
    /\ r.io[f].write_queue = << >> /\ r.sock[f].out = << >> /\ r.sock[f].got = 0
    /\ r.sock[f].rx = << >> /\ r.sock[f].n = 0 /\ r.sock[f].state # "none"

LEMMA FreshFlow ==
    ASSUME NEW r, NEW f, NEW s \in 1..MaxSessions, NEW side \in Sides, NEW up,
           Begins(r, f, s, side, up), up # None => r.sock[up].rx = << >> /\ r.sock[up].n = 0
    PROVE  Flow(r, f)
<1>1. << >> \o << >> = << >> /\ Len(<< >>) = 0 /\ << >> \in Seq(Bytes)
  BY ConcatEmptySeq, EmptySeq
<1>2. Stream(s, Other(side), 0) = << >>
  <2>1. Stream(s, Other(side), 0) \in Seq(Bytes) /\ Len(Stream(s, Other(side), 0)) = 0
    BY Sidedness, StreamType
  <2> QED  BY <2>1, EmptySeq
<1>3. r.sock[f].out \o r.io[f].write_queue = << >>  BY <1>1 DEF Begins
<1> QED  BY <1>1, <1>2, <1>3 DEF Begins, Flow

\* All the sides N of a session s,
Starts(r, p, s, N) ==
    \A x \in N : /\ \E side \in Sides : Begins(r, x, s, side, r.io[x].upstream_io)
                 /\ LET y == r.io[x].upstream_io IN
                    y # None => /\ y \in N \ {x} /\ r.io[y].upstream_io = x
                                /\ r.io[y].side = Other(r.io[x].side)
                                /\ Moving(r, p, x) \/ Moving(r, p, y)

\* of which one may have an event posted.
Announces(r, p, s, N) ==
    \/ p = posted
    \/ \E e \in Posts : /\ p = Append(posted, e) /\ e[2] \in N /\ e[3] = s
                        /\ e[1] = "hio_close" => r.io[e[2]].error

\* The other sides are what they were.
LEMMA NewSession ==
    ASSUME IInv, NEW s, s = sessions + 1, s <= MaxSessions,
           NEW N \in SUBSET Fds, NEW r \in Hs, NEW p,
           \A x \in N : ~io[x].ready,
           ~reuse => \A x \in N : \A y \in Fds : io[y].ready => io[y].upstream_io # x,
           \A x \in Fds \ N : r.io[x] = io[x] /\ r.sock[x] = sock[x],
           Starts(r, p, s, N), Announces(r, p, s, N)
    PROVE  Good(r, p, reuse) /\ p \in Seq(Posts) /\ Young(r, p, s)
<1> USE DEF Starts, Announces
<1>1. /\ Now \in Hs /\ Now.io = io /\ Now.sock = sock /\ Sane(Now)
      /\ \A x \in Fds : io[x] \in Ios /\ sock[x] \in Socks
      /\ Good(Now, posted, reuse)
  BY NowType DEF IInv
<1>2. /\ sessions \in Nat /\ s \in 1..MaxSessions /\ SndBuf \in Nat /\ 0 \notin Fds
      /\ posted \in Seq(Posts) /\ \A k \in DOMAIN posted : posted[k][3] <= sessions
  BY UpstreamAssumption DEF IInv, Rest, Young
<1>3. \A x \in Fds : r.io[x] \in Ios /\ r.sock[x] \in Socks  BY DEF Hs
<1>4. \A d : In(posted, d) => d[3] <= sessions  BY <1>2 DEF In
<1>5. /\ p \in Seq(Posts)
      /\ \A d : In(posted, d) => In(p, d)
      /\ \A d : In(p, d) => \/ In(posted, d)
                            \/ d[2] \in N /\ d[3] = s /\ (d[1] = "hio_close" => r.io[d[2]].error)
  <2>1. CASE p = posted  BY <1>2, <2>1
  <2>2. CASE \E e \in Posts : /\ p = Append(posted, e) /\ e[2] \in N /\ e[3] = s
                              /\ e[1] = "hio_close" => r.io[e[2]].error
    <3>1. PICK e \in Posts : /\ p = Append(posted, e) /\ e[2] \in N /\ e[3] = s
                             /\ e[1] = "hio_close" => r.io[e[2]].error
      BY <2>2
    <3>2. /\ Append(posted, e) \in Seq(Posts)
          /\ \A d : In(Append(posted, e), d) <=> In(posted, d) \/ d = e
      BY <1>2, AppendIn
    <3> QED  BY <3>1, <3>2
  <2> QED  BY <2>1, <2>2
<1>6. \A k \in DOMAIN p : p[k][3] <= s
  <2> SUFFICES ASSUME NEW k \in DOMAIN p  PROVE p[k][3] <= s
    OBVIOUS
  <2>1. In(p, p[k])  BY DEF In
  <2>2. CASE In(posted, p[k])
    <3>1. PICK j \in DOMAIN posted : posted[j] = p[k]  BY <2>2 DEF In
    <3>2. posted[j] \in Posts  BY <1>2, ElementOfSeq, LenProperties
    <3>3. p[k][3] \in Nat /\ p[k][3] <= sessions  BY <1>2, <3>1, <3>2, UpstreamAssumption DEF Posts
    <3> QED  BY <1>2, <3>3
  <2>3. CASE p[k][3] = s  BY <1>2, <2>3
  <2> QED  BY <1>5, <2>1, <2>2, <2>3
<1>7. \A x \in N : /\ r.io[x].ready /\ r.io[x].id = s /\ r.sock[x].state # "none"
                   /\ Len(r.sock[x].out) - r.sock[x].got = 0
                   /\ r.io[x].upstream_io # x
  <2> SUFFICES ASSUME NEW x \in N
               PROVE  /\ r.io[x].ready /\ r.io[x].id = s /\ r.sock[x].state # "none"
                      /\ Len(r.sock[x].out) - r.sock[x].got = 0
                      /\ r.io[x].upstream_io # x
    OBVIOUS
  <2>1. x # None  BY <1>2 DEF None
  <2>2. r.sock[x].out = << >> /\ r.sock[x].got = 0  BY DEF Begins
  <2> QED  BY <2>1, <2>2 DEF Begins
<1>8. Sane(r)
  <2> SUFFICES ASSUME NEW x \in Fds
               PROVE  /\ r.io[x].ready => r.io[x].id > 0 /\ r.sock[x].state # "none"
                      /\ ~r.io[x].ready => r.sock[x] = NoSock
                      /\ Len(r.sock[x].out) - r.sock[x].got \in 0..SndBuf
                      /\ r.io[x].upstream_io # x
    BY DEF Sane
  <2>1. CASE x \in N  BY <1>2, <1>7, <2>1
  <2>2. CASE x \notin N  BY <1>1, <2>2 DEF Sane
  <2> QED  BY <2>1, <2>2
<1>9. \A x \in Fds : Pair(r, x)
  <2> SUFFICES ASSUME NEW x \in Fds  PROVE Pair(r, x)
    OBVIOUS
  <2>1. CASE x \in N  BY <1>7, <2>1 DEF Pair
  <2>2. CASE x \notin N
    <3>1. Pair(Now, x) /\ r.io[x] = io[x]  BY <1>1, <2>2 DEF Good
    <3> DEFINE y == io[x].upstream_io
    <3>2. y # None => y \in Fds  BY <1>1 DEF Ios
    <3>3. CASE y \in N  BY <1>1, <3>1, <3>3 DEF Pair
    <3>4. CASE y \notin N /\ y # None
      <4>1. r.io[y] = io[y]  BY <3>2, <3>4
      <4> QED  BY <1>1, <3>1, <4>1 DEF Pair
    <3>5. CASE y = None  BY <3>1, <3>5 DEF Pair
    <3> QED  BY <3>3, <3>4, <3>5
  <2> QED  BY <2>1, <2>2
<1>10. \A x \in Fds : Doomed(r, p, x)
  <2> SUFFICES ASSUME NEW x \in Fds, r.io[x].ready, In(p, <<"hio_close", x, r.io[x].id>>)
               PROVE  r.io[x].error
    BY DEF Doomed
  <2>1. \/ In(posted, <<"hio_close", x, r.io[x].id>>)
        \/ x \in N /\ r.io[x].error
    BY <1>5
  <2>2. CASE x \in N
    <3>1. ~ In(posted, <<"hio_close", x, s>>)  BY <1>2, <1>4
    <3> QED  BY <1>7, <2>1, <2>2, <3>1
  <2>3. CASE x \notin N  BY <1>1, <2>1, <2>3 DEF Good, Doomed
  <2> QED  BY <2>2, <2>3
<1>11. ASSUME ~reuse, NEW x \in Fds
       PROVE  Link(r, x) /\ Flow(r, x) /\ Live(r, p, x)
  <2>1. CASE x \in N
    <3> DEFINE y == r.io[x].upstream_io
    <3>1. PICK side \in Sides : Begins(r, x, s, side, y)  BY <2>1
    <3>2. y # None => r.sock[y].rx = << >> /\ r.sock[y].n = 0  BY <2>1 DEF Begins
    <3>3. Flow(r, x)
      <4> HIDE DEF y
      <4> QED  BY <1>2, <3>1, <3>2, FreshFlow
    <3>4. Link(r, x)  BY <1>7, <2>1 DEF Link
    <3>5. Live(r, p, x)  BY <2>1 DEF Live
    <3> QED  BY <3>3, <3>4, <3>5
  <2>2. CASE x \notin N
    <3>1. /\ Link(Now, x) /\ Flow(Now, x) /\ Live(Now, posted, x)
          /\ r.io[x] = io[x] /\ r.sock[x] = sock[x]
      BY SMTT(30), <1>1, <1>11, <2>2 DEF Good
    <3> DEFINE y == io[x].upstream_io
    <3>2. CASE ~io[x].ready  BY <3>1, <3>2 DEF Link, Flow, Live
    <3>3. CASE io[x].ready /\ y = None  BY <1>1, <3>1, <3>3 DEF Link, Flow, Live
    <3>4. CASE io[x].ready /\ y # None
      <4>1. y \in Fds  BY <1>1, <3>4 DEF Ios
      <4>2. y \notin N  BY <1>11, <3>4
      <4>3. r.io[y] = io[y] /\ r.sock[y] = sock[y]  BY <4>1, <4>2
      <4>4. \A z \in {x, y} : Moving(Now, posted, z) => Moving(r, p, z)
        BY ZenonT(40), <1>1, <1>5, <3>1, <4>3 DEF Moving
      <4>5. Link(r, x)  BY <1>1, <3>1, <4>3 DEF Link
      <4>6. Flow(r, x)
        <5>1. /\ Now.io[x] = r.io[x] /\ Now.sock[x] = r.sock[x]
              /\ Now.io[y] = r.io[y] /\ Now.sock[y] = r.sock[y]
              /\ y = r.io[x].upstream_io
          BY <1>1, <3>1, <4>3
        <5> HIDE DEF y
        <5>2. Flow(Now, x)  BY <3>1
        <5> QED  BY ONLY <5>1, <5>2 DEF Flow
      <4>7. Live(r, p, x)  BY <1>1, <3>1, <4>3, <4>4 DEF Live
      <4> QED  BY <4>5, <4>6, <4>7
    <3> QED  BY <3>2, <3>3, <3>4
  <2> QED  BY <2>1, <2>2
<1>12. \A x \in Fds : r.io[x].id <= s
  <2> SUFFICES ASSUME NEW x \in Fds  PROVE r.io[x].id <= s
    OBVIOUS
  <2>1. CASE x \in N  BY <1>2, <1>7, <2>1
  <2>2. CASE x \notin N
    <3>1. r.io[x] = io[x] /\ io[x].id \in Nat  BY <1>1, <2>2, UpstreamAssumption DEF Ios
    <3>2. io[x].id <= sessions  BY <1>1 DEF IInv, Rest, Young
    <3> QED  BY <1>2, <3>1, <3>2
  <2> QED  BY <2>1, <2>2
<1> QED  BY <1>5, <1>6, <1>8, <1>9, <1>10, <1>11, <1>12 DEF Good, Young

LEMMA FreshParts ==
    /\ NoIo \in Ios /\ ~NoIo.ready /\ NoIo.upstream_io = None /\ NoIo.write_queue = << >>
    /\ \A st \in {"connecting", "open", "reset"} : \A k : k = [NoSock EXCEPT !.state = st] =>
         /\ k \in Socks /\ k.out = << >> /\ k.got = 0 /\ k.rx = << >> /\ k.n = 0
         /\ k.state = st /\ k.state # "none"
<1>1. 0 \in 0..MaxSessions  BY UpstreamAssumption
<1>2. << >> \in Seq(Bytes)  OBVIOUS
<1>3. "client" \in Sides /\ None \in Fds \cup {None}  BY DEF Sides
<1>4. NoIo \in Ios  BY <1>1, <1>2, <1>3 DEF NoIo, Ios
<1>5. ~NoIo.ready /\ NoIo.upstream_io = None /\ NoIo.write_queue = << >>  BY DEF NoIo
<1>6. /\ NoSock \in Socks /\ NoSock.out = << >> /\ NoSock.got = 0
      /\ NoSock.rx = << >> /\ NoSock.n = 0
  BY <1>2 DEF NoSock, Socks
<1> QED  BY <1>4, <1>5, <1>6 DEF Socks

LEMMA AcceptKeeps ==
    ASSUME IInv, Accept
    PROVE  IInv'
<1> DEFINE s == sessions + 1
           f == Lowest(Free)
           i1 == [NoIo EXCEPT !.id = s, !.side = "client", !.ready = TRUE]
           k1 == [NoSock EXCEPT !.state = "open"]
           a == [io |-> [io EXCEPT ![f] = i1], sock |-> [sock EXCEPT ![f] = k1]]
           g == Lowest(Free \ {f})
           i2 == [NoIo EXCEPT !.id = s, !.side = "backend", !.ready = TRUE, !.upstream_io = f]
           b == [a EXCEPT !.io[f].upstream_io = g, !.io[g] = i2]
<1>1. /\ io \in [Fds -> Ios] /\ sock \in [Fds -> Socks] /\ Sane(Now)
      /\ Now.io = io /\ Now.sock = sock
      /\ \A x \in Fds : io[x] \in Ios /\ sock[x] \in Socks
  BY NowType
<1>2. s \in 1..MaxSessions /\ s <= MaxSessions /\ sessions' = s
  BY UpstreamAssumption DEF IInv, Rest, Accept
<1>3. /\ Free # {} /\ UNCHANGED <<faults, reuse>>
      /\ \/ Becomes(a) /\ UNCHANGED posted
         \/ Free # {f} /\ hio_connect(b, g, s)
  BY <1>2 DEF Accept, hio_ready
<1>4. /\ Free \in SUBSET Fds /\ \A x \in Free : ~io[x].ready /\ sock[x] = NoSock
      /\ ~reuse => \A x \in Free : \A y \in Fds : io[y].ready => io[y].upstream_io # x
  BY <1>1 DEF Free, Sane
<1>5. f \in Free  BY <1>3, <1>4, LowestFree
<1>6. f \in Fds /\ f # None  BY <1>4, <1>5, UpstreamAssumption DEF None
<1>7. i1 \in Ios /\ k1 \in Socks
  <2>1. "client" \in Sides /\ s \in 0..MaxSessions  BY <1>2 DEF Sides
  <2> HIDE DEF s
  <2>2. i1 \in Ios  BY <2>1, FreshParts DEF Ios
  <2> QED  BY <2>2, FreshParts
<1>8. /\ a.io \in [Fds -> Ios] /\ a.sock \in [Fds -> Socks] /\ a \in Hs
      /\ a.io[f] = i1 /\ a.sock[f] = k1
      /\ \A x \in Fds \ {f} : a.io[x] = io[x] /\ a.sock[x] = sock[x]
  <2>1. [io EXCEPT ![f] = i1] \in [Fds -> Ios]  BY <1>1, <1>7
  <2>2. [sock EXCEPT ![f] = k1] \in [Fds -> Socks]  BY <1>1, <1>7
  <2> HIDE DEF i1, k1, f
  <2>3. a \in Hs  BY <2>1, <2>2 DEF Hs
  <2> QED  BY <1>1, <1>6, <2>1, <2>2, <2>3
<1>9. /\ i1.ready /\ i1.id = s /\ i1.side = "client" /\ i1.upstream_io = None
      /\ i1.write_queue = << >> /\ k1.out = << >> /\ k1.got = 0
      /\ k1.rx = << >> /\ k1.n = 0 /\ k1.state # "none"
  BY DEF NoIo, NoSock
<1>10. CASE Becomes(a) /\ UNCHANGED posted
  <2> HIDE DEF s, f, i1, k1, a
  <2>1. Begins(a, f, s, "client", a.io[f].upstream_io) /\ a.io[f].upstream_io = None
    BY <1>8, <1>9 DEF Begins
  <2>2. "client" \in Sides  BY DEF Sides
  <2>3. Good(a, posted, reuse) /\ posted \in Seq(Posts) /\ Young(a, posted, s)
    <3> DEFINE N == {f}
    <3>1. N \in SUBSET Fds  BY <1>6
    <3>2. \A x \in N : ~io[x].ready  BY <1>4, <1>5
    <3>3. ~reuse => \A x \in N : \A y \in Fds : io[y].ready => io[y].upstream_io # x
      BY <1>4, <1>5
    <3>4. \A x \in Fds \ N : a.io[x] = io[x] /\ a.sock[x] = sock[x]  BY <1>8
    <3>5. Starts(a, posted, s, N) /\ Announces(a, posted, s, N)
      BY <2>1, <2>2 DEF Starts, Announces
    <3>6. s = sessions + 1  BY DEF s
    <3> HIDE DEF N
    <3> QED  BY ONLY IInv, <1>2, <1>8, <3>1, <3>2, <3>3, <3>4, <3>5, <3>6, NewSession
  <2>4. Now' = a  BY <1>8, <1>10, BecomesNow
  <2> QED  BY <1>2, <1>3, <1>10, <2>3, <2>4 DEF IInv, Rest
<1>11. CASE Free # {f} /\ hio_connect(b, g, s)
  <2>1. g \in Free /\ g # f
    <3>1. Free \ {f} # {} /\ Free \ {f} \in SUBSET Fds  BY <1>4, <1>5, <1>11
    <3>2. g \in Free \ {f}  BY <3>1, LowestFree
    <3> QED  BY <3>2
  <2>2. g \in Fds /\ g # None /\ sock[g] = NoSock  BY <1>4, <2>1, UpstreamAssumption DEF None
  <2> DEFINE i3 == [i1 EXCEPT !.upstream_io = g]
  <2>3. i2 \in Ios /\ i3 \in Ios
    <3>1. i2 \in Ios
      <4>1. "backend" \in Sides /\ s \in 0..MaxSessions  BY <1>2 DEF Sides
      <4> HIDE DEF s, f
      <4> QED  BY <1>6, <4>1, FreshParts DEF Ios
    <3>2. i3 \in Ios
      <4> HIDE DEF i1, g
      <4> QED  BY <1>7, <2>2 DEF Ios
    <3> QED  BY <3>1, <3>2
  <2>4. /\ i2.ready /\ i2.id = s /\ i2.side = "backend" /\ i2.upstream_io = f
        /\ i2.write_queue = << >>
    BY DEF NoIo
  <2>5. /\ i3.ready /\ i3.id = s /\ i3.side = "client" /\ i3.upstream_io = g
        /\ i3.write_queue = << >>
    <3> HIDE DEF i1, g
    <3> QED  BY <1>7, <1>9 DEF Ios
  <2>6. /\ b = [a EXCEPT !.io = [a.io EXCEPT ![f] = i3, ![g] = i2]]
    <3> HIDE DEF s, f, i1, k1, g, i2, a
    <3> QED  BY <1>8, <2>1, <2>2 DEF Hs
  <2>7. /\ b \in Hs /\ b.io \in [Fds -> Ios] /\ b.sock \in [Fds -> Socks]
        /\ b.io[f] = i3 /\ b.io[g] = i2 /\ b.sock = a.sock
        /\ \A x \in Fds \ {f, g} : b.io[x] = io[x]
    <3> HIDE DEF s, f, i1, k1, g, i2, i3, a, b
    <3>1. [a.io EXCEPT ![f] = i3, ![g] = i2] \in [Fds -> Ios]  BY <1>8, <2>3
    <3>2. b \in Hs  BY <1>8, <2>6, <3>1 DEF Hs
    <3> QED  BY <1>6, <1>8, <2>1, <2>2, <2>6, <3>1, <3>2 DEF Hs
  <2>8. b.sock[f] = k1 /\ b.sock[g] = NoSock
    <3> HIDE DEF s, f, i1, k1, g, i2, i3, a, b
    <3> QED  BY <1>8, <2>1, <2>2, <2>7
  <2> HIDE DEF s, f, i1, k1, g, i2, i3, a, b
  \* whatever connect() says: i, k are the backend's hio_t and socket
  <2>9. ASSUME NEW i \in Ios, NEW k \in Socks, NEW p, NEW r,
               r = [io |-> [b.io EXCEPT ![g] = i], sock |-> [b.sock EXCEPT ![g] = k]],
               i.ready, i.id = s, i.side = "backend", i.upstream_io = f, i.write_queue = << >>,
               k.out = << >>, k.got = 0, k.rx = << >>, k.n = 0, k.state # "none",
               \/ p = posted /\ i.connect /\ i.connect_timer
               \/ p = Append(posted, <<"nio_connect", g, s>>)
               \/ p = Append(posted, <<"hio_close", g, s>>) /\ i.error
        PROVE  r \in Hs /\ Good(r, p, reuse) /\ p \in Seq(Posts) /\ Young(r, p, s)
    <3>1. /\ r \in Hs /\ r.io[f] = i3 /\ r.io[g] = i /\ r.sock[f] = k1 /\ r.sock[g] = k
          /\ \A x \in Fds \ {f, g} : r.io[x] = io[x] /\ r.sock[x] = sock[x]
      <4>1. r.io \in [Fds -> Ios] /\ r.sock \in [Fds -> Socks]  BY <2>7, <2>9
      <4>2. r \in Hs  BY <2>9, <4>1 DEF Hs
      <4> QED  BY <1>6, <1>8, <2>1, <2>2, <2>7, <2>8, <2>9, <4>2
    <3>2. Begins(r, f, s, "client", g) /\ Begins(r, g, s, "backend", f)
      BY <1>9, <2>5, <2>9, <3>1 DEF Begins
    <3>3. posted \in Seq(Posts)  BY DEF IInv, Rest
    <3>4. <<"nio_connect", g, s>> \in Posts /\ <<"hio_close", g, s>> \in Posts
      BY <1>2, <2>2 DEF Posts
    <3>5. Moving(r, p, g)
      <4>1. \A e \in Posts : In(Append(posted, e), e)  BY <3>3, AppendIn
      <4> QED  BY <2>9, <3>1, <3>4, <4>1 DEF Moving
    <3>6. \/ p = posted
          \/ \E e \in Posts : /\ p = Append(posted, e) /\ e[2] \in {f, g} /\ e[3] = s
                              /\ e[1] = "hio_close" => r.io[e[2]].error
      <4>1. CASE p = posted  BY <4>1
      <4>2. CASE p = Append(posted, <<"nio_connect", g, s>>)
        <5> DEFINE e == <<"nio_connect", g, s>>
        <5>1. e \in Posts /\ e[1] = "nio_connect" /\ e[2] = g /\ e[3] = s  BY <3>4
        <5> QED  BY <4>2, <5>1
      <4>3. CASE p = Append(posted, <<"hio_close", g, s>>) /\ i.error
        <5> DEFINE e == <<"hio_close", g, s>>
        <5>1. e \in Posts /\ e[1] = "hio_close" /\ e[2] = g /\ e[3] = s  BY <3>4
        <5>2. r.io[e[2]].error  BY <3>1, <4>3, <5>1
        <5> QED  BY <4>3, <5>1, <5>2
      <4> QED  BY <2>9, <4>1, <4>2, <4>3
    <3>7. Other("client") = "backend" /\ Other("backend") = "client" /\ Sides = {"client", "backend"}
      BY Sidedness DEF Sides
    <3> DEFINE N == {f, g}
    <3>8. N \in SUBSET Fds /\ \A x \in N : ~io[x].ready  BY <1>4, <1>5, <1>6, <2>1, <2>2
    <3>9. ~reuse => \A x \in N : \A y \in Fds : io[y].ready => io[y].upstream_io # x
      BY <1>4, <1>5, <2>1
    <3>10. Starts(r, p, s, N)
      <4>1. /\ r.io[f].upstream_io = g /\ r.io[g].upstream_io = f
            /\ r.io[f].side = "client" /\ r.io[g].side = "backend"
        BY <3>2 DEF Begins
      <4> QED  BY <2>1, <3>2, <3>5, <3>7, <4>1 DEF Starts
    <3>11. s = sessions + 1  BY DEF s
    <3>12. \A x \in Fds \ N : r.io[x] = io[x] /\ r.sock[x] = sock[x]  BY <3>1
    <3> HIDE DEF N
    <3>13. Announces(r, p, s, N)  BY <3>6 DEF N, Announces
    <3>14. r \in Hs /\ s <= MaxSessions  BY <1>2, <3>1
    <3>15. Good(r, p, reuse) /\ p \in Seq(Posts) /\ Young(r, p, s)
      BY ONLY IInv, <3>8, <3>9, <3>10, <3>11, <3>12, <3>13, <3>14, NewSession, Zenon
    <3> QED  BY <3>14, <3>15
  <2>10. /\ i2 \in Ios /\ b.io[g] = i2 /\ b.sock[g] = NoSock /\ NoSock \in Socks
         /\ NoSock = [state |-> "none", rx |-> << >>, n |-> 0, out |-> << >>, got |-> 0]
    BY <2>3, <2>7, <2>8, EmptySeq DEF NoSock, Socks
  <2>11. ASSUME NEW r \in Hs, Becomes(r), Good(r, posted', reuse), posted' \in Seq(Posts),
                Young(r, posted', s)
         PROVE  IInv'
    <3>1. Now' = r  BY <2>11, BecomesNow
    <3> QED  BY <1>2, <1>3, <2>11, <3>1 DEF IInv, Rest
  <2>12. CASE /\ Becomes([b EXCEPT !.sock[g].state = "connecting",
                                   !.io[g].connect = TRUE, !.io[g].connect_timer = TRUE])
              /\ UNCHANGED posted
    <3> DEFINE r == [b EXCEPT !.sock[g].state = "connecting",
                              !.io[g].connect = TRUE, !.io[g].connect_timer = TRUE]
               i == [i2 EXCEPT !.connect = TRUE, !.connect_timer = TRUE]
               k == [NoSock EXCEPT !.state = "connecting"]
    <3>1. /\ i \in Ios /\ i.ready /\ i.id = s /\ i.side = "backend" /\ i.upstream_io = f
          /\ i.write_queue = << >> /\ i.connect /\ i.connect_timer
      BY <2>4, <2>10 DEF Ios
    <3>2. /\ k \in Socks /\ k.out = << >> /\ k.got = 0 /\ k.rx = << >> /\ k.n = 0 /\ k.state # "none"
      BY FreshParts
    <3>3. r = [io |-> [b.io EXCEPT ![g] = i], sock |-> [b.sock EXCEPT ![g] = k]]
      <4> DEFINE c == [b EXCEPT !.sock[g].state = "connecting"]
      <4>1. c = [io |-> b.io, sock |-> [b.sock EXCEPT ![g] = k]]
        BY <2>2, <2>7, <2>10 DEF Hs
      <4> HIDE DEF k
      <4>2. c.io = b.io /\ c.sock = [b.sock EXCEPT ![g] = k]  BY <4>1
      <4> HIDE DEF c
      <4>3. c.io \in [Fds -> Ios] /\ c.io[g] = i2  BY <2>7, <4>2
      <4>4. [c EXCEPT !.io[g].connect = TRUE, !.io[g].connect_timer = TRUE]
              = [c EXCEPT !.io = [c.io EXCEPT ![g] = i]]
        BY <2>2, <2>10, <4>1, <4>2, <4>3
      <4> HIDE DEF i
      <4>5. [c EXCEPT !.io = [c.io EXCEPT ![g] = i]]
              = [io |-> [b.io EXCEPT ![g] = i], sock |-> [b.sock EXCEPT ![g] = k]]
        BY <4>1, <4>2
      <4> QED  BY <4>4, <4>5 DEF c
    <3> HIDE DEF r, i, k
    <3>4. r \in Hs /\ Good(r, posted, reuse) /\ posted \in Seq(Posts) /\ Young(r, posted, s)
      BY <2>9, <3>1, <3>2, <3>3
    <3>5. Becomes(r) /\ posted' = posted  BY <2>12 DEF r
    <3> QED  BY <2>11, <3>4, <3>5
  <2>13. CASE /\ Becomes([b EXCEPT !.sock[g].state = "open"])
              /\ posted' = Append(posted, <<"nio_connect", g, s>>)
    <3> DEFINE r == [b EXCEPT !.sock[g].state = "open"]
               k == [NoSock EXCEPT !.state = "open"]
    <3>2. /\ k \in Socks /\ k.out = << >> /\ k.got = 0 /\ k.rx = << >> /\ k.n = 0 /\ k.state # "none"
      BY FreshParts
    <3>3. r = [io |-> [b.io EXCEPT ![g] = i2], sock |-> [b.sock EXCEPT ![g] = k]]
      BY <2>2, <2>7, <2>10 DEF Hs
    <3> HIDE DEF r, k
    <3> DEFINE p == Append(posted, <<"nio_connect", g, s>>)
    <3>4. r \in Hs /\ Good(r, p, reuse) /\ p \in Seq(Posts) /\ Young(r, p, s)
      BY <2>4, <2>9, <2>10, <3>2, <3>3
    <3>5. Becomes(r) /\ posted' = p  BY <2>13 DEF r
    <3> QED  BY <2>11, <3>4, <3>5
  <2>14. CASE /\ Becomes([b EXCEPT !.sock[g].state = "reset", !.io[g].error = TRUE])
              /\ posted' = Append(posted, <<"hio_close", g, s>>)
    <3> DEFINE r == [b EXCEPT !.sock[g].state = "reset", !.io[g].error = TRUE]
               i == [i2 EXCEPT !.error = TRUE]
               k == [NoSock EXCEPT !.state = "reset"]
    <3>1. /\ i \in Ios /\ i.ready /\ i.id = s /\ i.side = "backend" /\ i.upstream_io = f
          /\ i.write_queue = << >> /\ i.error
      BY <2>4, <2>10 DEF Ios
    <3>2. /\ k \in Socks /\ k.out = << >> /\ k.got = 0 /\ k.rx = << >> /\ k.n = 0 /\ k.state # "none"
      BY FreshParts
    <3>3. r = [io |-> [b.io EXCEPT ![g] = i], sock |-> [b.sock EXCEPT ![g] = k]]
      <4> DEFINE c == [b EXCEPT !.sock[g].state = "reset"]
      <4>1. c = [io |-> b.io, sock |-> [b.sock EXCEPT ![g] = k]]
        BY <2>2, <2>7, <2>10 DEF Hs
      <4> HIDE DEF k
      <4>2. c.io = b.io /\ c.sock = [b.sock EXCEPT ![g] = k]  BY <4>1
      <4> HIDE DEF c
      <4>3. c.io \in [Fds -> Ios] /\ c.io[g] = i2  BY <2>7, <4>2
      <4>4. [c EXCEPT !.io[g].error = TRUE]
              = [c EXCEPT !.io = [c.io EXCEPT ![g] = i]]
        BY <2>2, <2>10, <4>1, <4>2, <4>3
      <4> HIDE DEF i
      <4>5. [c EXCEPT !.io = [c.io EXCEPT ![g] = i]]
              = [io |-> [b.io EXCEPT ![g] = i], sock |-> [b.sock EXCEPT ![g] = k]]
        BY <4>1, <4>2
      <4> QED  BY <4>4, <4>5 DEF c
    <3> HIDE DEF r, i, k
    <3> DEFINE p == Append(posted, <<"hio_close", g, s>>)
    <3>4. r \in Hs /\ Good(r, p, reuse) /\ p \in Seq(Posts) /\ Young(r, p, s)
      BY <2>9, <3>1, <3>2, <3>3
    <3>5. Becomes(r) /\ posted' = p  BY <2>14 DEF r
    <3> QED  BY <2>11, <3>4, <3>5
  <2> QED  BY <1>11, <2>12, <2>13, <2>14 DEF hio_connect
<1> QED  BY <1>3, <1>10, <1>11

-----------------------------------------------------------------------------
(* Writing.                                                                *)

\* What a write leaves alone at x
Frame(h, r, x) ==
    /\ r.io[x].id = h.io[x].id /\ r.io[x].side = h.io[x].side
    /\ r.io[x].upstream_io = h.io[x].upstream_io
    /\ (r.io[x].ready <=> h.io[x].ready) /\ (h.io[x].error => r.io[x].error)
    /\ (r.io[x].connect <=> h.io[x].connect)
    /\ (r.io[x].connect_timer <=> h.io[x].connect_timer)
    /\ Waiting(h, r, x)

LEMMA FrameKeeps ==
    ASSUME NEW h \in Hs, NEW r \in Hs, \A x \in Fds : Frame(h, r, x), NEW p
    PROVE  /\ \A x \in Fds : Pair(h, x) => Pair(r, x)
           /\ \A x \in Fds : Link(h, x) => Link(r, x)
           /\ \A x \in Fds : Doomed(h, p, x) => Doomed(r, p, x)
           /\ \A x \in Fds : Moving(h, p, x) => Moving(r, p, x)
<1>1. \A x \in Fds : h.io[x].upstream_io \in Fds \cup {None}  BY DEF Hs, Ios
<1>2. \A x \in Fds : Pair(h, x) => Pair(r, x)  BY <1>1 DEF Pair, Frame, Waiting
<1>3. \A x \in Fds : Link(h, x) => Link(r, x)  BY <1>1 DEF Link, Frame
<1>4. \A x \in Fds : Doomed(h, p, x) => Doomed(r, p, x)  BY DEF Doomed, Frame
<1>5. \A x \in Fds : Moving(h, p, x) => Moving(r, p, x)  BY DEF Moving, Frame
<1> QED  BY <1>2, <1>3, <1>4, <1>5

\* write_cb of f: the other side is read again once f's queue is empty.
LEMMA CompleteView ==
    ASSUME NEW h \in Hs, NEW f \in Fds, NEW r, r = hio_read_upstream_on_write_complete(h, f),
           h.io[f].upstream_io # f
    PROVE  LET g == h.io[f].upstream_io IN
           /\ r \in Hs /\ r.sock = h.sock
           /\ \A x \in Fds : Frame(h, r, x) /\ r.io[x].write_queue = h.io[x].write_queue
           /\ \A x \in Fds \ {f} : r.io[x].write_cb <=> h.io[x].write_cb
           /\ \A x \in Fds : x # g => (r.io[x].reading <=> h.io[x].reading)
           /\ IF ~h.io[f].write_cb \/ g = None \/ h.io[f].write_queue # << >>
              THEN r = h
              ELSE r.io[g].reading <=> r.io[g].ready
<1> DEFINE g == h.io[f].upstream_io
<1>0. h.io \in [Fds -> Ios] /\ h.io[f] \in Ios /\ g \in Fds \cup {None}  BY DEF Hs, Ios
<1>1. CASE ~h.io[f].write_cb \/ g = None \/ h.io[f].write_queue # << >>
  <2>1. r = h
    BY <1>1 DEF hio_read_upstream_on_write_complete, hio_write_is_complete
  <2> QED  BY <1>1, <2>1 DEF Frame, Waiting
<1>2. CASE h.io[f].write_cb /\ g # None /\ h.io[f].write_queue = << >>
  <2> DEFINE i == [h.io[f] EXCEPT !.write_cb = FALSE]
             j == [h.io[g] EXCEPT !.reading = h.io[g].ready]
  <2>1. g \in Fds /\ h.io[g] \in Ios  BY <1>0, <1>2
  <2>2. i \in Ios /\ j \in Ios  BY <1>0, <2>1 DEF Ios
  <2>3. r = [h EXCEPT !.io[f].write_cb = FALSE, !.io[g].reading = h.io[g].ready]
    BY <1>2 DEF hio_read_upstream_on_write_complete, hio_write_is_complete
  <2>4. r = [h EXCEPT !.io = [h.io EXCEPT ![f] = i, ![g] = j]]
    BY <1>0, <2>1, <2>3 DEF Hs
  <2>5. [h.io EXCEPT ![f] = i, ![g] = j] \in [Fds -> Ios]
    <3> HIDE DEF i, j, g
    <3> QED  BY <1>0, <2>2
  <2>6. /\ r \in Hs /\ r.sock = h.sock /\ r.io[f] = i /\ r.io[g] = j
        /\ \A x \in Fds \ {f, g} : r.io[x] = h.io[x]
    <3> HIDE DEF i, j
    <3>1. r.io = [h.io EXCEPT ![f] = i, ![g] = j] /\ r.sock = h.sock  BY <2>4 DEF Hs
    <3>2. r \in Hs  BY <2>4, <2>5 DEF Hs
    <3> QED  BY <1>0, <2>1, <3>1, <3>2
  <2>7. ASSUME NEW x \in Fds
        PROVE  /\ Frame(h, r, x) /\ r.io[x].write_queue = h.io[x].write_queue
               /\ x # f => (r.io[x].write_cb <=> h.io[x].write_cb)
               /\ x # g => (r.io[x].reading <=> h.io[x].reading)
    <3>1. CASE x = f
      <4>1. r.io[x] = [h.io[x] EXCEPT !.write_cb = FALSE] /\ h.io[x] \in Ios  BY <1>0, <2>6, <3>1
      <4> QED  BY <3>1, <4>1 DEF Frame, Waiting, Ios
    <3>2. CASE x = g
      <4>1. r.io[x] = [h.io[x] EXCEPT !.reading = h.io[g].ready] /\ h.io[x] \in Ios
        BY <2>1, <2>6, <3>2
      <4> QED  BY <3>2, <4>1 DEF Frame, Waiting, Ios
    <3>3. CASE x \notin {f, g}  BY <2>6, <3>3 DEF Frame, Waiting
    <3> QED  BY <3>1, <3>2, <3>3
  <2>8. r.io[g].reading <=> r.io[g].ready  BY <2>1, <2>6 DEF Ios
  <2> HIDE DEF i, j
  <2> QED  BY <1>2, <2>6, <2>7, <2>8
<1> QED  BY <1>0, <1>1, <1>2 DEF Hs, Ios

LEMMA CompleteLive ==
    ASSUME NEW h \in Hs, NEW f \in Fds, NEW r, r = hio_read_upstream_on_write_complete(h, f),
           h.io[f].upstream_io # f, NEW p, NEW x \in Fds, Link(h, x),
           \/ Live(h, p, x)
           \/ /\ x = h.io[f].upstream_io
              /\ h.io[f].write_queue = << >> /\ h.io[f].write_cb
    PROVE  Live(r, p, x)
<1> DEFINE g == h.io[f].upstream_io
           y == h.io[x].upstream_io
<1>1. /\ r \in Hs
      /\ \A z \in Fds : Frame(h, r, z) /\ r.io[z].write_queue = h.io[z].write_queue
      /\ \A z \in Fds \ {f} : r.io[z].write_cb <=> h.io[z].write_cb
      /\ \A z \in Fds : z # g => (r.io[z].reading <=> h.io[z].reading)
      /\ IF ~h.io[f].write_cb \/ g = None \/ h.io[f].write_queue # << >>
         THEN r = h
         ELSE r.io[g].reading <=> r.io[g].ready
  BY CompleteView
<1>2. x # None /\ f # None  BY UpstreamAssumption DEF None
<1>3. CASE ~h.io[f].write_cb \/ g = None \/ h.io[f].write_queue # << >>
  <2>1. Live(h, p, x) /\ r = h  BY <1>1, <1>2, <1>3
  <2> QED  BY <2>1
<1>4. CASE ~(~h.io[f].write_cb \/ g = None \/ h.io[f].write_queue # << >>)
  <2>1. CASE x = g  BY <1>1, <1>4, <2>1 DEF Live
  <2>2. CASE x # g /\ ~h.io[x].ready  BY <1>1, <2>2 DEF Live, Frame
  <2>3. CASE x # g /\ h.io[x].ready
    <3>1. Live(h, p, x) /\ y # f  BY <1>2, <2>3 DEF Link
    <3>2. y \in Fds \cup {None} /\ r.io[x].upstream_io = y  BY <1>1 DEF Hs, Ios, Frame
    <3>3. /\ (r.io[x].reading <=> h.io[x].reading) /\ (r.io[x].ready <=> h.io[x].ready)
          /\ y # None => /\ (r.io[y].ready <=> h.io[y].ready)
                         /\ (r.io[y].write_cb <=> h.io[y].write_cb)
                         /\ r.io[y].write_queue = h.io[y].write_queue
      BY <1>1, <2>3, <3>1, <3>2 DEF Frame
    <3>4. \A z \in Fds : Moving(h, p, z) => Moving(r, p, z)  BY SMTT(30), <1>1, FrameKeeps
    <3> HIDE DEF y
    <3>5. y = h.io[x].upstream_io  BY DEF y
    <3> QED  BY <3>1, <3>2, <3>3, <3>4, <3>5 DEF Live
  <2> QED  BY SMTT(30), <2>1, <2>2, <2>3
<1> QED  BY <1>3, <1>4

\* nio_write of f moves n bytes of its queue to the kernel; what is before
\* and behind them stays.
LEMMA WriteKeeps ==
    ASSUME IInv, NEW f \in Fds, HandleWrite(f)
    PROVE  IInv'
<1>1. /\ Now \in Hs /\ Now.io = io /\ Now.sock = sock /\ Sane(Now)
      /\ io \in [Fds -> Ios] /\ sock \in [Fds -> Socks]
      /\ \A x \in Fds : io[x] \in Ios /\ sock[x] \in Socks
      /\ Good(Now, posted, reuse)
  BY NowType DEF IInv
<1>2. io[f].ready /\ UNCHANGED <<posted, sessions, faults, reuse>>  BY DEF HandleWrite
<1>3. SUFFICES Good(Now', posted, reuse) /\ Ids(Now, Now')
  <2>1. \A k \in DOMAIN posted : posted[k][3] <= sessions  BY DEF IInv, Rest, Young
  <2>2. Young(Now', posted, sessions')  BY <1>2, <1>3, <2>1, StaysYoung
  <2> QED  BY <1>2, <1>3, <2>2 DEF IInv, Rest
<1>4. CASE Failed(sock[f]) /\ Becomes(hio_close([Now EXCEPT !.io[f].error = TRUE], f))
  <2> DEFINE h == [Now EXCEPT !.io[f].error = TRUE]
  <2>1. Good(hio_close(h, f), posted, reuse) /\ h \in Hs /\ Ids(Now, hio_close(h, f))
    BY <1>1, ErrorCloses
  <2> HIDE DEF h
  <2>2. hio_close(h, f) \in Hs  BY <2>1, CloseView
  <2>3. Becomes(hio_close(h, f))  BY <1>4 DEF h
  <2> QED  BY <2>1, <2>2, <2>3, BecomesNow
<1>5. ASSUME NEW n \in 1..Space(sock[f]), n <= Len(io[f].write_queue),
             NEW q, q = io[f].write_queue, NEW h,
             h = [Now EXCEPT !.sock[f] = Sent(@, SubSeq(q, 1, n)),
                             !.io[f].write_queue = SubSeq(q, n + 1, Len(q))],
             NEW w, w = hio_read_upstream_on_write_complete(h, f),
             Becomes(IF n = Len(q) /\ w.io[f].close
                     THEN hio_close([w EXCEPT !.io[f].close = FALSE], f) ELSE w)
      PROVE  Good(Now', posted, reuse) /\ Ids(Now, Now')
  <2> DEFINE a == SubSeq(q, 1, n)
             b == SubSeq(q, n + 1, Len(q))
             i == [io[f] EXCEPT !.write_queue = b]
             k == [sock[f] EXCEPT !.out = sock[f].out \o a]
  <2>1. q \in Seq(Bytes) /\ Len(q) \in Nat /\ sock[f].out \in Seq(Bytes)
        /\ Len(sock[f].out) \in Nat /\ sock[f].got \in Nat
    BY <1>1, <1>5, LenProperties DEF Ios, Socks
  <2>2. /\ n \in Nat /\ n >= 1 /\ n <= Len(q)
        /\ n <= SndBuf - (Len(sock[f].out) - sock[f].got)
    BY <1>5, <2>1, UpstreamAssumption DEF Space
  <2>3. /\ a \in Seq(Bytes) /\ b \in Seq(Bytes) /\ Len(a) = n /\ Len(b) = Len(q) - n
        /\ a \o b = q
    <3>1. n \in 0..Len(q)  BY <2>1, <2>2
    <3> QED  BY <2>1, <3>1, Cut
  <2> HIDE DEF a, b
  <2>4. /\ sock[f].out \o a \in Seq(Bytes)
        /\ Len(sock[f].out \o a) = Len(sock[f].out) + n
        /\ (sock[f].out \o a) \o b = sock[f].out \o q
    <3>0. sock[f].out \in Seq(Bytes) /\ a \in Seq(Bytes) /\ b \in Seq(Bytes)  BY <2>1, <2>3
    <3>1. (sock[f].out \o a) \o b = sock[f].out \o (a \o b)
      <4> DEFINE o == sock[f].out
      <4>1. o \in Seq(Bytes)  BY <3>0
      <4> HIDE DEF o
      <4>2. (o \o a) \o b = o \o (a \o b)  BY ONLY <3>0, <4>1, ConcatAssociative
      <4> QED  BY <4>2 DEF o
    <3> QED  BY <2>1, <2>3, <3>1, ConcatProperties
  <2>5. i \in Ios /\ k \in Socks
    <3>1. io[f] \in Ios /\ sock[f] \in Socks  BY <1>1
    <3>2. i \in Ios  BY ONLY <2>3, <3>1 DEF Ios, i
    <3> DEFINE o == sock[f].out \o a
    <3>3. o \in Seq(Bytes)  BY <2>4
    <3> HIDE DEF o
    <3>4. [sock[f] EXCEPT !.out = o] \in Socks  BY ONLY <3>1, <3>3 DEF Socks
    <3> QED  BY <3>2, <3>4 DEF o
  <2>6. h = [io |-> [io EXCEPT ![f] = i], sock |-> [sock EXCEPT ![f] = k]]
    BY <1>1, <1>5 DEF Sent, Now, a, b
  <2>7. /\ h \in Hs /\ h.io[f] = i /\ h.sock[f] = k
        /\ \A x \in Fds \ {f} : h.io[x] = io[x] /\ h.sock[x] = sock[x]
    <3> HIDE DEF i, k
    <3>1. [io EXCEPT ![f] = i] \in [Fds -> Ios]  BY <1>1, <2>5
    <3>2. [sock EXCEPT ![f] = k] \in [Fds -> Socks]  BY <1>1, <2>5
    <3>3. h \in Hs  BY <2>6, <3>1, <3>2 DEF Hs
    <3> QED  BY <1>1, <2>6, <3>3
  <2>8. /\ h.io[f].write_queue = b /\ h.sock[f].out = sock[f].out \o a
        /\ h.sock[f].got = sock[f].got /\ h.sock[f].rx = sock[f].rx /\ h.sock[f].n = sock[f].n
        /\ h.sock[f].state = sock[f].state
        /\ (h.io[f].write_cb <=> io[f].write_cb) /\ (h.io[f].reading <=> io[f].reading)
    BY <1>1, <2>7 DEF Ios, Socks
  <2>9. \A x \in Fds : Frame(Now, h, x)
    <3> SUFFICES ASSUME NEW x \in Fds  PROVE Frame(Now, h, x)
      OBVIOUS
    <3>1. CASE x = f  BY <1>1, <2>7, <3>1 DEF Frame, Waiting, Ios
    <3>2. CASE x # f  BY <1>1, <2>7, <3>2 DEF Frame, Waiting
    <3> QED  BY <3>1, <3>2
  <2> HIDE DEF i, k
  <2>10. /\ \A x \in Fds : Pair(h, x) /\ Doomed(h, posted, x)
         /\ ~reuse => \A x \in Fds : Link(h, x)
         /\ \A x \in Fds : Moving(Now, posted, x) => Moving(h, posted, x)
    BY <1>1, <2>7, <2>9, FrameKeeps DEF Good
  <2>11. Sane(h)
    <3> SUFFICES ASSUME NEW x \in Fds
                 PROVE  /\ h.io[x].ready => h.io[x].id > 0 /\ h.sock[x].state # "none"
                        /\ ~h.io[x].ready => h.sock[x] = NoSock
                        /\ Len(h.sock[x].out) - h.sock[x].got \in 0..SndBuf
                        /\ h.io[x].upstream_io # x
      BY <2>7 DEF Sane
    <3>1. CASE x # f  BY <1>1, <2>7, <3>1 DEF Sane
    <3>2. CASE x = f
      <4>1. /\ io[f].id > 0 /\ sock[f].state # "none" /\ io[f].upstream_io # f
            /\ Len(sock[f].out) - sock[f].got \in 0..SndBuf
        BY <1>1, <1>2 DEF Sane
      <4>2. /\ h.io[f].ready /\ h.io[f].id > 0 /\ h.io[f].upstream_io # f
        BY <1>1, <1>2, <2>9, <4>1 DEF Frame
      <4>3. Len(h.sock[f].out) - h.sock[f].got \in 0..SndBuf
        <5> DEFINE l == Len(sock[f].out)
                   c == sock[f].got
        <5>1. l \in Nat /\ c \in Nat /\ n \in Nat /\ SndBuf \in Nat  BY <2>1, <2>2, UpstreamAssumption
        <5>2. l - c \in 0..SndBuf /\ n <= SndBuf - (l - c)  BY <2>2, <4>1
        <5>3. Len(h.sock[f].out) = l + n /\ h.sock[f].got = c  BY <2>4, <2>8
        <5> HIDE DEF l, c
        <5>4. (l + n) - c \in 0..SndBuf  BY SMTT(30), <5>1, <5>2
        <5> QED  BY <5>3, <5>4
      <4> QED  BY <2>8, <3>2, <4>1, <4>2, <4>3
    <3> QED  BY <3>1, <3>2
  <2>12. ASSUME ~reuse, NEW x \in Fds  PROVE Flow(h, x)
    <3>1. Flow(Now, x)  BY <1>1, <2>12 DEF Good
    <3> SUFFICES ASSUME h.io[x].ready, ~h.io[x].error  PROVE Flow(h, x)
      BY DEF Flow
    <3> DEFINE y == io[x].upstream_io
    <3>2. /\ io[x].ready /\ ~io[x].error /\ h.io[x].upstream_io = y
          /\ h.io[x].id = io[x].id /\ h.io[x].side = io[x].side
      BY SMTT(30), <1>1, <2>9 DEF Frame
    <3>3. h.sock[x].out \o h.io[x].write_queue = sock[x].out \o io[x].write_queue
      <4>1. CASE x = f  BY <1>5, <2>4, <2>8, <4>1
      <4>2. CASE x # f  BY <2>7, <4>2
      <4> QED  BY <4>1, <4>2
    <3>4. y # None => /\ (h.io[y].ready <=> io[y].ready)
                      /\ h.sock[y].rx = sock[y].rx /\ h.sock[y].n = sock[y].n
      <4>1. y \in Fds \cup {None}  BY <1>1 DEF Ios
      <4>2. y = f => h.sock[y].rx = sock[y].rx /\ h.sock[y].n = sock[y].n  BY <2>8
      <4>3. y \in Fds /\ y # f => h.sock[y] = sock[y]  BY <2>7
      <4>4. y \in Fds => (h.io[y].ready <=> io[y].ready)  BY <1>1, <2>9 DEF Frame
      <4> QED  BY <4>1, <4>2, <4>3, <4>4
    <3>5. y = Now.io[x].upstream_io /\ Now.io = io /\ Now.sock = sock  BY <1>1
    <3> HIDE DEF y
    <3> QED  BY ONLY ZenonT(40), <3>1, <3>2, <3>3, <3>4, <3>5 DEF Flow
  <2>13. ASSUME ~reuse, NEW x \in Fds
         PROVE  \/ Live(h, posted, x)
                \/ /\ x = h.io[f].upstream_io
                   /\ h.io[f].write_queue = << >> /\ h.io[f].write_cb
    <3> DEFINE y == io[x].upstream_io
    <3>1. Live(Now, posted, x) /\ Link(Now, x)  BY <1>1, <2>13 DEF Good
    <3>2. y \in Fds \cup {None} /\ h.io[x].upstream_io = y  BY <1>1, <2>9 DEF Ios, Frame
    <3>3. /\ (h.io[x].ready <=> io[x].ready)
          /\ (y # None => (h.io[y].ready <=> io[y].ready))
          /\ (h.io[x].reading <=> io[x].reading)
          /\ (y # None => (h.io[y].write_cb <=> io[y].write_cb))
      <4>1. \A z \in Fds : (h.io[z].ready <=> io[z].ready)  BY <1>1, <2>9 DEF Frame
      <4>2. \A z \in Fds : /\ (h.io[z].reading <=> io[z].reading)
                           /\ (h.io[z].write_cb <=> io[z].write_cb)
        BY <2>7, <2>8
      <4> QED  BY <3>2, <4>1, <4>2
    <3>4. CASE y # f \/ b # << >>
      <4>1. y # None /\ io[y].write_queue # << >> => h.io[y].write_queue # << >>
        BY <2>7, <2>8, <3>2, <3>4
      <4> HIDE DEF y
      <4>2. y = Now.io[x].upstream_io /\ Now.io = io  BY <1>1 DEF y
      <4>3. Live(h, posted, x)  BY <2>10, <3>1, <3>2, <3>3, <4>1, <4>2 DEF Live
      <4> QED  BY <4>3
    <3>5. CASE y = f /\ b = << >>
      <4>1. CASE h.io[f].write_cb /\ io[x].ready
        <5>1. f # None  BY UpstreamAssumption DEF None
        <5>2. io[f].upstream_io = x  BY <1>1, <3>1, <3>5, <4>1, <5>1 DEF Link
        <5>3. h.io[f].upstream_io = x  BY <1>1, <2>9, <5>2 DEF Frame
        <5> QED  BY <2>8, <3>5, <4>1, <5>3
      <4>2. CASE ~h.io[f].write_cb \/ ~io[x].ready
        <5>1. ~io[f].write_cb \/ ~io[x].ready  BY <2>8, <4>2
        <5>2. Live(h, posted, x)
          BY <1>1, <2>10, <3>1, <3>2, <3>3, <3>5, <5>1 DEF Live
        <5> QED  BY <5>2
      <4> QED  BY <4>1, <4>2
    <3> QED  BY <3>4, <3>5
  <2>14. h.io[f].upstream_io # f  BY <2>11 DEF Sane
  <2>15. /\ w \in Hs /\ w.sock = h.sock
         /\ \A x \in Fds : Frame(h, w, x) /\ w.io[x].write_queue = h.io[x].write_queue
    <3> DEFINE g == h.io[f].upstream_io
    <3>1. /\ w \in Hs /\ w.sock = h.sock
          /\ \A x \in Fds : Frame(h, w, x) /\ w.io[x].write_queue = h.io[x].write_queue
          /\ \A x \in Fds \ {f} : w.io[x].write_cb <=> h.io[x].write_cb
          /\ \A x \in Fds : x # g => (w.io[x].reading <=> h.io[x].reading)
          /\ IF ~h.io[f].write_cb \/ g = None \/ h.io[f].write_queue # << >>
             THEN w = h
             ELSE w.io[g].reading <=> w.io[g].ready
      <4>1. h \in Hs /\ f \in Fds /\ w = hio_read_upstream_on_write_complete(h, f)
        BY <1>5, <2>7
      <4> QED  BY ONLY <2>14, <4>1, CompleteView
    <3> QED  BY <3>1
  <2>16. Good(w, posted, reuse)
    <3>1. \A x \in Fds : Same(h, w, x) /\ Waiting(h, w, x)
      BY <2>15 DEF Frame, Same
    <3>2. /\ Sane(w) /\ \A x \in Fds : Pair(w, x) /\ Doomed(w, posted, x)
          /\ ~reuse => \A x \in Fds : Link(w, x) /\ Flow(w, x)
      BY <2>10, <2>11, <2>12, <2>15, <3>1, SameKeeps
    <3>3. ~reuse => \A x \in Fds : Live(w, posted, x)
      BY <1>5, <2>7, <2>10, <2>13, <2>14, CompleteLive
    <3> QED  BY <3>2, <3>3 DEF Good
  <2>19. Ids(Now, w)  BY <2>9, <2>15 DEF Ids, Frame
  <2>17. CASE ~(n = Len(q) /\ w.io[f].close)
    <3>1. Becomes(w)  BY <1>5, <2>17
    <3> QED  BY <2>15, <2>16, <2>19, <3>1, BecomesNow
  <2>18. CASE n = Len(q) /\ w.io[f].close
    <3> DEFINE v == [w EXCEPT !.io[f].close = FALSE]
               j == [w.io[f] EXCEPT !.close = FALSE]
    <3>1. w.io \in [Fds -> Ios] /\ w.io[f] \in Ios  BY <2>15 DEF Hs
    <3>2. j \in Ios  BY <3>1 DEF Ios
    <3>3. v = [w EXCEPT !.io = [w.io EXCEPT ![f] = j]]  BY <2>15, <3>1 DEF Hs
    <3>4. /\ v \in Hs /\ v.sock = w.sock /\ v.io[f] = j
          /\ \A x \in Fds \ {f} : v.io[x] = w.io[x]
      <4> HIDE DEF j
      <4> QED  BY <2>15, <3>1, <3>2, <3>3 DEF Hs
    <3>5. /\ j.ready <=> w.io[f].ready
          /\ j.write_queue = w.io[f].write_queue
      BY <3>1 DEF Ios
    <3>6. /\ \A x \in Fds : Same(w, v, x)
          /\ \A x \in Fds : /\ (v.io[x].reading <=> w.io[x].reading)
                            /\ (v.io[x].write_cb <=> w.io[x].write_cb)
                            /\ (v.io[x].connect <=> w.io[x].connect)
                            /\ (v.io[x].connect_timer <=> w.io[x].connect_timer)
          /\ \A x \in Fds \ {f} : Waiting(w, v, x)
      BY <3>1, <3>4 DEF Same, Waiting, Ios
    <3> HIDE DEF v, j
    <3>7. /\ Sane(v) /\ \A x \in Fds \ {f} : Pair(v, x)
          /\ \A x \in Fds : Doomed(v, posted, x)
          /\ ~reuse => \A x \in Fds : Link(v, x) /\ Flow(v, x)
      BY <2>16, <3>4, <3>6, SameKeeps DEF Good
    <3>8. ASSUME NEW x \in Fds, Live(w, posted, x)  PROVE Live(v, posted, x)
      <4>1. w.io[x].upstream_io \in Fds \cup {None}  BY <2>15 DEF Hs, Ios
      <4>2. \A z \in Fds : Moving(w, posted, z) => Moving(v, posted, z)  BY <3>6 DEF Moving, Same
      <4> QED  BY <3>6, <3>8, <4>1, <4>2 DEF Live, Same
    <3>9. Nearly(v, posted, reuse, f)  BY <2>16, <3>7, <3>8 DEF Nearly, Good
    <3>10. Falls(v.io[f])
      <4>1. w.io[f].ready  BY <1>1, <1>2, <2>9, <2>15 DEF Frame
      <4>2. b = << >>
        <5>1. Len(b) = 0  BY <2>1, <2>3, <2>18
        <5> QED  BY <2>3, <5>1, EmptySeq
      <4>3. w.io[f].write_queue = << >>  BY <2>8, <2>15, <4>2
      <4> QED  BY <3>4, <3>5, <4>1, <4>3 DEF Falls, CloseLater
    <3>11. Good(hio_close(v, f), posted, reuse)  BY <3>9, <3>10, CloseRepairs
    <3>12. hio_close(v, f) \in Hs /\ Ids(v, hio_close(v, f))  BY <3>4, CloseIds
    <3>14. Ids(Now, hio_close(v, f))  BY <2>19, <3>6, <3>12 DEF Ids, Same
    <3>13. Becomes(hio_close(v, f))  BY <1>5, <2>18 DEF v
    <3> QED  BY <3>11, <3>12, <3>13, <3>14, BecomesNow
  <2> QED  BY <2>17, <2>18
<1> QED  BY ZenonT(40), <1>4, <1>5 DEF HandleWrite

\* What hio_write_upstream does after the bytes are in h.
LEMMA WroteView ==
    ASSUME NEW h \in Hs, NEW f \in Fds, NEW g \in Fds, f # g, h.io[g].upstream_io # g,
           NEW sent \in BOOLEAN, NEW less \in BOOLEAN, NEW w, NEW r,
           w = IF sent THEN hio_read_upstream_on_write_complete(h, g) ELSE h,
           r = IF less THEN stop_reading(w, f, g) ELSE w
    PROVE  /\ r \in Hs /\ r.sock = h.sock
           /\ \A x \in Fds : Frame(h, r, x) /\ r.io[x].write_queue = h.io[x].write_queue
           /\ h.io[g].upstream_io = f =>
                /\ \A x \in Fds \ {f} : r.io[x].reading <=> h.io[x].reading
                /\ \A x \in Fds \ {g} : r.io[x].write_cb <=> h.io[x].write_cb
                /\ less => r.io[g].write_cb
                /\ ~less /\ h.io[f].reading /\ h.io[f].ready => r.io[f].reading
<1>1. /\ w \in Hs /\ w.sock = h.sock
      /\ \A x \in Fds : Frame(h, w, x) /\ w.io[x].write_queue = h.io[x].write_queue
      /\ h.io[g].upstream_io = f =>
           /\ \A x \in Fds \ {f} : w.io[x].reading <=> h.io[x].reading
           /\ \A x \in Fds \ {g} : w.io[x].write_cb <=> h.io[x].write_cb
           /\ h.io[f].reading /\ h.io[f].ready => w.io[f].reading
  <2>1. CASE ~sent  BY <2>1 DEF Frame, Waiting
  <2>2. CASE sent
    <3>0. w = hio_read_upstream_on_write_complete(h, g)  BY <2>2
    <3> DEFINE y == h.io[g].upstream_io
    <3>1. /\ w \in Hs /\ w.sock = h.sock
          /\ \A x \in Fds : Frame(h, w, x) /\ w.io[x].write_queue = h.io[x].write_queue
          /\ \A x \in Fds \ {g} : w.io[x].write_cb <=> h.io[x].write_cb
          /\ \A x \in Fds : x # y => (w.io[x].reading <=> h.io[x].reading)
          /\ IF ~h.io[g].write_cb \/ y = None \/ h.io[g].write_queue # << >>
             THEN w = h
             ELSE w.io[y].reading <=> w.io[y].ready
      BY ONLY <3>0, h \in Hs, g \in Fds, h.io[g].upstream_io # g, CompleteView
    <3>2. ASSUME y = f, h.io[f].reading, h.io[f].ready  PROVE w.io[f].reading
      BY <3>1, <3>2 DEF Frame
    <3> HIDE DEF y
    <3> QED  BY <3>1, <3>2 DEF y
  <2> QED  BY <2>1, <2>2
<1>2. CASE ~less  BY <1>1, <1>2
<1>3. CASE less
  <2> DEFINE i == [w.io[f] EXCEPT !.reading = FALSE]
             j == [w.io[g] EXCEPT !.write_cb = TRUE]
  <2>1. w.io \in [Fds -> Ios] /\ w.io[f] \in Ios /\ w.io[g] \in Ios  BY <1>1 DEF Hs
  <2>2. i \in Ios /\ j \in Ios
    <3>1. i \in Ios  BY ONLY <2>1 DEF Ios, i
    <3>2. j \in Ios  BY ONLY <2>1 DEF Ios, j
    <3> QED  BY <3>1, <3>2
  <2>3. r = [w EXCEPT !.io[f].reading = FALSE, !.io[g].write_cb = TRUE]
    BY <1>3 DEF stop_reading
  <2>4. r = [w EXCEPT !.io = [w.io EXCEPT ![f] = i, ![g] = j]]
    BY <1>1, <2>1, <2>3 DEF Hs
  <2>5. /\ r \in Hs /\ r.sock = w.sock /\ r.io[f] = i /\ r.io[g] = j
        /\ \A x \in Fds \ {f, g} : r.io[x] = w.io[x]
    <3> HIDE DEF i, j
    <3>1. [w.io EXCEPT ![f] = i, ![g] = j] \in [Fds -> Ios]  BY <2>1, <2>2
    <3>2. r \in Hs  BY <1>1, <2>4, <3>1 DEF Hs
    <3> QED  BY <1>1, <2>1, <2>4, <3>1, <3>2 DEF Hs
  <2>6. ASSUME NEW x \in Fds
        PROVE  /\ Frame(w, r, x) /\ r.io[x].write_queue = w.io[x].write_queue
               /\ x # f => (r.io[x].reading <=> w.io[x].reading)
               /\ x # g => (r.io[x].write_cb <=> w.io[x].write_cb)
    <3>1. CASE x = f
      <4>1. r.io[x] = [w.io[x] EXCEPT !.reading = FALSE] /\ w.io[x] \in Ios  BY <2>1, <2>5, <3>1
      <4>2. x # g  BY <3>1
      <4> QED  BY ONLY <3>1, <4>1, <4>2 DEF Frame, Waiting, Ios
    <3>2. CASE x = g
      <4>1. r.io[x] = [w.io[x] EXCEPT !.write_cb = TRUE] /\ w.io[x] \in Ios  BY <2>1, <2>5, <3>2
      <4>2. x # f  BY <3>2
      <4> QED  BY ONLY <3>2, <4>1, <4>2 DEF Frame, Waiting, Ios
    <3>3. CASE x \notin {f, g}  BY <2>5, <3>3 DEF Frame, Waiting
    <3> QED  BY <3>1, <3>2, <3>3
  <2>7. r.io[g].write_cb  BY <2>1, <2>5 DEF Ios
  <2> HIDE DEF i, j
  <2>8. ASSUME NEW x \in Fds  PROVE Frame(h, r, x)
    <3>1. Frame(h, w, x) /\ Frame(w, r, x)  BY <1>1, <2>6
    <3> QED  BY ONLY <3>1 DEF Frame, Waiting
  <2> QED  BY <1>1, <1>3, <2>5, <2>6, <2>7, <2>8
<1> QED  BY <1>2, <1>3

\* nio_read of f takes the bytes from the front of what its peer has sent.
Takes(h, f, rest) == h = [Now EXCEPT !.sock[f].rx = rest]

LEMMA TakesBytes ==
    ASSUME IInv, NEW f \in Fds, io[f].ready, NEW rest \in Seq(Bytes), NEW h,
           Takes(h, f, rest)
    PROVE  /\ h \in Hs /\ h.io = io /\ h.sock \in [Fds -> Socks] /\ Sane(h)
           /\ h.sock[f] = [sock[f] EXCEPT !.rx = rest] /\ h.sock[f].rx = rest
           /\ h.sock[f].n = sock[f].n /\ h.sock[f].out = sock[f].out
           /\ h.sock[f].got = sock[f].got /\ h.sock[f].state = sock[f].state
           /\ \A x \in Fds \ {f} : h.sock[x] = sock[x]
           /\ \A x \in Fds : Frame(Now, h, x)
<1>1. /\ Now \in Hs /\ Now.io = io /\ Now.sock = sock /\ Sane(Now)
      /\ io \in [Fds -> Ios] /\ sock \in [Fds -> Socks]
      /\ \A x \in Fds : io[x] \in Ios /\ sock[x] \in Socks
  BY NowType
<1> DEFINE k == [sock[f] EXCEPT !.rx = rest]
<1>2. k \in Socks  BY <1>1 DEF Socks
<1>3. h = [io |-> io, sock |-> [sock EXCEPT ![f] = k]]  BY <1>1 DEF Now, Takes
<1>4. /\ k.rx = rest /\ k.n = sock[f].n /\ k.out = sock[f].out
      /\ k.got = sock[f].got /\ k.state = sock[f].state
  BY <1>1 DEF Socks
<1>5. /\ h \in Hs /\ h.io = io /\ h.sock \in [Fds -> Socks] /\ h.sock[f] = k
      /\ \A x \in Fds \ {f} : h.sock[x] = sock[x]
  <2> HIDE DEF k
  <2>1. [sock EXCEPT ![f] = k] \in [Fds -> Socks]  BY <1>1, <1>2
  <2>2. h \in Hs
    <3>1. io \in [Fds -> Ios]  BY <1>1
    <3> QED  BY ONLY <1>3, <2>1, <3>1 DEF Hs
  <2> QED  BY <1>1, <1>3, <2>1, <2>2
<1>6. \A x \in Fds : Frame(Now, h, x)  BY <1>1, <1>5 DEF Frame, Waiting
<1>7. Sane(h)
  <2> SUFFICES ASSUME NEW x \in Fds
               PROVE  /\ h.io[x].ready => h.io[x].id > 0 /\ h.sock[x].state # "none"
                      /\ ~h.io[x].ready => h.sock[x] = NoSock
                      /\ Len(h.sock[x].out) - h.sock[x].got \in 0..SndBuf
                      /\ h.io[x].upstream_io # x
    BY <1>5 DEF Sane
  <2>0. /\ io[x].ready => io[x].id > 0 /\ sock[x].state # "none"
        /\ ~io[x].ready => sock[x] = NoSock
        /\ Len(sock[x].out) - sock[x].got \in 0..SndBuf
        /\ io[x].upstream_io # x
    BY <1>1 DEF Sane
  <2>1. CASE x = f
    <3>1. h.io[x] = io[x] /\ h.sock[x] = k /\ io[x].ready  BY <1>5, <2>1
    <3> HIDE DEF k
    <3> QED  BY <1>4, <2>0, <2>1, <3>1
  <2>2. CASE x # f
    <3>1. h.io[x] = io[x] /\ h.sock[x] = sock[x]  BY <1>5, <2>2
    <3> QED  BY <2>0, <3>1
  <2> QED  BY <2>1, <2>2
<1> QED  BY <1>4, <1>5, <1>6, <1>7

\* The bytes that f read are put behind those that g has: n of them are sent,
\* and only if g's queue is empty; the others are queued.
Puts(f, g, bytes, rest, n) ==
    /\ io[f].ready /\ io[f].reading /\ g = io[f].upstream_io /\ io[g].ready
    /\ bytes \o rest = sock[f].rx
    /\ n = 0 \/ (io[g].write_queue = << >> /\ n <= SndBuf - (Len(sock[g].out) - sock[g].got))

Written(r, h, f, g, bytes, n) ==
    r = LET w == WriteTo(h, g, n, bytes)
        IN  IF n < Len(bytes) THEN stop_reading(w, f, g) ELSE w

\* What comes after what g had is what f's peer sent.
Joined(o, q, bytes, n) ==
    LET a == SubSeq(bytes, 1, n)
        b == SubSeq(bytes, n + 1, Len(bytes)) IN
    /\ a \in Seq(Bytes) /\ b \in Seq(Bytes) /\ Len(a) = n /\ Len(b) = Len(bytes) - n
    /\ o \o a \in Seq(Bytes) /\ Len(o \o a) = Len(o) + n /\ q \o b \in Seq(Bytes)
    /\ n < Len(bytes) => q \o b # << >>
    /\ (o \o a) \o (q \o b) = (o \o q) \o bytes

LEMMA PutJoins ==
    ASSUME NEW o \in Seq(Bytes), NEW q \in Seq(Bytes), NEW bytes \in Seq(Bytes),
           NEW n \in 0..Len(bytes), n = 0 \/ q = << >>
    PROVE  Joined(o, q, bytes, n)
<1> DEFINE a == SubSeq(bytes, 1, n)
           b == SubSeq(bytes, n + 1, Len(bytes))
<1>1. /\ a \in Seq(Bytes) /\ b \in Seq(Bytes) /\ Len(a) = n /\ Len(b) = Len(bytes) - n
      /\ a \o b = bytes
  BY Cut
<1> HIDE DEF a, b
<1>2. /\ Len(bytes) \in Nat /\ Len(o) \in Nat /\ Len(q) \in Nat /\ n \in Nat
  BY LenProperties
<1>3. /\ o \o a \in Seq(Bytes) /\ Len(o \o a) = Len(o) + n
      /\ q \o b \in Seq(Bytes) /\ Len(q \o b) = Len(q) + Len(b)
      /\ o \o q \in Seq(Bytes)
  BY <1>1, ConcatProperties
<1>4. ASSUME n < Len(bytes)  PROVE q \o b # << >>
  <2>1. Len(q \o b) # 0  BY <1>1, <1>2, <1>3, <1>4
  <2>2. Len(<< >>) = 0  OBVIOUS
  <2> QED  BY ONLY <2>1, <2>2
<1>5. (o \o a) \o (q \o b) = (o \o q) \o bytes
  <2>1. CASE n = 0
    <3>1. a = << >>  BY <1>1, <2>1, EmptySeq
    <3>2. o \o a = o /\ b = bytes  BY <1>1, <3>1, ConcatEmptySeq
    <3>3. (o \o q) \o bytes = o \o (q \o bytes)
      BY ONLY o \in Seq(Bytes), q \in Seq(Bytes), bytes \in Seq(Bytes), ConcatAssociative
    <3> QED  BY <3>2, <3>3
  <2>2. CASE q = << >>
    <3>1. q \o b = b /\ o \o q = o  BY <1>1, <2>2, ConcatEmptySeq
    <3>2. (o \o a) \o b = o \o (a \o b)
      <4>1. a \in Seq(Bytes) /\ b \in Seq(Bytes)  BY <1>1
      <4> QED  BY ONLY SMTT(30), o \in Seq(Bytes), <4>1, ConcatAssociative
    <3> QED  BY <1>1, <3>1, <3>2
  <2> QED  BY <2>1, <2>2
<1> QED  BY <1>1, <1>3, <1>4, <1>5 DEF a, b, Joined

AfterPut(r, f, g, bytes, rest, n) ==
    /\ r \in Hs /\ f # g /\ \A x \in Fds : Frame(Now, r, x)
    /\ r.sock[f] = [sock[f] EXCEPT !.rx = rest]
    /\ r.sock[g] = [sock[g] EXCEPT !.out = sock[g].out \o SubSeq(bytes, 1, n)]
    /\ r.io[g].write_queue = io[g].write_queue \o SubSeq(bytes, n + 1, Len(bytes))
    /\ \A x \in Fds \ {f, g} : r.sock[x] = sock[x]
    /\ \A x \in Fds \ {g} : r.io[x].write_queue = io[x].write_queue
    /\ io[g].upstream_io = f =>
         /\ \A x \in Fds \ {f} : r.io[x].reading <=> io[x].reading
         /\ \A x \in Fds \ {g} : r.io[x].write_cb <=> io[x].write_cb
         /\ n < Len(bytes) => r.io[g].write_cb
         /\ ~(n < Len(bytes)) => r.io[f].reading

LEMMA PutView ==
    ASSUME IInv, NEW f \in Fds, NEW g \in Fds, NEW bytes \in Seq(Bytes), NEW rest \in Seq(Bytes),
           NEW n \in 0..Len(bytes), Puts(f, g, bytes, rest, n),
           NEW h, Takes(h, f, rest),
           NEW r, Written(r, h, f, g, bytes, n)
    PROVE  AfterPut(r, f, g, bytes, rest, n)
<1> DEFINE a == SubSeq(bytes, 1, n)
           b == SubSeq(bytes, n + 1, Len(bytes))
           i == [io[g] EXCEPT !.write_queue = io[g].write_queue \o b]
           k == [sock[g] EXCEPT !.out = sock[g].out \o a]
           w == [h EXCEPT !.sock[g] = Sent(@, a), !.io[g].write_queue = @ \o b]
<1>1. /\ Now \in Hs /\ Now.io = io /\ Now.sock = sock /\ Sane(Now)
      /\ io \in [Fds -> Ios] /\ sock \in [Fds -> Socks]
      /\ \A x \in Fds : io[x] \in Ios /\ sock[x] \in Socks
  BY NowType
<1>2. /\ io[f].ready /\ io[f].reading /\ g = io[f].upstream_io /\ io[g].ready
      /\ n = 0 \/ io[g].write_queue = << >>
  BY DEF Puts
<1>3. f # g /\ io[g].upstream_io # g  BY <1>1, <1>2 DEF Sane
<1>4. /\ h \in Hs /\ h.io = io /\ h.sock \in [Fds -> Socks]
      /\ h.sock[f] = [sock[f] EXCEPT !.rx = rest]
      /\ \A x \in Fds \ {f} : h.sock[x] = sock[x]
      /\ \A x \in Fds : Frame(Now, h, x)
  <2>1. io[f].ready /\ Takes(h, f, rest)  BY <1>2
  <2>2. /\ h \in Hs /\ h.io = io /\ h.sock \in [Fds -> Socks] /\ Sane(h)
        /\ h.sock[f] = [sock[f] EXCEPT !.rx = rest] /\ h.sock[f].rx = rest
        /\ h.sock[f].n = sock[f].n /\ h.sock[f].out = sock[f].out
        /\ h.sock[f].got = sock[f].got /\ h.sock[f].state = sock[f].state
        /\ \A x \in Fds \ {f} : h.sock[x] = sock[x]
        /\ \A x \in Fds : Frame(Now, h, x)
    BY ONLY IInv, f \in Fds, rest \in Seq(Bytes), <2>1, TakesBytes
  <2> QED  BY <2>2
<1>5. sock[g].out \o a \in Seq(Bytes) /\ io[g].write_queue \o b \in Seq(Bytes)
  <2>1. sock[g].out \in Seq(Bytes) /\ io[g].write_queue \in Seq(Bytes)  BY <1>1 DEF Ios, Socks
  <2> QED  BY <1>2, <2>1, PutJoins DEF Joined
<1> HIDE DEF a, b
<1>6. i \in Ios /\ k \in Socks
  <2>1. io[g] \in Ios /\ sock[g] \in Socks  BY <1>1
  <2>2. i \in Ios
    <3> DEFINE q == io[g].write_queue \o b
    <3>1. q \in Seq(Bytes)  BY <1>5
    <3> HIDE DEF q
    <3>2. [io[g] EXCEPT !.write_queue = q] \in Ios  BY ONLY <2>1, <3>1 DEF Ios
    <3> QED  BY <3>2 DEF q
  <2>3. k \in Socks
    <3> DEFINE o == sock[g].out \o a
    <3>1. o \in Seq(Bytes)  BY <1>5
    <3> HIDE DEF o
    <3>2. [sock[g] EXCEPT !.out = o] \in Socks  BY ONLY <2>1, <3>1 DEF Socks
    <3> QED  BY <3>2 DEF o
  <2> QED  BY <2>2, <2>3
<1>7. h.sock[g] = sock[g] /\ h.io[g] = io[g]  BY <1>3, <1>4
<1>8. w = [io |-> [io EXCEPT ![g] = i], sock |-> [h.sock EXCEPT ![g] = k]]
  <2> DEFINE c == [h EXCEPT !.sock[g] = Sent(@, a)]
             s == [h.sock EXCEPT ![g] = k]
  <2>1. h = [io |-> io, sock |-> h.sock]  BY <1>4 DEF Hs
  <2>2. c = [io |-> io, sock |-> s]
    <3> DEFINE m == h.sock
    <3>1. h = [io |-> io, sock |-> m] /\ m[g] = sock[g]  BY <1>7, <2>1
    <3> HIDE DEF m
    <3>2. c = [io |-> io, sock |-> [m EXCEPT ![g] = Sent(m[g], a)]]
      <4> DEFINE u == [m EXCEPT ![g] = Sent(m[g], a)]
      <4>1. h.sock = m  BY DEF m
      <4>2. c = [h EXCEPT !.sock = [h.sock EXCEPT ![g] = Sent(h.sock[g], a)]]  OBVIOUS
      <4>3. c = [h EXCEPT !.sock = u]  BY ONLY <4>1, <4>2 DEF u
      <4> HIDE DEF u, c
      <4>4. c = [io |-> io, sock |-> u]  BY ONLY <3>1, <4>3
      <4> QED  BY <4>4 DEF u
    <3>3. Sent(m[g], a) = k  BY <3>1 DEF Sent
    <3> HIDE DEF k
    <3> QED  BY <3>2, <3>3 DEF m
  <2>3. w = [c EXCEPT !.io[g].write_queue = @ \o b]  BY <2>1
  <2> HIDE DEF c, s, k
  <2>4. [c EXCEPT !.io[g].write_queue = @ \o b] = [io |-> [io EXCEPT ![g] = i], sock |-> s]
    <3>1. c.io = io  BY <2>2
    <3>2. [c EXCEPT !.io[g].write_queue = @ \o b]
            = [c EXCEPT !.io = [c.io EXCEPT ![g] =
                 [c.io[g] EXCEPT !.write_queue = c.io[g].write_queue \o b]]]
      OBVIOUS
    <3>3. [c.io[g] EXCEPT !.write_queue = c.io[g].write_queue \o b] = i  BY <3>1
    <3> HIDE DEF i
    <3>4. [c EXCEPT !.io[g].write_queue = @ \o b] = [c EXCEPT !.io = [io EXCEPT ![g] = i]]
      BY ONLY <3>1, <3>2, <3>3
    <3> DEFINE m == [io EXCEPT ![g] = i]
    <3> HIDE DEF m
    <3>5. [c EXCEPT !.io = m] = [io |-> m, sock |-> s]
      BY ONLY <2>2
    <3> QED  BY ONLY <3>4, <3>5 DEF m
  <2> QED  BY <2>3, <2>4 DEF s
<1>9. /\ w \in Hs /\ w.io[g] = i /\ w.sock[g] = k /\ w.sock[f] = h.sock[f]
      /\ \A x \in Fds \ {g} : w.io[x] = io[x]
      /\ \A x \in Fds \ {f, g} : w.sock[x] = sock[x]
  <2> HIDE DEF i, k, w
  <2>1. [io EXCEPT ![g] = i] \in [Fds -> Ios]  BY <1>1, <1>6
  <2>2. [h.sock EXCEPT ![g] = k] \in [Fds -> Socks]  BY <1>4, <1>6
  <2>3. w \in Hs  BY ONLY <1>8, <2>1, <2>2 DEF Hs
  <2> QED  BY <1>1, <1>3, <1>4, <1>8, <2>3
<1>10. /\ i.upstream_io = io[g].upstream_io /\ i.write_queue = io[g].write_queue \o b
       /\ (i.reading <=> io[g].reading) /\ (i.write_cb <=> io[g].write_cb)
  BY <1>1 DEF Ios
<1>11. \A x \in Fds : Frame(Now, w, x)
  <2> HIDE DEF w
  <2> SUFFICES ASSUME NEW x \in Fds  PROVE Frame(Now, w, x)
    OBVIOUS
  <2>1. CASE x = g
    <3>1. io[g] \in Ios /\ w.io[x] = i /\ Now.io[x] = io[g]  BY <1>1, <1>9, <2>1
    <3> QED  BY ONLY <3>1 DEF Frame, Waiting, Ios, i
  <2>2. CASE x # g
    <3>1. w.io[x] = Now.io[x]  BY <1>1, <1>9, <2>2
    <3> QED  BY ONLY <3>1 DEF Frame, Waiting
  <2> QED  BY <2>1, <2>2
<1> DEFINE sent == n > 0
           less == n < Len(bytes)
           v == IF sent THEN hio_read_upstream_on_write_complete(w, g) ELSE w
<1>12. v = WriteTo(h, g, n, bytes)  BY DEF WriteTo, a, b
<1>13. r = IF less THEN stop_reading(v, f, g) ELSE v  BY <1>12 DEF Written
<1> HIDE DEF i, k, w
<1>14. w.io[g].upstream_io = io[g].upstream_io  BY <1>9, <1>10
<1>15. sent \in BOOLEAN /\ less \in BOOLEAN  OBVIOUS
<1>16. v = IF sent THEN hio_read_upstream_on_write_complete(w, g) ELSE w  OBVIOUS
<1> HIDE DEF sent, less, v
<1>17. /\ r \in Hs /\ r.sock = w.sock
       /\ \A x \in Fds : Frame(w, r, x) /\ r.io[x].write_queue = w.io[x].write_queue
       /\ w.io[g].upstream_io = f =>
            /\ \A x \in Fds \ {f} : r.io[x].reading <=> w.io[x].reading
            /\ \A x \in Fds \ {g} : r.io[x].write_cb <=> w.io[x].write_cb
            /\ less => r.io[g].write_cb
            /\ ~less /\ w.io[f].reading /\ w.io[f].ready => r.io[f].reading
  <2>1. w.io[g].upstream_io # g /\ w \in Hs  BY <1>3, <1>9, <1>14
  <2> QED  BY ONLY f \in Fds, g \in Fds, <1>3, <1>13, <1>15, <1>16, <2>1, WroteView
<1>18. ASSUME NEW x \in Fds  PROVE Frame(Now, r, x)
  <2>1. Frame(Now, w, x) /\ Frame(w, r, x)  BY <1>11, <1>17
  <2> QED  BY ONLY <2>1 DEF Frame, Waiting
<1>19. \A x \in Fds \ {g} : r.io[x].write_queue = io[x].write_queue  BY <1>9, <1>17
<1>20. /\ r.io[g].write_queue = io[g].write_queue \o b
       /\ r.sock[g] = k /\ r.sock[f] = [sock[f] EXCEPT !.rx = rest]
       /\ \A x \in Fds \ {f, g} : r.sock[x] = sock[x]
  BY <1>4, <1>9, <1>10, <1>17
<1>21. ASSUME io[g].upstream_io = f
       PROVE  /\ \A x \in Fds \ {f} : r.io[x].reading <=> io[x].reading
              /\ \A x \in Fds \ {g} : r.io[x].write_cb <=> io[x].write_cb
              /\ less => r.io[g].write_cb
              /\ ~less => r.io[f].reading
  <2>1. \A x \in Fds : /\ (w.io[x].reading <=> io[x].reading)
                       /\ (w.io[x].write_cb <=> io[x].write_cb)
    BY <1>9, <1>10
  <2>2. w.io[f].reading /\ w.io[f].ready  BY <1>2, <1>3, <1>9
  <2> QED  BY <1>14, <1>17, <1>21, <2>1, <2>2
<1> QED  BY <1>3, <1>17, <1>18, <1>19, <1>20, <1>21 DEF a, b, k, less, AfterPut


LEMMA PutKeeps ==
    ASSUME IInv, NEW f \in Fds, NEW g \in Fds, NEW bytes \in Seq(Bytes), NEW rest \in Seq(Bytes),
           NEW n \in 0..Len(bytes), Puts(f, g, bytes, rest, n),
           NEW h, Takes(h, f, rest),
           NEW r, Written(r, h, f, g, bytes, n)
    PROVE  r \in Hs /\ Good(r, posted, reuse) /\ Ids(Now, r)
<1> DEFINE a == SubSeq(bytes, 1, n)
           b == SubSeq(bytes, n + 1, Len(bytes))
           o == sock[g].out
           q == io[g].write_queue
           less == n < Len(bytes)
<1>1. /\ Now \in Hs /\ Now.io = io /\ Now.sock = sock /\ Sane(Now)
      /\ \A x \in Fds : io[x] \in Ios /\ sock[x] \in Socks
      /\ Good(Now, posted, reuse)
  BY NowType DEF IInv
<1>2. /\ io[f].ready /\ g = io[f].upstream_io /\ io[g].ready /\ bytes \o rest = sock[f].rx
      /\ n = 0 \/ (q = << >> /\ n <= SndBuf - (Len(o) - sock[g].got))
  BY DEF Puts
<1>3. /\ r \in Hs /\ f # g /\ \A x \in Fds : Frame(Now, r, x)
      /\ r.sock[f] = [sock[f] EXCEPT !.rx = rest]
      /\ r.sock[g] = [sock[g] EXCEPT !.out = o \o a]
      /\ r.io[g].write_queue = q \o b
      /\ \A x \in Fds \ {f, g} : r.sock[x] = sock[x]
      /\ \A x \in Fds \ {g} : r.io[x].write_queue = io[x].write_queue
      /\ io[g].upstream_io = f =>
           /\ \A x \in Fds \ {f} : r.io[x].reading <=> io[x].reading
           /\ \A x \in Fds \ {g} : r.io[x].write_cb <=> io[x].write_cb
           /\ less => r.io[g].write_cb
           /\ ~less => r.io[f].reading
  <2>1. AfterPut(r, f, g, bytes, rest, n)
    BY ONLY IInv, f \in Fds, g \in Fds, bytes \in Seq(Bytes), rest \in Seq(Bytes),
            n \in 0..Len(bytes), Puts(f, g, bytes, rest, n), Takes(h, f, rest),
            Written(r, h, f, g, bytes, n), PutView
  <2> QED  BY ONLY <2>1 DEF AfterPut, a, b, o, q, less
<1>4. o \in Seq(Bytes) /\ q \in Seq(Bytes) /\ Len(o) \in Nat /\ sock[g].got \in Nat
  BY <1>1, LenProperties DEF Ios, Socks
<1>5. /\ a \in Seq(Bytes) /\ b \in Seq(Bytes)
      /\ o \o a \in Seq(Bytes) /\ Len(o \o a) = Len(o) + n /\ q \o b \in Seq(Bytes)
      /\ less => q \o b # << >>
      /\ (o \o a) \o (q \o b) = (o \o q) \o bytes
  <2> HIDE DEF o, q
  <2>1. n = 0 \/ q = << >>  BY <1>2
  <2>2. o \in Seq(Bytes) /\ q \in Seq(Bytes)  BY <1>4
  <2>3. Joined(o, q, bytes, n)
    BY ONLY <2>1, <2>2, bytes \in Seq(Bytes), n \in 0..Len(bytes), PutJoins
  <2> QED  BY <2>3 DEF Joined
<1>6. /\ r.sock[f].rx = rest /\ r.sock[f].n = sock[f].n /\ r.sock[f].out = sock[f].out
      /\ r.sock[f].got = sock[f].got /\ r.sock[f].state = sock[f].state
      /\ r.sock[g].rx = sock[g].rx /\ r.sock[g].n = sock[g].n /\ r.sock[g].out = o \o a
      /\ r.sock[g].got = sock[g].got /\ r.sock[g].state = sock[g].state
  <2>1. sock[f] \in Socks /\ sock[g] \in Socks  BY <1>1
  <2> DEFINE c == o \o a
  <2> HIDE DEF c, o
  <2>2. r.sock[f] = [sock[f] EXCEPT !.rx = rest] /\ r.sock[g] = [sock[g] EXCEPT !.out = c]
    BY <1>3 DEF c
  <2>3. /\ r.sock[f].rx = rest /\ r.sock[f].n = sock[f].n /\ r.sock[f].out = sock[f].out
        /\ r.sock[f].got = sock[f].got /\ r.sock[f].state = sock[f].state
    BY ONLY <2>1, <2>2 DEF Socks
  <2>4. /\ r.sock[g].rx = sock[g].rx /\ r.sock[g].n = sock[g].n /\ r.sock[g].out = c
        /\ r.sock[g].got = sock[g].got /\ r.sock[g].state = sock[g].state
    BY ONLY <2>1, <2>2 DEF Socks
  <2> QED  BY <2>3, <2>4 DEF c
<1> HIDE DEF a, b, o, q
<1>7. /\ \A x \in Fds : Pair(r, x) /\ Doomed(r, posted, x)
      /\ ~reuse => \A x \in Fds : Link(r, x)
      /\ \A x \in Fds : Moving(Now, posted, x) => Moving(r, posted, x)
  BY <1>1, <1>3, FrameKeeps DEF Good
<1>8. \A x \in Fds : /\ (r.io[x].ready <=> io[x].ready) /\ r.io[x].id = io[x].id
                     /\ r.io[x].side = io[x].side /\ r.io[x].upstream_io = io[x].upstream_io
                     /\ (io[x].error => r.io[x].error)
                     /\ io[x].upstream_io \in Fds \cup {None}
  <2>1. \A x \in Fds : io[x].upstream_io \in Fds \cup {None}  BY <1>1 DEF Ios
  <2> QED  BY <1>1, <1>3, <2>1 DEF Frame
<1>9. Sane(r)
  <2> SUFFICES ASSUME NEW x \in Fds
               PROVE  /\ r.io[x].ready => r.io[x].id > 0 /\ r.sock[x].state # "none"
                      /\ ~r.io[x].ready => r.sock[x] = NoSock
                      /\ Len(r.sock[x].out) - r.sock[x].got \in 0..SndBuf
                      /\ r.io[x].upstream_io # x
    BY <1>3 DEF Sane
  <2>1. /\ io[x].ready => io[x].id > 0 /\ sock[x].state # "none"
        /\ ~io[x].ready => sock[x] = NoSock
        /\ Len(sock[x].out) - sock[x].got \in 0..SndBuf
        /\ io[x].upstream_io # x
    BY <1>1 DEF Sane
  <2>2. CASE x = f  BY SMTT(30), <1>2, <1>6, <1>8, <2>1, <2>2
  <2>3. CASE x = g
    <3>1. Len(r.sock[g].out) - r.sock[g].got \in 0..SndBuf
      <4> DEFINE l == Len(o)
                 c == sock[g].got
      <4>1. l \in Nat /\ c \in Nat /\ n \in Nat /\ SndBuf \in Nat  BY <1>4, UpstreamAssumption
      <4>2. l - c \in 0..SndBuf /\ (n = 0 \/ n <= SndBuf - (l - c))  BY <1>2, <2>1, <2>3 DEF o
      <4>3. Len(r.sock[g].out) = l + n /\ r.sock[g].got = c  BY <1>5, <1>6
      <4> HIDE DEF l, c
      <4>4. (l + n) - c \in 0..SndBuf  BY <4>1, <4>2
      <4> QED  BY <4>3, <4>4
    <3> QED  BY <1>2, <1>6, <1>8, <2>1, <2>3, <3>1
  <2>4. CASE x \notin {f, g}  BY <1>3, <1>8, <2>1, <2>4
  <2> QED  BY <2>2, <2>3, <2>4
<1>10. ASSUME ~reuse
       PROVE  /\ io[g].upstream_io = f /\ io[g].id = io[f].id /\ f # None /\ g # None
              /\ \A x \in Fds : io[x].ready /\ x # g => io[x].upstream_io # f
              /\ \A x \in Fds : io[x].ready /\ x # f => io[x].upstream_io # g
  <2>1. \A x \in Fds : x # None  BY UpstreamAssumption DEF None
  <2>2. \A x \in Fds : io[x].ready /\ io[x].upstream_io # None
                         => /\ io[io[x].upstream_io].upstream_io = x
                            /\ io[io[x].upstream_io].id = io[x].id
    BY <1>1, <1>10 DEF Good, Link
  <2> QED  BY <1>2, <2>1, <2>2
<1>11. ASSUME ~reuse, NEW x \in Fds  PROVE Flow(r, x)
  <2> SUFFICES ASSUME r.io[x].ready, ~r.io[x].error  PROVE Flow(r, x)
    BY DEF Flow
  <2> DEFINE y == io[x].upstream_io
             id == io[x].id
             d == Other(io[x].side)
  <2>1. io[x].ready /\ ~io[x].error  BY <1>8
  <2>2. Flow(Now, x)  BY <1>1, <1>11 DEF Good
  <2>3. LET got == sock[x].out \o io[x].write_queue
        IN  /\ got = Stream(id, d, Len(got))
            /\ y # None /\ io[y].ready => got \o sock[y].rx = Stream(id, d, sock[y].n)
    BY <1>1, <2>1, <2>2 DEF Flow
  <2>4. CASE x # g
    <3>1. y # f  BY <1>10, <1>11, <2>1, <2>4
    <3>2. r.sock[x].out = sock[x].out /\ r.io[x].write_queue = io[x].write_queue
      BY <1>3, <1>6, <2>4
    <3>3. y # None => r.sock[y].rx = sock[y].rx /\ r.sock[y].n = sock[y].n
      <4>1. y = g => r.sock[y].rx = sock[y].rx /\ r.sock[y].n = sock[y].n  BY <1>6
      <4>2. y \in Fds \ {f, g} => r.sock[y] = sock[y]  BY <1>3
      <4>3. y \in Fds \cup {None}  BY <1>8
      <4> HIDE DEF y
      <4> QED  BY <3>1, <4>1, <4>2, <4>3
    <3>4. y # None => (r.io[y].ready <=> io[y].ready)  BY <1>8
    <3>5. r.io[x].upstream_io = y /\ r.io[x].id = id /\ Other(r.io[x].side) = d  BY <1>8
    <3> HIDE DEF y, id, d
    <3> QED  BY ONLY <2>3, <3>2, <3>3, <3>4, <3>5 DEF Flow
  <2>5. CASE x = g
    <3> DEFINE s == o \o q
               t == s \o bytes
    <3>1. y = f /\ f # None  BY <1>10, <1>11, <2>5
    <3>2. s \in Seq(Bytes) /\ t \in Seq(Bytes)  BY <1>4, ConcatProperties
    <3>3. s \o (bytes \o rest) = Stream(id, d, sock[f].n)
      BY <1>2, <2>3, <2>5, <3>1 DEF o, q
    <3>4. (s \o bytes) \o rest = s \o (bytes \o rest)
      <4>1. s \in Seq(Bytes)  BY <3>2
      <4> HIDE DEF s
      <4> QED  BY ONLY SMTT(30), <4>1, bytes \in Seq(Bytes), rest \in Seq(Bytes), ConcatAssociative
    <3>5. t \o rest = Stream(id, d, sock[f].n)  BY <3>3, <3>4
    <3>6. id \in 1..MaxSessions /\ d \in Sides /\ sock[f].n \in Nat
      <4>1. io[x] \in Ios /\ sock[f] \in Socks /\ id > 0  BY <1>1, <2>1 DEF Sane
      <4>2. io[x].side \in Sides /\ id \in 0..MaxSessions /\ sock[f].n \in Nat
        BY <4>1 DEF Ios, Socks
      <4> QED  BY <4>1, <4>2, Sidedness, UpstreamAssumption
    <3>7. r.sock[x].out \o r.io[x].write_queue = t  BY <1>3, <1>5, <1>6, <2>5
    <3>8. r.sock[f].rx = rest /\ r.sock[f].n = sock[f].n  BY <1>6
    <3>9. r.io[x].upstream_io = f /\ r.io[x].id = id /\ Other(r.io[x].side) = d  BY <1>8, <3>1
    <3> HIDE DEF t, id, d
    <3>10. t = Stream(id, d, Len(t))
      BY ONLY <3>2, <3>5, <3>6, rest \in Seq(Bytes), StreamPrefix
    <3> QED  BY ONLY <3>5, <3>7, <3>8, <3>9, <3>10 DEF Flow
  <2> QED  BY SMTT(30), <2>4, <2>5
<1>12. ASSUME ~reuse, NEW x \in Fds  PROVE Live(r, posted, x)
  <2>1. /\ \A z \in Fds \ {f} : r.io[z].reading <=> io[z].reading
        /\ \A z \in Fds \ {g} : r.io[z].write_cb <=> io[z].write_cb
        /\ less => r.io[g].write_cb
        /\ ~less => r.io[f].reading
    BY <1>3, <1>10, <1>12
  <2>2. CASE x = f
    <3>1. CASE less
      <4>1. r.io[g].write_queue # << >> /\ r.io[g].write_cb  BY <1>3, <1>5, <2>1, <3>1
      <4>2. r.io[x].upstream_io = g  BY <1>2, <1>8, <2>2
      <4> QED  BY ONLY <4>1, <4>2 DEF Live
    <3>2. CASE ~less
      <4>1. r.io[x].reading  BY <2>1, <2>2, <3>2
      <4> QED  BY ONLY <4>1 DEF Live
    <3> QED  BY <3>1, <3>2
  <2>3. CASE x # f
    <3> SUFFICES ASSUME r.io[x].ready  PROVE Live(r, posted, x)
      BY DEF Live
    <3> DEFINE y == io[x].upstream_io
    <3>1. Live(Now, posted, x)  BY <1>1, <1>12 DEF Good
    <3>2. y # g /\ y \in Fds \cup {None} /\ io[x].ready  BY <1>8, <1>10, <1>12, <2>3
    <3>3. y # None => /\ r.io[y].write_queue = io[y].write_queue
                      /\ (r.io[y].write_cb <=> io[y].write_cb)
                      /\ (r.io[y].ready <=> io[y].ready)
      BY <1>3, <1>8, <2>1, <3>2
    <3>4. r.io[x].upstream_io = y /\ (r.io[x].reading <=> io[x].reading)
      BY <1>8, <2>1, <2>3
    <3>5. /\ Moving(Now, posted, x) => Moving(r, posted, x)
          /\ y # None => (Moving(Now, posted, y) => Moving(r, posted, y))
      BY <1>7, <3>2
    <3>6. Now.io = io /\ y = io[x].upstream_io  BY <1>1
    <3> HIDE DEF y
    <3> QED  BY ONLY <3>1, <3>2, <3>3, <3>4, <3>5, <3>6 DEF Live
  <2> QED  BY <2>2, <2>3
<1>13. Ids(Now, r)  BY <1>3 DEF Ids, Frame
<1> QED  BY <1>3, <1>7, <1>9, <1>11, <1>12, <1>13 DEF Good


\* Without reuse only the other side of f points to f.
LEMMA OnlyOther ==
    ASSUME IInv, ~reuse, NEW f \in Fds, NEW x \in Fds, io[x].ready, io[x].upstream_io = f
    PROVE  x = io[f].upstream_io
<1>1. Link(Now, x) /\ Now.io = io  BY NowType DEF IInv, Good
<1>2. f # None  BY UpstreamAssumption DEF None
<1> QED  BY <1>1, <1>2 DEF Link

\* f's other side is gone: the bytes are dropped.
LEMMA DropKeeps ==
    ASSUME IInv, NEW f \in Fds, NEW g, g = io[f].upstream_io, io[f].ready,
           g = None \/ ~io[g].ready, NEW rest \in Seq(Bytes), NEW h, Takes(h, f, rest)
    PROVE  h \in Hs /\ Good(h, posted, reuse) /\ Ids(Now, h)
<1>1. Now.io = io /\ Now.sock = sock /\ Good(Now, posted, reuse) /\ Now \in Hs
      /\ \A x \in Fds : io[x] \in Ios
  BY NowType DEF IInv
<1>2. /\ h \in Hs /\ h.io = io /\ h.sock \in [Fds -> Socks] /\ Sane(h)
      /\ h.sock[f] = [sock[f] EXCEPT !.rx = rest] /\ h.sock[f].rx = rest
      /\ h.sock[f].n = sock[f].n /\ h.sock[f].out = sock[f].out
      /\ h.sock[f].got = sock[f].got /\ h.sock[f].state = sock[f].state
      /\ \A x \in Fds \ {f} : h.sock[x] = sock[x]
      /\ \A x \in Fds : Frame(Now, h, x)
  BY ONLY IInv, f \in Fds, io[f].ready, rest \in Seq(Bytes), Takes(h, f, rest), TakesBytes
<1>3. /\ \A x \in Fds : Pair(h, x) /\ Doomed(h, posted, x)
      /\ ~reuse => \A x \in Fds : Link(h, x)
  BY <1>1, <1>2, FrameKeeps DEF Good
<1>4. ASSUME ~reuse, NEW x \in Fds  PROVE Live(h, posted, x)
  BY <1>1, <1>2, <1>4 DEF Good, Live, Moving
<1>5. ASSUME ~reuse, NEW x \in Fds  PROVE Flow(h, x)
  <2> SUFFICES ASSUME io[x].ready  PROVE Flow(h, x)
    BY <1>2 DEF Flow
  <2> DEFINE y == io[x].upstream_io
  <2>1. Flow(Now, x)  BY <1>1, <1>5 DEF Good
  <2>2. y # f
    <3> SUFFICES ASSUME y = f  PROVE FALSE
      OBVIOUS
    <3>1. x = g  BY <1>5, OnlyOther
    <3>2. x # None  BY UpstreamAssumption DEF None
    <3> QED  BY <3>1, <3>2
  <2>3. y \in Fds \cup {None}  BY <1>1 DEF Ios
  <2>4. y # None => h.sock[y] = sock[y]  BY <1>2, <2>2, <2>3
  <2>5. h.sock[x].out = sock[x].out  BY <1>2
  <2>6. Now.io = io /\ Now.sock = sock /\ h.io = io /\ y = io[x].upstream_io  BY <1>1, <1>2
  <2> HIDE DEF y
  <2> QED  BY ONLY <2>1, <2>4, <2>5, <2>6 DEF Flow
<1>6. Ids(Now, h)  BY <1>1, <1>2 DEF Ids
<1> QED  BY <1>2, <1>3, <1>4, <1>5, <1>6 DEF Good

\* A send on f's other side fails: its close is posted, and the bytes are
\* dropped.
LEMMA FailKeeps ==
    ASSUME IInv, NEW f \in Fds, NEW g \in Fds, g = io[f].upstream_io, io[f].ready, io[g].ready,
           NEW rest \in Seq(Bytes), NEW h, Takes(h, f, rest),
           NEW r, r = [h EXCEPT !.io[g].error = TRUE],
           NEW p, p = Append(posted, <<"hio_close", g, io[g].id>>)
    PROVE  /\ r \in Hs /\ Good(r, p, reuse) /\ Ids(Now, r)
           /\ p \in Seq(Posts) /\ \A k \in DOMAIN p : p[k][3] <= sessions
<1>1. /\ Now.io = io /\ Now.sock = sock /\ Good(Now, posted, reuse) /\ Now \in Hs /\ Sane(Now)
      /\ \A x \in Fds : io[x] \in Ios
  BY NowType DEF IInv
<1>2. /\ h \in Hs /\ h.io = io /\ h.sock \in [Fds -> Socks] /\ Sane(h)
      /\ h.sock[f] = [sock[f] EXCEPT !.rx = rest] /\ h.sock[f].rx = rest
      /\ h.sock[f].n = sock[f].n /\ h.sock[f].out = sock[f].out
      /\ h.sock[f].got = sock[f].got /\ h.sock[f].state = sock[f].state
      /\ \A x \in Fds \ {f} : h.sock[x] = sock[x]
      /\ \A x \in Fds : Frame(Now, h, x)
  BY ONLY IInv, f \in Fds, io[f].ready, rest \in Seq(Bytes), Takes(h, f, rest), TakesBytes
<1> DEFINE d == <<"hio_close", g, io[g].id>>
           i == [io[g] EXCEPT !.error = TRUE]
<1>3. d \in Posts
  <2>1. io[g].id \in 0..MaxSessions /\ io[g].id > 0  BY <1>1 DEF Sane, Ios
  <2> QED  BY <2>1, UpstreamAssumption DEF Posts
<1>4. /\ p \in Seq(Posts) /\ In(p, d) /\ \A e : In(p, e) <=> In(posted, e) \/ e = d
  <2>1. posted \in Seq(Posts)  BY DEF IInv, Rest
  <2> HIDE DEF d
  <2>2. p = Append(posted, d)  BY DEF d
  <2>3. /\ Append(posted, d) \in Seq(Posts) /\ In(Append(posted, d), d)
        /\ \A e : In(Append(posted, d), e) <=> In(posted, e) \/ e = d
    BY ONLY <1>3, <2>1, AppendIn
  <2> QED  BY ONLY <2>2, <2>3
<1>5. \A k \in DOMAIN p : p[k][3] <= sessions
  <2> SUFFICES ASSUME NEW k \in DOMAIN p  PROVE p[k][3] <= sessions
    OBVIOUS
  <2>1. In(p, p[k])  BY DEF In
  <2>2. CASE In(posted, p[k])
    <3>1. PICK j \in DOMAIN posted : posted[j] = p[k]  BY <2>2 DEF In
    <3> QED  BY <3>1 DEF IInv, Rest, Young
  <2>3. CASE p[k] = d
    <3>1. io[g].id <= sessions  BY <1>1 DEF IInv, Rest, Young
    <3> QED  BY <2>3, <3>1
  <2> QED  BY <1>4, <2>1, <2>2, <2>3
<1>6. i \in Ios
  <2>1. io[g] \in Ios  BY <1>1
  <2> QED  BY ONLY <2>1 DEF Ios, i
<1>7. /\ (i.ready <=> io[g].ready) /\ i.id = io[g].id /\ i.side = io[g].side
      /\ i.upstream_io = io[g].upstream_io /\ i.error /\ i.write_queue = io[g].write_queue
      /\ (i.close <=> io[g].close) /\ (i.close_timer <=> io[g].close_timer)
      /\ (i.connect <=> io[g].connect) /\ (i.connect_timer <=> io[g].connect_timer)
      /\ (i.reading <=> io[g].reading) /\ (i.write_cb <=> io[g].write_cb)
  <2>1. io[g] \in Ios  BY <1>1
  <2> QED  BY ONLY <2>1 DEF i, Ios
<1>8. r = [h EXCEPT !.io = [h.io EXCEPT ![g] = i]]
  <2>1. r = [h EXCEPT !.io = [h.io EXCEPT ![g] = [h.io[g] EXCEPT !.error = TRUE]]]  OBVIOUS
  <2>2. h.io[g] = io[g]  BY <1>2
  <2> QED  BY ONLY <2>1, <2>2 DEF i
<1> HIDE DEF i, d
<1>9. /\ r \in Hs /\ r.sock = h.sock /\ r.io[g] = i /\ \A x \in Fds \ {g} : r.io[x] = io[x]
  <2>1. h.io = io /\ io \in [Fds -> Ios] /\ h \in Hs  BY <1>2, NowType
  <2>2. [io EXCEPT ![g] = i] \in [Fds -> Ios]  BY <1>6, <2>1
  <2>3. r.io = [io EXCEPT ![g] = i] /\ r.sock = h.sock  BY ONLY <1>8, <2>1 DEF Hs
  <2>4. r \in Hs
    <3> DEFINE m == [io EXCEPT ![g] = i]
    <3>1. m \in [Fds -> Ios]  BY <2>2
    <3>2. r = [h EXCEPT !.io = m]  BY <1>8, <2>1
    <3> HIDE DEF m
    <3> QED  BY ONLY <2>1, <3>1, <3>2 DEF Hs
  <2> QED  BY <2>1, <2>3, <2>4
<1>10. ASSUME NEW x \in Fds
       PROVE  /\ Same(h, r, x) /\ Frame(Now, r, x)
              /\ (r.io[x].reading <=> io[x].reading) /\ (r.io[x].write_cb <=> io[x].write_cb)
              /\ r.io[x].write_queue = io[x].write_queue
  <2>1. CASE x = g
    <3>1. r.io[x] = i /\ h.io[x] = io[g] /\ Now.io[x] = io[g] /\ r.sock[x] = h.sock[x] /\ x = g
      BY <1>1, <1>2, <1>9, <2>1
    <3> QED  BY ONLY <1>7, <3>1 DEF Same, Frame, Waiting
  <2>2. CASE x # g
    <3>1. r.io[x] = io[x] /\ h.io[x] = io[x] /\ Now.io[x] = io[x] /\ r.sock[x] = h.sock[x]
      BY <1>1, <1>2, <1>9, <2>2
    <3> QED  BY ONLY <3>1 DEF Same, Frame, Waiting
  <2> QED  BY <2>1, <2>2
<1>11. Sane(r)  BY ZenonT(40), <1>2, <1>9, <1>10, SameKeeps
<1>12. /\ \A x \in Fds : Pair(r, x)
       /\ ~reuse => \A x \in Fds : Link(r, x)
       /\ \A x \in Fds : Moving(Now, posted, x) => Moving(r, posted, x)
       /\ \A x \in Fds : Doomed(r, posted, x)
  BY ZenonT(40), <1>1, <1>9, <1>10, FrameKeeps DEF Good
<1>13. \A x \in Fds : Moving(Now, posted, x) => Moving(r, p, x)
  <2>1. \A x \in Fds : Moving(r, posted, x) => Moving(r, p, x)  BY <1>4 DEF Moving
  <2> QED  BY <1>12, <2>1
<1>14. \A x \in Fds : Doomed(r, p, x)
  <2> SUFFICES ASSUME NEW x \in Fds  PROVE Doomed(r, p, x)
    OBVIOUS
  <2>1. CASE x = g  BY SMTT(30), <1>7, <1>9, <2>1 DEF Doomed
  <2>2. CASE x # g
    <3>1. <<"hio_close", x, r.io[x].id>> # d  BY <2>2 DEF d
    <3> QED  BY <1>4, <1>12, <3>1 DEF Doomed
  <2> QED  BY <2>1, <2>2
<1>15. ASSUME ~reuse, NEW x \in Fds  PROVE Flow(r, x)
  <2>1. CASE x = g  BY <1>7, <1>9, <2>1 DEF Flow
  <2>2. CASE x # g
    <3> DEFINE y == io[x].upstream_io
    <3> SUFFICES ASSUME io[x].ready  PROVE Flow(r, x)
      BY <1>9, <2>2 DEF Flow
    <3>1. y # f  BY <1>15, <2>2, OnlyOther
    <3>2. Flow(Now, x)  BY <1>1, <1>15 DEF Good
    <3>3. y \in Fds \cup {None}  BY <1>1 DEF Ios
    <3>4. y # None => /\ r.sock[y] = sock[y] /\ (r.io[y].ready <=> io[y].ready)
      BY <1>1, <1>2, <1>9, <1>10, <3>1, <3>3 DEF Frame
    <3>5. r.io[x] = io[x] /\ r.sock[x].out = sock[x].out
      <4>1. h.sock[x].out = sock[x].out  BY <1>2
      <4> QED  BY <1>9, <2>2, <4>1
    <3>6. Now.io = io /\ Now.sock = sock /\ y = io[x].upstream_io  BY <1>1
    <3> HIDE DEF y
    <3> QED  BY ONLY <3>2, <3>4, <3>5, <3>6 DEF Flow
  <2> QED  BY <2>1, <2>2
<1>16. ASSUME ~reuse, NEW x \in Fds  PROVE Live(r, p, x)
  <2> DEFINE y == io[x].upstream_io
  <2>1. Live(Now, posted, x)  BY <1>1, <1>16 DEF Good
  <2>2. y \in Fds \cup {None}  BY SMTT(30), <1>1 DEF Ios
  <2>3. /\ r.io[x].upstream_io = y /\ (r.io[x].reading <=> io[x].reading)
        /\ (r.io[x].ready <=> io[x].ready)
    BY SMTT(30), <1>1, <1>10 DEF Frame
  <2>4. y # None => /\ r.io[y].write_queue = io[y].write_queue
                    /\ (r.io[y].write_cb <=> io[y].write_cb)
                    /\ (r.io[y].ready <=> io[y].ready)
                    /\ (Moving(Now, posted, y) => Moving(r, p, y))
    BY <1>1, <1>10, <1>13, <2>2 DEF Frame
  <2>5. Moving(Now, posted, x) => Moving(r, p, x)  BY <1>13
  <2>6. Now.io = io /\ y = io[x].upstream_io  BY <1>1
  <2> HIDE DEF y
  <2> QED  BY ONLY <2>1, <2>3, <2>4, <2>5, <2>6 DEF Live
<1>17. Ids(Now, r)  BY <1>10 DEF Ids, Frame
<1> QED  BY <1>4, <1>5, <1>9, <1>11, <1>12, <1>14, <1>15, <1>16, <1>17 DEF Good


\* nio_read: the other side gets the bytes, has failed, or is gone.
LEMMA ReadKeeps ==
    ASSUME IInv, NEW f \in Fds, HandleRead(f)
    PROVE  IInv'
<1>1. /\ Now \in Hs /\ Now.io = io /\ Now.sock = sock /\ Sane(Now)
      /\ \A x \in Fds : io[x] \in Ios /\ sock[x] \in Socks
      /\ Good(Now, posted, reuse)
  BY NowType DEF IInv
<1>2. io[f].ready /\ io[f].reading /\ UNCHANGED <<sessions, faults, reuse>>  BY DEF HandleRead
<1>3. /\ posted \in Seq(Posts) /\ \A k \in DOMAIN posted : posted[k][3] <= sessions
  BY DEF IInv, Rest, Young
<1>4. SUFFICES \E r \in Hs, p \in Seq(Posts) :
                 /\ Becomes(r) /\ posted' = p /\ Good(r, p, reuse) /\ Ids(Now, r)
                 /\ \A k \in DOMAIN p : p[k][3] <= sessions
  <2>1. PICK r \in Hs, p \in Seq(Posts) :
               /\ Becomes(r) /\ posted' = p /\ Good(r, p, reuse) /\ Ids(Now, r)
               /\ \A k \in DOMAIN p : p[k][3] <= sessions
    BY <1>4
  <2>2. Now' = r  BY <2>1, BecomesNow
  <2>3. Young(Now', p, sessions')  BY <1>2, <2>1, <2>2, StaysYoung
  <2> QED  BY <1>2, <2>1, <2>2, <2>3 DEF IInv, Rest
<1>5. CASE /\ Becomes(hio_close([Now EXCEPT !.io[f].error = TRUE], f))
           /\ UNCHANGED posted
  <2> DEFINE h == [Now EXCEPT !.io[f].error = TRUE]
  <2>1. Good(hio_close(h, f), posted, reuse) /\ h \in Hs /\ Ids(Now, hio_close(h, f))
    BY <1>1, ErrorCloses
  <2>2. Becomes(hio_close(h, f)) /\ posted' = posted  BY <1>5
  <2> HIDE DEF h
  <2>3. hio_close(h, f) \in Hs  BY <2>1, CloseView
  <2> QED  BY <1>3, <2>1, <2>2, <2>3
<1>6. CASE Becomes(hio_close(Now, f)) /\ UNCHANGED posted
  <2>1. hio_close(Now, f) \in Hs /\ Ids(Now, hio_close(Now, f))  BY <1>1, CloseIds
  <2>2. Good(hio_close(Now, f), posted, reuse)  BY <1>1, CloseKeeps
  <2> QED  BY <1>3, <1>6, <2>1, <2>2
<1>7. ASSUME NEW rx, rx = sock[f].rx, rx # << >>,
             NEW k, k = IF Len(rx) < ReadBuf THEN Len(rx) ELSE ReadBuf,
             hio_write_upstream([Now EXCEPT !.sock[f].rx = SubSeq(rx, k + 1, Len(rx))],
                                f, SubSeq(rx, 1, k))
      PROVE  \E r \in Hs, p \in Seq(Posts) :
               /\ Becomes(r) /\ posted' = p /\ Good(r, p, reuse) /\ Ids(Now, r)
               /\ \A j \in DOMAIN p : p[j][3] <= sessions
  <2> DEFINE bytes == SubSeq(rx, 1, k)
             rest  == SubSeq(rx, k + 1, Len(rx))
             h == [Now EXCEPT !.sock[f].rx = rest]
             g == io[f].upstream_io
  <2>1. rx \in Seq(Bytes) /\ k \in 0..Len(rx)
    <3>1. rx \in Seq(Bytes)  BY <1>1, <1>7 DEF Socks
    <3>2. Len(rx) \in Nat  BY <3>1, LenProperties
    <3> QED  BY <1>7, <3>1, <3>2, UpstreamAssumption
  <2>2. bytes \in Seq(Bytes) /\ rest \in Seq(Bytes) /\ bytes \o rest = rx  BY <2>1, Cut
  <2>3. Len(bytes) \in Nat  BY <2>2, LenProperties
  <2>4. g \in Fds \cup {None} /\ g # f  BY <1>1 DEF Ios, Sane
  <2>5. Takes(h, f, rest)  BY DEF Takes
  <2>6. hio_write_upstream(h, f, bytes)  BY <1>7
  <2> HIDE DEF h, rest, bytes
  <2>7. CASE g = None \/ ~io[g].ready
    <3>1. h \in Hs /\ Good(h, posted, reuse) /\ Ids(Now, h)
      <4>1. g = io[f].upstream_io /\ io[f].ready  BY <1>2
      <4> HIDE DEF g
      <4> QED  BY ONLY IInv, f \in Fds, <2>2, <2>5, <2>7, <4>1, DropKeeps
    <3>2. Becomes(h) /\ posted' = posted  BY <2>6, <2>7 DEF hio_write_upstream
    <3> QED  BY <1>3, <3>1, <3>2
  <2>8. CASE g # None /\ io[g].ready /\ TriesSend(io[g]) /\ Failed(sock[g])
    <3> DEFINE r == [h EXCEPT !.io[g].error = TRUE]
               p == Append(posted, <<"hio_close", g, io[g].id>>)
    <3>1. Becomes(r) /\ posted' = p  BY <2>6, <2>8 DEF hio_write_upstream
    <3>2. /\ r \in Hs /\ Good(r, p, reuse) /\ Ids(Now, r)
          /\ p \in Seq(Posts) /\ \A j \in DOMAIN p : p[j][3] <= sessions
      <4>1. g \in Fds /\ g = io[f].upstream_io /\ io[f].ready /\ io[g].ready  BY <1>2, <2>4, <2>8
      <4>2. r = [h EXCEPT !.io[g].error = TRUE] /\ p = Append(posted, <<"hio_close", g, io[g].id>>)
        OBVIOUS
      <4> HIDE DEF r, p, g
      <4> QED  BY ONLY IInv, f \in Fds, <2>2, <2>5, <4>1, <4>2, FailKeeps
    <3> HIDE DEF r, p
    <3> QED  BY <3>1, <3>2
  <2>9. CASE g # None /\ io[g].ready /\ ~(TriesSend(io[g]) /\ Failed(sock[g]))
    <3> DEFINE room == IF TriesSend(io[g]) THEN Space(sock[g]) ELSE 0
               n == IF room < Len(bytes) THEN room ELSE Len(bytes)
               w == WriteTo(h, g, n, bytes)
               r == IF n < Len(bytes) THEN stop_reading(w, f, g) ELSE w
    <3>1. Becomes(r) /\ posted' = posted  BY <2>6, <2>9 DEF hio_write_upstream
    <3>2. g \in Fds  BY <2>4, <2>9
    <3>3. n \in 0..Len(bytes) /\ Puts(f, g, bytes, rest, n)
      <4> DEFINE l == Len(sock[g].out)
                 c == sock[g].got
      <4>1. l \in Nat /\ c \in Nat /\ l - c \in 0..SndBuf /\ SndBuf \in Nat
        <5>1. sock[g] \in Socks /\ Len(sock[g].out) - sock[g].got \in 0..SndBuf
          BY <1>1, <3>2 DEF Sane
        <5>2. sock[g].out \in Seq(Bytes) /\ sock[g].got \in Nat  BY <5>1 DEF Socks
        <5> QED  BY <5>1, <5>2, LenProperties, UpstreamAssumption
      <4>2. room = 0 \/ (io[g].write_queue = << >> /\ room = SndBuf - (l - c))
        BY DEF Space, TriesSend
      <4> HIDE DEF l, c, room
      <4>3. room \in Nat  BY <4>1, <4>2
      <4>4. /\ n \in 0..Len(bytes) /\ n <= room /\ n \in Nat  BY <2>3, <4>3
      <4>5. n = 0 \/ (io[g].write_queue = << >> /\ n <= SndBuf - (l - c))
        BY <4>1, <4>2, <4>3, <4>4
      <4>6. bytes \o rest = sock[f].rx  BY <1>7, <2>2
      <4> HIDE DEF n
      <4> QED  BY <1>2, <2>9, <4>4, <4>5, <4>6 DEF Puts, l, c
    <3>4. Written(r, h, f, g, bytes, n)  BY DEF Written
    <3> HIDE DEF room, n, w, r
    <3>5. r \in Hs /\ Good(r, posted, reuse) /\ Ids(Now, r)
      <4> HIDE DEF g
      <4> QED  BY ONLY IInv, f \in Fds, <2>2, <2>5, <3>2, <3>3, <3>4, PutKeeps
    <3> QED  BY <1>3, <3>1, <3>5
  <2> QED  BY <2>7, <2>8, <2>9
<1> QED  BY <1>5, <1>6, <1>7 DEF HandleRead

-----------------------------------------------------------------------------
(* The theorems.                                                           *)

LEMMA InitIInv ==
    ASSUME Init  PROVE IInv
<1> DEFINE h == Now
<1>1. /\ io = [f \in Fds |-> NoIo] /\ sock = [f \in Fds |-> NoSock]
      /\ posted = << >> /\ sessions = 0 /\ faults = MaxFaults /\ reuse \in Reuses
  BY DEF Init
<1>2. NoIo \in Ios /\ ~NoIo.ready /\ NoIo.upstream_io = None /\ NoIo.id = 0
  BY FreshParts DEF NoIo
<1>3. NoSock \in Socks /\ NoSock.out = << >> /\ NoSock.got = 0  BY EmptySeq DEF NoSock, Socks
<1>4. /\ h \in Hs /\ \A f \in Fds : h.io[f] = NoIo /\ h.sock[f] = NoSock
  BY <1>1, <1>2, <1>3 DEF Hs, Now
<1>5. 0 \notin Fds /\ SndBuf \in Nat /\ MaxSessions \in Nat /\ MaxFaults \in Nat
      /\ Reuses \subseteq BOOLEAN
  BY UpstreamAssumption
<1> HIDE DEF h
<1>6. Sane(h)
  <2>1. Len(NoSock.out) - NoSock.got = 0  BY <1>3
  <2> QED  BY <1>2, <1>4, <1>5, <2>1 DEF Sane, None
<1>7. \A f \in Fds : /\ Pair(h, f) /\ Doomed(h, posted, f)
                     /\ Link(h, f) /\ Flow(h, f) /\ Live(h, posted, f)
  BY <1>2, <1>4 DEF Pair, Doomed, Link, Flow, Live
<1>8. Good(h, posted, reuse)  BY <1>6, <1>7 DEF Good
<1>9. posted \in Seq(Posts) /\ DOMAIN posted = {}  BY <1>1
<1>10. Young(h, posted, sessions)  BY <1>1, <1>2, <1>4, <1>9 DEF Young
<1>11. sessions \in 0..MaxSessions /\ faults \in 0..MaxFaults /\ reuse \in BOOLEAN
  BY <1>1, <1>5
<1> QED  BY <1>8, <1>9, <1>10, <1>11 DEF IInv, Rest, h

LEMMA NextIInv ==
    ASSUME IInv, [Next]_vars  PROVE IInv'
<1>1. CASE Accept  BY <1>1, AcceptKeeps
<1>2. CASE RunPosted  BY <1>2, PostedKeeps
<1>3. ASSUME NEW f \in Fds, Loop(f)  PROVE IInv'
  BY <1>3, ConnectKeeps, ReadKeeps, WriteKeeps, TimersKeep DEF Loop
<1>4. ASSUME NEW f \in Fds, Peer(f)  PROVE IInv'
  BY <1>4, PeerKeeps
<1>5. CASE UNCHANGED vars  BY <1>5 DEF vars, IInv, Rest, Now
<1> QED  BY <1>1, <1>2, <1>3, <1>4, <1>5 DEF Next

LEMMA AlwaysIInv == Spec => []IInv
<1>1. Init => IInv  BY InitIInv
<1>2. IInv /\ [Next]_vars => IInv'  BY NextIInv
<1> QED  BY <1>1, <1>2, PTL DEF Spec

(* The hio_t's and the kernel's sockets keep to their types, a closed      *)
(* hio_t has no socket, and the kernel never holds more than its buffer.   *)
THEOREM TypeCorrect == Spec => []TypeOK
<1>1. IInv => TypeOK
  <2> SUFFICES ASSUME IInv  PROVE TypeOK
    OBVIOUS
  <2>1. /\ Now.io = io /\ Now.sock = sock /\ Sane(Now)
        /\ io \in [Fds -> Ios] /\ sock \in [Fds -> Socks]
    BY NowType
  <2>2. \A f \in Fds : /\ io[f].ready => io[f].id > 0 /\ sock[f].state # "none"
                       /\ ~io[f].ready => sock[f] = NoSock
                       /\ Len(sock[f].out) - sock[f].got \in 0..SndBuf
    BY <2>1 DEF Sane
  <2> QED  BY <2>1, <2>2 DEF TypeOK, IInv, Rest
<1> QED  BY <1>1, AlwaysIInv, PTL

(* The open sides of a session point to each other, and one that outlives  *)
(* the other is waiting to close with its timer running: hio_close follows *)
(* close_cb to hio_close_upstream, whatever chain of closes that starts,   *)
(* and whether or not descriptors are reused at once.                      *)
THEOREM SidesEndTogether == Spec => []EndTogether
<1>1. IInv => EndTogether
  <2> SUFFICES ASSUME IInv  PROVE EndTogether
    OBVIOUS
  <2>1. Now.io = io /\ \A f \in Fds : Pair(Now, f)  BY NowType DEF IInv, Good
  <2> QED  BY <2>1 DEF EndTogether, Pair
<1> QED  BY <1>1, AlwaysIInv, PTL

(* No byte is lost, doubled or reordered on its way through the proxy,     *)
(* however read_cb's hio_write, nio_write and write_cb interleave, as long *)
(* as no descriptor is reused while a side still points to it.             *)
THEOREM BytesAreConserved == Spec => []Conserved
<1>1. IInv => Conserved
  <2> SUFFICES ASSUME IInv, ~reuse, NEW g \in Fds, io[g].ready, ~io[g].error
               PROVE  LET f   == io[g].upstream_io
                          got == sock[g].out \o io[g].write_queue
                      IN  /\ got = Stream(io[g].id, Other(io[g].side), Len(got))
                          /\ f # None /\ io[f].ready =>
                               got \o sock[f].rx
                                 = Stream(io[g].id, Other(io[g].side), sock[f].n)
    BY DEF Conserved
  <2>1. Now.io = io /\ Now.sock = sock /\ Flow(Now, g)  BY NowType DEF IInv, Good
  <2> QED  BY <2>1 DEF Flow
<1> QED  BY <1>1, AlwaysIInv, PTL

(* A side that is not read while the other is behind, or the backend is    *)
(* connecting, always has something pending that reads it or closes it:    *)
(* stop_reading never leaves a side behind that no write_cb, connect_cb,   *)
(* timer or posted event will come back to.                                *)
THEOREM NeverStalls == Spec => []NoStall
<1>1. IInv => NoStall
  <2> SUFFICES ASSUME IInv, ~reuse, NEW f \in Fds, NEW g, g = io[f].upstream_io,
                      io[f].ready, ~io[f].reading, g # None, io[g].ready
               PROVE  \/ io[g].write_queue # << >> /\ io[g].write_cb
                      \/ \E b \in {f, g} : \/ io[b].connect /\ io[b].connect_timer
                                           \/ Waits(<<"nio_connect", b, io[b].id>>)
                                           \/ Waits(<<"hio_close", b, io[b].id>>)
    BY DEF NoStall
  <2>1. Now.io = io /\ Live(Now, posted, f)  BY NowType DEF IInv, Good
  <2>2. \A e : In(posted, e) <=> Waits(e)  BY DEF In, Waits
  <2>3. ASSUME NEW b \in {f, g}, Moving(Now, posted, b)
        PROVE  \/ io[b].connect /\ io[b].connect_timer
               \/ Waits(<<"nio_connect", b, io[b].id>>)
               \/ Waits(<<"hio_close", b, io[b].id>>)
    BY <2>1, <2>2, <2>3 DEF Moving
  <2>4. \/ io[g].write_queue # << >> /\ io[g].write_cb
        \/ Moving(Now, posted, f) \/ Moving(Now, posted, g)
    BY <2>1 DEF Live
  <2> QED  BY <2>3, <2>4
<1> QED  BY <1>1, AlwaysIInv, PTL

=============================================================================

----------------------------- MODULE HioStream ------------------------------
(***************************************************************************)
(* What hio_write promises to the threads that share one hio_t, without    *)
(* its mutex, queue or flags: every connection is one ordered byte stream. *)
(* A call takes its place in the stream at one instant and its bytes stay  *)
(* together behind those of earlier calls; bytes that are taken leave in   *)
(* order; a refused call loses only its own tail; a close loses what has   *)
(* not left yet; the next connection starts empty.                         *)
(*                                                                         *)
(* A byte is <<connection, call, position in the call>>.                   *)
(***************************************************************************)
EXTENDS Integers, Sequences, SequencesExt

CONSTANTS MaxConns, MaxCalls, Lens

VARIABLES conn, open, out, pend

vars == <<conn, open, out, pend>>

\* The bytes of call c with length len on connection k.
Bytes(k, c, len) == [i \in 1..len |-> <<k, c, i>>]

Init == conn = 0 /\ open = FALSE /\ out = << >> /\ pend = << >>

Open ==
    /\ ~open /\ conn < MaxConns
    /\ conn' = conn + 1 /\ open' = TRUE /\ out' = << >> /\ pend' = << >>

\* Only a call that finds nothing pending may send at once.
Write(c, len, n) ==
    /\ open
    /\ \A i \in DOMAIN (out \o pend) : (out \o pend)[i][2] # c
    /\ n > 0 => pend = << >>
    /\ out' = out \o SubSeq(Bytes(conn, c, len), 1, n)
    /\ pend' = pend \o SubSeq(Bytes(conn, c, len), n + 1, len)
    /\ UNCHANGED <<conn, open>>

Flush(n) ==
    /\ open /\ n <= Len(pend)
    /\ out' = out \o SubSeq(pend, 1, n)
    /\ pend' = SubSeq(pend, n + 1, Len(pend))
    /\ UNCHANGED <<conn, open>>

\* The last n pending bytes, of one call, are given up.
Refuse(n) ==
    /\ open /\ n <= Len(pend)
    /\ \A i \in Len(pend) - n + 1 .. Len(pend) : pend[i][2] = Last(pend)[2]
    /\ pend' = SubSeq(pend, 1, Len(pend) - n)
    /\ UNCHANGED <<conn, open, out>>

Close ==
    /\ open
    /\ open' = FALSE /\ pend' = << >>
    /\ UNCHANGED <<conn, out>>

Next ==
    \/ Open \/ Close
    \/ \E c \in 1..MaxCalls, len \in Lens : \E n \in 0..len : Write(c, len, n)
    \/ \E n \in 1..Len(pend) : Flush(n) \/ Refuse(n)

Spec == Init /\ [][Next]_vars
=============================================================================

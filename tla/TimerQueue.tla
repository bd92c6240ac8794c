----------------------------- MODULE TimerQueue -----------------------------
(***************************************************************************)
(* What the loop needs of its timer heap: a set of nodes, each with a key; *)
(* any node can be taken out, and the first one has the least key.         *)
(***************************************************************************)
EXTENDS Integers

CONSTANTS Nodes, Keys, Absent

VARIABLES
    queue,     \* the key of each node, or Absent
    first      \* the node at the front, or Absent

In == {n \in Nodes : queue[n] # Absent}

FirstOf(n) == /\ n \in In \cup {Absent}
              /\ n = Absent <=> In = {}
              /\ \A m \in In : queue[n] <= queue[m]

Init == queue = [n \in Nodes |-> Absent] /\ first = Absent

Insert(n, k) == queue[n] = Absent /\ queue' = [queue EXCEPT ![n] = k]

Remove(n) == queue[n] # Absent /\ queue' = [queue EXCEPT ![n] = Absent]

Next == /\ \E n \in Nodes : Remove(n) \/ \E k \in Keys : Insert(n, k)
        /\ FirstOf(first)'

Spec == Init /\ [][Next]_<<queue, first>>
=============================================================================

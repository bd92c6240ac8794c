-------------------------------- MODULE Heap --------------------------------
(***************************************************************************)
(* base/heap.h: the binary heap of the loop's timers.  A node has three    *)
(* pointers and the heap a root and a count; the place of the last node is *)
(* found from the bits of the count.  Keys are next_timeout, compared by   *)
(* timers_compare (<).                                                     *)
(***************************************************************************)
EXTENDS Integers, FiniteSets

CONSTANTS
    Nodes,     \* the heap_node's of the timers
    Keys,      \* values of next_timeout
    NULL,
    Out        \* the key of a node that is in no heap: it is not looked at

ASSUME HeapAssumption ==
    NULL \notin Nodes /\ Keys \subseteq Int /\ Out \notin Keys \cup Nodes

VARIABLE heap  \* root, nelts, and of every node its pointers and key

Pointer == Nodes \cup {NULL}

-----------------------------------------------------------------------------
(* Pointer operations.                                                     *)

\* timers_compare
compare(h, a, b) == h.key[a] < h.key[b]

Child(h, n, right) == IF right THEN h.right[n] ELSE h.left[n]

\* n->parent = p, unless n is NULL
Reparent(h, n, p) == IF n = NULL THEN h ELSE [h EXCEPT !.parent[n] = p]

\* whatever pointed down to a points to b
Relink(h, a, b) ==
    LET p == h.parent[a]
    IN  IF p = NULL THEN [h EXCEPT !.root = b]
        ELSE IF h.left[p] = a THEN [h EXCEPT !.left[p] = b]
        ELSE IF h.right[p] = a THEN [h EXCEPT !.right[p] = b]
        ELSE h

heap_replace(h, s, r) ==
    LET l == Relink(h, s, r)
        c == Reparent(Reparent(l, h.left[s], r), h.right[s], r)
    IN  IF r = NULL THEN c
        ELSE [c EXCEPT !.parent[r] = c.parent[s], !.left[r] = c.left[s],
                       !.right[r] = c.right[s]]

heap_swap_sibling(h, p, c) ==
    LET l == Reparent(Reparent(Relink(h, p, c), h.left[c], p), h.right[c], p)
    IN  [l EXCEPT !.parent[c] = h.parent[p], !.parent[p] = c,
                  !.left[c]  = IF h.left[p] = c THEN p ELSE h.left[p],
                  !.right[c] = IF h.left[p] = c THEN h.right[p] ELSE p,
                  !.left[p] = h.left[c], !.right[p] = h.right[c]]

\* p and its child c change places
heap_swap(h, p, c) ==
    LET left    == h.left[p] = c
        sibling == Child(h, p, left)
        l       == Reparent(Reparent(Relink(h, p, c), h.left[c], p), h.right[c], p)
        m       == [l EXCEPT !.parent[c] = h.parent[p],
                             !.left[c]  = IF left THEN p ELSE sibling,
                             !.right[c] = IF left THEN sibling ELSE p]
    IN  [Reparent(m, sibling, c) EXCEPT !.parent[p] = c,
                                        !.left[p] = h.left[c], !.right[p] = h.right[c]]

-----------------------------------------------------------------------------
(* The loops.                                                              *)

\* The node above position n, positions counted by rows from 1: the bits of
\* the position, but for the first, are the way down, 1 for right.
ParentOf(h, n) ==
    LET node[i \in 1..n] ==
            IF i = 1 THEN h.root ELSE Child(h, node[i \div 2], i % 2 = 1)
    IN  IF n < 2 THEN h.root ELSE node[n \div 2]

\* One round of a loop; nothing happens once it has ended.  No path is longer
\* than the heap has nodes.
UpRound(h, n) ==
    IF h.parent[n] # NULL /\ compare(h, n, h.parent[n]) THEN heap_swap(h, h.parent[n], n) ELSE h

SiftUp(h, n) ==
    LET up[k \in 0..h.nelts] == IF k = 0 THEN h ELSE UpRound(up[k - 1], n)
    IN  up[h.nelts]

\* the least of v and its children; of equals, the last one looked at
Least(h, v) ==
    LET a == IF h.left[v] = NULL \/ compare(h, v, h.left[v]) THEN v ELSE h.left[v]
    IN  IF h.right[v] = NULL \/ compare(h, a, h.right[v]) THEN a ELSE h.right[v]

DownRound(h, v) == IF Least(h, v) = v THEN h ELSE heap_swap(h, v, Least(h, v))

SiftDown(h, v) ==
    LET down[k \in 0..h.nelts] == IF k = 0 THEN h ELSE DownRound(down[k - 1], v)
    IN  down[h.nelts]

SiftDownOnly(h, v) == SiftDown(h, v)

\* where the last node of the heap is put in place of another, it can be
\* too far down as well as too far up
Sift(h, v) == SiftUp(SiftDown(h, v), v)

-----------------------------------------------------------------------------
heap_insert(h, n) ==
    LET p == ParentOf(h, h.nelts + 1)
        g == [h EXCEPT !.nelts = @ + 1, !.parent[n] = p]
    IN  SiftUp(IF p = NULL THEN [g EXCEPT !.root = n]
               ELSE IF g.nelts % 2 = 1 THEN [g EXCEPT !.right[p] = n]
               ELSE [g EXCEPT !.left[p] = n], n)

Cleared(h, n) == [h EXCEPT !.parent[n] = NULL, !.left[n] = NULL, !.right[n] = NULL]

Fewer(h, last) == [h EXCEPT !.nelts = @ - 1]

\* The last node, on the right for an odd count, is cut off and takes the
\* place of n.  A heap of one node has no last one under its root.
heap_remove(h, n) ==
    LET p     == ParentOf(h, h.nelts)
        right == h.nelts >= 2 /\ h.nelts % 2 = 1
        last  == Child(h, p, right)
        g     == Fewer(h, last)
        cut   == IF right THEN [g EXCEPT !.right[p] = NULL] ELSE [g EXCEPT !.left[p] = NULL]
    IN  IF h.nelts = 0 THEN h
        ELSE IF last = NULL THEN [cut EXCEPT !.root = IF @ = n THEN NULL ELSE @]
        ELSE Sift(Cleared(heap_replace(cut, n, last), n), last)

-----------------------------------------------------------------------------
\* the node at position i of the tree, NULL where there is none
At(i) ==
    LET node[j \in 1..i] ==
            IF j = 1 THEN heap.root
            ELSE LET p == node[j \div 2]
                 IN  IF p = NULL THEN NULL ELSE Child(heap, p, j % 2 = 1)
    IN  node[i]

InHeap == {At(i) : i \in 1..heap.nelts}

HeapInit ==
    heap = [root |-> NULL, nelts |-> 0, parent |-> [n \in Nodes |-> NULL],
            left |-> [n \in Nodes |-> NULL], right |-> [n \in Nodes |-> NULL],
            key |-> [n \in Nodes |-> Out]]

\* htimer_add, the second half of htimer_reset, and a timer that repeats
InsertNode(n, k) ==
    /\ heap.key[n] = Out
    /\ heap' = heap_insert([heap EXCEPT !.key[n] = k], n)

\* htimer_del and the first half of htimer_reset
RemoveNode(n) ==
    /\ heap.key[n] # Out
    /\ heap' = [heap_remove(heap, n) EXCEPT !.key[n] = Out]

\* __hloop_process_timers takes the root
heap_dequeue == heap.root # NULL /\ RemoveNode(heap.root)

HeapNext ==
    \/ \E n \in Nodes : RemoveNode(n) \/ \E k \in Keys : InsertNode(n, k)
    \/ heap_dequeue

HeapSpec == HeapInit /\ [][HeapNext]_heap

-----------------------------------------------------------------------------
(* Types.  The count, from which the way to the last node is computed, is  *)
(* that of the nodes inserted and not removed.                             *)
HeapTypeOK ==
    /\ heap.root \in Pointer
    /\ heap.nelts = Cardinality({n \in Nodes : heap.key[n] # Out})
    /\ \A n \in Nodes : /\ {heap.parent[n], heap.left[n], heap.right[n]} \subseteq Pointer
                        /\ heap.key[n] \in Keys \cup {Out}

(* The pointers form one tree that is filled row by row: exactly the       *)
(* nodes that were inserted and not removed stand at the positions         *)
(* 1..nelts, each once, each pointing back to the node above it; and a     *)
(* node that is out keeps no pointer into the heap, so that it can be      *)
(* inserted again as it is.                                                *)
Shape ==
    /\ InHeap = {n \in Nodes : heap.key[n] # Out}
    /\ \A i \in 1..heap.nelts :
         /\ heap.parent[At(i)] = IF i = 1 THEN NULL ELSE At(i \div 2)
         /\ 2 * i > heap.nelts => heap.left[At(i)] = NULL
         /\ 2 * i + 1 > heap.nelts => heap.right[At(i)] = NULL
    /\ \A n \in Nodes \ InHeap :
         {heap.parent[n], heap.left[n], heap.right[n]} = {NULL}

(* The heap implements TimerQueue: a step inserts or removes one node,     *)
(* every other node stays with its key, and the root has the least key:    *)
(* __hloop_process_timers, which stops at the first root that is not due,  *)
(* never misses a due timer.                                               *)
Queue == INSTANCE TimerQueue WITH
            queue <- heap.key, first <- (IF heap.root = NULL THEN Out ELSE heap.root),
            Absent <- Out
QueueSpec == Queue!Spec

=============================================================================

--------------------------- MODULE PriorityQueue ---------------------------
(***************************************************************************)
(* The submission queue of order_manager.rs: eleven FIFO levels, 0 to 10.  *)
(***************************************************************************)
EXTENDS Naturals, Sequences

Priorities == 0..10

EmptyQueue == [p \in Priorities |-> <<>>]

\* push clamps the priority, a u8, to the highest level.
Push(q, x, priority) ==
  [q EXCEPT ![IF priority > 10 THEN 10 ELSE priority] = Append(@, x)]

\* Entry j of level k is popped before entry i of level p.
PoppedBefore(k, j, p, i) == k > p \/ (k = p /\ j < i)

\* Entry i of level p is the first one, in pop order, that is in Wanted.
IsNext(q, Wanted, p, i) ==
  /\ q[p][i] \in Wanted
  /\ \A k \in Priorities : \A j \in 1..Len(q[k]) :
       PoppedBefore(k, j, p, i) => q[k][j] \notin Wanted

\* What is left when everything up to entry i of level p has been popped.
Popped(q, p, i) ==
  [k \in Priorities |->
     IF k > p THEN <<>>
     ELSE IF k = p THEN SubSeq(q[p], i + 1, Len(q[p])) ELSE q[k]]

Queued(q, x) == \E p \in Priorities : \E i \in 1..Len(q[p]) : q[p][i] = x
=============================================================================

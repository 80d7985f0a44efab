---------------------------- MODULE PriorityQueue ----------------------------
(***************************************************************************)
(* What CMinHeap promises to CTimerUnit: a set of nodes with their keys,   *)
(* whose reported minimum is one of the nodes with the smallest key.       *)
(***************************************************************************)
EXTENDS Naturals

CONSTANTS Node, Key, NULL

VARIABLES
  pq,     \* the key of every node in the queue
  first   \* the node GetMinNode() returns

Init == pq = [n \in {} |-> 0] /\ first = NULL

(* The reported minimum goes with the new contents. *)
FirstOf(q) ==
  IF DOMAIN q = {} THEN {NULL}
  ELSE {n \in DOMAIN q : \A m \in DOMAIN q : q[n] <= q[m]}

Insert(n, k) ==
  /\ n \notin DOMAIN pq
  /\ pq' = [m \in DOMAIN pq \cup {n} |-> IF m = n THEN k ELSE pq[m]]
  /\ first' \in FirstOf(pq')

Remove(n) ==
  /\ n \in DOMAIN pq
  /\ pq' = [m \in DOMAIN pq \ {n} |-> pq[m]]
  /\ first' \in FirstOf(pq')

Next == \E n \in Node : Remove(n) \/ \E k \in Key : Insert(n, k)

Spec == Init /\ [][Next]_<<pq, first>>
=============================================================================

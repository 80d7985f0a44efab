------------------------------- MODULE MinHeap -------------------------------
(***************************************************************************)
(* CMinHeap: the pointer-based binary heap that holds the active timers.   *)
(* The links of CHeapNode are functions from nodes to nodes or NULL.       *)
(***************************************************************************)
EXTENDS Naturals, Sequences, FiniteSets

CONSTANTS
  Node,   \* the CTimeNode objects
  Key,    \* expiry times, compared by CTimeNode::operator<
  NULL

ASSUME MinHeapAssumption == Key \subseteq Nat /\ NULL \notin Node

VARIABLE h  \* min, nelts, and of every node the links left, right, parent
            \* and its key, m_n_expired

(* The node at position i of the tree; the root has position 1.  path       *)
(* collects the low bits of i first, so the walk from min takes the high    *)
(* ones first, and a set bit is a turn to the right.                        *)
At(g, i) ==
  LET node[j \in 1 .. i] ==
        IF j = 1 THEN g.min
        ELSE IF j % 2 = 1 THEN g.right[node[j \div 2]] ELSE g.left[node[j \div 2]]
  IN node[i]

(* Where a new node hangs: the pointer before the one the walk ends at is   *)
(* &min as long as the heap is empty.                                       *)
Above(g, i) == IF i = 1 THEN g.min ELSE At(g, i \div 2)

(* Store n in the pointer that the walk ends at: &min, &left or &right.     *)
Link(g, i, n) ==
  IF i = 1 THEN [g EXCEPT !.min = n]
  ELSE IF i % 2 = 1 THEN [g EXCEPT !.right[At(g, i \div 2)] = n]
  ELSE [g EXCEPT !.left[At(g, i \div 2)] = n]

(* CTimeNode::operator< *)
Less(g, a, b) == g.key[a] < g.key[b]

(* SwapNode: exchange all three links. *)
SwapNode(g, a, b) ==
  [g EXCEPT !.left[a] = g.left[b],     !.left[b] = g.left[a],
            !.right[a] = g.right[b],   !.right[b] = g.right[a],
            !.parent[a] = g.parent[b], !.parent[b] = g.parent[a]]

SetParent(g, n, p) == IF n = NULL THEN g ELSE [g EXCEPT !.parent[n] = p]

(* Replace old by new in the pointer that leads to new from above. *)
Relink(g, old, new) ==
  LET p == g.parent[new] IN
  CASE p = NULL        -> [g EXCEPT !.min = new]
    [] p # NULL /\ g.left[p] = old -> [g EXCEPT !.left[p] = new]
    [] OTHER           -> [g EXCEPT !.right[p] = new]

heap_node_swap(g, par, child) ==
  LET g1 == [SwapNode(g, par, child) EXCEPT !.parent[par] = child]
      onLeft == g1.left[child] = child
      sibling == IF onLeft THEN g1.right[child] ELSE g1.left[child]
      g2 == IF onLeft THEN [g1 EXCEPT !.left[child] = par]
                      ELSE [g1 EXCEPT !.right[child] = par]
      g3 == SetParent(g2, sibling, child)
      g4 == SetParent(SetParent(g3, g3.left[par], par), g3.right[par], par)
  IN  Relink(g4, par, child)

(* The loop that walks up; it ends after less than nelts swaps. *)
SwapUp(g, n) ==
  IF g.parent[n] # NULL /\ Less(g, n, g.parent[n])
  THEN heap_node_swap(g, g.parent[n], n)
  ELSE g
SiftUp(g, n) ==
  LET up[k \in 0 .. g.nelts] == IF k = 0 THEN g ELSE SwapUp(up[k - 1], n)
  IN up[g.nelts]

(* The child to swap with: the smaller one below n, the left one on a tie. *)
Smallest(g, n) ==
  LET l == g.left[n]
      s == IF l # NULL /\ Less(g, l, n) THEN l ELSE n
      r == g.right[n]
  IN  IF r # NULL /\ Less(g, r, s) THEN r ELSE s

(* The loop that walks down. *)
SwapDown(g, n) ==
  IF Smallest(g, n) = n THEN g ELSE heap_node_swap(g, n, Smallest(g, n))
SiftDown(g, n) ==
  LET down[k \in 0 .. g.nelts] == IF k = 0 THEN g ELSE SwapDown(down[k - 1], n)
  IN down[g.nelts]
-----------------------------------------------------------------------------

Init ==
  h = [min |-> NULL, nelts |-> 0,
       left |-> [n \in Node |-> NULL], right |-> [n \in Node |-> NULL],
       parent |-> [n \in Node |-> NULL], key |-> [n \in Node |-> 0]]

(* The nodes of the heap, by their positions. *)
NodeAt(i) == At(h, i)
Contents == {NodeAt(i) : i \in 1 .. h.nelts}

(* Mutant: the walk up is forgotten. *)
InsertedHeapUnsorted(n, k) ==
  LET i == 1 + h.nelts
      reset == [h EXCEPT !.left[n] = NULL, !.right[n] = NULL, !.parent[n] = Above(h, i),
                         !.nelts = i, !.key[n] = k]
  IN  Link(reset, i, n)

(* Insert: the node becomes the last one of the complete tree and walks up. *)
InsertedHeap(n, k) ==
  LET i == 1 + h.nelts
      reset == [h EXCEPT !.left[n] = NULL, !.right[n] = NULL, !.parent[n] = Above(h, i),
                         !.nelts = i, !.key[n] = k]
  IN  SiftUp(Link(reset, i, n), n)

(* CTimerUnit::AddTimer: the expiry time is set, then the node inserted;   *)
(* only inactive nodes are (CTimeNode::StartTimer stops the others first). *)
Insert(n, k) ==
  /\ n \notin Contents
  /\ h' = InsertedHeap(n, k)

(* The last node of the tree, child, is unlinked and takes the place of n. *)
Unlinked == Link([h EXCEPT !.nelts = @ - 1], h.nelts, NULL)
Replaced(n, child) ==
  LET g1 == [Unlinked EXCEPT !.left[child] = Unlinked.left[n],
                             !.right[child] = Unlinked.right[n],
                             !.parent[child] = Unlinked.parent[n]]
      g2 == SetParent(SetParent(g1, g1.left[child], child), g1.right[child], child)
  IN  Relink(g2, n, child)

(* Mutant: the node that takes the removed one's place only walks down.    *)
RemovedHeapDownOnly(n) ==
  LET child == At(h, h.nelts) IN
  IF child = n THEN Unlinked ELSE SiftDown(Replaced(n, child), child)

(* Remove: the last node of the tree takes the place of n, then walks down *)
(* and up.                                                                 *)
RemovedHeap(n) ==
  LET child == At(h, h.nelts) IN
  IF child = n THEN Unlinked ELSE SiftUp(SiftDown(Replaced(n, child), child), child)

(* The links of a node outside the heap are dead (Insert resets them): they *)
(* are forgotten here, so that equal heaps are equal states.                *)
Forget(g, n) ==
  [g EXCEPT !.left[n] = NULL, !.right[n] = NULL, !.parent[n] = NULL, !.key[n] = 0]

(* Remove; Dequeue is Remove(min). *)
Remove(n) ==
  /\ h.nelts # 0
  /\ n \in Contents
  /\ h' = Forget(RemovedHeap(n), n)

Next == \E n \in Node : Remove(n) \/ \E k \in Key : Insert(n, k)

Spec == Init /\ [][Next]_h

-----------------------------------------------------------------------------
(* Properties *)

(* The links always form a complete tree: position i is filled exactly for *)
(* i <= nelts, by different nodes, and parent is the inverse of the child  *)
(* links.                                                                  *)
CompleteTree ==
  /\ Cardinality(Contents) = h.nelts
  /\ \A i \in 1 .. h.nelts :
       /\ h.parent[NodeAt(i)] = IF i = 1 THEN NULL ELSE NodeAt(i \div 2)
       /\ h.left[NodeAt(i)] = IF 2 * i <= h.nelts THEN NodeAt(2 * i) ELSE NULL
       /\ h.right[NodeAt(i)] = IF 2 * i < h.nelts THEN NodeAt(2 * i + 1) ELSE NULL
  /\ h.nelts = 0 => h.min = NULL

(* No node is smaller than its parent, also after a removal that moves the *)
(* last node into another subtree.                                         *)
HeapOrder ==
  \A i \in 2 .. h.nelts : ~Less(h, NodeAt(i), NodeAt(i \div 2))

(* Swaps of nodes, removals from the middle and insertions that swap links *)
(* instead of keys leave both as they are.                                 *)
OrderedTree == CompleteTree /\ HeapOrder

PQ == INSTANCE PriorityQueue WITH
        pq <- [n \in Contents |-> h.key[n]],
        first <- h.min

(* The heap is a priority queue: what goes in stays in until it is removed, *)
(* and min is always one of the earliest timers.                            *)
ImplementsQueue == PQ!Spec
=============================================================================

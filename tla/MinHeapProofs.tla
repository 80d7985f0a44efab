---------------------------- MODULE MinHeapProofs ----------------------------
(***************************************************************************)
(* The heap of the timers is a complete ordered tree, and implements the   *)
(* priority queue: for any number of nodes, and any keys.                  *)
(***************************************************************************)
EXTENDS MinHeap, FiniteSetTheorems, WellFoundedInduction, TLAPS

(* Induction, as the smallest counterexample. *)
LEMMA NatMin ==
  ASSUME NEW T, T \subseteq Nat, T # {}
  PROVE  \E x \in T : \A y \in T : x <= y
<1> DEFINE R == OpToRel(<, Nat)
<1>1. IsWellFoundedOn(R, Nat)
  BY NatLessThanWellFounded
<1>2. \A x, y \in Nat : x < y => <<x, y>> \in R
  BY DEF OpToRel
<1> HIDE DEF R
<1>3. PICK x \in T : \A y \in T : ~ (<<y, x>> \in R)
  BY <1>1, WFMin, Zenon
<1>4. \A y \in T : x <= y
  <2> TAKE y \in T
  <2>1. x \in Nat /\ y \in Nat
    OBVIOUS
  <2>2. ~(y < x)
    BY <1>2, <1>3, <2>1
  <2>. QED
    BY <2>1, <2>2
<1>. QED
  BY <1>4

(* The positions above and below a position. *)
LEMMA Halves ==
  ASSUME NEW i \in Nat \ {0}
  PROVE  /\ i \div 2 \in Nat /\ (i = 2 * (i \div 2) \/ i = 2 * (i \div 2) + 1)
         /\ (2 * i) \div 2 = i /\ (2 * i + 1) \div 2 = i
         /\ i % 2 = 1 <=> i = 2 * (i \div 2) + 1
         /\ i # 1 => i \div 2 # 0 /\ i \div 2 < i
<1>1. i \div 2 \in Nat
  OBVIOUS
<1>2. i = 2 * (i \div 2) \/ i = 2 * (i \div 2) + 1
  OBVIOUS
<1>3. (2 * i) \div 2 = i /\ (2 * i + 1) \div 2 = i
  OBVIOUS
<1>4. i % 2 = 1 <=> i = 2 * (i \div 2) + 1
  OBVIOUS
<1>5. i # 1 => i \div 2 # 0 /\ i \div 2 < i
  OBVIOUS
<1>. QED
  BY <1>1, <1>2, <1>3, <1>4, <1>5

-----------------------------------------------------------------------------
Ptr == Node \cup {NULL}
HeapShape == [min : Ptr, nelts : Nat, left : [Node -> Ptr], right : [Node -> Ptr],
              parent : [Node -> Ptr], key : [Node -> Nat]]

(* What no exchange of links changes. *)
Same(g, r) == r \in HeapShape /\ r.nelts = g.nelts /\ r.key = g.key

LEMMA SwapNodeIs ==
  ASSUME NEW g \in HeapShape, NEW a \in Node, NEW b \in Node, a # b, NEW r, r = SwapNode(g, a, b)
  PROVE  /\ Same(g, r) /\ r.min = g.min
         /\ \A x \in Node :
              /\ r.left[x] = IF x = a THEN g.left[b] ELSE IF x = b THEN g.left[a] ELSE g.left[x]
              /\ r.right[x] = IF x = a THEN g.right[b] ELSE IF x = b THEN g.right[a] ELSE g.right[x]
              /\ r.parent[x] = IF x = a THEN g.parent[b]
                   ELSE IF x = b THEN g.parent[a] ELSE g.parent[x]
<1>1. r = [min |-> g.min, nelts |-> g.nelts,
           left |-> [g.left EXCEPT ![a] = g.left[b], ![b] = g.left[a]],
           right |-> [g.right EXCEPT ![a] = g.right[b], ![b] = g.right[a]],
           parent |-> [g.parent EXCEPT ![a] = g.parent[b], ![b] = g.parent[a]],
           key |-> g.key]
  BY DEF SwapNode, HeapShape
<1>2. /\ g.min \in Ptr /\ g.nelts \in Nat /\ g.key \in [Node -> Nat]
      /\ g.left \in [Node -> Ptr] /\ g.right \in [Node -> Ptr] /\ g.parent \in [Node -> Ptr]
  BY DEF HeapShape
<1>3. Same(g, r) /\ r.min = g.min
  BY <1>1, <1>2 DEF Same, HeapShape
<1>. QED
  BY <1>1, <1>2, <1>3

LEMMA SetParentIs ==
  ASSUME NEW g \in HeapShape, NEW n \in Ptr, NEW p \in Ptr, NEW r, r = SetParent(g, n, p)
  PROVE  /\ Same(g, r) /\ r.min = g.min /\ r.left = g.left /\ r.right = g.right
         /\ \A x \in Node : r.parent[x] = IF x = n THEN p ELSE g.parent[x]
<1>1. CASE n = NULL
  BY <1>1, MinHeapAssumption DEF SetParent, Same, HeapShape
<1>2. CASE n # NULL
  <2>1. r = [min |-> g.min, nelts |-> g.nelts, left |-> g.left, right |-> g.right,
             parent |-> [g.parent EXCEPT ![n] = p], key |-> g.key]
    BY <1>2 DEF SetParent, HeapShape
  <2>2. n \in Node /\ g.parent \in [Node -> Ptr]
    BY <1>2 DEF HeapShape, Ptr
  <2>3. [g.parent EXCEPT ![n] = p] \in [Node -> Ptr]
    BY <2>2
  <2>4. Same(g, r)
    BY <2>1, <2>3 DEF Same, HeapShape
  <2>. QED
    BY <2>1, <2>2, <2>4
<1>. QED
  BY <1>1, <1>2

LEMMA RelinkIs ==
  ASSUME NEW g \in HeapShape, NEW old \in Node, NEW new \in Node, NEW r, r = Relink(g, old, new),
         NEW p, p = g.parent[new]
  PROVE  /\ Same(g, r) /\ r.parent = g.parent
         /\ r.min = IF p = NULL THEN new ELSE g.min
         /\ \A x \in Node :
              /\ r.left[x] = IF x = p /\ g.left[p] = old THEN new ELSE g.left[x]
              /\ r.right[x] = IF x = p /\ g.left[p] # old THEN new ELSE g.right[x]
<1>1. p \in Ptr /\ new \in Ptr /\ NULL \notin Node
  BY MinHeapAssumption DEF HeapShape, Ptr
<1>2. CASE p = NULL
  <2>1. r = [min |-> new, nelts |-> g.nelts, left |-> g.left, right |-> g.right,
             parent |-> g.parent, key |-> g.key]
    BY <1>2 DEF Relink, HeapShape
  <2>. QED
    BY <1>1, <1>2, <2>1 DEF Same, HeapShape
<1>3. CASE p # NULL /\ g.left[p] = old
  <2>1. r = [min |-> g.min, nelts |-> g.nelts, left |-> [g.left EXCEPT ![p] = new],
             right |-> g.right, parent |-> g.parent, key |-> g.key]
    BY <1>3 DEF Relink, HeapShape
  <2>2. p \in Node /\ g.left \in [Node -> Ptr] /\ [g.left EXCEPT ![p] = new] \in [Node -> Ptr]
    BY <1>1, <1>3 DEF HeapShape, Ptr
  <2>3. Same(g, r)
    BY <2>1, <2>2 DEF Same, HeapShape
  <2>. QED
    BY <1>3, <2>1, <2>2, <2>3
<1>4. CASE p # NULL /\ g.left[p] # old
  <2>1. r = [min |-> g.min, nelts |-> g.nelts, left |-> g.left,
             right |-> [g.right EXCEPT ![p] = new], parent |-> g.parent, key |-> g.key]
    BY <1>4 DEF Relink, HeapShape
  <2>2. p \in Node /\ g.right \in [Node -> Ptr] /\ [g.right EXCEPT ![p] = new] \in [Node -> Ptr]
    BY <1>1, <1>4 DEF HeapShape, Ptr
  <2>3. Same(g, r)
    BY <2>1, <2>2 DEF Same, HeapShape
  <2>. QED
    BY <1>4, <2>1, <2>2, <2>3
<1>. QED
  BY <1>2, <1>3, <1>4

(* heap_node_swap() of a node a with its child b, whatever the links of    *)
(* either are, as long as they lead to others.                             *)
Sibling(g, a, b) == IF g.left[a] = b THEN g.right[a] ELSE g.left[a]
Apart(g, a, b) ==
  /\ a # b /\ g.parent[b] = a /\ (g.left[a] = b \/ g.right[a] = b)
  /\ {g.left[b], g.right[b], Sibling(g, a, b), g.parent[a]} \cap {a, b} = {}

LEMMA HeapNodeSwapIs ==
  ASSUME NEW g \in HeapShape, NEW a \in Node, NEW b \in Node, Apart(g, a, b),
         NEW r, r = heap_node_swap(g, a, b)
  PROVE  /\ Same(g, r)
         /\ r.min = IF g.parent[a] = NULL THEN b ELSE g.min
         /\ \A x \in Node :
              /\ r.left[x] = IF x = a THEN g.left[b]
                             ELSE IF x = b THEN IF g.left[a] = b THEN a ELSE g.left[a]
                             ELSE IF x = g.parent[a] /\ g.left[x] = a THEN b
                             ELSE g.left[x]
              /\ r.right[x] = IF x = a THEN g.right[b]
                              ELSE IF x = b THEN IF g.left[a] = b THEN g.right[a] ELSE a
                              ELSE IF x = g.parent[a] /\ g.left[x] # a THEN b
                              ELSE g.right[x]
              /\ r.parent[x] = IF x = a THEN b
                               ELSE IF x = b THEN g.parent[a]
                               ELSE IF x \in {g.left[b], g.right[b]} THEN a
                               ELSE IF x = Sibling(g, a, b) THEN b
                               ELSE g.parent[x]
<1> DEFINE onLeft == g.left[a] = b
           s == Sibling(g, a, b)
<1>1. PICK g0 : g0 = SwapNode(g, a, b)
  OBVIOUS
<1>2. PICK g1 : g1 = [g0 EXCEPT !.parent[a] = b]
  OBVIOUS
<1>3. PICK g2 : g2 = IF onLeft THEN [g1 EXCEPT !.left[b] = a] ELSE [g1 EXCEPT !.right[b] = a]
  OBVIOUS
<1>4. PICK g3 : g3 = SetParent(g2, s, b)
  OBVIOUS
<1>5. PICK g4 : g4 = SetParent(g3, g3.left[a], a)
  OBVIOUS
<1>6. PICK g5 : g5 = SetParent(g4, g3.right[a], a)
  OBVIOUS
<1>10. /\ Same(g, g0) /\ g0.min = g.min
       /\ \A x \in Node :
            /\ g0.left[x] = IF x = a THEN g.left[b] ELSE IF x = b THEN g.left[a] ELSE g.left[x]
            /\ g0.right[x] = IF x = a THEN g.right[b] ELSE IF x = b THEN g.right[a] ELSE g.right[x]
            /\ g0.parent[x] = IF x = a THEN g.parent[b]
                 ELSE IF x = b THEN g.parent[a] ELSE g.parent[x]
  BY <1>1, SwapNodeIs DEF Apart
<1>11. /\ Same(g, g1) /\ g1.min = g.min /\ g1.left = g0.left /\ g1.right = g0.right
       /\ \A x \in Node : g1.parent[x] = IF x = a THEN b ELSE g0.parent[x]
  <2>1. g1 = [min |-> g0.min, nelts |-> g0.nelts, left |-> g0.left, right |-> g0.right,
              parent |-> [g0.parent EXCEPT ![a] = b], key |-> g0.key]
    BY <1>2, <1>10 DEF Same, HeapShape
  <2>2. g0.parent \in [Node -> Ptr] /\ b \in Ptr
    BY <1>10 DEF Same, HeapShape, Ptr
  <2>3. [g0.parent EXCEPT ![a] = b] \in [Node -> Ptr]
    BY <2>2
  <2>4. Same(g, g1)
    BY <1>10, <2>1, <2>3 DEF Same, HeapShape
  <2>. QED
    BY <1>10, <2>1, <2>2, <2>4
<1>12. onLeft <=> g1.left[b] = b
  BY <1>10, <1>11 DEF Apart
<1>13. /\ Same(g, g2) /\ g2.min = g.min /\ g2.parent = g1.parent
       /\ \A x \in Node :
            /\ g2.left[x] = IF x = b /\ onLeft THEN a ELSE g1.left[x]
            /\ g2.right[x] = IF x = b /\ ~onLeft THEN a ELSE g1.right[x]
  <2>1. /\ g1.left \in [Node -> Ptr] /\ g1.right \in [Node -> Ptr] /\ a \in Ptr
        /\ [g1.left EXCEPT ![b] = a] \in [Node -> Ptr]
        /\ [g1.right EXCEPT ![b] = a] \in [Node -> Ptr]
    BY <1>11 DEF Same, HeapShape, Ptr
  <2>2. CASE onLeft
    <3>1. g2 = [min |-> g1.min, nelts |-> g1.nelts, left |-> [g1.left EXCEPT ![b] = a],
                right |-> g1.right, parent |-> g1.parent, key |-> g1.key]
      BY <1>3, <1>11, <2>2 DEF Same, HeapShape
    <3>2. Same(g, g2)
      BY <1>11, <2>1, <3>1 DEF Same, HeapShape
    <3>. QED
      BY <1>11, <2>1, <2>2, <3>1, <3>2
  <2>3. CASE ~onLeft
    <3>1. g2 = [min |-> g1.min, nelts |-> g1.nelts, left |-> g1.left,
                right |-> [g1.right EXCEPT ![b] = a], parent |-> g1.parent, key |-> g1.key]
      BY <1>3, <1>11, <2>3 DEF Same, HeapShape
    <3>2. Same(g, g2)
      BY <1>11, <2>1, <3>1 DEF Same, HeapShape
    <3>. QED
      BY <1>11, <2>1, <2>3, <3>1, <3>2
  <2>. QED
    BY <2>2, <2>3
<1>14. s = IF onLeft THEN g1.right[b] ELSE g1.left[b]
  BY <1>10, <1>11 DEF Sibling, Apart
<1>15. r = Relink(g5, a, b)
  BY <1>1, <1>2, <1>3, <1>4, <1>5, <1>6, <1>12, <1>14, Zenon DEF heap_node_swap
<1>16. s \in Ptr /\ g.left[b] \in Ptr /\ g.right[b] \in Ptr /\ a \in Ptr /\ b \in Ptr
  BY DEF Sibling, HeapShape, Ptr
<1> HIDE DEF s
<1>17. /\ Same(g, g3) /\ g3.min = g.min /\ g3.left = g2.left /\ g3.right = g2.right
       /\ \A x \in Node : g3.parent[x] = IF x = s THEN b ELSE g2.parent[x]
  <2>1. g2 \in HeapShape /\ g3 = SetParent(g2, s, b)
    BY <1>13, <1>4 DEF Same
  <2>2. /\ Same(g2, g3) /\ g3.min = g2.min /\ g3.left = g2.left /\ g3.right = g2.right
        /\ \A x \in Node : g3.parent[x] = IF x = s THEN b ELSE g2.parent[x]
    BY <1>16, <2>1, SetParentIs
  <2>. QED
    BY <1>13, <2>2 DEF Same
<1>18. g3.left[a] = g.left[b] /\ g3.right[a] = g.right[b]
  BY <1>10, <1>11, <1>13, <1>17 DEF Apart
<1>19. /\ Same(g, g4) /\ g4.min = g.min /\ g4.left = g2.left /\ g4.right = g2.right
       /\ \A x \in Node : g4.parent[x] = IF x = g.left[b] THEN a ELSE g3.parent[x]
  <2>1. g3 \in HeapShape /\ g4 = SetParent(g3, g.left[b], a)
    BY <1>17, <1>5, <1>18 DEF Same
  <2>2. /\ Same(g3, g4) /\ g4.min = g3.min /\ g4.left = g3.left /\ g4.right = g3.right
        /\ \A x \in Node : g4.parent[x] = IF x = g.left[b] THEN a ELSE g3.parent[x]
    BY <1>16, <2>1, SetParentIs
  <2>. QED
    BY <1>17, <2>2 DEF Same
<1>20. /\ Same(g, g5) /\ g5.min = g.min /\ g5.left = g2.left /\ g5.right = g2.right
       /\ \A x \in Node : g5.parent[x] = IF x = g.right[b] THEN a ELSE g4.parent[x]
  <2>1. g4 \in HeapShape /\ g5 = SetParent(g4, g.right[b], a)
    BY <1>19, <1>6, <1>18, <1>17 DEF Same
  <2>2. /\ Same(g4, g5) /\ g5.min = g4.min /\ g5.left = g4.left /\ g5.right = g4.right
        /\ \A x \in Node : g5.parent[x] = IF x = g.right[b] THEN a ELSE g4.parent[x]
    BY <1>16, <2>1, SetParentIs
  <2>. QED
    BY <1>19, <2>2 DEF Same
<1>21. \A x \in Node :
         g5.parent[x] = IF x = a THEN b
                        ELSE IF x = b THEN g.parent[a]
                        ELSE IF x \in {g.left[b], g.right[b]} THEN a
                        ELSE IF x = s THEN b
                        ELSE g.parent[x]
  <2>1. {g.left[b], g.right[b], s, g.parent[a]} \cap {a, b} = {}
    BY DEF Apart, s
  <2>2. \A x \in Node : g2.parent[x] = IF x = a THEN b
            ELSE IF x = b THEN g.parent[a] ELSE g.parent[x]
    BY <1>10, <1>11, <1>13
  <2>3. \A x \in Node : g5.parent[x] = IF x = g.right[b] THEN a ELSE IF x = g.left[b] THEN a
                                      ELSE IF x = s THEN b ELSE g2.parent[x]
    BY <1>17, <1>19, <1>20
  <2>. QED
    BY <2>1, <2>2, <2>3
<1>22. g5.parent[b] = g.parent[a] /\ a # b
  BY <1>21 DEF Apart
<1>23. /\ Same(g, r) /\ r.parent = g5.parent
       /\ r.min = IF g.parent[a] = NULL THEN b ELSE g.min
       /\ \A x \in Node :
            /\ r.left[x] = IF x = g.parent[a] /\ g2.left[g.parent[a]] = a THEN b ELSE g2.left[x]
            /\ r.right[x] = IF x = g.parent[a] /\ g2.left[g.parent[a]] # a THEN b ELSE g2.right[x]
  BY <1>15, <1>20, <1>22, RelinkIs DEF Same
<1>24. g.parent[a] # a /\ g.parent[a] # b
  BY DEF Apart
<1>25. \A x \in Node :
         /\ g2.left[x] = IF x = a THEN g.left[b]
                         ELSE IF x = b THEN IF onLeft THEN a ELSE g.left[a] ELSE g.left[x]
         /\ g2.right[x] = IF x = a THEN g.right[b]
                          ELSE IF x = b THEN IF onLeft THEN g.right[a] ELSE a ELSE g.right[x]
  BY <1>10, <1>11, <1>13, <1>22
<1>26. \A x \in Node : x = g.parent[a] => g2.left[g.parent[a]] = g.left[x]
  BY <1>24, <1>25
<1> HIDE DEF onLeft, s
<1>27. \A x \in Node : r.left[x] = IF x = a THEN g.left[b]
                             ELSE IF x = b THEN IF onLeft THEN a ELSE g.left[a]
                             ELSE IF x = g.parent[a] /\ g.left[x] = a THEN b
                             ELSE g.left[x]
  BY <1>23, <1>24, <1>25, <1>26
<1>28. \A x \in Node : r.right[x] = IF x = a THEN g.right[b]
                              ELSE IF x = b THEN IF onLeft THEN g.right[a] ELSE a
                              ELSE IF x = g.parent[a] /\ g.left[x] # a THEN b
                              ELSE g.right[x]
  BY <1>23, <1>24, <1>25, <1>26
<1>. QED
  BY <1>21, <1>23, <1>27, <1>28 DEF onLeft, s
-----------------------------------------------------------------------------
(* The links of g are those of the complete tree with the nodes f[1], ...  *)
InTree(N, f, i) == IF i <= N THEN f[i] ELSE NULL
LinksAt(g, f, i) ==
  /\ g.parent[f[i]] = IF i = 1 THEN NULL ELSE f[i \div 2]
  /\ g.left[f[i]] = InTree(g.nelts, f, 2 * i)
  /\ g.right[f[i]] = InTree(g.nelts, f, 2 * i + 1)
OneToOne(N, f) == \A i, j \in 1 .. N : f[i] = f[j] => i = j
Tree(g, f) ==
  /\ g \in HeapShape /\ f \in [1 .. g.nelts -> Node] /\ OneToOne(g.nelts, f)
  /\ g.min = InTree(g.nelts, f, 1)
  /\ \A i \in 1 .. g.nelts : LinksAt(g, f, i)

(* The walk from min along the bits of a position finds its node. *)
IsWalk(g, k, node) ==
  node = [j \in 1 .. k |-> IF j = 1 THEN g.min
                           ELSE IF j % 2 = 1 THEN g.right[node[j \div 2]]
                           ELSE g.left[node[j \div 2]]]

LEMMA WalkExists ==
  ASSUME NEW g, NEW N \in Nat
  PROVE  \E node : IsWalk(g, N, node)
<1> DEFINE Next1(f, j) == IF j = 1 THEN g.min
                          ELSE IF j % 2 = 1 THEN g.right[f[j \div 2]] ELSE g.left[f[j \div 2]]
           Def(k, f) == f = [j \in 1 .. k |-> Next1(f, j)]
           T == {k \in Nat : ~ \E f : Def(k, f)}
<1> SUFFICES T = {}
  BY DEF IsWalk
<1> SUFFICES ASSUME T # {} PROVE FALSE
  OBVIOUS
<1>1. T \subseteq Nat
  OBVIOUS
<1>2. PICK k \in T : \A j \in T : k <= j
  BY <1>1, NatMin
<1>3. k # 0
  <2>1. Def(0, [j \in 1 .. 0 |-> g.min])
    OBVIOUS
  <2>. QED
    BY <2>1
<1>4. k - 1 \in Nat /\ ~(k - 1 \in T)
  <2>1. k \in Nat /\ k - 1 \in Nat
    BY <1>1, <1>3
  <2> HIDE DEF T
  <2>2. k - 1 \in T => k <= k - 1
    BY <1>2
  <2>. QED
    BY <2>1, <2>2
<1>5. PICK f : Def(k - 1, f)
  BY <1>4
<1> HIDE DEF Next1
<1>6. PICK e : e = [j \in 1 .. k |-> IF j = k THEN Next1(f, j) ELSE f[j]]
  OBVIOUS
<1>7. \A j \in 1 .. k : Next1(e, j) = Next1(f, j)
  <2> TAKE j \in 1 .. k
  <2>1. CASE j = 1
    BY <2>1 DEF Next1
  <2>2. CASE j # 1
    <3>1. j \in Nat \ {0} /\ k \in Nat \ {0}
      BY <1>1, <1>3
    <3>2. j \div 2 \in Nat /\ j \div 2 # 0 /\ j \div 2 < j
      BY <2>2, <3>1, Halves
    <3>3. j \div 2 \in 1 .. k /\ j \div 2 # k
      BY <3>1, <3>2
    <3>4. e[j \div 2] = f[j \div 2]
      BY <1>6, <3>3
    <3>. QED
      BY <2>2, <3>4 DEF Next1
  <2>. QED
    BY <2>1, <2>2
<1>8. e = [j \in 1 .. k |-> Next1(e, j)]
  <2>1. \A j \in 1 .. k : e[j] = Next1(e, j)
    <3> TAKE j \in 1 .. k
    <3>1. CASE j = k
      BY <1>6, <1>7, <3>1
    <3>2. CASE j # k
      <4>1. j \in 1 .. k - 1
        BY <3>2, <1>1, <1>3
      <4>. QED
        BY <1>5, <1>6, <1>7, <3>2, <4>1
    <3>. QED
      BY <3>1, <3>2
  <2>. QED
    BY <1>6, <2>1
<1>. QED
  BY <1>2, <1>8

LEMMA AtUnfolds ==
  ASSUME NEW g, NEW i \in Nat \ {0}
  PROVE  \E node : /\ At(g, i) = node[i]
                   /\ \A j \in 1 .. i :
                        node[j] = IF j = 1 THEN g.min
                                  ELSE IF j % 2 = 1 THEN g.right[node[j \div 2]]
                                  ELSE g.left[node[j \div 2]]
<1>1. i \in Nat /\ \E f : IsWalk(g, i, f)
  BY WalkExists
<1>2. PICK node : IsWalk(g, i, node) /\ node = CHOOSE f : IsWalk(g, i, f)
  BY <1>1
<1>3. At(g, i) = node[i]
  BY <1>2 DEF At, IsWalk
<1>4. \A j \in 1 .. i : node[j] = IF j = 1 THEN g.min
                                  ELSE IF j % 2 = 1 THEN g.right[node[j \div 2]]
                                  ELSE g.left[node[j \div 2]]
  BY <1>2 DEF IsWalk
<1>. QED
  BY <1>3, <1>4

(* The links below the nodes, of a tree with N of them. *)
Walkable(N, g, f) ==
  /\ g.min = InTree(N, f, 1)
  /\ \A i \in 1 .. N : /\ g.left[f[i]] = InTree(N, f, 2 * i)
                       /\ g.right[f[i]] = InTree(N, f, 2 * i + 1)

LEMMA AtIsNode ==
  ASSUME NEW N \in Nat, NEW g, NEW f, Walkable(N, g, f), NEW i \in 1 .. N
  PROVE  At(g, i) = f[i]
<1>0. i \in Nat \ {0} /\ i <= N /\ N # 0
  OBVIOUS
<1>1. PICK node :
        /\ At(g, i) = node[i]
        /\ \A j \in 1 .. i : node[j] = IF j = 1 THEN g.min
                                       ELSE IF j % 2 = 1 THEN g.right[node[j \div 2]]
                                       ELSE g.left[node[j \div 2]]
  BY <1>0, AtUnfolds
<1> DEFINE T == {j \in Nat : j \in 1 .. i /\ node[j] # f[j]}
<1>2. T = {}
  <2> SUFFICES ASSUME T # {} PROVE FALSE
    OBVIOUS
  <2>1. PICK j \in T : \A k \in T : j <= k
    BY NatMin
  <2>2. j \in Nat \ {0} /\ j \in 1 .. i /\ j \in 1 .. N /\ j <= N /\ node[j] # f[j]
    BY <1>0
  <2>3. j # 1
    BY <1>0, <1>1, <2>2 DEF Walkable, InTree
  <2>4. /\ j \div 2 \in Nat /\ j \div 2 # 0 /\ j \div 2 < j
        /\ j = 2 * (j \div 2) \/ j = 2 * (j \div 2) + 1
        /\ j % 2 = 1 <=> j = 2 * (j \div 2) + 1
    BY <2>2, <2>3, Halves
  <2> DEFINE q == j \div 2
  <2>5. q \in 1 .. i /\ q \in 1 .. N
    BY <1>0, <2>2, <2>4
  <2>6. node[q] = f[q]
    <3>1. ~(q \in T)
      BY <2>1, <2>2, <2>4
    <3>. QED
      BY <2>4, <2>5, <3>1
  <2>7. node[j] = IF j % 2 = 1 THEN g.right[f[q]] ELSE g.left[f[q]]
    BY <1>1, <2>2, <2>3, <2>6
  <2>8. g.left[f[q]] = InTree(N, f, 2 * q) /\ g.right[f[q]] = InTree(N, f, 2 * q + 1)
    BY <2>5 DEF Walkable
  <2> HIDE DEF q
  <2>9. CASE j % 2 = 1
    <3>1. j = 2 * q + 1
      BY <2>4, <2>9 DEF q
    <3>. QED
      BY <2>2, <2>7, <2>8, <2>9, <3>1 DEF InTree
  <2>10. CASE j % 2 # 1
    <3>1. j = 2 * q
      BY <2>4, <2>10 DEF q
    <3>. QED
      BY <2>2, <2>7, <2>8, <2>10, <3>1 DEF InTree
  <2>. QED
    BY <2>9, <2>10
<1>3. i \in 1 .. i
  BY <1>0
<1>. QED
  BY <1>0, <1>1, <1>2, <1>3
-----------------------------------------------------------------------------
(* heap_node_swap() exchanges two nodes of the tree, and nothing else.      *)
Swapped(f, p, c) == [f EXCEPT ![p] = f[c], ![c] = f[p]]

LEMMA SwapKeepsTree ==
  ASSUME NEW g, NEW f, Tree(g, f), NEW p \in 1 .. g.nelts, NEW c \in 1 .. g.nelts,
         c = 2 * p \/ c = 2 * p + 1,
         NEW r, r = heap_node_swap(g, f[p], f[c])
  PROVE  Tree(r, Swapped(f, p, c)) /\ Same(g, r)
<1>1. PICK N : N = g.nelts
  OBVIOUS
<1>2. PICK a : a = f[p]
  OBVIOUS
<1>3. PICK b : b = f[c]
  OBVIOUS
<1>4. PICK e : e = Swapped(f, p, c)
  OBVIOUS
<1>5. N \in Nat /\ p \in 1 .. N /\ c \in 1 .. N /\ p \in Nat \ {0}
          /\ c \in Nat \ {0} /\ c # p /\ c # 1
  BY <1>1 DEF Tree, HeapShape
<1>6. /\ f \in [1 .. N -> Node] /\ g \in HeapShape /\ g.min = InTree(N, f, 1)
      /\ \A i, j \in 1 .. N : f[i] = f[j] => i = j
  BY <1>1 DEF Tree, OneToOne
<1>7. \A i \in 1 .. N : /\ g.parent[f[i]] = IF i = 1 THEN NULL ELSE f[i \div 2]
                        /\ g.left[f[i]] = InTree(N, f, 2 * i)
                        /\ g.right[f[i]] = InTree(N, f, 2 * i + 1)
  BY <1>1 DEF Tree, LinksAt
<1>8. a \in Node /\ b \in Node /\ a # b /\ NULL \notin Node
  BY <1>2, <1>3, <1>5, <1>6, MinHeapAssumption
<1>9. \A i \in 1 .. N : /\ f[i] \in Node /\ f[i] # NULL
                        /\ f[i] = a <=> i = p
                        /\ f[i] = b <=> i = c
  BY <1>2, <1>3, <1>5, <1>6, <1>8
<1>10. /\ e \in [1 .. N -> Node] /\ e[p] = b /\ e[c] = a
       /\ \A i \in 1 .. N : i # p /\ i # c => e[i] = f[i]
  BY <1>2, <1>3, <1>4, <1>5, <1>6 DEF Swapped
<1>11. \A i, j \in 1 .. N : e[i] = e[j] => i = j
  BY <1>5, <1>6, <1>8, <1>9, <1>10
<1>12. c \div 2 = p /\ (p = 1 \/ (p \div 2 \in 1 .. N /\ p \div 2 # p /\ p \div 2 # c))
  <2>1. c \div 2 = p
    BY <1>5, Halves
  <2>2. p # 1 => p \div 2 \in Nat /\ p \div 2 # 0 /\ p \div 2 < p
    BY <1>5, Halves
  <2>. QED
    BY <1>5, <2>1, <2>2
<1>13. \A k \in Nat : \/ InTree(N, f, k) = NULL /\ ~(k <= N)
                      \/ InTree(N, f, k) = f[k] /\ k <= N
  BY DEF InTree
<1>14. \A k \in Nat \ {0, p, c} : InTree(N, f, k) \notin {a, b} /\ InTree(N, f, k) = InTree(N, e, k)
  <2> TAKE k \in Nat \ {0, p, c}
  <2>1. CASE k <= N
    BY <2>1, <1>9, <1>10 DEF InTree
  <2>2. CASE ~(k <= N)
    BY <2>2, <1>8 DEF InTree
  <2>. QED
    BY <2>1, <2>2
<1>15. g.left[a] = InTree(N, f, 2 * p) /\ g.right[a] = InTree(N, f, 2 * p + 1)
  BY <1>2, <1>5, <1>7
<1>16. g.left[b] = InTree(N, f, 2 * c) /\ g.right[b] = InTree(N, f, 2 * c + 1)
  BY <1>3, <1>5, <1>7
<1>17. g.parent[b] = a /\ g.parent[a] = IF p = 1 THEN NULL ELSE f[p \div 2]
  BY <1>2, <1>3, <1>5, <1>7, <1>12
<1>18. InTree(N, f, c) = b
  BY <1>3, <1>5 DEF InTree
<1>19. g.left[a] = b <=> c = 2 * p
  <2>1. CASE c = 2 * p
    BY <1>15, <1>18, <2>1
  <2>2. CASE c # 2 * p
    <3>1. 2 * p \in Nat \ {0, p, c}
      BY <1>5, <2>2
    <3>. QED
      BY <1>14, <1>15, <2>2, <3>1
  <2>. QED
    BY <2>1, <2>2
<1> DEFINE sib == IF c = 2 * p THEN 2 * p + 1 ELSE 2 * p
<1>20. Sibling(g, a, b) = InTree(N, f, sib) /\ sib \in Nat \ {0, p, c} /\ 2 * c \in Nat \ {0, p, c}
       /\ 2 * c + 1 \in Nat \ {0, p, c}
  BY <1>5, <1>15, <1>19 DEF Sibling
<1>21. Apart(g, a, b)
  <2>1. g.left[a] = b \/ g.right[a] = b
    BY <1>15, <1>18
  <2>2. Sibling(g, a, b) \notin {a, b} /\ g.left[b] \notin {a, b} /\ g.right[b] \notin {a, b}
    BY <1>14, <1>16, <1>20
  <2>3. g.parent[a] \notin {a, b}
    BY <1>8, <1>9, <1>12, <1>17
  <2>. QED
    BY <1>8, <1>17, <2>1, <2>2, <2>3 DEF Apart
<1>22. r = heap_node_swap(g, a, b)
  BY <1>2, <1>3
<1>23. /\ Same(g, r)
       /\ r.min = IF g.parent[a] = NULL THEN b ELSE g.min
       /\ \A x \in Node :
            /\ r.left[x] = IF x = a THEN g.left[b]
                           ELSE IF x = b THEN IF g.left[a] = b THEN a ELSE g.left[a]
                           ELSE IF x = g.parent[a] /\ g.left[x] = a THEN b
                           ELSE g.left[x]
            /\ r.right[x] = IF x = a THEN g.right[b]
                            ELSE IF x = b THEN IF g.left[a] = b THEN g.right[a] ELSE a
                            ELSE IF x = g.parent[a] /\ g.left[x] # a THEN b
                            ELSE g.right[x]
            /\ r.parent[x] = IF x = a THEN b
                             ELSE IF x = b THEN g.parent[a]
                             ELSE IF x \in {g.left[b], g.right[b]} THEN a
                             ELSE IF x = Sibling(g, a, b) THEN b
                             ELSE g.parent[x]
  BY <1>6, <1>8, <1>21, <1>22, HeapNodeSwapIs
<1>24. r.nelts = N /\ r \in HeapShape
  BY <1>1, <1>23 DEF Same
<1>25. r.min = InTree(N, e, 1)
  BY <1>5, <1>6, <1>9, <1>10, <1>12, <1>17, <1>23 DEF InTree
<1>30. \A i \in 1 .. N : r.parent[e[i]] = IF i = 1 THEN NULL ELSE e[i \div 2]
  <2> TAKE i \in 1 .. N
  <2>1. CASE i = p
    BY <1>5, <1>8, <1>10, <1>12, <1>17, <1>23, <2>1
  <2>2. CASE i = c
    BY <1>5, <1>8, <1>10, <1>12, <1>23, <2>2
  <2>3. CASE i # p /\ i # c
    <3>1. e[i] = f[i] /\ f[i] \in Node /\ f[i] # a /\ f[i] # b
      BY <1>9, <1>10, <2>3
    <3>2. f[i] \in {g.left[b], g.right[b]} <=> i \in {2 * c, 2 * c + 1}
      BY <1>6, <1>9, <1>13, <1>16, <1>20
    <3>3. f[i] = Sibling(g, a, b) <=> i = sib
      BY <1>6, <1>9, <1>13, <1>20
    <3>4. i \in Nat \ {0}
      BY <1>5
    <3>5. i # 1 => i \div 2 \in 1 .. N /\ (i = 2 * (i \div 2) \/ i = 2 * (i \div 2) + 1)
      BY <1>5, <3>4, Halves
    <3>6. (2 * c) \div 2 = c /\ (2 * c + 1) \div 2 = c /\ sib \div 2 = p
      BY <1>5, Halves
    <3> HIDE DEF sib
    <3>7. CASE i \in {2 * c, 2 * c + 1}
      BY <1>5, <1>10, <1>23, <2>3, <3>1, <3>2, <3>6, <3>7
    <3>8. CASE i \notin {2 * c, 2 * c + 1} /\ i = sib
      BY <1>5, <1>10, <1>23, <2>3, <3>1, <3>2, <3>3, <3>6, <3>8 DEF sib
    <3>9. CASE i \notin {2 * c, 2 * c + 1} /\ i # sib
      <4>1. r.parent[e[i]] = g.parent[f[i]]
        BY <1>23, <3>1, <3>2, <3>3, <3>9
      <4>2. i # 1 => i \div 2 # p /\ i \div 2 # c
        BY <1>5, <2>3, <3>5, <3>9 DEF sib
      <4>. QED
        BY <1>7, <1>10, <3>5, <4>1, <4>2
    <3>. QED
      BY <3>7, <3>8, <3>9
  <2>. QED
    BY <2>1, <2>2, <2>3
<1>40. \A i \in 1 .. N : r.left[e[i]] = InTree(N, e, 2 * i)
  <2> TAKE i \in 1 .. N
  <2>1. CASE i = p
    <3>1. r.left[b] = IF g.left[a] = b THEN a ELSE g.left[a]
      BY <1>8, <1>23
    <3>2. CASE c = 2 * p
      <4>1. InTree(N, e, 2 * i) = a
        BY <1>5, <1>10, <2>1, <3>2 DEF InTree
      <4>. QED
        BY <1>10, <1>19, <2>1, <3>1, <3>2, <4>1
    <3>3. CASE c # 2 * p
      <4>1. 2 * p \in Nat \ {0, p, c}
        BY <1>5, <3>3
      <4>. QED
        BY <1>10, <1>14, <1>15, <1>19, <2>1, <3>1, <3>3, <4>1
    <3>. QED
      BY <3>2, <3>3
  <2>2. CASE i = c
    BY <1>8, <1>10, <1>14, <1>16, <1>20, <1>23, <2>2
  <2>3. CASE i # p /\ i # c
    <3>1. e[i] = f[i] /\ f[i] \in Node /\ f[i] # a /\ f[i] # b
      BY <1>9, <1>10, <2>3
    <3>2. g.left[f[i]] = InTree(N, f, 2 * i) /\ 2 * i \in Nat \ {0}
      BY <1>5, <1>7
    <3>3. 2 * i # c
      BY <1>5, <2>3
    <3>4. CASE 2 * i = p
      <4>1. p # 1 /\ p \div 2 = i
        BY <1>5, <3>4, Halves
      <4>2. g.left[f[i]] = a /\ f[i] = g.parent[a]
        BY <1>2, <1>5, <1>17, <3>2, <3>4, <4>1 DEF InTree
      <4>3. InTree(N, e, 2 * i) = b
        BY <1>5, <1>10, <3>4 DEF InTree
      <4>. QED
        BY <1>23, <3>1, <4>2, <4>3
    <3>5. CASE 2 * i # p
      <4>1. InTree(N, f, 2 * i) # a /\ InTree(N, f, 2 * i) = InTree(N, e, 2 * i)
        BY <1>14, <3>2, <3>3, <3>5
      <4>. QED
        BY <1>23, <3>1, <3>2, <4>1
    <3>. QED
      BY <3>4, <3>5
  <2>. QED
    BY <2>1, <2>2, <2>3
<1>50. \A i \in 1 .. N : r.right[e[i]] = InTree(N, e, 2 * i + 1)
  <2> TAKE i \in 1 .. N
  <2>1. CASE i = p
    <3>1. r.right[b] = IF g.left[a] = b THEN g.right[a] ELSE a
      BY <1>8, <1>23
    <3>2. CASE c # 2 * p
      <4>1. InTree(N, e, 2 * i + 1) = a
        BY <1>5, <1>10, <2>1, <3>2 DEF InTree
      <4>. QED
        BY <1>10, <1>19, <2>1, <3>1, <3>2, <4>1
    <3>3. CASE c = 2 * p
      <4>1. 2 * p + 1 \in Nat \ {0, p, c}
        BY <1>5, <3>3
      <4>. QED
        BY <1>10, <1>14, <1>15, <1>19, <2>1, <3>1, <3>3, <4>1
    <3>. QED
      BY <3>2, <3>3
  <2>2. CASE i = c
    BY <1>8, <1>10, <1>14, <1>16, <1>20, <1>23, <2>2
  <2>3. CASE i # p /\ i # c
    <3>1. e[i] = f[i] /\ f[i] \in Node /\ f[i] # a /\ f[i] # b
      BY <1>9, <1>10, <2>3
    <3>2. /\ g.right[f[i]] = InTree(N, f, 2 * i + 1) /\ 2 * i + 1 \in Nat \ {0}
          /\ g.left[f[i]] = InTree(N, f, 2 * i) /\ 2 * i \in Nat \ {0}
      BY <1>5, <1>7
    <3>3. 2 * i + 1 # c
      BY <1>5, <2>3
    <3>4. CASE 2 * i + 1 = p
      <4>1. p # 1 /\ p \div 2 = i /\ 2 * i \in Nat \ {0, p, c}
        BY <1>5, <2>3, <3>4, Halves
      <4>2. g.left[f[i]] # a /\ f[i] = g.parent[a]
        BY <1>14, <1>17, <3>2, <4>1
      <4>3. InTree(N, e, 2 * i + 1) = b
        BY <1>5, <1>10, <3>4 DEF InTree
      <4>. QED
        BY <1>23, <3>1, <4>2, <4>3
    <3>5. CASE 2 * i + 1 # p
      <4>1. InTree(N, f, 2 * i + 1) = InTree(N, e, 2 * i + 1)
        BY <1>14, <3>2, <3>3, <3>5
      <4>2. f[i] = g.parent[a] => g.left[f[i]] = a
        <5> SUFFICES ASSUME f[i] = g.parent[a] PROVE g.left[f[i]] = a
          OBVIOUS
        <5>1. p # 1 /\ p \div 2 = i
          BY <1>6, <1>9, <1>12, <1>17
        <5>2. p = 2 * i
          BY <1>5, <3>5, <5>1, Halves
        <5>. QED
          BY <1>2, <1>5, <3>2, <5>2 DEF InTree
      <4>. QED
        BY <1>23, <3>1, <3>2, <4>1, <4>2
    <3>. QED
      BY <3>4, <3>5
  <2>. QED
    BY <2>1, <2>2, <2>3
<1>. QED
  BY <1>4, <1>10, <1>11, <1>23, <1>24, <1>25, <1>30, <1>40, <1>50 DEF Tree, LinksAt,
       OneToOne
-----------------------------------------------------------------------------
(* The keys: of each node with the one above it; of all; of all but the    *)
(* one at i, whose children do not come before the node above i; of all    *)
(* but that one and its children.                                          *)
InOrder(g, f, j) == g.key[f[j \div 2]] <= g.key[f[j]]
Ordered(g, f) == \A j \in 2 .. g.nelts : InOrder(g, f, j)
Bridged(g, f, i) ==
  \A j \in 2 .. g.nelts : j \div 2 = i /\ i # 1 => g.key[f[i \div 2]] <= g.key[f[j]]
OrderedBut(g, f, i) ==
  (\A j \in 2 .. g.nelts : j # i => InOrder(g, f, j)) /\ Bridged(g, f, i)
OrderedAround(g, f, i) ==
  (\A j \in 2 .. g.nelts : j # i /\ j \div 2 # i => InOrder(g, f, j)) /\ Bridged(g, f, i)
NodesOf(N, f) == {f[j] : j \in 1 .. N}

LEMMA SwapKeepsNodes ==
  ASSUME NEW N \in Nat, NEW f \in [1 .. N -> Node], NEW p \in 1 .. N, NEW c \in 1 .. N
  PROVE  NodesOf(N, Swapped(f, p, c)) = NodesOf(N, f)
<1>1. PICK e : e = Swapped(f, p, c)
  OBVIOUS
<1>2. e[p] = f[c] /\ e[c] = f[p] /\ \A j \in 1 .. N : j # p /\ j # c => e[j] = f[j]
  BY <1>1 DEF Swapped
<1>3. \A j \in 1 .. N : f[j] \in NodesOf(N, e)
  BY <1>2 DEF NodesOf
<1>4. \A j \in 1 .. N : e[j] \in NodesOf(N, f)
  BY <1>2 DEF NodesOf
<1>5. NodesOf(N, e) \subseteq NodesOf(N, f)
  BY <1>4 DEF NodesOf
<1>6. NodesOf(N, f) \subseteq NodesOf(N, e)
  BY <1>3 DEF NodesOf
<1>. QED
  BY <1>1, <1>5, <1>6

LEMMA SwapUpOnce ==
  ASSUME NEW g, NEW f, Tree(g, f), NEW i \in 1 .. g.nelts, OrderedBut(g, f, i),
         NEW r, r = SwapUp(g, f[i])
  PROVE  \/ r = g /\ Ordered(g, f)
         \/ /\ i # 1 /\ Tree(r, Swapped(f, i \div 2, i)) /\ Same(g, r)
            /\ OrderedBut(r, Swapped(f, i \div 2, i), i \div 2)
<1>1. PICK N : N = g.nelts
  OBVIOUS
<1>2. PICK p : p = i \div 2
  OBVIOUS
<1>3. N \in Nat /\ i \in 1 .. N /\ i \in Nat \ {0} /\ g.key \in [Node -> Nat]
      /\ f \in [1 .. N -> Node] /\ NULL \notin Node
  BY <1>1, MinHeapAssumption DEF Tree, HeapShape
<1>4. g.parent[f[i]] = IF i = 1 THEN NULL ELSE f[p]
  BY <1>2 DEF Tree, LinksAt
<1>5. i # 1 => p \in 1 .. N /\ p < i /\ (i = 2 * p \/ i = 2 * p + 1) /\ p \in Nat \ {0}
  <2>1. p \in Nat /\ (i = 2 * p \/ i = 2 * p + 1) /\ (i # 1 => p # 0 /\ p < i)
    BY <1>2, <1>3, Halves
  <2>. QED
    BY <1>3, <2>1
<1>6. \A j \in 1 .. N : g.key[f[j]] \in Nat
  BY <1>3
<1>7. \A j \in 2 .. N : j \in 1 .. N /\ j \in Nat \ {0} /\ j \div 2 \in 1 .. N /\ j \div 2 # j
  <2> TAKE j \in 2 .. N
  <2>1. j \in Nat \ {0} /\ j # 1 /\ j \in 1 .. N
    BY <1>3
  <2>. QED
    BY <1>3, <2>1, Halves
<1>8. CASE i # 1 /\ g.key[f[i]] < g.key[f[p]]
  <2>1. r = heap_node_swap(g, f[p], f[i])
    BY <1>3, <1>4, <1>5, <1>8 DEF SwapUp, Less
  <2>2. PICK e : e = Swapped(f, p, i)
    OBVIOUS
  <2>3. Tree(r, e) /\ Same(g, r)
    BY <1>1, <1>5, <1>8, <2>1, <2>2, SwapKeepsTree
  <2>4. r.nelts = N /\ r.key = g.key
    BY <1>1, <2>3 DEF Same
  <2>5. e[p] = f[i] /\ e[i] = f[p] /\ \A j \in 1 .. N : j # p /\ j # i => e[j] = f[j]
    BY <1>3, <1>5, <1>8, <2>2 DEF Swapped
  <2>6. \A j \in 2 .. N : /\ j # i => g.key[f[j \div 2]] <= g.key[f[j]]
                          /\ j \div 2 = i => g.key[f[p]] <= g.key[f[j]]
    BY <1>1, <1>2, <1>8 DEF OrderedBut, InOrder, Bridged
  <2>7. \A j \in 2 .. N : j # p => g.key[e[j \div 2]] <= g.key[e[j]]
    <3> TAKE j \in 2 .. N
    <3> HAVE j # p
    <3>1. g.key[f[j]] \in Nat /\ g.key[f[i]] \in Nat /\ g.key[f[p]] \in Nat
          /\ g.key[f[j \div 2]] \in Nat
      BY <1>5, <1>6, <1>7, <1>8, <1>3
    <3>2. CASE j = i
      BY <1>2, <1>8, <2>5, <3>1, <3>2
    <3>3. CASE j # i /\ j \div 2 = p
      BY <1>7, <1>8, <2>5, <2>6, <3>1, <3>3
    <3>4. CASE j # i /\ j \div 2 = i
      BY <1>7, <2>5, <2>6, <3>1, <3>4
    <3>5. CASE j # i /\ j \div 2 # p /\ j \div 2 # i
      BY <1>7, <2>5, <2>6, <3>5
    <3>. QED
      BY <3>2, <3>3, <3>4, <3>5
  <2>8. \A j \in 2 .. N : j \div 2 = p /\ p # 1 => g.key[e[p \div 2]] <= g.key[e[j]]
    <3> SUFFICES ASSUME NEW j \in 2 .. N, j \div 2 = p, p # 1
                 PROVE  g.key[e[p \div 2]] <= g.key[e[j]]
      OBVIOUS
    <3>1. p \in 2 .. N
      BY <1>3, <1>5, <1>8
    <3>2. p \div 2 \in 1 .. N /\ p \div 2 # p /\ p \div 2 < p
      BY <1>5, <1>7, <1>8, <3>1, Halves
    <3>3. p \div 2 # i
      BY <1>3, <1>5, <1>8, <3>2
    <3>4. g.key[f[p \div 2]] <= g.key[f[p]] /\ e[p \div 2] = f[p \div 2]
      BY <1>5, <1>8, <2>5, <2>6, <3>1, <3>2, <3>3, <1>3
    <3>5. CASE j = i
      BY <2>5, <3>4, <3>5
    <3>6. CASE j # i
      <4>1. e[j] = f[j] /\ g.key[f[p]] <= g.key[f[j]]
        BY <1>7, <2>5, <2>6, <3>6
      <4>2. g.key[f[p \div 2]] \in Nat /\ g.key[f[p]] \in Nat /\ g.key[f[j]] \in Nat
        BY <1>5, <1>6, <1>7, <1>8, <3>2
      <4>. QED
        BY <3>4, <4>1, <4>2
    <3>. QED
      BY <3>5, <3>6
  <2>9. OrderedBut(r, e, p)
    BY <2>4, <2>7, <2>8 DEF OrderedBut, Bridged, InOrder
  <2>. QED
    BY <1>2, <1>8, <2>2, <2>3, <2>9
<1>9. CASE ~(i # 1 /\ g.key[f[i]] < g.key[f[p]])
  <2>1. r = g
    BY <1>3, <1>4, <1>9 DEF SwapUp, Less
  <2>2. \A j \in 2 .. N : InOrder(g, f, j)
    <3> TAKE j \in 2 .. N
    <3>1. CASE j # i
      BY <1>1, <3>1 DEF OrderedBut
    <3>2. CASE j = i
      <4>1. i # 1 /\ ~(g.key[f[i]] < g.key[f[p]])
        BY <1>3, <1>9, <3>2
      <4>2. g.key[f[i]] \in Nat /\ g.key[f[p]] \in Nat
        BY <1>3, <1>5, <1>6, <4>1
      <4>. QED
        BY <1>2, <3>2, <4>1, <4>2 DEF InOrder
    <3>. QED
      BY <3>1, <3>2
  <2>. QED
    BY <1>1, <2>1, <2>2 DEF Ordered
<1>. QED
  BY <1>8, <1>9

(* The loop up: after k turns the node has no more than N - k positions    *)
(* above it, or the tree is ordered.                                       *)
UpTo(g, n, nodes, k, r) ==
  \E e \in [1 .. g.nelts -> Node] : \E j \in 1 .. g.nelts :
    /\ Tree(r, e) /\ Same(g, r) /\ OrderedBut(r, e, j) /\ e[j] = n
    /\ NodesOf(g.nelts, e) = nodes
    /\ Ordered(r, e) \/ j + k <= g.nelts

IsUp(g, n, k, up) == up = [l \in 0 .. k |-> IF l = 0 THEN g ELSE SwapUp(up[l - 1], n)]

LEMMA UpExists ==
  ASSUME NEW g, NEW n, NEW N \in Nat
  PROVE  \E up : IsUp(g, n, N, up)
<1> DEFINE T == {k \in Nat : ~ \E f : IsUp(g, n, k, f)}
<1> SUFFICES T = {}
  OBVIOUS
<1> SUFFICES ASSUME T # {} PROVE FALSE
  OBVIOUS
<1>1. T \subseteq Nat
  OBVIOUS
<1>2. PICK k \in T : \A j \in T : k <= j
  BY <1>1, NatMin
<1>3. k # 0
  <2>1. IsUp(g, n, 0, [j \in 0 .. 0 |-> g])
    BY DEF IsUp
  <2>. QED
    BY <2>1
<1>4. k - 1 \in Nat /\ ~(k - 1 \in T)
  <2>1. k \in Nat /\ k - 1 \in Nat
    BY <1>1, <1>3
  <2> HIDE DEF T
  <2>2. k - 1 \in T => k <= k - 1
    BY <1>2
  <2>. QED
    BY <2>1, <2>2
<1>5. PICK f : IsUp(g, n, k - 1, f)
  BY <1>4
<1>6. PICK e : e = [l \in 0 .. k |-> IF l = k THEN SwapUp(f[k - 1], n) ELSE f[l]]
  OBVIOUS
<1>7. \A l \in 0 .. k : e[l] = IF l = 0 THEN g ELSE SwapUp(e[l - 1], n)
  <2> TAKE l \in 0 .. k
  <2>1. k \in Nat \ {0} /\ l \in Nat
    BY <1>1, <1>3
  <2>2. CASE l = k
    BY <1>6, <2>1, <2>2
  <2>3. CASE l # k
    <3>1. l \in 0 .. k - 1 /\ e[l] = f[l]
      BY <1>6, <2>1, <2>3
    <3>2. l # 0 => e[l - 1] = f[l - 1]
      BY <1>6, <2>1, <3>1
    <3>. QED
      BY <1>5, <3>1, <3>2 DEF IsUp
  <2>. QED
    BY <2>2, <2>3
<1>8. IsUp(g, n, k, e)
  BY <1>6, <1>7 DEF IsUp
<1>. QED
  BY <1>2, <1>8

LEMMA SiftUpIs ==
  ASSUME NEW g, NEW f, Tree(g, f), NEW i \in 1 .. g.nelts, OrderedBut(g, f, i),
         NEW r, r = SiftUp(g, f[i])
  PROVE  /\ Same(g, r)
         /\ \E e \in [1 .. g.nelts -> Node] :
              Tree(r, e) /\ Ordered(r, e) /\ NodesOf(g.nelts, e) = NodesOf(g.nelts, f)
<1>1. PICK N : N = g.nelts
  OBVIOUS
<1>2. PICK n : n = f[i]
  OBVIOUS
<1>3. N \in Nat /\ i \in 1 .. N /\ f \in [1 .. N -> Node] /\ g \in HeapShape
  BY <1>1 DEF Tree, HeapShape
<1>4. \E up : IsUp(g, n, N, up)
  BY <1>3, UpExists
<1>5. PICK up : IsUp(g, n, N, up) /\ up = CHOOSE u : IsUp(g, n, N, u)
  BY <1>4
<1>6. r = up[N]
  BY <1>1, <1>2, <1>5 DEF SiftUp, IsUp
<1>7. up[0] = g /\ \A k \in 0 .. N : k # 0 => up[k] = SwapUp(up[k - 1], n)
  BY <1>3, <1>5 DEF IsUp
<1> DEFINE G(k) == UpTo(g, n, NodesOf(N, f), k, up[k])
           T == {k \in Nat : k \in 0 .. N /\ ~G(k)}
<1>8. G(0)
  <2>1. i + 0 <= N
    BY <1>3
  <2>2. Same(g, g)
    BY <1>3 DEF Same
  <2>. QED
    BY <1>1, <1>2, <1>3, <1>7, <2>1, <2>2 DEF UpTo
<1>9. ASSUME NEW k \in 1 .. N, G(k - 1) PROVE G(k)
  <2>1. PICK e \in [1 .. N -> Node] : \E j \in 1 .. N :
          /\ Tree(up[k - 1], e) /\ Same(g, up[k - 1]) /\ OrderedBut(up[k - 1], e, j) /\ e[j] = n
          /\ NodesOf(N, e) = NodesOf(N, f)
          /\ Ordered(up[k - 1], e) \/ j + (k - 1) <= N
    BY <1>1, <1>9 DEF UpTo
  <2>2. PICK j \in 1 .. N :
          /\ Tree(up[k - 1], e) /\ Same(g, up[k - 1]) /\ OrderedBut(up[k - 1], e, j) /\ e[j] = n
          /\ NodesOf(N, e) = NodesOf(N, f)
          /\ Ordered(up[k - 1], e) \/ j + (k - 1) <= N
    BY <2>1
  <2>3. PICK g1 : g1 = up[k - 1]
    OBVIOUS
  <2>4. PICK g2 : g2 = up[k]
    OBVIOUS
  <2>5. g2 = SwapUp(g1, e[j]) /\ g1.nelts = N /\ Same(g, g1)
    BY <1>1, <1>3, <1>7, <2>2, <2>3, <2>4 DEF Same
  <2>6. Tree(g1, e) /\ OrderedBut(g1, e, j)
    BY <2>2, <2>3
  <2>7. \/ g2 = g1 /\ Ordered(g1, e)
        \/ /\ j # 1 /\ Tree(g2, Swapped(e, j \div 2, j)) /\ Same(g1, g2)
           /\ OrderedBut(g2, Swapped(e, j \div 2, j), j \div 2)
    BY <2>5, <2>6, SwapUpOnce
  <2>8. CASE g2 = g1 /\ Ordered(g1, e)
    BY <1>1, <2>2, <2>4, <2>5, <2>6, <2>8 DEF UpTo
  <2>9. CASE /\ j # 1 /\ Tree(g2, Swapped(e, j \div 2, j)) /\ Same(g1, g2)
             /\ OrderedBut(g2, Swapped(e, j \div 2, j), j \div 2)
    <3>1. PICK p : p = j \div 2
      OBVIOUS
    <3>2. p \in 1 .. N /\ p < j
      BY <1>3, <2>9, <3>1, Halves
    <3>3. PICK d : d = Swapped(e, p, j)
      OBVIOUS
    <3>4. d \in [1 .. N -> Node] /\ d[p] = n
      BY <2>2, <3>2, <3>3 DEF Swapped
    <3>5. NodesOf(N, d) = NodesOf(N, f)
      BY <1>3, <2>2, <3>2, <3>3, SwapKeepsNodes
    <3>6. Same(g, g2)
      BY <2>5, <2>9 DEF Same
    <3>7. CASE j + (k - 1) <= N
      <4>1. p + k <= N
        BY <1>3, <3>2, <3>7
      <4>2. Tree(g2, d) /\ OrderedBut(g2, d, p)
        BY <2>9, <3>1, <3>3
      <4>. QED
        BY <1>1, <2>4, <3>2, <3>4, <3>5, <3>6, <4>1, <4>2 DEF UpTo
    <3>8. CASE Ordered(g1, e)
      <4>1. g2 = g1
        <5>1. PICK q : q = e[p]
          OBVIOUS
        <5>2. g1.parent[e[j]] = q
          BY <2>5, <2>6, <2>9, <3>1, <5>1 DEF Tree, LinksAt
        <5>3. g1.key[q] <= g1.key[e[j]]
          <6>1. j \in 2 .. N
            BY <1>3, <2>9
          <6>. QED
            BY <2>5, <3>1, <3>8, <5>1, <6>1 DEF Ordered, InOrder
        <5>4. g1.key[q] \in Nat /\ g1.key[e[j]] \in Nat
          <6>1. g1.key \in [Node -> Nat] /\ q \in Node /\ e[j] \in Node
            BY <2>6, <3>2, <5>1 DEF Tree, HeapShape
          <6>. QED
            BY <6>1
        <5>. QED
          BY <2>5, <5>2, <5>3, <5>4 DEF SwapUp, Less
      <4>. QED
        BY <1>1, <2>2, <2>4, <2>5, <2>6, <3>8, <4>1 DEF UpTo
    <3>. QED
      BY <2>2, <2>3, <3>7, <3>8
  <2>. QED
    BY <2>7, <2>8, <2>9
<1> HIDE DEF G
<1>10. T = {}
  <2> SUFFICES ASSUME T # {} PROVE FALSE
    OBVIOUS
  <2>1. PICK k \in T : \A l \in T : k <= l
    BY NatMin
  <2>2. k \in Nat /\ k \in 0 .. N /\ ~G(k) /\ k # 0
    BY <1>8
  <2>3. k - 1 \in Nat /\ k - 1 \in 0 .. N /\ k \in 1 .. N
    BY <1>3, <2>2
  <2>4. ~(k - 1 \in T)
    BY <2>1, <2>2
  <2>5. G(k - 1)
    BY <2>3, <2>4
  <2>. QED
    BY <1>9, <2>2, <2>3, <2>5
<1>11. G(N)
  <2>1. N \in 0 .. N
    BY <1>3
  <2>. QED
    BY <1>3, <1>10, <2>1
<1>12. PICK e \in [1 .. N -> Node] : \E j \in 1 .. N :
         /\ Tree(r, e) /\ Same(g, r) /\ NodesOf(N, e) = NodesOf(N, f)
         /\ Ordered(r, e) \/ j + N <= N
  BY <1>1, <1>6, <1>11 DEF G, UpTo
<1>13. \A j \in 1 .. N : ~(j + N <= N)
  BY <1>3
<1>. QED
  BY <1>1, <1>12, <1>13
-----------------------------------------------------------------------------
(* The loop down. *)
LEMMA SwapDownOnce ==
  ASSUME NEW g, NEW f, Tree(g, f), NEW i \in 1 .. g.nelts, OrderedAround(g, f, i),
         NEW r, r = SwapDown(g, f[i])
  PROVE  \/ r = g /\ OrderedBut(g, f, i)
         \/ \E c \in 1 .. g.nelts :
              /\ c = 2 * i \/ c = 2 * i + 1
              /\ g.key[f[c]] < g.key[f[i]]
              /\ Tree(r, Swapped(f, i, c)) /\ Same(g, r)
              /\ OrderedAround(r, Swapped(f, i, c), c)
<1>1. PICK N : N = g.nelts
  OBVIOUS
<1>2. PICK n : n = f[i]
  OBVIOUS
<1>3. /\ N \in Nat /\ i \in 1 .. N /\ i \in Nat \ {0} /\ g.key \in [Node -> Nat]
      /\ f \in [1 .. N -> Node] /\ NULL \notin Node /\ n \in Node
  <2>1. N \in Nat /\ i \in 1 .. N /\ g.key \in [Node -> Nat] /\ f \in [1 .. N -> Node]
    BY <1>1 DEF Tree, HeapShape
  <2>. QED
    BY <1>2, <2>1, MinHeapAssumption
<1>4. PICK l : l = InTree(N, f, 2 * i)
  OBVIOUS
<1>5. PICK m : m = InTree(N, f, 2 * i + 1)
  OBVIOUS
<1>6. g.left[n] = l /\ g.right[n] = m
  BY <1>1, <1>2, <1>4, <1>5 DEF Tree, LinksAt
<1>7. PICK s : s = Smallest(g, n)
  OBVIOUS
<1>8. /\ l = NULL <=> ~(2 * i <= N)
      /\ m = NULL <=> ~(2 * i + 1 <= N)
      /\ l # NULL => l = f[2 * i] /\ 2 * i \in 1 .. N
      /\ m # NULL => m = f[2 * i + 1] /\ 2 * i + 1 \in 1 .. N
  <2>1. 2 * i \in Nat \ {0} /\ 2 * i + 1 \in Nat \ {0}
    BY <1>3
  <2>2. \A k \in Nat \ {0} : k <= N => k \in 1 .. N /\ f[k] \in Node
    BY <1>3
  <2>3. l = NULL <=> ~(2 * i <= N)
    BY <1>3, <1>4, <2>1, <2>2 DEF InTree
  <2>4. m = NULL <=> ~(2 * i + 1 <= N)
    BY <1>3, <1>5, <2>1, <2>2 DEF InTree
  <2>. QED
    BY <1>4, <1>5, <2>1, <2>2, <2>3, <2>4 DEF InTree
<1>9. \A j \in 1 .. N : g.key[f[j]] \in Nat
  BY <1>3
<1>10. g.key[n] \in Nat /\ (l # NULL => g.key[l] \in Nat) /\ (m # NULL => g.key[m] \in Nat)
  BY <1>2, <1>3, <1>8, <1>9
<1>11. \/ s = n /\ (l # NULL => g.key[n] <= g.key[l]) /\ (m # NULL => g.key[n] <= g.key[m])
       \/ /\ s # n /\ s = l /\ l # NULL /\ g.key[l] < g.key[n]
          /\ m # NULL => g.key[l] <= g.key[m]
       \/ /\ s # n /\ s = m /\ m # NULL /\ g.key[m] < g.key[n]
          /\ l # NULL => g.key[m] <= g.key[l]
  BY <1>6, <1>7, <1>10 DEF Smallest, Less
<1>12. \A j \in 2 .. N : /\ j \in 1 .. N /\ j \in Nat \ {0} /\ j \div 2 \in 1 .. N /\ j \div 2 # j
                         /\ j \div 2 = i <=> j = 2 * i \/ j = 2 * i + 1
  <2> TAKE j \in 2 .. N
  <2>1. j \in Nat \ {0} /\ j # 1 /\ j \in 1 .. N
    BY <1>3
  <2>2. j \div 2 \in 1 .. N /\ j \div 2 # j
    BY <1>3, <2>1, Halves
  <2>3. j \div 2 = i <=> j = 2 * i \/ j = 2 * i + 1
    BY <1>3, <2>1, Halves
  <2>. QED
    BY <2>1, <2>2, <2>3
<1>13. \A j \in 2 .. N : j # i /\ j \div 2 # i => g.key[f[j \div 2]] <= g.key[f[j]]
  BY <1>1 DEF OrderedAround, InOrder
<1>14. \A j \in 2 .. N : j \div 2 = i /\ i # 1 => g.key[f[i \div 2]] <= g.key[f[j]]
  BY <1>1 DEF OrderedAround, Bridged
<1>15. CASE s = n /\ (l # NULL => g.key[n] <= g.key[l]) /\ (m # NULL => g.key[n] <= g.key[m])
  <2>1. r = g
    BY <1>2, <1>7, <1>15 DEF SwapDown
  <2>2. \A j \in 2 .. N : j # i => InOrder(g, f, j)
    <3> SUFFICES ASSUME NEW j \in 2 .. N, j # i PROVE InOrder(g, f, j)
      OBVIOUS
    <3>1. CASE j \div 2 # i
      BY <1>13, <3>1 DEF InOrder
    <3>2. CASE j \div 2 = i
      <4>1. j = 2 * i \/ j = 2 * i + 1
        BY <1>12, <3>2
      <4>2. j <= N
        BY <1>3
      <4>3. CASE j = 2 * i
        BY <1>2, <1>8, <1>15, <3>2, <4>2, <4>3 DEF InOrder
      <4>4. CASE j = 2 * i + 1
        BY <1>2, <1>8, <1>15, <3>2, <4>2, <4>4 DEF InOrder
      <4>. QED
        BY <4>1, <4>3, <4>4
    <3>. QED
      BY <3>1, <3>2
  <2>. QED
    BY <1>1, <2>1, <2>2 DEF OrderedBut, OrderedAround
<1>16. ASSUME NEW c \in 1 .. N, c = 2 * i \/ c = 2 * i + 1, s = f[c], s # n,
              g.key[f[c]] < g.key[n],
              \A j \in 2 .. N : j \div 2 = i => g.key[f[c]] <= g.key[f[j]]
       PROVE  /\ Tree(r, Swapped(f, i, c)) /\ Same(g, r)
              /\ OrderedAround(r, Swapped(f, i, c), c)
  <2>1. r = heap_node_swap(g, f[i], f[c])
    BY <1>2, <1>7, <1>16 DEF SwapDown
  <2>2. PICK e : e = Swapped(f, i, c)
    OBVIOUS
  <2>3. Tree(r, e) /\ Same(g, r)
    BY <1>1, <1>16, <2>1, <2>2, SwapKeepsTree
  <2>4. r.nelts = N /\ r.key = g.key
    BY <1>1, <2>3 DEF Same
  <2>5. c # i /\ c \in 2 .. N /\ c \div 2 = i
    <3>1. c # i /\ c \in 2 .. N
      BY <1>3, <1>16
    <3>. QED
      BY <1>12, <1>16, <3>1
  <2>6. e[i] = f[c] /\ e[c] = n /\ \A j \in 1 .. N : j # i /\ j # c => e[j] = f[j]
    BY <1>2, <1>3, <2>2, <2>5 DEF Swapped
  <2>7. \A j \in 2 .. N : j # c /\ j \div 2 # c => g.key[e[j \div 2]] <= g.key[e[j]]
    <3> SUFFICES ASSUME NEW j \in 2 .. N, j # c, j \div 2 # c
                 PROVE  g.key[e[j \div 2]] <= g.key[e[j]]
      OBVIOUS
    <3>1. CASE j = i
      <4>1. i # 1 /\ i \div 2 \in 1 .. N /\ i \div 2 < i /\ i < c
        BY <1>3, <1>12, <1>16, <3>1, Halves
      <4>2. i \div 2 # i /\ i \div 2 # c
        BY <1>3, <4>1
      <4>3. e[i \div 2] = f[i \div 2] /\ e[i] = f[c]
        BY <2>6, <4>1, <4>2
      <4>4. g.key[f[i \div 2]] <= g.key[f[c]]
        BY <1>14, <2>5, <4>1
      <4>. QED
        BY <3>1, <4>3, <4>4
    <3>2. CASE j # i /\ j \div 2 = i
      BY <1>12, <1>16, <2>6, <3>2
    <3>3. CASE j # i /\ j \div 2 # i
      BY <1>12, <1>13, <2>6, <3>3
    <3>. QED
      BY <3>1, <3>2, <3>3
  <2>8. \A j \in 2 .. N : j \div 2 = c /\ c # 1 => g.key[e[c \div 2]] <= g.key[e[j]]
    <3> SUFFICES ASSUME NEW j \in 2 .. N, j \div 2 = c PROVE g.key[e[c \div 2]] <= g.key[e[j]]
      OBVIOUS
    <3>1. j # c /\ j # i
      <4>1. c \div 2 # c /\ j \div 2 # j
        BY <1>12, <2>5
      <4>2. j # i
        <5>1. c > i /\ j \div 2 < j
          BY <1>3, <1>12, <1>16, Halves
        <5>. QED
          BY <1>3, <5>1
      <4>. QED
        BY <4>1, <4>2
    <3>2. g.key[f[c]] <= g.key[f[j]]
      BY <1>13, <2>5, <3>1
    <3>. QED
      BY <1>12, <2>5, <2>6, <3>1, <3>2
  <2>9. OrderedAround(r, e, c)
    BY <2>4, <2>7, <2>8 DEF OrderedAround, Bridged, InOrder
  <2>. QED
    BY <2>2, <2>3, <2>9
<1>17. CASE /\ s # n /\ s = l /\ l # NULL /\ g.key[l] < g.key[n]
            /\ m # NULL => g.key[l] <= g.key[m]
  <2>1. 2 * i \in 1 .. N /\ s = f[2 * i] /\ g.key[f[2 * i]] < g.key[f[i]]
    BY <1>2, <1>8, <1>17
  <2>2. \A j \in 2 .. N : j \div 2 = i => g.key[f[2 * i]] <= g.key[f[j]]
    <3> SUFFICES ASSUME NEW j \in 2 .. N, j \div 2 = i PROVE g.key[f[2 * i]] <= g.key[f[j]]
      OBVIOUS
    <3>1. j <= N /\ (j = 2 * i \/ j = 2 * i + 1)
      BY <1>3, <1>12
    <3>2. CASE j = 2 * i
      <4>1. g.key[f[2 * i]] \in Nat
        BY <1>9, <2>1
      <4>. QED
        BY <3>2, <4>1
    <3>3. CASE j = 2 * i + 1
      BY <1>8, <1>17, <3>1, <3>3
    <3>. QED
      BY <3>1, <3>2, <3>3
  <2>. QED
    BY <1>1, <1>2, <1>16, <1>17, <2>1, <2>2
<1>18. CASE /\ s # n /\ s = m /\ m # NULL /\ g.key[m] < g.key[n]
            /\ l # NULL => g.key[m] <= g.key[l]
  <2>1. 2 * i + 1 \in 1 .. N /\ s = f[2 * i + 1] /\ g.key[f[2 * i + 1]] < g.key[f[i]]
    BY <1>2, <1>8, <1>18
  <2>2. \A j \in 2 .. N : j \div 2 = i => g.key[f[2 * i + 1]] <= g.key[f[j]]
    <3> SUFFICES ASSUME NEW j \in 2 .. N, j \div 2 = i PROVE g.key[f[2 * i + 1]] <= g.key[f[j]]
      OBVIOUS
    <3>1. j <= N /\ (j = 2 * i \/ j = 2 * i + 1)
      BY <1>3, <1>12
    <3>2. CASE j = 2 * i + 1
      <4>1. g.key[f[2 * i + 1]] \in Nat
        BY <1>9, <2>1
      <4>. QED
        BY <3>2, <4>1
    <3>3. CASE j = 2 * i
      BY <1>8, <1>18, <3>1, <3>3
    <3>. QED
      BY <3>1, <3>2, <3>3
  <2>. QED
    BY <1>1, <1>2, <1>16, <1>18, <2>1, <2>2
<1>. QED
  BY <1>11, <1>15, <1>17, <1>18

(* After k turns the node is below the position k, or its children do not  *)
(* come before it.                                                         *)
DownTo(g, n, nodes, k, r) ==
  \E e \in [1 .. g.nelts -> Node] : \E j \in 1 .. g.nelts :
    /\ Tree(r, e) /\ Same(g, r) /\ OrderedAround(r, e, j) /\ e[j] = n
    /\ NodesOf(g.nelts, e) = nodes
    /\ OrderedBut(r, e, j) \/ j > k

IsDown(g, n, k, down) == down = [l \in 0 .. k |-> IF l = 0 THEN g ELSE SwapDown(down[l - 1], n)]

LEMMA DownExists ==
  ASSUME NEW g, NEW n, NEW N \in Nat
  PROVE  \E down : IsDown(g, n, N, down)
<1> DEFINE T == {k \in Nat : ~ \E f : IsDown(g, n, k, f)}
<1> SUFFICES T = {}
  OBVIOUS
<1> SUFFICES ASSUME T # {} PROVE FALSE
  OBVIOUS
<1>1. T \subseteq Nat
  OBVIOUS
<1>2. PICK k \in T : \A j \in T : k <= j
  BY <1>1, NatMin
<1>3. k # 0
  <2>1. IsDown(g, n, 0, [j \in 0 .. 0 |-> g])
    BY DEF IsDown
  <2>. QED
    BY <2>1
<1>4. k - 1 \in Nat /\ ~(k - 1 \in T)
  <2>1. k \in Nat /\ k - 1 \in Nat
    BY <1>1, <1>3
  <2> HIDE DEF T
  <2>2. k - 1 \in T => k <= k - 1
    BY <1>2
  <2>. QED
    BY <2>1, <2>2
<1>5. PICK f : IsDown(g, n, k - 1, f)
  BY <1>4
<1>6. PICK e : e = [l \in 0 .. k |-> IF l = k THEN SwapDown(f[k - 1], n) ELSE f[l]]
  OBVIOUS
<1>7. \A l \in 0 .. k : e[l] = IF l = 0 THEN g ELSE SwapDown(e[l - 1], n)
  <2> TAKE l \in 0 .. k
  <2>1. k \in Nat \ {0} /\ l \in Nat
    BY <1>1, <1>3
  <2>2. CASE l = k
    BY <1>6, <2>1, <2>2
  <2>3. CASE l # k
    <3>1. l \in 0 .. k - 1 /\ e[l] = f[l]
      BY <1>6, <2>1, <2>3
    <3>2. l # 0 => e[l - 1] = f[l - 1]
      BY <1>6, <2>1, <3>1
    <3>. QED
      BY <1>5, <3>1, <3>2 DEF IsDown
  <2>. QED
    BY <2>2, <2>3
<1>8. IsDown(g, n, k, e)
  BY <1>6, <1>7 DEF IsDown
<1>. QED
  BY <1>2, <1>8

LEMMA SiftDownIs ==
  ASSUME NEW g, NEW f, Tree(g, f), NEW i \in 1 .. g.nelts, OrderedAround(g, f, i),
         NEW r, r = SiftDown(g, f[i])
  PROVE  /\ Same(g, r)
         /\ \E e \in [1 .. g.nelts -> Node] : \E j \in 1 .. g.nelts :
              /\ Tree(r, e) /\ OrderedBut(r, e, j) /\ e[j] = f[i]
              /\ NodesOf(g.nelts, e) = NodesOf(g.nelts, f)
<1>1. PICK N : N = g.nelts
  OBVIOUS
<1>2. PICK n : n = f[i]
  OBVIOUS
<1>3. N \in Nat /\ i \in 1 .. N /\ f \in [1 .. N -> Node] /\ g \in HeapShape
  BY <1>1 DEF Tree, HeapShape
<1>4. \E down : IsDown(g, n, N, down)
  BY <1>3, DownExists
<1>5. PICK down : IsDown(g, n, N, down) /\ down = CHOOSE u : IsDown(g, n, N, u)
  BY <1>4
<1>6. r = down[N]
  BY <1>1, <1>2, <1>5 DEF SiftDown, IsDown
<1>7. down[0] = g /\ \A k \in 0 .. N : k # 0 => down[k] = SwapDown(down[k - 1], n)
  BY <1>3, <1>5 DEF IsDown
<1> DEFINE G(k) == DownTo(g, n, NodesOf(N, f), k, down[k])
           T == {k \in Nat : k \in 0 .. N /\ ~G(k)}
<1>8. G(0)
  <2>1. i > 0
    BY <1>3
  <2>2. Same(g, g)
    BY <1>3 DEF Same
  <2>. QED
    BY <1>1, <1>2, <1>3, <1>7, <2>1, <2>2 DEF DownTo
<1>9. ASSUME NEW k \in 1 .. N, G(k - 1) PROVE G(k)
  <2>1. PICK e \in [1 .. N -> Node] : \E j \in 1 .. N :
          /\ Tree(down[k - 1], e) /\ Same(g, down[k - 1]) /\ OrderedAround(down[k - 1], e, j)
          /\ e[j] = n /\ NodesOf(N, e) = NodesOf(N, f)
          /\ OrderedBut(down[k - 1], e, j) \/ j > k - 1
    BY <1>1, <1>9 DEF DownTo
  <2>2. PICK j \in 1 .. N :
          /\ Tree(down[k - 1], e) /\ Same(g, down[k - 1]) /\ OrderedAround(down[k - 1], e, j)
          /\ e[j] = n /\ NodesOf(N, e) = NodesOf(N, f)
          /\ OrderedBut(down[k - 1], e, j) \/ j > k - 1
    BY <2>1
  <2>3. PICK g1 : g1 = down[k - 1]
    OBVIOUS
  <2>4. PICK g2 : g2 = down[k]
    OBVIOUS
  <2>5. g2 = SwapDown(g1, e[j]) /\ g1.nelts = N /\ Same(g, g1)
    BY <1>1, <1>3, <1>7, <2>2, <2>3, <2>4 DEF Same
  <2>6. Tree(g1, e) /\ OrderedAround(g1, e, j)
    BY <2>2, <2>3
  <2>7. \/ g2 = g1 /\ OrderedBut(g1, e, j)
        \/ \E c \in 1 .. N :
             /\ c = 2 * j \/ c = 2 * j + 1
             /\ g1.key[e[c]] < g1.key[e[j]]
             /\ Tree(g2, Swapped(e, j, c)) /\ Same(g1, g2)
             /\ OrderedAround(g2, Swapped(e, j, c), c)
    BY <2>5, <2>6, SwapDownOnce
  <2>8. CASE g2 = g1 /\ OrderedBut(g1, e, j)
    BY <1>1, <2>2, <2>4, <2>5, <2>6, <2>8 DEF DownTo
  <2>9. ASSUME NEW c \in 1 .. N, c = 2 * j \/ c = 2 * j + 1, g1.key[e[c]] < g1.key[e[j]],
               Tree(g2, Swapped(e, j, c)), Same(g1, g2), OrderedAround(g2, Swapped(e, j, c), c)
        PROVE  G(k)
    <3>1. j \in Nat \ {0} /\ c > j /\ c \in 2 .. N
      BY <1>3, <2>9
    <3>2. c \div 2 = j
      BY <2>9, <3>1, Halves
    <3>3. PICK d : d = Swapped(e, j, c)
      OBVIOUS
    <3>4. d \in [1 .. N -> Node] /\ d[c] = n
      BY <2>2, <3>1, <3>3 DEF Swapped
    <3>5. NodesOf(N, d) = NodesOf(N, f)
      BY <1>3, <2>2, <3>3, SwapKeepsNodes
    <3>6. Same(g, g2)
      BY <2>5, <2>9 DEF Same
    <3>7. ~OrderedBut(g1, e, j)
      <4>1. g1.key[e[c]] \in Nat /\ g1.key[e[j]] \in Nat
        <5>1. g1.key \in [Node -> Nat] /\ e[c] \in Node /\ e[j] \in Node
          BY <2>6 DEF Tree, HeapShape
        <5>. QED
          BY <5>1
      <4>2. OrderedBut(g1, e, j) => g1.key[e[j]] <= g1.key[e[c]]
        BY <2>5, <3>1, <3>2 DEF OrderedBut, InOrder
      <4>. QED
        BY <2>9, <4>1, <4>2
    <3>8. c > k
      BY <1>3, <2>2, <2>3, <3>1, <3>7
    <3>9. Tree(g2, d) /\ OrderedAround(g2, d, c)
      BY <2>9, <3>3
    <3>. QED
      BY <1>1, <2>4, <3>4, <3>5, <3>6, <3>8, <3>9 DEF DownTo
  <2>. QED
    BY <2>7, <2>8, <2>9
<1> HIDE DEF G
<1>10. T = {}
  <2> SUFFICES ASSUME T # {} PROVE FALSE
    OBVIOUS
  <2>1. PICK k \in T : \A l \in T : k <= l
    BY NatMin
  <2>2. k \in Nat /\ k \in 0 .. N /\ ~G(k) /\ k # 0
    BY <1>8
  <2>3. k - 1 \in Nat /\ k - 1 \in 0 .. N /\ k \in 1 .. N
    BY <1>3, <2>2
  <2>4. ~(k - 1 \in T)
    BY <2>1, <2>2
  <2>5. G(k - 1)
    BY <2>3, <2>4
  <2>. QED
    BY <1>9, <2>2, <2>3, <2>5
<1>11. G(N)
  <2>1. N \in 0 .. N
    BY <1>3
  <2>. QED
    BY <1>3, <1>10, <2>1
<1>12. PICK e \in [1 .. N -> Node] : \E j \in 1 .. N :
         /\ Tree(r, e) /\ Same(g, r) /\ NodesOf(N, e) = NodesOf(N, f) /\ e[j] = n
         /\ OrderedBut(r, e, j) \/ j > N
  BY <1>1, <1>6, <1>11 DEF G, DownTo
<1>13. \A j \in 1 .. N : ~(j > N)
  BY <1>3
<1>. QED
  BY <1>1, <1>2, <1>12, <1>13
-----------------------------------------------------------------------------
(* Insert. *)
LEMMA TreeIsWalkable ==
  ASSUME NEW g, NEW f, Tree(g, f)
  PROVE  g.nelts \in Nat /\ Walkable(g.nelts, g, f)
BY DEF Tree, LinksAt, Walkable, HeapShape

LEMMA LinkIs ==
  ASSUME NEW g \in HeapShape, NEW i \in Nat \ {0}, NEW n \in Ptr,
         NEW at, i # 1 => at \in Node /\ at = At(g, i \div 2),
         NEW r, r = Link(g, i, n)
  PROVE  /\ Same(g, r) /\ r.parent = g.parent
         /\ r.min = IF i = 1 THEN n ELSE g.min
         /\ \A x \in Node :
              /\ r.left[x] = IF i # 1 /\ i % 2 # 1 /\ x = at THEN n ELSE g.left[x]
              /\ r.right[x] = IF i # 1 /\ i % 2 = 1 /\ x = at THEN n ELSE g.right[x]
<1>1. /\ g.min \in Ptr /\ g.nelts \in Nat /\ g.key \in [Node -> Nat]
      /\ g.left \in [Node -> Ptr] /\ g.right \in [Node -> Ptr] /\ g.parent \in [Node -> Ptr]
  BY DEF HeapShape
<1>2. CASE i = 1
  <2>1. r = [min |-> n, nelts |-> g.nelts, left |-> g.left, right |-> g.right,
             parent |-> g.parent, key |-> g.key]
    BY <1>2 DEF Link, HeapShape
  <2>. QED
    BY <1>1, <1>2, <2>1 DEF Same, HeapShape
<1>3. CASE i # 1 /\ i % 2 = 1
  <2>1. r = [min |-> g.min, nelts |-> g.nelts, left |-> g.left,
             right |-> [g.right EXCEPT ![at] = n], parent |-> g.parent, key |-> g.key]
    BY <1>3 DEF Link, HeapShape
  <2>2. Same(g, r)
    <3>1. [g.right EXCEPT ![at] = n] \in [Node -> Ptr]
      BY <1>1, <1>3
    <3>. QED
      BY <1>1, <2>1, <3>1 DEF Same, HeapShape
  <2>. QED
    BY <1>1, <1>3, <2>1, <2>2
<1>4. CASE i # 1 /\ i % 2 # 1
  <2>1. r = [min |-> g.min, nelts |-> g.nelts, left |-> [g.left EXCEPT ![at] = n],
             right |-> g.right, parent |-> g.parent, key |-> g.key]
    BY <1>4 DEF Link, HeapShape
  <2>2. Same(g, r)
    <3>1. [g.left EXCEPT ![at] = n] \in [Node -> Ptr]
      BY <1>1, <1>4
    <3>. QED
      BY <1>1, <2>1, <3>1 DEF Same, HeapShape
  <2>. QED
    BY <1>1, <1>4, <2>1, <2>2
<1>. QED
  BY <1>2, <1>3, <1>4

LEMMA InsertedIs ==
  ASSUME NEW f, Tree(h, f), Ordered(h, f), NEW n \in Node, n \notin NodesOf(h.nelts, f),
         NEW k \in Nat, NEW r, r = InsertedHeap(n, k)
  PROVE  /\ r \in HeapShape /\ r.nelts = h.nelts + 1 /\ r.key = [h.key EXCEPT ![n] = k]
         /\ \E e \in [1 .. h.nelts + 1 -> Node] :
              /\ Tree(r, e) /\ Ordered(r, e)
              /\ NodesOf(h.nelts + 1, e) = NodesOf(h.nelts, f) \cup {n}
<1>1. PICK N : N = h.nelts
  OBVIOUS
<1>2. PICK i : i = 1 + N
  OBVIOUS
<1>3. PICK p : p = i \div 2
  OBVIOUS
<1>4. /\ N \in Nat /\ f \in [1 .. N -> Node] /\ h \in HeapShape /\ NULL \notin Node /\ NULL \in Ptr
      /\ h.min = InTree(N, f, 1) /\ \A j, l \in 1 .. N : f[j] = f[l] => j = l
  BY <1>1, MinHeapAssumption DEF Tree, HeapShape, OneToOne, Ptr
<1>5. \A j \in 1 .. N : /\ h.parent[f[j]] = IF j = 1 THEN NULL ELSE f[j \div 2]
                        /\ h.left[f[j]] = InTree(N, f, 2 * j)
                        /\ h.right[f[j]] = InTree(N, f, 2 * j + 1)
  BY <1>1 DEF Tree, LinksAt
<1>6. \A j \in 1 .. N : f[j] \in Node /\ f[j] # n /\ f[j] # NULL
  BY <1>1, <1>4 DEF NodesOf
<1>7. i \in Nat \ {0} /\ i = N + 1 /\ (i = 1 <=> N = 0)
  BY <1>2, <1>4
<1>8. i # 1 => p \in 1 .. N
  BY <1>3, <1>7, <1>4, Halves
<1>9. PICK up : up = Above(h, i)
  OBVIOUS
<1>10. up = IF i = 1 THEN NULL ELSE f[p]
  <2>1. CASE i = 1
    BY <1>4, <1>7, <1>9, <2>1 DEF Above, InTree
  <2>2. CASE i # 1
    <3>1. Walkable(N, h, f)
      BY <1>1, TreeIsWalkable
    <3>2. At(h, p) = f[p]
      BY <1>4, <1>8, <2>2, <3>1, AtIsNode
    <3>. QED
      BY <1>3, <1>9, <2>2, <3>2 DEF Above
  <2>. QED
    BY <2>1, <2>2
<1>11. up \in Ptr
  BY <1>4, <1>8, <1>10 DEF Ptr
<1>12. PICK g0 : g0 = [h EXCEPT !.left[n] = NULL, !.right[n] = NULL, !.parent[n] = up,
                                !.nelts = i, !.key[n] = k]
  OBVIOUS
<1>13. g0 = [min |-> h.min, nelts |-> i, left |-> [h.left EXCEPT ![n] = NULL],
             right |-> [h.right EXCEPT ![n] = NULL], parent |-> [h.parent EXCEPT ![n] = up],
             key |-> [h.key EXCEPT ![n] = k]]
  BY <1>4, <1>12 DEF HeapShape
<1>14. /\ h.min \in Ptr /\ h.key \in [Node -> Nat]
       /\ h.left \in [Node -> Ptr] /\ h.right \in [Node -> Ptr] /\ h.parent \in [Node -> Ptr]
  BY <1>4 DEF HeapShape
<1>15. g0 \in HeapShape
  <2>1. /\ [h.left EXCEPT ![n] = NULL] \in [Node -> Ptr]
        /\ [h.right EXCEPT ![n] = NULL] \in [Node -> Ptr]
        /\ [h.parent EXCEPT ![n] = up] \in [Node -> Ptr]
        /\ [h.key EXCEPT ![n] = k] \in [Node -> Nat]
    BY <1>4, <1>11, <1>14
  <2>. QED
    BY <1>7, <1>13, <1>14, <2>1 DEF HeapShape
<1>16. /\ g0.nelts = i /\ g0.key = [h.key EXCEPT ![n] = k] /\ g0.min = h.min
       /\ g0.left[n] = NULL /\ g0.right[n] = NULL /\ g0.parent[n] = up
       /\ \A x \in Node \ {n} : /\ g0.left[x] = h.left[x] /\ g0.right[x] = h.right[x]
                                /\ g0.parent[x] = h.parent[x]
  BY <1>13, <1>14
<1>17. Walkable(N, g0, f)
  BY <1>4, <1>5, <1>6, <1>16 DEF Walkable
<1>18. i # 1 => f[p] \in Node /\ f[p] = At(g0, i \div 2)
  BY <1>3, <1>4, <1>8, <1>17, AtIsNode
<1>19. PICK g : g = Link(g0, i, n)
  OBVIOUS
<1>20. /\ Same(g0, g) /\ g.parent = g0.parent
       /\ g.min = IF i = 1 THEN n ELSE g0.min
       /\ \A x \in Node :
            /\ g.left[x] = IF i # 1 /\ i % 2 # 1 /\ x = f[p] THEN n ELSE g0.left[x]
            /\ g.right[x] = IF i # 1 /\ i % 2 = 1 /\ x = f[p] THEN n ELSE g0.right[x]
  <2>1. n \in Ptr
    BY DEF Ptr
  <2>. QED
    BY <1>7, <1>15, <1>18, <1>19, <2>1, LinkIs
<1>21. PICK e : e = [j \in 1 .. i |-> IF j = i THEN n ELSE f[j]]
  OBVIOUS
<1>22. /\ e \in [1 .. i -> Node] /\ e[i] = n
       /\ \A j \in 1 .. N : e[j] = f[j] /\ j \in 1 .. i /\ j # i
       /\ \A j \in 1 .. i : j = i \/ j \in 1 .. N
  BY <1>4, <1>7, <1>21
<1>23. \A j, l \in 1 .. i : e[j] = e[l] => j = l
  BY <1>4, <1>6, <1>22
<1>24. g.min = InTree(i, e, 1)
  <2>1. CASE i = 1
    BY <1>20, <1>22, <2>1 DEF InTree
  <2>2. CASE i # 1
    <3>1. 1 \in 1 .. N /\ 1 <= i /\ 1 <= N
      BY <1>4, <1>7, <2>2
    <3>. QED
      BY <1>4, <1>16, <1>20, <1>22, <2>2, <3>1 DEF InTree
  <2>. QED
    BY <2>1, <2>2
<1>25. i % 2 = 1 <=> i = 2 * p + 1
  BY <1>3, <1>7, Halves
<1>26. i = 2 * p \/ i = 2 * p + 1
  BY <1>3, <1>7, Halves
<1>27. \A j \in 1 .. i : g.parent[e[j]] = IF j = 1 THEN NULL ELSE e[j \div 2]
  <2> TAKE j \in 1 .. i
  <2>1. CASE j = i
    BY <1>3, <1>8, <1>10, <1>16, <1>20, <1>22, <2>1
  <2>2. CASE j # i
    <3>1. j \in 1 .. N /\ j \in Nat \ {0}
      BY <1>4, <1>22, <2>2
    <3>2. j # 1 => j \div 2 \in 1 .. N
      BY <1>4, <3>1, Halves
    <3>3. g.parent[e[j]] = h.parent[f[j]]
      BY <1>6, <1>16, <1>20, <1>22, <3>1
    <3>. QED
      BY <1>5, <1>22, <3>1, <3>2, <3>3
  <2>. QED
    BY <2>1, <2>2
<1>28. \A m \in Nat \ {0} : InTree(i, e, m) = IF m = i THEN n ELSE InTree(N, f, m)
  <2> TAKE m \in Nat \ {0}
  <2>1. CASE m = i
    BY <1>7, <1>22, <2>1 DEF InTree
  <2>2. CASE m # i /\ m <= N
    <3>1. m \in 1 .. N /\ m <= i
      BY <1>4, <1>7, <2>2
    <3>. QED
      BY <1>22, <2>2, <3>1 DEF InTree
  <2>3. CASE m # i /\ ~(m <= N)
    <3>1. ~(m <= i)
      BY <1>4, <1>7, <2>3
    <3>. QED
      BY <2>3, <3>1 DEF InTree
  <2>. QED
    BY <2>1, <2>2, <2>3
<1>29. \A j \in 1 .. i : /\ g.left[e[j]] = InTree(i, e, 2 * j)
                         /\ g.right[e[j]] = InTree(i, e, 2 * j + 1)
  <2> TAKE j \in 1 .. i
  <2>1. CASE j = i
    <3>1. ~(2 * i <= i) /\ ~(2 * i + 1 <= i)
      BY <1>7
    <3>2. i # 1 => f[p] # n
      BY <1>6, <1>8
    <3>. QED
      BY <1>16, <1>20, <1>22, <2>1, <3>1, <3>2 DEF InTree
  <2>2. CASE j # i
    <3>1. j \in 1 .. N /\ j \in Nat \ {0} /\ 2 * j \in Nat \ {0} /\ 2 * j + 1 \in Nat \ {0}
      BY <1>4, <1>22, <2>2
    <3>2. /\ g0.left[f[j]] = InTree(N, f, 2 * j) /\ g0.right[f[j]] = InTree(N, f, 2 * j + 1)
      BY <1>17, <3>1 DEF Walkable
    <3>3. i # 1 => (f[j] = f[p] <=> j = p)
      BY <1>4, <1>8, <3>1
    <3>4. 2 * j = i <=> i # 1 /\ i % 2 # 1 /\ j = p
      BY <1>3, <1>7, <1>25, <1>26, <3>1, Halves
    <3>5. 2 * j + 1 = i <=> i # 1 /\ i % 2 = 1 /\ j = p
      BY <1>3, <1>7, <1>25, <1>26, <3>1, Halves
    <3>6. g.left[f[j]] = IF 2 * j = i THEN n ELSE InTree(N, f, 2 * j)
      BY <1>6, <1>20, <3>1, <3>2, <3>3, <3>4
    <3>7. g.right[f[j]] = IF 2 * j + 1 = i THEN n ELSE InTree(N, f, 2 * j + 1)
      BY <1>6, <1>20, <3>1, <3>2, <3>3, <3>5
    <3>. QED
      BY <1>22, <1>28, <3>1, <3>6, <3>7
  <2>. QED
    BY <2>1, <2>2
<1>30. g \in HeapShape /\ g.nelts = i /\ g.key = [h.key EXCEPT ![n] = k]
  BY <1>16, <1>20 DEF Same
<1>31. Tree(g, e)
  BY <1>22, <1>23, <1>24, <1>27, <1>29, <1>30 DEF Tree, LinksAt, OneToOne
<1>32. OrderedBut(g, e, i)
  <2>1. \A j \in 2 .. i : j # i => g.key[e[j \div 2]] <= g.key[e[j]]
    <3> SUFFICES ASSUME NEW j \in 2 .. i, j # i PROVE g.key[e[j \div 2]] <= g.key[e[j]]
      OBVIOUS
    <3>1. j \in 2 .. N /\ j \in 1 .. N /\ j \in Nat \ {0} /\ j # 1
      BY <1>4, <1>7
    <3>2. j \div 2 \in 1 .. N
      BY <1>4, <3>1, Halves
    <3>3. h.key[f[j \div 2]] <= h.key[f[j]]
      BY <1>1, <3>1 DEF Ordered, InOrder
    <3>4. g.key[f[j]] = h.key[f[j]] /\ g.key[f[j \div 2]] = h.key[f[j \div 2]]
      BY <1>6, <1>14, <1>30, <3>1, <3>2
    <3>. QED
      BY <1>22, <3>1, <3>2, <3>3, <3>4
  <2>2. \A j \in 2 .. i : j \div 2 # i
    <3> TAKE j \in 2 .. i
    <3>1. j \in Nat \ {0} /\ j # 1 /\ j <= i
      BY <1>7
    <3>2. j \div 2 < j /\ j \div 2 \in Nat
      BY <3>1, Halves
    <3>. QED
      BY <1>7, <3>1, <3>2
  <2>. QED
    BY <1>30, <2>1, <2>2 DEF OrderedBut, Bridged, InOrder
<1>33. r = SiftUp(g, n)
  BY <1>1, <1>2, <1>9, <1>12, <1>19 DEF InsertedHeap
<1>34. /\ Same(g, r)
       /\ \E d \in [1 .. i -> Node] :
            Tree(r, d) /\ Ordered(r, d) /\ NodesOf(i, d) = NodesOf(i, e)
  <2>1. i \in 1 .. i
    BY <1>7
  <2>. QED
    BY <1>22, <1>30, <1>31, <1>32, <1>33, <2>1, SiftUpIs
<1>35. NodesOf(i, e) = NodesOf(N, f) \cup {n}
  <2>1. NodesOf(i, e) \subseteq NodesOf(N, f) \cup {n}
    BY <1>22 DEF NodesOf
  <2>2. NodesOf(N, f) \subseteq NodesOf(i, e)
    BY <1>22 DEF NodesOf
  <2>3. n \in NodesOf(i, e)
    <3>1. i \in 1 .. i
      BY <1>7
    <3>. QED
      BY <1>22, <3>1 DEF NodesOf
  <2>. QED
    BY <2>1, <2>2, <2>3
<1>36. r \in HeapShape /\ r.nelts = i /\ r.key = [h.key EXCEPT ![n] = k]
  BY <1>30, <1>34 DEF Same
<1>. QED
  BY <1>1, <1>7, <1>34, <1>35, <1>36
-----------------------------------------------------------------------------
(* Remove: the tree without its last node. *)
Shortened(N, f) == [j \in 1 .. N - 1 |-> f[j]]

LEMMA UnlinkedIs ==
  ASSUME NEW f, Tree(h, f), h.nelts # 0
  PROVE  /\ Tree(Unlinked, Shortened(h.nelts, f))
         /\ Unlinked.nelts = h.nelts - 1 /\ Unlinked.key = h.key
<1>1. PICK N : N = h.nelts
  OBVIOUS
<1>2. PICK p : p = N \div 2
  OBVIOUS
<1>3. /\ N \in Nat \ {0} /\ f \in [1 .. N -> Node] /\ h \in HeapShape /\ NULL \notin Node
      /\ NULL \in Ptr /\ h.min = InTree(N, f, 1) /\ \A j, l \in 1 .. N : f[j] = f[l] => j = l
  BY <1>1, MinHeapAssumption DEF Tree, HeapShape, OneToOne, Ptr
<1>4. \A j \in 1 .. N : /\ h.parent[f[j]] = IF j = 1 THEN NULL ELSE f[j \div 2]
                        /\ h.left[f[j]] = InTree(N, f, 2 * j)
                        /\ h.right[f[j]] = InTree(N, f, 2 * j + 1)
  BY <1>1 DEF Tree, LinksAt
<1>5. PICK g0 : g0 = [h EXCEPT !.nelts = @ - 1]
  OBVIOUS
<1>6. g0 = [min |-> h.min, nelts |-> N - 1, left |-> h.left, right |-> h.right,
            parent |-> h.parent, key |-> h.key]
  BY <1>1, <1>3, <1>5 DEF HeapShape
<1>7. g0 \in HeapShape
  BY <1>3, <1>6 DEF HeapShape
<1>8. Walkable(N, g0, f)
  BY <1>3, <1>4, <1>6 DEF Walkable
<1>9. p \in Nat /\ (N # 1 => p \in 1 .. N) /\ (N = 2 * p \/ N = 2 * p + 1)
      /\ (N % 2 = 1 <=> N = 2 * p + 1)
  <2>1. p \in Nat /\ (N = 2 * p \/ N = 2 * p + 1) /\ (N # 1 => p # 0 /\ p < N)
        /\ (N % 2 = 1 <=> N = 2 * p + 1)
    BY <1>2, <1>3, Halves
  <2>. QED
    BY <1>3, <2>1
<1>10. N # 1 => f[p] \in Node /\ f[p] = At(g0, N \div 2)
  BY <1>2, <1>3, <1>8, <1>9, AtIsNode
<1>11. PICK g : g = Link(g0, N, NULL)
  OBVIOUS
<1>12. /\ Same(g0, g) /\ g.parent = g0.parent
       /\ g.min = IF N = 1 THEN NULL ELSE g0.min
       /\ \A x \in Node :
            /\ g.left[x] = IF N # 1 /\ N % 2 # 1 /\ x = f[p] THEN NULL ELSE g0.left[x]
            /\ g.right[x] = IF N # 1 /\ N % 2 = 1 /\ x = f[p] THEN NULL ELSE g0.right[x]
  BY <1>3, <1>7, <1>10, <1>11, LinkIs
<1>13. g = Unlinked
  BY <1>1, <1>5, <1>11 DEF Unlinked
<1>14. PICK e : e = Shortened(N, f)
  OBVIOUS
<1>15. \A j \in 1 .. N - 1 : j \in 1 .. N /\ j \in Nat \ {0} /\ j <= N - 1
           /\ e[j] = f[j] /\ f[j] \in Node
  BY <1>3, <1>14 DEF Shortened
<1>16. e \in [1 .. N - 1 -> Node]
  BY <1>14, <1>15 DEF Shortened
<1>17. \A m \in Nat \ {0} : InTree(N - 1, e, m) = IF m = N THEN NULL ELSE InTree(N, f, m)
  <2> TAKE m \in Nat \ {0}
  <2>1. CASE m = N
    <3>1. ~(m <= N - 1)
      BY <1>3, <2>1
    <3>. QED
      BY <2>1, <3>1 DEF InTree
  <2>2. CASE m # N /\ m <= N
    <3>1. m \in 1 .. N - 1 /\ m <= N - 1
      BY <1>3, <2>2
    <3>. QED
      BY <1>15, <2>2, <3>1 DEF InTree
  <2>3. CASE ~(m <= N)
    <3>1. ~(m <= N - 1) /\ m # N
      BY <1>3, <2>3
    <3>. QED
      BY <2>3, <3>1 DEF InTree
  <2>. QED
    BY <2>1, <2>2, <2>3
<1>18. g.min = InTree(N - 1, e, 1)
  BY <1>3, <1>6, <1>12, <1>17
<1>19. \A j \in 1 .. N - 1 : LinksAt(g, e, j)
  <2> TAKE j \in 1 .. N - 1
  <2>1. j \in 1 .. N /\ j \in Nat \ {0} /\ j <= N - 1 /\ e[j] = f[j] /\ f[j] \in Node
    BY <1>15
  <2>2. g.nelts = N - 1
    BY <1>6, <1>12 DEF Same
  <2>3. g.parent[e[j]] = IF j = 1 THEN NULL ELSE e[j \div 2]
    <3>1. j # 1 => j \div 2 \in 1 .. N - 1
      <4>1. j # 1 => j \div 2 \in Nat /\ j \div 2 # 0 /\ j \div 2 < j
        BY <2>1, Halves
      <4>. QED
        BY <1>3, <2>1, <4>1
    <3>. QED
      BY <1>4, <1>6, <1>12, <1>15, <2>1, <3>1
  <2>4. /\ h.left[f[j]] = InTree(N, f, 2 * j) /\ h.right[f[j]] = InTree(N, f, 2 * j + 1)
        /\ 2 * j \in Nat \ {0} /\ 2 * j + 1 \in Nat \ {0}
    BY <1>4, <2>1
  <2>5. N # 1 => (f[j] = f[p] <=> j = p)
    BY <1>3, <1>9, <2>1
  <2>6. 2 * j = N <=> N # 1 /\ N % 2 # 1 /\ j = p
    BY <1>3, <1>9, <2>1
  <2>7. 2 * j + 1 = N <=> N # 1 /\ N % 2 = 1 /\ j = p
    BY <1>3, <1>9, <2>1
  <2>8. g.left[f[j]] = IF 2 * j = N THEN NULL ELSE InTree(N, f, 2 * j)
    BY <1>6, <1>12, <2>1, <2>4, <2>5, <2>6
  <2>9. g.right[f[j]] = IF 2 * j + 1 = N THEN NULL ELSE InTree(N, f, 2 * j + 1)
    BY <1>6, <1>12, <2>1, <2>4, <2>5, <2>7
  <2>10. /\ g.left[e[j]] = InTree(N - 1, e, 2 * j)
         /\ g.right[e[j]] = InTree(N - 1, e, 2 * j + 1)
    BY <1>17, <2>1, <2>4, <2>8, <2>9
  <2>. QED
    BY <2>2, <2>3, <2>10 DEF LinksAt
<1>20. \A j, l \in 1 .. N - 1 : e[j] = e[l] => j = l
  BY <1>3, <1>15
<1>21. g \in HeapShape /\ g.nelts = N - 1 /\ g.key = h.key
  BY <1>6, <1>12 DEF Same
<1>22. Tree(g, e)
  BY <1>16, <1>18, <1>19, <1>20, <1>21 DEF Tree, OneToOne
<1>. QED
  BY <1>1, <1>13, <1>14, <1>21, <1>22

(* A node that is not in the tree takes the place of one that is. *)
LEMMA ReplacedIs ==
  ASSUME NEW f, Tree(Unlinked, f), NEW i \in 1 .. Unlinked.nelts,
         NEW child \in Node, child \notin NodesOf(Unlinked.nelts, f),
         NEW r, r = Replaced(f[i], child)
  PROVE  Tree(r, [f EXCEPT ![i] = child]) /\ Same(Unlinked, r)
<1>1. PICK g : g = Unlinked
  OBVIOUS
<1>2. PICK N : N = g.nelts
  OBVIOUS
<1>3. PICK n : n = f[i]
  OBVIOUS
<1>4. /\ N \in Nat /\ f \in [1 .. N -> Node] /\ g \in HeapShape /\ NULL \notin Node
      /\ i \in 1 .. N /\ i \in Nat \ {0}
      /\ g.min = InTree(N, f, 1) /\ \A j, l \in 1 .. N : f[j] = f[l] => j = l
  BY <1>1, <1>2, MinHeapAssumption DEF Tree, HeapShape, OneToOne
<1>5. \A j \in 1 .. N : /\ g.parent[f[j]] = IF j = 1 THEN NULL ELSE f[j \div 2]
                        /\ g.left[f[j]] = InTree(N, f, 2 * j)
                        /\ g.right[f[j]] = InTree(N, f, 2 * j + 1)
  BY <1>1, <1>2 DEF Tree, LinksAt
<1>6. \A j \in 1 .. N : f[j] \in Node /\ f[j] # child /\ f[j] # NULL /\ (f[j] = n <=> j = i)
  BY <1>1, <1>2, <1>3, <1>4 DEF NodesOf
<1>7. n \in Node /\ n # child /\ child # NULL
  BY <1>3, <1>4, <1>6
<1>8. \A m \in Nat \ {0} : \/ m <= N /\ m \in 1 .. N /\ InTree(N, f, m) = f[m]
                           \/ ~(m <= N) /\ InTree(N, f, m) = NULL
  BY <1>4 DEF InTree
<1>9. PICK l : l = g.left[n]
  OBVIOUS
<1>10. PICK m : m = g.right[n]
  OBVIOUS
<1>11. PICK p : p = g.parent[n]
  OBVIOUS
<1>12. /\ l = InTree(N, f, 2 * i) /\ m = InTree(N, f, 2 * i + 1)
       /\ p = IF i = 1 THEN NULL ELSE f[i \div 2]
       /\ 2 * i \in Nat \ {0} /\ 2 * i + 1 \in Nat \ {0}
  BY <1>3, <1>4, <1>5, <1>9, <1>10, <1>11
<1>13. i # 1 => i \div 2 \in 1 .. N /\ i \div 2 # i
           /\ (i = 2 * (i \div 2) \/ i = 2 * (i \div 2) + 1)
  BY <1>4, Halves
<1>14. l \in Ptr /\ m \in Ptr /\ p \in Ptr /\ l # child /\ m # child /\ p # child
       /\ l # n /\ m # n /\ p # n
  <2>1. l \in Ptr /\ l # child /\ l # n
    BY <1>4, <1>6, <1>7, <1>8, <1>12 DEF Ptr
  <2>2. m \in Ptr /\ m # child /\ m # n
    BY <1>4, <1>6, <1>7, <1>8, <1>12 DEF Ptr
  <2>3. p \in Ptr /\ p # child /\ p # n
    BY <1>4, <1>6, <1>7, <1>12, <1>13 DEF Ptr
  <2>. QED
    BY <2>1, <2>2, <2>3
<1>15. PICK g1 : g1 = [g EXCEPT !.left[child] = g.left[n], !.right[child] = g.right[n],
                                !.parent[child] = g.parent[n]]
  OBVIOUS
<1>16. g1 = [min |-> g.min, nelts |-> N, left |-> [g.left EXCEPT ![child] = l],
             right |-> [g.right EXCEPT ![child] = m],
             parent |-> [g.parent EXCEPT ![child] = p], key |-> g.key]
  BY <1>2, <1>4, <1>9, <1>10, <1>11, <1>15 DEF HeapShape
<1>17. /\ g.min \in Ptr /\ g.key \in [Node -> Nat]
       /\ g.left \in [Node -> Ptr] /\ g.right \in [Node -> Ptr] /\ g.parent \in [Node -> Ptr]
  BY <1>4 DEF HeapShape
<1>18. Same(g, g1)
  <2>1. /\ [g.left EXCEPT ![child] = l] \in [Node -> Ptr]
        /\ [g.right EXCEPT ![child] = m] \in [Node -> Ptr]
        /\ [g.parent EXCEPT ![child] = p] \in [Node -> Ptr]
    BY <1>14, <1>17
  <2>. QED
    BY <1>2, <1>4, <1>16, <1>17, <2>1 DEF Same, HeapShape
<1>19. /\ g1.min = g.min /\ g1.left[child] = l /\ g1.right[child] = m /\ g1.parent[child] = p
       /\ \A x \in Node \ {child} : /\ g1.left[x] = g.left[x] /\ g1.right[x] = g.right[x]
                                    /\ g1.parent[x] = g.parent[x]
  BY <1>16, <1>17
<1>20. PICK g2 : g2 = SetParent(g1, l, child)
  OBVIOUS
<1>21. PICK g3 : g3 = SetParent(g2, m, child)
  OBVIOUS
<1>22. child \in Ptr /\ g1 \in HeapShape
  BY <1>18 DEF Ptr, Same
<1>23. /\ Same(g1, g2) /\ g2.min = g1.min /\ g2.left = g1.left /\ g2.right = g1.right
       /\ \A x \in Node : g2.parent[x] = IF x = l THEN child ELSE g1.parent[x]
  BY <1>14, <1>20, <1>22, SetParentIs
<1>24. g2 \in HeapShape
  BY <1>23 DEF Same
<1>25. /\ Same(g2, g3) /\ g3.min = g2.min /\ g3.left = g2.left /\ g3.right = g2.right
       /\ \A x \in Node : g3.parent[x] = IF x = m THEN child ELSE g2.parent[x]
  BY <1>14, <1>21, <1>22, <1>24, SetParentIs
<1>26. g3 \in HeapShape /\ g3.nelts = N /\ g3.key = g.key
  BY <1>2, <1>18, <1>23, <1>25 DEF Same
<1>27. r = Relink(g3, n, child)
  <2>1. g1.left[child] = l
    BY <1>19
  <2>2. g2.right[child] = m
    BY <1>19, <1>23
  <2>3. r = Relink(SetParent(SetParent(g1, g1.left[child], child), g1.right[child], child),
                   n, child)
    BY <1>1, <1>3, <1>15 DEF Replaced
  <2>. QED
    BY <1>19, <1>20, <1>21, <2>1, <2>3
<1>28. p = g3.parent[child]
  BY <1>14, <1>19, <1>23, <1>25
<1>29. /\ Same(g3, r) /\ r.parent = g3.parent
       /\ r.min = IF p = NULL THEN child ELSE g3.min
       /\ \A x \in Node :
            /\ r.left[x] = IF x = p /\ g3.left[p] = n THEN child ELSE g3.left[x]
            /\ r.right[x] = IF x = p /\ g3.left[p] # n THEN child ELSE g3.right[x]
  BY <1>7, <1>26, <1>27, <1>28, RelinkIs
<1>30. r \in HeapShape /\ r.nelts = N /\ r.key = g.key
  BY <1>26, <1>29 DEF Same
<1>31. PICK e : e = [f EXCEPT ![i] = child]
  OBVIOUS
<1>32. e \in [1 .. N -> Node] /\ e[i] = child /\ \A j \in 1 .. N : j # i => e[j] = f[j]
  BY <1>4, <1>31
<1>33. \A j, k \in 1 .. N : e[j] = e[k] => j = k
  BY <1>4, <1>6, <1>32
<1>34. \A k \in Nat \ {0} : InTree(N, e, k) = IF k = i THEN child ELSE InTree(N, f, k)
  BY <1>4, <1>8, <1>32 DEF InTree
<1>35. r.min = InTree(N, e, 1)
  <2>1. p = NULL <=> i = 1
    BY <1>6, <1>12, <1>13
  <2>. QED
    BY <1>4, <1>19, <1>23, <1>25, <1>29, <1>34, <2>1
<1>36. \A j \in 1 .. N : r.parent[e[j]] = IF j = 1 THEN NULL ELSE e[j \div 2]
  <2> TAKE j \in 1 .. N
  <2>1. CASE j = i
    BY <1>12, <1>13, <1>28, <1>29, <1>32, <2>1
  <2>2. CASE j # i
    <3>1. e[j] = f[j] /\ f[j] \in Node \ {child} /\ j \in Nat \ {0}
      BY <1>4, <1>6, <1>32, <2>2
    <3>2. f[j] = l <=> j = 2 * i
      BY <1>4, <1>6, <1>8, <1>12
    <3>3. f[j] = m <=> j = 2 * i + 1
      BY <1>4, <1>6, <1>8, <1>12
    <3>4. r.parent[e[j]] = IF j = 2 * i \/ j = 2 * i + 1 THEN child ELSE g.parent[f[j]]
      BY <1>19, <1>23, <1>25, <1>29, <3>1, <3>2, <3>3
    <3>5. j # 1 => j \div 2 \in 1 .. N
      BY <1>4, <3>1, Halves
    <3>6. j \div 2 = i <=> j = 2 * i \/ j = 2 * i + 1
      BY <1>4, <3>1, Halves
    <3>7. j = 2 * i \/ j = 2 * i + 1 => j # 1
      BY <1>4, <3>1
    <3>. QED
      BY <1>5, <1>32, <3>4, <3>5, <3>6, <3>7
  <2>. QED
    BY <2>1, <2>2
<1>37. \A j \in 1 .. N : /\ r.left[e[j]] = InTree(N, e, 2 * j)
                         /\ r.right[e[j]] = InTree(N, e, 2 * j + 1)
  <2> TAKE j \in 1 .. N
  <2>0. j \in Nat \ {0} /\ 2 * j \in Nat \ {0} /\ 2 * j + 1 \in Nat \ {0}
    BY <1>4
  <2>1. CASE j = i
    <3>1. 2 * i # i /\ 2 * i + 1 # i
      BY <1>4
    <3>2. r.left[child] = l /\ r.right[child] = m
      BY <1>14, <1>19, <1>23, <1>25, <1>29
    <3>. QED
      BY <1>12, <1>32, <1>34, <2>1, <3>1, <3>2
  <2>2. CASE j # i
    <3>1. e[j] = f[j] /\ f[j] \in Node \ {child}
      BY <1>6, <1>32, <2>2
    <3>2. /\ g3.left[f[j]] = InTree(N, f, 2 * j) /\ g3.right[f[j]] = InTree(N, f, 2 * j + 1)
      BY <1>5, <1>19, <1>23, <1>25, <3>1
    <3>3. f[j] = p <=> i # 1 /\ j = i \div 2
      BY <1>4, <1>6, <1>12, <1>13
    <3>4. i # 1 => (g3.left[p] = n <=> i = 2 * (i \div 2))
      <4>1. SUFFICES ASSUME i # 1 PROVE g3.left[p] = n <=> i = 2 * (i \div 2)
        OBVIOUS
      <4>2. PICK q : q = i \div 2
        OBVIOUS
      <4>3. q \in 1 .. N /\ q # i /\ p = f[q] /\ q \in Nat \ {0}
        BY <1>4, <1>12, <1>13, <4>1, <4>2
      <4>4. g3.left[p] = InTree(N, f, 2 * q)
        BY <1>5, <1>6, <1>14, <1>19, <1>23, <1>25, <4>3
      <4>5. InTree(N, f, 2 * q) = n <=> 2 * q = i
        BY <1>4, <1>6, <1>7, <1>8, <4>3
      <4>. QED
        BY <4>2, <4>4, <4>5
    <3>5. 2 * j = i <=> i # 1 /\ j = i \div 2 /\ i = 2 * (i \div 2)
      BY <1>4, <1>13, <2>0, Halves
    <3>6. 2 * j + 1 = i <=> i # 1 /\ j = i \div 2 /\ i # 2 * (i \div 2)
      BY <1>4, <1>13, <2>0, Halves
    <3>7. f[j] = p => g3.left[p] = g3.left[f[j]]
      OBVIOUS
    <3>8. r.left[f[j]] = IF 2 * j = i THEN child ELSE InTree(N, f, 2 * j)
      BY <1>29, <3>1, <3>2, <3>3, <3>4, <3>5
    <3>9. r.right[f[j]] = IF 2 * j + 1 = i THEN child ELSE InTree(N, f, 2 * j + 1)
      BY <1>29, <3>1, <3>2, <3>3, <3>4, <3>6
    <3>. QED
      BY <1>34, <2>0, <3>1, <3>8, <3>9
  <2>. QED
    BY <2>1, <2>2
<1>38. Tree(r, e)
  BY <1>30, <1>32, <1>33, <1>35, <1>36, <1>37 DEF Tree, LinksAt, OneToOne
<1>39. Same(g, r)
  BY <1>2, <1>30 DEF Same
<1>. QED
  BY <1>1, <1>31, <1>38, <1>39

LEMMA RemovedIs ==
  ASSUME NEW f, Tree(h, f), Ordered(h, f), NEW n \in NodesOf(h.nelts, f),
         NEW r, r = RemovedHeap(n)
  PROVE  /\ r \in HeapShape /\ r.nelts = h.nelts - 1 /\ r.key = h.key
         /\ \E e \in [1 .. h.nelts - 1 -> Node] :
              /\ Tree(r, e) /\ Ordered(r, e)
              /\ NodesOf(h.nelts - 1, e) = NodesOf(h.nelts, f) \ {n}
<1>1. PICK N : N = h.nelts
  OBVIOUS
<1>2. PICK i \in 1 .. N : f[i] = n
  BY <1>1 DEF NodesOf
<1>3. /\ N \in Nat \ {0} /\ f \in [1 .. N -> Node] /\ h.key \in [Node -> Nat]
      /\ \A j, l \in 1 .. N : f[j] = f[l] => j = l
  BY <1>1, <1>2 DEF Tree, HeapShape, OneToOne
<1>4. PICK child : child = f[N]
  OBVIOUS
<1>5. child = At(h, N) /\ child \in Node /\ N \in 1 .. N
  <2>1. N \in 1 .. N
    BY <1>3
  <2>. QED
    BY <1>1, <1>3, <1>4, <2>1, TreeIsWalkable, AtIsNode
<1>6. PICK d : d = Shortened(N, f)
  OBVIOUS
<1>7. PICK g : g = Unlinked
  OBVIOUS
<1>8. Tree(g, d) /\ g.nelts = N - 1 /\ g.key = h.key
  BY <1>1, <1>3, <1>6, <1>7, UnlinkedIs
<1>9. \A j \in 1 .. N - 1 : j \in 1 .. N /\ j # N /\ d[j] = f[j] /\ f[j] \in Node
  BY <1>3, <1>6 DEF Shortened
<1>10. d \in [1 .. N - 1 -> Node] /\ N - 1 \in Nat
  BY <1>3, <1>8, <1>9 DEF Tree
<1>11. NodesOf(N - 1, d) = NodesOf(N, f) \ {child}
  <2>1. NodesOf(N - 1, d) \subseteq NodesOf(N, f) \ {child}
    <3> SUFFICES ASSUME NEW x \in NodesOf(N - 1, d) PROVE x \in NodesOf(N, f) /\ x # child
      OBVIOUS
    <3>1. PICK j \in 1 .. N - 1 : x = d[j]
      BY DEF NodesOf
    <3>2. j \in 1 .. N /\ j # N /\ x = f[j]
      BY <1>9, <3>1
    <3>. QED
      BY <1>3, <1>4, <1>5, <3>2 DEF NodesOf
  <2>2. ASSUME NEW x \in NodesOf(N, f), x # child PROVE x \in NodesOf(N - 1, d)
    <3>1. PICK j \in 1 .. N : x = f[j]
      BY <2>2 DEF NodesOf
    <3>2. j \in 1 .. N - 1
      BY <1>3, <1>4, <2>2, <3>1
    <3>. QED
      BY <1>9, <3>1, <3>2 DEF NodesOf
  <2>. QED
    BY <2>1, <2>2
<1>12. \A j \in 2 .. N - 1 : /\ j \in 1 .. N - 1 /\ j \div 2 \in 1 .. N - 1 /\ j \in 2 .. N
                             /\ h.key[d[j \div 2]] <= h.key[d[j]]
  <2> TAKE j \in 2 .. N - 1
  <2>1. j \in Nat \ {0} /\ j # 1 /\ j \in 2 .. N /\ j \in 1 .. N - 1
    BY <1>3
  <2>2. j \div 2 \in 1 .. N - 1
    BY <1>3, <2>1, Halves
  <2>3. h.key[f[j \div 2]] <= h.key[f[j]]
    BY <1>1, <2>1 DEF Ordered, InOrder
  <2>. QED
    BY <1>9, <2>1, <2>2, <2>3
<1>13. CASE child = n
  <2>1. r = g
    BY <1>1, <1>5, <1>7, <1>13 DEF RemovedHeap
  <2>2. Ordered(g, d)
    BY <1>8, <1>12 DEF Ordered, InOrder
  <2>3. g \in HeapShape
    BY <1>8 DEF Tree
  <2>. QED
    BY <1>1, <1>8, <1>10, <1>11, <1>13, <2>1, <2>2, <2>3
<1>14. CASE child # n
  <2>1. i \in 1 .. N - 1 /\ d[i] = n
    <3>1. i \in 1 .. N - 1
      BY <1>2, <1>3, <1>4, <1>14
    <3>. QED
      BY <1>2, <1>9, <3>1
  <2>2. PICK g1 : g1 = Replaced(n, child)
    OBVIOUS
  <2>3. PICK e : e = [d EXCEPT ![i] = child]
    OBVIOUS
  <2>4. Tree(g1, e) /\ Same(g, g1)
    <3>1. child \notin NodesOf(N - 1, d)
      BY <1>11
    <3>. QED
      BY <1>5, <1>7, <1>8, <2>1, <2>2, <2>3, <3>1, ReplacedIs
  <2>5. g1.nelts = N - 1 /\ g1.key = h.key
    BY <1>8, <2>4 DEF Same
  <2>6. /\ e \in [1 .. N - 1 -> Node] /\ e[i] = child
        /\ \A j \in 1 .. N - 1 : j # i => e[j] = d[j]
    BY <1>5, <1>10, <2>1, <2>3
  <2>7. OrderedAround(g1, e, i)
    <3>1. \A j \in 2 .. N - 1 : j # i /\ j \div 2 # i => h.key[e[j \div 2]] <= h.key[e[j]]
      BY <1>12, <2>6
    <3>2. \A j \in 2 .. N - 1 : j \div 2 = i /\ i # 1 => h.key[e[i \div 2]] <= h.key[e[j]]
      <4> SUFFICES ASSUME NEW j \in 2 .. N - 1, j \div 2 = i, i # 1
                   PROVE  h.key[e[i \div 2]] <= h.key[e[j]]
        OBVIOUS
      <4>1. i \in 2 .. N - 1 /\ i \in Nat \ {0} /\ j \in Nat \ {0} /\ j # 1
        BY <1>3, <2>1
      <4>2. i \div 2 \in 1 .. N - 1 /\ i \div 2 # i /\ j # i
        BY <1>12, <4>1, Halves
      <4>3. h.key[d[i \div 2]] <= h.key[d[i]] /\ h.key[d[i]] <= h.key[d[j]]
        BY <1>12, <4>1
      <4>4. h.key[d[i \div 2]] \in Nat /\ h.key[d[i]] \in Nat /\ h.key[d[j]] \in Nat
        <5>1. d[i \div 2] \in Node /\ d[i] \in Node /\ d[j] \in Node
          BY <1>10, <1>12, <2>1, <4>2
        <5>. QED
          BY <1>3, <5>1
      <4>5. e[i \div 2] = d[i \div 2] /\ e[j] = d[j]
        BY <1>12, <2>6, <4>2
      <4>. QED
        BY <4>3, <4>4, <4>5
    <3>. QED
      BY <2>5, <3>1, <3>2 DEF OrderedAround, Bridged, InOrder
  <2>8. PICK g2 : g2 = SiftDown(g1, child)
    OBVIOUS
  <2>9. /\ Same(g1, g2)
        /\ \E e2 \in [1 .. N - 1 -> Node] : \E j \in 1 .. N - 1 :
             /\ Tree(g2, e2) /\ OrderedBut(g2, e2, j) /\ e2[j] = child
             /\ NodesOf(N - 1, e2) = NodesOf(N - 1, e)
    <3>1. i \in 1 .. g1.nelts /\ g2 = SiftDown(g1, e[i])
      BY <2>1, <2>5, <2>6, <2>8
    <3>2. /\ Same(g1, g2)
          /\ \E e2 \in [1 .. g1.nelts -> Node] : \E j \in 1 .. g1.nelts :
               /\ Tree(g2, e2) /\ OrderedBut(g2, e2, j) /\ e2[j] = e[i]
               /\ NodesOf(g1.nelts, e2) = NodesOf(g1.nelts, e)
      BY <2>4, <2>7, <3>1, SiftDownIs
    <3>. QED
      BY <2>5, <2>6, <3>2
  <2>10. PICK e2 \in [1 .. N - 1 -> Node] : \E j \in 1 .. N - 1 :
             /\ Tree(g2, e2) /\ OrderedBut(g2, e2, j) /\ e2[j] = child
             /\ NodesOf(N - 1, e2) = NodesOf(N - 1, e)
    BY <2>9
  <2>11. PICK j \in 1 .. N - 1 :
             /\ Tree(g2, e2) /\ OrderedBut(g2, e2, j) /\ e2[j] = child
             /\ NodesOf(N - 1, e2) = NodesOf(N - 1, e)
    BY <2>10
  <2>12. g2.nelts = N - 1 /\ g2.key = h.key
    BY <2>5, <2>9 DEF Same
  <2>13. r = SiftUp(g2, child)
    BY <1>1, <1>5, <1>14, <2>2, <2>8 DEF RemovedHeap
  <2>14. /\ Same(g2, r)
         /\ \E e3 \in [1 .. N - 1 -> Node] :
              Tree(r, e3) /\ Ordered(r, e3) /\ NodesOf(N - 1, e3) = NodesOf(N - 1, e2)
    <3>1. j \in 1 .. g2.nelts /\ r = SiftUp(g2, e2[j])
      BY <2>11, <2>12, <2>13
    <3>2. /\ Same(g2, r)
          /\ \E e3 \in [1 .. g2.nelts -> Node] :
               Tree(r, e3) /\ Ordered(r, e3) /\ NodesOf(g2.nelts, e3) = NodesOf(g2.nelts, e2)
      BY <2>11, <3>1, SiftUpIs
    <3>. QED
      BY <2>12, <3>2
  <2>15. NodesOf(N - 1, e) = NodesOf(N, f) \ {n}
    <3>1. ASSUME NEW x \in NodesOf(N - 1, e) PROVE x \in NodesOf(N, f) \ {n}
      <4>1. PICK k \in 1 .. N - 1 : x = e[k]
        BY DEF NodesOf
      <4>2. CASE k = i
        BY <1>4, <1>5, <1>14, <2>6, <4>1, <4>2 DEF NodesOf
      <4>3. CASE k # i
        <5>1. k \in 1 .. N /\ x = f[k]
          BY <1>9, <2>6, <4>1, <4>3
        <5>2. x # n
          BY <1>2, <1>3, <4>3, <5>1
        <5>. QED
          BY <5>1, <5>2 DEF NodesOf
      <4>. QED
        BY <4>2, <4>3
    <3>2. ASSUME NEW x \in NodesOf(N, f), x # n PROVE x \in NodesOf(N - 1, e)
      <4>1. CASE x = child
        BY <2>1, <2>6, <4>1 DEF NodesOf
      <4>2. CASE x # child
        <5>1. PICK k \in 1 .. N : x = f[k]
          BY DEF NodesOf
        <5>2. k \in 1 .. N - 1 /\ k # i
          BY <1>2, <1>3, <1>4, <3>2, <4>2, <5>1
        <5>3. e[k] = x
          BY <1>9, <2>6, <5>1, <5>2
        <5>. QED
          BY <5>2, <5>3 DEF NodesOf
      <4>. QED
        BY <4>1, <4>2
    <3>. QED
      BY <3>1, <3>2
  <2>16. r \in HeapShape /\ r.nelts = N - 1 /\ r.key = h.key
    BY <2>12, <2>14 DEF Same
  <2>. QED
    BY <1>1, <2>11, <2>14, <2>15, <2>16
<1>. QED
  BY <1>13, <1>14

(* To forget the links of a node outside the tree changes no node in it.   *)
LEMMA ForgetIs ==
  ASSUME NEW g \in HeapShape, NEW n \in Node, NEW r, r = Forget(g, n)
  PROVE  /\ r \in HeapShape /\ r.nelts = g.nelts /\ r.key = [g.key EXCEPT ![n] = 0]
         /\ \A e : Tree(g, e) /\ n \notin NodesOf(g.nelts, e) =>
                     Tree(r, e) /\ (Ordered(g, e) => Ordered(r, e))
<1>1. r = [min |-> g.min, nelts |-> g.nelts, left |-> [g.left EXCEPT ![n] = NULL],
           right |-> [g.right EXCEPT ![n] = NULL], parent |-> [g.parent EXCEPT ![n] = NULL],
           key |-> [g.key EXCEPT ![n] = 0]]
  BY DEF Forget, HeapShape
<1>2. /\ g.min \in Ptr /\ g.nelts \in Nat /\ g.key \in [Node -> Nat]
      /\ g.left \in [Node -> Ptr] /\ g.right \in [Node -> Ptr] /\ g.parent \in [Node -> Ptr]
  BY DEF HeapShape
<1>3. r \in HeapShape
  <2>1. /\ [g.left EXCEPT ![n] = NULL] \in [Node -> Ptr]
        /\ [g.right EXCEPT ![n] = NULL] \in [Node -> Ptr]
        /\ [g.parent EXCEPT ![n] = NULL] \in [Node -> Ptr]
        /\ [g.key EXCEPT ![n] = 0] \in [Node -> Nat]
    BY <1>2 DEF Ptr
  <2>. QED
    BY <1>1, <1>2, <2>1 DEF HeapShape
<1>4. \A x \in Node \ {n} : /\ r.left[x] = g.left[x] /\ r.right[x] = g.right[x]
                            /\ r.parent[x] = g.parent[x] /\ r.key[x] = g.key[x]
  BY <1>1, <1>2
<1>5. ASSUME NEW e, Tree(g, e), n \notin NodesOf(g.nelts, e)
      PROVE  Tree(r, e) /\ (Ordered(g, e) => Ordered(r, e))
  <2>1. \A j \in 1 .. g.nelts : e[j] \in Node \ {n}
    BY <1>5 DEF Tree, NodesOf
  <2>2. r.nelts = g.nelts /\ r.min = g.min
    BY <1>1
  <2>3. \A j \in 1 .. g.nelts : LinksAt(r, e, j)
    BY <1>4, <1>5, <2>1, <2>2 DEF Tree, LinksAt
  <2>4. Tree(r, e)
    BY <1>3, <1>5, <2>2, <2>3 DEF Tree
  <2>5. \A j \in 2 .. g.nelts : j \in 1 .. g.nelts /\ j \div 2 \in 1 .. g.nelts
    <3> TAKE j \in 2 .. g.nelts
    <3>1. j \in Nat \ {0} /\ j # 1 /\ j \in 1 .. g.nelts
      BY <1>2
    <3>. QED
      BY <1>2, <3>1, Halves
  <2>6. Ordered(g, e) => Ordered(r, e)
    BY <1>4, <2>1, <2>2, <2>5 DEF Ordered, InOrder
  <2>. QED
    BY <2>4, <2>6
<1>. QED
  BY <1>1, <1>3, <1>5
-----------------------------------------------------------------------------
(* The nodes of a tree, as the walks from min find them. *)
NodesIn(g) == {At(g, i) : i \in 1 .. g.nelts}

LEMMA NodesInTree ==
  ASSUME NEW g, NEW f, Tree(g, f)
  PROVE  /\ \A i \in 1 .. g.nelts : At(g, i) = f[i]
         /\ NodesIn(g) = NodesOf(g.nelts, f)
         /\ Cardinality(NodesIn(g)) = g.nelts
<1>1. PICK N : N = g.nelts
  OBVIOUS
<1>2. N \in Nat /\ Walkable(N, g, f)
  BY <1>1, TreeIsWalkable
<1>3. \A i \in 1 .. N : At(g, i) = f[i]
  BY <1>2, AtIsNode
<1>4. NodesIn(g) = NodesOf(N, f)
  BY <1>1, <1>3 DEF NodesIn, NodesOf
<1>5. f \in [1 .. N -> NodesOf(N, f)] /\ \A i, j \in 1 .. N : f[i] = f[j] => i = j
  BY <1>1 DEF Tree, OneToOne, NodesOf
<1>6. f \in Bijection(1 .. N, NodesOf(N, f))
  BY <1>5 DEF Bijection, Injection, Surjection, IsInjective, NodesOf
<1>7. Cardinality(NodesOf(N, f)) = N
  BY <1>2, <1>6, FS_CountingElements DEF ExistsBijection
<1>. QED
  BY <1>1, <1>3, <1>4, <1>7

LEMMA RootIsLeast ==
  ASSUME NEW g, NEW f, Tree(g, f), Ordered(g, f), NEW i \in 1 .. g.nelts
  PROVE  g.key[f[1]] <= g.key[f[i]]
<1>1. PICK N : N = g.nelts
  OBVIOUS
<1>2. N \in Nat \ {0} /\ 1 \in 1 .. N /\ i \in 1 .. N
      /\ \A j \in 1 .. N : g.key[f[j]] \in Nat /\ j \in Nat \ {0}
  <2>1. g.nelts \in Nat /\ f \in [1 .. N -> Node] /\ g.key \in [Node -> Nat]
    BY <1>1 DEF Tree, HeapShape
  <2>2. N \in Nat /\ i \in 1 .. N
    BY <1>1, <2>1
  <2>3. \A j \in 1 .. N : f[j] \in Node /\ g.key[f[j]] \in Nat
    BY <2>1
  <2>. QED
    BY <2>2, <2>3
<1> DEFINE T == {j \in Nat : j \in 1 .. N /\ ~(g.key[f[1]] <= g.key[f[j]])}
<1>3. T = {}
  <2> SUFFICES ASSUME T # {} PROVE FALSE
    OBVIOUS
  <2>1. PICK j \in T : \A l \in T : j <= l
    BY NatMin
  <2>2. j \in Nat \ {0} /\ j \in 1 .. N /\ ~(g.key[f[1]] <= g.key[f[j]])
    BY <1>2
  <2>3. j # 1 /\ j \in 2 .. N
    BY <1>2, <2>2
  <2>4. j \div 2 \in Nat /\ j \div 2 \in 1 .. N /\ j \div 2 < j
    BY <1>2, <2>2, <2>3, Halves
  <2>5. g.key[f[j \div 2]] <= g.key[f[j]]
    BY <1>1, <2>3 DEF Ordered, InOrder
  <2>6. ~(j \div 2 \in T)
    BY <2>1, <2>2, <2>4
  <2>7. g.key[f[1]] <= g.key[f[j \div 2]]
    BY <2>4, <2>6
  <2>. QED
    BY <1>2, <2>2, <2>4, <2>5, <2>7
<1>. QED
  BY <1>2, <1>3

(* The links are those of a complete tree, and the keys are in order.      *)
HeapInv == \E f \in [1 .. h.nelts -> Node] : Tree(h, f) /\ Ordered(h, f)

LEMMA HeapInit == Init => HeapInv
<1> SUFFICES ASSUME Init PROVE HeapInv
  OBVIOUS
<1>1. h = [min |-> NULL, nelts |-> 0,
           left |-> [n \in Node |-> NULL], right |-> [n \in Node |-> NULL],
           parent |-> [n \in Node |-> NULL], key |-> [n \in Node |-> 0]]
  BY DEF Init
<1>2. h \in HeapShape /\ h.nelts = 0 /\ h.min = NULL
  BY <1>1 DEF HeapShape, Ptr
<1>3. PICK f : f = [j \in 1 .. 0 |-> NULL]
  OBVIOUS
<1>4. f \in [1 .. 0 -> Node] /\ 1 .. 0 = {} /\ 2 .. 0 = {}
  BY <1>3
<1>5. OneToOne(0, f) /\ InTree(0, f, 1) = NULL
  BY <1>4 DEF OneToOne, InTree
<1>6. Tree(h, f)
  BY <1>2, <1>4, <1>5 DEF Tree
<1>7. Ordered(h, f)
  BY <1>2, <1>4 DEF Ordered
<1>. QED
  BY <1>2, <1>4, <1>6, <1>7 DEF HeapInv

(* What each operation does to the set of nodes and to their keys. *)
LEMMA InsertIs ==
  ASSUME HeapInv, NEW n \in Node, NEW k \in Key, Insert(n, k)
  PROVE  /\ HeapInv' /\ n \notin Contents /\ Contents' = Contents \cup {n}
         /\ h'.key = [h.key EXCEPT ![n] = k]
<1>1. PICK f \in [1 .. h.nelts -> Node] : Tree(h, f) /\ Ordered(h, f)
  BY DEF HeapInv
<1>2. Contents = NodesOf(h.nelts, f)
  BY <1>1, NodesInTree DEF Contents, NodeAt, NodesIn
<1>3. n \notin Contents /\ h' = InsertedHeap(n, k) /\ k \in Nat
  BY MinHeapAssumption DEF Insert
<1>4. /\ h' \in HeapShape /\ h'.nelts = h.nelts + 1 /\ h'.key = [h.key EXCEPT ![n] = k]
      /\ \E e \in [1 .. h.nelts + 1 -> Node] :
           /\ Tree(h', e) /\ Ordered(h', e)
           /\ NodesOf(h.nelts + 1, e) = NodesOf(h.nelts, f) \cup {n}
  BY <1>1, <1>2, <1>3, InsertedIs
<1>5. PICK e \in [1 .. h'.nelts -> Node] :
           /\ Tree(h', e) /\ Ordered(h', e)
           /\ NodesOf(h'.nelts, e) = NodesOf(h.nelts, f) \cup {n}
  BY <1>4
<1>6. Contents' = NodesOf(h'.nelts, e)
  BY <1>5, NodesInTree DEF Contents, NodeAt, NodesIn
<1>. QED
  BY <1>2, <1>3, <1>4, <1>5, <1>6 DEF HeapInv

LEMMA RemoveIs ==
  ASSUME HeapInv, NEW n \in Node, Remove(n)
  PROVE  /\ HeapInv' /\ n \in Contents /\ Contents' = Contents \ {n}
         /\ h'.key = [h.key EXCEPT ![n] = 0]
<1>1. PICK f \in [1 .. h.nelts -> Node] : Tree(h, f) /\ Ordered(h, f)
  BY DEF HeapInv
<1>2. Contents = NodesOf(h.nelts, f)
  BY <1>1, NodesInTree DEF Contents, NodeAt, NodesIn
<1>3. n \in NodesOf(h.nelts, f) /\ h' = Forget(RemovedHeap(n), n)
  BY <1>2 DEF Remove
<1>4. PICK r : r = RemovedHeap(n)
  OBVIOUS
<1>5. /\ r \in HeapShape /\ r.nelts = h.nelts - 1 /\ r.key = h.key
      /\ \E e \in [1 .. h.nelts - 1 -> Node] :
           /\ Tree(r, e) /\ Ordered(r, e)
           /\ NodesOf(h.nelts - 1, e) = NodesOf(h.nelts, f) \ {n}
  BY <1>1, <1>3, <1>4, RemovedIs
<1>6. PICK e \in [1 .. r.nelts -> Node] :
           /\ Tree(r, e) /\ Ordered(r, e)
           /\ NodesOf(r.nelts, e) = NodesOf(h.nelts, f) \ {n}
  BY <1>5
<1>7. /\ h'.nelts = r.nelts /\ h'.key = [r.key EXCEPT ![n] = 0]
      /\ Tree(h', e) /\ Ordered(h', e)
  BY <1>3, <1>4, <1>5, <1>6, ForgetIs
<1>8. Contents' = NodesOf(h'.nelts, e)
  BY <1>7, NodesInTree DEF Contents, NodeAt, NodesIn
<1>. QED
  BY <1>2, <1>3, <1>5, <1>6, <1>7, <1>8 DEF HeapInv

LEMMA HeapInvariant == Spec => []HeapInv
<1>1. HeapInv /\ [Next]_h => HeapInv'
  <2> SUFFICES ASSUME HeapInv, [Next]_h PROVE HeapInv'
    OBVIOUS
  <2>1. CASE UNCHANGED h
    BY <2>1 DEF HeapInv
  <2>2. CASE Next
    BY <2>2, InsertIs, RemoveIs DEF Next
  <2>. QED
    BY <2>1, <2>2
<1>. QED
  BY <1>1, HeapInit, PTL DEF Spec

(* CMinHeap::Insert() and Remove() leave a complete tree, whose parent     *)
(* pointers are the inverse of the child pointers, with no node before the *)
(* one above it: with any number of timers.                                *)
THEOREM TheHeapStaysInOrder == Spec => []OrderedTree
<1>1. HeapInv => OrderedTree
  <2> SUFFICES ASSUME HeapInv PROVE OrderedTree
    OBVIOUS
  <2>1. PICK f \in [1 .. h.nelts -> Node] : Tree(h, f) /\ Ordered(h, f)
    BY DEF HeapInv
  <2>2. PICK N : N = h.nelts
    OBVIOUS
  <2>3. N \in Nat /\ \A i \in 1 .. N : f[i] \in Node /\ h.key[f[i]] \in Nat /\ i \in Nat \ {0}
    <3>1. N \in Nat /\ f \in [1 .. N -> Node] /\ h.key \in [Node -> Nat]
      BY <2>1, <2>2 DEF Tree, HeapShape
    <3>2. \A i \in 1 .. N : f[i] \in Node /\ h.key[f[i]] \in Nat
      BY <3>1
    <3>. QED
      BY <3>1, <3>2
  <2>4. \A i \in 1 .. N : NodeAt(i) = f[i]
    BY <2>1, <2>2, NodesInTree DEF NodeAt
  <2>5. Cardinality(Contents) = N
    BY <2>1, <2>2, NodesInTree DEF Contents, NodeAt, NodesIn
  <2>6. \A i \in 1 .. N : i # 1 => i \div 2 \in 1 .. N
    <3> TAKE i \in 1 .. N
    <3>. QED
      BY <2>3, Halves
  <2>7. ASSUME NEW i \in 1 .. N
        PROVE  /\ h.parent[NodeAt(i)] = IF i = 1 THEN NULL ELSE NodeAt(i \div 2)
               /\ h.left[NodeAt(i)] = IF 2 * i <= N THEN NodeAt(2 * i) ELSE NULL
               /\ h.right[NodeAt(i)] = IF 2 * i < N THEN NodeAt(2 * i + 1) ELSE NULL
    <3>1. /\ h.parent[f[i]] = IF i = 1 THEN NULL ELSE f[i \div 2]
          /\ h.left[f[i]] = InTree(N, f, 2 * i)
          /\ h.right[f[i]] = InTree(N, f, 2 * i + 1)
      BY <2>1, <2>2 DEF Tree, LinksAt
    <3>2. /\ 2 * i <= N => 2 * i \in 1 .. N
          /\ 2 * i < N <=> 2 * i + 1 <= N
          /\ 2 * i + 1 <= N => 2 * i + 1 \in 1 .. N
      BY <2>3
    <3>. QED
      BY <2>4, <2>6, <3>1, <3>2 DEF InTree
  <2>8. N = 0 => h.min = NULL
    BY <2>1, <2>2 DEF Tree, InTree
  <2>9. CompleteTree
    BY <2>2, <2>5, <2>7, <2>8 DEF CompleteTree
  <2>10. ASSUME NEW i \in 2 .. N PROVE ~Less(h, NodeAt(i), NodeAt(i \div 2))
    <3>1. i \in 1 .. N /\ i \div 2 \in 1 .. N
      BY <2>3, <2>6
    <3>2. h.key[f[i \div 2]] <= h.key[f[i]]
      BY <2>1, <2>2 DEF Ordered, InOrder
    <3>. QED
      BY <2>3, <2>4, <3>1, <3>2 DEF Less
  <2>11. HeapOrder
    BY <2>2, <2>10 DEF HeapOrder
  <2>. QED
    BY <2>9, <2>11 DEF OrderedTree
<1>. QED
  BY <1>1, HeapInvariant, PTL

(* GetMinNode() is one of the earliest timers.                             *)
LEMMA MinIsFirst ==
  ASSUME NEW g, NEW f, Tree(g, f), Ordered(g, f)
  PROVE  g.min \in PQ!FirstOf([n \in NodesIn(g) |-> g.key[n]])
<1>1. NodesIn(g) = NodesOf(g.nelts, f) /\ g.nelts \in Nat
  BY NodesInTree, TreeIsWalkable
<1>2. CASE g.nelts = 0
  <2>1. NodesIn(g) = {} /\ g.min = NULL
    BY <1>1, <1>2 DEF NodesOf, Tree, InTree
  <2>. QED
    BY <2>1 DEF PQ!FirstOf
<1>3. CASE g.nelts # 0
  <2>1. 1 \in 1 .. g.nelts /\ g.min = f[1]
    BY <1>1, <1>3 DEF Tree, InTree
  <2>2. g.min \in NodesIn(g)
    BY <1>1, <2>1 DEF NodesOf
  <2>3. \A m \in NodesIn(g) : g.key[g.min] <= g.key[m]
    BY <1>1, <2>1, RootIsLeast DEF NodesOf
  <2>. QED
    BY <2>2, <2>3 DEF PQ!FirstOf
<1>. QED
  BY <1>2, <1>3

(* The heap is a priority queue: each insertion and each removal is one of *)
(* the abstract queue, and min is one of the earliest timers after it.     *)
THEOREM TheHeapIsAQueue == Spec => ImplementsQueue
<1>1. Init => PQ!Init
  <2> SUFFICES ASSUME Init PROVE PQ!Init
    OBVIOUS
  <2>1. h.nelts = 0 /\ h.min = NULL
    BY DEF Init
  <2>2. Contents = {}
    BY <2>1 DEF Contents
  <2>. QED
    BY <2>1, <2>2 DEF PQ!Init
<1>2. HeapInv /\ HeapInv' /\ [Next]_h => [PQ!Next]_<<[n \in Contents |-> h.key[n]], h.min>>
  <2> SUFFICES ASSUME HeapInv, HeapInv', [Next]_h
               PROVE  [PQ!Next]_<<[n \in Contents |-> h.key[n]], h.min>>
    OBVIOUS
  <2>1. PICK q : q = [n \in Contents |-> h.key[n]]
    OBVIOUS
  <2>2. PICK r : r = [n \in Contents' |-> h'.key[n]]
    OBVIOUS
  <2>3. h'.min \in PQ!FirstOf(r)
    <3>1. PICK f \in [1 .. h'.nelts -> Node] : Tree(h', f) /\ Ordered(h', f)
      BY DEF HeapInv
    <3>2. NodesIn(h') = Contents'
      BY DEF Contents, NodeAt, NodesIn
    <3>. QED
      BY <2>2, <3>1, <3>2, MinIsFirst
  <2>4. h.key \in [Node -> Nat] /\ Contents \subseteq Node
    <3>1. PICK f \in [1 .. h.nelts -> Node] : Tree(h, f)
      BY DEF HeapInv
    <3>2. Contents = NodesOf(h.nelts, f)
      BY <3>1, NodesInTree DEF Contents, NodeAt, NodesIn
    <3>. QED
      BY <3>1, <3>2 DEF Tree, HeapShape, NodesOf
  <2>5. ASSUME NEW n \in Node, NEW k \in Key, Insert(n, k) PROVE PQ!Insert(n, k)
    <3>1. /\ n \notin Contents /\ Contents' = Contents \cup {n}
          /\ h'.key = [h.key EXCEPT ![n] = k]
      BY <2>5, InsertIs
    <3>2. DOMAIN q = Contents
      BY <2>1
    <3>3. r = [m \in Contents \cup {n} |-> IF m = n THEN k ELSE q[m]]
      BY <2>1, <2>2, <2>4, <3>1
    <3>. QED
      BY <2>1, <2>2, <2>3, <3>1, <3>2, <3>3 DEF PQ!Insert
  <2>6. ASSUME NEW n \in Node, Remove(n) PROVE PQ!Remove(n)
    <3>1. /\ n \in Contents /\ Contents' = Contents \ {n}
          /\ h'.key = [h.key EXCEPT ![n] = 0]
      BY <2>6, RemoveIs
    <3>2. DOMAIN q = Contents
      BY <2>1
    <3>3. r = [m \in Contents \ {n} |-> q[m]]
      BY <2>1, <2>2, <2>4, <3>1
    <3>. QED
      BY <2>1, <2>2, <2>3, <3>1, <3>2, <3>3 DEF PQ!Remove
  <2>7. CASE UNCHANGED h
    BY <2>7 DEF Contents, NodeAt
  <2>8. CASE Next
    BY <2>5, <2>6, <2>8 DEF Next, PQ!Next
  <2>. QED
    BY <2>7, <2>8
<1>. QED
  BY <1>1, <1>2, HeapInvariant, PTL DEF Spec, ImplementsQueue, PQ!Spec
=============================================================================

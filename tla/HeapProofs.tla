----------------------------- MODULE HeapProofs -----------------------------
(***************************************************************************)
(* Proofs about Heap for every set of nodes and priorities, and so for     *)
(* heaps of every size.                                                    *)
(***************************************************************************)
EXTENDS Heap, TLAPS

(* The parent of a position is a smaller position, and two positions have  *)
(* it as their parent: those of heap_right_child and heap_left_child.      *)
LEMMA Parents ==
    ASSUME NEW i \in Nat, i >= 2
    PROVE  /\ heap_parent(i) \in Nat
           /\ heap_parent(i) >= 1
           /\ heap_parent(i) < i
           /\ i = heap_right_child(heap_parent(i)) \/ i = heap_left_child(heap_parent(i))
BY DEF heap_parent, heap_right_child, heap_left_child

(* A position has the positions of its two children, both greater, as the  *)
(* only ones whose parent it is.                                           *)
LEMMA Children ==
    ASSUME NEW i \in Nat, i >= 1
    PROVE  /\ heap_right_child(i) \in Nat /\ heap_right_child(i) > i
           /\ heap_left_child(i) \in Nat /\ heap_left_child(i) > i
           /\ heap_parent(heap_right_child(i)) = i
           /\ heap_parent(heap_left_child(i)) = i
BY DEF heap_parent, heap_right_child, heap_left_child

(* A swap of two positions within the heap keeps the nodes it has and      *)
(* leaves every other position alone.                                      *)
LEMMA Swap ==
    ASSUME TypeOK, NoNodeLost, NEW a \in 1..size, NEW b \in 1..size, a # b,
           array' = heap_swap(a, b), UNCHANGED <<size, prio, held>>
    PROVE  /\ DOMAIN array' = DOMAIN array
           /\ array' \in [DOMAIN array' -> Nodes]
           /\ NoNodeLost'
           /\ P(a)' = P(b) /\ P(b)' = P(a)
           /\ \A i \in 1..size : i # a /\ i # b => P(i)' = P(i)
<1>1. /\ a \in DOMAIN array /\ b \in DOMAIN array
      /\ 1..size \subseteq DOMAIN array
      /\ array \in [DOMAIN array -> Nodes]
      /\ size \in Nat
  BY DEF TypeOK
<1>2. /\ DOMAIN array' = DOMAIN array
      /\ array' \in [DOMAIN array' -> Nodes]
      /\ array'[a] = array[b] /\ array'[b] = array[a]
      /\ \A i \in 1..size : i # a /\ i # b => array'[i] = array[i]
  BY <1>1 DEF heap_swap
<1>3. held = {array'[i] : i \in 1..size}
  BY <1>1, <1>2 DEF NoNodeLost
<1>4. ASSUME NEW i \in 1..size, NEW j \in 1..size, array'[i] = array'[j]
      PROVE  i = j
  BY <1>1, <1>2, <1>4 DEF NoNodeLost
<1>5. NoNodeLost'
  BY <1>3, <1>4 DEF NoNodeLost
<1>6. QED
  BY <1>1, <1>2, <1>5 DEF P

(* The types and the nodes of the heap are kept by every step.             *)
LEMMA NodesStep ==
    ASSUME TypeOK, NoNodeLost, Next
    PROVE  TypeOK' /\ NoNodeLost'
<1>1. CASE \E n \in Nodes, p \in Priorities : Insert(n, p)
  <2>1. PICK n \in Nodes, p \in Priorities : Insert(n, p)
    BY <1>1
  <2>2. /\ size \in Nat /\ allocated \in Nat /\ size <= allocated
        /\ DOMAIN array \subseteq 1..allocated /\ 1..size \subseteq DOMAIN array
        /\ array \in [DOMAIN array -> Nodes]
    BY DEF TypeOK
  <2>3. /\ size' = size + 1 /\ allocated' \in Nat
        /\ size' <= allocated' /\ allocated <= allocated'
    BY <2>1, <2>2 DEF Insert, Grow
  <2>4. /\ DOMAIN array' = DOMAIN array \union {size'}
        /\ array'[size'] = n
        /\ \A i \in DOMAIN array : i # size' => array'[i] = array[i]
        /\ array' \in [DOMAIN array' -> Nodes]
    BY <2>1, <2>2 DEF Insert
  <2>5. DOMAIN array' \subseteq 1..allocated' /\ 1..size' \subseteq DOMAIN array'
    BY <2>2, <2>3, <2>4
  <2>6. TypeOK'
    BY <2>1, <2>2, <2>3, <2>4, <2>5 DEF Insert, TypeOK
  <2>7. \A i \in 1..size : array'[i] = array[i] /\ array[i] # n
    BY <2>1, <2>2, <2>3, <2>4 DEF Insert, NoNodeLost
  <2>8. held' = {array'[i] : i \in 1..size'}
    <3>1. held' = held \union {n}
      BY <2>1 DEF Insert
    <3>2. size' \in 1..size' /\ \A i \in 1..size' : i \in 1..size \/ i = size'
      BY <2>2, <2>3
    <3>3. 1..size \subseteq 1..size'
      BY <2>2, <2>3
    <3>4. QED
      BY <2>4, <2>7, <3>1, <3>2, <3>3 DEF NoNodeLost
  <2>9. ASSUME NEW i \in 1..size', NEW j \in 1..size', array'[i] = array'[j]
        PROVE  i = j
    BY <2>2, <2>3, <2>4, <2>7, <2>9 DEF NoNodeLost
  <2>10. QED
    BY <2>6, <2>8, <2>9 DEF NoNodeLost
<1>2. CASE BubbleUp
  <2>1. CASE ~(idx > 1 /\ P(heap_parent(idx)) > P(idx))
    BY <1>2, <2>1 DEF BubbleUp, TypeOK, NoNodeLost
  <2>2. CASE idx > 1 /\ P(heap_parent(idx)) > P(idx)
    <3>1. idx \in 1..size /\ size \in Nat /\ idx >= 2
      BY <1>2, <2>2 DEF BubbleUp, TypeOK
    <3>2. heap_parent(idx) \in 1..size /\ heap_parent(idx) # idx
      BY <3>1, Parents
    <3>3. /\ array' = heap_swap(idx, heap_parent(idx))
          /\ idx' = heap_parent(idx) /\ pc' = pc
          /\ UNCHANGED <<prio, size, allocated, held>>
      BY <1>2, <2>2 DEF BubbleUp
    <3>4. /\ DOMAIN array' = DOMAIN array
          /\ array' \in [DOMAIN array' -> Nodes]
          /\ NoNodeLost'
      BY <3>1, <3>2, <3>3, Swap
    <3>5. QED
      BY <3>1, <3>2, <3>3, <3>4 DEF TypeOK
  <2>3. QED
    BY <2>1, <2>2
<1>3. CASE Delete
  <2>1. /\ size \in Nat /\ size > 0 /\ allocated \in Nat /\ size <= allocated
        /\ DOMAIN array \subseteq 1..allocated /\ 1..size \subseteq DOMAIN array
        /\ array \in [DOMAIN array -> Nodes]
        /\ 1 \in DOMAIN array /\ size \in DOMAIN array
    BY <1>3 DEF Delete, TypeOK
  <2>2. /\ size' = size - 1
        /\ DOMAIN array' = DOMAIN array
        /\ array' \in [DOMAIN array' -> Nodes]
        /\ array'[1] = array[size]
        /\ \A i \in DOMAIN array : i # 1 => array'[i] = array[i]
        /\ held' = held \ {array[1]}
    BY <1>3, <2>1 DEF Delete
  <2>3. TypeOK'
    BY <1>3, <2>1, <2>2 DEF Delete, TypeOK
  <2>4. held' = {array'[i] : i \in 1..size'}
    <3>1. ASSUME NEW x \in held'
          PROVE  \E i \in 1..size' : x = array'[i]
      <4>1. PICK j \in 1..size : x = array[j] /\ j # 1
        BY <2>2 DEF NoNodeLost
      <4>2. CASE j = size
        BY <2>1, <2>2, <4>1, <4>2
      <4>3. CASE j # size
        BY <2>1, <2>2, <4>1, <4>3
      <4>4. QED
        BY <4>2, <4>3
    <3>2. ASSUME NEW i \in 1..size'
          PROVE  array'[i] \in held'
      <4>1. CASE i = 1
        BY <2>1, <2>2, <4>1 DEF NoNodeLost
      <4>2. CASE i # 1
        BY <2>1, <2>2, <4>2 DEF NoNodeLost
      <4>3. QED
        BY <4>1, <4>2
    <3>3. QED
      BY <3>1, <3>2
  <2>5. ASSUME NEW i \in 1..size', NEW j \in 1..size', array'[i] = array'[j]
        PROVE  i = j
    BY <2>1, <2>2, <2>5 DEF NoNodeLost
  <2>6. QED
    BY <2>3, <2>4, <2>5 DEF NoNodeLost
<1>4. CASE Heapify
  <2>1. CASE LeastOf(idx) = idx
    BY <1>4, <2>1 DEF Heapify, TypeOK, NoNodeLost
  <2>2. CASE LeastOf(idx) # idx
    <3>1. idx \in 1..size /\ size \in Nat
      BY <1>4 DEF Heapify, TypeOK
    <3>2. LeastOf(idx) \in 1..size
      BY <3>1, Children DEF LeastOf
    <3>3. /\ array' = heap_swap(idx, LeastOf(idx))
          /\ idx' = LeastOf(idx) /\ pc' \in {"idle", pc}
          /\ UNCHANGED <<prio, size, allocated, held>>
      BY <1>4, <2>2 DEF Heapify
    <3>4. /\ DOMAIN array' = DOMAIN array
          /\ array' \in [DOMAIN array' -> Nodes]
          /\ NoNodeLost'
      BY <2>2, <3>1, <3>2, <3>3, Swap
    <3>5. QED
      BY <3>1, <3>2, <3>3, <3>4 DEF TypeOK
  <2>3. QED
    BY <2>1, <2>2
<1>5. QED
  BY <1>1, <1>2, <1>3, <1>4 DEF Next

(* Priorities are numbers, so that they can be compared.                   *)
LEMMA Numbers ==
    ASSUME TypeOK, NEW i \in 1..size
    PROVE  P(i) \in Nat
BY PrioritiesAssumption DEF TypeOK, P

(* The position that a round of min_heapify swaps with: the least of the   *)
(* node's and its children's priorities is there.                          *)
LEMMA Least ==
    ASSUME TypeOK, NEW i \in 1..size
    PROVE  /\ LeastOf(i) \in 1..size
           /\ LeastOf(i) = i \/ heap_parent(LeastOf(i)) = i
           /\ LeastOf(i) # i => P(LeastOf(i)) < P(i)
           /\ \A j \in 2..size : heap_parent(j) = i => P(LeastOf(i)) <= P(j)
<1>1. i \in Nat /\ i >= 1 /\ size \in Nat /\ P(i) \in Nat
  BY Numbers DEF TypeOK
<1>2. /\ heap_right_child(i) \in Nat /\ heap_right_child(i) > i
      /\ heap_left_child(i) \in Nat /\ heap_left_child(i) > i
      /\ heap_parent(heap_right_child(i)) = i
      /\ heap_parent(heap_left_child(i)) = i
  BY <1>1, Children
<1>3. /\ heap_right_child(i) <= size => P(heap_right_child(i)) \in Nat
      /\ heap_left_child(i) <= size => P(heap_left_child(i)) \in Nat
  BY <1>1, <1>2, Numbers
<1>4. ASSUME NEW j \in 2..size, heap_parent(j) = i
      PROVE  j = heap_right_child(i) \/ j = heap_left_child(i)
  BY <1>1, <1>4, Parents
<1>5. ASSUME NEW j \in 2..size, heap_parent(j) = i
      PROVE  P(LeastOf(i)) <= P(j)
  BY <1>1, <1>2, <1>3, <1>4, <1>5 DEF LeastOf
<1>6. QED
  BY <1>1, <1>2, <1>3, <1>5 DEF LeastOf

(* An insertion disturbs the order at the new last position only.          *)
LEMMA InsertOrder ==
    ASSUME HeapInv, NEW n \in Nodes, NEW p \in Priorities, Insert(n, p), TypeOK'
    PROVE  HeapOrder' /\ OrderAround'
<1>1. /\ pc' = "bubble" /\ idx' = size' /\ size' = size + 1 /\ size \in Nat
      /\ pc = "idle"
  BY DEF Insert, HeapInv, TypeOK
<1>2. ASSUME NEW i \in 1..size
      PROVE  P(i)' = P(i)
  BY <1>1 DEF Insert, HeapInv, TypeOK, NoNodeLost, P
<1>3. ASSUME NEW i \in 2..size'
      PROVE  /\ i \in Nat /\ heap_parent(i) \in 1..size
             /\ heap_parent(i) # idx'
             /\ i # idx' => i \in 2..size
  BY <1>1, Parents
<1>4. ASSUME NEW i \in 2..size', i # idx'
      PROVE  P(heap_parent(i))' <= P(i)'
  BY <1>1, <1>2, <1>3, <1>4 DEF HeapInv, HeapOrder, heap_parent
<1>5. QED
  BY <1>1, <1>3, <1>4 DEF HeapOrder, OrderAround, heap_parent

(* The priority at a position after a step.                                *)
PNext(i) == prio'[array'[i]]

(* A round of the loop of heap_insert moves the disturbance to the parent, *)
(* or ends the loop with none.                                             *)
LEMMA BubbleOrder ==
    ASSUME HeapInv, BubbleUp
    PROVE  HeapOrder' /\ OrderAround'
<1>1. /\ TypeOK /\ pc = "bubble" /\ size \in Nat /\ size' = size /\ prio' = prio
      /\ idx \in Nat /\ idx >= 1 /\ idx <= size
      /\ array \in [DOMAIN array -> Nodes] /\ 1..size \subseteq DOMAIN array
  BY DEF HeapInv, TypeOK, BubbleUp
<1>2. \A i \in 2..size : i # idx => P(heap_parent(i)) <= P(i)
  BY <1>1 DEF HeapInv, OrderAround
<1>3. \A i \in 1..size : P(i) \in Nat
  BY <1>1, Numbers
<1>4. \A i \in 2..size : heap_parent(i) \in 1..size /\ heap_parent(i) < i
  BY <1>1, Parents
<1>5. CASE ~(idx > 1 /\ P(heap_parent(idx)) > P(idx))
  <2>1. pc' = "idle" /\ array' = array
    BY <1>1, <1>5 DEF BubbleUp
  <2>2. \A i \in 2..size : P(heap_parent(i)) <= P(i)
    BY <1>1, <1>2, <1>3, <1>4, <1>5
  <2>3. QED
    BY <1>1, <2>1, <2>2 DEF HeapOrder, OrderAround, P, heap_parent
<1>6. CASE idx > 1 /\ P(heap_parent(idx)) > P(idx)
  <2> DEFINE q == heap_parent(idx)
  <2>1. q \in 1..size /\ q < idx /\ idx \in 2..size
    BY <1>1, <1>4, <1>6
  <2>2. P(q) > P(idx)
    BY <1>6
  <2>3. /\ \A i \in 2..size : heap_parent(i) = idx => P(q) <= P(i)
        /\ \A i \in 2..size : heap_parent(i) = q /\ i # idx => P(q) <= P(i)
        /\ q > 1 => P(heap_parent(q)) <= P(q)
    BY <1>1, <1>2, <1>6, <2>1 DEF HeapInv, OrderAround
  <2>4. array' = heap_swap(idx, q) /\ idx' = q /\ pc' = "bubble"
    BY <1>1, <1>6 DEF BubbleUp
  <2>5. heap_parent(idx) = q
    OBVIOUS
  <2> HIDE DEF q
  <2>6. /\ PNext(idx) = P(q) /\ PNext(q) = P(idx)
        /\ \A i \in 1..size : i # idx /\ i # q => PNext(i) = P(i)
    BY <1>1, <2>1, <2>4 DEF heap_swap, P, PNext
  <2>7. ASSUME NEW i \in 2..size, i # q
        PROVE  PNext(heap_parent(i)) <= PNext(i)
    BY <1>2, <1>3, <1>4, <2>1, <2>2, <2>3, <2>5, <2>6, <2>7
  <2>8. ASSUME NEW i \in 2..size, heap_parent(i) = q, q > 1
        PROVE  PNext(heap_parent(q)) <= PNext(i)
    <3>1. q \in 2..size /\ heap_parent(q) \in 1..size /\ heap_parent(q) < q
      BY <1>1, <1>4, <2>1, <2>8
    <3>2. PNext(heap_parent(q)) = P(heap_parent(q))
      BY <2>1, <2>6, <3>1
    <3>3. P(q) <= PNext(i)
      BY <1>3, <1>4, <2>1, <2>3, <2>6, <2>8
    <3>4. i \in 1..size /\ PNext(i) \in Nat
      BY <1>1, <1>3, <2>1, <2>6
    <3>5. QED
      BY <1>3, <2>1, <2>3, <2>8, <3>1, <3>2, <3>3, <3>4
  <2>9. QED
    BY <1>1, <2>4, <2>7, <2>8 DEF HeapOrder, OrderAround, P, PNext, heap_parent
<1>7. QED
  BY <1>5, <1>6

(* A deletion disturbs the order at the root only.                         *)
LEMMA DeleteOrder ==
    ASSUME HeapInv, Delete
    PROVE  HeapOrder' /\ OrderAround'
<1>1. /\ pc = "idle" /\ size \in Nat /\ size > 0 /\ size' = size - 1 /\ prio' = prio
      /\ idx' = 1 /\ pc' = (IF size' = 0 THEN "idle" ELSE "heapify")
      /\ array \in [DOMAIN array -> Nodes] /\ 1..size \subseteq DOMAIN array
  BY DEF HeapInv, TypeOK, Delete
<1>2. \A i \in 2..size : P(heap_parent(i)) <= P(i)
  BY <1>1 DEF HeapInv, HeapOrder
<1>3. \A i \in 2..size : heap_parent(i) \in 1..size /\ heap_parent(i) < i
  BY <1>1, Parents
<1>4. \A i \in 2..size : PNext(i) = P(i)
  BY <1>1 DEF Delete, P, PNext
<1>5. ASSUME NEW i \in 2..size', heap_parent(i) # 1
      PROVE  PNext(heap_parent(i)) <= PNext(i)
  BY <1>1, <1>2, <1>3, <1>4, <1>5
<1>6. QED
  BY <1>1, <1>5 DEF HeapOrder, OrderAround, P, PNext, heap_parent

(* A round of the loop of min_heapify moves the disturbance to a child, or *)
(* ends the loop with none; at the last position no child is left.         *)
LEMMA HeapifyOrder ==
    ASSUME HeapInv, Heapify
    PROVE  HeapOrder' /\ OrderAround'
<1> DEFINE m == LeastOf(idx)
<1>1. /\ TypeOK /\ pc = "heapify" /\ size \in Nat /\ size' = size /\ prio' = prio
      /\ idx \in 1..size
      /\ array \in [DOMAIN array -> Nodes] /\ 1..size \subseteq DOMAIN array
  BY DEF HeapInv, TypeOK, Heapify
<1>2. \A i \in 2..size : heap_parent(i) # idx => P(heap_parent(i)) <= P(i)
  BY <1>1 DEF HeapInv, OrderAround
<1>3. \A i \in 1..size : P(i) \in Nat
  BY <1>1, Numbers
<1>4. \A i \in 2..size : heap_parent(i) \in 1..size /\ heap_parent(i) < i
  BY <1>1, Parents
<1>5. /\ m \in 1..size
      /\ m = idx \/ heap_parent(m) = idx
      /\ m # idx => P(m) < P(idx)
      /\ \A j \in 2..size : heap_parent(j) = idx => P(m) <= P(j)
  BY <1>1, Least
<1>6. /\ m = idx => pc' = "idle" /\ array' = array
      /\ m # idx => /\ array' = heap_swap(idx, m) /\ idx' = m
                    /\ pc' = (IF m < size THEN "heapify" ELSE "idle")
  BY <1>1 DEF Heapify
<1> HIDE DEF m
<1>7. CASE m = idx
  <2>1. \A i \in 2..size : P(heap_parent(i)) <= P(i)
    BY <1>2, <1>5, <1>7
  <2>2. QED
    BY <1>1, <1>6, <1>7, <2>1 DEF HeapOrder, OrderAround, P, heap_parent
<1>8. CASE m # idx
  <2>1. m \in 2..size /\ heap_parent(m) = idx /\ idx < m
    <3>1. heap_parent(m) = idx
      BY <1>5, <1>8
    <3>2. m # 1
      BY <1>1, <3>1, Parents DEF heap_parent
    <3>3. QED
      BY <1>1, <1>4, <1>5, <3>1, <3>2
  <2>2. /\ PNext(idx) = P(m) /\ PNext(m) = P(idx)
        /\ \A i \in 1..size : i # idx /\ i # m => PNext(i) = P(i)
    BY <1>1, <1>5, <1>6, <1>8 DEF heap_swap, P, PNext
  <2>3. idx > 1 => P(heap_parent(idx)) <= P(m)
    BY <1>1, <2>1 DEF HeapInv, OrderAround
  <2>4. ASSUME NEW i \in 2..size, heap_parent(i) # m
        PROVE  PNext(heap_parent(i)) <= PNext(i)
    <3>1. i \in 1..size /\ heap_parent(i) \in 1..size /\ heap_parent(i) < i
      BY <1>4
    <3>2. CASE i = idx
      BY <1>1, <2>1, <2>2, <2>3, <2>4, <3>1, <3>2
    <3>3. CASE i = m
      BY <1>1, <1>3, <1>5, <2>1, <2>2, <3>3
    <3>4. CASE i # idx /\ i # m /\ heap_parent(i) = idx
      BY <1>5, <2>2, <3>1, <3>4
    <3>5. CASE i # idx /\ i # m /\ heap_parent(i) # idx
      BY <1>2, <2>2, <2>4, <3>1, <3>5
    <3>6. QED
      BY <3>2, <3>3, <3>4, <3>5
  <2>5. ASSUME NEW i \in 2..size, heap_parent(i) = m
        PROVE  PNext(heap_parent(m)) <= PNext(i)
    <3>1. i \in 1..size /\ i # m /\ i # idx
      BY <1>4, <2>1, <2>5
    <3>2. P(m) <= P(i)
      BY <1>2, <1>8, <2>5
    <3>3. QED
      BY <2>1, <2>2, <3>1, <3>2
  <2>6. ~(m < size) => \A i \in 2..size : heap_parent(i) # m
    BY <1>1, <1>4, <2>1
  <2>7. QED
    BY <1>1, <1>6, <1>8, <2>4, <2>5, <2>6
    DEF HeapOrder, OrderAround, P, PNext, heap_parent
<1>9. QED
  BY <1>7, <1>8

(* The heap is in order whenever no call is under way: what heap_insert    *)
(* and heap_delete promise, for heaps of every size.  The loops' own       *)
(* invariant, OrderAround, is what carries it from round to round.         *)
THEOREM HeapOrderHolds == Spec => []HeapOrder
<1>1. Init => HeapInv
  BY DEF Init, HeapInv, TypeOK, NoNodeLost, HeapOrder, OrderAround
<1>2. HeapInv /\ [Next]_vars => HeapInv'
  <2> SUFFICES ASSUME HeapInv, [Next]_vars PROVE HeapInv'
    OBVIOUS
  <2>1. CASE UNCHANGED vars
    BY <2>1 DEF vars, HeapInv, TypeOK, NoNodeLost, HeapOrder, OrderAround, P
  <2>2. CASE Next
    <3>1. TypeOK' /\ NoNodeLost'
      BY <2>2, NodesStep DEF HeapInv
    <3>2. HeapOrder' /\ OrderAround'
      BY <2>2, <3>1, InsertOrder, BubbleOrder, DeleteOrder, HeapifyOrder DEF Next
    <3>3. QED
      BY <3>1, <3>2 DEF HeapInv
  <2>3. QED
    BY <2>1, <2>2
<1>3. HeapInv => HeapOrder
  BY DEF HeapInv
<1>4. QED
  BY <1>1, <1>2, <1>3, PTL DEF Spec

(* No swap and no call loses or doubles a node of the heap.                *)
THEOREM NoNodeLostHolds == Spec => []NoNodeLost
<1>1. Init => TypeOK /\ NoNodeLost
  BY DEF Init, TypeOK, NoNodeLost
<1>2. (TypeOK /\ NoNodeLost) /\ [Next]_vars => (TypeOK /\ NoNodeLost)'
  BY NodesStep DEF vars, TypeOK, NoNodeLost
<1>3. QED
  BY <1>1, <1>2, PTL DEF Spec
=============================================================================

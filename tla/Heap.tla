-------------------------------- MODULE Heap --------------------------------
(***************************************************************************)
(* The binary heap of lib/heap.c, with one step for each round of the      *)
(* loops of heap_insert and min_heapify.  The scheduler keeps its events   *)
(* in a list and the heap beside it as an alternative.                     *)
(***************************************************************************)
EXTENDS Integers, FiniteSets

CONSTANTS
    Nodes,        \* struct heap_node
    Priorities    \* a bounded set of priorities

ASSUME PrioritiesAssumption == Priorities \subseteq Nat

VARIABLES
    array,        \* the nodes by position; positions above size are stale
    prio,         \* the priority of a node
    size,
    allocated,    \* positions that the memory of array has, without the unused 0
    pc,           \* "idle", or the loop that runs: "bubble", "heapify"
    idx,          \* the position the loop is at
    held          \* the nodes inserted and not yet returned by heap_delete

vars == <<array, prio, size, allocated, pc, idx, held>>

heap_parent(i) == i \div 2
heap_right_child(i) == 2 * i
heap_left_child(i) == 2 * i + 1

P(i) == prio[array[i]]

(* A bug: the swap without its temporary. *)
heap_swap_Lost(i, j) == [array EXCEPT ![i] = array[j]]

heap_swap(i, j) == [array EXCEPT ![i] = array[j], ![j] = array[i]]

Init ==
    /\ array = [i \in {} |-> 0] /\ size = 0 /\ allocated = 0
    /\ prio \in [Nodes -> Priorities]
    /\ pc = "idle" /\ idx = 0 /\ held = {}

Grow == IF size >= allocated THEN IF size = 0 THEN 1 ELSE 2 * size ELSE allocated

(* heap_insert of a node that is not in the heap, up to the loop.          *)
Insert(n, p) ==
    /\ pc = "idle" /\ n \notin held
    /\ allocated' = Grow
    /\ size' = size + 1
    /\ array' = [i \in DOMAIN array \union {size'} |-> IF i = size' THEN n ELSE array[i]]
    /\ prio' = [prio EXCEPT ![n] = p]
    /\ pc' = "bubble" /\ idx' = size'
    /\ held' = held \union {n}

(* A bug: the loop stops below the root. *)
BubbleUp_Early ==
    /\ pc = "bubble"
    /\ IF idx > 2 /\ P(heap_parent(idx)) > P(idx)
       THEN /\ array' = heap_swap(idx, heap_parent(idx))
            /\ idx' = heap_parent(idx) /\ UNCHANGED pc
       ELSE pc' = "idle" /\ UNCHANGED <<array, idx>>
    /\ UNCHANGED <<prio, size, allocated, held>>

BubbleUp ==
    /\ pc = "bubble"
    /\ IF idx > 1 /\ P(heap_parent(idx)) > P(idx)
       THEN /\ array' = heap_swap(idx, heap_parent(idx))
            /\ idx' = heap_parent(idx) /\ UNCHANGED pc
       ELSE pc' = "idle" /\ UNCHANGED <<array, idx>>
    /\ UNCHANGED <<prio, size, allocated, held>>

(* heap_delete on a heap with a node, up to the loop of min_heapify.       *)
Delete ==
    /\ pc = "idle" /\ size > 0
    /\ size' = size - 1
    /\ array' = [array EXCEPT ![1] = array[size]]
    /\ pc' = IF size' = 0 THEN "idle" ELSE "heapify"
    /\ idx' = 1
    /\ held' = held \ {array[1]}
    /\ UNCHANGED <<prio, allocated>>

(* The position of the least of the node at i and its children.            *)
LeastOf(i) ==
    LET left == heap_left_child(i)
        right == heap_right_child(i)
        min == IF left <= size /\ P(left) < P(i) THEN left ELSE i
    IN  IF right <= size /\ P(right) < P(min) THEN right ELSE min

(* The loop ends at the last position without looking at it again.         *)
Heapify ==
    /\ pc = "heapify"
    /\ LET min == LeastOf(idx)
       IN IF min = idx THEN pc' = "idle" /\ UNCHANGED <<array, idx>>
          ELSE /\ array' = heap_swap(idx, min)
               /\ idx' = min
               /\ pc' = IF min < size THEN pc ELSE "idle"
    /\ UNCHANGED <<prio, size, allocated, held>>

Next == \/ \E n \in Nodes, p \in Priorities : Insert(n, p)
        \/ BubbleUp \/ Delete \/ Heapify

Spec == Init /\ [][Next]_vars

-----------------------------------------------------------------------------
(* The array has memory for every position in use, and the loops stay      *)
(* within them.                                                            *)
TypeOK ==
    /\ size \in Nat /\ allocated \in Nat /\ size <= allocated
    /\ DOMAIN array \subseteq 1..allocated /\ 1..size \subseteq DOMAIN array
    /\ array \in [DOMAIN array -> Nodes]
    /\ prio \in [Nodes -> Priorities]
    /\ pc \in {"idle", "bubble", "heapify"}
    /\ idx \in Nat /\ (pc # "idle" => idx \in 1..size)
    /\ held \subseteq Nodes

(* Between two calls no node has a lower priority than its parent, so that *)
(* heap_retrieve and heap_delete return a node of the lowest priority.     *)
HeapOrder ==
    pc = "idle" => \A i \in 2..size : P(heap_parent(i)) <= P(i)

(* The nodes of the heap are those inserted and not yet returned, each at  *)
(* one position: no swap loses or doubles a node.                          *)
NoNodeLost ==
    /\ held = {array[i] : i \in 1..size}
    /\ \A i, j \in 1..size : array[i] = array[j] => i = j

(* While a loop runs, the heap is in order but for the position it is at:  *)
(* the node there may be too small for its parent or too big for its       *)
(* children, and the nodes around it are in order without it.              *)
OrderAround ==
    /\ pc = "bubble" =>
         \A i \in 2..size : i # idx => P(heap_parent(i)) <= P(i)
    /\ pc = "heapify" =>
         \A i \in 2..size : heap_parent(i) # idx => P(heap_parent(i)) <= P(i)
    /\ pc # "idle" /\ idx > 1 =>
         \A i \in 2..size : heap_parent(i) = idx => P(heap_parent(idx)) <= P(i)

(* The four together are inductive. *)
HeapInv == TypeOK /\ NoNodeLost /\ HeapOrder /\ OrderAround
=============================================================================

------------------------------- MODULE Lists -------------------------------
(***************************************************************************)
(* The two things that the program does with a list as a whole.  Deletion  *)
(* of elements, DL_DELETE and HASH_DEL of the headers that horse includes, *)
(* or a list comprehension of the decision process: those that stay keep   *)
(* their order.  And a walk over a list of lists.                          *)
(***************************************************************************)
EXTENDS Integers, Sequences

(* The list q with the elements at the positions in S alone.               *)
Kept(q, S) ==
    LET kept[n \in 0..Len(q)] ==
          IF n = 0 THEN <<>>
          ELSE IF n \in S THEN Append(kept[n - 1], q[n]) ELSE kept[n - 1]
    IN  kept[Len(q)]

(* The lists of qs one after the other.                                    *)
Joined(qs) ==
    LET joined[n \in 0..Len(qs)] ==
          IF n = 0 THEN <<>> ELSE joined[n - 1] \o qs[n]
    IN  joined[Len(qs)]
=============================================================================

------------------------------ MODULE Scheduler ------------------------------
(***************************************************************************)
(* The event queue of the simulator (src/src/sim/scheduler.c): a singly    *)
(* linked list of events, kept in the order of their times by              *)
(* LL_INSERT_INORDER.  The list is a sequence of event records.  An event  *)
(* is a pointer in the code; here it carries an identity in its field id,  *)
(* so that two events with the same type and time are different events.    *)
(*                                                                         *)
(* scheduler_insert, scheduler_delete and scheduler_dispatch run under     *)
(* sch_mutex and touch nothing but the list, so each is one operator       *)
(* applied in one step of its caller.                                      *)
(***************************************************************************)
EXTENDS Integers, Sequences, Functions

(* The kinds of event the two execution modes tell apart.  "DP" is an      *)
(* EVENT_FLOW_RECV, EVENT_FLOW_SEND or EVENT_APP_START; "IN" and "OUT" are *)
(* the EVENT_FTI events that come from and go to the control plane; "END"  *)
(* is EVENT_END.                                                           *)
EventTypes == {"DP", "IN", "OUT", "END"}

Event == [id : Nat, type : EventTypes, time : Nat]

(* e is somewhere in front of f in the list.                               *)
Before(q, e, f) == \E i, j \in 1..Len(q) : i < j /\ q[i] = e /\ q[j] = f

(* The list is in the order that priocmp defines.                          *)
Sorted(q) == \A i, j \in 1..Len(q) : i < j => q[i].time <= q[j].time

(* No event is in the list twice.                                          *)
Distinct(q) == \A i, j \in 1..Len(q) : q[i].id = q[j].id => i = j

(* LL_LOWER_BOUND stops at the first element whose time is not smaller     *)
(* than the new event's, so LowerBound(q, ev) elements stay in front.      *)
LowerBound(q, ev) ==
    CHOOSE n \in 0..Len(q) :
        /\ \A i \in 1..n : q[i].time < ev.time
        /\ n < Len(q) => ~(q[n + 1].time < ev.time)

(* A bug: the event goes to the end, without a search.                     *)
scheduler_insert_append(q, ev) == Append(q, ev)

scheduler_insert(q, ev) ==
    LET n == LowerBound(q, ev)
    IN  SubSeq(q, 1, n) \o <<ev>> \o SubSeq(q, n + 1, Len(q))

(* A bug: the head goes, whatever event was asked for.                     *)
scheduler_delete_head(q, ev) == Tail(q)

(* LL_DELETE looks for the pointer, and leaves the list alone when it is   *)
(* not there.                                                              *)
scheduler_delete(q, ev) ==
    IF \E n \in 1..Len(q) : q[n] = ev
    THEN LET k == CHOOSE n \in 1..Len(q) : q[n] = ev
         IN  SubSeq(q, 1, k - 1) \o SubSeq(q, k + 1, Len(q))
    ELSE q

scheduler_retrieve(q) == Head(q)

(* What scheduler_dispatch leaves in the list; the event it returns is     *)
(* scheduler_retrieve(q).                                                  *)
scheduler_dispatch(q) == Tail(q)
=============================================================================

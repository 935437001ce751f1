------------------------------ MODULE EventLoop ------------------------------
(***************************************************************************)
(* What the execution core of the simulator promises, whichever of its two *)
(* threads runs an event: one event at a time, every event at most once,   *)
(* nothing that is later than the end, and the events of the data plane in *)
(* the order of their times.  Only a message from the control plane, whose *)
(* callback may deliver it at any moment, can find that a later event was  *)
(* run before it.                                                          *)
(*                                                                         *)
(* Events are records with fields id, type and time; "IN" is the type of a *)
(* message from the control plane and "END" that of the end.               *)
(***************************************************************************)
EXTENDS Integers

CONSTANTS
    None,       \* not an event
    EndTime     \* when the simulation ends

VARIABLES
    pending,    \* events that wait
    running,    \* the event that is being handled, or None
    done,       \* identities of the events that have been handled
    over        \* the end has been reached

vars == <<pending, running, done, over>>

Init == pending = {} /\ running = None /\ done = {} /\ over = FALSE

(* Everything pending that is earlier than t is a message.                 *)
InOrder(t) == \A f \in pending : f.time < t => f.type = "IN"

(* A new event, whatever it is, from a handler, a callback or the setup.   *)
Post ==
    \E e \in pending' \ pending :
        /\ e # running /\ e.id \notin done
        /\ pending' = pending \union {e}
        /\ UNCHANGED <<running, done, over>>

Start(e) ==
    /\ ~over /\ running = None
    /\ e.type # "END" /\ e.time <= EndTime
    /\ InOrder(e.time)
    /\ running' = e
    /\ pending' = pending \ {e}
    /\ UNCHANGED <<done, over>>

Finish ==
    /\ running # None
    /\ running' = None
    /\ done' = done \union {running.id}
    /\ UNCHANGED <<pending, over>>

End ==
    /\ ~over /\ running = None
    /\ \E e \in pending : e.type = "END" /\ pending' = pending \ {e}
    /\ InOrder(EndTime)
    /\ over' = TRUE
    /\ UNCHANGED <<running, done>>

Next == \/ Post
        \/ \E e \in pending : Start(e)
        \/ Finish
        \/ End

Spec == Init /\ [][Next]_vars
=============================================================================

-------------------------- MODULE HybridSimProofs ---------------------------
(***************************************************************************)
(* Proofs about HybridSim, for every choice of its constants: the types of *)
(* the variables, whose turn it is, and the queue, which stays sorted and  *)
(* loses no event nor runs one twice.                                      *)
(*                                                                         *)
(* The invariant is proved in layers, each of which uses the ones before:  *)
(* TypeOK, Turn, and the order and the identities in the queue (QueueInv)  *)
(* here; the event each thread holds (HeldInv) and the clock (ClockInv) in *)
(* HybridOrderProofs.                                                      *)
(***************************************************************************)
EXTENDS HybridSim, ListProofs

-----------------------------------------------------------------------------
(* Types *)

(* The fields of an event have their types.                                *)
LEMMA EventFields ==
    ASSUME NEW e \in Event
    PROVE  e.id \in Nat /\ e.time \in Nat /\ e.type \in EventTypes
BY DEF Event

(* What is in a queue of events is an event.                               *)
LEMMA RangeOfQueue ==
    ASSUME NEW q \in Seq(Event)
    PROVE  Range(q) \subseteq Event
BY DEF Range

(* A new event is an event, and goes into the queue.                       *)
LEMMA ScheduleType ==
    ASSUME TypeOK, NEW type \in EventTypes, NEW time \in Nat,
           Schedule(type, time)
    PROVE  /\ NewEvent(type, time) \in Event
           /\ queue' \in Seq(Event)
           /\ next_id' \in Nat \ {0}
<1>1. NewEvent(type, time) \in Event
  BY DEF TypeOK, Event, NewEvent
<1>2. queue' \in Seq(Event)
  BY <1>1, InsertSpec DEF TypeOK, Schedule
<1>3. next_id' \in Nat \ {0}
  BY DEF TypeOK, Schedule
<1> QED
  BY <1>1, <1>2, <1>3

(* What a handler schedules (event_handler.c) keeps the queue a queue of   *)
(* events.                                                                 *)
LEMMA ScheduleForType ==
    ASSUME TypeOK, NEW ev, ScheduleFor(ev)
    PROVE  queue' \in Seq(Event) /\ next_id' \in Nat \ {0}
<1>1. PICK type \in {"DP", "OUT"}, time \in 0..Horizon : Schedule(type, time)
  BY DEF ScheduleFor
<1>2. type \in EventTypes /\ time \in Nat
  BY ConstantsAssumption DEF EventTypes
<1> QED
  BY <1>1, <1>2, ScheduleType

(* scheduler_retrieve and scheduler_dispatch on a queue that is not empty. *)
LEMMA HeadType ==
    ASSUME NEW q \in Seq(Event), q # <<>>
    PROVE  scheduler_retrieve(q) \in Event /\ scheduler_dispatch(q) \in Seq(Event)
BY HeadFacts, DispatchFacts DEF Thinned

(* scheduler_delete leaves a queue of events.                              *)
LEMMA DeleteType ==
    ASSUME NEW q \in Seq(Event), NEW ev
    PROVE  scheduler_delete(q, ev) \in Seq(Event)
<1>1. CASE \E n \in 1..Len(q) : q[n] = ev
  <2>1. ev \in Range(q)
    BY <1>1 DEF Range
  <2> QED
    BY <2>1, DeleteFacts DEF Thinned
<1>2. CASE ~\E n \in 1..Len(q) : q[n] = ev
  BY <1>2 DEF scheduler_delete
<1> QED
  BY <1>1, <1>2

(* Every step keeps every variable in its type.                            *)
THEOREM TypeCorrect == Spec => []TypeOK
<1>1. Init => TypeOK
  BY ConstantsAssumption DEF Init, TypeOK, NoEvent, EventTypes
<1>2. TypeOK /\ [Next]_vars => TypeOK'
  <2> SUFFICES ASSUME TypeOK, [Next]_vars PROVE TypeOK'
    OBVIOUS
  <2> USE ConstantsAssumption DEF schVars, statVars, contVars, timerVars,
          cbVars, histVars
  <2>1. CASE MainSetupApp
    <3>1. queue' \in Seq(Event) /\ next_id' \in Nat \ {0}
      <4>1. PICK time \in 0..Horizon : Schedule("DP", time)
        BY <2>1 DEF MainSetupApp
      <4>2. time \in Nat /\ "DP" \in EventTypes
        BY DEF EventTypes
      <4> QED
        BY <4>1, <4>2, ScheduleType
    <3> QED
      BY <2>1, <3>1 DEF MainSetupApp, TypeOK
  <2>2. CASE MainInsertEnd
    <3>1. EndEvent \in Event
      BY DEF EndEvent, Event, EventTypes
    <3>2. queue' \in Seq(Event)
      BY <2>2, <3>1, InsertSpec DEF MainInsertEnd, TypeOK
    <3> QED
      BY <2>2, <3>2 DEF MainInsertEnd, TypeOK
  <2>3. CASE MainStartTimer \/ MainGetTime \/ MainCreateDes
    <3>1. CASE MainStartTimer
      BY <3>1 DEF MainStartTimer, TypeOK
    <3>2. CASE MainGetTime
      BY <3>2 DEF MainGetTime, TypeOK
    <3>3. CASE MainCreateDes
      BY <3>3 DEF MainCreateDes, TypeOK
    <3> QED
      BY <2>3, <3>1, <3>2, <3>3
  <2>4. CASE DesTestMode \/ DesSpuriousWakeup \/ DesHandled \/ DesSwitch
             \/ DesShutdown
    <3>1. CASE DesTestMode
      BY <3>1 DEF DesTestMode, TypeOK
    <3>2. CASE DesSpuriousWakeup
      BY <3>2 DEF DesSpuriousWakeup, TypeOK
    <3>3. CASE DesSwitch
      BY <3>3 DEF DesSwitch, TypeOK
    <3>4. CASE DesShutdown
      BY <3>4 DEF DesShutdown, TypeOK
    <3>5. CASE DesHandled
      <4>1. des_ev.id \in Nat
        BY EventFields DEF TypeOK, NoEvent
      <4>2. handled' \subseteq Nat
        BY <3>5, <4>1 DEF DesHandled, TypeOK
      <4>3. des' \in {"switch", "test"} /\ des_ev' \in Event \union {NoEvent}
        BY <3>5 DEF DesHandled, TypeOK
      <4> QED
        BY <3>5, <4>2, <4>3 DEF DesHandled, TypeOK
    <3> QED
      BY <2>4, <3>1, <3>2, <3>3, <3>4, <3>5
  <2>5. CASE DesDispatch
    <3>1. des_ev' \in Event /\ queue' \in Seq(Event)
      BY <2>5, HeadType DEF DesDispatch, TypeOK
    <3> QED
      BY <2>5, <3>1 DEF DesDispatch, TypeOK
  <2>6. CASE DesAccount
    <3>1. des_ev.time \in Nat
      BY EventFields DEF TypeOK, NoEvent
    <3>2. last_stats' \in Nat /\ clock' \in Nat
      BY <2>6, <3>1 DEF DesAccount, UpdateStats, TypeOK
    <3>3. des' \in {"shutdown", "handle"}
      BY <2>6 DEF DesAccount
    <3> QED
      BY <2>6, <3>2, <3>3 DEF DesAccount, TypeOK
  <2>7. CASE DesSchedule
    <3>1. queue' \in Seq(Event) /\ next_id' \in Nat \ {0}
      BY <2>7, ScheduleForType DEF DesSchedule
    <3> QED
      BY <2>7, <3>1 DEF DesSchedule, TypeOK
  <2>8. CASE ContSchedule
    <3>1. queue' \in Seq(Event) /\ next_id' \in Nat \ {0}
      BY <2>8, ScheduleForType DEF ContSchedule
    <3> QED
      BY <2>8, <3>1 DEF ContSchedule, TypeOK
  <2>9. CASE ContSemWait \/ ContCancel \/ ContTestMode \/ ContSpuriousWakeup
             \/ ContNotDue \/ ContIdle
    <3>1. CASE ContSemWait
      BY <3>1 DEF ContSemWait, TypeOK
    <3>2. CASE ContCancel
      BY <3>2 DEF ContCancel, TypeOK
    <3>3. CASE ContTestMode
      BY <3>3 DEF ContTestMode, TypeOK
    <3>4. CASE ContSpuriousWakeup
      BY <3>4 DEF ContSpuriousWakeup, TypeOK
    <3>5. CASE ContNotDue
      BY <3>5 DEF ContNotDue, TypeOK
    <3>6. CASE ContIdle
      <4>1. mode' \in {"DES", "FTI"} /\ des' \in {des, "test"}
        BY <3>6 DEF ContIdle, TypeOK
      <4> QED
        BY <3>6, <4>1 DEF ContIdle, TypeOK
    <3> QED
      BY <2>9, <3>1, <3>2, <3>3, <3>4, <3>5, <3>6
  <2>10. CASE ContRead
    <3>1. cur_ev' \in Event
      BY <2>10, HeadType DEF ContRead, TypeOK
    <3> QED
      BY <2>10, <3>1 DEF ContRead, TypeOK
  <2>11. CASE ContAdvance
    <3>1. clock' \in Nat
      BY <2>11 DEF ContAdvance, TypeOK
    <3>2. last_wrt' \in Nat
      BY <2>11, <3>1 DEF ContAdvance, TypeOK
    <3> QED
      BY <2>11, <3>1, <3>2 DEF ContAdvance, TypeOK
  <2>12. CASE ContDue
    <3>1. cur_ev.time \in Nat
      BY EventFields DEF TypeOK, NoEvent
    <3>2. last_stats' \in Nat /\ last_ctrl' \in Nat
      BY <2>12, <3>1 DEF ContDue, UpdateStats, TypeOK
    <3>3. cont' \in {"idle", "handle"} /\ cur_ev' \in Event \union {NoEvent}
      BY <2>12 DEF ContDue, TypeOK
    <3> QED
      BY <2>12, <3>2, <3>3 DEF ContDue, TypeOK
  <2>13. CASE ContHandled
    <3>1. cur_ev.id \in Nat
      BY EventFields DEF TypeOK, NoEvent
    <3>2. queue' \in Seq(Event)
      BY <2>13, DeleteType DEF ContHandled, TypeOK
    <3>3. cur_ev' \in Event
      BY <2>13, <3>2, HeadType DEF ContHandled
    <3>4. handled' \subseteq Nat
      BY <2>13, <3>1 DEF ContHandled, TypeOK
    <3> QED
      BY <2>13, <3>2, <3>3, <3>4 DEF ContHandled, TypeOK
  <2>14. ASSUME NEW c \in Callbacks, CbStamp(c) PROVE TypeOK'
    BY <2>14 DEF CbStamp, TypeOK
  <2>15. ASSUME NEW c \in Callbacks, CbInsert(c) PROVE TypeOK'
    <3>1. queue' \in Seq(Event) /\ next_id' \in Nat \ {0}
      BY <2>15, ScheduleType DEF CbInsert, EventTypes, TypeOK
    <3> QED
      BY <2>15, <3>1 DEF CbInsert, TypeOK
  <2>16. CASE Tick
    BY <2>16 DEF Tick, TypeOK
  <2>17. CASE UNCHANGED vars
    BY <2>17 DEF vars, TypeOK
  <2> QED
    BY <2>1, <2>2, <2>3, <2>4, <2>5, <2>6, <2>7, <2>8, <2>9, <2>10, <2>11,
       <2>12, <2>13, <2>14, <2>15, <2>16, <2>17
       DEF Next, MainNext, DesNext, ContNext
<1> QED
  BY <1>1, <1>2, PTL DEF Spec

-----------------------------------------------------------------------------
(* Turns *)

(* A thread that runs, or has just found that it may, has the turn; before *)
(* the threads start the turn is cont's.                                   *)
Turn ==
    /\ DesRuns => mode = "DES"
    /\ ContRuns => mode = "FTI"
    /\ NoLostWakeup
    /\ des # "unborn" => main = "join"
    /\ cont # "unborn" => main \notin {"setup", "timer"}
    /\ main \in {"setup", "timer"} => mode = "FTI"

(* Nobody runs before sim_init.                                            *)
LEMMA TurnInit == Init => Turn
BY DEF Init, Turn, DesRuns, ContRuns, NoLostWakeup

(* Every step of every thread keeps the turn.                              *)
LEMMA TurnNext == TypeOK /\ Turn /\ [Next]_vars => Turn'
<1> SUFFICES ASSUME TypeOK, Turn, [Next]_vars PROVE Turn'
  OBVIOUS
<1> USE DEF schVars, statVars, contVars, timerVars, cbVars, histVars,
        Turn, DesRuns, ContRuns, NoLostWakeup
<1>1. CASE MainNext
  <2>1. CASE MainSetupApp
    BY <2>1 DEF MainSetupApp
  <2>2. CASE MainInsertEnd
    BY <2>2 DEF MainInsertEnd
  <2>3. CASE MainStartTimer
    BY <2>3 DEF MainStartTimer
  <2>4. CASE MainGetTime
    BY <2>4 DEF MainGetTime
  <2>5. CASE MainCreateDes
    BY <2>5 DEF MainCreateDes
  <2> QED
    BY <1>1, <2>1, <2>2, <2>3, <2>4, <2>5 DEF MainNext
<1>2. CASE DesNext \/ DesSpuriousWakeup
  <2>1. CASE DesTestMode
    BY <2>1 DEF DesTestMode, TypeOK
  <2>2. CASE DesSpuriousWakeup
    BY <2>2 DEF DesSpuriousWakeup
  <2>3. CASE DesDispatch
    BY <2>3 DEF DesDispatch
  <2>4. CASE DesAccount
    BY <2>4 DEF DesAccount
  <2>5. CASE DesSchedule
    BY <2>5 DEF DesSchedule
  <2>6. CASE DesHandled
    BY <2>6 DEF DesHandled
  <2>7. CASE DesSwitch
    BY <2>7 DEF DesSwitch
  <2>8. CASE DesShutdown
    BY <2>8 DEF DesShutdown
  <2> QED
    BY <1>2, <2>1, <2>2, <2>3, <2>4, <2>5, <2>6, <2>7, <2>8 DEF DesNext
<1>3. CASE ContNext \/ ContSpuriousWakeup
  <2>1. CASE ContSemWait
    BY <2>1 DEF ContSemWait
  <2>2. CASE ContCancel
    BY <2>2 DEF ContCancel
  <2>3. CASE ContTestMode
    BY <2>3 DEF ContTestMode, TypeOK
  <2>4. CASE ContSpuriousWakeup
    BY <2>4 DEF ContSpuriousWakeup
  <2>5. CASE ContRead
    BY <2>5 DEF ContRead
  <2>6. CASE ContAdvance
    BY <2>6 DEF ContAdvance
  <2>7. CASE ContDue
    BY <2>7 DEF ContDue
  <2>8. CASE ContNotDue
    BY <2>8 DEF ContNotDue
  <2>9. CASE ContSchedule
    BY <2>9 DEF ContSchedule
  <2>10. CASE ContHandled
    BY <2>10 DEF ContHandled
  <2>11. CASE ContIdle
    BY <2>11 DEF ContIdle
  <2> QED
    BY <1>3, <2>1, <2>2, <2>3, <2>4, <2>5, <2>6, <2>7, <2>8, <2>9, <2>10,
       <2>11 DEF ContNext
<1>4. ASSUME NEW c \in Callbacks, CbStamp(c) \/ CbInsert(c) PROVE Turn'
  BY <1>4 DEF CbStamp, CbInsert
<1>5. CASE Tick
  BY <1>5 DEF Tick
<1>6. CASE UNCHANGED vars
  BY <1>6 DEF vars
<1> QED
  BY <1>1, <1>2, <1>3, <1>4, <1>5, <1>6 DEF Next

(* A thread runs events only in its mode, and sleeps only in the other.    *)
THEOREM TurnInvariant == Spec => []Turn
BY TypeCorrect, TurnInit, TurnNext, PTL DEF Spec

(* The two threads never execute events at the same time, whatever the     *)
(* callbacks and the timer do ("Only execute in DES mode", sim.c:147).     *)
THEOREM MutualExclusionHolds == Spec => []MutualExclusion
<1>1. Turn => MutualExclusion
  BY DEF Turn, MutualExclusion
<1> QED
  BY <1>1, TurnInvariant, PTL

(* No hand-over of the turn is missed by a sleeping thread.                *)
THEOREM NoLostWakeupHolds == Spec => []NoLostWakeup
<1>1. Turn => NoLostWakeup
  BY DEF Turn
<1> QED
  BY <1>1, TurnInvariant, PTL

-----------------------------------------------------------------------------
(* The queue: no event is lost or run twice, and pointers into it stay valid *)


(* The queue is sorted, and its events are different, known and not yet    *)
(* handled; the only EVENT_END is the one of sim_init.                     *)
OrderInv ==
    /\ Sorted(queue) /\ Distinct(queue)
    /\ \A e \in Queued :
           /\ e.id < next_id /\ e.id \notin handled
           /\ e.type = "END" \/ e.id = 0 => e = EndEvent /\ main # "setup"

(* The event in the hands of des is in nobody else's.                      *)
HandInv ==
    /\ des \in {"account", "handle"} =>
          /\ des_ev \in Event
          /\ des_ev.id < next_id /\ des_ev.id \notin handled
          /\ \A e \in Queued : e.id # des_ev.id
          /\ des_ev.type = "END" \/ des_ev.id = 0 => des_ev = EndEvent
    /\ des = "handle" => des_ev.type # "END"

(* EVENT_END waits until des takes it.                                     *)
EndInv ==
    main # "setup" => \/ EndEvent \in Queued
                      \/ des \in {"shutdown", "done"}
                      \/ des = "account" /\ des_ev = EndEvent

CurInv ==
    /\ cont \in {"advance", "loop", "handle"} => cur_ev \in Queued
    /\ cont = "handle" => cur_ev.type # "END"

(* Every identity given out is accounted for.                              *)
AllInv ==
    /\ handled \subseteq 1..(next_id - 1)
    /\ \A n \in 1..(next_id - 1) :
           n \in handled \/ \E e \in Queued \union InHand : e.id = n

QueueInv == OrderInv /\ HandInv /\ EndInv /\ CurInv /\ AllInv

(* What scheduling an event does to the queue.                             *)
LEMMA ScheduleFacts ==
    ASSUME TypeOK, OrderInv, NEW type \in EventTypes, NEW time \in Nat,
           Schedule(type, time)
    PROVE  LET ev == NewEvent(type, time)
           IN  /\ ev \in Event
               /\ ev.id = next_id /\ ev.type = type /\ ev.time = time
               /\ queue' \in Seq(Event)
               /\ Range(queue') = Range(queue) \union {ev}
               /\ Sorted(queue') /\ Distinct(queue')
               /\ \A e, f : Before(queue', e, f) =>
                     \/ Before(queue, e, f)
                     \/ e = ev /\ f \in Range(queue)
                     \/ f = ev /\ e \in Range(queue)
<1> DEFINE ev == NewEvent(type, time)
<1>1. ev \in Event /\ queue \in Seq(Event) /\ Sorted(queue) /\ Distinct(queue)
  BY ScheduleType DEF TypeOK, OrderInv
<1>2. queue' = scheduler_insert(queue, ev)
  BY DEF Schedule
<1>3. /\ ev.id = next_id /\ ev.type = type /\ ev.time = time
      /\ next_id \in Nat
  BY DEF TypeOK, NewEvent
<1>4. \A e \in Range(queue) : e.id \in Nat /\ e.id < next_id
  BY <1>1, RangeOfQueue, EventFields DEF OrderInv, Queued
<1> HIDE DEF ev
<1>5. /\ queue' \in Seq(Event)
      /\ Range(queue') = Range(queue) \union {ev}
      /\ Sorted(queue')
      /\ \A e, f : Before(queue', e, f) =>
            \/ Before(queue, e, f)
            \/ e = ev /\ f \in Range(queue)
            \/ f = ev /\ e \in Range(queue)
  BY <1>1, <1>2, InsertFacts
<1>6. ASSUME NEW e, NEW f, Before(queue', e, f) PROVE e.id # f.id
  <2>1. CASE Before(queue, e, f)
    BY <1>1, <2>1, DistinctBefore
  <2>2. CASE e = ev /\ f \in Range(queue)
    BY <1>3, <1>4, <2>2
  <2>3. CASE f = ev /\ e \in Range(queue)
    BY <1>3, <1>4, <2>3
  <2> QED
    BY <1>5, <1>6, <2>1, <2>2, <2>3
<1>7. Distinct(queue')
  BY <1>5, <1>6, DistinctBefore
<1> QED
  BY <1>1, <1>3, <1>5, <1>7 DEF ev

(* Scheduling an event, by whichever thread, preserves the invariant.      *)
LEMMA SchedulePreserves ==
    ASSUME TypeOK, QueueInv, NEW type \in EventTypes \ {"END"},
           NEW time \in Nat, Schedule(type, time),
           UNCHANGED <<main, des, des_ev, cont, cur_ev, handled>>
    PROVE  QueueInv'
<1> DEFINE ev == NewEvent(type, time)
<1>1. /\ ev \in Event /\ ev.id = next_id /\ ev.type # "END"
      /\ Queued' = Queued \union {ev}
      /\ Sorted(queue') /\ Distinct(queue')
  BY ScheduleFacts DEF QueueInv, Queued
<1>2. next_id' = next_id + 1 /\ next_id \in Nat \ {0}
  BY DEF Schedule, TypeOK
<1>3. handled \subseteq 1..(next_id - 1)
  BY DEF QueueInv, AllInv
<1>4. \A e \in Queued : e.id \in Nat
  BY RangeOfQueue, EventFields DEF TypeOK, Queued
<1> HIDE DEF ev
<1>5. OrderInv'
  <2>1. ASSUME NEW e \in Queued \union {ev}
        PROVE  /\ e.id < next_id + 1 /\ e.id \notin handled
               /\ e.type = "END" \/ e.id = 0 => e = EndEvent /\ main # "setup"
    <3>1. CASE e = ev
      BY <1>1, <1>2, <1>3, <3>1
    <3>2. CASE e \in Queued
      BY <1>2, <1>4, <3>2 DEF QueueInv, OrderInv
    <3> QED
      BY <3>1, <3>2
  <2> QED
    BY <1>1, <1>2, <2>1 DEF OrderInv, EndEvent
<1>6. HandInv'
  <2>1. des \in {"account", "handle"} =>
          des_ev.id \in Nat /\ des_ev.id < next_id
    BY EventFields DEF QueueInv, HandInv
  <2> QED
    BY <1>1, <1>2, <2>1 DEF QueueInv, HandInv, EndEvent
<1>7. EndInv' /\ CurInv'
  BY <1>1 DEF QueueInv, EndInv, CurInv, EndEvent
<1>8. AllInv'
  <2>1. InHand' = InHand
    BY DEF InHand
  <2>2. handled' \subseteq 1..(next_id' - 1)
    BY <1>2, <1>3
  <2>3. ASSUME NEW n \in 1..(next_id' - 1)
        PROVE  n \in handled' \/ \E e \in (Queued \union InHand)' : e.id = n
    <3>1. CASE n = next_id
      BY <1>1, <3>1
    <3>2. CASE n \in 1..(next_id - 1)
      BY <1>1, <2>1, <3>2 DEF QueueInv, AllInv
    <3> QED
      BY <1>2, <3>1, <3>2
  <2> QED
    BY <2>2, <2>3 DEF AllInv
<1> QED
  BY <1>5, <1>6, <1>7, <1>8 DEF QueueInv

(* What a handler schedules keeps the queue invariant.                     *)
LEMMA ScheduleForPreserves ==
    ASSUME TypeOK, QueueInv, NEW ev, ScheduleFor(ev),
           UNCHANGED <<main, des, des_ev, cont, cur_ev, handled>>
    PROVE  QueueInv'
<1>1. PICK type \in {"DP", "OUT"}, time \in 0..Horizon : Schedule(type, time)
  BY DEF ScheduleFor
<1>2. type \in EventTypes \ {"END"} /\ time \in Nat
  BY ConstantsAssumption DEF EventTypes
<1> QED
  BY <1>1, <1>2, SchedulePreserves

(* The empty queue of scheduler_new has the queue invariant.               *)
LEMMA QueueInit == Init => QueueInv
<1> SUFFICES ASSUME Init PROVE QueueInv
  OBVIOUS
<1>1. queue = <<>> /\ Queued = {} /\ InHand = {}
  BY DEF Init, Queued, Range, InHand
<1>2. OrderInv
  BY <1>1 DEF OrderInv, Sorted, Distinct
<1>3. HandInv /\ EndInv /\ CurInv
  BY DEF Init, HandInv, EndInv, CurInv
<1>4. AllInv
  BY DEF Init, AllInv
<1> QED
  BY <1>2, <1>3, <1>4 DEF QueueInv

(* A step that leaves the queue alone, and whatever des holds.             *)
LEMMA QuietStep ==
    ASSUME QueueInv, UNCHANGED <<queue, main, des_ev, next_id, handled>>,
           \/ des' = des
           \/ /\ des \notin {"account", "handle", "shutdown", "done"}
              /\ des' \notin {"account", "handle"},
           \/ cont' = cont /\ cur_ev' = cur_ev
           \/ cont' \notin {"advance", "loop", "handle"}
           \/ cont = "advance" /\ cont' = "loop" /\ cur_ev' = cur_ev
           \/ cont = "loop" /\ cont' = "handle" /\ cur_ev' = cur_ev
              /\ cur_ev.type # "END"
    PROVE  QueueInv'
<1>1. Queued' = Queued /\ InHand' = InHand
  BY DEF Queued, InHand
<1>2. OrderInv' /\ AllInv'
  BY <1>1 DEF QueueInv, OrderInv, AllInv, EndEvent
<1>3. HandInv' /\ EndInv'
  BY <1>1 DEF QueueInv, HandInv, EndInv, EndEvent
<1>4. CurInv'
  BY <1>1 DEF QueueInv, CurInv
<1> QED
  BY <1>2, <1>3, <1>4 DEF QueueInv

(* Every step of every thread keeps the queue invariant.                   *)
LEMMA QueueNext == TypeOK /\ Turn /\ QueueInv /\ [Next]_vars => QueueInv'
<1> SUFFICES ASSUME TypeOK, Turn, QueueInv, [Next]_vars PROVE QueueInv'
  OBVIOUS
<1> USE DEF schVars, statVars, contVars, timerVars, cbVars, histVars
<1>0. /\ queue \in Seq(Event) /\ Sorted(queue) /\ Distinct(queue)
      /\ next_id \in Nat \ {0}
      /\ Queued \subseteq Event
      /\ \A e \in Queued : e.id \in Nat /\ e.id < next_id
  BY RangeOfQueue, EventFields DEF TypeOK, QueueInv, OrderInv, Queued
<1>1. CASE MainSetupApp
  <2>1. PICK time \in 0..Horizon : Schedule("DP", time)
    BY <1>1 DEF MainSetupApp
  <2>2. time \in Nat /\ "DP" \in EventTypes \ {"END"}
    BY ConstantsAssumption DEF EventTypes
  <2> QED
    BY <1>1, <2>1, <2>2, SchedulePreserves DEF MainSetupApp
<1>2. CASE MainInsertEnd
  <2>1. EndEvent \in Event /\ EndEvent.id = 0 /\ EndEvent.type = "END"
    BY ConstantsAssumption DEF EndEvent, Event, EventTypes
  <2>2. \A e \in Queued : e.type # "END" /\ e.id # 0
    BY <1>2 DEF MainInsertEnd, QueueInv, OrderInv
  <2>3. /\ queue' \in Seq(Event) /\ Queued' = Queued \union {EndEvent}
        /\ Sorted(queue')
        /\ \A e, f : Before(queue', e, f) =>
              \/ Before(queue, e, f)
              \/ e = EndEvent /\ f \in Queued
              \/ f = EndEvent /\ e \in Queued
    <3>1. queue' = scheduler_insert(queue, EndEvent)
      BY <1>2 DEF MainInsertEnd
    <3>2. Range(queue') = Range(queue) \union {EndEvent}
      BY <1>0, <2>1, <3>1, InsertFacts
    <3>3. queue' \in Seq(Event) /\ Sorted(queue')
      BY <1>0, <2>1, <3>1, InsertFacts
    <3>4. \A e, f : Before(queue', e, f) =>
              \/ Before(queue, e, f)
              \/ e = EndEvent /\ f \in Range(queue)
              \/ f = EndEvent /\ e \in Range(queue)
      BY <1>0, <2>1, <3>1, InsertFacts
    <3> QED
      BY <3>2, <3>3, <3>4 DEF Queued
  <2>4. Distinct(queue')
    <3>1. ASSUME NEW e, NEW f, Before(queue', e, f) PROVE e.id # f.id
      <4>1. CASE Before(queue, e, f)
        BY <1>0, <4>1, DistinctBefore
      <4>2. CASE \/ e = EndEvent /\ f \in Queued
                 \/ f = EndEvent /\ e \in Queued
        BY <2>1, <2>2, <4>2
      <4> QED
        BY <2>3, <3>1, <4>1, <4>2
    <3> QED
      BY <2>3, <3>1, DistinctBefore
  <2>5. main = "setup" /\ main' # "setup" /\ des = "unborn" /\ cont = "unborn"
    BY <1>2 DEF MainInsertEnd, Turn
  <2>6. UNCHANGED <<des, des_ev, cont, cur_ev, next_id, handled>>
    BY <1>2 DEF MainInsertEnd
  <2>7. 0 \notin handled
    BY DEF QueueInv, AllInv
  <2>8. OrderInv'
    BY <1>0, <2>1, <2>3, <2>4, <2>5, <2>6, <2>7
       DEF QueueInv, OrderInv, EndEvent
  <2>9. HandInv' /\ EndInv' /\ CurInv'
    BY <2>3, <2>5, <2>6 DEF HandInv, EndInv, CurInv, EndEvent
  <2>10. AllInv'
    BY <2>3, <2>5, <2>6 DEF QueueInv, AllInv, InHand
  <2> QED
    BY <2>8, <2>9, <2>10 DEF QueueInv
<1>3. CASE MainStartTimer \/ MainGetTime \/ MainCreateDes
  <2>1. main # "setup" /\ main' # "setup"
    BY <1>3 DEF MainStartTimer, MainGetTime, MainCreateDes
  <2>2. UNCHANGED <<queue, des_ev, next_id, handled, cur_ev>>
    BY <1>3 DEF MainStartTimer, MainGetTime, MainCreateDes
  <2>3. /\ des' = des \/ (des = "unborn" /\ des' = "test")
        /\ cont' = cont \/ cont' = "sem"
    BY <1>3 DEF MainStartTimer, MainGetTime, MainCreateDes, Turn
  <2>4. Queued' = Queued /\ InHand' = InHand
    BY <2>2, <2>3 DEF Queued, InHand
  <2>5. OrderInv' /\ AllInv'
    BY <2>1, <2>2, <2>4 DEF QueueInv, OrderInv, AllInv, EndEvent
  <2>6. HandInv' /\ EndInv' /\ CurInv'
    BY <2>1, <2>2, <2>3, <2>4 DEF QueueInv, HandInv, EndInv, CurInv, EndEvent
  <2> QED
    BY <2>5, <2>6 DEF QueueInv
<1>4. CASE DesTestMode \/ DesSpuriousWakeup
  BY <1>4, QuietStep DEF DesTestMode, DesSpuriousWakeup
<1>5. CASE DesDispatch
  <2> DEFINE h == scheduler_retrieve(queue)
  <2>1. /\ queue # <<>> /\ des = "dispatch" /\ des' = "account" /\ des_ev' = h
        /\ UNCHANGED <<main, cont, cur_ev, next_id, handled>>
    BY <1>5 DEF DesDispatch
  <2>2. h \in Queued
    BY <1>0, <2>1, HeadFacts DEF Queued
  <2>3. /\ queue' \in Seq(Event) /\ Sorted(queue') /\ Queued' = Queued \ {h}
        /\ \A e, f : Before(queue', e, f) => Before(queue, e, f)
    BY <1>0, <1>5, <2>1, DispatchFacts DEF DesDispatch, Thinned, Queued
  <2>4. Distinct(queue')
    BY <1>0, <2>3, DistinctBefore
  <2> HIDE DEF h
  <2>5. main = "join" /\ ~ContRuns
    BY <2>1 DEF Turn, DesRuns
  <2>6. OrderInv'
    BY <2>1, <2>3, <2>4 DEF QueueInv, OrderInv, EndEvent
  <2>7. \A e \in Queued : e.id = h.id => e = h
    <3> SUFFICES ASSUME NEW e \in Queued, e.id = h.id PROVE e = h
      OBVIOUS
    <3>1. PICK i \in 1..Len(queue) : queue[i] = e
      BY <1>0 DEF Queued, Range
    <3>2. PICK j \in 1..Len(queue) : queue[j] = h
      BY <1>0, <2>2 DEF Queued, Range
    <3> QED
      BY <1>0, <3>1, <3>2 DEF Distinct
  <2>8. HandInv'
    BY <1>0, <2>1, <2>2, <2>3, <2>7 DEF QueueInv, OrderInv, HandInv, EndEvent
  <2>9. EndInv'
    BY <2>1, <2>3, <2>5 DEF QueueInv, EndInv, EndEvent
  <2>10. CurInv'
    BY <2>1, <2>5 DEF CurInv, ContRuns
  <2>11. AllInv'
    <3>1. (Queued \union InHand)' = Queued /\ InHand = {}
      BY <2>1, <2>2, <2>3 DEF InHand
    <3> QED
      BY <2>1, <3>1 DEF QueueInv, AllInv
  <2> QED
    BY <2>6, <2>8, <2>9, <2>10, <2>11 DEF QueueInv
<1>6. CASE DesAccount
  <2>1. /\ des = "account" /\ UNCHANGED <<queue, main, des_ev, cont, cur_ev>>
        /\ UNCHANGED <<next_id, handled>>
        /\ des' = IF des_ev.type = "END" THEN "shutdown" ELSE "handle"
    BY <1>6 DEF DesAccount
  <2>2. Queued' = Queued
    BY <2>1 DEF Queued
  <2>3. OrderInv' /\ CurInv'
    BY <2>1, <2>2 DEF QueueInv, OrderInv, CurInv, EndEvent
  <2>4. HandInv' /\ EndInv'
    BY <2>1, <2>2 DEF QueueInv, HandInv, EndInv, EndEvent
  <2>5. AllInv'
    <3>1. CASE des_ev.type = "END"
      <4>1. des_ev.id = 0 /\ InHand = {des_ev} /\ InHand' = {}
        BY <2>1, <3>1 DEF QueueInv, HandInv, EndEvent, InHand
      <4> QED
        BY <2>1, <2>2, <4>1 DEF QueueInv, AllInv
    <3>2. CASE des_ev.type # "END"
      <4>1. InHand' = InHand
        BY <2>1, <3>2 DEF InHand
      <4> QED
        BY <2>1, <2>2, <4>1 DEF QueueInv, AllInv
    <3> QED
      BY <3>1, <3>2
  <2> QED
    BY <2>3, <2>4, <2>5 DEF QueueInv
<1>7. CASE DesSchedule
  BY <1>7, ScheduleForPreserves DEF DesSchedule
<1>8. CASE DesHandled
  <2>1. /\ des = "handle" /\ UNCHANGED <<queue, main, cont, cur_ev, next_id>>
        /\ des' \in {"switch", "test"} /\ handled' = handled \union {des_ev.id}
    BY <1>8 DEF DesHandled
  <2>2. /\ Queued' = Queued /\ InHand = {des_ev} /\ InHand' = {}
        /\ des_ev \in Event /\ des_ev.id # 0 /\ des_ev.id < next_id
        /\ \A e \in Queued : e.id # des_ev.id
    BY <2>1 DEF Queued, InHand, QueueInv, HandInv, EndEvent
  <2>3. OrderInv' /\ CurInv' /\ HandInv' /\ EndInv'
    BY <2>1, <2>2 DEF QueueInv, OrderInv, CurInv, HandInv, EndInv, EndEvent
  <2>4. AllInv'
    <3>1. des_ev.id \in 1..(next_id - 1)
      BY <1>0, <2>2, EventFields
    <3>2. handled' \subseteq 1..(next_id' - 1)
      <4> DEFINE given == 1..(next_id - 1)
      <4>1. handled \subseteq given /\ des_ev.id \in given
        BY <3>1 DEF QueueInv, AllInv
      <4>2. given = 1..(next_id' - 1)
        BY <2>1
      <4>3. handled' = handled \union {des_ev.id}
        BY <2>1
      <4> HIDE DEF given
      <4>4. handled' \subseteq given
        BY <4>1, <4>3
      <4> QED
        BY <4>2, <4>4
    <3>3. ASSUME NEW n \in 1..(next_id - 1)
          PROVE  n \in handled' \/ \E e \in (Queued \union InHand)' : e.id = n
      <4>1. n \in handled \/ \E e \in Queued \union {des_ev} : e.id = n
        BY <2>2 DEF QueueInv, AllInv
      <4> QED
        BY <2>1, <2>2, <4>1
    <3> QED
      BY <2>1, <3>2, <3>3 DEF AllInv
  <2> QED
    BY <2>3, <2>4 DEF QueueInv
<1>9. CASE DesSwitch \/ DesShutdown
  <2>1. /\ UNCHANGED <<queue, main, cur_ev, next_id, handled>>
        /\ \/ des = "switch" /\ des' = "test"
           \/ des = "shutdown" /\ des' = "done"
        /\ cont' = cont \/ cont' = "test"
    BY <1>9 DEF DesSwitch, DesShutdown
  <2>2. Queued' = Queued /\ InHand = {} /\ InHand' = {}
    BY <2>1 DEF Queued, InHand
  <2>3. OrderInv' /\ AllInv'
    BY <2>1, <2>2 DEF QueueInv, OrderInv, AllInv, EndEvent
  <2>4. CurInv' /\ HandInv' /\ EndInv'
    BY <2>1, <2>2 DEF QueueInv, CurInv, HandInv, EndInv, EndEvent
  <2> QED
    BY <2>3, <2>4 DEF QueueInv
<1>10. CASE ContSemWait \/ ContCancel \/ ContTestMode \/ ContSpuriousWakeup
  BY <1>10, QuietStep
     DEF ContSemWait, ContCancel, ContTestMode, ContSpuriousWakeup
<1>11. CASE ContAdvance \/ ContNotDue
  BY <1>11, QuietStep DEF ContAdvance, ContNotDue
<1>12. CASE ContDue
  BY <1>12, QuietStep DEF ContDue
<1>13. CASE ContIdle
  BY <1>13, QuietStep DEF ContIdle
<1>14. CASE ContRead
  <2>1. /\ queue # <<>> /\ UNCHANGED <<queue, main, des, des_ev>>
        /\ UNCHANGED <<next_id, handled>>
        /\ cont' = "advance" /\ cur_ev' = scheduler_retrieve(queue)
    BY <1>14 DEF ContRead
  <2>2. cur_ev' \in Queued /\ Queued' = Queued /\ InHand' = InHand
    BY <1>0, <2>1, HeadFacts DEF Queued, InHand
  <2>3. OrderInv' /\ AllInv'
    BY <2>1, <2>2 DEF QueueInv, OrderInv, AllInv, EndEvent
  <2>4. CurInv' /\ HandInv' /\ EndInv'
    BY <2>1, <2>2 DEF QueueInv, CurInv, HandInv, EndInv, EndEvent
  <2> QED
    BY <2>3, <2>4 DEF QueueInv
<1>15. CASE ContSchedule
  BY <1>15, ScheduleForPreserves DEF ContSchedule
<1>16. CASE ContHandled
  <2>1. /\ cont = "handle" /\ cont' = "loop" /\ queue' # <<>>
        /\ UNCHANGED <<main, des, des_ev, next_id>>
        /\ handled' = handled \union {cur_ev.id}
        /\ queue' = scheduler_delete(queue, cur_ev)
        /\ cur_ev' = scheduler_retrieve(queue')
    BY <1>16 DEF ContHandled
  <2>2. cur_ev \in Queued /\ cur_ev.type # "END" /\ cur_ev.id # 0
    BY <2>1 DEF QueueInv, CurInv, OrderInv, EndEvent
  <2>3. /\ queue' \in Seq(Event) /\ Sorted(queue') /\ Queued' = Queued \ {cur_ev}
        /\ \A e, f : Before(queue', e, f) => Before(queue, e, f)
    BY <1>0, <2>1, <2>2, DeleteFacts DEF Thinned, Queued
  <2>4. Distinct(queue')
    BY <1>0, <2>3, DistinctBefore
  <2>5. ~DesRuns
    BY <2>1 DEF Turn, ContRuns
  <2>6. \A e \in Queued : e.id = cur_ev.id => e = cur_ev
    <3> SUFFICES ASSUME NEW e \in Queued, e.id = cur_ev.id PROVE e = cur_ev
      OBVIOUS
    <3>1. PICK i \in 1..Len(queue) : queue[i] = e
      BY <1>0 DEF Queued, Range
    <3>2. PICK j \in 1..Len(queue) : queue[j] = cur_ev
      BY <1>0, <2>2 DEF Queued, Range
    <3> QED
      BY <1>0, <3>1, <3>2 DEF Distinct
  <2>7. OrderInv'
    BY <2>1, <2>3, <2>4, <2>6 DEF QueueInv, OrderInv, EndEvent
  <2>8. HandInv' /\ EndInv'
    <3>1. HandInv'
      BY <2>1, <2>5 DEF HandInv, DesRuns
    <3>2. cur_ev # EndEvent
      BY <2>1 DEF QueueInv, CurInv, EndEvent
    <3>3. EndInv'
      BY <2>1, <2>3, <2>5, <3>2 DEF QueueInv, EndInv, DesRuns
    <3> QED
      BY <3>1, <3>3
  <2>9. CurInv'
    BY <2>1, <2>3, HeadFacts DEF CurInv, Queued
  <2>10. AllInv'
    <3>1. InHand = {} /\ InHand' = {}
      BY <2>1, <2>5 DEF InHand, DesRuns
    <3>2. cur_ev.id \in 1..(next_id - 1)
      BY <1>0, <2>2
    <3>3. handled' \subseteq 1..(next_id' - 1)
      <4> DEFINE given == 1..(next_id - 1)
      <4>1. handled \subseteq given /\ cur_ev.id \in given
        BY <3>2 DEF QueueInv, AllInv
      <4>2. given = 1..(next_id' - 1)
        BY <2>1
      <4>3. handled' = handled \union {cur_ev.id}
        BY <2>1
      <4> HIDE DEF given
      <4>4. handled' \subseteq given
        BY <4>1, <4>3
      <4> QED
        BY <4>2, <4>4
    <3>4. ASSUME NEW n \in 1..(next_id - 1)
          PROVE  n \in handled' \/ \E e \in (Queued \union InHand)' : e.id = n
      <4>1. n \in handled \/ \E e \in Queued : e.id = n
        BY <3>1 DEF QueueInv, AllInv
      <4> QED
        BY <2>1, <2>3, <3>1, <4>1
    <3> QED
      BY <2>1, <3>3, <3>4 DEF AllInv
  <2> QED
    BY <2>7, <2>8, <2>9, <2>10 DEF QueueInv
<1>17. ASSUME NEW c \in Callbacks, CbStamp(c) PROVE QueueInv'
  BY <1>17, QuietStep DEF CbStamp
<1>18. ASSUME NEW c \in Callbacks, CbInsert(c) PROVE QueueInv'
  <2>1. stamp[c] \in Nat /\ "IN" \in EventTypes \ {"END"}
    BY DEF TypeOK, EventTypes
  <2> QED
    BY <1>18, <2>1, SchedulePreserves DEF CbInsert
<1>19. CASE Tick
  BY <1>19, QuietStep DEF Tick
<1>20. CASE UNCHANGED vars
  BY <1>20, QuietStep DEF vars
<1> QED
  BY <1>1, <1>2, <1>3, <1>4, <1>5, <1>6, <1>7, <1>8, <1>9, <1>10, <1>11,
     <1>12, <1>13, <1>14, <1>15, <1>16, <1>17, <1>18, <1>19, <1>20
     DEF Next, MainNext, DesNext, ContNext

(* The queue, the event each thread holds, EVENT_END and the events        *)
(* already handled stay consistent with each other.                        *)
THEOREM QueueInvariant == Spec => []QueueInv
BY TypeCorrect, TurnInvariant, QueueInit, QueueNext, PTL DEF Spec

(* No event is lost and none is run twice, over both modes.                *)
THEOREM EachEventOnceHolds == Spec => []EachEventOnce
<1>1. TypeOK /\ QueueInv => EachEventOnce
  <2> SUFFICES ASSUME TypeOK, QueueInv PROVE EachEventOnce
    OBVIOUS
  <2> DEFINE pending == {e.id : e \in Queued \union InHand} \ {0}
             given == 1..(next_id - 1)
  <2>1. ASSUME NEW e \in Queued \union InHand
        PROVE  /\ e \in Event /\ e.id \in Nat /\ e.id < next_id
               /\ e.id \notin handled
    <3>1. CASE e \in Queued
      <4>1. e \in Event
        BY <3>1, RangeOfQueue DEF TypeOK, Queued
      <4> QED
        BY <3>1, <4>1, EventFields DEF QueueInv, OrderInv
    <3>2. CASE e \in InHand
      <4>1. e = des_ev /\ des \in {"account", "handle"}
        BY <3>2 DEF InHand
      <4> QED
        BY <4>1, EventFields DEF QueueInv, HandInv
    <3> QED
      BY <3>1, <3>2
  <2>2. \A n \in pending : n \in given /\ n \notin handled
    <3> TAKE n \in pending
    <3>1. PICK e \in Queued \union InHand : n = e.id /\ n # 0
      OBVIOUS
    <3> QED
      BY <2>1, <3>1 DEF TypeOK
  <2>3. handled \subseteq given
    BY DEF QueueInv, AllInv
  <2>4. \A n \in given : n \in handled \/ n \in pending
    <3> TAKE n \in given
    <3>1. n # 0
      BY DEF TypeOK
    <3>2. n \in handled \/ \E e \in Queued \union InHand : e.id = n
      BY DEF QueueInv, AllInv
    <3> QED
      BY <3>1, <3>2
  <2> HIDE DEF pending, given
  <2>5. pending \intersect handled = {} /\ pending \union handled = given
    BY <2>2, <2>3, <2>4
  <2>6. Distinct(queue)
    BY DEF QueueInv, OrderInv
  <2>7. \A e \in InHand : e \notin Queued
    BY DEF InHand, QueueInv, HandInv
  <2> QED
    BY <2>5, <2>6, <2>7 DEF EachEventOnce, pending, given
<1> QED
  BY <1>1, TypeCorrect, QueueInvariant, PTL

(* The head of the queue is there wherever it is used untested, and the    *)
(* event that cont_mode keeps in cur_ev is never taken from it.            *)
THEOREM HeadNeverNullHolds == Spec => [](HeadNeverNull /\ CurEvQueued)
<1>1. TypeOK /\ Turn /\ QueueInv => HeadNeverNull /\ CurEvQueued
  <2> SUFFICES ASSUME TypeOK, Turn, QueueInv PROVE HeadNeverNull /\ CurEvQueued
    OBVIOUS
  <2>1. ASSUME des = "dispatch" \/ cont \in {"read", "handle"}
        PROVE  EndEvent \in Queued
    BY <2>1 DEF Turn, DesRuns, ContRuns, QueueInv, EndInv
  <2>2. ASSUME NEW e \in Queued PROVE queue # <<>>
    BY DEF Queued, Range
  <2>3. ASSUME cont = "handle" PROVE Len(queue) > 1
    <3>1. cur_ev \in Queued /\ EndEvent \in Queued /\ cur_ev # EndEvent
      BY <2>1, <2>3 DEF QueueInv, CurInv, EndEvent
    <3>2. queue \in Seq(Event) /\ Len(queue) \in Nat
      BY DEF TypeOK
    <3>3. PICK i \in 1..Len(queue) : queue[i] = cur_ev
      BY <3>1, <3>2 DEF Queued, Range
    <3>4. PICK j \in 1..Len(queue) : queue[j] = EndEvent
      BY <3>1, <3>2 DEF Queued, Range
    <3>5. i # j
      BY <3>1, <3>3, <3>4
    <3> QED
      BY <3>2, <3>5
  <2> QED
    BY <2>1, <2>2, <2>3 DEF HeadNeverNull, CurEvQueued, QueueInv, CurInv
<1> QED
  BY <1>1, TypeCorrect, TurnInvariant, QueueInvariant, PTL

(* The event that cont_mode keeps in cur_ev across a handler is never      *)
(* taken from the queue, although callbacks insert meanwhile.              *)
THEOREM CurEvQueuedHolds == Spec => []CurEvQueued
<1> QED
  BY HeadNeverNullHolds, PTL

(* The list is in the order of time, so that searching it from the front   *)
(* is searching it in that order.                                          *)
THEOREM QueueSortedHolds == Spec => []QueueSorted
<1>1. QueueInv => QueueSorted
  BY DEF QueueInv, OrderInv, QueueSorted
<1> QED
  BY <1>1, QueueInvariant, PTL
=============================================================================

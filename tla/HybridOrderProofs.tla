------------------------- MODULE HybridOrderProofs --------------------------
(***************************************************************************)
(* Proofs about the order in which HybridSim runs events, its clock and    *)
(* reports, and the event loop that it implements.                         *)
(***************************************************************************)
EXTENDS HybridSimProofs

(* Whatever waits from before t is a message that a callback put there.    *)
LateOnly(q, t) == \A e \in Range(q) : e.time < t => e.type = "IN"

(* No event of the data plane in front of EVENT_END is from before t.      *)
AheadFrom(q, t) ==
    \A e, f \in Range(q) :
        Before(q, e, f) /\ f.type = "END" /\ e.type \in {"DP", "OUT"}
            => t <= e.time

(* Only messages are in front of ev.                                       *)
FrontIsIn(q, ev) == \A e \in Range(q) : Before(q, e, ev) => e.type = "IN"

(* The event a thread holds is due before the end, and only messages can   *)
(* be in front of it.                                                      *)
HeldInv ==
    /\ cont \in {"advance", "loop", "handle"} =>
          cur_ev.time <= EndTime /\ LateOnly(queue, cur_ev.time)
    /\ cont \in {"advance", "loop"} => FrontIsIn(queue, cur_ev)
    /\ des \in {"account", "handle"} => des_ev.time <= EndTime
    /\ des = "account" => LateOnly(queue, des_ev.time)
    /\ des \in {"shutdown", "done"} => LateOnly(queue, EndTime)

(* Whenever des may take the next event, no event of the data plane that   *)
(* it can take is behind the clock.                                        *)
ClockInv ==
    /\ mode = "FTI" => last_ctrl <= clock
    /\ des = "handle" => clock = des_ev.time
    /\ mode = "DES" /\ des \notin {"account", "shutdown", "done"} =>
          AheadFrom(queue, clock)
    /\ cont = "idle" => AheadFrom(queue, clock)
    /\ des = "account" /\ des_ev.type # "END" => AheadFrom(queue, des_ev.time)
    /\ des = "account" /\ des_ev.type \in {"DP", "OUT"} =>
          clock <= des_ev.time

(* Scheduling an event that is a message, or not before t, keeps the order *)
(* with respect to t.                                                      *)
LEMMA ScheduleOrder ==
    ASSUME TypeOK, OrderInv, NEW type \in EventTypes \ {"END"},
           NEW time \in Nat, Schedule(type, time),
           NEW t \in Nat, type = "IN" \/ t <= time
    PROVE  /\ LateOnly(queue, t) => LateOnly(queue', t)
           /\ AheadFrom(queue, t) => AheadFrom(queue', t)
<1> DEFINE ev == NewEvent(type, time)
<1>1. /\ Range(queue') = Range(queue) \union {ev}
      /\ \A e, f : Before(queue', e, f) =>
            \/ Before(queue, e, f)
            \/ e = ev /\ f \in Range(queue)
            \/ f = ev /\ e \in Range(queue)
  BY ScheduleFacts
<1>2. ev.type = type /\ ev.time = time /\ type # "END"
  BY DEF NewEvent
<1> HIDE DEF ev
<1>3. ASSUME LateOnly(queue, t) PROVE LateOnly(queue', t)
  BY <1>1, <1>2, <1>3 DEF LateOnly
<1>4. ASSUME AheadFrom(queue, t) PROVE AheadFrom(queue', t)
  <2> SUFFICES ASSUME NEW e \in Range(queue'), NEW f \in Range(queue'),
                      Before(queue', e, f), f.type = "END",
                      e.type \in {"DP", "OUT"}
               PROVE  t <= e.time
    BY DEF AheadFrom
  <2>1. f # ev /\ f \in Range(queue)
    BY <1>1, <1>2
  <2>2. CASE e = ev
    BY <1>2, <2>2
  <2>3. CASE e # ev
    <3>1. e \in Range(queue) /\ Before(queue, e, f)
      BY <1>1, <2>1, <2>3
    <3> QED
      BY <1>4, <2>1, <3>1 DEF AheadFrom
  <2> QED
    BY <2>2, <2>3
<1> QED
  BY <1>3, <1>4

(* A message in front of ev changes nothing for ev.                        *)
LEMMA ScheduleFront ==
    ASSUME TypeOK, OrderInv, NEW time \in Nat, Schedule("IN", time),
           NEW ev \in Queued, FrontIsIn(queue, ev)
    PROVE  FrontIsIn(queue', ev)
<1> DEFINE new == NewEvent("IN", time)
<1>0. "IN" \in EventTypes
  BY DEF EventTypes
<1>1. /\ Range(queue') = Range(queue) \union {new}
      /\ \A e, f : Before(queue', e, f) =>
            \/ Before(queue, e, f)
            \/ e = new /\ f \in Range(queue)
            \/ f = new /\ e \in Range(queue)
  BY <1>0, ScheduleFacts
<1>2. ev # new
  <2>1. ev \in Event /\ ev.id < next_id
    BY RangeOfQueue DEF TypeOK, OrderInv, Queued
  <2>2. new.id = next_id /\ next_id \in Nat /\ ev.id \in Nat
    BY <2>1, EventFields DEF TypeOK, NewEvent
  <2> QED
    BY <2>1, <2>2
<1>3. new.type = "IN"
  BY DEF NewEvent
<1> HIDE DEF new
<1> QED
  BY <1>1, <1>2, <1>3 DEF FrontIsIn

(* The first event of the queue: nothing is in front of it or before it.   *)
LEMMA HeadOrder ==
    ASSUME NEW q \in Seq(Event), Sorted(q), Distinct(q), EndEvent \in Range(q)
    PROVE  LET h == scheduler_retrieve(q)
           IN  /\ h \in Event /\ h.time <= EndTime
               /\ LateOnly(q, h.time) /\ FrontIsIn(q, h)
<1> DEFINE h == scheduler_retrieve(q)
<1>1. q # <<>>
  BY DEF Range
<1>2. h \in Event /\ (\A f \in Range(q) : h.time <= f.time)
      /\ \A e : ~Before(q, e, h)
  BY <1>1, HeadFacts
<1> HIDE DEF h
<1>3. \A f \in Range(q) : f.time \in Nat /\ h.time \in Nat
  BY <1>2, RangeOfQueue, EventFields
<1>4. LateOnly(q, h.time)
  BY <1>2, <1>3 DEF LateOnly
<1>5. FrontIsIn(q, h)
  BY <1>2 DEF FrontIsIn
<1>6. h.time <= EndTime
  <2>1. EndEvent.time = EndTime
    BY DEF EndEvent
  <2> QED
    BY <1>2, <2>1
<1> QED
  BY <1>2, <1>4, <1>5, <1>6 DEF h

(* Taking events out of the queue does not disturb the order of the        *)
(* others.                                                                 *)
LEMMA ThinnedOrder ==
    ASSUME NEW q, NEW r, Thinned(r, q), NEW t
    PROVE  /\ LateOnly(q, t) => LateOnly(r, t)
           /\ AheadFrom(q, t) => AheadFrom(r, t)
BY DEF Thinned, LateOnly, AheadFrom

(* A step that leaves queue, clock and what the threads hold alone.        *)
LEMMA IdleStep ==
    ASSUME HeldInv, ClockInv,
           UNCHANGED <<queue, clock, last_ctrl, mode>>,
           \/ UNCHANGED <<des, des_ev>>
           \/ /\ des \notin {"account", "shutdown", "done"}
              /\ des' \notin {"account", "handle", "shutdown", "done"},
           \/ UNCHANGED <<cont, cur_ev>>
           \/ cont' \notin {"advance", "loop", "handle", "idle"}
    PROVE  HeldInv' /\ ClockInv'
<1>1. HeldInv'
  BY DEF HeldInv
<1>2. ClockInv'
  BY DEF ClockInv
<1> QED
  BY <1>1, <1>2

(* The order invariants hold when sim_init starts.                         *)
LEMMA OrderInit == Init => HeldInv /\ ClockInv
BY DEF Init, HeldInv, ClockInv

(* Every step of every thread keeps the order invariants.                  *)
LEMMA OrderNext ==
    TypeOK /\ TypeOK' /\ Turn /\ QueueInv /\ QueueInv' /\ HeldInv /\ ClockInv
        /\ [Next]_vars => HeldInv' /\ ClockInv'
<1> SUFFICES ASSUME TypeOK, TypeOK', Turn, QueueInv, QueueInv', HeldInv,
                    ClockInv, [Next]_vars
             PROVE  HeldInv' /\ ClockInv'
  OBVIOUS
<1> USE DEF schVars, statVars, contVars, timerVars, cbVars, histVars
<1>0. /\ queue \in Seq(Event) /\ Sorted(queue) /\ Distinct(queue)
      /\ clock \in Nat /\ last_ctrl \in Nat /\ EndTime \in Nat
      /\ OrderInv
  BY ConstantsAssumption DEF TypeOK, QueueInv, OrderInv
<1>1. CASE MainSetupApp \/ MainInsertEnd
  <2>1. des' = "unborn" /\ cont' = "unborn" /\ mode' = "FTI" /\ mode = "FTI"
        /\ UNCHANGED <<clock, last_ctrl>>
    BY <1>1 DEF MainSetupApp, MainInsertEnd, Turn
  <2> QED
    BY <2>1 DEF HeldInv, ClockInv
<1>2. CASE MainStartTimer \/ MainGetTime \/ MainCreateDes
  <2>1. CASE MainStartTimer
    BY <2>1, IdleStep DEF MainStartTimer
  <2>2. CASE MainGetTime
    BY <2>2, IdleStep DEF MainGetTime
  <2>3. CASE MainCreateDes
    BY <2>3, IdleStep DEF MainCreateDes, Turn
  <2> QED
    BY <1>2, <2>1, <2>2, <2>3
<1>3. CASE DesTestMode \/ DesSpuriousWakeup
  BY <1>3, IdleStep DEF DesTestMode, DesSpuriousWakeup
<1>4. CASE DesDispatch
  <2> DEFINE h == scheduler_retrieve(queue)
  <2>1. /\ queue # <<>> /\ des = "dispatch" /\ des' = "account" /\ des_ev' = h
        /\ UNCHANGED <<clock, mode, last_ctrl, cont>>
    BY <1>4 DEF DesDispatch
  <2>2. mode = "DES" /\ ~ContRuns /\ EndEvent \in Range(queue)
    BY <2>1 DEF Turn, DesRuns, QueueInv, EndInv, Queued
  <2>3. /\ h \in Event /\ h \in Range(queue) /\ h.time <= EndTime
        /\ LateOnly(queue, h.time)
        /\ \A f \in Range(queue) : h.time <= f.time
        /\ h = EndEvent \/ Before(queue, h, EndEvent)
    BY <1>0, <2>1, <2>2, HeadOrder, HeadFacts
  <2>4. Thinned(queue', queue)
    BY <1>0, <1>4, <2>1, DispatchFacts DEF DesDispatch
  <2> HIDE DEF h
  <2>5. HeldInv'
    BY <2>1, <2>2, <2>3, <2>4, ThinnedOrder DEF HeldInv, ContRuns
  <2>6. AheadFrom(queue', h.time)
    BY <2>3, <2>4 DEF Thinned, AheadFrom
  <2>7. ASSUME h.type \in {"DP", "OUT"} PROVE clock <= h.time
    <3>1. Before(queue, h, EndEvent) /\ EndEvent.type = "END"
      BY <2>3, <2>7 DEF EndEvent
    <3>2. AheadFrom(queue, clock)
      BY <2>1, <2>2 DEF ClockInv
    <3> QED
      BY <2>2, <2>3, <2>7, <3>1, <3>2 DEF AheadFrom
  <2>8. ClockInv'
    BY <2>1, <2>2, <2>6, <2>7 DEF ClockInv, ContRuns
  <2> QED
    BY <2>5, <2>8
<1>5. CASE DesAccount
  <2>1. /\ des = "account" /\ UNCHANGED <<queue, mode, des_ev, cont>>
        /\ clock' = des_ev.time
        /\ des' = IF des_ev.type = "END" THEN "shutdown" ELSE "handle"
    BY <1>5 DEF DesAccount
  <2>2. mode = "DES" /\ ~ContRuns
    BY <2>1 DEF Turn, DesRuns
  <2>3. des_ev.type = "END" => des_ev.time = EndTime
    BY <2>1 DEF QueueInv, HandInv, EndEvent
  <2>4. HeldInv'
    BY <2>1, <2>2, <2>3 DEF HeldInv, ContRuns
  <2>5. ClockInv'
    BY <2>1, <2>2 DEF ClockInv, ContRuns
  <2> QED
    BY <2>4, <2>5
<1>6. CASE DesSchedule
  <2>1. /\ des = "handle"
        /\ UNCHANGED <<clock, mode, last_ctrl, des, des_ev, cont, cur_ev>>
    BY <1>6 DEF DesSchedule
  <2>2. mode = "DES" /\ ~ContRuns /\ clock = des_ev.time
    BY <2>1 DEF Turn, DesRuns, ClockInv
  <2>3. PICK type \in {"DP", "OUT"}, time \in 0..Horizon :
               des_ev.time <= time /\ Schedule(type, time)
    BY <1>6 DEF DesSchedule, ScheduleFor
  <2>4. type \in EventTypes \ {"END"} /\ time \in Nat
    BY ConstantsAssumption DEF EventTypes
  <2>5. AheadFrom(queue, clock)
    BY <2>1, <2>2 DEF ClockInv
  <2>6. AheadFrom(queue', clock)
    BY <1>0, <2>2, <2>3, <2>4, <2>5, ScheduleOrder
  <2>7. HeldInv'
    BY <2>1, <2>2 DEF HeldInv, ContRuns
  <2>8. ClockInv'
    BY <2>1, <2>2, <2>6 DEF ClockInv, ContRuns
  <2> QED
    BY <2>7, <2>8
<1>7. CASE DesHandled
  <2>1. /\ des = "handle" /\ des' \in {"switch", "test"}
        /\ UNCHANGED <<queue, clock, mode, last_ctrl, cont, cur_ev>>
    BY <1>7 DEF DesHandled
  <2> QED
    BY <2>1, IdleStep
<1>8. CASE DesSwitch
  <2>1. /\ des = "switch" /\ des' = "test" /\ last_ctrl' = clock
        /\ mode' = "FTI" /\ UNCHANGED <<queue, clock, cur_ev>>
        /\ cont' = cont \/ cont' = "test"
    BY <1>8 DEF DesSwitch
  <2>2. ~ContRuns
    BY <2>1 DEF Turn, DesRuns
  <2>3. HeldInv'
    BY <2>1, <2>2 DEF HeldInv, ContRuns
  <2>4. ClockInv'
    BY <1>0, <2>1, <2>2 DEF ClockInv, ContRuns
  <2> QED
    BY <2>3, <2>4
<1>9. CASE DesShutdown
  <2>1. /\ des = "shutdown" /\ des' = "done"
        /\ UNCHANGED <<queue, clock, mode, last_ctrl, cont, cur_ev>>
    BY <1>9 DEF DesShutdown
  <2> QED
    BY <2>1 DEF HeldInv, ClockInv
<1>10. CASE ContSemWait \/ ContCancel \/ ContTestMode \/ ContSpuriousWakeup
  BY <1>10, IdleStep
     DEF ContSemWait, ContCancel, ContTestMode, ContSpuriousWakeup
<1>11. CASE ContRead
  <2>1. /\ cont = "read" /\ cont' = "advance"
        /\ cur_ev' = scheduler_retrieve(queue)
        /\ UNCHANGED <<queue, clock, mode, last_ctrl, des, des_ev>>
    BY <1>11 DEF ContRead
  <2>2. EndEvent \in Range(queue)
    BY <2>1 DEF Turn, DesRuns, ContRuns, QueueInv, EndInv, Queued
  <2>3. /\ cur_ev'.time <= EndTime /\ LateOnly(queue, cur_ev'.time)
        /\ FrontIsIn(queue, cur_ev')
    BY <1>0, <2>1, <2>2, HeadOrder
  <2>4. HeldInv'
    BY <2>1, <2>3 DEF HeldInv
  <2>5. ClockInv'
    BY <2>1 DEF ClockInv
  <2> QED
    BY <2>4, <2>5
<1>12. CASE ContAdvance
  <2>1. /\ cont = "advance" /\ cont' = "loop" /\ clock' = clock + delta_us
        /\ UNCHANGED <<queue, mode, last_ctrl, des, des_ev, cur_ev>>
    BY <1>12 DEF ContAdvance
  <2>2. mode = "FTI" /\ ~DesRuns /\ clock <= clock'
    BY <2>1 DEF Turn, ContRuns, TypeOK
  <2>3. HeldInv'
    BY <2>1 DEF HeldInv
  <2>4. last_ctrl' <= clock'
    <3>1. last_ctrl \in Nat /\ clock \in Nat /\ delta_us \in Nat
      BY DEF TypeOK
    <3>2. last_ctrl <= clock
      BY <2>2 DEF ClockInv
    <3> QED
      BY <2>1, <3>1, <3>2
  <2>5. ClockInv'
    BY <2>1, <2>2, <2>4 DEF ClockInv, DesRuns
  <2> QED
    BY <2>3, <2>5
<1>13. CASE ContDue
  <2>1. /\ cont = "loop" /\ cur_ev.time <= clock
        /\ UNCHANGED <<queue, clock, mode, des, des_ev>>
        /\ last_ctrl' = IF IsFti(cur_ev) THEN cur_ev.time ELSE last_ctrl
        /\ cont' = IF cur_ev.type = "END" THEN "idle" ELSE "handle"
        /\ cur_ev' = IF cur_ev.type = "END" THEN NoEvent ELSE cur_ev
    BY <1>13 DEF ContDue
  <2>2. mode = "FTI" /\ ~DesRuns
    BY <2>1 DEF Turn, ContRuns
  <2>3. HeldInv'
    BY <2>1 DEF HeldInv
  <2>4. ASSUME cur_ev.type = "END" PROVE AheadFrom(queue, clock)
    <3> SUFFICES ASSUME NEW e \in Range(queue), NEW f \in Range(queue),
                        Before(queue, e, f), f.type = "END",
                        e.type \in {"DP", "OUT"}
                 PROVE  FALSE
      BY DEF AheadFrom
    <3>1. f = EndEvent /\ cur_ev = EndEvent
      BY <2>1, <2>4 DEF QueueInv, OrderInv, CurInv, Queued
    <3>2. e.type = "IN"
      BY <2>1, <3>1 DEF HeldInv, FrontIsIn
    <3> QED
      BY <3>2
  <2>5. last_ctrl' <= clock
    BY <2>1, <2>2 DEF ClockInv
  <2>6. ClockInv'
    BY <2>1, <2>2, <2>4, <2>5 DEF ClockInv, DesRuns
  <2> QED
    BY <2>3, <2>6
<1>14. CASE ContNotDue
  <2>1. /\ cont = "loop" /\ clock < cur_ev.time /\ cont' = "idle"
        /\ UNCHANGED <<queue, clock, mode, last_ctrl, des, des_ev>>
    BY <1>14 DEF ContNotDue
  <2>2. AheadFrom(queue, clock)
    <3>1. LateOnly(queue, cur_ev.time) /\ cur_ev \in Range(queue)
      BY <2>1 DEF HeldInv, QueueInv, CurInv, Queued
    <3>2. \A e \in Range(queue) : e.time \in Nat
      BY <1>0, RangeOfQueue, EventFields
    <3>3. \A e \in Range(queue) :
             e.type \in {"DP", "OUT"} => clock <= e.time
      BY <1>0, <2>1, <3>1, <3>2 DEF LateOnly
    <3> QED
      BY <3>3 DEF AheadFrom
  <2>3. HeldInv'
    BY <2>1 DEF HeldInv
  <2>4. ClockInv'
    BY <2>1, <2>2 DEF ClockInv
  <2> QED
    BY <2>3, <2>4
<1>15. CASE ContSchedule
  <2>1. /\ cont = "handle"
        /\ UNCHANGED <<clock, mode, last_ctrl, des, des_ev, cont, cur_ev>>
    BY <1>15 DEF ContSchedule
  <2>2. mode = "FTI" /\ ~DesRuns
    BY <2>1 DEF Turn, ContRuns
  <2>3. PICK type \in {"DP", "OUT"}, time \in 0..Horizon :
               cur_ev.time <= time /\ Schedule(type, time)
    BY <1>15 DEF ContSchedule, ScheduleFor
  <2>4. type \in EventTypes \ {"END"} /\ time \in Nat /\ cur_ev.time \in Nat
    BY <1>0, <2>1, RangeOfQueue, EventFields, ConstantsAssumption
       DEF EventTypes, QueueInv, CurInv, Queued
  <2>5. LateOnly(queue, cur_ev.time)
    BY <2>1 DEF HeldInv
  <2>6. LateOnly(queue', cur_ev.time)
    BY <1>0, <2>3, <2>4, <2>5, ScheduleOrder
  <2>7. HeldInv'
    BY <2>1, <2>2, <2>6 DEF HeldInv, DesRuns
  <2>8. ClockInv'
    BY <2>1, <2>2 DEF ClockInv, DesRuns
  <2> QED
    BY <2>7, <2>8
<1>16. CASE ContHandled
  <2>1. /\ cont = "handle" /\ cont' = "loop"
        /\ UNCHANGED <<clock, mode, last_ctrl, des, des_ev>>
        /\ cur_ev' = scheduler_retrieve(queue')
    BY <1>16 DEF ContHandled
  <2>2. mode = "FTI" /\ ~DesRuns /\ main # "setup" /\ main' = main
    BY <1>16, <2>1 DEF Turn, ContRuns, ContHandled
  <2>3. EndEvent \in Range(queue')
    BY <2>1, <2>2 DEF QueueInv, EndInv, Queued, DesRuns, EndEvent
  <2>4. queue' \in Seq(Event) /\ Sorted(queue') /\ Distinct(queue')
    BY DEF TypeOK, QueueInv, OrderInv
  <2>5. /\ cur_ev'.time <= EndTime /\ LateOnly(queue', cur_ev'.time)
        /\ FrontIsIn(queue', cur_ev')
    BY <2>1, <2>3, <2>4, HeadOrder
  <2>6. HeldInv'
    BY <2>1, <2>2, <2>5 DEF HeldInv, DesRuns
  <2>7. ClockInv'
    BY <2>1, <2>2 DEF ClockInv, DesRuns
  <2> QED
    BY <2>6, <2>7
<1>17. CASE ContIdle
  <2>1. /\ cont = "idle" /\ cont' = "sem"
        /\ UNCHANGED <<queue, clock, last_ctrl, des_ev>>
        /\ mode' = mode \/ mode' = "DES"
        /\ des' = des \/ (des = "wait" /\ des' = "test")
    BY <1>17 DEF ContIdle
  <2>2. mode = "FTI" /\ ~DesRuns
    BY <2>1 DEF Turn, ContRuns
  <2>3. HeldInv'
    BY <2>1, <2>2 DEF HeldInv, DesRuns
  <2>4. ClockInv'
    BY <2>1, <2>2 DEF ClockInv, DesRuns
  <2> QED
    BY <2>3, <2>4
<1>18. ASSUME NEW c \in Callbacks, CbStamp(c) PROVE HeldInv' /\ ClockInv'
  BY <1>18, IdleStep DEF CbStamp
<1>19. ASSUME NEW c \in Callbacks, CbInsert(c) PROVE HeldInv' /\ ClockInv'
  <2>1. /\ stamp[c] \in Nat /\ "IN" \in EventTypes \ {"END"}
        /\ Schedule("IN", stamp[c])
        /\ UNCHANGED <<clock, mode, last_ctrl, des, des_ev, cont, cur_ev>>
    BY <1>19 DEF TypeOK, EventTypes, CbInsert
  <2>2. \A t \in Nat : /\ LateOnly(queue, t) => LateOnly(queue', t)
                       /\ AheadFrom(queue, t) => AheadFrom(queue', t)
    BY <1>0, <2>1, ScheduleOrder
  <2>3. cur_ev.time \in Nat /\ des_ev.time \in Nat
    <3>1. \A e \in Event \union {NoEvent} : e.time \in Nat
      BY EventFields DEF NoEvent
    <3> QED
      BY <3>1 DEF TypeOK
  <2>4. cont \in {"advance", "loop"} => FrontIsIn(queue', cur_ev)
    BY <1>0, <2>1, ScheduleFront DEF HeldInv, QueueInv, CurInv
  <2>5. HeldInv'
    BY <1>0, <2>1, <2>2, <2>3, <2>4 DEF HeldInv
  <2>6. ClockInv'
    BY <1>0, <2>1, <2>2, <2>3 DEF ClockInv
  <2> QED
    BY <2>5, <2>6
<1>20. CASE Tick
  BY <1>20, IdleStep DEF Tick
<1>21. CASE UNCHANGED vars
  BY <1>21, IdleStep DEF vars
<1> QED
  BY <1>1, <1>2, <1>3, <1>4, <1>5, <1>6, <1>7, <1>8, <1>9, <1>10, <1>11,
     <1>12, <1>13, <1>14, <1>15, <1>16, <1>17, <1>18, <1>19, <1>20, <1>21
     DEF Next, MainNext, DesNext, ContNext

(* The events that threads hold, the queue and the clock stay in order.    *)
THEOREM OrderInvariant == Spec => [](HeldInv /\ ClockInv)
BY TypeCorrect, TurnInvariant, QueueInvariant, OrderInit, OrderNext, PTL
   DEF Spec

(* Only messages are overtaken by the event of a tick, nothing runs past   *)
(* the end, and at the end only messages are left from before it.          *)
THEOREM OrderHolds ==
    Spec => [](OnlyMessagesOvertaken /\ NothingRunsPastEnd
                 /\ EndLeavesOnlyMessages)
<1>1. HeldInv => OnlyMessagesOvertaken /\ NothingRunsPastEnd
                   /\ EndLeavesOnlyMessages
  BY DEF HeldInv, LateOnly, Queued, OnlyMessagesOvertaken,
         NothingRunsPastEnd, EndLeavesOnlyMessages
<1> QED
  BY <1>1, OrderInvariant, PTL

(* No event of the data plane is handled after the end of the simulation.  *)
THEOREM NothingRunsPastEndHolds == Spec => []NothingRunsPastEnd
<1> QED
  BY OrderHolds, PTL

(* Only messages of the control plane are left in the queue at the end.    *)
THEOREM EndLeavesOnlyMessagesHolds == Spec => []EndLeavesOnlyMessages
<1> QED
  BY OrderHolds, PTL

(* The idle test of cont_mode subtracts no later time from an earlier one. *)
THEOREM IdleTestDoesNotWrapHolds == Spec => []IdleTestDoesNotWrap
<1>1. Turn /\ ClockInv => IdleTestDoesNotWrap
  BY DEF Turn, ContRuns, ClockInv, IdleTestDoesNotWrap
<1> QED
  BY <1>1, TurnInvariant, OrderInvariant, PTL

(* Only a message or EVENT_END moves the simulation clock back.            *)
THEOREM ClockGoesBackOnlyForMessagesHolds ==
    Spec => ClockGoesBackOnlyForMessages
<1> DEFINE Back == clock' < clock => des_ev.type \in {"IN", "END"}
<1>1. TypeOK /\ ClockInv /\ QueueInv /\ [Next]_vars => [Back]_vars
  <2> SUFFICES ASSUME TypeOK, ClockInv, QueueInv, [Next]_vars PROVE Back
    OBVIOUS
  <2> USE DEF schVars, statVars, contVars, timerVars, cbVars, histVars
  <2>1. CASE DesAccount
    <3>1. des = "account" /\ clock' = des_ev.time
      BY <2>1 DEF DesAccount
    <3>2. des_ev \in Event
      BY <3>1 DEF QueueInv, HandInv
    <3>3. des_ev.type \in EventTypes /\ des_ev.time \in Nat /\ clock \in Nat
      BY <3>2, EventFields DEF TypeOK
    <3> QED
      BY <3>1, <3>3 DEF ClockInv, EventTypes
  <2>2. CASE ContAdvance
    BY <2>2 DEF ContAdvance, TypeOK
  <2>3. ASSUME clock' = clock PROVE Back
    <3>1. clock \in Nat
      BY DEF TypeOK
    <3> QED
      BY <2>3, <3>1
  <2>4. CASE MainNext
    <3>1. clock' = clock
      BY <2>4 DEF MainNext, MainSetupApp, MainInsertEnd, MainStartTimer,
         MainGetTime, MainCreateDes
    <3> QED
      BY <2>3, <3>1
  <2>5. CASE DesNext \/ DesSpuriousWakeup
    <3>1. CASE DesTestMode \/ DesSpuriousWakeup \/ DesDispatch \/ DesSchedule
      <4>1. clock' = clock
        BY <3>1 DEF DesTestMode, DesSpuriousWakeup, DesDispatch, DesSchedule
      <4> QED
        BY <2>3, <4>1
    <3>2. CASE DesHandled \/ DesSwitch \/ DesShutdown
      <4>1. clock' = clock
        BY <3>2 DEF DesHandled, DesSwitch, DesShutdown
      <4> QED
        BY <2>3, <4>1
    <3> QED
      BY <2>1, <2>5, <3>1, <3>2 DEF DesNext
  <2>6. CASE ContNext \/ ContSpuriousWakeup
    <3>1. CASE \/ ContSemWait \/ ContCancel \/ ContTestMode
               \/ ContSpuriousWakeup \/ ContRead
      <4>1. clock' = clock
        BY <3>1 DEF ContSemWait, ContCancel, ContTestMode,
           ContSpuriousWakeup, ContRead
      <4> QED
        BY <2>3, <4>1
    <3>2. CASE \/ ContDue \/ ContNotDue \/ ContSchedule \/ ContHandled
               \/ ContIdle
      <4>1. clock' = clock
        BY <3>2 DEF ContDue, ContNotDue, ContSchedule, ContHandled, ContIdle
      <4> QED
        BY <2>3, <4>1
    <3> QED
      BY <2>2, <2>6, <3>1, <3>2 DEF ContNext
  <2>7. ASSUME NEW c \in Callbacks, CbStamp(c) \/ CbInsert(c) PROVE Back
    <3>1. clock' = clock
      BY <2>7 DEF CbStamp, CbInsert
    <3> QED
      BY <2>3, <3>1
  <2>8. CASE Tick \/ UNCHANGED vars
    <3>1. clock' = clock
      BY <2>8 DEF Tick, vars
    <3> QED
      BY <2>3, <3>1
  <2> HIDE DEF Back
  <2> QED
    BY <2>4, <2>5, <2>6, <2>7, <2>8 DEF Next
<1>2. Spec => [][Back]_vars
  BY <1>1, TypeCorrect, QueueInvariant, OrderInvariant, PTL DEF Spec
<1> QED
  BY <1>2 DEF ClockGoesBackOnlyForMessages

-----------------------------------------------------------------------------
(* The reports of statistics and time *)

(* The statistics are fresh for the time t.                                *)
StatsFresh(t) == last_stats <= t /\ t < last_stats + StatsInterval

(* Fresh reports last as long as the turn that made them.                  *)
FreshInv ==
    /\ des = "handle" => StatsFresh(clock)
    /\ cont \in {"loop", "handle"} =>
          last_wrt <= clock /\ clock <= last_wrt + WrtInterval
    /\ cont = "handle" => StatsFresh(cur_ev.time)

(* After the statistics test for time t the statistics are fresh for t.    *)
LEMMA UpdateFresh ==
    ASSUME TypeOK, NEW t \in Nat, UpdateStats(t)
    PROVE  last_stats' <= t /\ t < last_stats' + StatsInterval
<1>1. last_stats \in Nat /\ StatsInterval \in Nat \ {0}
  BY ConstantsAssumption DEF TypeOK
<1> QED
  BY <1>1 DEF UpdateStats, ElapsedAtLeast

(* Every step of every thread keeps the reports fresh.                     *)
LEMMA FreshNext ==
    TypeOK /\ Turn /\ QueueInv /\ FreshInv /\ [Next]_vars => FreshInv'
<1> SUFFICES ASSUME TypeOK, Turn, QueueInv, FreshInv, [Next]_vars PROVE FreshInv'
  OBVIOUS
<1> USE DEF schVars, statVars, contVars, timerVars, cbVars, histVars
<1>1. CASE DesAccount
  <2>1. des = "account" /\ clock' = des_ev.time /\ cont' = cont
    BY <1>1 DEF DesAccount
  <2>2. cont' \notin {"loop", "handle"}
    BY <2>1 DEF Turn, DesRuns, ContRuns
  <2>3. des_ev.time \in Nat
    BY <2>1, EventFields DEF QueueInv, HandInv
  <2>4. StatsFresh(clock)'
    BY <1>1, <2>1, <2>3, UpdateFresh DEF DesAccount, StatsFresh
  <2> QED
    BY <2>2, <2>4 DEF FreshInv
<1>2. CASE ContAdvance
  <2>1. /\ cont = "advance" /\ cont' = "loop" /\ des' = des
        /\ last_wrt' = IF ElapsedAtLeast(clock', last_wrt, WrtInterval + 1)
                       THEN clock' ELSE last_wrt
        /\ clock' = clock + delta_us
    BY <1>2 DEF ContAdvance
  <2>2. des' # "handle"
    BY <2>1 DEF Turn, DesRuns, ContRuns
  <2>3. clock' \in Nat /\ last_wrt \in Nat /\ WrtInterval \in Nat
    BY <2>1, ConstantsAssumption DEF TypeOK
  <2>4. last_wrt' <= clock' /\ clock' <= last_wrt' + WrtInterval
    BY <2>1, <2>3 DEF ElapsedAtLeast
  <2> QED
    BY <2>1, <2>2, <2>4 DEF FreshInv
<1>3. CASE ContDue
  <2>1. /\ cont = "loop" /\ UNCHANGED <<clock, des, last_wrt>>
        /\ cont' = "handle" => cur_ev' = cur_ev
    BY <1>3 DEF ContDue
  <2>2. des' # "handle"
    BY <2>1 DEF Turn, DesRuns, ContRuns
  <2>3. cur_ev.time \in Nat
    BY <2>1, RangeOfQueue, EventFields DEF TypeOK, QueueInv, CurInv, Queued
  <2>4. cont' = "handle" => StatsFresh(cur_ev.time)'
    BY <1>3, <2>1, <2>3, UpdateFresh DEF ContDue, StatsFresh
  <2> QED
    BY <2>1, <2>2, <2>4 DEF FreshInv
<1>4. CASE ContHandled
  <2>1. cont = "handle" /\ cont' = "loop" /\ UNCHANGED <<clock, des, last_wrt, last_stats>>
    BY <1>4 DEF ContHandled
  <2> QED
    BY <2>1 DEF FreshInv, StatsFresh
<1>5. ASSUME UNCHANGED <<clock, last_stats, last_wrt>>,
             des' = des \/ des' # "handle",
             UNCHANGED <<cont, cur_ev>> \/ cont' \notin {"loop", "handle"}
      PROVE  FreshInv'
  BY <1>5 DEF FreshInv, StatsFresh
<1>6. CASE MainNext
  BY <1>5, <1>6 DEF MainNext, MainSetupApp, MainInsertEnd, MainStartTimer,
     MainGetTime, MainCreateDes
<1>7. CASE DesTestMode \/ DesSpuriousWakeup \/ DesDispatch \/ DesSchedule
  BY <1>5, <1>7 DEF DesTestMode, DesSpuriousWakeup, DesDispatch, DesSchedule
<1>8. CASE DesHandled \/ DesSwitch \/ DesShutdown
  BY <1>5, <1>8 DEF DesHandled, DesSwitch, DesShutdown
<1>9. CASE ContSemWait \/ ContCancel \/ ContTestMode \/ ContSpuriousWakeup
  BY <1>5, <1>9 DEF ContSemWait, ContCancel, ContTestMode, ContSpuriousWakeup
<1>10. CASE ContRead \/ ContNotDue \/ ContSchedule \/ ContIdle
  BY <1>5, <1>10 DEF ContRead, ContNotDue, ContSchedule, ContIdle
<1>11. ASSUME NEW c \in Callbacks, CbStamp(c) \/ CbInsert(c) PROVE FreshInv'
  BY <1>5, <1>11 DEF CbStamp, CbInsert
<1>12. CASE Tick \/ UNCHANGED vars
  BY <1>5, <1>12 DEF Tick, vars
<1> QED
  BY <1>1, <1>2, <1>3, <1>4, <1>6, <1>7, <1>8, <1>9, <1>10, <1>11, <1>12
     DEF Next, DesNext, ContNext

(* Statistics and time messages are fresh whenever an event is run,        *)
(* although the clock goes back and the differences are unsigned.          *)
THEOREM ReportsFreshHolds == Spec => []ReportsFresh
<1>1. Init => FreshInv
  BY DEF Init, FreshInv
<1>2. FreshInv => ReportsFresh
  BY DEF FreshInv, StatsFresh, ReportsFresh
<1> QED
  BY <1>1, <1>2, FreshNext, TypeCorrect, TurnInvariant, QueueInvariant, PTL DEF Spec

-----------------------------------------------------------------------------
(* The event loop that the two threads implement *)

(* The refinement mapping of LoopSpec.                                     *)
Pending == (Queued \union InHand) \ {Running}
Over == des \in {"shutdown", "done"}

(* A step of EventLoop, or none, seen through the mapping.                 *)
LoopStep == [Loop!Next]_(Loop!vars)

(* A step that changes nothing of what EventLoop sees.                     *)
LEMMA Stutters ==
    ASSUME UNCHANGED <<Pending, Running, handled, Over>>
    PROVE  LoopStep
BY DEF LoopStep, Loop!vars, Pending, Over

(* An event is posted.                                                     *)
LEMMA Posts ==
    ASSUME NEW e, e \notin Pending, e # Running, e.id \notin handled,
           Pending' = Pending \union {e}, UNCHANGED <<Running, handled, Over>>
    PROVE  LoopStep
BY DEF LoopStep, Loop!Next, Loop!Post, Pending, Over

(* An event starts.                                                        *)
LEMMA Starts ==
    ASSUME NEW e \in Pending, ~Over, Running = NoEvent, e.type # "END", e.time <= EndTime,
           \A f \in Pending : f.time < e.time => f.type = "IN",
           Running' = e, Pending' = Pending \ {e}, UNCHANGED <<handled, Over>>
    PROVE  LoopStep
BY DEF LoopStep, Loop!Next, Loop!Start, Loop!InOrder, Pending, Over

(* The event being handled is finished.                                    *)
LEMMA Finishes ==
    ASSUME Running # NoEvent, Running' = NoEvent, handled' = handled \union {Running.id},
           UNCHANGED <<Pending, Over>>
    PROVE  LoopStep
BY DEF LoopStep, Loop!Next, Loop!Finish, Pending, Over

(* The end is reached.                                                     *)
LEMMA Ends ==
    ASSUME NEW e \in Pending, ~Over, Running = NoEvent, e.type = "END",
           \A f \in Pending : f.time < EndTime => f.type = "IN",
           Pending' = Pending \ {e}, Over' = TRUE, UNCHANGED <<Running, handled>>
    PROVE  LoopStep
BY DEF LoopStep, Loop!Next, Loop!End, Loop!InOrder, Pending, Over

(* A step that leaves alone the queue and what the threads are handling.   *)
LEMMA QuietLoop ==
    ASSUME UNCHANGED <<queue, handled>>,
           \/ UNCHANGED <<des, des_ev>>
           \/ /\ des \notin {"account", "handle", "shutdown", "done"}
              /\ des' \notin {"account", "handle", "shutdown", "done"},
           \/ UNCHANGED <<cont, cur_ev>>
           \/ cont # "handle" /\ cont' # "handle"
    PROVE  LoopStep
<1>1. Queued' = Queued /\ InHand' = InHand
  BY DEF Queued, InHand
<1>2. Running' = Running
  BY DEF Running, NoEvent
<1>3. Over' = Over
  BY DEF Over
<1> QED
  BY <1>1, <1>2, <1>3, Stutters DEF Pending

(* The event being handled has an identity that was given out.             *)
LEMMA RunningKnown ==
    ASSUME TypeOK, QueueInv
    PROVE  /\ Running.id \in Nat /\ Running.id < next_id
           /\ \A e \in Queued \union InHand : e.id \in Nat /\ e.id < next_id
           /\ \A n \in handled : n \in Nat /\ 0 < n /\ n < next_id
<1>1. \A e \in Queued : e.id \in Nat /\ e.id < next_id
  BY RangeOfQueue, EventFields DEF TypeOK, QueueInv, OrderInv, Queued
<1>2. des \in {"account", "handle"} => des_ev.id \in Nat /\ des_ev.id < next_id
  BY EventFields DEF QueueInv, HandInv
<1>3. \A e \in InHand : e.id \in Nat /\ e.id < next_id
  BY <1>2 DEF InHand
<1>4. cont = "handle" => cur_ev \in Queued
  BY DEF QueueInv, CurInv
<1>5. NoEvent.id = 0 /\ next_id \in Nat \ {0}
  BY DEF NoEvent, TypeOK
<1>6. Running.id \in Nat /\ Running.id < next_id
  BY <1>1, <1>2, <1>4, <1>5 DEF Running
<1>7. \A n \in handled : n \in Nat /\ 0 < n /\ n < next_id
  BY <1>5 DEF QueueInv, AllInv
<1> QED
  BY <1>1, <1>3, <1>6, <1>7

(* Scheduling an event, by whichever thread, is the posting of one.        *)
LEMMA ScheduleLoop ==
    ASSUME TypeOK, QueueInv, NEW type \in EventTypes, NEW time \in Nat,
           Schedule(type, time), UNCHANGED <<des, des_ev, cont, cur_ev, handled>>
    PROVE  LoopStep
<1> DEFINE ev == NewEvent(type, time)
<1>1. ev.id = next_id /\ Range(queue') = Range(queue) \union {ev}
  BY ScheduleFacts DEF QueueInv
<1>2. next_id \in Nat
  BY DEF TypeOK
<1> HIDE DEF ev
<1>3. Queued' = Queued \union {ev} /\ InHand' = InHand
  BY <1>1 DEF Queued, InHand
<1>4. Running' = Running /\ Over' = Over
  BY DEF Running, NoEvent, Over
<1>5. ev \notin Queued \union InHand /\ ev # Running /\ ev.id \notin handled
  BY <1>1, <1>2, RunningKnown
<1>6. ev \notin Pending /\ Pending' = Pending \union {ev}
  BY <1>3, <1>4, <1>5 DEF Pending
<1> QED
  BY <1>4, <1>5, <1>6, Posts

(* So is what a handler schedules.                                         *)
LEMMA ScheduleForLoop ==
    ASSUME TypeOK, QueueInv, NEW ev, ScheduleFor(ev),
           UNCHANGED <<des, des_ev, cont, cur_ev, handled>>
    PROVE  LoopStep
<1>1. PICK type \in {"DP", "OUT"}, time \in 0..Horizon : Schedule(type, time)
  BY DEF ScheduleFor
<1>2. type \in EventTypes /\ time \in Nat
  BY ConstantsAssumption DEF EventTypes
<1> QED
  BY <1>1, <1>2, ScheduleLoop

(* Putting EVENT_END in the queue is the posting of it.                    *)
LEMMA InsertEndLoop ==
    ASSUME TypeOK, Turn, QueueInv, MainInsertEnd
    PROVE  LoopStep
<1> USE DEF contVars, histVars
<1>1. /\ main = "setup" /\ queue' = scheduler_insert(queue, EndEvent)
      /\ UNCHANGED <<des, des_ev, cont, cur_ev, handled>>
  BY DEF MainInsertEnd
<1>2. EndEvent \in Event /\ EndEvent.id = 0 /\ EndEvent.type = "END"
  BY ConstantsAssumption DEF EndEvent, Event, EventTypes
<1>3. Queued' = Queued \union {EndEvent} /\ InHand' = InHand
  <2>1. queue \in Seq(Event) /\ Sorted(queue)
    BY DEF TypeOK, QueueInv, OrderInv
  <2>2. Range(queue') = Range(queue) \union {EndEvent}
    BY <1>1, <1>2, <2>1, InsertFacts
  <2> QED
    BY <1>1, <2>2 DEF Queued, InHand
<1>4. des = "unborn" /\ cont = "unborn"
  BY <1>1 DEF Turn
<1>5. Running = NoEvent /\ Running' = Running /\ Over' = Over /\ InHand = {}
  BY <1>1, <1>4 DEF Running, Over, InHand
<1>6. EndEvent \notin Queued
  BY <1>1, <1>2 DEF QueueInv, OrderInv
<1>7. EndEvent # Running
  BY <1>2, <1>5 DEF NoEvent
<1>8. EndEvent.id \notin handled
  BY <1>2, RunningKnown
<1>9. EndEvent \notin Pending /\ Pending' = Pending \union {EndEvent}
  BY <1>3, <1>5, <1>6, <1>7 DEF Pending
<1> QED
  BY <1>1, <1>5, <1>7, <1>8, <1>9, Posts

(* des_mode takes an event out of the queue: it is pending as before.      *)
LEMMA DispatchLoop ==
    ASSUME TypeOK, Turn, QueueInv, DesDispatch
    PROVE  LoopStep
<1> USE DEF contVars, histVars
<1> DEFINE h == scheduler_retrieve(queue)
<1>1. /\ des = "dispatch" /\ des' = "account" /\ des_ev' = h /\ queue # <<>>
      /\ queue' = scheduler_dispatch(queue) /\ UNCHANGED <<cont, cur_ev, handled>>
  BY DEF DesDispatch
<1>2. queue \in Seq(Event) /\ Sorted(queue) /\ Distinct(queue)
  BY DEF TypeOK, QueueInv, OrderInv
<1>3. Range(queue') = Range(queue) \ {h}
  BY <1>1, <1>2, DispatchFacts
<1>4. h \in Range(queue)
  BY <1>1, <1>2, HeadFacts
<1> HIDE DEF h
<1>5. Queued' \union InHand' = Queued \union InHand
  BY <1>1, <1>3, <1>4 DEF Queued, InHand
<1>6. cont # "handle"
  BY <1>1 DEF Turn, DesRuns, ContRuns
<1>7. Running = NoEvent /\ Running' = NoEvent /\ Over' = Over
  BY <1>1, <1>6 DEF Running, Over, NoEvent
<1> QED
  BY <1>1, <1>5, <1>7, Stutters DEF Pending

(* des_mode accounts for the event it took: the event starts, or the end   *)
(* is reached.                                                             *)
LEMMA AccountLoop ==
    ASSUME TypeOK, Turn, QueueInv, HeldInv, DesAccount
    PROVE  LoopStep
<1> USE DEF contVars, histVars
<1>1. /\ des = "account" /\ UNCHANGED <<queue, des_ev, cont, cur_ev, handled>>
      /\ des' = IF des_ev.type = "END" THEN "shutdown" ELSE "handle"
  BY DEF DesAccount
<1>2. cont # "handle"
  BY <1>1 DEF Turn, DesRuns, ContRuns
<1>3. /\ des_ev \in Event /\ (\A e \in Queued : e.id # des_ev.id)
      /\ (des_ev.type = "END" => des_ev = EndEvent)
  BY <1>1 DEF QueueInv, HandInv
<1>4. des_ev.type \in EventTypes /\ des_ev.time \in Nat
  BY <1>3, EventFields
<1>5. NoEvent.type = "NONE" /\ "NONE" \notin EventTypes
  BY DEF NoEvent, EventTypes
<1>6. NoEvent \notin Queued \union {des_ev}
  BY <1>4, <1>5, RangeOfQueue, EventFields DEF TypeOK, Queued
<1>7. Running = NoEvent /\ InHand = {des_ev} /\ ~Over
  BY <1>1, <1>2 DEF Running, InHand, Over
<1>8. Pending = Queued \union {des_ev}
  BY <1>6, <1>7 DEF Pending
<1>9. Queued' = Queued /\ des_ev \notin Queued
  BY <1>1, <1>3 DEF Queued
<1>10. \A f \in Pending : f.time < des_ev.time => f.type = "IN"
  BY <1>1, <1>4, <1>8 DEF HeldInv, LateOnly, Queued
<1>11. CASE des_ev.type # "END"
  <2>1. Running' = des_ev /\ InHand' = {des_ev} /\ ~Over'
    BY <1>1, <1>11 DEF Running, InHand, Over
  <2>2. Pending' = Pending \ {des_ev}
    BY <1>8, <1>9, <2>1 DEF Pending
  <2>3. des_ev.time <= EndTime
    BY <1>1 DEF HeldInv
  <2> QED
    BY <1>1, <1>7, <1>8, <1>10, <1>11, <2>1, <2>2, <2>3, Starts DEF Over
<1>12. CASE des_ev.type = "END"
  <2>1. Running' = NoEvent /\ InHand' = {} /\ Over'
    BY <1>1, <1>2, <1>12 DEF Running, InHand, Over, NoEvent
  <2>2. Pending' = Pending \ {des_ev}
    BY <1>6, <1>8, <1>9, <2>1 DEF Pending
  <2>3. des_ev.time = EndTime
    BY <1>3, <1>12 DEF EndEvent
  <2> QED
    BY <1>1, <1>7, <1>8, <1>10, <1>12, <2>1, <2>2, <2>3, Ends DEF Over
<1> QED
  BY <1>11, <1>12

(* A handler of des_mode returns.                                          *)
LEMMA DesHandledLoop ==
    ASSUME TypeOK, Turn, QueueInv, DesHandled
    PROVE  LoopStep
<1> USE DEF schVars, contVars, histVars
<1>1. /\ des = "handle" /\ des' \in {"switch", "test"}
      /\ handled' = handled \union {des_ev.id} /\ UNCHANGED <<queue, cont, cur_ev>>
  BY DEF DesHandled
<1>2. cont # "handle"
  BY <1>1 DEF Turn, DesRuns, ContRuns
<1>3. des_ev \in Event /\ \A e \in Queued : e.id # des_ev.id
  BY <1>1 DEF QueueInv, HandInv
<1>4. des_ev # NoEvent /\ NoEvent \notin Queued /\ des_ev \notin Queued
  <2>1. \A e \in Queued : e.type \in EventTypes
    BY RangeOfQueue, EventFields DEF TypeOK, Queued
  <2>2. des_ev.type \in EventTypes
    BY <1>3, EventFields
  <2>3. NoEvent.type = "NONE" /\ "NONE" \notin EventTypes
    BY DEF NoEvent, EventTypes
  <2> QED
    BY <1>3, <2>1, <2>2, <2>3
<1>5. Running = des_ev /\ InHand = {des_ev} /\ ~Over
  BY <1>1 DEF Running, InHand, Over
<1>6. Running' = NoEvent /\ InHand' = {} /\ ~Over' /\ Queued' = Queued
  BY <1>1, <1>2 DEF Running, InHand, Over, NoEvent, Queued
<1>7. Pending' = Pending
  BY <1>4, <1>5, <1>6 DEF Pending
<1>8. Running # NoEvent /\ handled' = handled \union {Running.id}
  BY <1>1, <1>4, <1>5
<1> QED
  BY <1>5, <1>6, <1>7, <1>8, Finishes DEF Over

(* An event is due in a tick: it starts, unless it is the end.             *)
LEMMA DueLoop ==
    ASSUME TypeOK, Turn, QueueInv, HeldInv, ContDue
    PROVE  LoopStep
<1> USE DEF schVars, contVars, histVars
<1>1. /\ cont = "loop" /\ UNCHANGED <<queue, des, des_ev, handled>>
      /\ cont' = IF cur_ev.type = "END" THEN "idle" ELSE "handle"
  BY DEF ContDue
<1>2. CASE cur_ev.type = "END"
  BY <1>1, <1>2, QuietLoop
<1>3. CASE cur_ev.type # "END"
  <2>1. cont' = "handle" /\ cur_ev' = cur_ev
    BY <1>1, <1>3 DEF ContDue
  <2>2. ~DesRuns
    BY <1>1 DEF Turn, DesRuns, ContRuns
  <2>3. Running = NoEvent /\ InHand = {} /\ ~Over
    BY <1>1, <2>2 DEF Running, InHand, Over, DesRuns
  <2>4. Running' = cur_ev /\ InHand' = {} /\ ~Over' /\ Queued' = Queued
    BY <1>1, <2>1, <2>2 DEF Running, InHand, Over, DesRuns, Queued
  <2>5. cur_ev \in Queued /\ NoEvent \notin Queued
    <3>1. \A e \in Queued : e.type \in EventTypes
      BY RangeOfQueue, EventFields DEF TypeOK, Queued
    <3>2. NoEvent.type = "NONE" /\ "NONE" \notin EventTypes
      BY DEF NoEvent, EventTypes
    <3> QED
      BY <1>1, <3>1, <3>2 DEF QueueInv, CurInv
  <2>6. Pending = Queued /\ Pending' = Pending \ {cur_ev}
    BY <2>3, <2>4, <2>5 DEF Pending
  <2>7. /\ cur_ev.time <= EndTime
        /\ \A f \in Pending : f.time < cur_ev.time => f.type = "IN"
    BY <1>1, <2>6 DEF HeldInv, LateOnly, Queued
  <2> QED
    BY <1>1, <1>3, <2>3, <2>4, <2>5, <2>6, <2>7, Starts DEF Over
<1> QED
  BY <1>2, <1>3

(* A handler of a tick returns, and its event is deleted.                  *)
LEMMA ContHandledLoop ==
    ASSUME TypeOK, Turn, QueueInv, ContHandled
    PROVE  LoopStep
<1> USE DEF contVars, histVars
<1>1. /\ cont = "handle" /\ cont' = "loop" /\ UNCHANGED <<des, des_ev>>
      /\ handled' = handled \union {cur_ev.id}
      /\ queue' = scheduler_delete(queue, cur_ev)
  BY DEF ContHandled
<1>2. queue \in Seq(Event) /\ Distinct(queue) /\ cur_ev \in Range(queue)
  BY <1>1 DEF TypeOK, QueueInv, OrderInv, CurInv, Queued
<1>3. Queued' = Queued \ {cur_ev}
  <2>1. Range(queue') = Range(queue) \ {cur_ev}
    BY <1>1, <1>2, DeleteFacts
  <2> QED
    BY <2>1 DEF Queued
<1>4. NoEvent \notin Queued /\ cur_ev # NoEvent
  <2>1. \A e \in Queued : e.type \in EventTypes
    BY RangeOfQueue, EventFields DEF TypeOK, Queued
  <2>2. NoEvent.type = "NONE" /\ "NONE" \notin EventTypes
    BY DEF NoEvent, EventTypes
  <2> QED
    BY <1>2, <2>1, <2>2 DEF Queued
<1>5. ~DesRuns
  BY <1>1 DEF Turn, DesRuns, ContRuns
<1>6. Running = cur_ev /\ InHand = {} /\ ~Over
  BY <1>1, <1>5 DEF Running, InHand, Over, DesRuns
<1>7. Running' = NoEvent /\ InHand' = {} /\ ~Over'
  BY <1>1, <1>5 DEF Running, InHand, Over, DesRuns, NoEvent
<1>8. Pending' = Pending
  BY <1>3, <1>4, <1>6, <1>7 DEF Pending
<1>9. Running # NoEvent /\ handled' = handled \union {Running.id}
  BY <1>1, <1>4, <1>6
<1> QED
  BY <1>6, <1>7, <1>8, <1>9, Finishes DEF Over

(* Every step of every thread is a step of the event loop, or none.        *)
LEMMA LoopNext ==
    TypeOK /\ Turn /\ QueueInv /\ HeldInv /\ [Next]_vars => LoopStep
<1> SUFFICES ASSUME TypeOK, Turn, QueueInv, HeldInv, [Next]_vars PROVE LoopStep
  OBVIOUS
<1> USE DEF schVars, statVars, contVars, timerVars, cbVars, histVars
<1>1. CASE MainSetupApp
  <2>1. PICK time \in 0..Horizon : Schedule("DP", time)
    BY <1>1 DEF MainSetupApp
  <2>2. time \in Nat /\ "DP" \in EventTypes
    BY ConstantsAssumption DEF EventTypes
  <2> QED
    BY <1>1, <2>1, <2>2, ScheduleLoop DEF MainSetupApp
<1>2. CASE MainInsertEnd
  BY <1>2, InsertEndLoop
<1>3. CASE MainStartTimer \/ MainGetTime \/ MainCreateDes
  <2>1. MainCreateDes => des = "unborn"
    BY DEF MainCreateDes, Turn
  <2>2. MainStartTimer => cont = "unborn"
    BY DEF MainStartTimer, Turn
  <2> QED
    BY <1>3, <2>1, <2>2, QuietLoop DEF MainStartTimer, MainGetTime, MainCreateDes
<1>4. CASE DesTestMode \/ DesSpuriousWakeup
  BY <1>4, QuietLoop DEF DesTestMode, DesSpuriousWakeup
<1>5. CASE DesDispatch
  BY <1>5, DispatchLoop
<1>6. CASE DesAccount
  BY <1>6, AccountLoop
<1>7. CASE DesSchedule
  BY <1>7, ScheduleForLoop DEF DesSchedule
<1>8. CASE DesHandled
  BY <1>8, DesHandledLoop
<1>9. CASE DesSwitch
  BY <1>9, QuietLoop DEF DesSwitch
<1>10. CASE DesShutdown
  <2>1. /\ des = "shutdown" /\ des' = "done"
        /\ UNCHANGED <<queue, cont, cur_ev, handled>>
    BY <1>10 DEF DesShutdown
  <2>2. Running' = Running /\ Over' = Over /\ Queued' = Queued /\ InHand' = InHand
    BY <2>1 DEF Running, Over, Queued, InHand, NoEvent
  <2> QED
    BY <2>1, <2>2, Stutters DEF Pending
<1>11. CASE ContSemWait \/ ContCancel \/ ContTestMode \/ ContSpuriousWakeup
  BY <1>11, QuietLoop DEF ContSemWait, ContCancel, ContTestMode, ContSpuriousWakeup
<1>12. CASE ContRead \/ ContAdvance \/ ContNotDue
  BY <1>12, QuietLoop DEF ContRead, ContAdvance, ContNotDue
<1>13. CASE ContDue
  BY <1>13, DueLoop
<1>14. CASE ContSchedule
  BY <1>14, ScheduleForLoop DEF ContSchedule
<1>15. CASE ContHandled
  BY <1>15, ContHandledLoop
<1>16. CASE ContIdle
  <2>1. ~DesRuns /\ des \notin {"account", "handle", "shutdown", "done"}
    BY <1>16 DEF ContIdle, Turn, DesRuns, ContRuns
  <2>2. /\ UNCHANGED <<queue, handled>> /\ cont = "idle" /\ cont' = "sem"
        /\ des' = des \/ des' = "test"
    BY <1>16 DEF ContIdle
  <2> QED
    BY <2>1, <2>2, QuietLoop
<1>17. ASSUME NEW c \in Callbacks, CbStamp(c) PROVE LoopStep
  BY <1>17, QuietLoop DEF CbStamp
<1>18. ASSUME NEW c \in Callbacks, CbInsert(c) PROVE LoopStep
  <2>1. "IN" \in EventTypes /\ stamp[c] \in Nat
    BY DEF EventTypes, TypeOK
  <2> QED
    BY <1>18, <2>1, ScheduleLoop DEF CbInsert
<1>19. CASE Tick \/ UNCHANGED vars
  BY <1>19, QuietLoop DEF Tick, vars
<1> QED
  BY <1>1, <1>2, <1>3, <1>4, <1>5, <1>6, <1>7, <1>8, <1>9, <1>10, <1>11, <1>12,
     <1>13, <1>14, <1>15, <1>16, <1>17, <1>18, <1>19
     DEF Next, MainNext, DesNext, ContNext

(* The two threads, with their queue, their turns and the callbacks that   *)
(* insert at any moment, implement one event loop.                         *)
THEOREM LoopImplemented == Spec => LoopSpec
<1>1. Init => Loop!Init
  <2> SUFFICES ASSUME Init PROVE Loop!Init
    OBVIOUS
  <2>1. Queued = {}
    BY DEF Init, Queued, Range
  <2>2. InHand = {} /\ Running = NoEvent /\ handled = {}
        /\ ~(des \in {"shutdown", "done"})
    BY DEF Init, InHand, Running
  <2> QED
    BY <2>1, <2>2 DEF Loop!Init
<1>2. Spec => [][Loop!Next]_(Loop!vars)
  <2>1. TypeOK /\ Turn /\ QueueInv /\ HeldInv /\ [Next]_vars => [Loop!Next]_(Loop!vars)
    BY LoopNext DEF LoopStep
  <2> QED
    BY <2>1, TypeCorrect, TurnInvariant, QueueInvariant, OrderInvariant, PTL DEF Spec
<1> QED
  BY <1>1, <1>2, PTL DEF Spec, LoopSpec, Loop!Spec
=============================================================================

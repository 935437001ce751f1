------------------------------ MODULE HybridSim ------------------------------
(***************************************************************************)
(* The execution core of the simulator (src/src/sim/sim.c): one queue of   *)
(* events, run by two threads in turn.                                     *)
(*                                                                         *)
(*   main   sim_init: fills the queue, starts the timer, starts des_mode   *)
(*   des    the dataplane thread, des_mode: discrete events, the clock     *)
(*          jumps to the time of the next event                            *)
(*   cont   the timer thread, cont_mode once per tick: the clock follows   *)
(*          the wall clock, and every event that is due is run             *)
(*   cb     the threads of the control-plane connections, whose callbacks  *)
(*          (conn_manager.c) put the messages they receive in the queue    *)
(*                                                                         *)
(* sch->mode says whose turn it is.  An event of the control plane run by  *)
(* des hands the turn to cont; cont hands it back once the control plane   *)
(* has been idle for IdleInterval.                                         *)
(*                                                                         *)
(* Every access to sch->mode by the two threads is under mtx_mode, which   *)
(* is held over no other shared access and no other blocking call, so each *)
(* of these critical sections is one step.  pthread_cond_wait puts a       *)
(* thread in "wait"; pthread_cond_signal, or a spurious wakeup, puts it    *)
(* back to testing the mode.                                               *)
(*                                                                         *)
(* Time is in units of the timer's period.                                 *)
(***************************************************************************)
EXTENDS Scheduler, FiniteSets

CONSTANTS
    Callbacks,      \* the threads that call the message callbacks
    EndTime,        \* sim_config_get_end_time
    IdleInterval,   \* sim_config_get_ctrl_idle_interval
    StatsInterval,  \* the 1000000 of the statistics tests
    WrtInterval,    \* the 10000000 of the time message test
    Horizon,        \* bound: no handler schedules an event later than this
    MaxEvents,      \* bound: how many events are ever created
    MaxSem,         \* bound: where the timer semaphore saturates
    MaxDelta        \* bound: where the wall time since `last' saturates

ASSUME ConstantsAssumption ==
    /\ EndTime \in Nat /\ IdleInterval \in Nat
    /\ StatsInterval \in Nat \ {0} /\ WrtInterval \in Nat
    /\ Horizon \in Nat /\ MaxEvents \in Nat
    /\ MaxSem \in Nat \ {0} /\ MaxDelta \in Nat

VARIABLES
    queue,          \* sch->ev_queue
    clock,          \* sch->clock
    mode,           \* sch->mode
    last_ctrl,      \* clock at the latest control-plane event
    last_stats,     \* time of the latest line of statistics
    last_wrt,       \* time of the latest time message to the controller
    main,           \* where sim_init is
    des,            \* where des_mode is
    des_ev,         \* des_mode's ev
    cont,           \* where the timer thread is
    cur_ev,         \* cont_mode's cur_ev
    delta_us,       \* cont_mode's delta_us
    sem,            \* value of timer_sem
    elapsed,        \* wall time since `last' was stored
    cb,             \* where each callback thread is
    stamp,          \* the clock each callback thread read
    next_id,        \* identity of the next event created
    handled         \* identities of the events whose handler has returned

schVars   == <<queue, clock, mode>>
statVars  == <<last_ctrl, last_stats, last_wrt>>
contVars  == <<cont, cur_ev, delta_us>>
timerVars == <<sem, elapsed>>
cbVars    == <<cb, stamp>>
histVars  == <<next_id, handled>>
vars == <<schVars, statVars, main, des, des_ev, contVars, timerVars, cbVars,
          histVars>>

(* No event: the pointers before their first use and after their last.     *)
NoEvent == [id |-> 0, type |-> "NONE", time |-> 0]

(* The EVENT_END of sim_init; it has an identity of its own.               *)
EndEvent == [id |-> 0, type |-> "END", time |-> EndTime]

IsFti(ev) == ev.type \in {"IN", "OUT"}

(* now - before on uint64_t is at least k.  When `before' is ahead of now  *)
(* the difference wraps to a number larger than any interval.              *)
ElapsedAtLeast(now, before, k) == now < before \/ now - before >= k

(* scheduler_insert of a new event; the handler or callback that makes it  *)
(* chooses its type and time.                                              *)
NewEvent(type, time) == [id |-> next_id, type |-> type, time |-> time]

Schedule(type, time) ==
    /\ next_id <= MaxEvents
    /\ queue' = scheduler_insert(queue, NewEvent(type, time))
    /\ next_id' = next_id + 1

(* What handle_event may schedule on behalf of ev (event_handler.c).  No   *)
(* handler schedules anything earlier than the event it handles.  Events   *)
(* to the control plane only send a message.                               *)
ScheduleFor(ev) ==
    /\ ev.type # "OUT"
    /\ \E type \in {"DP", "OUT"}, time \in 0..Horizon :
           ev.time <= time /\ Schedule(type, time)

(* A bug: the difference is taken as signed, and a clock that went back    *)
(* never catches up.                                                       *)
UpdateStatsSigned(t) ==
    last_stats' = IF t - last_stats >= StatsInterval THEN t ELSE last_stats

(* The statistics test before an event at time t is run.                   *)
UpdateStats(t) ==
    last_stats' = IF ElapsedAtLeast(t, last_stats, StatsInterval)
                  THEN t ELSE last_stats

-----------------------------------------------------------------------------
Init ==
    /\ queue = <<>> /\ clock = 0 /\ mode = "FTI"
    /\ last_ctrl = 0 /\ last_stats = 0 /\ last_wrt = 0
    /\ main = "setup"
    /\ des = "unborn" /\ des_ev = NoEvent
    /\ cont = "unborn" /\ cur_ev = NoEvent /\ delta_us = 0
    /\ sem = 0
    /\ elapsed = MaxDelta    \* `last' is zero: the time since boot
    /\ cb = [c \in Callbacks |-> "idle"]
    /\ stamp = [c \in Callbacks |-> 0]
    /\ next_id = 1 /\ handled = {}

-----------------------------------------------------------------------------
(* sim_init, in the main thread *)

(* setup_app_events: an EVENT_APP_START per execution of an application.   *)
MainSetupApp ==
    /\ main = "setup"
    /\ \E time \in 0..Horizon : Schedule("DP", time)
    /\ UNCHANGED <<clock, mode, statVars, main, des, des_ev, contVars,
                   timerVars, cbVars, handled>>

(* The EVENT_END, inserted after the setup and before the threads start.   *)
MainInsertEnd ==
    /\ main = "setup"
    /\ main' = "timer"
    /\ queue' = scheduler_insert(queue, EndEvent)
    /\ UNCHANGED <<clock, mode, statVars, des, des_ev, contVars, timerVars,
                   cbVars, histVars>>

(* init_timer and set_periodic_timer: the timer thread runs and SIGALRM is *)
(* on its way from here.                                                   *)
MainStartTimer ==
    /\ main = "timer"
    /\ main' = "gettime"
    /\ cont' = "sem"
    /\ UNCHANGED <<schVars, statVars, des, des_ev, cur_ev, delta_us,
                   timerVars, cbVars, histVars>>

(* clock_gettime into `last', after the timer was started.                 *)
MainGetTime ==
    /\ main = "gettime"
    /\ main' = "create"
    /\ elapsed' = 0
    /\ UNCHANGED <<schVars, statVars, des, des_ev, contVars, sem, cbVars,
                   histVars>>

(* pthread_create of des_mode; main then waits in pthread_join.            *)
MainCreateDes ==
    /\ main = "create"
    /\ main' = "join"
    /\ des' = "test"
    /\ UNCHANGED <<schVars, statVars, des_ev, contVars, timerVars, cbVars,
                   histVars>>

MainNext == \/ MainSetupApp \/ MainInsertEnd \/ MainStartTimer
            \/ MainGetTime \/ MainCreateDes

-----------------------------------------------------------------------------
(* des_mode, in the dataplane thread *)

(* while (sch->mode) pthread_cond_wait *)
DesTestMode ==
    /\ des = "test"
    /\ des' = IF mode = "FTI" THEN "wait" ELSE "dispatch"
    /\ UNCHANGED <<schVars, statVars, main, des_ev, contVars, timerVars,
                   cbVars, histVars>>

DesSpuriousWakeup ==
    /\ des = "wait"
    /\ des' = "test"
    /\ UNCHANGED <<schVars, statVars, main, des_ev, contVars, timerVars,
                   cbVars, histVars>>

DesDispatch ==
    /\ des = "dispatch"
    /\ queue # <<>>
    /\ des_ev' = scheduler_retrieve(queue)
    /\ queue' = scheduler_dispatch(queue)
    /\ des' = "account"
    /\ UNCHANGED <<clock, mode, statVars, main, contVars, timerVars, cbVars,
                   histVars>>

(* The clock jumps to the event; statistics.  EVENT_END leaves the loop.   *)
DesAccount ==
    /\ des = "account"
    /\ clock' = des_ev.time
    /\ UpdateStats(des_ev.time)
    /\ des' = IF des_ev.type = "END" THEN "shutdown" ELSE "handle"
    /\ UNCHANGED <<queue, mode, last_ctrl, last_wrt, main, des_ev, contVars,
                   timerVars, cbVars, histVars>>

(* handle_event schedules an event.                                        *)
DesSchedule ==
    /\ des = "handle"
    /\ ScheduleFor(des_ev)
    /\ UNCHANGED <<clock, mode, statVars, main, des, des_ev, contVars,
                   timerVars, cbVars, handled>>

(* handle_event returns.                                                   *)
DesHandled ==
    /\ des = "handle"
    /\ handled' = handled \union {des_ev.id}
    /\ des' = IF IsFti(des_ev) THEN "switch" ELSE "test"
    /\ des_ev' = IF IsFti(des_ev) THEN des_ev ELSE NoEvent
    /\ UNCHANGED <<schVars, statVars, main, contVars, timerVars, cbVars,
                   next_id>>

(* A bug: the turn is handed over without waking its new owner.            *)
DesSwitchNoSignal ==
    /\ des = "switch"
    /\ last_ctrl' = clock
    /\ mode' = "FTI"
    /\ des' = "test" /\ des_ev' = NoEvent
    /\ UNCHANGED <<queue, clock, last_stats, last_wrt, main, contVars,
                   timerVars, cbVars, histVars>>

(* A bug: last_ctrl is not refreshed, so that cont finds the control plane *)
(* idle, or ahead of the clock.                                            *)
DesSwitchStaleCtrl ==
    /\ des = "switch"
    /\ mode' = "FTI"
    /\ cont' = IF cont = "wait" THEN "test" ELSE cont
    /\ des' = "test" /\ des_ev' = NoEvent
    /\ UNCHANGED <<queue, clock, statVars, main, cur_ev, delta_us,
                   timerVars, cbVars, histVars>>

(* After an event of the control plane: hand the turn to cont.             *)
DesSwitch ==
    /\ des = "switch"
    /\ last_ctrl' = clock
    /\ mode' = "FTI"
    /\ cont' = IF cont = "wait" THEN "test" ELSE cont
    /\ des' = "test" /\ des_ev' = NoEvent
    /\ UNCHANGED <<queue, clock, last_stats, last_wrt, main, cur_ev,
                   delta_us, timerVars, cbVars, histVars>>

(* shutdown_timer: timer_stopped is set, which des = "done" stands for,    *)
(* the semaphore is posted and the timer thread is cancelled.              *)
DesShutdown ==
    /\ des = "shutdown"
    /\ des' = "done" /\ des_ev' = NoEvent
    /\ sem' = IF sem < MaxSem THEN sem + 1 ELSE sem
    /\ UNCHANGED <<schVars, statVars, main, contVars, elapsed, cbVars,
                   histVars>>

DesNext == \/ DesTestMode \/ DesDispatch \/ DesAccount \/ DesSchedule
           \/ DesHandled \/ DesSwitch \/ DesShutdown

-----------------------------------------------------------------------------
(* The timer thread: timerthread and cont_mode *)

(* sem_wait returns, and cont_mode is called.                              *)
ContSemWait ==
    /\ cont = "sem" /\ des # "done"
    /\ sem > 0
    /\ sem' = sem - 1
    /\ cont' = "test"
    /\ UNCHANGED <<schVars, statVars, main, des, des_ev, cur_ev, delta_us,
                   elapsed, cbVars, histVars>>

(* The thread ends at its loop test, or is cancelled in sem_wait or        *)
(* pthread_cond_wait.                                                      *)
ContCancel ==
    /\ cont \in {"sem", "wait"} /\ des = "done"
    /\ cont' = "gone"
    /\ UNCHANGED <<schVars, statVars, main, des, des_ev, cur_ev, delta_us,
                   timerVars, cbVars, histVars>>

(* A bug: an `if' in place of the `while' around pthread_cond_wait.        *)
ContTestModeOnce ==
    /\ cont \in {"test", "wait"}
    /\ cont' = IF mode = "DES" /\ cont = "test" THEN "wait" ELSE "read"
    /\ UNCHANGED <<schVars, statVars, main, des, des_ev, cur_ev, delta_us,
                   timerVars, cbVars, histVars>>

(* while (!sch->mode) pthread_cond_wait *)
ContTestMode ==
    /\ cont = "test"
    /\ cont' = IF mode = "DES" THEN "wait" ELSE "read"
    /\ UNCHANGED <<schVars, statVars, main, des, des_ev, cur_ev, delta_us,
                   timerVars, cbVars, histVars>>

(* A cancelled thread does not return from pthread_cond_wait.              *)
ContSpuriousWakeup ==
    /\ cont = "wait" /\ des # "done"
    /\ cont' = "test"
    /\ UNCHANGED <<schVars, statVars, main, des, des_ev, cur_ev, delta_us,
                   timerVars, cbVars, histVars>>

(* clock_gettime into now, delta_us, and scheduler_retrieve, without the   *)
(* lock and before the clock is advanced.                                  *)
ContRead ==
    /\ cont = "read"
    /\ queue # <<>>
    /\ delta_us' = elapsed
    /\ cur_ev' = scheduler_retrieve(queue)
    /\ cont' = "advance"
    /\ UNCHANGED <<schVars, statVars, main, des, des_ev, timerVars, cbVars,
                   histVars>>

(* The clock follows the wall clock, and the controller is sent the time   *)
(* when the last message is too old.                                       *)
ContAdvance ==
    /\ cont = "advance"
    /\ clock' = clock + delta_us
    /\ last_wrt' = IF ElapsedAtLeast(clock', last_wrt, WrtInterval + 1)
                   THEN clock' ELSE last_wrt
    /\ delta_us' = 0
    /\ cont' = "loop"
    /\ UNCHANGED <<queue, mode, last_ctrl, last_stats, main, des, des_ev,
                   cur_ev, timerVars, cbVars, histVars>>

(* A bug: EVENT_END is run and deleted as any other event.                 *)
ContDueNoEnd ==
    /\ cont = "loop"
    /\ cur_ev.time <= clock
    /\ UpdateStats(cur_ev.time)
    /\ last_ctrl' = IF IsFti(cur_ev) THEN cur_ev.time ELSE last_ctrl
    /\ cont' = "handle"
    /\ UNCHANGED <<schVars, last_wrt, main, des, des_ev, cur_ev, delta_us,
                   timerVars, cbVars, histVars>>

(* An event is due.  EVENT_END is left in the queue, and the goto skips    *)
(* the update of `last'.                                                   *)
ContDue ==
    /\ cont = "loop"
    /\ cur_ev.time <= clock
    /\ UpdateStats(cur_ev.time)
    /\ last_ctrl' = IF IsFti(cur_ev) THEN cur_ev.time ELSE last_ctrl
    /\ cont' = IF cur_ev.type = "END" THEN "idle" ELSE "handle"
    /\ cur_ev' = IF cur_ev.type = "END" THEN NoEvent ELSE cur_ev
    /\ UNCHANGED <<schVars, last_wrt, main, des, des_ev, delta_us,
                   timerVars, cbVars, histVars>>

(* No event is due: clock_gettime into `last'.                             *)
ContNotDue ==
    /\ cont = "loop"
    /\ clock < cur_ev.time
    /\ elapsed' = 0
    /\ cont' = "idle" /\ cur_ev' = NoEvent
    /\ UNCHANGED <<schVars, statVars, main, des, des_ev, delta_us, sem,
                   cbVars, histVars>>

ContSchedule ==
    /\ cont = "handle"
    /\ ScheduleFor(cur_ev)
    /\ UNCHANGED <<clock, mode, statVars, main, des, des_ev, contVars,
                   timerVars, cbVars, handled>>

(* A bug: the tick goes on with cur_ev->next, and misses what the handler  *)
(* inserted in front of it.                                                *)
ContHandledSuccessor ==
    /\ cont = "handle"
    /\ handled' = handled \union {cur_ev.id}
    /\ queue' = scheduler_delete(queue, cur_ev)
    /\ \E n \in 2..Len(queue) :
           queue[n - 1] = cur_ev /\ cur_ev' = queue[n]
    /\ cont' = "loop"
    /\ UNCHANGED <<clock, mode, statVars, main, des, des_ev, delta_us,
                   timerVars, cbVars, next_id>>

(* handle_event returns, scheduler_delete and sim_event_free of the event, *)
(* scheduler_retrieve of the next.  An insertion between the delete and    *)
(* the retrieve has the effect of one before the delete.                   *)
ContHandled ==
    /\ cont = "handle"
    /\ handled' = handled \union {cur_ev.id}
    /\ queue' = scheduler_delete(queue, cur_ev)
    /\ queue' # <<>>
    /\ cur_ev' = scheduler_retrieve(queue')
    /\ cont' = "loop"
    /\ UNCHANGED <<clock, mode, statVars, main, des, des_ev, delta_us,
                   timerVars, cbVars, next_id>>

(* check_idle *)
ContIdle ==
    /\ cont = "idle"
    /\ IF ElapsedAtLeast(clock, last_ctrl, IdleInterval + 1)
       THEN /\ mode' = "DES"
            /\ des' = IF des = "wait" THEN "test" ELSE des
       ELSE UNCHANGED <<mode, des>>
    /\ cont' = "sem"
    /\ UNCHANGED <<queue, clock, statVars, main, des_ev, cur_ev, delta_us,
                   timerVars, cbVars, histVars>>

ContNext == \/ ContSemWait \/ ContCancel \/ ContTestMode \/ ContRead
            \/ ContAdvance \/ ContDue \/ ContNotDue \/ ContSchedule
            \/ ContHandled \/ ContIdle

-----------------------------------------------------------------------------
(* The message callbacks of conn_manager.c and the timer signal *)

(* time = cm->sch->clock, without a lock.                                  *)
CbStamp(c) ==
    /\ cb[c] = "idle"
    /\ next_id <= MaxEvents
    /\ cb' = [cb EXCEPT ![c] = "stamped"]
    /\ stamp' = [stamp EXCEPT ![c] = clock]
    /\ UNCHANGED <<schVars, statVars, main, des, des_ev, contVars,
                   timerVars, histVars>>

(* The message is copied and inserted with the time read before.           *)
CbInsert(c) ==
    /\ cb[c] = "stamped"
    /\ Schedule("IN", stamp[c])
    /\ cb' = [cb EXCEPT ![c] = "idle"]
    /\ stamp' = [stamp EXCEPT ![c] = 0]
    /\ UNCHANGED <<clock, mode, statVars, main, des, des_ev, contVars,
                   timerVars, handled>>

(* One period of wall time passes and SIGALRM posts the semaphore, once    *)
(* the timer is set.                                                       *)
Tick ==
    /\ main \notin {"setup", "timer"}
    /\ sem < MaxSem \/ elapsed < MaxDelta
    /\ sem' = IF sem < MaxSem THEN sem + 1 ELSE sem
    /\ elapsed' = IF elapsed < MaxDelta THEN elapsed + 1 ELSE elapsed
    /\ UNCHANGED <<schVars, statVars, main, des, des_ev, contVars, cbVars,
                   histVars>>

Next ==
    \/ MainNext
    \/ DesNext
    \/ DesSpuriousWakeup
    \/ ContNext
    \/ ContSpuriousWakeup
    \/ \E c \in Callbacks : CbStamp(c) \/ CbInsert(c)
    \/ Tick

Spec == Init /\ [][Next]_vars

(* The operating system runs every thread; handlers return.  A tick with   *)
(* no event due takes microseconds of a period of 1000 us, so the timer    *)
(* thread is found waiting in sem_wait by the signal again and again.      *)
(* Callbacks and spurious wakeups need never happen.                       *)
Fairness ==
    /\ WF_vars(MainNext) /\ WF_vars(DesNext) /\ WF_vars(ContNext)
    /\ SF_vars(cont = "sem" /\ Tick)

FairSpec == Spec /\ Fairness

-----------------------------------------------------------------------------
(* des is between finding mode = DES and giving the turn away, or has      *)
(* ended the simulation; cont is between finding mode = FTI and the end of *)
(* its tick.                                                               *)
DesRuns == des \in {"dispatch", "account", "handle", "switch", "shutdown",
                    "done"}
ContRuns == cont \in {"read", "advance", "loop", "handle", "idle"}

(* The events that are in the queue, and the one that des took out of it.  *)
Queued == Range(queue)
InHand == IF des \in {"account", "handle"} THEN {des_ev} ELSE {}

(* Every variable has its type.                                            *)
TypeOK ==
    /\ queue \in Seq(Event) /\ clock \in Nat /\ mode \in {"DES", "FTI"}
    /\ last_ctrl \in Nat /\ last_stats \in Nat /\ last_wrt \in Nat
    /\ main \in {"setup", "timer", "gettime", "create", "join"}
    /\ des \in {"unborn", "test", "wait", "dispatch", "account", "handle",
                "switch", "shutdown", "done"}
    /\ cont \in {"unborn", "sem", "test", "wait", "read", "advance", "loop",
                 "handle", "idle", "gone"}
    /\ des_ev \in Event \union {NoEvent} /\ cur_ev \in Event \union {NoEvent}
    /\ delta_us \in Nat /\ sem \in Nat /\ elapsed \in Nat
    /\ cb \in [Callbacks -> {"idle", "stamped"}]
    /\ stamp \in [Callbacks -> Nat]
    /\ next_id \in Nat \ {0} /\ handled \subseteq Nat

(* The dataplane thread and the timer thread never execute events at the   *)
(* same time ("Only execute in DES mode", sim.c:147): handle_event and the *)
(* tables it changes have no lock of their own.                            *)
MutualExclusion == ~(DesRuns /\ ContRuns)

(* A thread asleep on mode_cond_var is one whose turn it is not: no        *)
(* hand-over is missed, whatever the order of wait, signal and spurious    *)
(* wakeup.                                                                 *)
NoLostWakeup == /\ des = "wait" => mode = "FTI"
                /\ cont = "wait" => mode = "DES"

(* The list that every insertion searches is in the order of time.         *)
QueueSorted == Sorted(queue)

(* Where des_mode and cont_mode dereference the head of the queue without  *)
(* a test, there is one, because EVENT_END stays in the queue until        *)
(* des_mode takes it, and des_mode then stops.                             *)
HeadNeverNull ==
    /\ des = "dispatch" \/ cont = "read" => queue # <<>>
    /\ cont = "handle" => Len(queue) > 1

(* The event that cont_mode holds in cur_ev across the handler, without a  *)
(* lock, has not been taken or freed by anyone.                            *)
CurEvQueued == cont \in {"advance", "loop", "handle"} => cur_ev \in Queued

(* No event is lost and none is run twice, over both modes: each event     *)
(* ever scheduled is either waiting in the queue, in the hands of          *)
(* des_mode, or has been handled, and only one of these.                   *)
EachEventOnce ==
    LET pending == {e.id : e \in Queued \union InHand} \ {0}
    IN  /\ pending \intersect handled = {}
        /\ pending \union handled = 1..(next_id - 1)
        /\ Distinct(queue)
        /\ \A e \in InHand : e \notin Queued

(* In a tick, cont_mode may run an event while an earlier one is in the    *)
(* queue (it chose its event before); but that earlier one is a message    *)
(* that a callback has just put there, never an event of the data plane.   *)
OnlyMessagesOvertaken ==
    cont \in {"advance", "loop", "handle"} =>
        \A e \in Queued : e.time < cur_ev.time => e.type = "IN"

(* The difference clock - last_ctrl of the idle test does not wrap around. *)
IdleTestDoesNotWrap == cont = "idle" => last_ctrl <= clock

(* No event later than the end of the simulation is ever run, although     *)
(* the clock of a tick can be far beyond it.                               *)
NothingRunsPastEnd ==
    /\ des = "handle" => des_ev.time <= EndTime
    /\ cont = "handle" => cur_ev.time <= EndTime

(* When des_mode takes EVENT_END, what is left in the queue from before    *)
(* the end can only be messages that callbacks delivered late.             *)
EndLeavesOnlyMessages ==
    des \in {"shutdown", "done"} =>
        \A e \in Queued : e.time < EndTime => e.type = "IN"

(* When an event is run, the latest line of statistics is neither from the *)
(* future nor a whole interval old; and when a tick runs events, the       *)
(* controller has been sent a time that is neither, although the clock may *)
(* have gone back in between and both differences are unsigned.            *)
ReportsFresh ==
    /\ des = "handle" => /\ last_stats <= clock
                         /\ clock < last_stats + StatsInterval
    /\ cont = "handle" => /\ last_stats <= cur_ev.time
                          /\ cur_ev.time < last_stats + StatsInterval
                          /\ last_wrt <= clock
                          /\ clock <= last_wrt + WrtInterval

(* The simulation clock goes back only when des_mode takes a message that  *)
(* a callback stamped before the clock moved on, or EVENT_END after a tick *)
(* ran past it: no event of the data plane ever moves it back.             *)
ClockGoesBackOnlyForMessages ==
    [][clock' < clock => des_ev.type \in {"IN", "END"}]_vars

(* The simulation ends, and both threads with it, however the messages of  *)
(* the control plane are delivered: the two threads never wait for each    *)
(* other for ever.                                                         *)
Termination == <>[](des = "done" /\ cont = "gone")

(* The event that a thread is handling, if any.                            *)
Running == IF des = "handle" THEN des_ev
           ELSE IF cont = "handle" THEN cur_ev ELSE NoEvent

(* The two threads together are one event loop: every behaviour of this    *)
(* module is one of EventLoop, with the events that are not being handled  *)
(* as the pending ones, and the end reached when des_mode takes EVENT_END. *)
Loop == INSTANCE EventLoop
        WITH None <- NoEvent,
             pending <- (Queued \union InHand) \ {Running},
             running <- Running,
             done <- handled,
             over <- des \in {"shutdown", "done"}

LoopSpec == Loop!Spec

(* "Just delete the event on top" (scheduler.c:58): scheduler_delete is    *)
(* called for the event that is on top of the queue.                       *)
DeleteTakesTop ==
    [][cont = "handle" /\ cont' = "loop" => cur_ev = scheduler_retrieve(queue)]_vars

(* "Fixed Time increment, time advances in equal intervals"                *)
(* (scheduler.h:21): every tick advances the clock by the timer's period.  *)
EqualIncrements ==
    [][cont = "advance" /\ cont' = "loop" => clock' = clock + 1]_vars
=============================================================================

---------------------------- MODULE EventHandler ----------------------------
(***************************************************************************)
(* The handlers of the events of a simulation (sim/event_handler.c), which *)
(* move flows through a network of hosts, routers and datapaths: hosts and *)
(* routers as in LegacyNode, datapaths by the ports that their flow tables *)
(* (Datapath) may choose, and a controller that answers a packet-in.       *)
(*                                                                         *)
(* One step runs the handler of the event at the head of the queue, as     *)
(* des_mode does (HybridSim has the two modes and their threads).  Times   *)
(* are in microseconds, as in the code.                                    *)
(***************************************************************************)
EXTENDS Scheduler, LegacyNode, FiniteSets

CONSTANTS
    Hosts, Routers, Datapaths,
    NodePorts,    \* the ports of a node: port -> ip, len, speed (in kbit/s)
    Links,        \* <<node, port>> -> the other end, and the latency
    Gateway,      \* the default gateway of a host: its ip and the port to it
    Execs,        \* executions added to hosts: id, host, type, cnt, args
    StartTimes,   \* the times the user may give them to start at
    DpOutputs,    \* what the actions of a datapath may make of out_ports
    PacketOuts,   \* the out_ports of the controller's answers
    FibMessages,  \* messages of the routing daemons: router and routes
    Ecmp          \* whether routers hash flows over next hops

INT_MAX == 2147483647

ASSUME SpeedAssumption ==
    \A n \in DOMAIN NodePorts : \A p \in DOMAIN NodePorts[n] :
        NodePorts[n][p].speed \in 1000..(INT_MAX \div 1000)

VARIABLES
    nodes,      \* the state of a host or router
    mem,        \* the flows that were allocated
    freed,      \* the addresses given to netflow_destroy
    live,       \* ev_hdl->live_flows: flow_id -> address of the flow
    next_flow,  \* live_flow.c's flow_id
    queue,      \* sch->ev_queue
    load,       \* buffer_state.load of a port
    stats,      \* bytes sent and received by a port
    execs,      \* <<host, id>> -> exec_cnt and start_time
    starts,     \* how often each of them was started
    arrived,    \* how many flows came to the applications of a host
    inbox,      \* messages on their way from the controller and the daemons
    clock       \* sch->clock

vars == <<nodes, mem, freed, live, next_flow, queue, load, stats, execs, starts, arrived, inbox, clock>>

OFPP_CONTROLLER == -3
OFPP_FLOOD == -5

AllPorts == UNION {{<<n, p>> : p \in DOMAIN NodePorts[n]} : n \in DOMAIN NodePorts}

Event0 == [type |-> "NONE", time |-> 0, node |-> "NONE", port |-> 0, flow_id |-> 0,
           exec |-> 0, msg |-> {}]
ev == Head(queue)

-----------------------------------------------------------------------------
(* net/buffer_state.c, and the ports of net/node.c it is asked for.        *)
rate_of(f) == LET bits == f.byte_cnt \div 125 IN IF bits > INT_MAX THEN INT_MAX ELSE bits

(* A bug: load is never taken away. *)
node_update_port_capacity_Grows(l, n, bits, p) ==
    IF <<n, p>> \in AllPorts /\ bits > 0 THEN [l EXCEPT ![<<n, p>>] = @ + bits] ELSE l

node_update_port_capacity(l, n, bits, p) ==
    IF <<n, p>> \in AllPorts
    THEN [l EXCEPT ![<<n, p>>] = IF @ + bits < 0 THEN 0 ELSE @ + bits] ELSE l

node_calculate_port_loss(l, n, p) ==
    IF <<n, p>> \in AllPorts /\ l[<<n, p>>] > NodePorts[n][p].speed
    THEN l[<<n, p>>] - NodePorts[n][p].speed ELSE 0

(* netflow_update_send_time with the speed of the port.                    *)
node_add_tx_time(n, p, f) ==
    IF <<n, p>> \in AllPorts
    THEN [f EXCEPT !.start_time =
            @ + (f.byte_cnt * 8) \div ((NodePorts[n][p].speed * 1000) \div 1000000)]
    ELSE f

(* node_update_port_stats; ports are up and live from port_new on.         *)
node_update_port_stats(s, n, f, p) ==
    IF <<n, p>> \in AllPorts THEN [s EXCEPT ![<<n, p>>].tx_bytes = @ + f.byte_cnt] ELSE s

UpdateRx(n, f) ==
    IF n \notin Hosts /\ <<n, f.in_port>> \in AllPorts
    THEN [stats EXCEPT ![<<n, f.in_port>>].rx_bytes = @ + f.byte_cnt] ELSE stats

(* The ports of a flow once each flood in it is replaced by the ports      *)
(* other than the one it came by, which go to the end.                     *)
ExpandFlood(n, f) ==
    LET others == SetToSortSeq(DOMAIN NodePorts[n] \ {f.in_port}, <)
        flood(ports, p) == IF p = OFPP_FLOOD THEN ports \o others ELSE ports
        known == SelectSeq(f.out_ports, LAMBDA p : p # OFPP_FLOOD)
    IN  known \o FoldLeft(flood, <<>>, f.out_ports)

SendEvent(time, n, p, id) ==
    [Event0 EXCEPT !.type = "SEND", !.time = time, !.node = n, !.port = p, !.flow_id = id]

(* setup_app_events of sim/setup.c.                                        *)
setup_app_events(xs) ==
    LET add(q, k) == scheduler_insert(q, [Event0 EXCEPT !.type = "APP_START",
                        !.time = xs[k].start_time, !.node = k[1], !.exec = k[2]])
    IN  FoldLeft(add, <<>>, SetToSeq(DOMAIN xs))

-----------------------------------------------------------------------------
Init ==
    /\ nodes = [n \in Hosts \union Routers |->
                  LET ln == legacy_node_new(n, NodePorts[n])
                  IN IF n \in Hosts /\ Gateway[n].ip # 0   \* host_set_default_gw
                     THEN [ln EXCEPT !.rt = add_ipv4_entry(@,
                             [ip |-> 0, len |-> 0, gateway |-> Gateway[n].ip,
                              iface |-> Gateway[n].port])]
                     ELSE ln]
    /\ mem = <<>> /\ freed = {}
    /\ live = [id \in {} |-> 0] /\ next_flow = 0
    /\ load = [np \in AllPorts |-> 0]
    /\ stats = [np \in AllPorts |-> [rx_bytes |-> 0, tx_bytes |-> 0]]
    /\ \E at \in [Execs -> StartTimes] :
          execs = [k \in {<<e.host, e.id>> : e \in Execs} |->
                     LET e == CHOOSE x \in Execs : <<x.host, x.id>> = k
                     IN  [id |-> e.id, type |-> e.type, cnt |-> e.cnt, args |-> e.args,
                          start_time |-> at[e]]]
    /\ starts = [k \in DOMAIN execs |-> 0]
    /\ arrived = [h \in Hosts |-> 0]
    /\ queue = setup_app_events(execs)
    /\ inbox = FibMessages
    /\ clock = 0

-----------------------------------------------------------------------------
(* One port of the loop of handle_after_flow_recv on the flow at address f *)
(* of live flow id.  All the events are about that one flow.               *)
ScheduleOut(n, f, id, st, p) ==
    LET fl == st.mem[f]
        timed == node_add_tx_time(n, p, fl)
    IN IF p = OFPP_CONTROLLER
       THEN [st EXCEPT !.queue = scheduler_insert(@, [Event0 EXCEPT !.type = "OF_OUT",
                                   !.time = fl.start_time, !.node = n, !.msg = {fl}])]
       ELSE [st EXCEPT !.mem[f] = timed,
                       !.load = node_update_port_capacity(@, n, rate_of(fl), p),
                       !.queue = scheduler_insert(@, SendEvent(timed.start_time, n, p, id))]

handle_after_flow_recv(n, m, f, id) ==
    LET out(st, p) == ScheduleOut(n, f, id, st, p)
        st0 == [mem |-> m, load |-> load, queue |-> Tail(queue)]
        st1 == FoldLeft(out, st0, ExpandFlood(n, m[f]))
    IN  [st1 EXCEPT !.mem[f].out_ports = <<>>]

(* What recv_netflow of the node may do with the flow.                     *)
RecvResults(n, f) ==
    IF n \in Hosts THEN {host_recv_netflow(nodes[n], mem, f, {PINGV4, UDP})}
    ELSE IF n \in Routers THEN {router_recv_netflow(nodes[n], mem, f, Ecmp)}
    ELSE {[node |-> {}, mem |-> [mem EXCEPT ![f].out_ports = ports],
           nf |-> IF ports = <<>> THEN NULL ELSE f] : ports \in DpOutputs}

(* The flow is handed to an application of the host.                       *)
ForApp(n, f) == /\ n \in Hosts /\ f.eth_type = "IP"
                /\ f.eth_dst \in {<<n, f.in_port>>, Broadcast}
                /\ is_l3_destination(nodes[n], f)

HandleRecvNetflow ==
    /\ queue # <<>> /\ ev.type = "RECV"
    /\ clock' = ev.time
    /\ IF ev.flow_id \notin DOMAIN live
       THEN queue' = Tail(queue) /\ UNCHANGED <<nodes, mem, freed, live, load, stats, arrived>>
       ELSE \E r \in RecvResults(ev.node, live[ev.flow_id]) :
              LET st == handle_after_flow_recv(ev.node, r.mem, r.nf, ev.flow_id)
              IN /\ nodes' = IF ev.node \in Datapaths THEN nodes
                             ELSE [nodes EXCEPT ![ev.node] = r.node]
                 /\ stats' = UpdateRx(ev.node, mem[live[ev.flow_id]])
                 /\ arrived' = IF ForApp(ev.node, mem[live[ev.flow_id]])
                               THEN [arrived EXCEPT ![ev.node] = @ + 1] ELSE arrived
                 /\ IF r.nf # NULL
                    THEN /\ mem' = st.mem /\ load' = st.load /\ queue' = st.queue
                         /\ live' = [live EXCEPT ![ev.flow_id] = r.nf]
                         /\ UNCHANGED freed
                    ELSE /\ mem' = r.mem /\ queue' = Tail(queue)   \* del_live_flow
                         /\ live' = [id \in DOMAIN live \ {ev.flow_id} |-> live[id]]
                         /\ freed' = freed \union {live[ev.flow_id]}
                         /\ UNCHANGED load
    /\ UNCHANGED <<next_flow, execs, starts, inbox>>

(* A host starts the next execution of the application whose id the flow   *)
(* carries.                                                                *)
NextExec(n, f) == {k \in {<<n, f.exec_id>>} \intersect DOMAIN execs : execs[k].cnt # 0}

(* A bug: the flow keeps the port it came by. *)
handle_after_flow_send_InPort(n, p, f, id, q) ==
    LET l == Links[<<n, p>>]
        timed == [mem[f] EXCEPT !.start_time = @ + l.latency]
    IN [mem |-> [mem EXCEPT ![f] = timed], freed |-> freed, execs |-> execs,
        queue |-> scheduler_insert(q, [Event0 EXCEPT !.type = "RECV",
                    !.time = timed.start_time, !.node = l.node, !.flow_id = id])]

(* The flow goes to the other end of the link; without one it is           *)
(* destroyed, and stays in the live flows.                                 *)
handle_after_flow_send(n, p, f, id, q) ==
    LET next == IF n \in Hosts THEN NextExec(n, mem[f]) ELSE {}
        again == mem[f].start_time + 1000000
        restart(q1, k) == scheduler_insert(q1, [Event0 EXCEPT !.type = "APP_START",
                             !.time = again, !.node = n, !.exec = k[2]])
        q2 == FoldLeft(restart, q, SetToSeq(next))
        linked == <<n, p>> \in DOMAIN Links
        l == Links[<<n, p>>]
        there == [mem[f] EXCEPT !.start_time = @ + l.latency, !.in_port = l.port]
    IN [mem |-> IF linked THEN [mem EXCEPT ![f] = there] ELSE mem,
        freed |-> IF linked THEN freed ELSE freed \union {f},
        execs |-> [k \in DOMAIN execs |->
                     IF k \in next THEN [execs[k] EXCEPT !.start_time = again] ELSE execs[k]],
        queue |-> IF linked
                  THEN scheduler_insert(q2, [Event0 EXCEPT !.type = "RECV",
                         !.time = there.start_time, !.node = l.node, !.flow_id = id])
                  ELSE q2]

(* A flow that finds its port overloaded is dropped; it stays in the live  *)
(* flows.                                                                  *)
HandleSendNetflow ==
    /\ queue # <<>> /\ ev.type = "SEND"
    /\ clock' = ev.time
    /\ IF ev.flow_id \notin DOMAIN live
       THEN queue' = Tail(queue) /\ UNCHANGED <<mem, freed, load, stats, execs>>
       ELSE LET f == live[ev.flow_id]
                st == handle_after_flow_send(ev.node, ev.port, f, ev.flow_id, Tail(queue))
            IN /\ load' = node_update_port_capacity(load, ev.node, -rate_of(mem[f]), ev.port)
               /\ IF node_calculate_port_loss(load, ev.node, ev.port) # 0
                  THEN queue' = Tail(queue) /\ UNCHANGED <<mem, freed, stats, execs>>
                  ELSE /\ stats' = node_update_port_stats(stats, ev.node, mem[f], ev.port)
                       /\ mem' = st.mem /\ freed' = st.freed
                       /\ queue' = st.queue /\ execs' = st.execs
    /\ UNCHANGED <<nodes, live, next_flow, starts, arrived, inbox>>

-----------------------------------------------------------------------------
(* A copy of the flow for each port, each a live flow of its own; when     *)
(* early, the event is scheduled before the time to transmit is added.     *)
SendCopies(n, m, f, ports, early) ==
    LET copy(st, p) ==
            LET new == node_add_tx_time(n, p, [m[f] EXCEPT !.out_ports = <<>>])
                at == IF early THEN m[f].start_time ELSE new.start_time
                id == st.next_flow
            IN [mem |-> Append(st.mem, new), next_flow |-> id + 1,
                live |-> [i \in DOMAIN st.live \union {id} |->
                            IF i = id THEN Len(st.mem) + 1 ELSE st.live[i]],
                queue |-> scheduler_insert(st.queue, SendEvent(at, n, p, id))]
        st0 == [mem |-> m, next_flow |-> next_flow, live |-> live, queue |-> Tail(queue)]
    IN  FoldLeft(copy, st0, ports)

(* handle_start_app and host_execute_app.                                  *)
HandleStartApp ==
    /\ queue # <<>> /\ ev.type = "APP_START"
    /\ clock' = ev.time
    /\ LET k == <<ev.node, ev.exec>>
           r == host_execute_app(nodes[ev.node], mem, execs[k])
           st == SendCopies(ev.node, r.mem, r.nf, r.mem[r.nf].out_ports, FALSE)
       IN /\ nodes' = [nodes EXCEPT ![ev.node] = r.node]
          /\ execs' = [execs EXCEPT ![k].cnt = Decrement(@)]
          /\ starts' = [starts EXCEPT ![k] = @ + 1]
          /\ IF r.nf = NULL
             THEN mem' = r.mem /\ queue' = Tail(queue) /\ UNCHANGED <<freed, live, next_flow>>
             ELSE /\ mem' = st.mem /\ queue' = st.queue
                  /\ live' = st.live /\ next_flow' = st.next_flow
                  /\ freed' = freed \union {r.nf}
    /\ UNCHANGED <<load, stats, arrived, inbox>>

(* handle_of_in of a packet-out: the new flow carries what the packet-in   *)
(* did, in one packet, and nothing of the execution.                       *)
HandleOfIn ==
    /\ queue # <<>> /\ ev.type = "OF_IN"
    /\ clock' = ev.time
    /\ LET po == CHOOSE m \in ev.msg : TRUE
           nf == [po EXCEPT !.start_time = ev.time, !.pkt_cnt = 1, !.exec_id = 0]
           st == SendCopies(ev.node, Append(mem, nf), Len(mem) + 1,
                            ExpandFlood(ev.node, nf), TRUE)
       IN /\ mem' = st.mem /\ queue' = st.queue
          /\ live' = st.live /\ next_flow' = st.next_flow
          /\ freed' = freed \union {Len(mem) + 1}
    /\ UNCHANGED <<nodes, load, stats, execs, starts, arrived, inbox>>

(* handle_of_out: the controller gets the packet-in, and has an answer.    *)
HandleOfOut ==
    /\ queue # <<>> /\ ev.type = "OF_OUT"
    /\ clock' = ev.time
    /\ queue' = Tail(queue)
    /\ \E ports \in PacketOuts :
          inbox' = inbox \union {[type |-> "OF_IN", node |-> ev.node,
                                  msg |-> {[f EXCEPT !.out_ports = ports] : f \in ev.msg}]}
    /\ UNCHANGED <<nodes, mem, freed, live, next_flow, load, stats, execs, starts, arrived>>

(* handle_router_in of a message with routes.                              *)
HandleRouterIn ==
    /\ queue # <<>> /\ ev.type = "ROUTER_IN"
    /\ clock' = ev.time
    /\ queue' = Tail(queue)
    /\ nodes' = [nodes EXCEPT ![ev.node] = fib_add(@, CHOOSE m \in ev.msg : TRUE)]
    /\ UNCHANGED <<mem, freed, live, next_flow, load, stats, execs, starts, arrived, inbox>>

(* A message arrives, now, between two events (conn_manager.c).            *)
MessageArrives ==
    \E m \in inbox :
        /\ inbox' = inbox \ {m}
        /\ queue' = scheduler_insert(queue, [Event0 EXCEPT !.type = m.type, !.time = clock,
                                               !.node = m.node, !.msg = m.msg])
        /\ UNCHANGED <<nodes, mem, freed, live, next_flow, load, stats, execs, starts, arrived, clock>>

HandleEvent == \/ HandleRecvNetflow \/ HandleSendNetflow \/ HandleStartApp
               \/ HandleOfIn \/ HandleOfOut \/ HandleRouterIn

Next == HandleEvent \/ MessageArrives

Spec == Init /\ [][Next]_vars

(* Both loops of sim.c run events while there are any, and a message that  *)
(* was sent arrives.  This is weak fairness of the two actions, with what  *)
(* enables them written out.                                               *)
Fairness == /\ <>[](queue # <<>>) => []<><<HandleEvent>>_vars
            /\ <>[](inbox # {}) => []<><<MessageArrives>>_vars
FairSpec == Spec /\ Fairness

-----------------------------------------------------------------------------
FlowEvents == {i \in DOMAIN queue : queue[i].type \in {"SEND", "RECV"}}
Waiting == UNION {{<<n, i>> : i \in DOMAIN nodes[n].buff} : n \in DOMAIN nodes}
WaitingFlow(w) == nodes[w[1]].buff[w[2]]

(* Every flow in the network has one owner: an event finds its live flow,  *)
(* shares it with no other event, and its memory is allocated; a flow that *)
(* waits for an ARP reply is nowhere else ("Need to copy because of        *)
(* multicast").                                                            *)
FlowsHaveOneOwner ==
    /\ \A i \in FlowEvents :
         /\ queue[i].flow_id \in DOMAIN live
         /\ live[queue[i].flow_id] \notin freed
         /\ \A j \in FlowEvents : queue[i].flow_id = queue[j].flow_id => i = j
    /\ \A x, y \in DOMAIN live : live[x] = live[y] => x = y
    /\ \A w \in Waiting : /\ WaitingFlow(w) \notin freed
                          /\ \A id \in DOMAIN live : live[id] # WaitingFlow(w)
                          /\ \A v \in Waiting : WaitingFlow(v) = WaitingFlow(w) => v = w

(* No handler schedules anything in the past: what HybridSim assumes of    *)
(* the handlers it abstracts.                                              *)
NothingInThePast == \A i \in DOMAIN queue : queue[i].time >= clock

SumOver(S, Val(_)) == FoldLeft(LAMBDA sum, i : sum + Val(i), 0, SetToSeq(S))

(* A port carries no load but that of flows scheduled to leave by it: load *)
(* that was added is taken away again.                                     *)
LoadIsOfQueuedFlows ==
    \A np \in AllPorts :
        LET sends == {i \in FlowEvents : queue[i].type = "SEND" /\ queue[i].flow_id \in DOMAIN live
                                         /\ <<queue[i].node, queue[i].port>> = np}
        IN  load[np] <= SumOver(sends, LAMBDA i : rate_of(mem[live[queue[i].flow_id]]))

(* What left by one end of a link came in at the other or is on its way,   *)
(* as the port counters have it.                                           *)
BytesConserved ==
    \A np \in DOMAIN Links :
        LET to == Links[np]
            coming == {i \in FlowEvents : queue[i].type = "RECV" /\ queue[i].node = to.node
                         /\ mem[live[queue[i].flow_id]].in_port = to.port}
        IN  to.node \notin Hosts =>
              stats[np].tx_bytes = stats[<<to.node, to.port>>].rx_bytes
                + SumOver(coming, LAMBDA i : mem[live[queue[i].flow_id]].byte_cnt)

(* An ARP table holds for an address the port that has it.                 *)
ArpTablesRight ==
    \A n \in DOMAIN nodes : \A ip \in DOMAIN nodes[n].at :
        LET mac == nodes[n].at[ip] IN mac \in AllPorts /\ NodePorts[mac[1]][mac[2]].ip = ip

(* An execution starts as often as it was asked to ("How many times it     *)
(* should be executed").                                                   *)
StartedAsAsked ==
    \A e \in Execs : starts[<<e.host, e.id>>] <= e.cnt

Expected(h) ==
    LET addressed == {e \in Execs : \E p \in DOMAIN NodePorts[h] :
                                       NodePorts[h][p].ip = e.args.ip_dst}
        pings == {e \in Execs : e.host = h /\ e.type = PINGV4}
    IN  SumOver(addressed, LAMBDA e : e.cnt) + SumOver(pings, LAMBDA e : e.cnt)

(* Every flow of every execution arrives, and so does the reply to a ping. *)
EveryFlowArrives == <>[](\A h \in Hosts : arrived[h] = Expected(h))

NextHop(n, f) == LET e == CHOOSE x \in ipv4_lookup(nodes[n].rt, f.ipv4_dst, 0) : TRUE
                 IN  IF e.gateway = 0 THEN f.ipv4_dst ELSE e.gateway

(* The flow that an ARP reply takes from the stack is one that waits for   *)
(* the sender of the reply ("Check the stack for a flow waiting for the    *)
(* ARP reply").                                                            *)
ReplyTakesItsFlow ==
    [][\A n \in DOMAIN nodes :
          Len(nodes'[n].buff) < Len(nodes[n].buff) =>
            mem[live[ev.flow_id]].arp_spa = NextHop(n, mem[Last(nodes[n].buff)])]_vars

(* A flow whose next hop is not known waits for the ARP reply ("queue      *)
(* flows that cannot be sent before the the completion of an event").      *)
FlowWaitsForReply ==
    [][\A f \in (Len(mem) + 1)..Len(mem') : \A n \in DOMAIN nodes :
          mem'[f].arp_op = "REQUEST" /\ ev.node = n /\ ev.type \in {"RECV", "APP_START"} =>
            Len(nodes'[n].buff) = Len(nodes[n].buff) + 1]_vars

(* The next execution is scheduled when the flow of this one starts on the *)
(* next hop ("Schedule 1 microsecond after the time the next flow will     *)
(* start on the next hop").                                                *)
RestartAfterArrival ==
    [][\A k \in DOMAIN execs : execs'[k].start_time # execs[k].start_time =>
          \E i \in DOMAIN queue' : /\ queue'[i].type = "RECV"
                                   /\ queue'[i].flow_id = ev.flow_id
                                   /\ execs'[k].start_time = queue'[i].time + 1]_vars
=============================================================================

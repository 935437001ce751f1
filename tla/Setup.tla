------------------------------- MODULE Setup -------------------------------
(***************************************************************************)
(* The life of an emulation: the user builds the topology, setup           *)
(* (sim/setup.c) makes the namespaces, interfaces and processes of its     *)
(* routers, and topology_destroy takes them away (net/router.c,            *)
(* net/routing/, lib/net_utils.c).                                         *)
(*                                                                         *)
(* What the commands do to the system is modelled from how they are used:  *)
(* os has the namespaces, the interfaces (by namespace and name, with      *)
(* their peer and address), the ports of the bridge and the processes      *)
(* (with the file that holds their pid).  The results of commands are not  *)
(* looked at by the code, except that of netns_add.  The program waits for *)
(* a command it runs (netns_run), but not for one it launches              *)
(* (netns_launch): that is in os.launched until it has its effect.         *)
(***************************************************************************)
EXTENDS Topology, InternalAddress, FiniteSets

CONSTANTS
    NodeSpecs,   \* name -> type, daemon, protos, id and the ip of each port
    LinkSpecs,   \* links to add: a, b (<<name, port>>) and latency
    LatePorts,   \* whether a port may be added once the node is in the topology
    MaxWait      \* 10: the seconds sim_init waits for the switches

Names == DOMAIN NodeSpecs
Root == "root"
None == <<"none", "none", 0>>

VARIABLES
    node,      \* name -> uuid (0: not made), router_id, ports that were added
    uuid,      \* current_uuid of node.c
    topo,      \* struct topology
    links,     \* the links that are still to be added
    phase,     \* where the program is
    todo,      \* the rest of the loop it is in
    added,     \* setup_routers: the ends it need not look at
    last,      \* internal_last_bytes
    conns,     \* the number of switches that have connected to the controller
    waited,    \* the seconds that sim_init has waited for them
    os

switchVars == <<conns, waited>>
vars == <<node, uuid, topo, links, phase, todo, added, last, switchVars, os>>

-----------------------------------------------------------------------------
(* lib/net_utils.c, as commands change the system.                         *)
add_veth_pair(o, ns1, i1, ns2, i2) ==
    LET e1 == <<ns1, i1>>
        e2 == <<ns2, i2>>
        end(p) == [peer |-> p, ip |-> None]
    IN IF {e1, e2} \intersect DOMAIN o.intf # {} \/ ~({ns1, ns2} \subseteq o.ns \union {Root})
       THEN o
       ELSE [o EXCEPT !.intf = (e1 :> end(e2) @@ e2 :> end(e1)) @@ @]

set_intf_ip(o, ns, i, ip) ==
    IF <<ns, i>> \in DOMAIN o.intf THEN [o EXCEPT !.intf[<<ns, i>>].ip = ip] ELSE o

(* An interface goes with its peer.                                        *)
RemoveIntfs(o, ends) ==
    LET gone == ends \union {o.intf[e].peer : e \in ends \intersect DOMAIN o.intf}
    IN  [o EXCEPT !.intf = [e \in DOMAIN o.intf \ gone |-> o.intf[e]], !.bridge = @ \ gone]
launch(o, cmd, arg) == [o EXCEPT !.launched = @ \union {<<cmd, arg>>}]
set_intf_to_bridge(o, i) == launch(o, "add-port", <<Root, i>>)
delete_intf(o, i) == launch(o, "link del", <<Root, i>>)

(* A namespace that was deleted goes when no process is left in it.        *)
Reap(o) ==
    LET dead == {n \in o.deleted : ~\E p \in o.procs : p.ns = n}
    IN  [RemoveIntfs(o, {e \in DOMAIN o.intf : e[1] \in dead}) EXCEPT !.deleted = @ \ dead]
netns_delete(o, n) == Reap([o EXCEPT !.ns = @ \ {n}, !.deleted = @ \union ({n} \intersect o.ns)])

run(o, cmd, n, pid) == [o EXCEPT !.procs = @ \union {[cmd |-> cmd, ns |-> n, pid |-> pid]}]
pkill(o, pids) == Reap([o EXCEPT !.procs = {p \in @ : p.pid \notin pids}])

(* A launched command, in the end.  A process cannot enter a namespace     *)
(* that is not there.                                                      *)
Exabgp == <<"exabgp", "">>
RunLaunched(o, c) ==
    LET rest == [o EXCEPT !.launched = @ \ {c}]
    IN CASE c[1] = "add-port" -> [rest EXCEPT !.bridge = @ \union ({c[2]} \intersect DOMAIN o.intf)]
         [] c[1] = "link del" -> RemoveIntfs(rest, {c[2]})
         [] c[1] = "exabgp" -> IF c[2] \in o.ns THEN run(rest, "exabgp", c[2], Exabgp) ELSE rest
         [] c[1] = "pkill" -> pkill(rest, {Exabgp})

setup_veth(o, n, i1, i2, ip) ==
    LET made == add_veth_pair(o, Root, i1, n, i2)
    IN  set_intf_ip(set_intf_to_bridge(made, i1), n, i2, ip)

-----------------------------------------------------------------------------
(* net/router.c and net/routing/.                                          *)
Inet(n) == <<n, "inet", 0>>
InetExt(n) == <<n, "inet-ext", 0>>
Eth(n, p) == <<n, "eth", p>>
Ext(n, p) == <<n, "ext-eth", p>>
Inside(a) == <<"172.20", "", a>>

router_start(o, n, ip) ==
    IF n \in o.ns THEN o
    ELSE setup_veth([o EXCEPT !.ns = @ \union {n}], n, InetExt(n), Inet(n), Inside(ip))

(* The file a protocol is given to write its pid to, and the file that     *)
(* stop_quagga reads it from: they differ for isisd.                       *)
PidFile(cmd, n) == <<IF cmd = "isisd" THEN "isisd/" ELSE cmd, n>>
KillFile(cmd, n) == <<cmd, n>>
HelperPid(router_id) == <<"daemon", router_id>>

(* start_quagga after zebra has answered: the protocols that have a file,  *)
(* and the helper.                                                         *)
StartProtocols(o, n, router_id) ==
    LET protos == NodeSpecs[n].protos \ {"zebra"}
        all == {[cmd |-> c, ns |-> n, pid |-> PidFile(c, n)] : c \in protos}
    IN  run([o EXCEPT !.procs = @ \union all], "horse_daemon", n, HelperPid(router_id))

(* A bug: the helper is left running. *)
StopDaemon_NoHelper(o, n, router_id) ==
    IF NodeSpecs[n].daemon = "exabgp" THEN launch(o, "pkill", "exabgp")
    ELSE pkill(o, {KillFile(c, n) : c \in NodeSpecs[n].protos})

(* stop_quagga kills by the files of the protocols; stop_exabgp kills the  *)
(* exabgp processes of all routers.                                        *)
StopDaemon(o, n, router_id) ==
    IF NodeSpecs[n].daemon = "exabgp" THEN launch(o, "pkill", "exabgp")
    ELSE pkill(o, {KillFile(c, n) : c \in NodeSpecs[n].protos} \union {HelperPid(router_id)})

router_stop(o, n, router_id) ==
    StopDaemon(netns_delete(delete_intf(o, InetExt(n)), n), n, router_id)

-----------------------------------------------------------------------------
Init ==
    /\ node = [n \in Names |-> [uuid |-> 0, router_id |-> 0, ports |-> {}]]
    /\ uuid = 0 /\ topo = topology_new /\ links = LinkSpecs
    /\ phase = "build" /\ todo = <<>> /\ added = {} /\ last = <<0, 0>>
    /\ conns = 0 /\ waited = 0
    /\ os = [ns |-> {}, deleted |-> {}, intf |-> [e \in {} |-> None], bridge |-> {},
             procs |-> {}, launched |-> {}, br |-> FALSE]

InTopology(n) == node[n].uuid # 0 /\ topology_node(topo, node[n].uuid) # {}
NameOf(u) == CHOOSE n \in Names : node[n].uuid = u

(* router_new, dp_new or host_new: node_init.                              *)
NewNode(n) ==
    /\ phase = "build" /\ node[n].uuid = 0
    /\ uuid' = uuid + 1
    /\ node' = [node EXCEPT ![n].uuid = uuid', ![n].router_id = NodeSpecs[n].id]
    /\ UNCHANGED <<switchVars, topo, links, phase, todo, added, last, os>>

(* node_add_port; without an id in its configuration, a router has its     *)
(* highest address for one.                                                *)
AddPort(n, p) ==
    /\ phase = "build" /\ node[n].uuid # 0 /\ p \notin node[n].ports
    /\ LatePorts \/ ~InTopology(n)
    /\ LET ip == NodeSpecs[n].ips[p]
       IN  node' = [node EXCEPT ![n].ports = @ \union {p},
                                ![n].router_id =
                                    IF NodeSpecs[n].id = 0 /\ @ < ip THEN ip ELSE @]
    /\ UNCHANGED <<switchVars, uuid, topo, links, phase, todo, added, last, os>>

AddNode(n) ==
    /\ phase = "build" /\ node[n].uuid # 0 /\ ~InTopology(n)
    /\ LatePorts \/ node[n].ports = DOMAIN NodeSpecs[n].ips
    /\ topo' = CASE NodeSpecs[n].type = ROUTER ->
                      topology_add_router(topo, node[n].uuid, node[n].router_id)
                 [] NodeSpecs[n].type = DATAPATH ->
                      topology_add_datapath(topo, node[n].uuid, node[n].uuid)
                 [] OTHER -> topology_add_host(topo, node[n].uuid)
    /\ UNCHANGED <<switchVars, node, uuid, links, phase, todo, added, last, os>>

AddLink(l) ==
    /\ phase = "build" /\ l \in links
    /\ node[l.a[1]].uuid # 0 /\ node[l.b[1]].uuid # 0
    /\ topo' = topology_add_link(topo, <<node[l.a[1]].uuid, l.a[2]>>,
                                 <<node[l.b[1]].uuid, l.b[2]>>, 1, l.latency)
    /\ links' = links \ {l}
    /\ UNCHANGED <<switchVars, node, uuid, phase, todo, added, last, os>>

Routers == [i \in DOMAIN topo.routers |-> NameOf(topo.routers[i].val)]
Ready == \A n \in Names : node[n].ports = DOMAIN NodeSpecs[n].ips /\ InTopology(n)

(* Sim.start: setup_server, and on to start_routers.                       *)
Start ==
    /\ phase = "build" /\ Ready /\ links = {}
    /\ os' = IF topo.n_routers = 0 THEN os
             ELSE setup_veth([os EXCEPT !.br = TRUE], Root, <<"conn", "1", 0>>,
                             <<"conn", "2", 0>>, Inside(ServerAddress))
    /\ phase' = "routers" /\ todo' = Routers
    /\ UNCHANGED <<switchVars, node, uuid, topo, links, added, last>>

StartRouter ==
    /\ phase = "routers"
    /\ IF todo = <<>>
       THEN /\ phase' = "links" /\ todo' = topo.links
            /\ UNCHANGED <<last, os>>
       ELSE /\ os' = router_start(os, Head(todo), gen_internal_ip(last))
            /\ last' = IF Head(todo) \in os.ns THEN last ELSE NextBytes(last)
            /\ todo' = Tail(todo) /\ UNCHANGED phase
    /\ UNCHANGED <<switchVars, node, uuid, topo, links, added>>

(* configure_router_port, for an end that the router has a port for.       *)
ConfigurePort(o, end) ==
    LET n == NameOf(end[1])
    IN  IF end[2] \in node[n].ports /\ NodeSpecs[n].ips[end[2]] # 0
        THEN set_intf_ip(o, n, Eth(n, end[2]), <<"ip", "", NodeSpecs[n].ips[end[2]]>>) ELSE o

IsRouter(end) == topology_node(topo, end[1]) = {ROUTER}
EthOf(end) == Eth(NameOf(end[1]), end[2])

setup_router_pair_link(o, e1, e2) ==
    LET made == add_veth_pair(o, NameOf(e1[1]), EthOf(e1), NameOf(e2[1]), EthOf(e2))
    IN  ConfigurePort(ConfigurePort(made, e1), e2)

setup_router_nonrouter_link(o, e) ==
    ConfigurePort(add_veth_pair(o, NameOf(e[1]), EthOf(e), Root, Ext(NameOf(e[1]), e[2])), e)

LinkIntfs(o, l) ==
    CASE IsRouter(l.node1) /\ IsRouter(l.node2) -> setup_router_pair_link(o, l.node1, l.node2)
      [] IsRouter(l.node1) /\ ~IsRouter(l.node2) -> setup_router_nonrouter_link(o, l.node1)
      [] ~IsRouter(l.node1) /\ IsRouter(l.node2) -> setup_router_nonrouter_link(o, l.node2)
      [] OTHER -> o

SetupLink ==
    /\ phase = "links"
    /\ IF todo = <<>>
       THEN phase' = "daemons" /\ todo' = Routers /\ UNCHANGED <<added, os>>
       ELSE LET l == Head(todo).val
            IN  /\ todo' = Tail(todo) /\ UNCHANGED phase
                /\ IF l.node1 \in added THEN UNCHANGED <<added, os>>
                   ELSE os' = LinkIntfs(os, l) /\ added' = added \union {l.node2}
    /\ UNCHANGED <<switchVars, node, uuid, topo, links, last>>

(* router_start_daemon.  start_quagga starts zebra and tries to connect to *)
(* it until it can; without a file for zebra it does nothing.              *)
StartDaemon ==
    /\ phase = "daemons"
    /\ IF todo = <<>>
       THEN phase' = (IF topo.n_dps = 0 THEN "running" ELSE "switches") /\ UNCHANGED <<todo, os>>
       ELSE LET n == Head(todo)
            IN CASE NodeSpecs[n].daemon = "exabgp" ->
                      /\ os' = launch(os, "exabgp", n)
                      /\ todo' = Tail(todo) /\ UNCHANGED phase
                 [] "zebra" \notin NodeSpecs[n].protos -> todo' = Tail(todo) /\ UNCHANGED <<os, phase>>
                 [] OTHER -> /\ os' = run(os, "zebra", n, PidFile("zebra", n))
                             /\ phase' = "zebra" /\ UNCHANGED todo
    /\ UNCHANGED <<switchVars, node, uuid, topo, links, added, last>>

(* A bug: the loop does not move on to the next router. *)
ZebraAnswers_Again ==
    /\ phase = "zebra" /\ phase' = "daemons"
    /\ os' = StartProtocols(os, Head(todo), node[Head(todo)].router_id)
    /\ UNCHANGED <<switchVars, node, uuid, topo, links, todo, added, last>>

ZebraAnswers ==
    /\ phase = "zebra"
    /\ os' = StartProtocols(os, Head(todo), node[Head(todo)].router_id)
    /\ todo' = Tail(todo) /\ phase' = "daemons"
    /\ UNCHANGED <<switchVars, node, uuid, topo, links, added, last>>

(* A switch connects to the controller, from of_client_start on.           *)
SwitchConnects ==
    /\ phase \notin {"build", "exited", "over"} /\ conns < topo.n_dps
    /\ conns' = conns + 1
    /\ UNCHANGED <<node, uuid, topo, links, phase, todo, added, last, waited, os>>

(* wait_all_switches_connect counts the connections once a second.  When   *)
(* it has waited too long the process exits, and leaves all that it made.  *)
WaitSwitches ==
    /\ phase = "switches"
    /\ IF conns = topo.n_dps THEN phase' = "running" /\ UNCHANGED waited
       ELSE /\ waited' = waited + 1
            /\ phase' = IF waited' > MaxWait THEN "exited" ELSE phase
    /\ UNCHANGED <<node, uuid, topo, links, todo, added, last, conns, os>>

(* The simulation is over: sim_close, topology_destroy.                    *)
SimEnds ==
    /\ phase = "running" /\ phase' = "destroy"
    /\ todo' = [i \in DOMAIN topo.nodes |-> NameOf(topo.nodes[i].key)]
    /\ UNCHANGED <<switchVars, node, uuid, topo, links, added, last, os>>

DestroyNode ==
    /\ phase = "destroy"
    /\ IF todo = <<>>
       THEN /\ phase' = "over" /\ UNCHANGED todo
            /\ os' = IF topo.n_routers = 0 THEN os ELSE RemoveIntfs(os, {<<Root, <<"conn", "1", 0>>>>})
       ELSE /\ os' = IF NodeSpecs[Head(todo)].type = ROUTER
                     THEN router_stop(os, Head(todo), node[Head(todo)].router_id) ELSE os
            /\ todo' = Tail(todo) /\ UNCHANGED phase
    /\ UNCHANGED <<switchVars, node, uuid, topo, links, added, last>>

LaunchedRuns(c) ==
    /\ c \in os.launched /\ os' = RunLaunched(os, c)
    /\ UNCHANGED <<switchVars, node, uuid, topo, links, phase, todo, added, last>>

Program == StartRouter \/ SetupLink \/ StartDaemon \/ WaitSwitches \/ SimEnds \/ DestroyNode

Next ==
    \/ \E n \in Names : NewNode(n) \/ AddNode(n)
    \/ \E n \in Names : \E p \in DOMAIN NodeSpecs[n].ips : AddPort(n, p)
    \/ \E l \in LinkSpecs : AddLink(l)
    \/ Start
    \/ Program
    \/ ZebraAnswers
    \/ SwitchConnects
    \/ \E c \in os.launched : LaunchedRuns(c)

Spec == Init /\ [][Next]_vars

(* The program runs, the simulation has an end, and zebra answers (weak    *)
(* fairness, written out: a step of the program can be taken in any phase  *)
(* of it).                                                                 *)
Busy == phase \in {"routers", "links", "daemons", "switches", "running", "destroy"}
FairSpec ==
    /\ Spec
    /\ <>[]Busy => []<><<Program>>_vars
    /\ <>[](phase = "zebra") => []<><<ZebraAnswers>>_vars

-----------------------------------------------------------------------------
(* A link leads there and back: the next hop of the next hop of an end is  *)
(* that end, with the same latency.                                        *)
LinksLeadBack ==
    \A i \in DOMAIN topo.links : \A h \in topology_next_hop(topo, topo.links[i].key) :
        topology_next_hop(topo, h.end) = {[end |-> topo.links[i].key, latency |-> h.latency]}

(* Once the links are set up, every end of a link at a router is one       *)
(* interface of its namespace, with the address of the port, and its peer  *)
(* is the other end when that is at a router too.                          *)
LinksRealised ==
    phase \in {"daemons", "zebra", "switches", "running"} =>
      \A i \in DOMAIN topo.links :
        LET l == topo.links[i].val
            n == NameOf(l.node1[1])
            m == NameOf(l.node2[1])
            e == <<n, Eth(n, l.node1[2])>>
        IN NodeSpecs[n].type = ROUTER =>
             /\ e \in DOMAIN os.intf
             /\ os.intf[e].ip = <<"ip", "", NodeSpecs[n].ips[l.node1[2]]>>
             /\ os.intf[e].peer = IF NodeSpecs[m].type = ROUTER
                                  THEN <<m, Eth(m, l.node2[2])>> ELSE <<Root, Ext(n, l.node1[2])>>

(* A message of the helper of a router is given to that router: the id it  *)
(* was started with finds it ("Access routers by the router_id").          *)
HelpersFindRouter ==
    \A p \in os.procs : p.cmd = "horse_daemon" =>
        topology_router_by_id(topo, p.pid[2]) = {node[p.ns].uuid}

LateExabgp == {p.ns : p \in {q \in os.procs : q.cmd = "exabgp"}}

(* When the simulation is over and the commands have run, no namespace,    *)
(* process or interface is left: delete_intf, netns_delete and the pid     *)
(* files reach all that setup made.  Left out is an exabgp that is so late *)
(* that the command to kill it came first, and what it holds.              *)
NothingLeft ==
    phase = "over" /\ os.launched = {} =>
        /\ os.ns = {} /\ os.deleted \subseteq LateExabgp
        /\ \A p \in os.procs : p.ns \in LateExabgp /\ NodeSpecs[p.ns].daemon = "exabgp"
        /\ \A e \in DOMAIN os.intf : {e[1], os.intf[e].peer[1]} \intersect LateExabgp # {}

(* Once the user has started it, the emulation comes up and is taken down, *)
(* or the process exits because a switch does not connect.                 *)
EndsOnceStarted == phase = "routers" ~> phase \in {"over", "exited"}
=============================================================================

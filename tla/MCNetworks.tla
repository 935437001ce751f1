----------------------------- MODULE MCNetworks -----------------------------
(***************************************************************************)
(* Four networks of MCEventHandler, one of which the variable network      *)
(* picks: hosts on the two sides of a router, routers with two links       *)
(* between them, hosts on a datapath that sends a flow to one port at a    *)
(* time, and hosts on one that floods.                                     *)
(***************************************************************************)
EXTENDS MCEventHandler

(* The network "routed" is the one that the constants of this module give. *)
Multipath == INSTANCE EventHandler WITH
    Routers <- EcmpRouters, NodePorts <- EcmpPorts, Links <- EcmpLinks,
    Execs <- EcmpExecs, StartTimes <- EcmpStarts, FibMessages <- EcmpFib, Ecmp <- TRUE

Switched == INSTANCE EventHandler WITH
    Hosts <- FanHosts, Routers <- {}, Datapaths <- SwitchedDatapaths,
    NodePorts <- SwitchedPorts, Links <- SwitchedLinks, Gateway <- SwitchedGateway,
    Execs <- SwitchedExecs, StartTimes <- AtZero, DpOutputs <- SwitchedOutputs,
    PacketOuts <- SwitchedAnswers

Shared == INSTANCE EventHandler WITH
    Hosts <- FanHosts, Routers <- {}, Datapaths <- SwitchedDatapaths,
    NodePorts <- SwitchedPorts, Links <- SwitchedLinks, Gateway <- SwitchedGateway,
    Execs <- SharedExecs, StartTimes <- SharedStarts, DpOutputs <- SharedOutputs,
    PacketOuts <- SwitchedAnswers

VARIABLE network

NetworkInit ==
    \/ network = "routed" /\ Init
    \/ network = "multipath" /\ Multipath!Init
    \/ network = "switched" /\ Switched!Init
    \/ network = "shared" /\ Shared!Init

NetworkNext ==
    \/ network = "routed" /\ Next /\ UNCHANGED network
    \/ network = "multipath" /\ Multipath!Next /\ UNCHANGED network
    \/ network = "switched" /\ Switched!Next /\ UNCHANGED network
    \/ network = "shared" /\ Shared!Next /\ UNCHANGED network

(* Fairness of EventHandler, for the network that FlowsArrive is about.    *)
NetworkSpec ==
    /\ NetworkInit /\ [][NetworkNext]_<<vars, network>>
    /\ <>[](network = "routed" /\ queue # <<>>)
         => []<><<network = "routed" /\ HandleEvent>>_vars
    /\ <>[](network = "routed" /\ inbox # {})
         => []<><<network = "routed" /\ MessageArrives>>_vars

(* Where a datapath sends a flow to one port at a time, every flow has one *)
(* owner (FlowsHaveOneOwner).                                              *)
OneOwner == network # "shared" => FlowsHaveOneOwner

(* The ports of routers that share flows over two links carry the load of  *)
(* the flows scheduled to leave by them (LoadIsOfQueuedFlows).             *)
LoadReturned == network = "multipath" => Multipath!LoadIsOfQueuedFlows

(* What left by one end of a link of a router came in at the other or is   *)
(* on its way (BytesConserved).                                            *)
BytesArrive == network = "routed" => BytesConserved

(* The ARP tables of hosts and routers are right, with one link between    *)
(* two nodes or two (ArpTablesRight).                                      *)
ArpRight == /\ network = "routed" => ArpTablesRight
            /\ network = "multipath" => Multipath!ArpTablesRight
            /\ network \in {"switched", "shared"} => Switched!ArpTablesRight

(* Every flow of every execution arrives, and so does the reply to a ping, *)
(* on links that lose nothing (EveryFlowArrives).                          *)
FlowsArrive == <>[](network = "routed" => \A h \in Hosts : arrived[h] = Expected(h))
=============================================================================

------------------------------ MODULE MCSetup ------------------------------
(***************************************************************************)
(* How a network comes to be.  The variable part picks what the run is     *)
(* about: the internal addresses of routers (InternalNet), the life of an  *)
(* emulation of routers and a datapath or of other daemons (Setup), or a   *)
(* topology read from a file (JsonTopology).                               *)
(***************************************************************************)
EXTENDS InternalNet, Topology, FiniteSets

Router(daemon, protos, ips) == [type |-> ROUTER, daemon |-> daemon, protos |-> protos,
                              id |-> 0, ips |-> ips]
Other(type, ips) == [type |-> type, daemon |-> "", protos |-> {}, id |-> 0, ips |-> ips]
Link(a, b) == [a |-> a, b |-> b, latency |-> 10]

(* Two routers, one with an id of its own, and a datapath. *)
MixedNodes == [r1 |-> Router("quagga", {"zebra", "bgpd", "ospfd"}, <<5, 9>>),
               r2 |-> [Router("quagga", {"zebra", "ospf6d", "ripd", "ripngd"}, <<6>>)
                         EXCEPT !.id = 7],
               s1 |-> Other(DATAPATH, <<0>>)]
MixedLinks == {Link(<<"r1", 1>>, <<"r2", 1>>), Link(<<"s1", 1>>, <<"r1", 2>>)}

(* An exabgp, a router without a file for zebra, and a host. *)
DaemonNodes == [r1 |-> Router("exabgp", {}, <<5>>), r2 |-> Router("quagga", {"bgpd"}, <<7>>),
                h1 |-> Other(HOST, <<8>>)]
DaemonLinks == {Link(<<"r2", 1>>, <<"h1", 1>>)}

-----------------------------------------------------------------------------
VARIABLES node, uuid, topo, links, phase, todo, added, conns, waited, os

Mixed == INSTANCE Setup WITH
    MaxByte <- 2, NodeSpecs <- MixedNodes, LinkSpecs <- MixedLinks,
    LatePorts <- FALSE, MaxWait <- 2

Daemons == INSTANCE Setup WITH
    MaxByte <- 2, NodeSpecs <- DaemonNodes, LinkSpecs <- DaemonLinks,
    LatePorts <- FALSE, MaxWait <- 2

setupVars == <<node, uuid, links, phase, todo, added, conns, waited, os>>
NoSetup == /\ node = {} /\ uuid = 0 /\ links = {} /\ phase = "" /\ todo = <<>>
           /\ added = {} /\ conns = 0 /\ waited = 0 /\ os = {}

VARIABLES file, state

(* Three datapaths, ports of one digit and of two, and keys in the order   *)
(* the parser wants or in another.                                         *)
Json == INSTANCE JsonTopology WITH
    Dpids <- {<<1>>, <<2>>, <<3>>}, PortTexts <- {<<1>>, <<1, 0>>}, Values <- {<<1>>},
    Keys <- {LinkKeys, <<"switchX", "switchY", "portX", "portY", "bw", "delay">>},
    MaxLinks <- 2
NoFile == file = {} /\ state = ""

VARIABLE part

PartInit ==
    \/ part = "addresses" /\ Init /\ NoSetup /\ NoFile /\ topo = {}
    \/ part = "mixed" /\ Mixed!Init /\ given = <<>> /\ NoFile
    \/ part = "daemons" /\ Daemons!Init /\ given = <<>> /\ NoFile
    \/ part = "json" /\ Json!Init /\ last = <<0, 0>> /\ given = <<>> /\ NoSetup

PartNext ==
    \/ part = "addresses" /\ Next /\ UNCHANGED <<part, setupVars, topo, file, state>>
    \/ part = "mixed" /\ Mixed!Next /\ UNCHANGED <<part, given, file, state>>
    \/ part = "daemons" /\ Daemons!Next /\ UNCHANGED <<part, given, file, state>>
    \/ part = "json" /\ Json!Next /\ UNCHANGED <<part, vars, setupVars>>

(* Fairness of Setup, for the emulation that EndsOnceStarted is about.     *)
PartSpec ==
    /\ PartInit /\ [][PartNext]_<<vars, setupVars, topo, file, state, part>>
    /\ <>[](part = "mixed" /\ Mixed!Busy)
         => []<><<part = "mixed" /\ Mixed!Program>>_<<vars, setupVars, topo>>
    /\ <>[](part = "mixed" /\ phase = "zebra")
         => []<><<part = "mixed" /\ Mixed!ZebraAnswers>>_<<vars, setupVars, topo>>

(* The id that the helper of a router was started with finds that router,  *)
(* when its ports were added before it was (HelpersFindRouter).            *)
HelperIdsFind == part = "mixed" => Mixed!HelpersFindRouter

(* When the simulation is over, nothing that setup made is left but an     *)
(* exabgp that came too late (NothingLeft).                                *)
AllTakenDown == /\ part = "mixed" => Mixed!NothingLeft
                /\ part = "daemons" => Daemons!NothingLeft

(* Once started, the emulation comes up and is taken down, or the process  *)
(* exits because a switch does not connect (EndsOnceStarted).              *)
ComesToAnEnd == (part = "mixed" /\ phase = "routers") ~> phase \in {"over", "exited"}

(* A topology is wired as its file says (WiredAsWritten).                  *)
FileWired == part = "json" => Json!WiredAsWritten
=============================================================================

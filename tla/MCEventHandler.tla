--------------------------- MODULE MCEventHandler ---------------------------
(***************************************************************************)
(* Small networks for EventHandler.  Addresses have 4 bits: 0..3, 4..7,    *)
(* 8..11 and 12..15 are networks, each with a prefix of 2 bits.  Ports     *)
(* have 1 Mbit/s, so an ARP flow takes 448 microseconds, a ping 512 and a  *)
(* datagram 12032.                                                         *)
(***************************************************************************)
EXTENDS EventHandler

MCHash(x) == IF x = <<>> THEN 0 ELSE x[2] + x[4][1]

Port(ip) == [ip |-> ip, len |-> 2, speed |-> 1000]
Wires(ends) ==
    LET far(np) == CHOOSE o \in UNION ends : {np, o} \in ends
    IN  [np \in UNION ends |-> [node |-> far(np)[1], port |-> far(np)[2], latency |-> 100]]
Ping(h, id, dst, cnt) ==
    [id |-> id, host |-> h, type |-> PINGV4, cnt |-> cnt, args |-> [ip_dst |-> dst]]
Datagrams(h, id, dst, cnt, pkts) ==
    [id |-> id, host |-> h, type |-> UDP, cnt |-> cnt,
     args |-> [ip_dst |-> dst, l4 |-> <<id, id>>, rate |-> pkts * UdpPacketSize * 8]]
NoGateway == [ip |-> 0, port |-> 0]

Nothing == {}
DropOnly == {<<>>}

(* h1 and h2 on either side of the router r1. *)
RoutedHosts == {"h1", "h2"}
RoutedRouters == {"r1"}
RoutedPorts == [h1 |-> <<Port(5)>>, h2 |-> <<Port(9)>>, r1 |-> <<Port(4), Port(8)>>]
RoutedLinks == Wires({{<<"h1", 1>>, <<"r1", 1>>}, {<<"h2", 1>>, <<"r1", 2>>}})
RoutedGateway == [h1 |-> [ip |-> 4, port |-> 1], h2 |-> [ip |-> 8, port |-> 1]]
RoutedExecs == {Ping("h1", 1, 9, 2), Datagrams("h2", 2, 5, 2, 1), Ping("h2", 3, 5, 1)}
RoutedStarts == {0, 448, 1000, 1000448}

(* As the Python interface numbers them: the first execution of every host *)
(* is 1.                                                                   *)
SameIdExecs == {Ping("h1", 1, 9, 1), Ping("h2", 1, 5, 2)}
ThreeExecs == {Datagrams("h1", 1, 9, 1, 1), Datagrams("h1", 2, 9, 1, 1),
               Datagrams("h1", 3, 9, 1, 1)}
OneExec == {Datagrams("h1", 1, 9, 2, 1)}
AtZero == {0}

(* Two routers and two links between them; the routes to the hosts come    *)
(* from the routing daemons.  A port can carry one of the flows of         *)
(* datagrams, not both at a time.                                          *)
EcmpRouters == {"r1", "r2"}
EcmpPorts == [h1 |-> <<Port(5)>>, h2 |-> <<Port(9)>>,
              r1 |-> <<Port(4), Port(12), Port(1)>>, r2 |-> <<Port(8), Port(13), Port(2)>>]
EcmpLinks == Wires({{<<"h1", 1>>, <<"r1", 1>>}, {<<"h2", 1>>, <<"r2", 1>>},
                    {<<"r1", 2>>, <<"r2", 2>>}, {<<"r1", 3>>, <<"r2", 3>>}})
Fib(r, net, hop) == [type |-> "ROUTER_IN", node |-> r,
                     msg |-> {<<[addr |-> net, len |-> 2, next_hop |-> hop]>>}]
EcmpFib == {Fib("r1", 8, 13), Fib("r1", 8, 2), Fib("r2", 4, 12)}
EcmpExecs == {Ping("h1", 1, 9, 1), Datagrams("h1", 2, 9, 1, 60), Datagrams("h1", 3, 9, 1, 60)}
EcmpStarts == {0, 10000, 1000000}

(* h1, h2 and h3 on one side of a router: two flows wait at r1 for two     *)
(* hosts.                                                                  *)
FanHosts == {"h1", "h2", "h3"}
FanPorts == [h1 |-> <<Port(5)>>, h2 |-> <<Port(9)>>, h3 |-> <<Port(13)>>,
             r1 |-> <<Port(4), Port(8), Port(12)>>]
FanLinks == Wires({{<<"h1", 1>>, <<"r1", 1>>}, {<<"h2", 1>>, <<"r1", 2>>},
                   {<<"h3", 1>>, <<"r1", 3>>}})
FanGateway == [h1 |-> [ip |-> 4, port |-> 1], h2 |-> [ip |-> 8, port |-> 1],
               h3 |-> [ip |-> 12, port |-> 1]]
FanExecs == {Ping("h1", 1, 9, 1), Ping("h1", 2, 13, 1)}

(* Three hosts on the datapath s1, which asks the controller or has flows. *)
SwitchedDatapaths == {"s1"}
SwitchedPorts == [h1 |-> <<Port(5)>>, h2 |-> <<Port(6)>>, h3 |-> <<Port(7)>>,
                  s1 |-> <<Port(0), Port(0), Port(0)>>]
SwitchedLinks == Wires({{<<"h1", 1>>, <<"s1", 1>>}, {<<"h2", 1>>, <<"s1", 2>>},
                        {<<"h3", 1>>, <<"s1", 3>>}})
SwitchedGateway == [h \in FanHosts |-> NoGateway]
SwitchedExecs == {Ping("h1", 1, 6, 2)}
SwitchedOutputs == {<<>>, <<2>>, <<OFPP_CONTROLLER>>, <<4>>}
SwitchedAnswers == {<<OFPP_FLOOD>>, <<1>>}
FloodOutputs == {<<OFPP_FLOOD>>}
SharedOutputs == {<<OFPP_FLOOD>>, <<1>>, <<2>>}
SharedExecs == {Ping("h1", 1, 6, 1), Ping("h2", 2, 7, 1), Datagrams("h3", 3, 5, 1, 1)}
SharedStarts == {0, 448, 549, 2000}
SwitchedStarts == {0, 448}
=============================================================================

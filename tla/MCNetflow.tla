------------------------------ MODULE MCNetflow ------------------------------
(***************************************************************************)
(* The flows of the runs: a stack of three levels, one VLAN id, priority   *)
(* and label besides 0, and one packet of every kind that the parser       *)
(* tells apart.  The variable use picks operations: those on tags of both  *)
(* kinds, those of VLAN tags, packets to the controller and back, or the   *)
(* set-field actions of a message (OfSetField).                            *)
(***************************************************************************)
EXTENDS NetflowApi

NoFields == [f \in MatchFields |-> {}]

Packet(type, words, fields, headers) ==
    [eth_type |-> type, eth_src |-> {0}, eth_dst |-> {1}, words |-> words,
     fields |-> fields, tos |-> {0, 4}, info |-> {5}, payload |-> {7},
     frag |-> FALSE, headers |-> headers]

Ip(proto) == [NoFields EXCEPT !["ip_proto"] = proto, !["ipv4_src"] = {0},
                              !["tcp_dst"] = {2}, !["udp_src"] = {3},
                              !["udp_dst"] = {4}, !["icmpv4_type"] = ECHO]
Arp(op) == [NoFields EXCEPT !["arp_op"] = op, !["arp_spa"] = {0}, !["arp_tha"] = {1}]

(* Packets without tags.                                                   *)
PlainPackets ==
    {Packet(ETH_TYPE_IP, <<>>, Ip(proto), hs) :
        proto \in {IP_PROTO_TCP, IP_PROTO_UDP, IP_PROTO_ICMPV4},
        hs \in {{}, {"net"}, {"net", "l4"}, {"net", "l4", "echo"}}}
    \union {[Packet(ETH_TYPE_IP, <<>>, Ip(IP_PROTO_TCP), {"net", "l4"})
                EXCEPT !.frag = TRUE]}
    \union {Packet(ETH_TYPE_ARP, <<>>, Arp(op), {"net"}) : op \in {{0}, {1}, {2}}}
    \union {Packet(ETH_TYPE_LLDP, <<>>, NoFields, {}),
            Packet(ETH_TYPE_IPV6, <<>>, NoFields, {"net"})}

(* Packets with tags: the first half of a word is what the parser takes    *)
(* for the next type.                                                      *)
TaggedPackets ==
    {Packet(ETH_TYPE_VLAN, words, Ip(IP_PROTO_UDP), {"net", "l4"}) :
        words \in {<<>>, <<Shl({5}, 16, 32) \union ETH_TYPE_IP>>,
                   <<Shl(ETH_TYPE_VLAN, 16, 32) \union {0}>>,
                   <<Shl(ETH_TYPE_VLAN, 16, 32) \union {0}, Shl(ETH_TYPE_IP, 16, 32)>>,
                   <<Shl(ETH_TYPE_MPLS, 16, 32), {8, 9, 12}>>}}
    \union {Packet(ETH_TYPE_MPLS, words, NoFields, {}) : words \in {<<>>, <<{8, 13}>>}}

VlanPushes == {ETH_TYPE_VLAN, ETH_TYPE_VLAN_QinQ}
AllPushes == {ETH_TYPE_VLAN, ETH_TYPE_MPLS, ETH_TYPE_IP}
MplsPushes == {ETH_TYPE_MPLS}
IpPop == {ETH_TYPE_IP}
VlanFields == {<<"vlan_id", {}>>, <<"vlan_id", {0}>>, <<"vlan_id", {11}>>,
               <<"vlan_pcp", {0}>>, <<"vlan_pcp", {2}>>, <<"vlan_pcp", {}>>}
TagFields == {<<"vlan_id", {0}>>, <<"mpls_label", {0}>>, <<"mpls_tc", {1}>>,
              <<"mpls_bos", {0}>>}
PacketFields == {<<"ip_ecn", {1}>>, <<"udp_dst", {6}>>, <<"ipv4_dst", {31}>>,
                 <<"arp_sha", {3}>>, <<"eth_type", ETH_TYPE_IP>>,
                 <<"ip_proto", IP_PROTO_UDP>>, <<"ipv6_nd_target", {1, 50}>>,
                 <<"sctp_src", {1}>>}
LabelFields == {<<"mpls_label", {0}>>}
DscpFields == {<<"eth_type", ETH_TYPE_IP>>, <<"ip_dscp", {0}>>}
-----------------------------------------------------------------------------
(* The constants of this module give the tags of both kinds.               *)
Vlan == INSTANCE NetflowApi WITH
    PushTypes <- VlanPushes, PopTypes <- {}, FieldValues <- VlanFields, Packets <- {}

Plain == INSTANCE NetflowApi WITH
    PushTypes <- {}, PopTypes <- {}, FieldValues <- PacketFields, Packets <- PlainPackets

VARIABLES gen, parsed, packed

(* The ends of a word, and a word of no bits and of both.                  *)
EndsOfWord(width) == {{}, {0}, {width - 1}, {0, width - 1}}

(* Stale bits at the ends of the members of the union.                     *)
StaleBits == {{}, {127}, {8, 40}}

SetFields == INSTANCE OfSetField WITH WireValues <- EndsOfWord, Garbage <- StaleBits

VARIABLE use

NoSetField == gen = {} /\ parsed = {} /\ packed = {}

UseInit ==
    /\ Init
    /\ \/ use \in {"tags", "vlan", "packets"} /\ NoSetField
       \/ use = "set_field" /\ SetFields!Init

UseNext ==
    \/ use = "tags" /\ Next /\ UNCHANGED <<use, gen, parsed, packed>>
    \/ use = "vlan" /\ Vlan!Next /\ UNCHANGED <<use, gen, parsed, packed>>
    \/ use = "packets" /\ Plain!Next /\ UNCHANGED <<use, gen, parsed, packed>>
    \/ use = "set_field" /\ SetFields!Next /\ UNCHANGED <<use, nf>>

UseSpec == UseInit /\ [][UseNext]_<<nf, gen, parsed, packed, use>>

(* After operations on VLAN tags alone, the match of a flow holds what its *)
(* outermost VLAN tag says (VlanMatchMirrorsTag).                          *)
MatchMirrorsTag == use = "vlan" => VlanMatchMirrorsTag

(* A flow without tags keeps the fields its packet carries on the way to   *)
(* the controller and back (PacketKeepsFields).                            *)
ControllerKeepsFields == use = "packets" => PacketKeepsFields

(* A field that parse_set_field reads is in the reply as it came, whatever *)
(* was in the union before (FieldSurvives).                                *)
SetFieldSurvives == use = "set_field" => SetFields!FieldSurvives
=============================================================================

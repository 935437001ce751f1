------------------------------- MODULE Netflow -------------------------------
(***************************************************************************)
(* A flow of packets (lib/netflow.c): its match fields, its stack of VLAN  *)
(* and MPLS tags, the set-field action (net/dp_actions.c) and the two      *)
(* conversions between a flow and the packet of a packet-in or packet-out. *)
(* NetflowApi checks these operators; Datapath uses them.                  *)
(*                                                                         *)
(* nf.match maps the fields of struct ofl_flow_key to words.  A level of   *)
(* the stack holds a type and the 32 bits of the union of struct vlan and  *)
(* struct mpls, as a little-endian host reads them: the ethertype of a     *)
(* VLAN tag is the low half and its tag the high half.                     *)
(*                                                                         *)
(* A packet is its Ethernet header, the 32 bit words between that header   *)
(* and the network header, the fields of the network and transport         *)
(* headers, and the set of the headers that lie within its length.         *)
(***************************************************************************)
EXTENDS Words, Sequences, FiniteSets

CONSTANTS
    MaxStackSize    \* MAX_STACK_SIZE of lib/flow.h (8)

ASSUME StackAssumption == MaxStackSize \in Nat \ {0, 1}

STACK_EMPTY == -1

L4Fields == {"tcp_src", "tcp_dst", "udp_src", "udp_dst",
             "icmpv4_type", "icmpv4_code", "icmpv6_type", "icmpv6_code"}
ArpFields == {"arp_op", "arp_spa", "arp_tpa", "arp_sha", "arp_tha"}

(* struct ofl_flow_key.                                                    *)
MatchFields == L4Fields \union ArpFields \union
    {"in_port", "in_phy_port", "metadata", "tunnel_id", "eth_dst", "eth_src",
     "eth_type", "vlan_id", "vlan_pcp", "mpls_label", "mpls_tc", "mpls_bos",
     "ip_dscp", "ip_ecn", "ip_proto", "ipv4_src", "ipv4_dst", "sctp_src",
     "sctp_dst", "ipv6_src", "ipv6_dst", "ipv6_flabel", "ipv6_nd_target",
     "ipv6_nd_sll", "ipv6_nd_tll"}

EmptyTag == [type |-> {}, w |-> {}]

IsVlan(type) == type \in {ETH_TYPE_VLAN, ETH_TYPE_VLAN_QinQ}
IsMpls(type) == type \in {ETH_TYPE_MPLS, ETH_TYPE_MPLS_MCAST}

(* The two members of the union, in the 32 bits of a level.                *)
VlanTag(t) == Shr(t.w, 16)
WithVlanTag(t, tag) == [t EXCEPT !.w = Trunc(@, 16) \union Shl(tag, 16, 32)]

(***************************************************************************)
(* netflow_init: everything is zero, and so is the top of the stack: the   *)
(* stack of a new flow has one level, of type 0.                           *)
(***************************************************************************)
netflow_init ==
    [match   |-> [f \in MatchFields |-> {}],
     level   |-> [i \in 0..(MaxStackSize - 1) |-> EmptyTag],
     top     |-> 0,
     info    |-> {},
     payload |-> {},
     pkt_cnt |-> 0, byte_cnt |-> 0, start_time |-> 0, rate |-> 0, exec_id |-> 0,
     metadata  |-> [buffer_id |-> 0, reason |-> 0, table_id |-> 0, cookie |-> 0],
     out_ports |-> <<>>]

netflow_add_out_port(n, port) == [n EXCEPT !.out_ports = Append(@, port)]

netflow_is_outer_mpls(n) == n.top # STACK_EMPTY /\ IsMpls(n.level[n.top].type)
netflow_is_vlan_tagged(n) == n.top # STACK_EMPTY /\ IsVlan(n.level[n.top].type)

netflow_push_vlan(n, eth_type) ==
    LET top == n.top + 1
        prev == n.level[n.top]
        new == [n.level[top] EXCEPT !.type = eth_type]
        tag == IF n.top = STACK_EMPTY THEN {}
               ELSE IF IsVlan(prev.type) THEN VlanTag(prev) ELSE VlanTag(new)
    IN IF n.top < MaxStackSize - 1 /\ IsVlan(eth_type)
       THEN [n EXCEPT !.top = top,
                      !.level[top] = [new EXCEPT !.w = eth_type \union Shl(tag, 16, 32)]]
       ELSE n

netflow_push_mpls(n, eth_type) ==
    LET top == n.top + 1
        prev == n.level[n.top]
        over == n.top # STACK_EMPTY /\ IsMpls(prev.type)
        fields == IF n.top = STACK_EMPTY THEN MPLS_S_MASK
                  ELSE IF over THEN prev.w \ MPLS_S_MASK ELSE n.level[top].w
        bos == IF n.top = STACK_EMPTY THEN {0}
               ELSE IF over THEN {} ELSE n.match["mpls_bos"]
    IN IF n.top < MaxStackSize - 1 /\ IsMpls(eth_type)
       THEN [n EXCEPT !.top = top,
                      !.level[top] = [type |-> eth_type, w |-> fields],
                      !.match = [@ EXCEPT !["mpls_bos"] = bos,
                                          !["eth_type"] = eth_type]]
       ELSE n

(* A bug: the popped level keeps its contents. *)
netflow_pop_vlan_NoReset(n) ==
    IF netflow_is_vlan_tagged(n) THEN [n EXCEPT !.top = @ - 1] ELSE n

(* A bug: the match keeps the tag that is gone. *)
netflow_pop_vlan_NoMatch(n) ==
    IF netflow_is_vlan_tagged(n)
    THEN [n EXCEPT !.top = @ - 1, !.level[n.top] = EmptyTag]
    ELSE n

netflow_pop_vlan(n) ==
    LET popped == [n EXCEPT !.top = @ - 1, !.level[n.top] = EmptyTag]
        tag == IF netflow_is_vlan_tagged(popped)
               THEN VlanTag(popped.level[popped.top]) ELSE {}
    IN IF netflow_is_vlan_tagged(n)
       THEN [popped EXCEPT !.match =
                [@ EXCEPT !["vlan_id"]  = tag \intersect VLAN_VID_MASK,
                          !["vlan_pcp"] = Shr(tag \intersect VLAN_PCP_MASK, 13)]]
       ELSE n

(***************************************************************************)
(* The code reads the exposed label through the pointer to the level it    *)
(* has just cleared, so the three match fields become 0 in both branches.  *)
(* It pops whatever the outermost level is.                                *)
(***************************************************************************)
netflow_pop_mpls(n, eth_type) ==
    IF n.top >= 0
    THEN [n EXCEPT !.top = @ - 1,
                   !.level[n.top] = EmptyTag,
                   !.match = [@ EXCEPT !["eth_type"] = eth_type,
                                       !["mpls_label"] = {},
                                       !["mpls_tc"] = {},
                                       !["mpls_bos"] = {}]]
    ELSE n

-----------------------------------------------------------------------------
(***************************************************************************)
(* The set-field action.  The fields the switch statement does not name    *)
(* are left alone; the fields of a tag are set only when the outermost tag *)
(* is of its kind; an IPv6 neighbour discovery target is copied through    *)
(* the six bytes of an Ethernet address.                                   *)
(***************************************************************************)
UnsetFields == {"in_phy_port", "sctp_src", "sctp_dst", "icmpv4_type", "icmpv4_code",
                "icmpv6_type", "icmpv6_code", "ipv6_flabel"}

set_vlan_field(n, field, value) ==
    LET tag == VlanTag(n.level[n.top])
        new == IF field = "vlan_id"
               THEN (tag \ VLAN_VID_MASK) \union (value \intersect VLAN_VID_MASK)
               ELSE (tag \ VLAN_PCP_MASK) \union Shl(value, 13, 16)
    IN IF netflow_is_vlan_tagged(n)
       THEN [n EXCEPT !.match[field] = value,
                      !.level[n.top] = WithVlanTag(@, new)]
       ELSE n

set_mpls_field(n, field, value) ==
    LET w == n.level[n.top].w
        new == CASE field = "mpls_label" ->
                      (w \ MPLS_LABEL_MASK) \union Shl(value, 12, 32)
                 [] field = "mpls_tc" ->
                      (w \intersect MPLS_TC_MASK)
                         \union (Shl(value, 9, 32) \intersect MPLS_TC_MASK)
                 [] field = "mpls_bos" ->
                      (w \intersect MPLS_S_MASK)
                         \union (Shl(value, 8, 32) \intersect MPLS_S_MASK)
    IN IF netflow_is_outer_mpls(n)
       THEN [n EXCEPT !.match[field] = value, !.level[n.top].w = new]
       ELSE n

set_field(n, field, value) ==
    CASE field \in {"vlan_id", "vlan_pcp"} -> set_vlan_field(n, field, value)
      [] field \in {"mpls_label", "mpls_tc", "mpls_bos"} -> set_mpls_field(n, field, value)
      [] field = "ipv6_nd_target" ->
            [n EXCEPT !.match[field] = Trunc(value, 48) \union {b \in @ : b >= 48}]
      [] field \in UnsetFields -> n
      [] OTHER -> [n EXCEPT !.match[field] = value]

-----------------------------------------------------------------------------
(* The transport fields written and read for a protocol.                   *)
L4Of(proto) ==
    CASE proto = IP_PROTO_TCP -> {"tcp_src", "tcp_dst"}
      [] proto = IP_PROTO_UDP -> {"udp_src", "udp_dst"}
      [] proto = IP_PROTO_ICMPV4 -> {"icmpv4_type", "icmpv4_code"}
      [] proto = IP_PROTO_ICMPV6 -> {"icmpv6_type", "icmpv6_code"}
      [] OTHER -> {}

IsEcho(proto, fields) ==
    proto = IP_PROTO_ICMPV4 /\ fields["icmpv4_type"] \in {ECHO, ECHO_REPLY}

(* A level becomes the memory of its tag, in host order; one of neither    *)
(* kind is skipped.                                                        *)
tags_to_pkt(n) ==
    LET tagged == {i \in 0..n.top : IsVlan(n.level[i].type) \/ IsMpls(n.level[i].type)}
        Nth(k) == CHOOSE i \in tagged : Cardinality({j \in tagged : j <= i}) = k
    IN [k \in 1..Cardinality(tagged) |-> Rev32(n.level[Nth(k)].w)]

(* A bug: the destination port of a UDP flow is sent in place of its source. *)
netflow_to_pkt_Swapped(n) ==
    LET m == n.match
    IN [eth_type |-> m["eth_type"], eth_src |-> m["eth_src"], eth_dst |-> m["eth_dst"],
        words |-> tags_to_pkt(n),
        fields |-> [m EXCEPT !["udp_src"] = m["udp_dst"]],
        tos |-> Shl(m["ip_dscp"], 1, 8) \union m["ip_ecn"],
        info |-> n.info, payload |-> n.payload,
        frag |-> FALSE, headers |-> {"net", "l4", "echo"}]

(***************************************************************************)
(* netflow_to_pkt.  The Ethernet type is the match's, whatever the tags.   *)
(* The type of service is DSCP << 1 | ECN.  TCP flags are not written.     *)
(* Headers that are not written are absent from the packet.                *)
(***************************************************************************)
netflow_to_pkt(n) ==
    LET m == n.match
        ip == m["eth_type"] = ETH_TYPE_IP
        l4 == IF ip \/ m["eth_type"] = ETH_TYPE_IPV6 THEN L4Of(m["ip_proto"]) ELSE {}
        echo == l4 # {} /\ IsEcho(m["ip_proto"], m)
        net == CASE m["eth_type"] = ETH_TYPE_ARP -> ArpFields
                 [] ip -> {"ip_proto", "ipv4_src", "ipv4_dst"}
                 [] m["eth_type"] = ETH_TYPE_IPV6 -> {"ip_proto", "ipv6_src", "ipv6_dst"}
                 [] OTHER -> {}
    IN [eth_type |-> m["eth_type"], eth_src |-> m["eth_src"], eth_dst |-> m["eth_dst"],
        words    |-> tags_to_pkt(n),
        fields   |-> [f \in MatchFields |-> IF f \in net \union l4 THEN m[f] ELSE {}],
        tos      |-> IF ip THEN Shl(m["ip_dscp"], 1, 8) \union m["ip_ecn"] ELSE {},
        info     |-> IF echo THEN n.info ELSE {},
        payload  |-> IF m["eth_type"] = ETH_TYPE_LLDP THEN n.payload ELSE {},
        frag     |-> FALSE,
        headers  |-> (IF net # {} THEN {"net"} ELSE {})
                        \union (IF l4 # {} THEN {"l4"} ELSE {})
                        \union (IF echo THEN {"echo"} ELSE {})]

(***************************************************************************)
(* The VLAN part of pkt_to_netflow: struct vlan has the type before the    *)
(* tag, the word after the Ethernet header has it after.  Each word read   *)
(* adds a level, whose type is the type read from it.  Only the first one  *)
(* sets the match.  cut says that the packet ended where a tag was due.    *)
(***************************************************************************)
parse_vlan(n, p) ==
    LET Type(i) == IF i = 0 THEN p.eth_type ELSE Shr(p.words[i], 16)
        stops == {i \in 0..Len(p.words) : ~IsVlan(Type(i))}
        read == IF stops = {} THEN Len(p.words)
                ELSE CHOOSE i \in stops : \A j \in stops : i <= j
        tag == Trunc(p.words[1], 16)
        tagged == [n EXCEPT !.match =
                      [@ EXCEPT !["vlan_id"]  = tag \intersect VLAN_VID_MASK,
                                !["vlan_pcp"] = Shr(tag \intersect VLAN_PCP_MASK, 13)]]
    IN [flow |-> [(IF read = 0 THEN n ELSE tagged) EXCEPT
                    !.match["eth_type"] = Type(read),
                    !.top = @ + read,
                    !.level = [i \in DOMAIN @ |->
                        IF i \in (n.top + 1)..(n.top + read)
                        THEN [type |-> Type(i - n.top), w |-> Rev32(p.words[i - n.top])]
                        ELSE @[i]]],
        next |-> read + 1,
        cut  |-> stops = {}]

(* The transport part: nothing is read past the end of the packet.         *)
parse_l4(n, p) ==
    LET proto == n.match["ip_proto"]
        read == IF "l4" \in p.headers THEN L4Of(proto) \ {"icmpv6_type", "icmpv6_code"}
                ELSE {}
        m == [f \in MatchFields |-> IF f \in read THEN p.fields[f] ELSE n.match[f]]
    IN [n EXCEPT !.match = m,
                 !.info = IF /\ read # {}
                             /\ \/ proto = IP_PROTO_TCP
                                \/ IsEcho(proto, m) /\ "echo" \in p.headers
                          THEN p.info ELSE @]

(* The ARP part: the addresses are read from requests and replies.         *)
parse_arp(n, p) ==
    LET op == p.fields["arp_op"]
        read == (IF op \subseteq BitRange(0, 7) THEN {"arp_op"} ELSE {})
                  \union (IF op \in {{0}, {1}} THEN ArpFields ELSE {})
    IN IF "net" \in p.headers
       THEN [n EXCEPT !.match = [f \in MatchFields |->
                                    IF f \in read THEN p.fields[f] ELSE @[f]]]
       ELSE n

parse_ip(n, p) ==
    LET read == {"ipv4_src", "ipv4_dst", "ip_proto"}
        m == [[f \in MatchFields |-> IF f \in read THEN p.fields[f] ELSE n.match[f]]
                EXCEPT !["ip_ecn"] = p.tos \intersect {0, 1},
                       !["ip_dscp"] = Shr(p.tos, 2)]
        ip == [n EXCEPT !.match = m]
    IN IF "net" \notin p.headers THEN n
       ELSE IF p.frag THEN ip ELSE parse_l4(ip, p)

parse_mpls(n, p, next) ==
    LET w == p.words[next]
    IN IF next > Len(p.words) THEN n
       ELSE [n EXCEPT !.match =
                [@ EXCEPT !["mpls_label"] = Shr(w \intersect MPLS_LABEL_MASK, 12),
                          !["mpls_tc"] = Shr(w \intersect MPLS_TC_MASK, 9),
                          !["mpls_bos"] = Shr(w \intersect MPLS_S_MASK, 8)]]

(* Only a new flow is filled from a packet: its protocol is 0, so that the *)
(* transport part finds nothing to read past a header other than IPv4.     *)
pkt_to_netflow(p, n) ==
    LET eth == [n EXCEPT !.match = [@ EXCEPT !["eth_type"] = p.eth_type,
                                             !["eth_src"] = p.eth_src,
                                             !["eth_dst"] = p.eth_dst]]
        v == parse_vlan(eth, p)
        f == v.flow
        type == f.match["eth_type"]
    IN CASE v.cut -> f
         [] ~v.cut /\ IsMpls(type) -> parse_mpls(f, p, v.next)
         [] type = ETH_TYPE_LLDP -> [f EXCEPT !.payload = p.payload]
         [] type = ETH_TYPE_ARP -> parse_arp(f, p)
         [] type = ETH_TYPE_IP -> parse_ip(f, p)
         [] OTHER -> f
=============================================================================

----------------------------- MODULE LegacyNode -----------------------------
(***************************************************************************)
(* What hosts and routers do with a flow (net/legacy_node.c, net/host.c,   *)
(* net/router.c, net/app/): the routing table, the ARP table, the flows    *)
(* that wait for an ARP reply and the applications of a host.              *)
(*                                                                         *)
(* A flow is an object that several places of the program point to, so it  *)
(* lives in a memory: mem[f] is the flow at address f, addresses are 1, 2, *)
(* ... in the order of allocation and NULL is 0.  A function that receives *)
(* a flow gives the node and the memory it leaves, and the address it      *)
(* returns.                                                                *)
(*                                                                         *)
(* A node is a record: id, its ports (port -> ip, len, speed), rt, at and  *)
(* buff.  The MAC address of a port is its place, <<node, port>>.  IP      *)
(* addresses are numbers of AddrBits bits, 0 is no address.                *)
(***************************************************************************)
EXTENDS Integers, Sequences, SequencesExt

CONSTANTS
    AddrBits,     \* bits of an IP address (32)
    BUFFER_MAX,   \* of net/node.h (3)
    Hash(_)       \* crc32 of the fields that identify a flow

NULL == 0
NoMac == <<>>
Broadcast == <<"ff:ff:ff:ff:ff:ff">>

(* enum app_type, which are IP protocols too.                              *)
PINGV4 == 1
UDP == 17

(* The fields of struct netflow that these nodes use, as memset clears     *)
(* them; stamp is the time in the data of a ping.                          *)
NoFlow ==
    [eth_type |-> "NONE", eth_src |-> NoMac, eth_dst |-> NoMac, in_port |-> 0,
     ip_proto |-> 0, ipv4_src |-> 0, ipv4_dst |-> 0, l4 |-> <<0, 0>>, icmpv4_type |-> "NONE",
     arp_op |-> "NONE", arp_spa |-> 0, arp_tpa |-> 0, arp_sha |-> NoMac, arp_tha |-> NoMac,
     start_time |-> 0, stamp |-> 0, pkt_cnt |-> 0, byte_cnt |-> 0, exec_id |-> 0,
     out_ports |-> <<>>]

netflow_add_out_port(f, port) == [f EXCEPT !.out_ports = Append(@, port)]

-----------------------------------------------------------------------------
(* net/route_table.c: next hops by prefix, in the order they were added.   *)
Prefix(ip, len) ==
    LET hosts == 2 ^ (AddrBits - len) IN [net |-> (ip \div hosts) * hosts, len |-> len]

route_table_init == [p \in {} |-> <<>>]

add_ipv4_entry(rt, e) ==
    LET p == Prefix(e.ip, e.len)
        hops == IF p \in DOMAIN rt THEN rt[p] ELSE <<>>
    IN  [q \in DOMAIN rt \union {p} |-> IF q = p THEN Append(hops, e) ELSE rt[q]]

(* The entry of the longest prefix that the hash chooses, if there is one. *)
ipv4_lookup(rt, ip, hash) ==
    LET known == {p \in DOMAIN rt : p = Prefix(ip, p.len)}
        best == {p \in known : \A q \in known : q.len <= p.len}
    IN  {rt[p][(hash % Len(rt[p])) + 1] : p \in best}

netflow_calculate_hash(f) ==
    IF f.eth_type = "IP"
    THEN Hash(<<f.ipv4_src, f.ipv4_dst, f.ip_proto, f.l4>>) ELSE Hash(<<>>)

(* net/arp_table.c: of two entries for an address the later one is found.  *)
arp_table_init == [ip \in {} |-> NoMac]
arp_table_add_entry(at, ip, mac) ==
    [i \in DOMAIN at \union {ip} |-> IF i = ip THEN mac ELSE at[i]]

(* legacy_node_init, and legacy_node_set_intf_ipv4 for its ports.          *)
legacy_node_new(id, ports) ==
    LET own(p) == [ip |-> Prefix(ports[p].ip, ports[p].len).net, len |-> ports[p].len,
                   gateway |-> 0, iface |-> p]
        addressed == SetToSeq({p \in DOMAIN ports : ports[p].ip # 0})
        add(rt, p) == add_ipv4_entry(rt, own(p))
    IN  [id |-> id, ports |-> ports, at |-> arp_table_init, buff |-> <<>>,
         rt |-> FoldLeft(add, route_table_init, addressed)]

(* node_flow_push refuses a flow when the tail is at the last element; the *)
(* first element is never used.                                            *)
node_flow_push(n, f) ==
    IF Len(n.buff) = BUFFER_MAX - 1 THEN n ELSE [n EXCEPT !.buff = Append(@, f)]

-----------------------------------------------------------------------------
Result(n, mem, f) == [node |-> n, mem |-> mem, nf |-> f]

(* The ARP request for ip by the port that flow f is to leave by.          *)
ArpRequest(n, f, ip) ==
    LET p == Last(f.out_ports)
    IN  [NoFlow EXCEPT !.eth_type = "ARP", !.eth_src = <<n.id, p>>, !.arp_sha = <<n.id, p>>,
                       !.arp_spa = n.ports[p].ip, !.out_ports = f.out_ports,
                       !.eth_dst = Broadcast, !.arp_tpa = ip, !.arp_op = "REQUEST",
                       !.start_time = f.start_time, !.pkt_cnt = 1, !.byte_cnt = 56]

(* A bug: a flow that is to wait is sent too. *)
resolve_mac_SendsToo(n, mem, f, ip) ==
    IF ip \in DOMAIN n.at
    THEN Result(n, [mem EXCEPT ![f].eth_dst = n.at[ip]], f)
    ELSE Result(node_flow_push(n, f), mem, f)

(* The flow gets its MAC address; or it waits, and an ARP request takes    *)
(* its place.  The caller does not learn that there was no room to wait.   *)
resolve_mac(n, mem, f, ip) ==
    IF ip \in DOMAIN n.at
    THEN Result(n, [mem EXCEPT ![f].eth_dst = n.at[ip]], f)
    ELSE IF \E i \in DOMAIN mem[f].out_ports : mem[f].out_ports[i] \notin DOMAIN n.ports
    THEN Result(n, mem, NULL)
    ELSE Result(node_flow_push(n, f), Append(mem, ArpRequest(n, mem[f], ip)), Len(mem) + 1)

(* ip_lookup and resolve_mac.                                              *)
find_forwarding_ports(n, mem, f, ecmp) ==
    LET hash == IF ecmp THEN netflow_calculate_hash(mem[f]) ELSE 0
        found == ipv4_lookup(n.rt, mem[f].ipv4_dst, hash)
        e == CHOOSE x \in found : TRUE
        ip == IF e.gateway = 0 THEN mem[f].ipv4_dst ELSE e.gateway
        out == [mem EXCEPT ![f] = netflow_add_out_port(@, e.iface)]
    IN IF found = {} THEN Result(n, mem, NULL)
       ELSE IF ip = 0 THEN Result(n, out, NULL)
       ELSE resolve_mac(n, out, f, ip)

(* A bug: the reply gives the requester's own address. *)
ArpReply_Echo(n, f) ==
    netflow_add_out_port(
      [f EXCEPT !.arp_tha = f.eth_src, !.eth_dst = f.eth_src, !.eth_src = <<n.id, f.in_port>>,
                !.arp_spa = f.arp_tpa, !.arp_tpa = f.arp_spa, !.arp_op = "REPLY"], f.in_port)

(* The ARP request in mem[f] is turned into the reply.                     *)
ArpReply(n, f) ==
    LET mac == <<n.id, f.in_port>>
    IN  netflow_add_out_port(
          [f EXCEPT !.arp_sha = mac, !.arp_tha = f.eth_src, !.eth_dst = f.eth_src,
                    !.eth_src = mac, !.arp_spa = f.arp_tpa, !.arp_tpa = f.arp_spa,
                    !.arp_op = "REPLY"], f.in_port)

(* The sender is learned, unless its address is known already.             *)
RecvArpRequest(n, mem, f) ==
    LET fl == mem[f]
        ip == n.ports[fl.in_port].ip
        at == IF fl.arp_spa \in DOMAIN n.at THEN n.at
              ELSE arp_table_add_entry(n.at, fl.arp_spa, fl.eth_src)
    IN IF ip # 0 /\ fl.arp_tpa # ip THEN Result(n, mem, NULL)
       ELSE Result([n EXCEPT !.at = at], [mem EXCEPT ![f] = ArpReply(n, fl)], f)

(* A bug: the flow that waited keeps the time it began to wait at. *)
RecvArpReply_OldTime(n, mem, f) ==
    IF n.buff = <<>> THEN Result(n, mem, NULL)
    ELSE Result([n EXCEPT !.at = arp_table_add_entry(@, mem[f].arp_spa, mem[f].arp_sha),
                          !.buff = Front(@)],
                [mem EXCEPT ![f] = NoFlow, ![Last(n.buff)].eth_dst = mem[f].arp_sha],
                Last(n.buff))

(* The flow that came last to wait is sent to the sender of the reply.     *)
RecvArpReply(n, mem, f) ==
    LET fl == mem[f]
        learned == [n EXCEPT !.at = arp_table_add_entry(@, fl.arp_spa, fl.arp_sha)]
        cleared == [mem EXCEPT ![f] = NoFlow]
        top == Last(n.buff)
    IN IF n.buff = <<>> THEN Result(learned, cleared, NULL)
       ELSE Result([learned EXCEPT !.buff = Front(@)],
                   [cleared EXCEPT ![top].start_time = fl.start_time,
                                   ![top].eth_dst = fl.arp_sha], top)

l2_recv_netflow(n, mem, f) ==
    LET fl == mem[f]
    IN IF \/ fl.in_port \notin DOMAIN n.ports
          \/ fl.eth_dst \notin {<<n.id, fl.in_port>>, Broadcast}
       THEN Result(n, mem, NULL)
       ELSE IF fl.eth_type = "ARP" /\ fl.arp_op = "REQUEST" THEN RecvArpRequest(n, mem, f)
       ELSE IF fl.eth_type = "ARP" /\ fl.arp_op = "REPLY" THEN RecvArpReply(n, mem, f)
       ELSE Result(n, mem, f)

is_l3_destination(n, f) ==
    /\ f.in_port \in DOMAIN n.ports
    /\ n.ports[f.in_port].ip # 0 /\ f.ipv4_dst # 0
    /\ n.ports[f.in_port].ip = f.ipv4_dst

-----------------------------------------------------------------------------
(* net/app/ping.c and net/app/raw_udp.c.                                   *)
ping_start(start, args) ==
    [NoFlow EXCEPT !.eth_type = "IP", !.ip_proto = PINGV4, !.ipv4_dst = args.ip_dst,
                   !.icmpv4_type = "ECHO", !.pkt_cnt = 1, !.byte_cnt = 64,
                   !.stamp = start, !.start_time = start]

UdpPacketSize == 1470 + 34

raw_udp_start(start, args) ==
    LET pkt_cnt == args.rate \div (UdpPacketSize * 8)
    IN  [NoFlow EXCEPT !.eth_type = "IP", !.ip_proto = UDP, !.ipv4_dst = args.ip_dst,
                       !.l4 = args.l4, !.pkt_cnt = pkt_cnt,
                       !.byte_cnt = pkt_cnt * UdpPacketSize, !.start_time = start]

(* An echo request becomes the reply, which is to be sent; nothing else    *)
(* is.                                                                     *)
ping_handle_netflow(f) ==
    IF f.icmpv4_type = "ECHO"
    THEN {[f EXCEPT !.icmpv4_type = "ECHO_REPLY", !.ipv4_dst = f.ipv4_src]} ELSE {}
raw_udp_handle_netflow(f) == {}

(* app_creator.                                                            *)
app_start(type, start, args) ==
    IF type = UDP THEN raw_udp_start(start, args) ELSE ping_start(start, args)
app_handle(type, f) ==
    IF type = UDP THEN raw_udp_handle_netflow(f) ELSE ping_handle_netflow(f)

(* The addresses of the port the flow at `from' leaves by, in the flow at  *)
(* `to'.                                                                   *)
FillSource(n, mem, to, from) ==
    IF to = NULL \/ mem[from].out_ports = <<>> THEN mem
    ELSE LET p == Last(mem[from].out_ports)
         IN  [mem EXCEPT ![to].ipv4_src = n.ports[p].ip, ![to].eth_src = <<n.id, p>>]

(* The flow is sent on behalf of the host, or is NULL.                     *)
HostForward(n, mem, f, look) ==
    LET r == find_forwarding_ports(n, mem, f, FALSE)
    IN  Result(r.node, FillSource(n, r.mem, r.nf, IF look = NULL THEN r.nf ELSE look), r.nf)

host_recv_netflow(n, mem, f, apps) ==
    LET eth_type == mem[f].eth_type
        l2 == l2_recv_netflow(n, mem, f)
        fl == l2.mem[l2.nf]
        answer == app_handle(fl.ip_proto, fl)
        drop == Result(l2.node, l2.mem, NULL)
    IN IF l2.nf = NULL THEN drop
       ELSE IF eth_type = "IP"
       THEN IF is_l3_destination(n, fl) /\ fl.ip_proto \in apps /\ answer # {}
            THEN HostForward(l2.node, [l2.mem EXCEPT ![f] = CHOOSE a \in answer : TRUE], f, f)
            ELSE drop
       ELSE IF eth_type = "ARP"
       THEN IF fl.eth_type = "IP"
            THEN Result(l2.node, FillSource(n, l2.mem, l2.nf, l2.nf), l2.nf) ELSE l2
       ELSE drop

(* exec_cnt is an unsigned number; -1 stands for 2^32 - 1 and fewer.       *)
Decrement(cnt) == IF cnt <= 0 THEN -1 ELSE cnt - 1

(* host_execute_app: the new flow.                                         *)
host_execute_app(n, mem, exec) ==
    LET flow == [app_start(exec.type, exec.start_time, exec.args) EXCEPT !.exec_id = exec.id]
    IN  HostForward(n, Append(mem, flow), Len(mem) + 1, NULL)

router_recv_netflow(n, mem, f, ecmp) ==
    LET eth_type == mem[f].eth_type
        l2 == l2_recv_netflow(n, mem, f)
    IN IF l2.nf = NULL THEN l2
       ELSE IF eth_type = "IP"
       THEN IF is_l3_destination(n, l2.mem[l2.nf]) THEN Result(l2.node, l2.mem, NULL)
            ELSE find_forwarding_ports(l2.node, l2.mem, l2.nf, ecmp)
       ELSE IF eth_type = "ARP" THEN l2
       ELSE Result(l2.node, l2.mem, NULL)

(* fib_add: a route per entry of the message.  Its port is that of the     *)
(* route to the next hop, 0 when there is none.                            *)
fib_add(n, routes) ==
    LET add(rt, r) ==
            LET via == ipv4_lookup(rt, r.next_hop, 0)
                port == IF via = {} THEN 0 ELSE (CHOOSE e \in via : TRUE).iface
            IN  add_ipv4_entry(rt, [ip |-> Prefix(r.addr, r.len).net, len |-> r.len,
                                    gateway |-> r.next_hop, iface |-> port])
    IN  [n EXCEPT !.rt = FoldLeft(add, @, routes)]
=============================================================================

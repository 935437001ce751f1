------------------------------ MODULE Topology ------------------------------
(***************************************************************************)
(* The network as the user gives it (net/topology.c), and the file it can  *)
(* be read from (lib/json_topology.c).                                     *)
(*                                                                         *)
(* A hash table is a sequence of its entries in the order of insertion,    *)
(* which is the order HASH_ITER takes them in.  HASH_ADD does not look for *)
(* an entry with the same key; HASH_FIND finds the one that came last.     *)
(***************************************************************************)
EXTENDS Integers, Sequences, SequencesExt, TLC

DATAPATH == 0
ROUTER == 1
HOST == 3

topology_new ==
    [nodes |-> <<>>, links |-> <<>>, dps |-> <<>>, routers |-> <<>>, hosts |-> <<>>,
     n_dps |-> 0, n_routers |-> 0, n_hosts |-> 0, n_links |-> 0]

(* HASH_FIND: the entry with the key, if there is one.                     *)
Find(table, key) ==
    LET at == {i \in DOMAIN table : table[i].key = key}
    IN  {table[i].val : i \in {j \in at : \A k \in at : k <= j}}
Entry(key, val) == [key |-> key, val |-> val]

(* A bug: a router is entered by its uuid. *)
topology_add_router_ByUuid(t, uuid, router_id) ==
    [t EXCEPT !.routers = Append(@, Entry(uuid, uuid)),
              !.nodes = Append(@, Entry(uuid, ROUTER)), !.n_routers = @ + 1]

(* A node is entered by its uuid, and by the id it has at that time.       *)
topology_add_router(t, uuid, router_id) ==
    [t EXCEPT !.routers = Append(@, Entry(router_id, uuid)),
              !.nodes = Append(@, Entry(uuid, ROUTER)), !.n_routers = @ + 1]
topology_add_datapath(t, uuid, dp_id) ==
    [t EXCEPT !.dps = Append(@, Entry(dp_id, uuid)),
              !.nodes = Append(@, Entry(uuid, DATAPATH)), !.n_dps = @ + 1]
topology_add_host(t, uuid) ==
    [t EXCEPT !.hosts = Append(@, Entry(uuid, uuid)),
              !.nodes = Append(@, Entry(uuid, HOST)), !.n_hosts = @ + 1]

topology_node(t, uuid) == Find(t.nodes, uuid)
topology_datapath_by_dpid(t, dp_id) == Find(t.dps, dp_id)
topology_router_by_id(t, router_id) == Find(t.routers, router_id)

(* One direction of a link.                                                *)
DirectedLink(t, a, b, bw, latency) ==
    [t EXCEPT !.links = Append(@, Entry(a, [node1 |-> a, node2 |-> b, bw |-> bw,
                                            latency |-> latency]))]

(* A link between two ends, <<uuid, port>>, in both directions; nothing    *)
(* happens when a node is not there.                                       *)
topology_add_link(t, a, b, bw, latency) ==
    IF topology_node(t, a[1]) = {} \/ topology_node(t, b[1]) = {} THEN t
    ELSE [DirectedLink(DirectedLink(t, a, b, bw, latency), b, a, bw, latency)
            EXCEPT !.n_links = @ + 1]

topology_next_hop(t, end) ==
    {[end |-> l.node2, latency |-> l.latency] : l \in Find(t.links, end)}

-----------------------------------------------------------------------------
(* The file: the datapaths, and for each link its members, a key and a     *)
(* number each.  A number is the sequence of its digits.                   *)
LinkKeys == <<"switchX", "switchY", "portX", "portY", "delay", "bw">>

(* "Retain the topology format's hexadecimal integer interpretation".      *)
parse_number(text) == FoldLeft(LAMBDA n, digit : 16 * n + digit, 0, text)

(* The numbers of a link, and whether its keys are those expected.         *)
LinkSpec(l) ==
    LET num(k) == parse_number(l[k].number)
    IN  [switchX |-> num(1), switchY |-> num(2), portX |-> num(3), portY |-> num(4),
         delay |-> num(5), bw |-> num(6)]
Keyed(l) == \A k \in DOMAIN LinkKeys : l[k].key = LinkKeys[k]

(* A bug: the datapaths stay in the order of the file. *)
parse_topology_Unsorted(file) ==
    LET dps == [i \in DOMAIN file.dps |-> parse_number(file.dps[i])]
        links == [i \in DOMAIN file.links |-> LinkSpec(file.links[i])]
    IN  {[dps |-> dps, links |-> links]}

(* What parse_topology makes of the file, if it does not exit: the keys    *)
(* are those expected, in that order, and the datapaths of the links are   *)
(* in the list.                                                            *)
parse_topology(file) ==
    LET dps == [i \in DOMAIN file.dps |-> parse_number(file.dps[i])]
        links == [i \in DOMAIN file.links |-> LinkSpec(file.links[i])]
    IN  IF \A i \in DOMAIN file.links :
              Keyed(file.links[i]) /\ {links[i].switchX, links[i].switchY} \subseteq Range(dps)
        THEN {[dps |-> SortSeq(dps, <), links |-> links]} ELSE {}

(* The datapaths get the uuids after `uuid'; the links name them by dpid,  *)
(* and give their delay and bandwidth in that order.                       *)
topology_from_ptopo(uuid, p) ==
    LET add(t, i) == topology_add_datapath(t, uuid + i, p.dps[i])
        nodes == FoldLeft(add, topology_new, [i \in DOMAIN p.dps |-> i])
        link(t, l) == topology_add_link(t, <<l.switchX, l.portX>>, <<l.switchY, l.portY>>,
                                        l.delay, l.bw)
    IN  FoldLeft(link, nodes, p.links)
=============================================================================

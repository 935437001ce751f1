----------------------------- MODULE MCDatapath -----------------------------
(***************************************************************************)
(* A switch of two ports and two tables.  Flows differ in their input port *)
(* and one bit of their destination; the entries match every flow, that    *)
(* bit, or a bit of the metadata.  The variable use picks the flow mods:   *)
(* those of a switch (OpenFlowSwitch), or every kind of message and        *)
(* instruction.                                                            *)
(***************************************************************************)
EXTENDS Datapath

P1 == {0}
P2 == {1}
P3 == {0, 1}
TwoPorts == {P1, P2}

Arrival(port, dst, meta) ==
    [netflow_init EXCEPT !.match = [@ EXCEPT !["in_port"] = port, !["ipv4_dst"] = dst,
                                             !["metadata"] = meta],
                         !.pkt_cnt = 1, !.byte_cnt = 2]

TwoArrivals == {Arrival(P1, {}, {}), Arrival(P1, {0}, {2})}
AllArrivals == TwoArrivals \union {Arrival(P3, {0}, {})}

AnyMatch == [key |-> {}, mask |-> {}, priority |-> 1]
DstMatch == [key |-> {<<"ipv4_dst", 0>>}, mask |-> {<<"ipv4_dst", 0>>}, priority |-> 2]
MetaMatch == [key |-> {<<"metadata", 2>>}, mask |-> {<<"metadata", 2>>}, priority |-> 3]

FlowModOf(command, table, m, insts, cookie) ==
    [command |-> command, table_id |-> table, key |-> m.key, mask |-> m.mask,
     priority |-> m.priority, cookie |-> cookie, hard_timeout |-> 0,
     idle_timeout |-> 0, time |-> 0, insts |-> insts]

Output(p) == [type |-> "OFPAT_OUTPUT", port |-> p]
Apply(acts) == [type |-> "OFPIT_APPLY_ACTIONS", actions |-> acts]
Write(acts) == [type |-> "OFPIT_WRITE_ACTIONS", actions |-> acts]
Goto(id) == [type |-> "OFPIT_GOTO_TABLE", table_id |-> id]
Clear == [type |-> "OFPIT_CLEAR_ACTIONS"]
Metadata(w) == [type |-> "OFPIT_WRITE_METADATA", metadata |-> w, metadata_mask |-> w]
Group == [type |-> "OFPAT_GROUP", group_id |-> 1]
Push(type, eth) == [type |-> type, eth_type |-> eth]
PopMpls == [type |-> "OFPAT_POP_MPLS", eth_type |-> ETH_TYPE_IP]

ApplyBoth == <<Apply(<<Output(P2), Output(P1)>>)>>
WriteLast == <<Write(<<Output(P1), Group, Output(P2)>>)>>

(* Tables in use by the refinement: apply, write and goto.                 *)
SwitchMods ==
    {FlowModOf("ADD", 0, AnyMatch, <<Goto(1)>>, 1),
     FlowModOf("ADD", 0, DstMatch, ApplyBoth, 1)}
    \union {FlowModOf("ADD", 1, AnyMatch, WriteLast, 2),
            FlowModOf("ADD", 1, MetaMatch, ApplyBoth, 3),
            FlowModOf("MODIFY", 0, DstMatch, WriteLast, 4),
            FlowModOf("MODIFY_STRICT", 1, AnyMatch, <<Goto(1)>>, 5),
            FlowModOf("DELETE", 0, AnyMatch, <<>>, 6),
            FlowModOf("DELETE", 1, MetaMatch, <<>>, 6)}

(* Every instruction and every kind of action that a switch executes.      *)
MessageMods ==
    {FlowModOf("ADD", id, AnyMatch, insts, 1) : id \in {0, 1},
        insts \in {WriteLast, <<Goto(1)>>, <<Clear>>, <<Metadata({1})>>, <<>>,
                   <<Apply(<<PopMpls, [type |-> "OFPAT_POP_VLAN"], Group,
                             Push("OFPAT_PUSH_VLAN", ETH_TYPE_MPLS)>>)>>,
                   <<Apply(<<>>), Write(<<Output(P1)>>)>>}}
    \union {FlowModOf("DELETE_STRICT", 0, AnyMatch, <<>>, 7),
            FlowModOf("MODIFY_STRICT", 0, AnyMatch, ApplyBoth, 8)}

StatsMods == {FlowModOf("ADD", id, AnyMatch, ApplyBoth, 1) : id \in {0, 1}}
PairMods == {FlowModOf("ADD", 0, AnyMatch, <<Apply(<<Output(P2)>>), Goto(1)>>, 1)}
SetFieldMods == {FlowModOf("ADD", 0, AnyMatch, <<Apply(<<[type |-> "OFPAT_SET_FIELD"]>>)>>, 1)}
PushMods == {FlowModOf("ADD", 0, AnyMatch,
                <<Apply(<<Push("OFPAT_PUSH_VLAN", ETH_TYPE_VLAN), Output(P2)>>)>>, 1)}

PacketOf(type) == [eth_type |-> type, eth_src |-> {}, eth_dst |-> {}, words |-> <<>>,
                   fields |-> [f \in MatchFields |-> {}], tos |-> {}, info |-> {},
                   payload |-> {}, frag |-> FALSE, headers |-> {}]
TwoPacketOuts ==
    {[buffer_id |-> 3, in_port |-> P1, data |-> {}, bytes |-> 0, time |-> 0,
      actions |-> <<Output(P2)>>],
     [buffer_id |-> OFP_NO_BUFFER, in_port |-> P1, data |-> {PacketOf(ETH_TYPE_LLDP)},
      bytes |-> 2, time |-> 0, actions |-> <<Output(P1), Output(P2)>>]}

-----------------------------------------------------------------------------
(* The constants of this module give the switch.                           *)
Messages == INSTANCE Datapath WITH
    Arrivals <- AllArrivals, FlowMods <- MessageMods,
    Queries <- {"FLOW", "AGGREGATE", "PORT"}, MaxFlows <- 1

VARIABLE use

UseInit ==
    \/ use = "switch" /\ Init
    \/ use = "messages" /\ Messages!Init

UseNext ==
    \/ use = "switch" /\ Next /\ UNCHANGED use
    \/ use = "messages" /\ Messages!Next /\ UNCHANGED use

UseSpec == UseInit /\ [][UseNext]_<<vars, use>>

(* Every step of the datapath is one of the switch that a controller is    *)
(* promised (ImplementsSwitch), for rules without timeouts that have one   *)
(* priority for a match.                                                   *)
SwitchImplemented ==
    /\ Switch!Init
    /\ [][use = "switch" => Switch!Next \/ UNCHANGED Switch!vars]_<<vars, use>>

(* A controller that reads back its flows finds the entries that the       *)
(* datapath goes by (StatsDescribeFlows).                                  *)
FlowsReadBack == [][use = "messages" => Messages!StatsStep]_<<vars, use>>
=============================================================================

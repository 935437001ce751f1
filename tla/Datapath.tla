------------------------------ MODULE Datapath ------------------------------
(***************************************************************************)
(* A switch (net/datapath.c): its flow tables and port counters, the       *)
(* pipeline that a flow of packets goes through, and the messages from the *)
(* controller that dp_control_handle_control_msg hands to a handler.       *)
(*                                                                         *)
(* Ports are words, as in the match of a flow.  The handlers run to the    *)
(* end one at a time, in the thread of the event loop.                     *)
(***************************************************************************)
EXTENDS OfMessages

CONSTANTS
    Ports,          \* the ports of the switch
    Tables,         \* the tables in use: 0..n (MAX_TABLES is 64)
    Arrivals,       \* the flows that arrive: records of match, counts and time
    FlowMods,       \* the flow mods, with the command of each
    PacketOuts,     \* the packet-outs
    Queries,        \* the kinds of request for statistics
    MaxFlows,       \* bound: how many flows a table holds
    MaxCount        \* bound on the packets that a port counts

VARIABLES
    tables,         \* dp->tables
    ports,          \* the counters of dp->base.ports
    out,            \* the flow that the last handler left to forward, if any
    reply           \* the reply to the last message, if any

vars == <<tables, ports, out, reply>>

(* The operators of FlowTable, on a table that is a parameter.             *)
FT == INSTANCE FlowTable WITH Bits <- {}, Matches <- {}, Priorities <- {},
                              Timeouts <- {}, Instructions <- {},
                              MaxTime <- 0, MaxFlows <- 0, ft <- tables[0]

OFP_NO_BUFFER == -1

-----------------------------------------------------------------------------
(* The handlers of net/dp_actions.c, by the table handle_action: the push  *)
(* of a VLAN tag has the handler of an MPLS tag and the other way round.   *)
(* The types without a handler are not executed by the model.              *)
execute_action(n, a) ==
    CASE a.type = "POP_VLAN"  -> netflow_pop_vlan(n)
      [] a.type = "POP_MPLS"  -> netflow_pop_mpls(n, a.eth_type)
      [] a.type = "PUSH_MPLS" -> netflow_push_vlan(n, a.eth_type)
      [] a.type = "PUSH_VLAN" -> netflow_push_mpls(n, a.eth_type)
      [] a.type = "GROUP"     -> n
      [] a.type = "OUTPUT"    -> netflow_add_out_port(n, a.port)

execute_action_list(al, n) == FoldLeft(execute_action, n, al)

execute_action_set(as, n) == execute_action_list(InOrder(as), n)

(* The flow, the action set and the next table that the instructions of a  *)
(* flow entry leave.  The mask of the metadata is not used.                *)
execute_instructions(is, n, as) ==
    LET applied == IF "APPLY_ACTIONS" \in is.active
                   THEN execute_action_list(is.apply, n) ELSE n
        kept == IF "CLEAR_ACTIONS" \in is.active THEN {} ELSE as
    IN [flow |-> IF "WRITE_METADATA" \in is.active
                 THEN [applied EXCEPT !.match["metadata"] = is.metadata] ELSE applied,
        set  |-> IF "WRITE_ACTIONS" \in is.active
                 THEN action_set_merge(kept, is.write) ELSE kept,
        next |-> IF "GOTO_TABLE" \in is.active THEN is.goto ELSE 0]

(* The flow entry found by a lookup counts the packets of n.               *)
CountFlow(t, n) ==
    LET key == KeyBits(n.match)
        m == FT!Winner(t, key, n.start_time)
        k == FT!Hit(t[m], key)
    IN IF m = 0 THEN t
       ELSE [t EXCEPT ![m].flows[k].pkt_cnt = @ + n.pkt_cnt,
                      ![m].flows[k].byte_cnt = @ + n.byte_cnt]

(***************************************************************************)
(* The loop of dp_recv_netflow, from table id on: the tables and the flow  *)
(* it leaves, and whether the flow is forwarded.                           *)
(***************************************************************************)
RECURSIVE Pipeline(_, _, _, _)
Pipeline(ts, id, n, as) ==
    LET key == KeyBits(n.match)
        found == FT!LookupResult(ts[id], key, n.start_time)
        ts2 == [ts EXCEPT ![id] =
                   FT!flow_table_lookup(CountFlow(@, n), key, n.start_time)]
        f == CHOOSE g \in found : TRUE
        r == execute_instructions(f.insts, [n EXCEPT !.metadata.cookie = f.cookie], as)
        last == execute_action_set(r.set, r.flow)
    IN IF found = {} THEN [tables |-> ts2, flow |-> n, forward |-> FALSE]
       ELSE IF r.next > id
       THEN Pipeline(ts2, r.next, [r.flow EXCEPT !.metadata.table_id = r.next], r.set)
       ELSE [tables |-> ts2, flow |-> last, forward |-> last.out_ports # <<>>]

(* A bug: the flow is looked up with the metadata of the last switch.      *)
EnterPipeline_KeepsMetadata(n) ==
    [n EXCEPT !.metadata.buffer_id = OFP_NO_BUFFER, !.metadata.table_id = 0]

EnterPipeline(n) ==
    [n EXCEPT !.metadata.buffer_id = OFP_NO_BUFFER, !.metadata.table_id = 0,
              !.match["metadata"] = {}]

dp_recv_netflow(ts, n) == Pipeline(ts, 0, EnterPipeline(n), {})

-----------------------------------------------------------------------------
Init == /\ tables = [id \in Tables |-> <<>>]
        /\ ports = [p \in Ports |-> [rx_packets |-> 0, rx_bytes |-> 0,
                                     tx_packets |-> 0, tx_bytes |-> 0]]
        /\ out = {}
        /\ reply = {}

(* The flow arrives at a port.  It is dropped when the switch does not     *)
(* have the port, when no entry matches, and without a port to leave by.   *)
RecvNetflow ==
    \E n \in Arrivals :
        LET r == dp_recv_netflow(tables, n)
            p == n.match["in_port"]
        IN IF p \in Ports
           THEN /\ ports[p].rx_packets + n.pkt_cnt <= MaxCount
                /\ tables' = r.tables
                /\ ports' = [ports EXCEPT ![p].rx_packets = @ + n.pkt_cnt,
                                          ![p].rx_bytes = @ + n.byte_cnt]
                /\ out' = IF r.forward THEN {r.flow} ELSE {}
                /\ UNCHANGED reply
           ELSE /\ out' = {}
                /\ UNCHANGED <<tables, ports, reply>>

(* dp_send_netflow: the flow leaves by the first of its ports.             *)
SendNetflow ==
    \E n \in out :
        LET p == Head(n.out_ports)
        IN /\ n.out_ports # <<>>
           /\ p \in Ports => ports[p].tx_packets + n.pkt_cnt <= MaxCount
           /\ ports' = IF p \in Ports
                       THEN [ports EXCEPT ![p].tx_packets = @ + n.pkt_cnt,
                                          ![p].tx_bytes = @ + n.byte_cnt]
                       ELSE ports
           /\ out' = {[n EXCEPT !.out_ports = Tail(@)]}
           /\ UNCHANGED <<tables, reply>>

(* dp_handle_flow_mod.                                                     *)
HandleFlowMod ==
    \E fm \in FlowMods :
        LET f == unpack_flow_mod(fm)
            t == tables[f.table_id]
        IN /\ fm.command = "ADD" => Len(FT!Flows(t)) < MaxFlows
           /\ tables' = [tables EXCEPT ![f.table_id] =
                CASE fm.command = "ADD" -> FT!add_flow(t, f, fm.time)
                  [] fm.command = "MODIFY" -> FT!mod_flow_non_strict(t, f, fm.time)
                  [] fm.command = "MODIFY_STRICT" -> FT!mod_flow_strict(t, f, fm.time)
                  [] fm.command = "DELETE" -> FT!del_flow_non_strict(t, f)
                  [] fm.command = "DELETE_STRICT" -> FT!del_flow_strict(t, f)]
           /\ reply' = {}
           /\ UNCHANGED <<ports, out>>

(* dp_get_stats_flows, for a request that has been cleared: table 0, and a *)
(* match that covers every flow.                                           *)
StatsTables(req) == [tables EXCEPT ![0] = FT!flow_table_stats(@, {}, {}, req.time)]

(* dp_handle_flow_stats_req.                                               *)
HandleFlowStats ==
    \E id \in {i \in Tables : "FLOW" \in Queries} :
        LET req == [table_id |-> id, time |-> 0]
            flows == FT!Flows(StatsTables(req)[0])
        IN /\ tables' = StatsTables(req)
           /\ reply' = IF flows = <<>> THEN {}
                       ELSE {[kind |-> "FLOW", req |-> req,
                              entries |-> [n \in DOMAIN flows |->
                                              pack_flow_stats_entry(flows[n])]]}
           /\ UNCHANGED <<ports, out>>

(* dp_handle_aggregate_stats_req.                                          *)
HandleAggregateStats ==
    \E id \in {i \in Tables : "AGGREGATE" \in Queries} :
        LET req == [table_id |-> id, time |-> 0]
            flows == FT!Flows(StatsTables(req)[0])
        IN /\ tables' = StatsTables(req)
           /\ reply' = IF flows = <<>> THEN {}
                       ELSE {[kind |-> "AGGREGATE", req |-> req,
                              body |-> pack_aggregate_stats_reply(flows)]}
           /\ UNCHANGED <<ports, out>>

(* dp_handle_port_stats_req: the counters of all ports, or of one that the *)
(* switch has.                                                             *)
HandlePortStats ==
    \E wanted \in {Ports} \union {{p} : p \in Ports} :
        /\ "PORT" \in Queries
        /\ reply' = {[kind |-> "PORT_STATS", body |-> [p \in wanted |-> ports[p]]]}
        /\ UNCHANGED <<tables, ports, out>>

(* dp_handle_port_desc, the handler of four kinds of request.              *)
HandlePortDesc == /\ "PORT" \in Queries
                  /\ reply' = {[kind |-> "PORT_DESC", body |-> Ports]}
                  /\ UNCHANGED <<tables, ports, out>>

(* dp_handle_pkt_out: the actions of the message are executed on its       *)
(* packet, and the tables are not consulted.                               *)
HandlePacketOut ==
    \E po \in PacketOuts :
        LET u == unpack_packet_out(po, [netflow_init EXCEPT !.start_time = po.time])
        IN /\ out' = {execute_action_list(u.actions, u.flow)}
           /\ reply' = {}
           /\ UNCHANGED <<tables, ports>>

Next == \/ RecvNetflow \/ SendNetflow \/ HandleFlowMod \/ HandleFlowStats
        \/ HandleAggregateStats \/ HandlePortStats \/ HandlePortDesc \/ HandlePacketOut

Spec == Init /\ [][Next]_vars

-----------------------------------------------------------------------------
(* Tables, counters, the flow to forward and the reply have their types.   *)
TypeOK ==
    /\ \A id \in Tables : \A n \in DOMAIN tables[id] :
          \A k \in DOMAIN tables[id][n].flows : tables[id][n].flows[k].table_id = id
    /\ \A p \in Ports : ports[p].rx_packets \in 0..MaxCount
    /\ \A n \in out : n.top \in STACK_EMPTY..(MaxStackSize - 1)

StatsStep ==
    \A r \in reply' : reply' # reply /\ r.kind = "FLOW" =>
        \A n \in DOMAIN r.entries :
            \E id \in Tables : \E k \in DOMAIN FT!Flows(tables'[id]) :
                LET f == FT!Flows(tables'[id])[k] e == r.entries[n]
                IN  /\ e.table_id = id /\ e.cookie = f.cookie
                    /\ e.priority = f.priority /\ e.packet_count = f.pkt_cnt
                    /\ unpack_instructions(e.insts) = f.insts

(* The entries of a flow statistics reply can be installed as they are: a  *)
(* controller that reads back its flows finds the instructions by which    *)
(* the datapath goes, whatever way they were packed.                       *)
StatsDescribeFlows == [][StatsStep]_vars

(* "ID of table to read (from ofp_table_stats), OFPTT_ALL for all tables"  *)
(* (ofl.h:46): the entries of a reply are of the table that was asked for. *)
StatsOfRequestedTable ==
    \A r \in reply : r.kind = "FLOW" =>
        \A n \in DOMAIN r.entries : r.entries[n].table_id = r.req.table_id

(* "Number of packets in flows", "Number of bytes in flows"                *)
(* (openflow.h:1869): the counts of an aggregate reply are the sums of the *)
(* counts of the entries of table 0 when it is sent.                       *)
AggregateIsSum ==
    [][\A r \in reply' : reply' # reply /\ r.kind = "AGGREGATE" =>
          LET flows == FT!Flows(tables'[0])
          IN  /\ r.body.packet_count = FoldLeft(LAMBDA s, f : s + f.pkt_cnt, 0, flows)
              /\ r.body.byte_count = FoldLeft(LAMBDA s, f : s + f.byte_cnt, 0, flows)]_vars

InstructionTypes(insts) == {insts[n].type : n \in DOMAIN insts}

(* "Instruction set - 0 or more" (openflow.h:1187): the entry that a flow  *)
(* mod has installed has the instructions of that message.                 *)
AllInstructionsInstalled ==
    \A id \in Tables : \A k \in DOMAIN FT!Flows(tables[id]) : \A fm \in FlowMods :
        LET f == FT!Flows(tables[id])[k]
        IN fm.cookie = f.cookie =>
             InstructionTypes(pack_instructions(f.insts)) = InstructionTypes(fm.insts)

(* "Set a header field using OXM TLV format" (openflow.h:940), "Push a new *)
(* MPLS tag" (openflow.h:934): an entry installed with one instruction to  *)
(* apply actions has the actions of the message.                           *)
AllActionsInstalled ==
    \A id \in Tables : \A k \in DOMAIN FT!Flows(tables[id]) : \A fm \in FlowMods :
        LET f == FT!Flows(tables[id])[k]
        IN fm.cookie = f.cookie => pack_action_list(f.insts.apply) = fm.insts[1].actions

(* "Push a new VLAN tag" (openflow.h:932): a flow that leaves a switch     *)
(* whose one entry pushes a VLAN tag and outputs has that tag outermost.   *)
PushedTagIsThere ==
    \A n \in out : n.metadata.cookie # 0 => netflow_is_vlan_tagged(n)

-----------------------------------------------------------------------------
(* The switch that this one implements: the entries that a lookup can      *)
(* find, with what they do.                                                *)
OutputsOf(acts) ==
    LET outputs == SelectSeq(acts, LAMBDA a : a.type = "OUTPUT")
    IN  [n \in DOMAIN outputs |-> outputs[n].port]

AbstractInst(is) ==
    IF "GOTO_TABLE" \in is.active THEN [kind |-> "goto", table |-> is.goto]
    ELSE [kind |-> "output",
          ports |-> OutputsOf(IF "APPLY_ACTIONS" \in is.active
                              THEN is.apply ELSE InOrder(is.write))]

AbstractRule(f) == [table |-> f.table_id, key |-> f.key, mask |-> f.mask,
                    priority |-> f.priority, inst |-> AbstractInst(f.insts),
                    pkts |-> f.pkt_cnt]

VisibleRules ==
    UNION {UNION {{AbstractRule(tables[id][n].flows[k]) :
                      k \in {i \in DOMAIN tables[id][n].flows :
                               FT!Find(tables[id][n].flows, tables[id][n].flows[i].key) = i}} :
                  n \in DOMAIN tables[id]} : id \in Tables}

Switch == INSTANCE OpenFlowSwitch WITH
    Keys <- {KeyBits([n.match EXCEPT !["metadata"] = {}]) : n \in Arrivals},
    Rules <- {AbstractRule(unpack_flow_mod(fm)) : fm \in FlowMods},
    Counts <- {n.pkt_cnt : n \in Arrivals},
    OutLists <- {OutputsOf(unpack_actions(po.actions)) : po \in PacketOuts},
    rules <- VisibleRules,
    sent <- IF out = {} THEN <<>> ELSE (CHOOSE n \in out : TRUE).out_ports

(* The datapath forwards every flow by the best of the rules it has been   *)
(* given, from table to table, and counts its packets in each of them.     *)
ImplementsSwitch == Switch!Spec
=============================================================================

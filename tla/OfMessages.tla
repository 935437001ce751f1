----------------------------- MODULE OfMessages -----------------------------
(***************************************************************************)
(* The OpenFlow messages of a datapath: what lib/of_unpack.c makes of a    *)
(* message from the controller, and what lib/of_pack.c puts in a reply.    *)
(*                                                                         *)
(* On the wire an action is a record with an OFPAT type, an instruction a  *)
(* record with an OFPIT type; a match is the set of the pairs of a field   *)
(* and a bit that are set in it, as in FlowTable.  The actions of the      *)
(* program (lib/action.c) have the types of enum action_set_order.         *)
(***************************************************************************)
EXTENDS Netflow, SequencesExt

(* struct ofl_flow_key as the bits of FlowTable.                           *)
KeyBits(m) == UNION {{<<f, b>> : b \in m[f]} : f \in DOMAIN m}

(* unpack_match_fields copies every field; pack_match_fields copies the    *)
(* ICMPv6 code of the reply, which is 0, to itself.                        *)
unpack_match_fields(bits) == bits
pack_match_fields(bits) == {fb \in bits : fb[1] # "icmpv6_code"}

-----------------------------------------------------------------------------
(* enum action_set_order.                                                  *)
ActionSetOrder ==
    <<"METER", "COPY_TTL_INWARDS", "POP_VLAN", "POP_MPLS", "PUSH_MPLS", "PUSH_VLAN",
      "COPY_TTL_OUTWARDS", "DECREMENT_TTL", "SET_MPLS_TTL", "DECREMENT_MPLS_TTL",
      "SET_FIELD", "QOS", "GROUP", "OUTPUT">>

(* A set has at most one action of a type.                                 *)
action_set_add(as, act) == {a \in as : a.type # act.type} \union {act}
action_set_merge(as, other) ==
    {a \in as : \A b \in other : a.type # b.type} \union other

(* The constructors of lib/action.c, by the action on the wire.  A push of *)
(* an MPLS tag is given the type of a pop.                                 *)
action_new(w) ==
    CASE w.type = "OFPAT_OUTPUT"    -> [type |-> "OUTPUT", port |-> w.port]
      [] w.type = "OFPAT_GROUP"     -> [type |-> "GROUP", group_id |-> w.group_id]
      [] w.type = "OFPAT_PUSH_VLAN" -> [type |-> "PUSH_VLAN", eth_type |-> w.eth_type]
      [] w.type = "OFPAT_PUSH_MPLS" -> [type |-> "POP_MPLS", eth_type |-> w.eth_type]
      [] w.type = "OFPAT_POP_VLAN"  -> [type |-> "POP_VLAN"]
      [] w.type = "OFPAT_POP_MPLS"  -> [type |-> "POP_MPLS", eth_type |-> w.eth_type]
      [] w.type = "OFPAT_COPY_TTL_OUT" -> [type |-> "COPY_TTL_OUTWARDS"]
      [] w.type = "OFPAT_COPY_TTL_IN"  -> [type |-> "COPY_TTL_INWARDS"]
      [] w.type = "OFPAT_DEC_MPLS_TTL" -> [type |-> "DECREMENT_MPLS_TTL"]
      [] w.type = "OFPAT_SET_MPLS_TTL" -> [type |-> "SET_MPLS_TTL", new_ttl |-> w.ttl]

(* The types for which unpack_actions adds an action: a set-field action   *)
(* is parsed (OfSetField) and not added.                                   *)
IsUnpacked(w) ==
    w.type \in {"OFPAT_OUTPUT", "OFPAT_GROUP", "OFPAT_PUSH_VLAN", "OFPAT_PUSH_MPLS",
                "OFPAT_POP_VLAN", "OFPAT_POP_MPLS", "OFPAT_COPY_TTL_OUT",
                "OFPAT_COPY_TTL_IN", "OFPAT_DEC_MPLS_TTL", "OFPAT_SET_MPLS_TTL"}

unpack_actions(wire) ==
    LET added == SelectSeq(wire, IsUnpacked)
    IN  [n \in DOMAIN added |-> action_new(added[n])]

unpack_action_set(wire) == FoldLeft(action_set_add, {}, unpack_actions(wire))

-----------------------------------------------------------------------------
instruction_set_init ==
    [active |-> {}, apply |-> <<>>, write |-> {},
     metadata |-> {}, metadata_mask |-> {}, goto |-> 0]

(* The actions of a list that begins eight bytes into an instruction: none *)
(* in the eight bytes of a clear-actions or goto-table instruction.        *)
ActionsOf(w) == IF w.type \in {"OFPIT_WRITE_ACTIONS", "OFPIT_APPLY_ACTIONS"}
                THEN w.actions ELSE <<>>

(* The byte that holds the table of a goto-table instruction is padding in *)
(* the others.                                                             *)
TableOf(w) == IF w.type = "OFPIT_GOTO_TABLE" THEN w.table_id ELSE 0

(* One turn of the loop of unpack_instructions: w is taken for one of the  *)
(* given type.                                                             *)
unpack_instruction(type, is, w) ==
    LET on(i) == [is EXCEPT !.active = @ \union {i}]
    IN CASE type = "OFPIT_GOTO_TABLE" -> [on("GOTO_TABLE") EXCEPT !.goto = TableOf(w)]
         [] type = "OFPIT_WRITE_METADATA" ->
              [on("WRITE_METADATA") EXCEPT !.metadata = w.metadata,
                                           !.metadata_mask = w.metadata_mask]
         [] type = "OFPIT_WRITE_ACTIONS" ->
              [on("WRITE_ACTIONS") EXCEPT !.write = unpack_action_set(ActionsOf(w))]
         [] type = "OFPIT_APPLY_ACTIONS" ->
              [on("APPLY_ACTIONS") EXCEPT !.apply = unpack_actions(ActionsOf(w))]
         [] type = "OFPIT_CLEAR_ACTIONS" -> on("CLEAR_ACTIONS")
         [] OTHER -> is

(***************************************************************************)
(* unpack_instructions reads the type of every instruction at offset 0 of  *)
(* the buffer of the list, which is where the first one begins.  A list    *)
(* with a write-metadata instruction in it is modelled only when that is   *)
(* its one instruction: what is read past the end of a shorter one is not  *)
(* defined.                                                                *)
(***************************************************************************)
unpack_instructions(insts) ==
    LET read(is, w) == unpack_instruction(insts[1].type, is, w)
    IN  FoldLeft(read, instruction_set_init, insts)

unpack_flow_mod(fm) ==
    [key |-> unpack_match_fields(fm.key), mask |-> unpack_match_fields(fm.mask),
     table_id |-> fm.table_id, cookie |-> fm.cookie, priority |-> fm.priority,
     hard_timeout |-> fm.hard_timeout, idle_timeout |-> fm.idle_timeout,
     remove_at |-> 0, last_used |-> 0, pkt_cnt |-> 0, byte_cnt |-> 0,
     insts |-> unpack_instructions(fm.insts)]

-----------------------------------------------------------------------------
(* A bug: a group action is left out of a reply, with the ones that are    *)
(* not supported.                                                          *)
pack_action_NoGroup(a) ==
    IF a.type = "OUTPUT" THEN <<[type |-> "OFPAT_OUTPUT", port |-> a.port]>> ELSE <<>>

(* The actions that pack_action supports, as they go on the wire.          *)
pack_action(a) ==
    CASE a.type = "OUTPUT"    -> <<[type |-> "OFPAT_OUTPUT", port |-> a.port]>>
      [] a.type = "POP_VLAN"  -> <<[type |-> "OFPAT_POP_VLAN"]>>
      [] a.type = "POP_MPLS"  -> <<[type |-> "OFPAT_POP_MPLS", eth_type |-> a.eth_type]>>
      [] a.type = "PUSH_MPLS" -> <<[type |-> "OFPAT_PUSH_MPLS", eth_type |-> a.eth_type]>>
      [] a.type = "PUSH_VLAN" -> <<[type |-> "OFPAT_PUSH_VLAN", eth_type |-> a.eth_type]>>
      [] a.type = "GROUP"     -> <<[type |-> "OFPAT_GROUP", group_id |-> a.group_id]>>
      [] OTHER -> <<>>

pack_action_list(al) == FlattenSeq([n \in DOMAIN al |-> pack_action(al[n])])

(* The actions of a set in the order in which they are executed.           *)
InOrder(as) ==
    LET types == SelectSeq(ActionSetOrder, LAMBDA t : \E a \in as : a.type = t)
    IN  [n \in DOMAIN types |-> CHOOSE a \in as : a.type = types[n]]

pack_action_set(as) == pack_action_list(InOrder(as))

pack_instructions(is) ==
    LET when(i, w) == IF i \in is.active THEN <<w>> ELSE <<>>
    IN  when("APPLY_ACTIONS", [type |-> "OFPIT_APPLY_ACTIONS",
                               actions |-> pack_action_list(is.apply)])
        \o when("CLEAR_ACTIONS", [type |-> "OFPIT_CLEAR_ACTIONS"])
        \o when("WRITE_ACTIONS", [type |-> "OFPIT_WRITE_ACTIONS",
                                  actions |-> pack_action_set(is.write)])
        \o when("WRITE_METADATA", [type |-> "OFPIT_WRITE_METADATA",
                                   metadata |-> is.metadata,
                                   metadata_mask |-> is.metadata_mask])
        \o when("GOTO_TABLE", [type |-> "OFPIT_GOTO_TABLE", table_id |-> is.goto])

(* An entry of a flow statistics reply.                                    *)
pack_flow_stats_entry(f) ==
    [table_id |-> f.table_id, priority |-> f.priority, cookie |-> f.cookie,
     idle_timeout |-> f.idle_timeout, hard_timeout |-> f.hard_timeout,
     packet_count |-> f.pkt_cnt, byte_count |-> f.byte_cnt,
     key |-> pack_match_fields(f.key), mask |-> pack_match_fields(f.mask),
     insts |-> pack_instructions(f.insts)]

(* The second of two calls that set the packet count sets it to the bytes; *)
(* the byte count of the new reply stays 0.                                *)
pack_aggregate_stats_reply(flows) ==
    [flow_count   |-> Len(flows),
     packet_count |-> FoldLeft(LAMBDA sum, f : sum + f.byte_cnt, 0, flows),
     byte_count   |-> 0]

(* A packet-in: its match is the input port alone.                         *)
pack_packet_in(n) ==
    [buffer_id |-> n.metadata.buffer_id, reason |-> n.metadata.reason,
     table_id |-> n.metadata.table_id, cookie |-> n.metadata.cookie,
     in_port |-> n.match["in_port"], data |-> netflow_to_pkt(n)]

(* A packet-out into the new flow n: the flow, and the actions to execute. *)
(* A message without data leaves the flow without a packet.                *)
unpack_packet_out(po, n) ==
    LET in == [n EXCEPT !.metadata.buffer_id = po.buffer_id,
                        !.match["in_port"] = po.in_port]
    IN  [flow |-> IF po.data = {} THEN in
                  ELSE [pkt_to_netflow(CHOOSE p \in po.data : TRUE, in)
                          EXCEPT !.pkt_cnt = 1, !.byte_cnt = po.bytes],
         actions |-> unpack_actions(po.actions)]
=============================================================================

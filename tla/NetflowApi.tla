----------------------------- MODULE NetflowApi -----------------------------
(***************************************************************************)
(* The operations of lib/netflow.c in any order, on one flow.              *)
(***************************************************************************)
EXTENDS Netflow

CONSTANTS
    PushTypes,      \* the types the pushes are called with
    PopTypes,       \* the types pop_mpls is called with
    FieldValues,    \* the pairs <<field, word>> the flow's fields are set to
    Packets         \* the packets that become flows

(* A packet has fewer tags than the stack has levels: pkt_to_netflow reads *)
(* tags without a test of MAX_STACK_SIZE.                                  *)
ASSUME PacketsAssumption ==
    \A p \in Packets : p.words \in Seq(SUBSET Int) /\ Len(p.words) < MaxStackSize

VARIABLE nf

Init == nf = netflow_init

(* One action per operation of the interface.                              *)
PushVlan == \E type \in PushTypes : nf' = netflow_push_vlan(nf, type)
PushMpls == \E type \in PushTypes : nf' = netflow_push_mpls(nf, type)
PopVlan == nf' = netflow_pop_vlan(nf)
PopMpls == \E type \in PopTypes : nf' = netflow_pop_mpls(nf, type)
SetField == \E fv \in FieldValues : nf' = set_field(nf, fv[1], fv[2])
FromPacket == \E p \in Packets : nf' = pkt_to_netflow(p, netflow_init)

(* The flow is sent to the controller, which sends it back.                *)
ThroughController == /\ tags_to_pkt(nf) = <<>>
                     /\ nf' = pkt_to_netflow(netflow_to_pkt(nf), netflow_init)

Next == \/ PushVlan \/ PushMpls \/ PopVlan \/ PopMpls
        \/ SetField \/ FromPacket \/ ThroughController

Spec == Init /\ [][Next]_nf

-----------------------------------------------------------------------------
(* The fields of a flow, its stack and the top of the stack have their     *)
(* types: no operation runs off either end of tags.level.                  *)
TypeOK ==
    /\ nf.match \in [MatchFields -> SUBSET (0..127)]
    /\ nf.level \in [0..(MaxStackSize - 1) ->
                        [type : SUBSET (0..15), w : SUBSET (0..31)]]
    /\ nf.top \in STACK_EMPTY..(MaxStackSize - 1)

(* Every level above the top is zero.  A push initialises a level only     *)
(* when the stack is empty or the tag below is of its kind; in every other *)
(* case it relies on the pops to have cleared what lies above the top.     *)
ClearedAboveTop ==
    \A i \in (nf.top + 1)..(MaxStackSize - 1) : nf.level[i] = EmptyTag

(* The match of a flow whose outermost tag is a VLAN tag holds the id and  *)
(* the priority of that tag, so that a flow table matches on what is sent. *)
(* It is a property of the VLAN operations: pop_mpls takes away a VLAN tag *)
(* without touching these fields of the match.                             *)
VlanMatchMirrorsTag ==
    LET tag == IF netflow_is_vlan_tagged(nf) THEN VlanTag(nf.level[nf.top]) ELSE {}
    IN /\ nf.match["vlan_id"] = tag \intersect VLAN_VID_MASK
       /\ nf.match["vlan_pcp"] = Shr(tag \intersect VLAN_PCP_MASK, 13)

(* The fields that the packet of a flow carries; the addresses of an ARP   *)
(* packet are those of a request or a reply.                               *)
Carried(m) ==
    {"eth_type", "eth_src", "eth_dst"} \union
    CASE m["eth_type"] = ETH_TYPE_ARP ->
            IF m["arp_op"] \in {{0}, {1}} THEN ArpFields ELSE {"arp_op"}
      [] m["eth_type"] = ETH_TYPE_IP ->
            {"ip_proto", "ipv4_src", "ipv4_dst"} \union L4Of(m["ip_proto"])
      [] OTHER -> {}

(* A flow without tags that a datapath sends to the controller, and the    *)
(* controller sends back, keeps the fields that its packet carries.  The   *)
(* type of service is not among them (TosSurvives).                        *)
PacketKeepsFields ==
    LET back == pkt_to_netflow(netflow_to_pkt(nf), netflow_init)
    IN tags_to_pkt(nf) = <<>> =>
         /\ \A f \in Carried(nf.match) : back.match[f] = nf.match[f]
         /\ nf.match["eth_type"] = ETH_TYPE_LLDP => back.payload = nf.payload

(* So does the type of service: the code point is in its upper six bits    *)
(* (IP_DSCP_MASK 0xfc) and the congestion notification in the lower two    *)
(* (IP_ECN_MASK 0x03), which is where pkt_to_netflow reads them.           *)
TosSurvives ==
    LET back == pkt_to_netflow(netflow_to_pkt(nf), netflow_init)
    IN tags_to_pkt(nf) = <<>> /\ nf.match["eth_type"] = ETH_TYPE_IP =>
         /\ back.match["ip_dscp"] = nf.match["ip_dscp"]
         /\ back.match["ip_ecn"] = nf.match["ip_ecn"]

(* The match of a flow whose outermost tag is an MPLS tag holds the label  *)
(* of that tag, after a pop too.                                           *)
LabelMirrorsTag ==
    netflow_is_outer_mpls(nf) =>
        nf.match["mpls_label"] = Shr(nf.level[nf.top].w \intersect MPLS_LABEL_MASK, 12)

(* The innermost MPLS tag of a flow, pushed on a stack without one, is the *)
(* bottom of the stack.                                                    *)
FirstLabelIsBottom ==
    \A i \in 0..nf.top :
        /\ IsMpls(nf.level[i].type)
        /\ \A j \in 0..(i - 1) : ~IsMpls(nf.level[j].type)
        => MPLS_S_MASK \subseteq nf.level[i].w
=============================================================================

----------------------------- MODULE FlowFields -----------------------------
(***************************************************************************)
(* The key and the mask of a flow as lib/flow.c builds them, field by      *)
(* field: the functions set_... for a field that is matched as a whole,    *)
(* flow_set_masked_... for some of its bits.  FlowTable takes key and mask *)
(* as given; this module is about how they come to be, and about the       *)
(* comparison under a mask that the lookup of FlowTable rests on.          *)
(***************************************************************************)
EXTENDS Words, FiniteSets, TLC

CONSTANTS
    MaskedCalls,    \* the fields whose flow_set_masked_... are called
    FieldValues(_), \* the values and masks of a field of the given width
    MaxFields       \* bound on the fields that are set in one flow

VARIABLES
    key, mask,  \* of the flow
    asked       \* the value and the mask the caller last gave for a field

vars == <<key, mask, asked>>

(* The bits of the mask that the functions set_... set.                    *)
LinkWidth ==
    [in_port |-> 32, metadata |-> 64, tunnel_id |-> 64, eth_type |-> 16, eth_dst |-> 48,
     eth_src |-> 48, vlan_id |-> 16, vlan_pcp |-> 8, mpls_label |-> 32, mpls_tc |-> 8,
     mpls_bos |-> 8]
IpWidth ==
    [ip_dscp |-> 8, ip_ecn |-> 8, ip_proto |-> 8, ipv4_dst |-> 32, ipv4_src |-> 32,
     tcp_dst |-> 16, tcp_src |-> 16, sctp_dst |-> 16, sctp_src |-> 16, udp_dst |-> 16,
     udp_src |-> 16, icmpv4_type |-> 8, icmpv4_code |-> 8]
ArpWidth ==
    [arp_op |-> 16, arp_spa |-> 32, arp_tpa |-> 32, arp_sha |-> 48, arp_tha |-> 48]
Ipv6Width ==
    [ipv6_dst |-> 128, ipv6_src |-> 128, ipv6_flabel |-> 32, icmpv6_type |-> 8,
     icmpv6_code |-> 8, ipv6_nd_target |-> 128, ipv6_nd_sll |-> 48, ipv6_nd_tll |-> 48]

Width == LinkWidth @@ IpWidth @@ ArpWidth @@ Ipv6Width

AllOnes(f) == BitRange(0, Width[f] - 1)

(* struct ofl_flow_key; no function sets in_phy_port.                      *)
Fields == DOMAIN Width \union {"in_phy_port"}

flow_key_cmp(a, b) == \A f \in Fields : a[f] = b[f]
apply_all_mask(k, m) == [f \in Fields |-> k[f] \intersect m[f]]

-----------------------------------------------------------------------------
flow_new == [f \in Fields |-> {}]

NotAsked == [value |-> {}, mask |-> {}]

Init == key = flow_new /\ mask = flow_new /\ asked = [f \in Fields |-> NotAsked]

set_field(f, v) ==
    /\ key' = [key EXCEPT ![f] = v]
    /\ mask' = [mask EXCEPT ![f] = AllOnes(f)]
    /\ asked' = [asked EXCEPT ![f] = [value |-> v, mask |-> AllOnes(f)]]

(* A bug: the key keeps the bits outside of the mask. *)
set_masked_field_Unmasked(f, v, m) ==
    key' = [key EXCEPT ![f] = v] /\ mask' = [mask EXCEPT ![f] = m]

(* The functions that set their own field, and the value under the mask.   *)
set_masked_field(f, v, m) ==
    key' = [key EXCEPT ![f] = v \intersect m] /\ mask' = [mask EXCEPT ![f] = m]

(* flow_set_masked_metadata: the mask goes to the low half of in_port's.   *)
set_masked_metadata(v, m) ==
    /\ key' = [key EXCEPT !["metadata"] = v \intersect m]
    /\ mask' = [mask EXCEPT !["in_port"] = Trunc(m, 32)]

(* Both IPv6 functions copy the address to the mask of the source.         *)
set_masked_ipv6_dst(v, m) ==
    /\ key' = [key EXCEPT !["ipv6_dst"] = @ \intersect m]
    /\ mask' = [mask EXCEPT !["ipv6_dst"] = m, !["ipv6_src"] = v]
set_masked_ipv6_src(v, m) ==
    /\ key' = [key EXCEPT !["ipv6_src"] = @ \intersect m]
    /\ mask' = [mask EXCEPT !["ipv6_src"] = v]

Room(f) == Cardinality({g \in Fields \ {f} : asked[g] # NotAsked}) < MaxFields

SetField ==
    \E f \in DOMAIN Width : \E v \in FieldValues(Width[f]) : Room(f) /\ set_field(f, v)

SetMaskedField ==
    \E f \in MaskedCalls : \E v, m \in FieldValues(Width[f]) :
        /\ Room(f)
        /\ CASE f = "metadata" -> set_masked_metadata(v, m)
             [] f = "ipv6_dst" -> set_masked_ipv6_dst(v, m)
             [] f = "ipv6_src" -> set_masked_ipv6_src(v, m)
             [] OTHER -> set_masked_field(f, v, m)
        /\ asked' = [asked EXCEPT ![f] = [value |-> v, mask |-> m]]

Next == SetField \/ SetMaskedField

Spec == Init /\ [][Next]_vars

-----------------------------------------------------------------------------
(* A packet agrees with what the callers asked of the flow.               *)
Agrees(p) ==
    \A f \in Fields : p[f] \intersect asked[f].mask = asked[f].value \intersect asked[f].mask

(* A flow matches the packets that agree with the values the callers gave  *)
(* on the bits they asked for, and no others: whatever field of a matching *)
(* packet changes, and however the functions are called one after another  *)
(* ("Set field functions", "Set masked field functions").                  *)
MatchesAsked ==
    \A f \in DOMAIN Width : \A v \in FieldValues(Width[f]) :
        LET p == [[g \in Fields |-> asked[g].value] EXCEPT ![f] = v]
        IN  flow_key_cmp(apply_all_mask(p, mask), key) <=> Agrees(p)
=============================================================================

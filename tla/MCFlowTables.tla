---------------------------- MODULE MCFlowTables ----------------------------
(***************************************************************************)
(* Three uses of flow tables, one of which the variable use picks: up to   *)
(* three flows without timeouts, two flows with them, and the calls that   *)
(* build the key and the mask of a flow (FlowFields).                      *)
(***************************************************************************)
EXTENDS MCFlowTable

(* The constants of this module give the flows with timeouts, of a match   *)
(* and one inside it.                                                      *)
NestedMatches == {m \in MCMatches : m.key = {1}}

Untimed == INSTANCE FlowTable WITH
    Matches <- MCMatches, Timeouts <- {0}, Instructions <- {"a", "b"}, MaxTime <- 0, MaxFlows <- 3

VARIABLES key, mask, asked

(* The fields whose flow_set_masked_... store to their own key and mask.   *)
RegularMasked ==
    {"tunnel_id", "eth_dst", "eth_src", "vlan_id", "mpls_label", "ipv4_dst", "ipv4_src",
     "arp_spa", "arp_tpa", "arp_sha", "arp_tha", "ipv6_nd_target", "ipv6_nd_sll",
     "ipv6_nd_tll"}
WordEnds(width) == {{0}, {0, width - 1}}
Fields == INSTANCE FlowFields WITH
    MaskedCalls <- RegularMasked, FieldValues <- WordEnds, MaxFields <- 2

VARIABLE use

NoFlow == key = {} /\ mask = {} /\ asked = {}

UseInit ==
    \/ use = "masks" /\ Untimed!Init /\ NoFlow
    \/ use = "timeouts" /\ Init /\ NoFlow
    \/ use = "fields" /\ Fields!Init /\ ft = <<>>

UseNext ==
    \/ use = "masks" /\ Untimed!Next /\ UNCHANGED <<use, key, mask, asked>>
    \/ use = "timeouts" /\ Next /\ UNCHANGED <<use, key, mask, asked>>
    \/ use = "fields" /\ Fields!Next /\ UNCHANGED <<use, ft>>

UseSpec == UseInit /\ [][UseNext]_<<ft, key, mask, asked, use>>

(* A flow matches what its callers asked for, for the setters that store   *)
(* to their own field (MatchesAsked).                                      *)
FieldsMatchAsked == use = "fields" => Fields!MatchesAsked
=============================================================================

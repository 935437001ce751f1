----------------------------- MODULE OfSetField -----------------------------
(***************************************************************************)
(* The value of a set-field action: parse_set_field of lib/of_unpack.c,    *)
(* which reads the field of a message (an OXM) into the action that        *)
(* unpack_actions uses for every action of a list, and pack_set_field of   *)
(* lib/of_pack.c, which puts it in a reply.                                *)
(*                                                                         *)
(* struct set_field has one union for values of all widths.  It is a word  *)
(* of 128 bits here: a member of w bits is the lowest w of them, and a     *)
(* store to it leaves the others as the action before it left them.        *)
(***************************************************************************)
EXTENDS Words, TLC

CONSTANTS
    WireValues(_),   \* the values of a field of the given width
    Garbage          \* what bytes of the stack that are never set may hold

VARIABLES
    gen,       \* gen_act, the action all actions of the list are read into
    parsed,    \* the field and the value of the last OXM
    packed     \* the field and the value of the last reply

vars == <<gen, parsed, packed>>

None == [oxm |-> "NONE", value |-> {}]

(* The members of the union, with the field they are used for.             *)
U8(f) == [field |-> f, width |-> 8]
U16(f) == [field |-> f, width |-> 16]
U32(f) == [field |-> f, width |-> 32]
U64(f) == [field |-> f, width |-> 64]
Eth(f) == [field |-> f, width |-> 48]
Ipv6(f) == [field |-> f, width |-> 128]

-----------------------------------------------------------------------------
(* The cases of parse_set_field: the field and the member an OXM goes to.  *)
ParseEth ==
    [VLAN_VID |-> U16("VLAN_ID"), VLAN_PCP |-> U8("VLAN_PCP"),
     ETH_DST |-> Eth("ETH_DST"), ETH_SRC |-> Eth("ETH_SRC"),
     ETH_TYPE |-> U16("VLAN_ID")]
ParseIp ==
    [IP_DSCP |-> U8("IP_DSCP"), IP_ECN |-> U8("IP_ECN"), IP_PROTO |-> U8("IP_PROTO"),
     IPV4_SRC |-> U32("IPV4_SRC"), IPV4_DST |-> U32("IPV4_DST")]
ParsePorts ==
    [TCP_SRC |-> U16("TCP_SRC"), TCP_DST |-> U16("TCP_DST"),
     UDP_SRC |-> U16("UDP_SRC"), UDP_DST |-> U16("UDP_DST"),
     SCTP_SRC |-> U16("SCTP_DST"), SCTP_DST |-> U16("SCTP_DST"),
     ICMPV4_TYPE |-> U8("ICMPV4_TYPE"), ICMPV4_CODE |-> U8("ICMPV4_CODE")]
ParseArp ==
    [ARP_OP |-> U16("ARP_OP"), ARP_SPA |-> U32("ARP_SPA"), ARP_TPA |-> U32("ARP_TPA"),
     ARP_SHA |-> Eth("ARP_SHA"), ARP_THA |-> Eth("ARP_THA")]
ParseIpv6 ==
    [IPV6_SRC |-> Ipv6("IPV6_SRC"), IPV6_DST |-> Ipv6("IPV6_DST"),
     IPV6_FLABEL |-> U32("IPV6_FLABEL"),
     ICMPV6_TYPE |-> U8("ICMPV6_TYPE"), ICMPV6_CODE |-> U8("ICMPV6_CODE"),
     IPV6_ND_TARGET |-> Ipv6("IPV6_ND_TARGET"),
     IPV6_ND_SLL |-> Eth("IPV6_ND_SLL"), IPV6_ND_TLL |-> Eth("IPV6_ND_TLL")]
ParseMpls ==
    [MPLS_LABEL |-> U32("MPLS_LABEL"), MPLS_TC |-> U8("MPLS_TC"),
     MPLS_BOS |-> U8("MPLS_BOS"), TUNNEL_ID |-> U8("TUNNEL_ID")]

ParseCases == ParseEth @@ ParseIp @@ ParsePorts @@ ParseArp @@ ParseIpv6 @@ ParseMpls

(* The OXMs of OpenFlow, and the bits of their values.                     *)
OxmWidth(oxm) ==
    CASE oxm \in {"METADATA", "TUNNEL_ID"} -> 64
      [] oxm = "IN_PORT" -> 32
      [] OTHER -> ParseCases[oxm].width
Oxms == DOMAIN ParseCases \union {"METADATA", "IN_PORT"}

(* action_set_field_u8 and the others: a store to one member.              *)
action_set_field(act, to, value) ==
    [type |-> "SET_FIELD", field |-> to.field,
     bits |-> (act.bits \ BitRange(0, to.width - 1)) \union Trunc(value, to.width)]

(* An OXM without a case leaves the action as it is.                       *)
parse_set_field(act, oxm, value) ==
    IF oxm \in DOMAIN ParseCases THEN action_set_field(act, ParseCases[oxm], value) ELSE act

-----------------------------------------------------------------------------
(* The cases of pack_set_field: the OXM of a field, and the member it is   *)
(* read from.  Six bytes of an IPv6 address are copied.                    *)
PackEth ==
    [METADATA |-> U64("METADATA"), TUNNEL_ID |-> U64("TUNNEL_ID"),
     ETH_TYPE |-> U16("ETH_TYPE"), ETH_DST |-> Eth("ETH_DST"), ETH_SRC |-> Eth("ETH_SRC"),
     VLAN_ID |-> U16("VLAN_VID"), VLAN_PCP |-> U8("VLAN_PCP"),
     MPLS_LABEL |-> U32("MPLS_LABEL"), MPLS_TC |-> U8("MPLS_TC"),
     MPLS_BOS |-> U8("MPLS_BOS")]

(* A bug: the IP protocol is read from the 16 bit member. *)
PackIp_Wide ==
    [IP_DSCP |-> U8("IP_DSCP"), IP_ECN |-> U8("IP_ECN"), IP_PROTO |-> U16("IP_PROTO"),
     IPV4_DST |-> U32("IPV4_DST"), IPV4_SRC |-> U32("IPV4_SRC"),
     ICMPV4_TYPE |-> U8("ICMPV4_TYPE"), ICMPV4_CODE |-> U8("ICMPV4_CODE"),
     TCP_DST |-> U16("TCP_DST"), TCP_SRC |-> U16("TCP_SRC")]

PackIp ==
    [IP_DSCP |-> U8("IP_DSCP"), IP_ECN |-> U8("IP_ECN"), IP_PROTO |-> U8("IP_PROTO"),
     IPV4_DST |-> U32("IPV4_DST"), IPV4_SRC |-> U32("IPV4_SRC"),
     ICMPV4_TYPE |-> U8("ICMPV4_TYPE"), ICMPV4_CODE |-> U8("ICMPV4_CODE"),
     TCP_DST |-> U16("TCP_DST"), TCP_SRC |-> U16("TCP_SRC")]
PackArp ==
    [UDP_DST |-> U16("UDP_DST"), UDP_SRC |-> U16("UDP_SRC"),
     SCTP_DST |-> U16("SCTP_DST"), SCTP_SRC |-> U16("SCTP_SRC"),
     ARP_OP |-> U16("ARP_OP"), ARP_SPA |-> U32("ARP_SPA"), ARP_TPA |-> U32("ARP_TPA"),
     ARP_SHA |-> Eth("ARP_SHA"), ARP_THA |-> Eth("ARP_THA")]
PackIpv6 ==
    [IPV6_DST |-> Eth("IPV6_DST"), IPV6_SRC |-> Eth("IPV6_SRC"),
     IPV6_FLABEL |-> U32("IPV6_FLABEL"),
     ICMPV6_TYPE |-> U8("ICMPV6_TYPE"), ICMPV6_CODE |-> U8("ICMPV6_CODE"),
     IPV6_ND_TARGET |-> Eth("IPV6_ND_TARGET"),
     IPV6_ND_SLL |-> Eth("IPV6_ND_SLL"), IPV6_ND_TLL |-> Eth("IPV6_ND_TLL")]

PackCases == PackEth @@ PackIp @@ PackArp @@ PackIpv6

(* The possible replies: what of a value is not copied is not defined.     *)
pack_set_field(act) ==
    IF act.field \notin DOMAIN PackCases THEN {None}
    ELSE LET c == PackCases[act.field]
             rest == {g \in Garbage : g \intersect BitRange(0, c.width - 1) = {}
                                      /\ Trunc(g, OxmWidth(c.field)) = g}
         IN  {[oxm |-> c.field, value |-> Trunc(act.bits, c.width) \union g] : g \in rest}

-----------------------------------------------------------------------------
Init == /\ gen \in {[type |-> "NONE", field |-> "NONE", bits |-> g] : g \in Garbage}
        /\ parsed = None
        /\ packed = None

(* A set-field action of a message.                                        *)
ParseSetField ==
    \E oxm \in Oxms : \E v \in WireValues(OxmWidth(oxm)) :
        /\ gen' = parse_set_field(gen, oxm, v)
        /\ parsed' = [oxm |-> oxm, value |-> v]
        /\ packed' = None

(* A set-field action in a reply.                                          *)
PackSetField ==
    /\ gen.type = "SET_FIELD"
    /\ packed' \in pack_set_field(gen)
    /\ UNCHANGED <<gen, parsed>>

Next == ParseSetField \/ PackSetField

Spec == Init /\ [][Next]_vars

-----------------------------------------------------------------------------
(* The fields whose code is regular.                                       *)
Regular == DOMAIN ParseCases \ {"ETH_TYPE", "SCTP_SRC", "TUNNEL_ID",
                                "IPV6_SRC", "IPV6_DST", "IPV6_ND_TARGET"}

(* A field that parse_set_field reads is in the reply as it came, whatever *)
(* the actions read before it left in the union.                           *)
FieldSurvives ==
    packed # None /\ parsed.oxm \in Regular => packed = parsed

(* Every OXM of openflow.h with a case is set as the field its comment     *)
(* names: a reply carries it as it came ("SCTP source port.").             *)
EveryFieldSurvives ==
    packed # None /\ parsed.oxm \in DOMAIN ParseCases => packed = parsed
=============================================================================

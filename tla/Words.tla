-------------------------------- MODULE Words --------------------------------
(***************************************************************************)
(* Machine words.  A word is the set of the positions of its one bits, so  *)
(* that &, | and & ~ are \intersect, \union and \, the word 0 is {}, and a *)
(* shift moves the positions.  TLC's integers are too narrow for the 32    *)
(* and 64 bit fields of the code; these are not.                           *)
(***************************************************************************)
EXTENDS Integers

BitRange(lo, hi) == lo..hi

(* w << n, in a word of the given width.                                   *)
Shl(w, n, width) == {b + n : b \in w} \intersect 0..(width - 1)

(* w >> n.                                                                 *)
Shr(w, n) == {b - n : b \in {c \in w : c >= n}}

(* The assignment of a word to a variable of a smaller width.              *)
Trunc(w, width) == {b \in w : b < width}

(* The bytes of a word of four bytes in the opposite order: what a copy of *)
(* the memory of a little-endian host is to a reader in network order.     *)
Rev32(w) == {8 * (3 - (b \div 8)) + (b % 8) : b \in w}

(* The types of packets.h.                                                 *)
ETH_TYPE_IP == {11}
ETH_TYPE_ARP == {1, 2, 11}
ETH_TYPE_VLAN == {8, 15}
ETH_TYPE_VLAN_QinQ == {3, 5, 7, 11, 15}
ETH_TYPE_MPLS == {0, 1, 2, 6, 11, 15}
ETH_TYPE_MPLS_MCAST == {3, 6, 11, 15}
ETH_TYPE_IPV6 == {0, 2, 3, 4, 6, 7, 9, 10, 15}
ETH_TYPE_LLDP == {2, 3, 6, 7, 11, 15}

IP_PROTO_ICMPV4 == {0}
IP_PROTO_TCP == {1, 2}
IP_PROTO_UDP == {0, 4}
IP_PROTO_ICMPV6 == {1, 3, 4, 5}

ECHO == {3}
ECHO_REPLY == {}

VLAN_VID_MASK == BitRange(0, 11)
VLAN_PCP_MASK == BitRange(13, 15)
MPLS_S_MASK == {8}
MPLS_TC_MASK == BitRange(9, 11)
MPLS_LABEL_MASK == BitRange(12, 31)
=============================================================================

---------------------------- MODULE NetflowProofs ----------------------------
(***************************************************************************)
(* A flow and its packet, for stacks of every size and every type, field   *)
(* value and packet the operations are called with: the levels above the   *)
(* top are zero, the match holds what the outermost VLAN tag says, and a   *)
(* packet carries the fields of its flow to the controller and back.       *)
(***************************************************************************)
EXTENDS NetflowApi, WellFoundedInduction, TLAPS

(* A flow has its fields, a stack of MaxStackSize levels and a top within  *)
(* it, or STACK_EMPTY.                                                     *)
Fields == {"match", "level", "top", "info", "payload", "pkt_cnt", "byte_cnt",
           "start_time", "rate", "exec_id", "metadata", "out_ports"}

Shaped(n) ==
    /\ DOMAIN n = Fields
    /\ DOMAIN n.level = 0..(MaxStackSize - 1)
    /\ n.top \in -1..(MaxStackSize - 1)

Cleared(n) == \A i \in (n.top + 1)..(MaxStackSize - 1) : n.level[i] = EmptyTag

StackInv(n) == Shaped(n) /\ Cleared(n)

(* What the stack operations need of the constants. *)
LEMMA Stack == MaxStackSize \in Nat /\ MaxStackSize > 1 /\ STACK_EMPTY = -1
BY StackAssumption DEF STACK_EMPTY

(* The flow of netflow_init.                                               *)
LEMMA InitStack == StackInv(netflow_init) /\ netflow_init.top = 0
BY Stack DEF StackInv, Shaped, Fields, Cleared, netflow_init

(* What an operation does to the fields beside the stack does not matter.  *)
LEMMA Beside ==
    ASSUME NEW n, StackInv(n), NEW m, NEW i, NEW p
    PROVE  StackInv([n EXCEPT !.match = m]) /\ StackInv([n EXCEPT !.info = i])
           /\ StackInv([n EXCEPT !.payload = p])
           /\ StackInv([n EXCEPT !.match = m, !.info = i])
BY DEF StackInv, Shaped, Fields, Cleared

(* A push takes the level above the top, if there is one.                  *)
LEMMA Pushed ==
    ASSUME NEW n, StackInv(n), n.top < MaxStackSize - 1, NEW v, NEW m
    PROVE  /\ StackInv([n EXCEPT !.top = n.top + 1, !.level[n.top + 1] = v])
           /\ StackInv([n EXCEPT !.top = n.top + 1, !.level[n.top + 1] = v, !.match = m])
BY Stack DEF StackInv, Shaped, Fields, Cleared

(* A pop clears the top.                                                   *)
LEMMA Popped ==
    ASSUME NEW n, StackInv(n), n.top >= 0, NEW m
    PROVE  /\ StackInv([n EXCEPT !.top = @ - 1, !.level[n.top] = EmptyTag])
           /\ StackInv([n EXCEPT !.top = @ - 1, !.level[n.top] = EmptyTag, !.match = m])
BY Stack DEF StackInv, Shaped, Fields, Cleared

(* A field of the tag at the top is set.                                   *)
LEMMA TopSet ==
    ASSUME NEW n, StackInv(n), n.top # STACK_EMPTY, NEW m, NEW v
    PROVE  StackInv([n EXCEPT !.match = m, !.level[n.top] = v])
BY Stack DEF StackInv, Shaped, Fields, Cleared

-----------------------------------------------------------------------------
(* A push of a VLAN tag keeps the stack cleared above its top. *)
LEMMA PushVlanStack ==
    ASSUME NEW n, StackInv(n), NEW type
    PROVE  StackInv(netflow_push_vlan(n, type))
BY Pushed DEF netflow_push_vlan

(* So does a push of an MPLS tag. *)
LEMMA PushMplsStack ==
    ASSUME NEW n, StackInv(n), NEW type
    PROVE  StackInv(netflow_push_mpls(n, type))
BY Pushed DEF netflow_push_mpls

(* A pop of a VLAN tag clears the level it leaves. *)
LEMMA PopVlanStack ==
    ASSUME NEW n, StackInv(n)
    PROVE  StackInv(netflow_pop_vlan(n))
<1> DEFINE popped == [n EXCEPT !.top = @ - 1, !.level[n.top] = EmptyTag]
<1>1. CASE ~netflow_is_vlan_tagged(n)
  BY <1>1 DEF netflow_pop_vlan
<1>2. CASE netflow_is_vlan_tagged(n)
  <2>1. n.top >= 0
    BY <1>2, Stack DEF netflow_is_vlan_tagged, StackInv, Shaped
  <2>2. StackInv(popped)
    BY <2>1, Popped
  <2> HIDE DEF popped
  <2>3. \A m : StackInv([popped EXCEPT !.match = m])
    BY <2>2, Beside
  <2>4. QED
    BY <1>2, <2>3 DEF netflow_pop_vlan, popped
<1>3. QED
  BY <1>1, <1>2

(* So does a pop of an MPLS tag. *)
LEMMA PopMplsStack ==
    ASSUME NEW n, StackInv(n), NEW type
    PROVE  StackInv(netflow_pop_mpls(n, type))
BY Popped DEF netflow_pop_mpls

(* A field is set at the top of the stack only. *)
LEMMA SetFieldStack ==
    ASSUME NEW n, StackInv(n), NEW field, NEW value
    PROVE  StackInv(set_field(n, field, value))
<1>1. StackInv(set_vlan_field(n, field, value))
  BY TopSet DEF set_vlan_field, netflow_is_vlan_tagged, WithVlanTag
<1>2. StackInv(set_mpls_field(n, field, value))
  BY TopSet DEF set_mpls_field, netflow_is_outer_mpls
<1>3. \A m : StackInv([n EXCEPT !.match = m])
  BY Beside
<1>4. QED
  BY <1>1, <1>2, <1>3 DEF set_field

(* A nonempty set of positions has a first one.                            *)
LEMMA FirstStop ==
    ASSUME NEW T, T \subseteq Nat, T # {}
    PROVE  \E x \in T : \A y \in T : x <= y
<1>1. PICK x \in T : \A y \in T : ~(<<y, x>> \in OpToRel(<, Nat))
  BY NatLessThanWellFounded, WFMin
<1>2. \A y \in T : ~(y < x)
  BY <1>1 DEF OpToRel
<1>3. QED
  BY <1>2

(* The tags read from a packet into a new flow fill levels from the one    *)
(* above its top on, and the top moves with them.                          *)
LEMMA VlanParsed ==
    ASSUME NEW n, StackInv(n), n.top = 0,
           NEW p, p.words \in Seq(SUBSET Int), Len(p.words) < MaxStackSize
    PROVE  StackInv(parse_vlan(n, p).flow)
<1> DEFINE Type(i) == IF i = 0 THEN p.eth_type ELSE Shr(p.words[i], 16)
           stops == {i \in 0..Len(p.words) : ~IsVlan(Type(i))}
           read == IF stops = {} THEN Len(p.words)
                   ELSE CHOOSE i \in stops : \A j \in stops : i <= j
           tag == Trunc(p.words[1], 16)
           tagged == [n EXCEPT !.match =
                         [@ EXCEPT !["vlan_id"]  = tag \intersect VLAN_VID_MASK,
                                   !["vlan_pcp"] = Shr(tag \intersect VLAN_PCP_MASK, 13)]]
           base == IF read = 0 THEN n ELSE tagged
<1>1. read \in 0..Len(p.words)
  <2>1. CASE stops # {}
    <3>1. stops \subseteq Nat
      OBVIOUS
    <3>2. \E i \in stops : \A j \in stops : i <= j
      BY <2>1, <3>1, FirstStop
    <3>3. QED
      BY <2>1, <3>2
  <2>2. QED
    BY <2>1
<1>2. StackInv(base) /\ base.top = 0
  <2>1. StackInv(tagged) /\ tagged.top = 0
    BY Beside DEF StackInv, Shaped, Fields
  <2>2. QED
    BY <2>1
<1>3. parse_vlan(n, p).flow =
        [base EXCEPT !.match["eth_type"] = Type(read),
                     !.top = @ + read,
                     !.level = [i \in DOMAIN @ |->
                         IF i \in (n.top + 1)..(n.top + read)
                         THEN [type |-> Type(i - n.top), w |-> Rev32(p.words[i - n.top])]
                         ELSE @[i]]]
  BY DEF parse_vlan
<1> HIDE DEF base, read, Type
<1>4. QED
  BY <1>1, <1>2, <1>3, Stack DEF StackInv, Shaped, Fields, Cleared

(* The rest of a packet is read into the fields beside the stack.          *)
LEMMA PacketStack ==
    ASSUME NEW p, p.words \in Seq(SUBSET Int), Len(p.words) < MaxStackSize
    PROVE  StackInv(pkt_to_netflow(p, netflow_init))
<1> DEFINE n == netflow_init
           eth == [n EXCEPT !.match = [@ EXCEPT !["eth_type"] = p.eth_type,
                                                !["eth_src"] = p.eth_src,
                                                !["eth_dst"] = p.eth_dst]]
           v == parse_vlan(eth, p)
           f == v.flow
<1>1. StackInv(eth) /\ eth.top = 0
  <2> HIDE DEF n
  <2>1. StackInv(n) /\ n.top = 0
    BY InitStack DEF n
  <2>2. QED
    BY <2>1, Beside DEF StackInv, Shaped, Fields
<1> HIDE DEF eth
<1>2. StackInv(f)
  BY <1>1, VlanParsed
<1> HIDE DEF f
<1>3. \A m, i : /\ StackInv([f EXCEPT !.match = m]) /\ StackInv([f EXCEPT !.payload = m])
                /\ StackInv([f EXCEPT !.match = m, !.info = i])
  BY <1>2, Beside
<1>4. StackInv(parse_mpls(f, p, v.next))
  BY <1>2, <1>3 DEF parse_mpls
<1>5. StackInv(parse_arp(f, p))
  BY <1>2, <1>3 DEF parse_arp
<1>6. StackInv(parse_ip(f, p))
  <2>1. ASSUME NEW g, StackInv(g) PROVE StackInv(parse_l4(g, p))
    BY <2>1, Beside DEF parse_l4
  <2>2. QED
    BY <1>2, <1>3, <2>1 DEF parse_ip
<1>7. StackInv([f EXCEPT !.payload = p.payload])
  BY <1>3
<1>8. pkt_to_netflow(p, n) \in
        {f, parse_mpls(f, p, v.next), [f EXCEPT !.payload = p.payload],
         parse_arp(f, p), parse_ip(f, p)}
  BY DEF pkt_to_netflow, eth, f
<1>9. QED
  BY <1>2, <1>4, <1>5, <1>6, <1>7, <1>8

-----------------------------------------------------------------------------
(* The levels above the top are zero, whatever sequence of pushes, pops,   *)
(* field settings and packets a flow goes through; a push relies on it.    *)
(* With it goes that the top never leaves the stack.                       *)
THEOREM ClearedAboveTopHolds ==
    Spec => [](ClearedAboveTop /\ nf.top \in STACK_EMPTY..(MaxStackSize - 1))
<1>1. Init => StackInv(nf)
  BY InitStack DEF Init
<1>2. StackInv(nf) /\ [Next]_nf => StackInv(nf)'
  <2> SUFFICES ASSUME StackInv(nf), [Next]_nf PROVE StackInv(nf')
    BY DEF StackInv, Shaped, Cleared
  <2>1. CASE PushVlan
    BY <2>1, PushVlanStack DEF PushVlan
  <2>2. CASE PushMpls
    BY <2>2, PushMplsStack DEF PushMpls
  <2>3. CASE PopVlan
    BY <2>3, PopVlanStack DEF PopVlan
  <2>4. CASE PopMpls
    BY <2>4, PopMplsStack DEF PopMpls
  <2>5. CASE SetField
    BY <2>5, SetFieldStack DEF SetField
  <2>6. CASE FromPacket
    BY <2>6, PacketStack, PacketsAssumption DEF FromPacket
  <2>7. CASE ThroughController
    <3>1. netflow_to_pkt(nf).words = <<>>
      BY <2>7 DEF ThroughController, netflow_to_pkt
    <3>2. <<>> \in Seq(SUBSET Int) /\ Len(<<>>) < MaxStackSize
      BY Stack
    <3>3. QED
      BY <2>7, <3>1, <3>2, PacketStack DEF ThroughController
  <2>8. CASE UNCHANGED nf
    BY <2>8
  <2>9. QED
    BY <2>1, <2>2, <2>3, <2>4, <2>5, <2>6, <2>7, <2>8 DEF Next
<1>3. StackInv(nf) => ClearedAboveTop /\ nf.top \in STACK_EMPTY..(MaxStackSize - 1)
  BY Stack DEF StackInv, Shaped, Cleared, ClearedAboveTop
<1>4. QED
  BY <1>1, <1>2, <1>3, PTL DEF Spec

-----------------------------------------------------------------------------
(* The bits of a word shifted right are those n places up.                 *)
LEMMA ShrBits ==
    ASSUME NEW w \in SUBSET Int, NEW n \in Nat
    PROVE  Shr(w, n) \in SUBSET Nat /\ \A x \in Nat : x \in Shr(w, n) <=> x + n \in w
<1>1. ASSUME NEW x \in Shr(w, n) PROVE x \in Nat /\ x + n \in w
  <2>1. PICK b \in {c \in w : c >= n} : x = b - n
    BY <1>1 DEF Shr
  <2>2. b \in Int /\ b >= n /\ x + n = b
    BY <2>1
  <2> QED
    BY <2>1, <2>2
<1>2. ASSUME NEW x \in Nat, x + n \in w PROVE x \in Shr(w, n)
  <2>1. x + n \in {c \in w : c >= n} /\ x = (x + n) - n
    BY <1>2
  <2> QED
    BY <2>1 DEF Shr
<1> QED
  BY <1>1, <1>2

(* The bits of a word shifted left are those n places down, within its     *)
(* width.                                                                  *)
LEMMA ShlBits ==
    ASSUME NEW w \in SUBSET Nat, NEW n \in Nat, NEW width \in Nat
    PROVE  /\ Shl(w, n, width) \in SUBSET Nat
           /\ \A x \in Nat : x \in Shl(w, n, width) <=> (n <= x /\ x < width /\ x - n \in w)
<1>1. ASSUME NEW x \in Shl(w, n, width) PROVE x \in Nat /\ n <= x /\ x < width /\ x - n \in w
  BY <1>1 DEF Shl
<1>2. ASSUME NEW x \in Nat, n <= x, x < width, x - n \in w PROVE x \in Shl(w, n, width)
  <2>1. x = (x - n) + n /\ x \in 0..(width - 1)
    BY <1>2
  <2> QED
    BY <1>2, <2>1 DEF Shl
<1> QED
  BY <1>1, <1>2

(* A level with a tag in its high half has that tag.                       *)
LEMMA TagBits ==
    ASSUME NEW low \in SUBSET (0..15), NEW tag \in SUBSET (0..15)
    PROVE  /\ low \union Shl(tag, 16, 32) \in SUBSET (0..31)
           /\ Shr(low \union Shl(tag, 16, 32), 16) = tag
<1> DEFINE w == low \union Shl(tag, 16, 32)
<1>1. tag \in SUBSET Nat /\ 16 \in Nat /\ 32 \in Nat
  OBVIOUS
<1>2. \A x \in Nat : x \in Shl(tag, 16, 32) <=> (16 <= x /\ x < 32 /\ x - 16 \in tag)
  BY <1>1, ShlBits
<1>3. Shl(tag, 16, 32) \in SUBSET Nat
  BY <1>1, ShlBits
<1>4. w \in SUBSET (0..31)
  <2>1. ASSUME NEW x \in Shl(tag, 16, 32) PROVE x \in 0..31
    BY <1>2, <1>3
  <2>2. \A x \in low : x \in 0..31
    OBVIOUS
  <2> QED
    BY <2>1, <2>2
<1>5. w \in SUBSET Int
  BY <1>4
<1>6. \A x \in Nat : x + 16 \in w <=> x \in tag
  <2> TAKE x \in Nat
  <2>1. x + 16 \in Nat /\ x + 16 \notin low
    OBVIOUS
  <2>2. x + 16 \in Shl(tag, 16, 32) <=> x \in tag
    BY <1>2, <2>1
  <2> QED
    BY <2>1, <2>2
<1> HIDE DEF w
<1>7. Shr(w, 16) \in SUBSET Nat /\ \A x \in Nat : x \in Shr(w, 16) <=> x + 16 \in w
  BY <1>5, ShrBits
<1>8. Shr(w, 16) = tag
  BY <1>1, <1>6, <1>7
<1> QED
  BY <1>4, <1>8 DEF w

(* The high half of a level.                                               *)
LEMMA HighHalf ==
    ASSUME NEW w \in SUBSET (0..31)
    PROVE  Shr(w, 16) \in SUBSET (0..15)
<1>1. w \in SUBSET Int
  OBVIOUS
<1>2. Shr(w, 16) \in SUBSET Nat /\ \A x \in Nat : x \in Shr(w, 16) <=> x + 16 \in w
  BY <1>1, ShrBits
<1> QED
  BY <1>2

(* The id and the priority of a tag do not overlap.                        *)
LEMMA IdBits ==
    ASSUME NEW tag \in SUBSET (0..15), NEW value \in SUBSET VLAN_VID_MASK
    PROVE  LET new == (tag \ VLAN_VID_MASK) \union (value \intersect VLAN_VID_MASK)
           IN  /\ new \in SUBSET (0..15) /\ new \intersect VLAN_VID_MASK = value
               /\ new \intersect VLAN_PCP_MASK = tag \intersect VLAN_PCP_MASK
<1> DEFINE new == (tag \ VLAN_VID_MASK) \union (value \intersect VLAN_VID_MASK)
<1>1. VLAN_VID_MASK = 0..11 /\ VLAN_PCP_MASK = 13..15
  BY DEF VLAN_VID_MASK, VLAN_PCP_MASK, BitRange
<1>2. new \in SUBSET (0..15)
  BY <1>1
<1>3. new \intersect VLAN_VID_MASK = value
  OBVIOUS
<1>4. VLAN_VID_MASK \intersect VLAN_PCP_MASK = {}
  BY <1>1
<1>5. new \intersect VLAN_PCP_MASK = tag \intersect VLAN_PCP_MASK
  BY <1>4
<1> QED
  BY <1>2, <1>3, <1>5

(* A priority written into a tag is read back, and leaves the id.          *)
LEMMA PcpBits ==
    ASSUME NEW tag \in SUBSET (0..15), NEW value \in SUBSET (0..2)
    PROVE  LET new == (tag \ VLAN_PCP_MASK) \union Shl(value, 13, 16)
           IN  /\ new \in SUBSET (0..15)
               /\ new \intersect VLAN_VID_MASK = tag \intersect VLAN_VID_MASK
               /\ Shr(new \intersect VLAN_PCP_MASK, 13) = value
<1> DEFINE s == Shl(value, 13, 16)
           new == (tag \ VLAN_PCP_MASK) \union s
<1>1. value \in SUBSET Nat /\ 13 \in Nat /\ 16 \in Nat
  OBVIOUS
<1>2. s \in SUBSET Nat /\ \A x \in Nat : x \in s <=> (13 <= x /\ x < 16 /\ x - 13 \in value)
  BY <1>1, ShlBits
<1> HIDE DEF s
<1>3. s \in SUBSET (13..15)
  BY <1>2
<1>4. VLAN_VID_MASK = 0..11 /\ VLAN_PCP_MASK = 13..15
  BY DEF VLAN_VID_MASK, VLAN_PCP_MASK, BitRange
<1>5. new \in SUBSET (0..15) /\ new \intersect VLAN_VID_MASK = tag \intersect VLAN_VID_MASK
  BY <1>3, <1>4
<1>6. new \intersect VLAN_PCP_MASK = s
  BY <1>3, <1>4
<1>7. s \in SUBSET Int
  BY <1>3
<1>8. Shr(s, 13) \in SUBSET Nat /\ \A x \in Nat : x \in Shr(s, 13) <=> x + 13 \in s
  BY <1>7, ShrBits
<1>9. \A x \in Nat : x + 13 \in s <=> x \in value
  BY <1>2
<1>10. Shr(s, 13) = value
  BY <1>1, <1>8, <1>9
<1> QED
  BY <1>5, <1>6, <1>10 DEF s

-----------------------------------------------------------------------------
(* A level that the VLAN operations leave.                                 *)
VlanLevel == [type : {{}, ETH_TYPE_VLAN, ETH_TYPE_VLAN_QinQ}, w : SUBSET (0..31)]

TagOf(n) == IF netflow_is_vlan_tagged(n) THEN VlanTag(n.level[n.top]) ELSE {}

Mirrors(n) ==
    /\ n.match["vlan_id"] = TagOf(n) \intersect VLAN_VID_MASK
    /\ n.match["vlan_pcp"] = Shr(TagOf(n) \intersect VLAN_PCP_MASK, 13)

MirrorInv(n) ==
    /\ StackInv(n) /\ DOMAIN n.match = MatchFields
    /\ \A i \in 0..(MaxStackSize - 1) : n.level[i] \in VlanLevel
    /\ Mirrors(n)

(* What the masks leave of no bits.                                        *)
LEMMA NoBits == Shr({}, 13) = {} /\ Shr({}, 16) = {}
BY DEF Shr

(* A level that has been cleared is no VLAN tag.                           *)
LEMMA EmptyLevel == EmptyTag \in VlanLevel /\ VlanTag(EmptyTag) = {} /\ ~IsVlan(EmptyTag.type)
<1>1. EmptyTag \in VlanLevel
  BY DEF EmptyTag, VlanLevel
<1>2. EmptyTag.type = {} /\ EmptyTag.w = {}
  BY DEF EmptyTag
<1>3. ETH_TYPE_VLAN # {} /\ ETH_TYPE_VLAN_QinQ # {}
  BY DEF ETH_TYPE_VLAN, ETH_TYPE_VLAN_QinQ
<1> QED
  BY <1>1, <1>2, <1>3, NoBits DEF VlanTag, IsVlan

(* No level is an MPLS tag.                                                *)
LEMMA NotMpls == \A v \in VlanLevel : ~IsMpls(v.type)
<1>1. /\ ETH_TYPE_MPLS # {} /\ ETH_TYPE_MPLS_MCAST # {}
      /\ 8 \in ETH_TYPE_VLAN /\ 7 \in ETH_TYPE_VLAN_QinQ
      /\ 8 \notin ETH_TYPE_MPLS /\ 7 \notin ETH_TYPE_MPLS
      /\ 8 \notin ETH_TYPE_MPLS_MCAST /\ 7 \notin ETH_TYPE_MPLS_MCAST
  BY DEF ETH_TYPE_MPLS, ETH_TYPE_MPLS_MCAST, ETH_TYPE_VLAN, ETH_TYPE_VLAN_QinQ
<1> QED
  BY <1>1 DEF VlanLevel, IsMpls

(* A new flow has no tag, and no id or priority in its match.              *)
LEMMA MirrorInit == MirrorInv(netflow_init)
<1> DEFINE n == netflow_init
<1>1. StackInv(n) /\ n.top = 0
  BY InitStack
<1>2. /\ n.match = [f \in MatchFields |-> {}]
      /\ n.level = [i \in 0..(MaxStackSize - 1) |-> EmptyTag]
  BY DEF netflow_init
<1>3. DOMAIN n.match = MatchFields /\ n.match["vlan_id"] = {} /\ n.match["vlan_pcp"] = {}
  BY <1>2 DEF MatchFields
<1>4. \A i \in 0..(MaxStackSize - 1) : n.level[i] = EmptyTag
  BY <1>2
<1> HIDE DEF n
<1>5. 0 \in 0..(MaxStackSize - 1)
  BY Stack
<1>6. TagOf(n) = {}
  BY <1>1, <1>4, <1>5, EmptyLevel DEF TagOf, netflow_is_vlan_tagged
<1>7. Mirrors(n)
  BY <1>3, <1>6, NoBits DEF Mirrors
<1> QED
  BY <1>1, <1>3, <1>4, <1>7, EmptyLevel DEF MirrorInv, n

(* Changes beside the stack that leave the two fields alone.               *)
LEMMA MirrorBeside ==
    ASSUME NEW n, MirrorInv(n), NEW r, DOMAIN r = DOMAIN n, r.level = n.level,
           r.top = n.top, DOMAIN r.match = MatchFields,
           r.match["vlan_id"] = n.match["vlan_id"], r.match["vlan_pcp"] = n.match["vlan_pcp"]
    PROVE  MirrorInv(r)
<1>1. StackInv(r)
  BY DEF MirrorInv, StackInv, Shaped, Cleared
<1>2. TagOf(r) = TagOf(n)
  BY DEF TagOf, netflow_is_vlan_tagged
<1> QED
  BY <1>1, <1>2 DEF MirrorInv, Mirrors

(* A new level at the top that has the tag of the old top.                 *)
LEMMA MirrorPushed ==
    ASSUME NEW n, MirrorInv(n), n.top < MaxStackSize - 1, NEW type, IsVlan(type)
    PROVE  MirrorInv(netflow_push_vlan(n, type))
<1> DEFINE top == n.top + 1
           prev == n.level[n.top]
           new == [n.level[top] EXCEPT !.type = type]
           tag == IF n.top = STACK_EMPTY THEN {}
                  ELSE IF IsVlan(prev.type) THEN VlanTag(prev) ELSE VlanTag(new)
           v == [new EXCEPT !.w = type \union Shl(tag, 16, 32)]
           r == [n EXCEPT !.top = top, !.level[top] = v]
<1>1. netflow_push_vlan(n, type) = r
  BY DEF netflow_push_vlan
<1>2. n.top \in -1..(MaxStackSize - 1) /\ top \in 0..(MaxStackSize - 1)
  BY Stack DEF MirrorInv, StackInv, Shaped
<1>3. n.level[top] = EmptyTag
  BY <1>2, Stack DEF MirrorInv, StackInv, Cleared
<1>4. new = [type |-> type, w |-> {}] /\ new.type = type /\ new.w = {}
  BY <1>3 DEF EmptyTag
<1>5. type \in SUBSET (0..15) /\ type \in {ETH_TYPE_VLAN, ETH_TYPE_VLAN_QinQ}
  BY DEF IsVlan, ETH_TYPE_VLAN, ETH_TYPE_VLAN_QinQ
<1>6. tag = TagOf(n)
  <2>1. VlanTag(new) = {}
    BY <1>4, NoBits DEF VlanTag
  <2> HIDE DEF new
  <2> QED
    BY <2>1 DEF TagOf, netflow_is_vlan_tagged
<1>7. TagOf(n) \in SUBSET (0..15)
  <2>1. CASE netflow_is_vlan_tagged(n)
    <3>1. n.top \in 0..(MaxStackSize - 1)
      BY <1>2, <2>1, Stack DEF netflow_is_vlan_tagged
    <3>2. n.level[n.top].w \in SUBSET (0..31)
      BY <3>1 DEF MirrorInv, VlanLevel
    <3> QED
      BY <2>1, <3>2, HighHalf DEF TagOf, VlanTag
  <2> QED
    BY <2>1 DEF TagOf
<1> HIDE DEF tag, new
<1>8. /\ v = [type |-> type, w |-> type \union Shl(tag, 16, 32)]
      /\ v.type = type /\ v.w = type \union Shl(tag, 16, 32)
  BY <1>4
<1> HIDE DEF v
<1>9. v \in VlanLevel /\ VlanTag(v) = tag
  <2>1. v.w \in SUBSET (0..31) /\ Shr(v.w, 16) = tag
    BY <1>5, <1>6, <1>7, <1>8, TagBits
  <2> QED
    BY <1>5, <1>8, <2>1 DEF VlanLevel, VlanTag
<1>10. DOMAIN n = Fields /\ DOMAIN n.level = 0..(MaxStackSize - 1)
  BY DEF MirrorInv, StackInv, Shaped
<1>11. /\ r.match = n.match /\ r.top = top
       /\ \A i \in 0..(MaxStackSize - 1) : r.level[i] = IF i = top THEN v ELSE n.level[i]
  BY <1>2, <1>10 DEF Fields
<1>12. StackInv(r)
  <2>1. StackInv(n)
    BY DEF MirrorInv
  <2> HIDE DEF MirrorInv
  <2> QED
    BY <2>1, Pushed
<1> HIDE DEF r
<1>13. TagOf(r) = TagOf(n)
  <2>1. r.level[r.top] = v /\ r.top # STACK_EMPTY
    BY <1>2, <1>11, Stack
  <2> QED
    BY <1>6, <1>8, <1>9, <2>1 DEF TagOf, netflow_is_vlan_tagged
<1>14. Mirrors(r)
  BY <1>11, <1>13 DEF MirrorInv, Mirrors
<1> QED
  BY <1>1, <1>9, <1>11, <1>12, <1>14 DEF MirrorInv

(* After a pop the match is read from the tag below.                       *)
LEMMA MirrorPopped ==
    ASSUME NEW n, MirrorInv(n)
    PROVE  MirrorInv(netflow_pop_vlan(n))
<1> DEFINE popped == [n EXCEPT !.top = @ - 1, !.level[n.top] = EmptyTag]
           tag == IF netflow_is_vlan_tagged(popped)
                  THEN VlanTag(popped.level[popped.top]) ELSE {}
           m == [popped.match EXCEPT !["vlan_id"]  = tag \intersect VLAN_VID_MASK,
                                     !["vlan_pcp"] = Shr(tag \intersect VLAN_PCP_MASK, 13)]
           r == [popped EXCEPT !.match = m]
<1>1. CASE ~netflow_is_vlan_tagged(n)
  BY <1>1 DEF netflow_pop_vlan
<1>2. CASE netflow_is_vlan_tagged(n)
  <2>1. n.top \in 0..(MaxStackSize - 1)
    BY <1>2, Stack DEF netflow_is_vlan_tagged, MirrorInv, StackInv, Shaped
  <2>2. netflow_pop_vlan(n) = r
    BY <1>2 DEF netflow_pop_vlan
  <2>3. DOMAIN n = Fields /\ DOMAIN n.level = 0..(MaxStackSize - 1) /\ DOMAIN n.match = MatchFields
    BY DEF MirrorInv, StackInv, Shaped
  <2>4. /\ DOMAIN popped = Fields /\ popped.match = n.match
        /\ \A i \in 0..(MaxStackSize - 1) :
              popped.level[i] = IF i = n.top THEN EmptyTag ELSE n.level[i]
    BY <2>1, <2>3 DEF Fields
  <2> HIDE DEF popped
  <2>5. r.level = popped.level /\ r.top = popped.top /\ r.match = m
    BY <2>4 DEF Fields
  <2>6. /\ DOMAIN m = MatchFields /\ m["vlan_id"] = tag \intersect VLAN_VID_MASK
        /\ m["vlan_pcp"] = Shr(tag \intersect VLAN_PCP_MASK, 13)
    <3> HIDE DEF tag
    <3>1. DOMAIN popped.match = MatchFields /\ "vlan_id" \in MatchFields
          /\ "vlan_pcp" \in MatchFields
      BY <2>3, <2>4 DEF MatchFields
    <3> QED
      BY <3>1
  <2>7. StackInv(r)
    <3>1. StackInv(n)
      BY DEF MirrorInv
    <3>2. StackInv(netflow_pop_vlan(n))
      BY <3>1, PopVlanStack
    <3> QED
      BY <2>2, <3>2
  <2> HIDE DEF r, m
  <2>8. TagOf(r) = tag
    BY <2>5 DEF TagOf, netflow_is_vlan_tagged
  <2>9. \A i \in 0..(MaxStackSize - 1) : r.level[i] \in VlanLevel
    BY <2>4, <2>5, EmptyLevel DEF MirrorInv
  <2> HIDE DEF tag
  <2> QED
    BY <2>2, <2>5, <2>6, <2>7, <2>8, <2>9 DEF MirrorInv, Mirrors
<1> QED
  BY <1>1, <1>2

-----------------------------------------------------------------------------
(* A field of the outermost tag is set in the match and in the tag.        *)
LEMMA MirrorVlanField ==
    ASSUME NEW n, MirrorInv(n), NEW field \in {"vlan_id", "vlan_pcp"}, NEW value,
           field = "vlan_id" => value \in SUBSET VLAN_VID_MASK,
           field = "vlan_pcp" => value \in SUBSET (0..2)
    PROVE  MirrorInv(set_vlan_field(n, field, value))
<1> DEFINE tag == VlanTag(n.level[n.top])
           new == IF field = "vlan_id"
                  THEN (tag \ VLAN_VID_MASK) \union (value \intersect VLAN_VID_MASK)
                  ELSE (tag \ VLAN_PCP_MASK) \union Shl(value, 13, 16)
           v == WithVlanTag(n.level[n.top], new)
           r == [n EXCEPT !.match[field] = value, !.level[n.top] = v]
<1>1. CASE ~netflow_is_vlan_tagged(n)
  BY <1>1 DEF set_vlan_field
<1>2. CASE netflow_is_vlan_tagged(n)
  <2>1. n.top \in 0..(MaxStackSize - 1) /\ n.top # STACK_EMPTY
    BY <1>2, Stack DEF netflow_is_vlan_tagged, MirrorInv, StackInv, Shaped
  <2>2. set_vlan_field(n, field, value) = r
    BY <1>2 DEF set_vlan_field
  <2>3. /\ DOMAIN n = Fields /\ DOMAIN n.level = 0..(MaxStackSize - 1)
        /\ DOMAIN n.match = MatchFields /\ field \in MatchFields
    BY DEF MirrorInv, StackInv, Shaped, MatchFields
  <2>4. n.level[n.top] \in VlanLevel
    BY <2>1 DEF MirrorInv
  <2>5. tag \in SUBSET (0..15)
    BY <2>4, HighHalf DEF VlanLevel, VlanTag
  <2>6. TagOf(n) = tag
    BY <1>2 DEF TagOf
  <2>7. /\ n.match["vlan_id"] = tag \intersect VLAN_VID_MASK
        /\ n.match["vlan_pcp"] = Shr(tag \intersect VLAN_PCP_MASK, 13)
    BY <2>6 DEF MirrorInv, Mirrors
  <2> HIDE DEF tag
  <2>8. /\ new \in SUBSET (0..15)
        /\ new \intersect VLAN_VID_MASK = IF field = "vlan_id" THEN value ELSE n.match["vlan_id"]
        /\ Shr(new \intersect VLAN_PCP_MASK, 13)
              = IF field = "vlan_pcp" THEN value ELSE n.match["vlan_pcp"]
    <3>1. CASE field = "vlan_id"
      BY <2>5, <2>7, <3>1, IdBits
    <3>2. CASE field = "vlan_pcp"
      BY <2>5, <2>7, <3>2, PcpBits
    <3> QED
      BY <3>1, <3>2
  <2> HIDE DEF new
  <2>9. /\ v.type = n.level[n.top].type /\ VlanTag(v) = new /\ v \in VlanLevel
    <3> DEFINE t == n.level[n.top]
               low == Trunc(t.w, 16)
    <3>1. t = [type |-> t.type, w |-> t.w] /\ t.w \in SUBSET (0..31)
          /\ t.type \in {{}, ETH_TYPE_VLAN, ETH_TYPE_VLAN_QinQ}
      BY <2>4 DEF VlanLevel
    <3>2. v = [t EXCEPT !.w = low \union Shl(new, 16, 32)]
      BY DEF WithVlanTag
    <3>3. low \in SUBSET (0..15)
      BY <3>1 DEF Trunc
    <3> HIDE DEF low, t, v
    <3>4. v = [type |-> t.type, w |-> low \union Shl(new, 16, 32)]
      BY <3>1, <3>2
    <3>5. v.type = t.type /\ v.w = low \union Shl(new, 16, 32)
      BY <3>4
    <3>6. v.w \in SUBSET (0..31) /\ Shr(v.w, 16) = new
      <4>1. new \in SUBSET (0..15)
        BY <2>8
      <4>2. /\ low \union Shl(new, 16, 32) \in SUBSET (0..31)
            /\ Shr(low \union Shl(new, 16, 32), 16) = new
        BY <3>3, <4>1, TagBits, Zenon
      <4> QED
        BY <3>5, <4>2, Zenon
    <3>7. v \in VlanLevel
      BY <3>1, <3>4, <3>5, <3>6 DEF VlanLevel
    <3> QED
      BY <3>5, <3>6, <3>7 DEF VlanTag, t
  <2> HIDE DEF v
  <2>10. /\ r.top = n.top /\ DOMAIN r.match = MatchFields
         /\ r.match["vlan_id"] = IF field = "vlan_id" THEN value ELSE n.match["vlan_id"]
         /\ r.match["vlan_pcp"] = IF field = "vlan_pcp" THEN value ELSE n.match["vlan_pcp"]
         /\ \A i \in 0..(MaxStackSize - 1) : r.level[i] = IF i = n.top THEN v ELSE n.level[i]
    <3>1. "vlan_id" \in MatchFields /\ "vlan_pcp" \in MatchFields
      BY DEF MatchFields
    <3> QED
      BY <2>1, <2>3, <3>1 DEF Fields
  <2>11. StackInv(r)
    <3>1. StackInv(n)
      BY DEF MirrorInv
    <3>2. \A m : StackInv([n EXCEPT !.match = m, !.level[n.top] = v])
      BY <2>1, <3>1, TopSet
    <3> DEFINE m == [n.match EXCEPT ![field] = value]
    <3>3. r = [n EXCEPT !.match = m, !.level[n.top] = v]
      OBVIOUS
    <3> HIDE DEF m
    <3> QED
      BY <3>2, <3>3, Zenon
  <2> HIDE DEF r
  <2>12. TagOf(r) = new
    <3>1. r.level[r.top] = v /\ IsVlan(v.type)
      BY <1>2, <2>1, <2>9, <2>10 DEF netflow_is_vlan_tagged
    <3> QED
      BY <2>1, <2>9, <2>10, <3>1 DEF TagOf, netflow_is_vlan_tagged
  <2>13. Mirrors(r)
    BY <2>8, <2>10, <2>12 DEF Mirrors
  <2> QED
    BY <2>2, <2>9, <2>10, <2>11, <2>13 DEF MirrorInv
<1> QED
  BY <1>1, <1>2

(* Any field is set.                                                       *)
LEMMA MirrorSetField ==
    ASSUME NEW n, MirrorInv(n), NEW field, NEW value,
           field = "vlan_id" => value \in SUBSET VLAN_VID_MASK,
           field = "vlan_pcp" => value \in SUBSET (0..2)
    PROVE  MirrorInv(set_field(n, field, value))
<1>1. CASE field \in {"vlan_id", "vlan_pcp"}
  <2>1. set_field(n, field, value) = set_vlan_field(n, field, value)
    BY <1>1 DEF set_field, UnsetFields
  <2> QED
    BY <1>1, <2>1, MirrorVlanField
<1>2. CASE field \in {"mpls_label", "mpls_tc", "mpls_bos"}
  <2>1. set_field(n, field, value) = set_mpls_field(n, field, value)
    BY <1>2 DEF set_field, UnsetFields
  <2>2. ~netflow_is_outer_mpls(n)
    <3>1. n.top # STACK_EMPTY => n.top \in 0..(MaxStackSize - 1)
      BY Stack DEF MirrorInv, StackInv, Shaped
    <3> QED
      BY <3>1, NotMpls DEF netflow_is_outer_mpls, MirrorInv
  <2>3. set_mpls_field(n, field, value) = n
    BY <2>2 DEF set_mpls_field
  <2> QED
    BY <2>1, <2>3
<1>3. CASE field \notin {"vlan_id", "vlan_pcp", "mpls_label", "mpls_tc", "mpls_bos"}
  <2>1. \A x : MirrorInv([n EXCEPT !.match[field] = x])
    <3> TAKE x
    <3> DEFINE r == [n EXCEPT !.match[field] = x]
    <3>1. DOMAIN n = Fields /\ DOMAIN n.match = MatchFields
      BY DEF MirrorInv, StackInv, Shaped
    <3>2. /\ DOMAIN r = DOMAIN n /\ r.level = n.level /\ r.top = n.top
          /\ DOMAIN r.match = MatchFields /\ r.match["vlan_id"] = n.match["vlan_id"]
          /\ r.match["vlan_pcp"] = n.match["vlan_pcp"]
      <4>1. "vlan_id" \in MatchFields /\ "vlan_pcp" \in MatchFields
        BY DEF MatchFields
      <4> QED
        BY <1>3, <3>1, <4>1 DEF Fields
    <3> HIDE DEF r
    <3>3. MirrorInv(r)
      BY <3>2, MirrorBeside
    <3> QED
      BY <3>3 DEF r
  <2>2. set_field(n, field, value) = n \/ \E x : set_field(n, field, value) = [n EXCEPT !.match[field] = x]
    <3>1. CASE field = "ipv6_nd_target"
      BY <1>3, <3>1 DEF set_field, UnsetFields
    <3>2. CASE field \in UnsetFields
      BY <1>3, <3>2 DEF set_field, UnsetFields
    <3>3. CASE field # "ipv6_nd_target" /\ field \notin UnsetFields
      BY <1>3, <3>3 DEF set_field
    <3> QED
      BY <3>1, <3>2, <3>3
  <2> QED
    BY <2>1, <2>2
<1> QED
  BY <1>1, <1>2, <1>3

-----------------------------------------------------------------------------
(* A packet whose tags are not read: it has none, or another type.         *)
Untagged(p) == p.words \in Seq(SUBSET Int) /\ (p.words = <<>> \/ ~IsVlan(p.eth_type))

Ethernet(p) ==
    [netflow_init EXCEPT !.match = [@ EXCEPT !["eth_type"] = p.eth_type,
                                             !["eth_src"] = p.eth_src,
                                             !["eth_dst"] = p.eth_dst]]

(* The flow before the network header is read.                             *)
LEMMA EthernetFacts ==
    ASSUME NEW p
    PROVE  LET e == Ethernet(p)
           IN  /\ DOMAIN e = Fields /\ e.top = 0 /\ e.level = netflow_init.level
               /\ DOMAIN e.match = MatchFields /\ e.match["eth_type"] = p.eth_type
               /\ e.match["eth_src"] = p.eth_src /\ e.match["eth_dst"] = p.eth_dst
               /\ \A f \in MatchFields \ {"eth_type", "eth_src", "eth_dst"} : e.match[f] = {}
               /\ e.info = {} /\ e.payload = {}
<1> DEFINE n == netflow_init
           m == [n.match EXCEPT !["eth_type"] = p.eth_type, !["eth_src"] = p.eth_src,
                                !["eth_dst"] = p.eth_dst]
<1>1. /\ DOMAIN n = Fields /\ n.top = 0 /\ n.match = [f \in MatchFields |-> {}]
      /\ n.info = {} /\ n.payload = {}
  BY DEF netflow_init, Fields
<1>2. {"eth_type", "eth_src", "eth_dst"} \subseteq MatchFields
  BY DEF MatchFields
<1>3. /\ DOMAIN m = MatchFields /\ m["eth_type"] = p.eth_type
      /\ m["eth_src"] = p.eth_src /\ m["eth_dst"] = p.eth_dst
      /\ \A f \in MatchFields \ {"eth_type", "eth_src", "eth_dst"} : m[f] = {}
  BY <1>1, <1>2
<1>4. Ethernet(p) = [n EXCEPT !.match = m]
  BY DEF Ethernet
<1> HIDE DEF m, n
<1> QED
  BY <1>1, <1>3, <1>4 DEF Fields, n

(* A packet whose tags are not read adds no level to the stack.            *)
LEMMA UntaggedParsed ==
    ASSUME NEW p, Untagged(p)
    PROVE  LET v == parse_vlan(Ethernet(p), p)
           IN  v.flow = Ethernet(p) /\ v.next = 1 /\ (v.cut <=> IsVlan(p.eth_type))
<1> DEFINE n == Ethernet(p)
           Type(i) == IF i = 0 THEN p.eth_type ELSE Shr(p.words[i], 16)
           stops == {i \in 0..Len(p.words) : ~IsVlan(Type(i))}
           read == IF stops = {} THEN Len(p.words)
                   ELSE CHOOSE i \in stops : \A j \in stops : i <= j
           tag == Trunc(p.words[1], 16)
           tagged == [n EXCEPT !.match =
                         [@ EXCEPT !["vlan_id"]  = tag \intersect VLAN_VID_MASK,
                                   !["vlan_pcp"] = Shr(tag \intersect VLAN_PCP_MASK, 13)]]
           level == [i \in DOMAIN n.level |->
                         IF i \in (n.top + 1)..(n.top + read)
                         THEN [type |-> Type(i - n.top), w |-> Rev32(p.words[i - n.top])]
                         ELSE n.level[i]]
<1>1. Len(p.words) \in Nat /\ (p.words = <<>> => Len(p.words) = 0)
  BY DEF Untagged
<1>2. read = 0 /\ (stops = {} <=> IsVlan(p.eth_type))
  <2>1. CASE ~IsVlan(p.eth_type)
    <3>1. 0 \in stops /\ \A j \in stops : 0 <= j
      BY <1>1, <2>1
    <3>2. \A i \in stops : (\A j \in stops : i <= j) => i = 0
      BY <1>1, <3>1
    <3> HIDE DEF stops
    <3>3. read = 0
      BY <3>1, <3>2
    <3> QED
      BY <2>1, <3>1, <3>3
  <2>2. CASE IsVlan(p.eth_type)
    <3>1. Len(p.words) = 0
      BY <1>1, <2>2 DEF Untagged
    <3>2. stops = {}
      BY <2>2, <3>1
    <3> QED
      BY <2>2, <3>1, <3>2
  <2> QED
    BY <2>1, <2>2
<1>3. parse_vlan(n, p) =
        [flow |-> [(IF read = 0 THEN n ELSE tagged) EXCEPT
                     !.match["eth_type"] = Type(read), !.top = @ + read, !.level =
                         [i \in DOMAIN @ |->
                            IF i \in (n.top + 1)..(n.top + read)
                            THEN [type |-> Type(i - n.top), w |-> Rev32(p.words[i - n.top])]
                            ELSE @[i]]],
         next |-> read + 1, cut |-> stops = {}]
  BY DEF parse_vlan
<1>4. /\ DOMAIN n = Fields /\ n.top = 0 /\ DOMAIN n.match = MatchFields
      /\ n.match["eth_type"] = p.eth_type /\ n.level = netflow_init.level
  BY EthernetFacts
<1>5. n.level = [i \in DOMAIN n.level |-> n.level[i]]
  BY <1>4 DEF netflow_init
<1> HIDE DEF stops, read, tagged, n
<1>6. level = n.level
  <2>1. 1..0 = {}
    OBVIOUS
  <2>2. (n.top + 1)..(n.top + read) = {}
    BY <1>2, <1>4
  <2>3. level = [i \in DOMAIN n.level |-> n.level[i]]
    BY <2>2
  <2> QED
    BY <1>5, <2>3
<1> HIDE DEF level
<1>7. parse_vlan(n, p).flow = [n EXCEPT !.match["eth_type"] = p.eth_type, !.top = @ + 0,
                                        !.level = level]
  BY <1>2, <1>3 DEF level
<1>8. [n EXCEPT !.match["eth_type"] = p.eth_type, !.top = @ + 0, !.level = level] = n
  <2> DEFINE m == [n.match EXCEPT !["eth_type"] = p.eth_type]
  <2>1. n = [x \in Fields |-> n[x]]
    BY <1>4 DEF n, Ethernet
  <2>2. n.match = [f \in MatchFields |-> n.match[f]]
    BY <1>4 DEF n, Ethernet, netflow_init
  <2>3. m = n.match
    BY <1>4, <2>2
  <2> HIDE DEF m
  <2>4. [n EXCEPT !.match = m, !.top = n.top, !.level = n.level] = n
    BY <1>4, <2>1, <2>3
  <2> QED
    BY <1>4, <1>6, <2>4 DEF m
<1>9. parse_vlan(n, p).next = 1
  BY <1>2, <1>3
<1>10. parse_vlan(n, p).cut = (stops = {})
  <2> DEFINE none == stops = {}
             flow == parse_vlan(n, p).flow
             next == parse_vlan(n, p).next
  <2>1. parse_vlan(n, p) = [flow |-> flow, next |-> next, cut |-> none]
    BY <1>3
  <2> DEFINE r == [flow |-> flow, next |-> next, cut |-> none]
  <2> HIDE DEF none, flow, next
  <2>2. r.cut = none
    BY Zenon
  <2> HIDE DEF r
  <2>3. parse_vlan(n, p) = r
    BY <2>1 DEF r
  <2> QED
    BY <2>2, <2>3, Zenon DEF none
<1> QED
  BY <1>2, <1>7, <1>8, <1>9, <1>10 DEF n

-----------------------------------------------------------------------------
(* The types of packets.h that pkt_to_netflow tells apart differ.          *)
LEMMA TypesDiffer ==
    /\ \A t : IsVlan(t) => /\ ~IsMpls(t) /\ t # ETH_TYPE_LLDP
                           /\ t # ETH_TYPE_ARP /\ t # ETH_TYPE_IP
    /\ \A t : IsMpls(t) => t # ETH_TYPE_LLDP /\ t # ETH_TYPE_ARP /\ t # ETH_TYPE_IP
    /\ ETH_TYPE_LLDP # ETH_TYPE_ARP /\ ETH_TYPE_LLDP # ETH_TYPE_IP
    /\ ETH_TYPE_ARP # ETH_TYPE_IP /\ ETH_TYPE_ARP # ETH_TYPE_IPV6
    /\ ETH_TYPE_IP # ETH_TYPE_IPV6 /\ ETH_TYPE_LLDP # ETH_TYPE_IPV6
<1>1. /\ 8 \in ETH_TYPE_VLAN /\ 5 \in ETH_TYPE_VLAN_QinQ
      /\ 5 \notin ETH_TYPE_MPLS /\ 5 \notin ETH_TYPE_MPLS_MCAST /\ 8 \notin ETH_TYPE_MPLS
      /\ 8 \notin ETH_TYPE_MPLS_MCAST /\ 8 \notin ETH_TYPE_LLDP /\ 5 \notin ETH_TYPE_LLDP
      /\ 8 \notin ETH_TYPE_ARP /\ 5 \notin ETH_TYPE_ARP
      /\ 8 \notin ETH_TYPE_IP /\ 5 \notin ETH_TYPE_IP
  BY DEF ETH_TYPE_VLAN, ETH_TYPE_VLAN_QinQ, ETH_TYPE_MPLS, ETH_TYPE_MPLS_MCAST,
         ETH_TYPE_LLDP, ETH_TYPE_ARP, ETH_TYPE_IP
<1>2. /\ 0 \in ETH_TYPE_MPLS /\ 0 \notin ETH_TYPE_LLDP /\ 0 \notin ETH_TYPE_ARP
      /\ 0 \notin ETH_TYPE_IP /\ 2 \in ETH_TYPE_LLDP /\ 2 \notin ETH_TYPE_MPLS_MCAST
      /\ 2 \in ETH_TYPE_ARP /\ 6 \in ETH_TYPE_MPLS_MCAST /\ 6 \notin ETH_TYPE_IP
      /\ 6 \in ETH_TYPE_LLDP /\ 6 \notin ETH_TYPE_ARP
      /\ 1 \in ETH_TYPE_ARP /\ 1 \notin ETH_TYPE_IP
      /\ 0 \in ETH_TYPE_IPV6
  BY DEF ETH_TYPE_MPLS, ETH_TYPE_MPLS_MCAST, ETH_TYPE_LLDP, ETH_TYPE_ARP, ETH_TYPE_IP,
         ETH_TYPE_IPV6
<1>3. \A t : IsVlan(t) => /\ ~IsMpls(t) /\ t # ETH_TYPE_LLDP
                          /\ t # ETH_TYPE_ARP /\ t # ETH_TYPE_IP
  BY <1>1 DEF IsVlan, IsMpls
<1>4. \A t : IsMpls(t) => t # ETH_TYPE_LLDP /\ t # ETH_TYPE_ARP /\ t # ETH_TYPE_IP
  BY <1>2 DEF IsMpls
<1> QED
  BY <1>2, <1>3, <1>4

(* pkt_to_netflow of a packet whose tags are not read.                     *)
LEMMA UntaggedRead ==
    ASSUME NEW p, Untagged(p)
    PROVE  LET e == Ethernet(p)
               r == pkt_to_netflow(p, netflow_init)
               t == p.eth_type
           IN  /\ IsVlan(t) => r = e
               /\ IsMpls(t) => r = parse_mpls(e, p, 1)
               /\ t = ETH_TYPE_LLDP => r = [e EXCEPT !.payload = p.payload]
               /\ t = ETH_TYPE_ARP => r = parse_arp(e, p)
               /\ t = ETH_TYPE_IP => r = parse_ip(e, p)
               /\ (~IsVlan(t) /\ ~IsMpls(t) /\ t # ETH_TYPE_LLDP /\ t # ETH_TYPE_ARP
                     /\ t # ETH_TYPE_IP) => r = e
<1> DEFINE e == Ethernet(p)
           v == parse_vlan(e, p)
           r == pkt_to_netflow(p, netflow_init)
           t == p.eth_type
<1>1. v.flow = e /\ v.next = 1 /\ (v.cut <=> IsVlan(t))
  BY UntaggedParsed
<1>2. e.match["eth_type"] = t
  BY EthernetFacts
<1>3. r = LET f == v.flow
              type == f.match["eth_type"]
          IN CASE v.cut -> f
               [] ~v.cut /\ IsMpls(type) -> parse_mpls(f, p, v.next)
               [] type = ETH_TYPE_LLDP -> [f EXCEPT !.payload = p.payload]
               [] type = ETH_TYPE_ARP -> parse_arp(f, p)
               [] type = ETH_TYPE_IP -> parse_ip(f, p)
               [] OTHER -> f
  BY DEF pkt_to_netflow, Ethernet
<1> HIDE DEF v, e, r
<1>4. r = CASE IsVlan(t) -> e
            [] ~IsVlan(t) /\ IsMpls(t) -> parse_mpls(e, p, 1)
            [] t = ETH_TYPE_LLDP -> [e EXCEPT !.payload = p.payload]
            [] t = ETH_TYPE_ARP -> parse_arp(e, p)
            [] t = ETH_TYPE_IP -> parse_ip(e, p)
            [] OTHER -> e
  BY <1>1, <1>2, <1>3
<1> HIDE DEF t
<1> QED
  BY <1>4, TypesDiffer DEF e, r, t

(* The flow of such a packet has no tag and no VLAN field in its match.    *)
LEMMA MirrorPacket ==
    ASSUME NEW p, Untagged(p)
    PROVE  MirrorInv(pkt_to_netflow(p, netflow_init))
<1> DEFINE e == Ethernet(p)
           r == pkt_to_netflow(p, netflow_init)
           F == {"vlan_id", "vlan_pcp"}
<1>1. /\ DOMAIN e = Fields /\ e.top = 0 /\ e.level = netflow_init.level
      /\ DOMAIN e.match = MatchFields /\ e.match["vlan_id"] = {} /\ e.match["vlan_pcp"] = {}
  BY EthernetFacts DEF MatchFields
<1>2. MirrorInv(e)
  <2>1. /\ DOMAIN netflow_init = Fields /\ netflow_init.top = 0
        /\ netflow_init.match["vlan_id"] = {} /\ netflow_init.match["vlan_pcp"] = {}
    BY DEF netflow_init, Fields, MatchFields
  <2> HIDE DEF e
  <2> QED
    BY <1>1, <2>1, MirrorInit, MirrorBeside
<1> HIDE DEF e
<1>3. ASSUME NEW m, DOMAIN m = MatchFields, m["vlan_id"] = {}, m["vlan_pcp"] = {}, NEW i
      PROVE  MirrorInv([e EXCEPT !.match = m]) /\ MirrorInv([e EXCEPT !.match = m, !.info = i])
  <2> DEFINE a == [e EXCEPT !.match = m]
             b == [e EXCEPT !.match = m, !.info = i]
  <2>1. /\ DOMAIN a = DOMAIN e /\ a.level = e.level /\ a.top = e.top /\ a.match = m
        /\ DOMAIN b = DOMAIN e /\ b.level = e.level /\ b.top = e.top /\ b.match = m
    BY <1>1 DEF Fields
  <2> HIDE DEF a, b
  <2>2. MirrorInv(a)
    BY <1>1, <1>2, <1>3, <2>1, MirrorBeside
  <2>3. MirrorInv(b)
    BY <1>1, <1>2, <1>3, <2>1, MirrorBeside
  <2> QED
    BY <2>2, <2>3 DEF a, b
<1>4. MirrorInv([e EXCEPT !.payload = p.payload])
  <2> DEFINE a == [e EXCEPT !.payload = p.payload]
  <2>1. DOMAIN a = DOMAIN e /\ a.level = e.level /\ a.top = e.top /\ a.match = e.match
    BY <1>1 DEF Fields
  <2> HIDE DEF a
  <2>2. MirrorInv(a)
    BY <1>1, <1>2, <2>1, MirrorBeside
  <2> QED
    BY <2>2 DEF a
<1>5. MirrorInv(parse_mpls(e, p, 1))
  <2> DEFINE w == p.words[1]
             m == [e.match EXCEPT !["mpls_label"] = Shr(w \intersect MPLS_LABEL_MASK, 12),
                                  !["mpls_tc"] = Shr(w \intersect MPLS_TC_MASK, 9),
                                  !["mpls_bos"] = Shr(w \intersect MPLS_S_MASK, 8)]
  <2>1. DOMAIN m = MatchFields /\ m["vlan_id"] = {} /\ m["vlan_pcp"] = {}
    <3>1. "vlan_id" \in MatchFields /\ "vlan_pcp" \in MatchFields
      BY DEF MatchFields
    <3> QED
      BY <1>1, <3>1
  <2>2. parse_mpls(e, p, 1) = e \/ parse_mpls(e, p, 1) = [e EXCEPT !.match = m]
    BY DEF parse_mpls
  <2> HIDE DEF m
  <2> QED
    BY <1>2, <1>3, <2>1, <2>2
<1>6. MirrorInv(parse_arp(e, p))
  <2> DEFINE op == p.fields["arp_op"]
             read == (IF op \subseteq BitRange(0, 7) THEN {"arp_op"} ELSE {})
                       \union (IF op \in {{0}, {1}} THEN ArpFields ELSE {})
             m == [f \in MatchFields |-> IF f \in read THEN p.fields[f] ELSE e.match[f]]
  <2>1. "vlan_id" \notin read /\ "vlan_pcp" \notin read
    BY DEF ArpFields
  <2>2. parse_arp(e, p) = e \/ parse_arp(e, p) = [e EXCEPT !.match = m]
    BY DEF parse_arp
  <2> HIDE DEF read
  <2>3. DOMAIN m = MatchFields /\ m["vlan_id"] = {} /\ m["vlan_pcp"] = {}
    BY <1>1, <2>1 DEF MatchFields
  <2> HIDE DEF m
  <2> QED
    BY <1>2, <1>3, <2>2, <2>3
<1>7. MirrorInv(parse_ip(e, p))
  <2> DEFINE read == {"ipv4_src", "ipv4_dst", "ip_proto"}
             m0 == [f \in MatchFields |-> IF f \in read THEN p.fields[f] ELSE e.match[f]]
             m == [m0 EXCEPT !["ip_ecn"] = p.tos \intersect {0, 1},
                             !["ip_dscp"] = Shr(p.tos, 2)]
             ip == [e EXCEPT !.match = m]
  <2>1. DOMAIN m = MatchFields /\ m["vlan_id"] = {} /\ m["vlan_pcp"] = {}
    <3>1. /\ "vlan_id" \in MatchFields /\ "vlan_pcp" \in MatchFields
          /\ "vlan_id" \notin read /\ "vlan_pcp" \notin read
      BY DEF MatchFields
    <3>2. m0["vlan_id"] = {} /\ m0["vlan_pcp"] = {} /\ DOMAIN m0 = MatchFields
      BY <1>1, <3>1
    <3> HIDE DEF m0
    <3> QED
      BY <3>1, <3>2
  <2>2. parse_ip(e, p) = e \/ parse_ip(e, p) = ip \/ parse_ip(e, p) = parse_l4(ip, p)
    BY DEF parse_ip
  <2> HIDE DEF m
  <2>3. ip.match = m /\ DOMAIN ip = Fields
    BY <1>1 DEF Fields
  <2> DEFINE q == IF "l4" \in p.headers
                  THEN L4Of(m["ip_proto"]) \ {"icmpv6_type", "icmpv6_code"} ELSE {}
             m4 == [f \in MatchFields |-> IF f \in q THEN p.fields[f] ELSE m[f]]
             c == /\ q # {}
                  /\ \/ m["ip_proto"] = IP_PROTO_TCP
                     \/ IsEcho(m["ip_proto"], m4) /\ "echo" \in p.headers
  <2>4. parse_l4(ip, p) = [ip EXCEPT !.match = m4, !.info = IF c THEN p.info ELSE ip.info]
    BY <2>3 DEF parse_l4
  <2>5. q \subseteq L4Fields
    BY DEF L4Of, L4Fields
  <2> HIDE DEF q
  <2>6. DOMAIN m4 = MatchFields /\ m4["vlan_id"] = {} /\ m4["vlan_pcp"] = {}
    BY <2>1, <2>5 DEF MatchFields, L4Fields
  <2> HIDE DEF m4, c
  <2>7. [ip EXCEPT !.match = m4, !.info = IF c THEN p.info ELSE ip.info]
          = [e EXCEPT !.match = m4, !.info = IF c THEN p.info ELSE ip.info]
    BY <1>1 DEF Fields
  <2> DEFINE i == IF c THEN p.info ELSE ip.info
  <2>8. MirrorInv([e EXCEPT !.match = m4, !.info = i])
    <3> HIDE DEF i
    <3> QED
      BY <1>3, <2>6
  <2>9. MirrorInv(ip)
    BY <1>3, <2>1
  <2> QED
    BY <1>2, <2>2, <2>4, <2>7, <2>8, <2>9
<1>8. r = e \/ r = parse_mpls(e, p, 1) \/ r = [e EXCEPT !.payload = p.payload]
      \/ r = parse_arp(e, p) \/ r = parse_ip(e, p)
  BY UntaggedRead DEF e
<1> QED
  BY <1>2, <1>4, <1>5, <1>6, <1>7, <1>8

-----------------------------------------------------------------------------
(* The operations are those of VLAN tags: no MPLS tag is pushed, no level  *)
(* is popped as one, packets carry no VLAN tags, and the fields of a tag   *)
(* are set to values of their width.                                       *)
VlanOnly ==
    /\ \A type \in PushTypes : ~IsMpls(type)
    /\ PopTypes = {}
    /\ \A p \in Packets : ~IsVlan(p.eth_type)
    /\ \A fv \in FieldValues :
          /\ fv[1] = "vlan_id" => fv[2] \in SUBSET VLAN_VID_MASK
          /\ fv[1] = "vlan_pcp" => fv[2] \in SUBSET (0..2)

MirrorState == MirrorInv(nf)

(* The match of a flow holds the id and the priority of its outermost VLAN *)
(* tag, however often tags are pushed on each other, popped and set.       *)
THEOREM VlanMatchMirrorsTagHolds ==
    ASSUME VlanOnly PROVE Spec => []VlanMatchMirrorsTag
<1>1. Init => MirrorState
  BY MirrorInit DEF Init, MirrorState
<1>2. MirrorState /\ [Next]_nf => MirrorState'
  <2> SUFFICES ASSUME MirrorInv(nf), [Next]_nf PROVE MirrorInv(nf')
    BY DEF MirrorState
  <2>1. CASE PushVlan
    <3>1. PICK type \in PushTypes : nf' = netflow_push_vlan(nf, type)
      BY <2>1 DEF PushVlan
    <3>2. CASE nf.top < MaxStackSize - 1 /\ IsVlan(type)
      BY <3>1, <3>2, MirrorPushed
    <3>3. CASE ~(nf.top < MaxStackSize - 1 /\ IsVlan(type))
      <4>1. netflow_push_vlan(nf, type) = nf
        BY <3>3 DEF netflow_push_vlan
      <4> QED
        BY <3>1, <4>1
    <3> QED
      BY <3>2, <3>3
  <2>2. CASE PushMpls
    <3>1. PICK type \in PushTypes : nf' = netflow_push_mpls(nf, type)
      BY <2>2 DEF PushMpls
    <3>2. netflow_push_mpls(nf, type) = nf
      BY DEF netflow_push_mpls, VlanOnly
    <3> QED
      BY <3>1, <3>2
  <2>3. CASE PopVlan
    BY <2>3, MirrorPopped DEF PopVlan
  <2>4. CASE PopMpls
    BY <2>4 DEF PopMpls, VlanOnly
  <2>5. CASE SetField
    <3>1. PICK fv \in FieldValues : nf' = set_field(nf, fv[1], fv[2])
      BY <2>5 DEF SetField
    <3>2. /\ fv[1] = "vlan_id" => fv[2] \in SUBSET VLAN_VID_MASK
          /\ fv[1] = "vlan_pcp" => fv[2] \in SUBSET (0..2)
      BY DEF VlanOnly
    <3> QED
      BY <3>1, <3>2, MirrorSetField
  <2>6. CASE FromPacket
    <3>1. PICK p \in Packets : nf' = pkt_to_netflow(p, netflow_init)
      BY <2>6 DEF FromPacket
    <3>2. Untagged(p)
      BY PacketsAssumption DEF Untagged, VlanOnly
    <3> QED
      BY <3>1, <3>2, MirrorPacket
  <2>7. CASE ThroughController
    <3>1. netflow_to_pkt(nf).words = <<>>
      BY <2>7 DEF ThroughController, netflow_to_pkt
    <3>2. Untagged(netflow_to_pkt(nf))
      BY <3>1 DEF Untagged
    <3> QED
      BY <2>7, <3>2, MirrorPacket DEF ThroughController
  <2>8. CASE UNCHANGED nf
    BY <2>8
  <2> QED
    BY <2>1, <2>2, <2>3, <2>4, <2>5, <2>6, <2>7, <2>8 DEF Next
<1>3. MirrorState => VlanMatchMirrorsTag
  BY DEF MirrorState, MirrorInv, Mirrors, TagOf, VlanMatchMirrorsTag
<1> QED
  BY <1>1, <1>2, <1>3, PTL DEF Spec

-----------------------------------------------------------------------------
(* What the packet of a flow needs of its match: an ARP operation that the *)
(* parser reads, and no ICMPv6 fields, which it never reads.               *)
Sendable(m) ==
    /\ DOMAIN m = MatchFields /\ m["arp_op"] \subseteq BitRange(0, 7)
    /\ m["icmpv6_type"] = {} /\ m["icmpv6_code"] = {}

(* The packet of a flow without tags has the flow's type, addresses and    *)
(* the fields of its headers.                                              *)
LEMMA PacketOf ==
    ASSUME NEW n, Sendable(n.match), tags_to_pkt(n) = <<>>
    PROVE  LET p == netflow_to_pkt(n)
               m == n.match
           IN  /\ Untagged(p) /\ p.words = <<>> /\ ~p.frag
               /\ p.eth_type = m["eth_type"] /\ p.eth_src = m["eth_src"]
               /\ p.eth_dst = m["eth_dst"]
               /\ m["eth_type"] = ETH_TYPE_LLDP => p.payload = n.payload
               /\ m["eth_type"] = ETH_TYPE_ARP =>
                     "net" \in p.headers /\ \A f \in ArpFields : p.fields[f] = m[f]
               /\ m["eth_type"] = ETH_TYPE_IP =>
                     /\ "net" \in p.headers
                     /\ L4Of(m["ip_proto"]) # {} => "l4" \in p.headers
                     /\ \A f \in {"ip_proto", "ipv4_src", "ipv4_dst"} \union L4Of(m["ip_proto"]) :
                           p.fields[f] = m[f]
<1> DEFINE m == n.match
           ip == m["eth_type"] = ETH_TYPE_IP
           l4 == IF ip \/ m["eth_type"] = ETH_TYPE_IPV6 THEN L4Of(m["ip_proto"]) ELSE {}
           echo == l4 # {} /\ IsEcho(m["ip_proto"], m)
           net == CASE m["eth_type"] = ETH_TYPE_ARP -> ArpFields
                    [] ip -> {"ip_proto", "ipv4_src", "ipv4_dst"}
                    [] m["eth_type"] = ETH_TYPE_IPV6 -> {"ip_proto", "ipv6_src", "ipv6_dst"}
                    [] OTHER -> {}
           fields == [f \in MatchFields |-> IF f \in net \union l4 THEN m[f] ELSE {}]
           tos == IF ip THEN Shl(m["ip_dscp"], 1, 8) \union m["ip_ecn"] ELSE {}
           info == IF echo THEN n.info ELSE {}
           payload == IF m["eth_type"] = ETH_TYPE_LLDP THEN n.payload ELSE {}
           headers == (IF net # {} THEN {"net"} ELSE {})
                        \union (IF l4 # {} THEN {"l4"} ELSE {})
                        \union (IF echo THEN {"echo"} ELSE {})
           p == [eth_type |-> m["eth_type"], eth_src |-> m["eth_src"], eth_dst |-> m["eth_dst"],
                 words |-> tags_to_pkt(n), fields |-> fields, tos |-> tos, info |-> info,
                 payload |-> payload, frag |-> FALSE, headers |-> headers]
<1>1. netflow_to_pkt(n) = p
  BY Zenon DEF netflow_to_pkt
<1>2. ip => /\ net = {"ip_proto", "ipv4_src", "ipv4_dst"} /\ l4 = L4Of(m["ip_proto"])
            /\ net # {}
  BY TypesDiffer
<1>3. m["eth_type"] = ETH_TYPE_ARP => net = ArpFields /\ net # {}
  BY TypesDiffer DEF ArpFields
<1>4. ArpFields \subseteq MatchFields /\ \A proto : L4Of(proto) \subseteq MatchFields
      /\ {"ip_proto", "ipv4_src", "ipv4_dst"} \subseteq MatchFields
  BY DEF L4Of, MatchFields, L4Fields
<1> HIDE DEF l4, net
<1>5. \A f \in MatchFields : f \in net \union l4 => fields[f] = m[f]
  OBVIOUS
<1>6. (net # {} => "net" \in headers) /\ (l4 # {} => "l4" \in headers)
  OBVIOUS
<1> HIDE DEF fields, headers, tos, info
<1>7. ip => /\ "net" \in headers /\ (L4Of(m["ip_proto"]) # {} => "l4" \in headers)
            /\ \A f \in {"ip_proto", "ipv4_src", "ipv4_dst"} \union L4Of(m["ip_proto"]) :
                  fields[f] = m[f]
  BY <1>2, <1>4, <1>5, <1>6
<1>8. m["eth_type"] = ETH_TYPE_ARP =>
         "net" \in headers /\ \A f \in ArpFields : fields[f] = m[f]
  BY <1>3, <1>4, <1>5, <1>6
<1>9. m["eth_type"] = ETH_TYPE_LLDP => payload = n.payload
  OBVIOUS
<1> HIDE DEF payload, m
<1>10. /\ p.eth_type = m["eth_type"] /\ p.eth_src = m["eth_src"] /\ p.eth_dst = m["eth_dst"]
       /\ p.words = <<>> /\ p.fields = fields /\ p.payload = payload /\ p.headers = headers
  OBVIOUS
<1>11. ~p.frag
  BY Zenon
<1> HIDE DEF p
<1>12. Untagged(p)
  BY <1>10 DEF Untagged
<1> QED
  BY <1>1, <1>7, <1>8, <1>9, <1>10, <1>11, <1>12 DEF m

-----------------------------------------------------------------------------
(* The packet of a flow becomes a flow with the fields it carries.         *)
LEMMA PacketBack ==
    ASSUME NEW n, Sendable(n.match), tags_to_pkt(n) = <<>>
    PROVE  LET back == pkt_to_netflow(netflow_to_pkt(n), netflow_init)
           IN  /\ \A f \in Carried(n.match) : back.match[f] = n.match[f]
               /\ n.match["eth_type"] = ETH_TYPE_LLDP => back.payload = n.payload
<1> DEFINE p == netflow_to_pkt(n)
           m == n.match
           e == Ethernet(p)
           back == pkt_to_netflow(p, netflow_init)
           t == m["eth_type"]
           E == {"eth_type", "eth_src", "eth_dst"}
<1>1. /\ Untagged(p) /\ p.words = <<>> /\ ~p.frag
      /\ p.eth_type = t /\ p.eth_src = m["eth_src"] /\ p.eth_dst = m["eth_dst"]
      /\ t = ETH_TYPE_LLDP => p.payload = n.payload
      /\ t = ETH_TYPE_ARP =>
            "net" \in p.headers /\ \A f \in ArpFields : p.fields[f] = m[f]
      /\ t = ETH_TYPE_IP =>
            /\ "net" \in p.headers
            /\ L4Of(m["ip_proto"]) # {} => "l4" \in p.headers
            /\ \A f \in {"ip_proto", "ipv4_src", "ipv4_dst"} \union L4Of(m["ip_proto"]) :
                  p.fields[f] = m[f]
  BY PacketOf
<1> HIDE DEF p
<1>2. /\ IsVlan(t) => back = e
      /\ IsMpls(t) => back = parse_mpls(e, p, 1)
      /\ t = ETH_TYPE_LLDP => back = [e EXCEPT !.payload = p.payload]
      /\ t = ETH_TYPE_ARP => back = parse_arp(e, p)
      /\ t = ETH_TYPE_IP => back = parse_ip(e, p)
      /\ (~IsVlan(t) /\ ~IsMpls(t) /\ t # ETH_TYPE_LLDP /\ t # ETH_TYPE_ARP
            /\ t # ETH_TYPE_IP) => back = e
  BY <1>1, UntaggedRead
<1>3. /\ DOMAIN e = Fields /\ DOMAIN e.match = MatchFields
      /\ \A f \in E : e.match[f] = m[f]
      /\ \A f \in MatchFields \ E : e.match[f] = {}
  BY <1>1, EthernetFacts
<1>4. Sendable(m) /\ E \subseteq MatchFields
  BY DEF MatchFields
<1> HIDE DEF e, back, m
<1>5. CASE t = ETH_TYPE_ARP
  <2> DEFINE op == p.fields["arp_op"]
             read == (IF op \subseteq BitRange(0, 7) THEN {"arp_op"} ELSE {})
                       \union (IF op \in {{0}, {1}} THEN ArpFields ELSE {})
             new == [f \in MatchFields |-> IF f \in read THEN p.fields[f] ELSE e.match[f]]
  <2>1. back = [e EXCEPT !.match = new]
    BY <1>1, <1>2, <1>5 DEF parse_arp
  <2>2. "arp_op" \in ArpFields /\ ArpFields \subseteq MatchFields /\ ArpFields \intersect E = {}
    BY DEF ArpFields, MatchFields
  <2>3. op = m["arp_op"]
    BY <1>1, <1>5, <2>2
  <2>4. Carried(m) = E \union IF m["arp_op"] \in {{0}, {1}} THEN ArpFields ELSE {"arp_op"}
    BY <1>5, TypesDiffer DEF Carried
  <2>5. Carried(m) \subseteq E \union read /\ read \subseteq ArpFields
    BY <1>4, <2>2, <2>3, <2>4 DEF Sendable
  <2> HIDE DEF read, op
  <2>6. back.match = new
    BY <1>3, <2>1 DEF Fields
  <2>7. ASSUME NEW f \in Carried(m) PROVE new[f] = m[f]
    <3>1. CASE f \in read
      BY <1>1, <1>5, <2>2, <2>5, <3>1
    <3>2. CASE f \notin read
      <4>1. f \in E /\ f \in MatchFields
        BY <1>4, <2>5, <3>2
      <4> QED
        BY <1>3, <3>2, <4>1
    <3> QED
      BY <3>1, <3>2
  <2>8. t # ETH_TYPE_LLDP
    BY <1>5, TypesDiffer
  <2> HIDE DEF new
  <2> QED
    BY <2>6, <2>7, <2>8 DEF back, m, p
<1>6. CASE t = ETH_TYPE_IP
  <2> DEFINE three == {"ipv4_src", "ipv4_dst", "ip_proto"}
             m0 == [f \in MatchFields |-> IF f \in three THEN p.fields[f] ELSE e.match[f]]
             m1 == [m0 EXCEPT !["ip_ecn"] = p.tos \intersect {0, 1},
                              !["ip_dscp"] = Shr(p.tos, 2)]
             ip == [e EXCEPT !.match = m1]
             l4 == L4Of(m["ip_proto"])
             icmpv6 == {"icmpv6_type", "icmpv6_code"}
             proto == ip.match["ip_proto"]
             q == IF "l4" \in p.headers THEN L4Of(proto) \ icmpv6 ELSE {}
             m4 == [f \in MatchFields |-> IF f \in q THEN p.fields[f] ELSE ip.match[f]]
             c == /\ q # {}
                  /\ \/ proto = IP_PROTO_TCP
                     \/ IsEcho(proto, m4) /\ "echo" \in p.headers
  <2>1. back = parse_l4(ip, p)
    BY <1>1, <1>2, <1>6 DEF parse_ip
  <2>2. /\ three \subseteq MatchFields /\ three \intersect (E \union L4Fields) = {}
        /\ "ip_ecn" \notin E \union three \union L4Fields
        /\ "ip_dscp" \notin E \union three \union L4Fields
        /\ L4Fields \subseteq MatchFields /\ L4Fields \intersect E = {}
    BY DEF L4Fields, MatchFields
  <2>3. l4 \subseteq L4Fields
    BY DEF L4Of, L4Fields
  <2>4. \A f \in three : p.fields[f] = m[f]
    BY <1>1, <1>6
  <2>5. /\ DOMAIN m1 = MatchFields
        /\ \A f \in three : m1[f] = m[f]
        /\ \A f \in E \union L4Fields : m1[f] = e.match[f]
    <3>1. DOMAIN m0 = MatchFields
      OBVIOUS
    <3>2. \A f \in three : m0[f] = m[f]
      BY <2>2, <2>4
    <3>3. \A f \in E \union L4Fields : m0[f] = e.match[f]
      BY <1>4, <2>2
    <3>4. DOMAIN m1 = MatchFields
      BY <3>1
    <3> HIDE DEF m0
    <3>5. \A f \in E \union three \union L4Fields : m1[f] = m0[f]
      BY <1>4, <2>2, <3>1
    <3> HIDE DEF m1, three, E
    <3> QED
      BY <3>2, <3>3, <3>4, <3>5
  <2>6. m1["ip_proto"] = m["ip_proto"]
    BY <2>5
  <2> HIDE DEF m1
  <2>7. ip.match = m1 /\ DOMAIN ip = Fields
    BY <1>3 DEF Fields
  <2> HIDE DEF ip
  <2>8. parse_l4(ip, p) = [ip EXCEPT !.match = m4, !.info = IF c THEN p.info ELSE ip.info]
    BY DEF parse_l4
  <2> HIDE DEF m4, c
  <2>q. q = IF "l4" \in p.headers THEN l4 \ icmpv6 ELSE {}
    BY <2>6, <2>7
  <2> HIDE DEF q
  <2>9. back.match = m4
    BY <2>1, <2>7, <2>8 DEF Fields
  <2>10. Carried(m) = E \union (three \union l4)
    BY <1>6, TypesDiffer DEF Carried
  <2>11. ASSUME NEW f \in Carried(m) PROVE m4[f] = m[f]
    <3>1. f \in MatchFields
      BY <1>4, <2>2, <2>3, <2>10
    <3>2. m4[f] = IF f \in q THEN p.fields[f] ELSE m1[f]
      BY <2>7, <3>1 DEF m4
    <3>3. CASE f \in q
      <4>1. f \in l4
        BY <2>q, <3>3
      <4>2. p.fields[f] = m[f]
        BY <1>1, <1>6, <4>1
      <4> QED
        BY <3>2, <3>3, <4>2
    <3>4. CASE f \notin q /\ f \in l4
      <4>1. "l4" \in p.headers
        BY <1>1, <1>6, <3>4
      <4>2. f \in icmpv6
        BY <2>q, <3>4, <4>1
      <4>3. m[f] = {}
        BY <1>4, <4>2 DEF Sendable
      <4>4. m1[f] = {}
        BY <1>3, <2>2, <2>3, <2>5, <3>1, <3>4
      <4> QED
        BY <3>2, <3>4, <4>3, <4>4
    <3>5. CASE f \notin l4
      <4>1. f \notin q
        BY <2>q, <3>5
      <4>2. f \in E \/ f \in three
        BY <2>10, <3>5
      <4>3. m1[f] = m[f]
        BY <1>3, <2>5, <4>2
      <4> QED
        BY <3>2, <4>1, <4>3
    <3> QED
      BY <3>3, <3>4, <3>5
  <2>12. t # ETH_TYPE_LLDP
    BY <1>6, TypesDiffer
  <2> QED
    BY <2>9, <2>11, <2>12 DEF back, m, p
<1>7. CASE t # ETH_TYPE_ARP /\ t # ETH_TYPE_IP
  <2>1. Carried(m) = E
    BY <1>7 DEF Carried
  <2>2. parse_mpls(e, p, 1) = e
    <3>1. 1 > Len(p.words)
      BY <1>1
    <3> QED
      BY <3>1 DEF parse_mpls
  <2>3. back = e \/ back = [e EXCEPT !.payload = p.payload]
    BY <1>2, <1>7, <2>2
  <2>4. back.match = e.match
    BY <1>3, <2>3 DEF Fields
  <2>5. t = ETH_TYPE_LLDP => back.payload = n.payload
    <3>1. t = ETH_TYPE_LLDP => back = [e EXCEPT !.payload = p.payload] /\ p.payload = n.payload
      BY <1>1, <1>2
    <3> QED
      BY <1>3, <3>1 DEF Fields
  <2> QED
    BY <1>3, <2>1, <2>4, <2>5 DEF back, m, p
<1> QED
  BY <1>5, <1>6, <1>7

-----------------------------------------------------------------------------
(* The invariant of PacketKeepsFields: a flow has its fields, and a match  *)
(* that its packet carries.                                                *)
CarryInv(n) == DOMAIN n = Fields /\ Sendable(n.match)

CarryState == CarryInv(nf)

(* An ARP operation is set to a value of its eight bits.                   *)
ArpOpsFit == \A fv \in FieldValues : fv[1] = "arp_op" => fv[2] \subseteq BitRange(0, 7)

(* A match stays sendable when any other field of it is set.               *)
LEMMA SendableSet ==
    ASSUME NEW m, Sendable(m), NEW f, NEW v,
           f \notin {"icmpv6_type", "icmpv6_code"},
           f = "arp_op" => v \subseteq BitRange(0, 7)
    PROVE  Sendable([m EXCEPT ![f] = v])
BY DEF Sendable, MatchFields, L4Fields, ArpFields

(* A new match replaces the one of a flow.                                 *)
LEMMA CarryMatch ==
    ASSUME NEW n, CarryInv(n), NEW m, Sendable(m)
    PROVE  CarryInv([n EXCEPT !.match = m])
BY DEF CarryInv, Fields

(* netflow_init: every field is zero.                                      *)
LEMMA CarryInit == CarryInv(netflow_init)
BY DEF CarryInv, Fields, Sendable, netflow_init, MatchFields, L4Fields, ArpFields

(* A push of a VLAN tag leaves the match alone.                            *)
LEMMA CarryPushVlan ==
    ASSUME NEW n, CarryInv(n), NEW type
    PROVE  CarryInv(netflow_push_vlan(n, type))
BY DEF CarryInv, Fields, netflow_push_vlan

(* A push of an MPLS tag sets two fields of the match.                     *)
LEMMA CarryPushMpls ==
    ASSUME NEW n, CarryInv(n), NEW type
    PROVE  CarryInv(netflow_push_mpls(n, type))
<1>1. ASSUME NEW bos
      PROVE  Sendable([n.match EXCEPT !["mpls_bos"] = bos, !["eth_type"] = type])
  BY SendableSet DEF CarryInv
<1> DEFINE top == n.top + 1
           prev == n.level[n.top]
           over == n.top # STACK_EMPTY /\ IsMpls(prev.type)
           fields == IF n.top = STACK_EMPTY THEN MPLS_S_MASK
                     ELSE IF over THEN prev.w \ MPLS_S_MASK ELSE n.level[top].w
           bos == IF n.top = STACK_EMPTY THEN {0}
                  ELSE IF over THEN {} ELSE n.match["mpls_bos"]
           m == [n.match EXCEPT !["mpls_bos"] = bos, !["eth_type"] = type]
           tag == [type |-> type, w |-> fields]
<1>2. \/ netflow_push_mpls(n, type) = n
      \/ netflow_push_mpls(n, type) =
            [n EXCEPT !.top = top, !.level[top] = tag, !.match = m]
  BY DEF netflow_push_mpls
<1>3. Sendable(m)
  BY <1>1
<1> HIDE DEF m, tag
<1> QED
  BY <1>2, <1>3 DEF CarryInv, Fields

(* A pop of a VLAN tag sets the fields of the tag it exposes.              *)
LEMMA CarryPopVlan ==
    ASSUME NEW n, CarryInv(n)
    PROVE  CarryInv(netflow_pop_vlan(n))
<1> DEFINE popped == [n EXCEPT !.top = @ - 1, !.level[n.top] = EmptyTag]
<1>1. CarryInv(popped)
  BY DEF CarryInv, Fields
<1> HIDE DEF popped
<1>2. ASSUME NEW a, NEW b
      PROVE  CarryInv([popped EXCEPT !.match =
                          [@ EXCEPT !["vlan_id"] = a, !["vlan_pcp"] = b]])
  <2>1. Sendable([popped.match EXCEPT !["vlan_id"] = a, !["vlan_pcp"] = b])
    BY <1>1, SendableSet DEF CarryInv
  <2> QED
    BY <1>1, <2>1, CarryMatch
<1> QED
  BY <1>2 DEF netflow_pop_vlan, popped

(* A pop of an MPLS tag sets the type and the fields of a tag.             *)
LEMMA CarryPopMpls ==
    ASSUME NEW n, CarryInv(n), NEW type
    PROVE  CarryInv(netflow_pop_mpls(n, type))
<1> DEFINE m == [n.match EXCEPT !["eth_type"] = type, !["mpls_label"] = {},
                                !["mpls_tc"] = {}, !["mpls_bos"] = {}]
<1>1. Sendable(m)
  BY SendableSet DEF CarryInv
<1>2. netflow_pop_mpls(n, type) = n
      \/ netflow_pop_mpls(n, type) =
           [n EXCEPT !.top = @ - 1, !.level[n.top] = EmptyTag, !.match = m]
  BY DEF netflow_pop_mpls
<1> HIDE DEF m
<1> QED
  BY <1>1, <1>2 DEF CarryInv, Fields

(* A field is set: the ICMPv6 fields are among those left alone.           *)
LEMMA CarrySetField ==
    ASSUME NEW n, CarryInv(n), NEW field, NEW value,
           field = "arp_op" => value \subseteq BitRange(0, 7)
    PROVE  CarryInv(set_field(n, field, value))
<1>1. field \notin UnsetFields => field \notin {"icmpv6_type", "icmpv6_code"}
  BY DEF UnsetFields
<1>2. ASSUME field \notin UnsetFields, field = "arp_op" => value \subseteq BitRange(0, 7),
             NEW v, field = "arp_op" => v \subseteq BitRange(0, 7)
      PROVE  Sendable([n.match EXCEPT ![field] = v])
  BY <1>1, <1>2, SendableSet DEF CarryInv
<1>3. ASSUME field \notin UnsetFields, NEW v, field = "arp_op" => v \subseteq BitRange(0, 7)
      PROVE  CarryInv([n EXCEPT !.match[field] = v])
  <2>1. Sendable([n.match EXCEPT ![field] = v])
    BY <1>2, <1>3
  <2>2. [n EXCEPT !.match[field] = v] = [n EXCEPT !.match = [n.match EXCEPT ![field] = v]]
    OBVIOUS
  <2> QED
    BY <2>1, <2>2, CarryMatch
<1>4. ASSUME field \in {"vlan_id", "vlan_pcp"} PROVE CarryInv(set_vlan_field(n, field, value))
  <2>1. field \notin UnsetFields /\ field # "arp_op"
    BY <1>4 DEF UnsetFields
  <2>2. CarryInv([n EXCEPT !.match[field] = value])
    BY <1>3, <2>1
  <2>3. ASSUME NEW w PROVE CarryInv([n EXCEPT !.match[field] = value, !.level[n.top] = w])
    BY <2>2 DEF CarryInv, Fields
  <2> QED
    BY <2>3 DEF set_vlan_field, WithVlanTag
<1>5. ASSUME field \in {"mpls_label", "mpls_tc", "mpls_bos"}
      PROVE  CarryInv(set_mpls_field(n, field, value))
  <2>1. field \notin UnsetFields /\ field # "arp_op"
    BY <1>5 DEF UnsetFields
  <2>2. CarryInv([n EXCEPT !.match[field] = value])
    BY <1>3, <2>1
  <2>3. ASSUME NEW w PROVE CarryInv([n EXCEPT !.match[field] = value, !.level[n.top].w = w])
    BY <2>2 DEF CarryInv, Fields
  <2> QED
    BY <2>3 DEF set_mpls_field
<1>6. CASE field \in {"vlan_id", "vlan_pcp"}
  BY <1>4, <1>6 DEF set_field, UnsetFields
<1>7. CASE field \in {"mpls_label", "mpls_tc", "mpls_bos"}
  BY <1>5, <1>7 DEF set_field, UnsetFields
<1>8. CASE field = "ipv6_nd_target"
  <2>1. field \notin UnsetFields /\ field # "arp_op"
    BY <1>8 DEF UnsetFields
  <2>2. set_field(n, field, value) =
          [n EXCEPT !.match[field] = Trunc(value, 48) \union {b \in @ : b >= 48}]
    BY <1>8 DEF set_field, UnsetFields
  <2> DEFINE v == Trunc(value, 48) \union {b \in n.match[field] : b >= 48}
  <2>3. set_field(n, field, value) = [n EXCEPT !.match[field] = v]
    BY <2>2
  <2> HIDE DEF v
  <2> QED
    BY <1>3, <2>1, <2>3
<1>9. CASE field \in UnsetFields
  BY <1>9 DEF set_field, UnsetFields
<1>10. CASE /\ field \notin UnsetFields \union {"vlan_id", "vlan_pcp"}
            /\ field \notin {"mpls_label", "mpls_tc", "mpls_bos", "ipv6_nd_target"}
  <2>1. set_field(n, field, value) = [n EXCEPT !.match[field] = value]
    BY <1>10 DEF set_field
  <2> QED
    BY <1>3, <1>10, <2>1
<1> QED
  BY <1>6, <1>7, <1>8, <1>9, <1>10

(* The VLAN tags of a packet are read into three fields of the match.      *)
LEMMA CarryVlan ==
    ASSUME NEW n, CarryInv(n), NEW p
    PROVE  CarryInv(parse_vlan(n, p).flow)
<1> DEFINE Type(i) == IF i = 0 THEN p.eth_type ELSE Shr(p.words[i], 16)
           stops == {i \in 0..Len(p.words) : ~IsVlan(Type(i))}
           read == IF stops = {} THEN Len(p.words)
                   ELSE CHOOSE i \in stops : \A j \in stops : i <= j
           tag == Trunc(p.words[1], 16)
           tagged == [n EXCEPT !.match =
                         [@ EXCEPT !["vlan_id"]  = tag \intersect VLAN_VID_MASK,
                                   !["vlan_pcp"] = Shr(tag \intersect VLAN_PCP_MASK, 13)]]
           base == IF read = 0 THEN n ELSE tagged
           level == [i \in DOMAIN base.level |->
                         IF i \in (n.top + 1)..(n.top + read)
                         THEN [type |-> Type(i - n.top), w |-> Rev32(p.words[i - n.top])]
                         ELSE base.level[i]]
           type == Type(read)
           top == base.top + read
<1>1. CarryInv(tagged)
  <2>1. ASSUME NEW a, NEW b
        PROVE  Sendable([n.match EXCEPT !["vlan_id"] = a, !["vlan_pcp"] = b])
    BY SendableSet DEF CarryInv
  <2> QED
    BY <2>1, CarryMatch
<1>2. CarryInv(base)
  BY <1>1
<1>3. parse_vlan(n, p).flow =
        [base EXCEPT !.match["eth_type"] = type, !.top = top, !.level = level]
  BY DEF parse_vlan
<1> HIDE DEF base, read, Type, level, type, top
<1>4. ASSUME NEW v PROVE Sendable([base.match EXCEPT !["eth_type"] = v])
  BY <1>2, SendableSet DEF CarryInv
<1>5. CarryInv([base EXCEPT !.match["eth_type"] = type, !.top = top, !.level = level])
  BY <1>2, <1>4 DEF CarryInv, Fields
<1> QED
  BY <1>3, <1>5

(* The rest of a packet: an ARP operation is read when it fits eight bits, *)
(* the ICMPv6 fields never.                                                *)
LEMMA CarryPacket ==
    ASSUME NEW p
    PROVE  CarryInv(pkt_to_netflow(p, netflow_init))
<1> DEFINE n == netflow_init
           eth == [n EXCEPT !.match = [@ EXCEPT !["eth_type"] = p.eth_type,
                                                !["eth_src"] = p.eth_src,
                                                !["eth_dst"] = p.eth_dst]]
           v == parse_vlan(eth, p)
           f == v.flow
<1>1. CarryInv(eth)
  <2> HIDE DEF n
  <2>1. CarryInv(n)
    BY CarryInit DEF n
  <2>2. ASSUME NEW a, NEW b, NEW c
        PROVE  Sendable([n.match EXCEPT !["eth_type"] = a, !["eth_src"] = b,
                                        !["eth_dst"] = c])
    BY <2>1, SendableSet DEF CarryInv
  <2> QED
    BY <2>1, <2>2, CarryMatch
<1> HIDE DEF eth
<1>2. CarryInv(f)
  BY <1>1, CarryVlan
<1> HIDE DEF f, v
<1>3. CarryInv(parse_mpls(f, p, v.next))
  <2>1. ASSUME NEW a, NEW b, NEW c
        PROVE  Sendable([f.match EXCEPT !["mpls_label"] = a, !["mpls_tc"] = b,
                                        !["mpls_bos"] = c])
    BY <1>2, SendableSet DEF CarryInv
  <2> QED
    BY <1>2, <2>1, CarryMatch DEF parse_mpls
<1>4. CarryInv(parse_arp(f, p))
  <2> DEFINE op == p.fields["arp_op"]
             read == (IF op \subseteq BitRange(0, 7) THEN {"arp_op"} ELSE {})
                       \union (IF op \in {{0}, {1}} THEN ArpFields ELSE {})
             m == [x \in MatchFields |-> IF x \in read THEN p.fields[x] ELSE f.match[x]]
  <2>1. "arp_op" \in read => op \subseteq BitRange(0, 7)
    BY DEF BitRange
  <2>2. "icmpv6_type" \notin read /\ "icmpv6_code" \notin read
    BY DEF ArpFields
  <2>3. parse_arp(f, p) = f \/ parse_arp(f, p) = [f EXCEPT !.match = m]
    BY DEF parse_arp
  <2> HIDE DEF read
  <2>4. Sendable(m)
    <3>1. {"arp_op", "icmpv6_type", "icmpv6_code"} \subseteq MatchFields
      BY DEF MatchFields, ArpFields, L4Fields
    <3> QED
      BY <1>2, <2>1, <2>2, <3>1 DEF CarryInv, Sendable
  <2> HIDE DEF m
  <2> QED
    BY <1>2, <2>3, <2>4, CarryMatch
<1>5. CarryInv(parse_ip(f, p))
  <2>1. ASSUME NEW g, CarryInv(g) PROVE CarryInv(parse_l4(g, p))
    <3> DEFINE proto == g.match["ip_proto"]
               read == IF "l4" \in p.headers
                       THEN L4Of(proto) \ {"icmpv6_type", "icmpv6_code"} ELSE {}
               m == [x \in MatchFields |-> IF x \in read THEN p.fields[x] ELSE g.match[x]]
               info == IF /\ read # {}
                          /\ \/ proto = IP_PROTO_TCP
                             \/ IsEcho(proto, m) /\ "echo" \in p.headers
                       THEN p.info ELSE g.info
    <3>1. parse_l4(g, p) = [g EXCEPT !.match = m, !.info = info]
      BY DEF parse_l4
    <3>2. read \intersect {"arp_op", "icmpv6_type", "icmpv6_code"} = {}
      BY DEF L4Of
    <3> HIDE DEF read
    <3>3. Sendable(m)
      <4>1. {"arp_op", "icmpv6_type", "icmpv6_code"} \subseteq MatchFields
        BY DEF MatchFields, ArpFields, L4Fields
      <4> QED
        BY <2>1, <3>2, <4>1 DEF CarryInv, Sendable
    <3> HIDE DEF m, info
    <3> QED
      BY <2>1, <3>1, <3>3 DEF CarryInv, Fields
  <2> DEFINE three == {"ipv4_src", "ipv4_dst", "ip_proto"}
             m0 == [x \in MatchFields |-> IF x \in three THEN p.fields[x] ELSE f.match[x]]
             m == [m0 EXCEPT !["ip_ecn"] = p.tos \intersect {0, 1},
                             !["ip_dscp"] = Shr(p.tos, 2)]
             ip == [f EXCEPT !.match = m]
  <2>2. Sendable(m0)
    <3>1. {"arp_op", "icmpv6_type", "icmpv6_code"} \subseteq MatchFields \ three
      BY DEF MatchFields, ArpFields, L4Fields
    <3> QED
      BY <1>2, <3>1 DEF CarryInv, Sendable
  <2>3. parse_ip(f, p) \in {f, ip, parse_l4(ip, p)}
    BY DEF parse_ip
  <2> HIDE DEF m0
  <2>4. Sendable(m)
    BY <2>2, SendableSet
  <2> HIDE DEF m
  <2>5. CarryInv(ip)
    BY <1>2, <2>4, CarryMatch
  <2> HIDE DEF ip
  <2> QED
    BY <1>2, <2>1, <2>3, <2>5
<1>6. CarryInv([f EXCEPT !.payload = p.payload])
  BY <1>2 DEF CarryInv, Fields
<1>7. pkt_to_netflow(p, n) \in
        {f, parse_mpls(f, p, v.next), [f EXCEPT !.payload = p.payload],
         parse_arp(f, p), parse_ip(f, p)}
  BY DEF pkt_to_netflow, eth, f, v
<1> QED
  BY <1>2, <1>3, <1>4, <1>5, <1>6, <1>7

(* A flow without tags that a datapath sends to the controller, and the    *)
(* controller sends back, keeps the fields that its packet carries,        *)
(* whatever pushes, pops, field settings and packets made it.              *)
THEOREM PacketKeepsFieldsHolds ==
    ASSUME ArpOpsFit PROVE Spec => []PacketKeepsFields
<1>1. Init => CarryState
  BY CarryInit DEF Init, CarryState
<1>2. CarryState /\ [Next]_nf => CarryState'
  <2> SUFFICES ASSUME CarryInv(nf), [Next]_nf PROVE CarryInv(nf')
    BY DEF CarryState
  <2>1. CASE PushVlan
    BY <2>1, CarryPushVlan DEF PushVlan
  <2>2. CASE PushMpls
    BY <2>2, CarryPushMpls DEF PushMpls
  <2>3. CASE PopVlan
    BY <2>3, CarryPopVlan DEF PopVlan
  <2>4. CASE PopMpls
    BY <2>4, CarryPopMpls DEF PopMpls
  <2>5. CASE SetField
    <3>1. PICK fv \in FieldValues : nf' = set_field(nf, fv[1], fv[2])
      BY <2>5 DEF SetField
    <3>2. fv[1] = "arp_op" => fv[2] \subseteq BitRange(0, 7)
      BY DEF ArpOpsFit
    <3> QED
      BY <3>1, <3>2, CarrySetField
  <2>6. CASE FromPacket
    BY <2>6, CarryPacket DEF FromPacket
  <2>7. CASE ThroughController
    BY <2>7, CarryPacket DEF ThroughController
  <2>8. CASE UNCHANGED nf
    BY <2>8
  <2> QED
    BY <2>1, <2>2, <2>3, <2>4, <2>5, <2>6, <2>7, <2>8 DEF Next
<1>3. CarryState => PacketKeepsFields
  BY PacketBack DEF CarryState, CarryInv, PacketKeepsFields
<1> QED
  BY <1>1, <1>2, <1>3, PTL DEF Spec
=============================================================================

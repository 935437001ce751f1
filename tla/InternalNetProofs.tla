-------------------------- MODULE InternalNetProofs --------------------------
(***************************************************************************)
(* The internal addresses of routers are distinct, for every limit of the  *)
(* bytes: TypeOK and Growing are inductive together, and imply             *)
(* AddressesDistinct.                                                      *)
(***************************************************************************)
EXTENDS InternalNet, TLAPS

IInv == TypeOK /\ Growing

(* The bytes after a call are bytes again, and greater unless the          *)
(* addresses have run out (gen_internal_ip).                               *)
LEMMA NextBytesGrow ==
    ASSUME NEW b \in Bytes
    PROVE  /\ NextBytes(b) \in Bytes
           /\ ~Exhausted(b) => Less(b, NextBytes(b))
           /\ Exhausted(b) => NextBytes(b) = b
  BY MaxByteAssumption DEF Bytes, NextBytes, Exhausted, Less

(* The order of addresses is a strict one.                                 *)
LEMMA LessTransitive ==
    ASSUME NEW a \in Bytes, NEW b \in Bytes, NEW c \in Bytes, Less(a, b), Less(b, c)
    PROVE  Less(a, c) /\ a # c
  BY MaxByteAssumption DEF Bytes, Less

(* The order of addresses is strict. *)
LEMMA LessIrreflexive ==
    ASSUME NEW a \in Bytes
    PROVE  ~Less(a, a) /\ a # Unset /\ ~Less(ServerAddress, a)
  BY MaxByteAssumption DEF Bytes, Less, Unset, ServerAddress

(* A call keeps the invariant: what is appended is greater than all that   *)
(* was given, which is at most internal_last_bytes.                        *)
LEMMA StepKeepsInv == IInv /\ [Next]_vars => IInv'
<1> SUFFICES ASSUME IInv, [Next]_vars PROVE IInv'
  OBVIOUS
<1>1. CASE UNCHANGED vars
  BY <1>1 DEF IInv, TypeOK, Growing, vars
<1>2. CASE Next
  <2> DEFINE a == gen_internal_ip(last)
  <2>1. /\ last \in Bytes /\ given \in Seq(Bytes \union {Unset})
        /\ given' = Append(given, a) /\ last' = NextBytes(last)
        /\ \A i \in DOMAIN given : given[i] # Unset
    BY <1>2 DEF IInv, TypeOK, Next, StartRouter
  <2>2. /\ last' \in Bytes
        /\ ~Exhausted(last) => a = last' /\ Less(last, last')
        /\ Exhausted(last) => a = Unset /\ last' = last
    BY <2>1, NextBytesGrow DEF gen_internal_ip
  <2>3. a \in Bytes \union {Unset}
    BY <2>2
  <2> HIDE DEF a
  <2>4. /\ DOMAIN given = 1..Len(given) /\ Len(given) \in Nat
        /\ \A i \in DOMAIN given : given[i] \in Bytes
    BY <2>1, LessIrreflexive
  <2>5. /\ DOMAIN given' = 1..(Len(given) + 1) /\ Len(given') = Len(given) + 1
        /\ \A i \in DOMAIN given : given'[i] = given[i]
        /\ given'[Len(given) + 1] = a
    BY <2>1, <2>3, <2>4
  <2>6. \A i \in DOMAIN given : given[i] = last \/ Less(given[i], last)
    BY <2>1 DEF IInv, Growing
  <2>7. \A i \in DOMAIN given : given[i] = last' \/ Less(given[i], last')
    BY <2>1, <2>2, <2>4, <2>6, LessTransitive
  <2>8. ASSUME NEW i \in DOMAIN given', NEW j \in DOMAIN given', i < j, given'[j] # Unset
        PROVE  Less(given'[i], given'[j])
    <3>1. CASE j \in DOMAIN given
      BY <2>4, <2>5, <2>8, <3>1 DEF IInv, Growing
    <3>2. CASE j = Len(given) + 1
      <4>1. i \in DOMAIN given /\ a # Unset /\ a = last' /\ Less(last, last')
        BY <2>2, <2>4, <2>5, <2>8, <3>2
      <4>2. Less(given[i], last')
        BY <2>1, <2>2, <2>4, <2>6, <4>1, LessTransitive
      <4> QED BY <2>5, <3>2, <4>1, <4>2
    <3> QED BY <2>4, <2>5, <3>1, <3>2
  <2>9. ASSUME NEW i \in DOMAIN given', given'[i] # Unset
        PROVE  given'[i] = last' \/ Less(given'[i], last')
    BY <2>2, <2>4, <2>5, <2>7, <2>9
  <2>10. ASSUME NEW i \in DOMAIN given', given'[i] = Unset
         PROVE  i = Len(given') /\ Exhausted(last)'
    <3>1. i = Len(given) + 1 /\ a = Unset
      BY <2>1, <2>4, <2>5, <2>10
    <3>2. Exhausted(last)
      BY <2>2, <3>1, LessIrreflexive
    <3> QED BY <2>2, <2>5, <3>1, <3>2 DEF Exhausted
  <2>11. TypeOK'
    BY <2>1, <2>2, <2>3 DEF TypeOK
  <2> QED BY <2>8, <2>9, <2>10, <2>11 DEF IInv, Growing
<1> QED BY <1>1, <1>2 DEF vars

(* The addresses given grow, however many routers are started              *)
(* (gen_internal_ip).                                                      *)
THEOREM AddressesGrow == Spec => [](TypeOK /\ Growing)
<1>1. Init => IInv
  BY MaxByteAssumption DEF Init, IInv, TypeOK, Growing, Bytes
<1> QED BY <1>1, StepKeepsInv, PTL DEF Spec, IInv

(* No two routers have one address, and none has that of the server while  *)
(* there are others (gen_internal_ip, create_internal_devices).            *)
THEOREM AddressesDistinctHolds == Spec => []AddressesDistinct
<1>1. TypeOK /\ Growing => AddressesDistinct
  <2> SUFFICES ASSUME TypeOK, Growing PROVE AddressesDistinct
    OBVIOUS
  <2>1. \A i \in DOMAIN given : given[i] \in Bytes \union {Unset} /\ i \in Nat
    BY DEF TypeOK
  <2>2. ASSUME NEW i \in DOMAIN given, NEW j \in DOMAIN given, given[i] = given[j], i < j
        PROVE  FALSE
    <3>1. CASE given[j] = Unset
      BY <2>1, <2>2, <3>1 DEF Growing
    <3>2. CASE given[j] # Unset
      BY <2>1, <2>2, <3>2, LessIrreflexive DEF Growing
    <3> QED BY <3>1, <3>2
  <2>3. \A i, j \in DOMAIN given : given[i] = given[j] => i = j
    BY <2>1, <2>2
  <2>4. ASSUME NEW i \in DOMAIN given, given[i] = ServerAddress PROVE last = ServerAddress
    <3>1. given[i] # Unset
      BY <2>4, MaxByteAssumption DEF ServerAddress, Unset
    <3> QED BY <2>4, <3>1, LessIrreflexive DEF Growing, TypeOK
  <2> QED BY <2>3, <2>4 DEF AddressesDistinct
<1> QED BY <1>1, AddressesGrow, PTL
=============================================================================

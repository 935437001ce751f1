----------------------------- MODULE InternalNet -----------------------------
(***************************************************************************)
(* The routers of a simulation get their internal addresses one after the  *)
(* other (router_start).                                                   *)
(***************************************************************************)
EXTENDS InternalAddress

VARIABLES
    last,     \* internal_last_bytes
    given     \* the addresses of the routers, in the order they started

vars == <<last, given>>

Init == last = <<0, 0>> /\ given = <<>>

StartRouter ==
    /\ given' = Append(given, gen_internal_ip(last))
    /\ last' = NextBytes(last)

(* One router after the addresses ran out is enough to see what it gets.   *)
Next == ~(\E i \in DOMAIN given : given[i] = Unset) /\ StartRouter

Spec == Init /\ [][Next]_vars

(* The last two bytes of an address stay within a byte each. *)
TypeOK == last \in Bytes /\ given \in Seq(Bytes \union {Unset})

Less(a, b) == a[1] < b[1] \/ (a[1] = b[1] /\ a[2] < b[2])

(* No two routers get one address ("The value of the two last bytes        *)
(* increases by one in each namespace"), and none gets that of the server  *)
(* while there are others.                                                 *)
AddressesDistinct ==
    /\ \A i, j \in DOMAIN given : given[i] = given[j] => i = j
    /\ \A i \in DOMAIN given : given[i] = ServerAddress => last = ServerAddress

(* The addresses given grow, up to the last one, and no address is given   *)
(* after they have run out (gen_internal_ip leaves addr as it was).        *)
Growing ==
    /\ \A i, j \in DOMAIN given : i < j /\ given[j] # Unset => Less(given[i], given[j])
    /\ \A i \in DOMAIN given : given[i] # Unset => given[i] = last \/ Less(given[i], last)
    /\ \A i \in DOMAIN given : given[i] = Unset => i = Len(given) /\ Exhausted(last)
=============================================================================

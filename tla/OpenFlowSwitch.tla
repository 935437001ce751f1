--------------------------- MODULE OpenFlowSwitch ---------------------------
(***************************************************************************)
(* What a switch promises its controller: the rules it has been given, and *)
(* for every packet the outputs of the best rules that the packet meets.   *)
(* Datapath implements this for rules without timeouts whose priority      *)
(* depends on their match, changed without strict deletes.                 *)
(***************************************************************************)
EXTENDS Integers, Sequences

CONSTANTS
    Keys,           \* the keys of packets
    Rules,          \* the rules of the controller
    Counts,         \* how many packets a flow has
    OutLists        \* the outputs of packet-outs

VARIABLES
    rules,          \* the rules installed, with the packets that each has counted
    sent            \* the ports by which the last flow has still to leave

vars == <<rules, sent>>

(* A rule sends a packet to a later table, or outputs it to ports.         *)
IsGoto(r) == r.inst.kind = "goto" /\ r.inst.table > r.table

SameMatch(q, r) == q.table = r.table /\ q.key = r.key /\ q.mask = r.mask
Inside(q, r) == /\ q.table = r.table
                /\ r.mask \subseteq q.mask /\ q.key \intersect r.mask = r.key

Matching(table, key) == {r \in rules : r.table = table /\ r.key = key \intersect r.mask}
Best(table, key) == {r \in Matching(table, key) :
                        \A q \in Matching(table, key) : q.priority <= r.priority}

(* The rules that a packet meets, in each table one of the best.           *)
IsPath(path, key) ==
    LET next == IF path = <<>> THEN 0 ELSE path[Len(path)].inst.table
    IN /\ \A i \in DOMAIN path :
             IF i = 1 THEN path[i] \in Best(0, key)
             ELSE IsGoto(path[i - 1]) /\ path[i] \in Best(path[i - 1].inst.table, key)
       /\ path = <<>> \/ IsGoto(path[Len(path)]) => Best(next, key) = {}

Paths(key) == {path \in UNION {[1..n -> rules] : n \in 0..2} : IsPath(path, key)}

Init == rules = {} /\ sent = <<>>

Add == \E r \in Rules :
          /\ rules' = {q \in rules : ~SameMatch(q, r)} \union {r}
          /\ UNCHANGED sent

Modify == \E r \in Rules :
             /\ rules' = {IF Inside(q, r) THEN [q EXCEPT !.inst = r.inst] ELSE q : q \in rules}
             /\ UNCHANGED sent

ModifyStrict ==
    \E r \in Rules :
        /\ rules' = {IF SameMatch(q, r) THEN [q EXCEPT !.inst = r.inst] ELSE q : q \in rules}
        /\ UNCHANGED sent

Delete == \E r \in Rules : /\ rules' = {q \in rules : ~Inside(q, r)}
                           /\ UNCHANGED sent

Forward ==
    \E key \in Keys, n \in Counts : \E path \in Paths(key) :
        /\ rules' = {IF \E i \in DOMAIN path : path[i] = r
                     THEN [r EXCEPT !.pkts = @ + n] ELSE r : r \in rules}
        /\ sent' = IF path # <<>> /\ path[Len(path)].inst.kind = "output"
                   THEN path[Len(path)].inst.ports ELSE <<>>

Unknown == sent' = <<>> /\ UNCHANGED rules
Deliver == sent # <<>> /\ sent' = Tail(sent) /\ UNCHANGED rules
PacketOut == sent' \in OutLists /\ UNCHANGED rules

Next == Add \/ Modify \/ ModifyStrict \/ Delete \/ Forward \/ Unknown \/ Deliver \/ PacketOut

Spec == Init /\ [][Next]_vars
=============================================================================
